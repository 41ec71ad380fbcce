--------------------------- MODULE MCProcessGroup ---------------------------
(***************************************************************************)
(* Instances of ProcessGroup for TLC.                                      *)
(***************************************************************************)
EXTENDS ProcessGroup
=============================================================================
