----------------------------- MODULE MCProcPool -----------------------------
(***************************************************************************)
(* Instances of ProcPool for TLC.                                          *)
(***************************************************************************)
EXTENDS ProcPool
=============================================================================
