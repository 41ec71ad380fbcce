----------------------------- MODULE MCDNSCache -----------------------------
(***************************************************************************)
(* Instances of DNSCache for TLC.                                          *)
(***************************************************************************)
EXTENDS DNSCache
=============================================================================
