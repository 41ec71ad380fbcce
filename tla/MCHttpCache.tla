----------------------------- MODULE MCHttpCache -----------------------------
(* Two resources, two clients and two downloads.                              *)
EXTENDS HttpCache, TLC

Symmetry == Permutations(Client) \cup Permutations(Id)

\* A behaviour ends when both resources are caught by a situation that ServedWhole names.
OneCaught == Cardinality(torn \cup forked) < 2
=============================================================================
