------------------------------- MODULE Pipes -------------------------------
(***************************************************************************)
(* What a relay promises: pipes that deliver what is put in, in order and  *)
(* once, until they are closed, and nothing after that.                    *)
(***************************************************************************)
EXTENDS Naturals, Sequences

CONSTANT Pipe

VARIABLES put,      \* what was put into each pipe
          taken,    \* what came out
          closed    \* the pipes that are closed

pipeVars == <<put, taken, closed>>

Init == put = [p \in Pipe |-> <<>>] /\ taken = put /\ closed = {}

\* Units are numbered in the order in which they are put.
Put(p) ==
    /\ put' = [put EXCEPT ![p] = Append(@, Len(@) + 1)]
    /\ UNCHANGED <<taken, closed>>

Take(p) ==
    /\ p \notin closed
    /\ \E n \in Len(taken[p])..Len(put[p]) :
          taken' = [taken EXCEPT ![p] = SubSeq(put[p], 1, n)]
    /\ UNCHANGED <<put, closed>>

Close(P) == closed' = closed \cup P /\ UNCHANGED <<put, taken>>

Next == (\E p \in Pipe : Put(p) \/ Take(p)) \/ \E P \in SUBSET Pipe : Close(P)

Spec == Init /\ [][Next]_pipeVars
=============================================================================
