--------------------------- MODULE RequestBroker ---------------------------
(***************************************************************************)
(* What a ProcessGroup promises to whoever calls SendRequest(): every      *)
(* request gets at most one call of its Prom_IPC_Callback, with an answer  *)
(* or with an error, and a request that gets none was lost with the child  *)
(* process that held it.  Nothing is said of the order of the answers:     *)
(* requests are given to several child processes.                          *)
(*                                                                         *)
(* ProcessGroup implements this specification; DNSCache is built on it.    *)
(***************************************************************************)
CONSTANT Request    \* the requests, each submitted at most once

VARIABLE outcome    \* outcome[r]: what has become of request r

Outcomes == {"new", "pending", "answered", "failed", "lost"}

Final == {"answered", "failed", "lost"}

Init == outcome = [r \in Request |-> "new"]

\* A caller hands over request r.
Submit(r) ==
  /\ outcome[r] = "new"
  /\ outcome' = [outcome EXCEPT ![r] = "pending"]

\* The request is over: its callback got the answer ("answered"), got a NULL
\* answer and an errno ("failed"), or will never be called ("lost").
Finish(r, how) ==
  /\ outcome[r] = "pending"
  /\ how \in Final
  /\ outcome' = [outcome EXCEPT ![r] = how]

Next ==
  \E r \in Request :
    \/ Submit(r)
    \/ \E how \in Final : Finish(r, how)

Spec == Init /\ [][Next]_outcome

=============================================================================
