---------------------------- MODULE ProcessGroup ----------------------------
(***************************************************************************)
(* The pool of child processes of prometeo/processgroup.cpp and the parent *)
(* side of one child, prometeo/process.cpp.                                *)
(*                                                                         *)
(* SendRequest() gives a request to the first running idle child, or adds  *)
(* it to a FIFO.  The child reads it from a socket pair and writes back an *)
(* answer, which the parent reads in as many chunks as recv() returns; the *)
(* request's callback is called, the child becomes idle and RunQueue()     *)
(* empties the FIFO into the idle children.  Children may die at any time: *)
(* the parent learns of it only from the socket, as an end of file, or as  *)
(* an error (ECONNRESET) when the child left the request unread.           *)
(*                                                                         *)
(* The parent has a single thread, yet it is not one atomic step: the      *)
(* callback runs before BUSY is cleared and may call SendRequest() again,  *)
(* and SendRequest() ends in an AsyncRecv() that looks at the socket at    *)
(* once: an answer that is there, or the end of a child that is gone, runs *)
(* SocketEvent(), its callback and RunQueue() on the spot.  The parent's   *)
(* control state is "fresh", the child whose AsyncRecv() is about to look, *)
(* "rq", inside the loop of RunQueue(), and "cbs", the callbacks under way,*)
(* each with the "rq" of whatever it interrupted.  A nested RunQueue()     *)
(* leaves nothing for the outer one, so one flag will do between them.     *)
(***************************************************************************)
EXTENDS Naturals, Sequences

CONSTANTS
  Child,         \* the processes that Spawn() may create
  Mortal,        \* those of them that may die by themselves
  NReq,          \* number of requests submitted: bounds the behaviours
  Pieces,        \* length of an answer, in the smallest units recv() returns
  MinChildren,   \* ProcessGroup::MinChildren
  None           \* no child

ASSUME ProcessGroupAssumption ==
  /\ Mortal \subseteq Child
  /\ NReq \in Nat
  /\ Pieces \in Nat \ {0}
  /\ MinChildren \in Nat
  /\ None \notin Child

Request == 1..NReq

VARIABLES
  kids,      \* ProcessGroup::Children, in order
  running,   \* the children with PROM_PROCF_RUNNING
  busy,      \* the children with PROM_PROCF_BUSY
  cur,       \* cur[c]: the request of Process::Callback/CallbackData, 0 if none yet
  recving,   \* the children whose socket has an AsyncRecv() outstanding
  data,      \* data[c]: Process::Data, the pieces of the answer read so far
  queue,     \* ProcessGroup::Requests
  next,      \* the next request a caller will submit
  cbs,       \* the callbacks that are executing, the innermost last
  fresh,     \* the child whose AsyncRecv() is about to look, or None
  rq,        \* RunQueue() is executing
  proc,      \* proc[c]: the child process itself
  inbox,     \* inbox[c]: requests in the socket, on their way to the child
  job,       \* job[c]: the request the child read last
  outbox,    \* outbox[c]: pieces of answers in the socket, on their way back
  outcome    \* outcome[r]: what has become of request r (history)

parent == <<kids, running, busy, cur, recving, data, queue, next, cbs, fresh, rq>>
child  == <<proc, inbox, job, outbox>>
vars   == <<parent, child, outcome>>

\* SocketEvent() of a child in its callback: with an answer ("done") or with an error,
\* called out of the loop of RunQueue() or not.
Frame == [child : Child, answered : BOOLEAN, rq : BOOLEAN]

ProcState == {"unborn", "waiting", "serving", "dead", "gone"}

TypeOK ==
  /\ kids \in Seq(Child)
  /\ running \in SUBSET Child
  /\ busy \in SUBSET Child
  /\ cur \in [Child -> 0..NReq]
  /\ recving \in SUBSET Child
  /\ data \in [Child -> Seq(Request)]
  /\ queue \in Seq(Request)
  /\ next \in 1..(NReq + 1)
  /\ cbs \in Seq(Frame)
  /\ fresh \in Child \cup {None}
  /\ rq \in BOOLEAN
  /\ proc \in [Child -> ProcState]
  /\ inbox \in [Child -> Seq(Request)]
  /\ job \in [Child -> 0..NReq]
  /\ outbox \in [Child -> Seq(Request)]
  /\ outcome \in [Request -> {"new", "pending", "answered", "failed", "lost"}]

Init ==
  /\ kids = <<>>
  /\ running = {}
  /\ busy = {}
  /\ cur = [c \in Child |-> 0]
  /\ recving = {}
  /\ data = [c \in Child |-> <<>>]
  /\ queue = <<>>
  /\ next = 1
  /\ cbs = <<>>
  /\ fresh = None
  /\ rq = FALSE
  /\ proc = [c \in Child |-> "unborn"]
  /\ inbox = [c \in Child |-> <<>>]
  /\ job = [c \in Child |-> 0]
  /\ outbox = [c \in Child |-> <<>>]
  /\ outcome = [r \in Request |-> "new"]

-----------------------------------------------------------------------------
(* Choosing a child *)

\* Wrong: IsIdle() is not asked.
IdleIgnoresBusy(c) == c \in running

Idle(c) == c \in running /\ c \notin busy

\* FindIdleProcess() returns the i-th child: the first that is running and idle.
FirstIdle(i) ==
  /\ Idle(kids[i])
  /\ \A j \in 1..(i - 1) : ~Idle(kids[j])

\* FindIdleProcess() returns NULL.
NoneIdle == \A i \in DOMAIN kids : ~Idle(kids[i])

\* The parent is between two events: neither in a callback nor in RunQueue().
AtRest == cbs = <<>> /\ ~rq /\ fresh = None

\* The innermost callback.
Inner == cbs[Len(cbs)]

\* SocketEvent() of child c is in its callback.
InCallback(c) == \E k \in DOMAIN cbs : cbs[k].child = c

-----------------------------------------------------------------------------
(* Process::SendRequest(): the request goes to child c, and the AsyncRecv() *)
(* that ends SendRequest() looks for the answer.  What is sent to a child   *)
(* that is gone is thrown away.                                             *)

Give(c, r) ==
  /\ cur' = [cur EXCEPT ![c] = r]
  /\ data' = [data EXCEPT ![c] = <<>>]
  /\ busy' = busy \cup {c}
  /\ recving' = recving \cup {c}
  /\ fresh' = c
  /\ inbox' = IF proc[c] = "dead" THEN inbox ELSE [inbox EXCEPT ![c] = Append(@, r)]
  /\ outcome' = [outcome EXCEPT ![r] = "pending"]
  /\ UNCHANGED <<kids, running, cbs, rq, proc, job, outbox>>

\* ProcessGroup::SendRequest(), by the main loop or from inside a callback.
SendRequest ==
  /\ ~rq /\ fresh = None
  /\ next \in Request
  /\ next' = next + 1
  /\ \/ /\ \E i \in DOMAIN kids : FirstIdle(i) /\ Give(kids[i], next)
        /\ UNCHANGED queue
     \/ /\ NoneIdle
        /\ queue' = Append(queue, next)
        /\ outcome' = [outcome EXCEPT ![next] = "pending"]
        /\ UNCHANGED <<kids, running, busy, cur, recving, data, cbs, fresh, rq, child>>

\* Wrong: the loop serves the queue from its tail.
RunQueueFromTail ==
  /\ rq /\ fresh = None
  /\ queue # <<>>
  /\ \E i \in DOMAIN kids : FirstIdle(i) /\ Give(kids[i], queue[Len(queue)])
  /\ queue' = SubSeq(queue, 1, Len(queue) - 1)
  /\ UNCHANGED next

\* One turn of the loop of ProcessGroup::RunQueue().
RunQueue ==
  /\ rq /\ fresh = None
  /\ queue # <<>>
  /\ \E i \in DOMAIN kids : FirstIdle(i) /\ Give(kids[i], Head(queue))
  /\ queue' = Tail(queue)
  /\ UNCHANGED next

\* The loop of RunQueue() ends.
RunQueueEnd ==
  /\ rq /\ fresh = None
  /\ queue = <<>> \/ NoneIdle
  /\ rq' = FALSE
  /\ UNCHANGED <<kids, running, busy, cur, recving, data, queue, next, cbs, fresh,
                 child, outcome>>

-----------------------------------------------------------------------------
(* Process::SocketEvent() *)

\* Wrong: the first chunk is taken for the whole answer.
CompleteAtFirstChunk(d) == d # <<>>

\* IsAnswerComplete(): the length the child announced is what was read.
IsAnswerComplete(d) == Len(d) = Pieces

\* Wrong: PROM_SOCKF_RECVING is not cleared.
KeepRecving(c) == UNCHANGED recving

\* The AsyncRecv() of child c is over.
StopRecving(c) == recving' = recving \ {c}

\* AsyncRecv() of child c looks at the socket: when it is called, wherever that is, and,
\* if there was nothing, whenever the main loop finds something.
Looks(c) ==
  /\ c \in recving
  /\ fresh = c \/ AtRest

\* The request's callback is called, with an answer or with an error.
Callback(c, answered) ==
  /\ StopRecving(c)
  /\ cbs' = Append(cbs, [child |-> c, answered |-> answered, rq |-> rq])
  /\ fresh' = None
  /\ rq' = FALSE

\* AsyncRecv() finds nothing: the socket is left to the main loop.
Blocks ==
  /\ fresh # None
  /\ outbox[fresh] = <<>>
  /\ proc[fresh] # "dead"
  /\ fresh' = None
  /\ UNCHANGED <<kids, running, busy, cur, recving, data, queue, next, cbs, rq,
                 child, outcome>>

\* PROM_SOCK_READ with data: ReadAnswer() asks for more, or calls the callback.
ReadAnswer(c) ==
  /\ Looks(c)
  /\ \E n \in 1..Len(outbox[c]) :
       /\ data' = [data EXCEPT ![c] = @ \o SubSeq(outbox[c], 1, n)]
       /\ outbox' = [outbox EXCEPT ![c] = SubSeq(@, n + 1, Len(@))]
  /\ \/ /\ ~IsAnswerComplete(data'[c])
        /\ fresh' = c
        /\ UNCHANGED <<recving, cbs, rq, outcome>>
     \/ /\ IsAnswerComplete(data'[c])
        /\ Callback(c, TRUE)
        /\ outcome' = [outcome EXCEPT ![cur[c]] = "answered"]
  /\ UNCHANGED <<kids, running, busy, cur, queue, next, proc, inbox, job>>

\* Wrong: the queue is not run.
DoneNoRunQueue(c) ==
  /\ busy' = busy \ {c}
  /\ data' = [data EXCEPT ![c] = <<>>]
  /\ UNCHANGED rq

\* The end of SocketEvent(): the child is idle again and the queue is run.
Done(c) ==
  /\ busy' = busy \ {c}
  /\ data' = [data EXCEPT ![c] = <<>>]
  /\ rq' = TRUE

\* The child's end of the socket is closed and everything it wrote was read.
Closed(c) == proc[c] = "dead" /\ outbox[c] = <<>>

\* Wrong: the flag stays.
RunningKept(c) == UNCHANGED running

\* PROM_PROCF_RUNNING is cleared when the socket of child c says it is gone.
RunningCleared(c) == running' = running \ {c}

\* PROM_SOCK_READ without data: "the child must have crashed".  The request's
\* callback is not called.
ReadEOF(c) ==
  /\ Looks(c)
  /\ Closed(c)
  /\ inbox[c] = <<>>
  /\ Done(c)
  /\ StopRecving(c)
  /\ RunningCleared(c)
  /\ fresh' = None
  /\ outcome' = [outcome EXCEPT ![cur[c]] = "lost"]
  /\ UNCHANGED <<kids, cur, queue, next, cbs, child>>

\* PROM_SOCK_ERROR, the child died with the request unread: the callback gets
\* NULL and errno, and the child stays BUSY and RUNNING.
ReadError(c) ==
  /\ Looks(c)
  /\ Closed(c)
  /\ inbox[c] # <<>>
  /\ Callback(c, FALSE)
  /\ outcome' = [outcome EXCEPT ![cur[c]] = "failed"]
  /\ UNCHANGED <<kids, running, busy, cur, data, queue, next, child>>

SocketEvent(c) == ReadAnswer(c) \/ ReadEOF(c) \/ ReadError(c)

\* The innermost callback returns to SocketEvent().  With an error that is all, and
\* whatever SocketEvent() was called from goes on.
CallbackReturn ==
  /\ cbs # <<>>
  /\ ~rq /\ fresh = None
  /\ cbs' = SubSeq(cbs, 1, Len(cbs) - 1)
  /\ \/ Inner.answered /\ Done(Inner.child)
     \/ ~Inner.answered /\ rq' = Inner.rq /\ UNCHANGED <<busy, data>>
  /\ UNCHANGED <<kids, running, cur, recving, queue, next, fresh, child, outcome>>

-----------------------------------------------------------------------------
(* Adding and removing children *)

\* Process::Spawn() succeeds and AddChild() is called.
AddChild(c) ==
  /\ AtRest
  /\ proc[c] = "unborn"
  /\ proc' = [proc EXCEPT ![c] = "waiting"]
  /\ kids' = Append(kids, c)
  /\ running' = running \cup {c}
  /\ rq' = TRUE
  /\ UNCHANGED <<busy, cur, recving, data, queue, next, cbs, fresh,
                 inbox, job, outbox, outcome>>

\* One turn of the loop of Flush(): the first idle child has been idle for
\* longer than ChildrenDecayTime (any child may have been) and is terminated.
Flush ==
  /\ AtRest
  /\ Len(kids) > MinChildren
  /\ \E i \in DOMAIN kids :
       /\ FirstIdle(i)
       /\ kids' = SubSeq(kids, 1, i - 1) \o SubSeq(kids, i + 1, Len(kids))
       /\ running' = running \ {kids[i]}
       /\ proc' = [proc EXCEPT ![kids[i]] = "gone"]
  /\ UNCHANGED <<busy, cur, recving, data, queue, next, cbs, fresh, rq,
                 inbox, job, outbox, outcome>>

-----------------------------------------------------------------------------
(* The child process: Process::WaitRequest() and Dispatch() *)

\* Wrong: the request is taken off the socket without being stored.
WaitRequestNotStored(c) ==
  /\ proc[c] = "waiting"
  /\ inbox[c] # <<>>
  /\ proc' = [proc EXCEPT ![c] = "serving"]
  /\ inbox' = [inbox EXCEPT ![c] = Tail(@)]
  /\ UNCHANGED <<parent, job, outbox, outcome>>

\* select() returns and the request is read.
WaitRequest(c) ==
  /\ proc[c] = "waiting"
  /\ inbox[c] # <<>>
  /\ proc' = [proc EXCEPT ![c] = "serving"]
  /\ job' = [job EXCEPT ![c] = Head(inbox[c])]
  /\ inbox' = [inbox EXCEPT ![c] = Tail(@)]
  /\ UNCHANGED <<parent, outbox, outcome>>

\* How much of the current answer the child has written.
Written(c) == Len(data[c]) + Len(outbox[c])

\* Dispatch() writes a piece of the answer; after the last the child waits again.
Dispatch(c) ==
  /\ proc[c] = "serving"
  /\ outbox' = [outbox EXCEPT ![c] = Append(@, job[c])]
  /\ proc' = [proc EXCEPT ![c] = IF Written(c) + 1 = Pieces THEN "waiting" ELSE @]
  /\ UNCHANGED <<parent, inbox, job, outcome>>

\* The child crashes, or is killed from outside.
Die(c) ==
  /\ c \in Mortal
  /\ proc[c] \in {"waiting", "serving"}
  /\ proc' = [proc EXCEPT ![c] = "dead"]
  /\ UNCHANGED <<parent, inbox, job, outbox, outcome>>

-----------------------------------------------------------------------------

Next ==
  \/ SendRequest
  \/ RunQueue
  \/ RunQueueEnd
  \/ Blocks
  \/ CallbackReturn
  \/ Flush
  \/ \E c \in Child :
       \/ SocketEvent(c)
       \/ AddChild(c)
       \/ WaitRequest(c)
       \/ Dispatch(c)
       \/ Die(c)

Spec == Init /\ [][Next]_vars

\* The parent's main loop handles the events of the sockets and runs its
\* handlers to the end; a child that is alive serves the request it was given.
\* Nothing makes the callers submit, the timer find old children, a new child
\* appear or a child die.
Fairness ==
  /\ WF_vars(RunQueue)
  /\ WF_vars(RunQueueEnd)
  /\ WF_vars(Blocks)
  /\ WF_vars(CallbackReturn)
  /\ \A c \in Child :
       /\ WF_vars(SocketEvent(c))
       /\ WF_vars(WaitRequest(c))
       /\ WF_vars(Dispatch(c))

FairSpec == Spec /\ Fairness

-----------------------------------------------------------------------------
(* Safety *)

\* processgroup.cpp, SendRequest() and RunQueue(): a request waits in the queue
\* only while every running child is busy, whatever children died, came or went
\* and however deep the callbacks nested.
WorkConserving == (queue # <<>> /\ ~rq) => NoneIdle

\* SendRequest() may bypass the queue and RunQueue() serves it from its head: no
\* request that was given to a child is younger than one that still waits.
NoOvertaking ==
  /\ \A i, j \in DOMAIN queue : i < j => queue[i] < queue[j]
  /\ \A c \in Child, i \in DOMAIN queue : cur[c] < queue[i]

\* A request that waits for its callback is in the queue, or it is the one that a
\* child of the pool, and one child only, is to answer: none is forgotten by a
\* termination, a nested SendRequest() or a child's second request.
PendingIsHeld ==
  /\ \A r \in Request :
       outcome[r] = "pending" <=>
         \/ \E i \in DOMAIN queue : queue[i] = r
         \/ \E c \in recving : cur[c] = r
  /\ \A c, d \in recving : cur[c] = cur[d] => c = d

\* process.cpp, ReadAnswer(): the bytes handed to a callback are all of the
\* answer to the request the callback was given with, and only of that.
RightAnswer ==
  \A k \in DOMAIN cbs : cbs[k].answered =>
    /\ Len(data[cbs[k].child]) = Pieces
    /\ \A i \in DOMAIN data[cbs[k].child] : data[cbs[k].child][i] = cur[cbs[k].child]

\* Each death costs one request at most: a request that ends without an answer
\* is the last one that a dead child, distinct for each such request, was given.
LossHasItsDeath ==
  \A r \in Request :
    outcome[r] \in {"lost", "failed"} =>
      \E c \in Child : cur[c] = r /\ proc[c] = "dead"

Broker == INSTANCE RequestBroker

\* The pool implements the request broker: one callback at most for a request.
BrokerSpec == Broker!Spec

(* Liveness *)

\* A child that can still serve a request, now or when it is done.
Able(c) ==
  /\ c \in running
  /\ c \in busy => c \in recving \/ InCallback(c)

\* Every request is answered, failed or lost in the end, unless the pool runs
\* out of children that can serve it (none is ever spawned again by itself).
EventuallyResolved ==
  \A r \in Request :
    outcome[r] = "pending" ~>
      (outcome[r] \in Broker!Final \/ \A c \in Child : ~Able(c))
=============================================================================
