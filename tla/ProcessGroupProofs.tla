------------------------- MODULE ProcessGroupProofs -------------------------
(***************************************************************************)
(* Theorems about ProcessGroup, for any number of children, any of which   *)
(* may die, of requests and of pieces of an answer.                        *)
(***************************************************************************)
EXTENDS ProcessGroup, TLAPS

(***************************************************************************)
(* What the proofs need of sequences.                                      *)
(***************************************************************************)

\* The sequences the code builds from its queue, its list of children and the bytes
\* it reads are of the same elements.
LEMMA PartsAreSequences ==
  ASSUME NEW S, NEW s \in Seq(S), NEW n \in Nat
  PROVE  /\ n <= Len(s) => SubSeq(s, 1, n) \in Seq(S)
         /\ SubSeq(s, n + 1, Len(s)) \in Seq(S)
PROOF OBVIOUS

\* ProcessGroup::RunQueue() takes the head of a queue that is not empty.
LEMMA HeadAndTail ==
  ASSUME NEW S, NEW s \in Seq(S), s # <<>>
  PROVE  /\ Head(s) \in S
         /\ Head(s) = s[1]
         /\ 1 \in DOMAIN s
         /\ Tail(s) \in Seq(S)
         /\ Len(Tail(s)) = Len(s) - 1
         /\ DOMAIN Tail(s) = 1..(Len(s) - 1)
         /\ \A i \in DOMAIN Tail(s) : i + 1 \in DOMAIN s /\ Tail(s)[i] = s[i + 1]
PROOF OBVIOUS

\* SocketEvent() calls one callback more.
LEMMA Pushed ==
  ASSUME NEW S, NEW s \in Seq(S), NEW e \in S
  PROVE  /\ Append(s, e) \in Seq(S)
         /\ DOMAIN Append(s, e) = DOMAIN s \cup {Len(s) + 1}
         /\ Len(s) + 1 \notin DOMAIN s
         /\ \A k \in DOMAIN s : Append(s, e)[k] = s[k]
         /\ Append(s, e)[Len(s) + 1] = e
PROOF OBVIOUS

\* The innermost callback returns.
LEMMA Popped ==
  ASSUME NEW S, NEW s \in Seq(S), s # <<>>
  PROVE  /\ SubSeq(s, 1, Len(s) - 1) \in Seq(S)
         /\ DOMAIN s = DOMAIN SubSeq(s, 1, Len(s) - 1) \cup {Len(s)}
         /\ Len(s) \notin DOMAIN SubSeq(s, 1, Len(s) - 1)
         /\ \A k \in DOMAIN SubSeq(s, 1, Len(s) - 1) : SubSeq(s, 1, Len(s) - 1)[k] = s[k]
         /\ s[Len(s)] \in S
<1>1. Len(s) \in Nat \ {0} /\ DOMAIN s = 1..Len(s)
  OBVIOUS
<1>2. Len(s) - 1 \in Nat /\ Len(s) - 1 <= Len(s)
  BY <1>1
<1>3. SubSeq(s, 1, Len(s) - 1) \in Seq(S)
  BY <1>2, PartsAreSequences
<1>4. /\ DOMAIN SubSeq(s, 1, Len(s) - 1) = 1..(Len(s) - 1)
      /\ \A k \in 1..(Len(s) - 1) : SubSeq(s, 1, Len(s) - 1)[k] = s[k]
  BY <1>2
<1>5. 1..Len(s) = 1..(Len(s) - 1) \cup {Len(s)} /\ Len(s) \notin 1..(Len(s) - 1)
  BY <1>1
<1>6. s[Len(s)] \in S
  BY <1>1
<1>7. QED
  BY <1>1, <1>3, <1>4, <1>5, <1>6

(***************************************************************************)
(* Type correctness.                                                       *)
(***************************************************************************)

\* A child that serves has read a request: its job is one.
JobIsRequest == \A c \in Child : proc[c] = "serving" => job[c] \in Request

TypeInv == TypeOK /\ JobIsRequest

\* Child c is in the callback with its answer.
WithAnswer(c) == \E k \in DOMAIN cbs : cbs[k].child = c /\ cbs[k].answered

\* No child is in two callbacks.
OneCall == \A j, k \in DOMAIN cbs : cbs[j].child = cbs[k].child => j = k

\* SocketEvent(): a callback that is called is the innermost one.
LEMMA CallsPush ==
  ASSUME TypeInv, NEW c \in Child, NEW a \in BOOLEAN, Callback(c, a)
  PROVE  /\ cbs' \in Seq(Frame)
         /\ \A d : InCallback(d)' <=> InCallback(d) \/ d = c
         /\ \A d : d # c => (WithAnswer(d)' <=> WithAnswer(d))
         /\ a => WithAnswer(c)'
         /\ (~a /\ ~InCallback(c)) => ~WithAnswer(c)'
         /\ (OneCall /\ ~InCallback(c)) => OneCall'
<1> DEFINE f == [child |-> c, answered |-> a, rq |-> rq]
<1>1. PICK n : n = Len(cbs) + 1
  OBVIOUS
<1>2. f \in Frame /\ f.child = c /\ f.answered = a /\ cbs \in Seq(Frame) /\ cbs' = Append(cbs, f)
  BY DEF TypeInv, TypeOK, Frame, Callback
<1> HIDE DEF f
<1>3. /\ cbs' \in Seq(Frame)
      /\ DOMAIN cbs' = DOMAIN cbs \cup {n} /\ n \notin DOMAIN cbs
      /\ \A k \in DOMAIN cbs : cbs'[k] = cbs[k]
      /\ cbs'[n] = f
  BY <1>1, <1>2, Pushed
<1>4. cbs'[n].child = c /\ cbs'[n].answered = a
  BY <1>2, <1>3
<1>5. \A d : InCallback(d)' <=> InCallback(d) \/ d = c
  BY <1>3, <1>4 DEF InCallback
<1>6. \A d : d # c => (WithAnswer(d)' <=> WithAnswer(d))
  BY <1>3, <1>4 DEF WithAnswer
<1>7. a => WithAnswer(c)'
  BY <1>3, <1>4, Zenon DEF WithAnswer
<1>8. ~a /\ ~InCallback(c) => ~WithAnswer(c)'
  BY <1>3, <1>4, Zenon DEF WithAnswer, InCallback
<1>9. OneCall /\ ~InCallback(c) => OneCall'
  BY <1>3, <1>4 DEF OneCall, InCallback
<1>10. QED
  BY <1>3, <1>5, <1>6, <1>7, <1>8, <1>9

\* CallbackReturn: no other callback is touched.
LEMMA CallsPop ==
  ASSUME TypeInv, CallbackReturn
  PROVE  /\ cbs' \in Seq(Frame)
         /\ Inner \in Frame
         /\ InCallback(Inner.child)
         /\ Inner.answered => WithAnswer(Inner.child)
         /\ \A d : InCallback(d)' => InCallback(d)
         /\ \A d : WithAnswer(d)' => WithAnswer(d)
         /\ \A d : d # Inner.child => (WithAnswer(d)' <=> WithAnswer(d))
         /\ OneCall => OneCall'
         /\ OneCall => \A d : InCallback(d)' => d # Inner.child
         /\ (OneCall /\ ~Inner.answered) => ~WithAnswer(Inner.child)
<1>1. PICK n : n = Len(cbs)
  OBVIOUS
<1>2. cbs \in Seq(Frame) /\ cbs # <<>> /\ cbs' = SubSeq(cbs, 1, Len(cbs) - 1) /\ Inner = cbs[n]
  BY <1>1 DEF TypeInv, TypeOK, CallbackReturn, Inner
<1>3. /\ cbs' \in Seq(Frame)
      /\ DOMAIN cbs = DOMAIN cbs' \cup {n} /\ n \notin DOMAIN cbs'
      /\ \A k \in DOMAIN cbs' : cbs'[k] = cbs[k]
      /\ cbs[n] \in Frame
  BY <1>1, <1>2, Popped
<1>4. InCallback(Inner.child) /\ (Inner.answered => WithAnswer(Inner.child))
  BY <1>2, <1>3 DEF InCallback, WithAnswer
<1>5. \A d : InCallback(d)' => InCallback(d)
  BY <1>3 DEF InCallback
<1>6. \A d : WithAnswer(d)' => WithAnswer(d)
  BY <1>3 DEF WithAnswer
<1>7. \A d : d # Inner.child => (WithAnswer(d)' <=> WithAnswer(d))
  BY <1>2, <1>3 DEF WithAnswer
<1>8. OneCall => OneCall'
  BY <1>3 DEF OneCall
<1>9. ASSUME OneCall, NEW d, InCallback(d)'
      PROVE  d # Inner.child
  <2>1. PICK k \in DOMAIN cbs' : cbs'[k].child = d
    BY <1>9 DEF InCallback
  <2>2. k \in DOMAIN cbs /\ n \in DOMAIN cbs /\ k # n /\ cbs[k].child = d
    BY <1>3, <2>1
  <2>3. QED
    BY <1>2, <1>9, <2>2 DEF OneCall
<1>10. OneCall /\ ~Inner.answered => ~WithAnswer(Inner.child)
  BY <1>2, <1>3 DEF OneCall, WithAnswer
<1>11. QED
  BY <1>2, <1>3, <1>4, <1>5, <1>6, <1>7, <1>8, <1>9, <1>10

\* Process::SendRequest() of a request to a child keeps the types.
LEMMA GiveTyped ==
  ASSUME TypeInv, NEW c \in Child, NEW r \in Request, Give(c, r)
  PROVE  /\ kids' = kids /\ cbs' = cbs /\ rq' = rq
         /\ fresh' \in Child
         /\ running' \in SUBSET Child
         /\ busy' \in SUBSET Child
         /\ cur' \in [Child -> 0..NReq]
         /\ recving' \in SUBSET Child
         /\ data' \in [Child -> Seq(Request)]
         /\ proc' = proc /\ job' = job /\ outbox' = outbox
         /\ inbox' \in [Child -> Seq(Request)]
         /\ outcome' \in [Request -> {"new", "pending", "answered", "failed", "lost"}]
<1>1. r \in 0..NReq /\ <<>> \in Seq(Request)
  BY ProcessGroupAssumption DEF Request
<1>2. cur' \in [Child -> 0..NReq] /\ data' \in [Child -> Seq(Request)]
  BY <1>1 DEF TypeInv, TypeOK, Give
<1>3. Append(inbox[c], r) \in Seq(Request)
  BY DEF TypeInv, TypeOK
<1>4. inbox' \in [Child -> Seq(Request)]
  BY <1>3 DEF TypeInv, TypeOK, Give
<1>5. outcome' \in [Request -> {"new", "pending", "answered", "failed", "lost"}]
  BY DEF TypeInv, TypeOK, Give
<1>6. /\ kids' = kids /\ cbs' = cbs /\ rq' = rq /\ fresh' = c
      /\ proc' = proc /\ job' = job /\ outbox' = outbox
  BY DEF Give
<1>7. running' \in SUBSET Child /\ busy' \in SUBSET Child /\ recving' \in SUBSET Child
  BY DEF TypeInv, TypeOK, Give
<1>8. QED
  BY <1>2, <1>4, <1>5, <1>6, <1>7

\* A group that was made has the right type.
LEMMA TypeInit == Init => TypeInv
<1> SUFFICES ASSUME Init
             PROVE  TypeInv
  OBVIOUS
<1>1. kids \in Seq(Child) /\ queue \in Seq(Request) /\ cbs \in Seq(Frame)
  BY DEF Init
<1>2. /\ data \in [Child -> Seq(Request)]
      /\ inbox \in [Child -> Seq(Request)]
      /\ outbox \in [Child -> Seq(Request)]
  BY DEF Init
<1>3. cur \in [Child -> 0..NReq] /\ job \in [Child -> 0..NReq] /\ next \in 1..(NReq + 1)
  BY ProcessGroupAssumption DEF Init
<1>4. /\ running \in SUBSET Child
      /\ busy \in SUBSET Child
      /\ recving \in SUBSET Child
      /\ fresh \in Child \cup {None}
      /\ rq \in BOOLEAN
  BY DEF Init
<1>5. proc \in [Child -> ProcState] /\ JobIsRequest
  BY DEF Init, ProcState, JobIsRequest
<1>6. outcome \in [Request -> {"new", "pending", "answered", "failed", "lost"}]
  BY DEF Init
<1>7. QED
  BY <1>1, <1>2, <1>3, <1>4, <1>5, <1>6 DEF TypeInv, TypeOK

\* Every operation of the group keeps its type.
LEMMA TypeStep == TypeInv /\ [Next]_vars => TypeInv'
<1> SUFFICES ASSUME TypeInv, [Next]_vars
             PROVE  TypeInv'
  OBVIOUS
<1> USE ProcessGroupAssumption
<1>1. CASE SendRequest
  <2>1. CASE \E i \in DOMAIN kids : FirstIdle(i) /\ Give(kids[i], next) /\ UNCHANGED queue
    <3>1. PICK i \in DOMAIN kids : Give(kids[i], next) /\ UNCHANGED queue
      BY <2>1
    <3>2. kids[i] \in Child
      BY DEF TypeInv, TypeOK
    <3>3. next \in Request /\ next' \in 1..(NReq + 1)
      BY <1>1 DEF SendRequest, Request
    <3>4. QED
      BY <3>1, <3>2, <3>3, GiveTyped DEF TypeInv, TypeOK, JobIsRequest
  <2>2. CASE /\ queue' = Append(queue, next)
             /\ outcome' = [outcome EXCEPT ![next] = "pending"]
             /\ UNCHANGED <<kids, running, busy, cur, recving, data, cbs, fresh, rq, child>>
    <3>1. next \in Request /\ next' \in 1..(NReq + 1)
      BY <1>1 DEF SendRequest, Request
    <3>2. queue' \in Seq(Request)
      BY <2>2, <3>1 DEF TypeInv, TypeOK
    <3>3. outcome' \in [Request -> {"new", "pending", "answered", "failed", "lost"}]
      BY <2>2 DEF TypeInv, TypeOK
    <3>4. QED
      BY <2>2, <3>1, <3>2, <3>3 DEF TypeInv, TypeOK, JobIsRequest, child
  <2>3. QED
    BY <1>1, <2>1, <2>2 DEF SendRequest
<1>2. CASE RunQueue
  <2>1. PICK i \in DOMAIN kids : Give(kids[i], Head(queue))
    BY <1>2 DEF RunQueue
  <2>2. kids[i] \in Child /\ Head(queue) \in Request /\ Tail(queue) \in Seq(Request)
    BY <1>2, HeadAndTail DEF TypeInv, TypeOK, RunQueue
  <2>3. QED
    BY <1>2, <2>1, <2>2, GiveTyped DEF TypeInv, TypeOK, JobIsRequest, RunQueue
<1>3. CASE RunQueueEnd
  BY <1>3 DEF TypeInv, TypeOK, JobIsRequest, RunQueueEnd, child
<1>4. CASE CallbackReturn
  <2>1. <<>> \in Seq(Request) /\ cbs' \in Seq(Frame) /\ Inner \in Frame
    BY <1>4, CallsPop
  <2>2. Inner.child \in Child /\ Inner.rq \in BOOLEAN
    BY <2>1 DEF Frame
  <2>3. /\ data' \in [Child -> Seq(Request)]
        /\ busy' \in SUBSET Child
        /\ rq' \in BOOLEAN
    <3>1. CASE Done(Inner.child)
      <4>1. data' = [data EXCEPT ![Inner.child] = <<>>] /\ data \in [Child -> Seq(Request)]
        BY <3>1 DEF Done, TypeInv, TypeOK
      <4>2. data' \in [Child -> Seq(Request)]
        BY <2>1, <4>1
      <4>3. busy' \in SUBSET Child /\ rq' \in BOOLEAN
        BY <3>1 DEF Done, TypeInv, TypeOK
      <4>4. QED
        BY <4>2, <4>3
    <3>2. CASE rq' = Inner.rq /\ UNCHANGED <<busy, data>>
      BY <2>2, <3>2 DEF TypeInv, TypeOK
    <3>3. QED
      BY <1>4, <3>1, <3>2 DEF CallbackReturn
  <2>4. QED
    BY <1>4, <2>1, <2>3 DEF TypeInv, TypeOK, JobIsRequest, CallbackReturn, child
<1>5. CASE Flush
  <2>1. PICK i \in DOMAIN kids :
          /\ kids' = SubSeq(kids, 1, i - 1) \o SubSeq(kids, i + 1, Len(kids))
          /\ running' = running \ {kids[i]}
          /\ proc' = [proc EXCEPT ![kids[i]] = "gone"]
    BY <1>5 DEF Flush
  <2>2. kids' \in Seq(Child)
    <3>1. kids \in Seq(Child)
      BY DEF TypeInv, TypeOK
    <3>2. i \in Nat /\ i - 1 \in Nat /\ i - 1 <= Len(kids)
      BY <3>1
    <3>3. SubSeq(kids, 1, i - 1) \in Seq(Child) /\ SubSeq(kids, i + 1, Len(kids)) \in Seq(Child)
      BY <3>1, <3>2, PartsAreSequences
    <3>4. QED
      BY <2>1, <3>3
  <2>3. running' \in SUBSET Child /\ proc' \in [Child -> ProcState] /\ JobIsRequest'
    BY <1>5, <2>1 DEF TypeInv, TypeOK, JobIsRequest, ProcState, Flush
  <2>4. QED
    BY <1>5, <2>2, <2>3 DEF TypeInv, TypeOK, Flush
<1>6. ASSUME NEW c \in Child, SocketEvent(c)
      PROVE  TypeInv'
  <2>1. CASE ReadAnswer(c)
    <3>1. PICK n \in 1..Len(outbox[c]) :
            /\ data' = [data EXCEPT ![c] = @ \o SubSeq(outbox[c], 1, n)]
            /\ outbox' = [outbox EXCEPT ![c] = SubSeq(@, n + 1, Len(@))]
      BY <2>1 DEF ReadAnswer
    <3>2. SubSeq(outbox[c], 1, n) \in Seq(Request) /\ SubSeq(outbox[c], n + 1, Len(outbox[c])) \in Seq(Request)
      BY PartsAreSequences DEF TypeInv, TypeOK
    <3>3. data[c] \o SubSeq(outbox[c], 1, n) \in Seq(Request)
      BY <3>2 DEF TypeInv, TypeOK
    <3>4. data' \in [Child -> Seq(Request)] /\ outbox' \in [Child -> Seq(Request)]
      BY <3>1, <3>2, <3>3 DEF TypeInv, TypeOK
    <3>5. /\ recving' \in SUBSET Child
          /\ cbs' \in Seq(Frame)
          /\ fresh' \in Child \cup {None}
          /\ rq' \in BOOLEAN
          /\ outcome' \in [Request -> {"new", "pending", "answered", "failed", "lost"}]
      <4>1. CASE fresh' = c /\ UNCHANGED <<recving, cbs, rq, outcome>>
        BY <4>1 DEF TypeInv, TypeOK
      <4>2. CASE Callback(c, TRUE) /\ outcome' = [outcome EXCEPT ![cur[c]] = "answered"]
        <5>1. cbs' \in Seq(Frame)
          BY <4>2, CallsPush
        <5>2. QED
          BY <4>2, <5>1 DEF TypeInv, TypeOK, Callback, StopRecving
      <4>3. QED
        BY <2>1, <4>1, <4>2 DEF ReadAnswer
    <3>6. QED
      BY <2>1, <3>4, <3>5 DEF TypeInv, TypeOK, JobIsRequest, ReadAnswer
  <2>2. CASE ReadEOF(c)
    BY <2>2 DEF TypeInv, TypeOK, JobIsRequest, ReadEOF, Done, StopRecving, RunningCleared, child
  <2>3. CASE ReadError(c)
    <3>1. cbs' \in Seq(Frame)
      BY <2>3, CallsPush DEF ReadError
    <3>2. QED
      BY <2>3, <3>1 DEF TypeInv, TypeOK, JobIsRequest, ReadError, Callback, StopRecving, child
  <2>4. QED
    BY <1>6, <2>1, <2>2, <2>3 DEF SocketEvent
<1>7. ASSUME NEW c \in Child, AddChild(c)
      PROVE  TypeInv'
  <2>1. kids' \in Seq(Child) /\ running' \in SUBSET Child /\ rq' \in BOOLEAN
    BY <1>7 DEF TypeInv, TypeOK, AddChild
  <2>2. proc' \in [Child -> ProcState] /\ JobIsRequest'
    BY <1>7 DEF TypeInv, TypeOK, JobIsRequest, AddChild, ProcState
  <2>3. QED
    BY <1>7, <2>1, <2>2 DEF TypeInv, TypeOK, AddChild
<1>8. ASSUME NEW c \in Child, WaitRequest(c)
      PROVE  TypeInv'
  <2>1. Head(inbox[c]) \in Request /\ Tail(inbox[c]) \in Seq(Request)
    BY <1>8, HeadAndTail DEF TypeInv, TypeOK, WaitRequest
  <2>2. inbox' \in [Child -> Seq(Request)]
    BY <1>8, <2>1 DEF TypeInv, TypeOK, WaitRequest
  <2>3. /\ job' \in [Child -> 0..NReq]
        /\ proc' \in [Child -> ProcState]
        /\ JobIsRequest'
    <3>1. Head(inbox[c]) \in 0..NReq
      BY <2>1 DEF Request
    <3>2. job' \in [Child -> 0..NReq] /\ job' = [job EXCEPT ![c] = Head(inbox[c])]
      BY <1>8, <3>1 DEF TypeInv, TypeOK, WaitRequest
    <3>3. proc' \in [Child -> ProcState] /\ proc' = [proc EXCEPT ![c] = "serving"]
      BY <1>8 DEF TypeInv, TypeOK, WaitRequest, ProcState
    <3>4. JobIsRequest'
      BY <2>1, <3>2, <3>3 DEF TypeInv, TypeOK, JobIsRequest
    <3>5. QED
      BY <3>2, <3>3, <3>4
  <2>4. QED
    BY <1>8, <2>2, <2>3 DEF TypeInv, TypeOK, WaitRequest, parent
<1>9. ASSUME NEW c \in Child, Dispatch(c)
      PROVE  TypeInv'
  <2>1. Append(outbox[c], job[c]) \in Seq(Request)
    BY <1>9 DEF TypeInv, TypeOK, JobIsRequest, Dispatch
  <2>2. outbox' \in [Child -> Seq(Request)]
    BY <1>9, <2>1 DEF TypeInv, TypeOK, Dispatch
  <2>3. proc' \in [Child -> ProcState] /\ JobIsRequest'
    BY <1>9 DEF TypeInv, TypeOK, JobIsRequest, Dispatch, ProcState
  <2>4. QED
    BY <1>9, <2>2, <2>3 DEF TypeInv, TypeOK, Dispatch, parent
<1>10. ASSUME NEW c \in Child, Die(c)
       PROVE  TypeInv'
  BY <1>10 DEF TypeInv, TypeOK, JobIsRequest, Die, ProcState, parent
<1>11. CASE Blocks
  BY <1>11 DEF TypeInv, TypeOK, JobIsRequest, Blocks, child
<1>12. CASE UNCHANGED vars
  BY <1>12 DEF TypeInv, TypeOK, JobIsRequest, vars, parent, child
<1>13. QED
  BY <1>1, <1>2, <1>3, <1>4, <1>5, <1>6, <1>7, <1>8, <1>9, <1>10, <1>11, <1>12 DEF Next

\* The type is right at every moment.
LEMMA TypeAlways == Spec => []TypeInv
BY TypeInit, TypeStep, PTL DEF Spec

\* Every variable of the pool stays of its type.
THEOREM TypeCorrect == Spec => []TypeOK
<1>1. TypeInv => TypeOK
  BY DEF TypeInv
<1>2. QED
  BY <1>1, TypeAlways, PTL

(***************************************************************************)
(* No request waits while a child is idle.                                 *)
(***************************************************************************)

\* Inductive: what is queued goes to the one child that the loop of RunQueue() found idle,
\* and a callback that AsyncRecv() calls at once out of that loop finds none idle.
NoneWaits ==
  /\ WorkConserving
  /\ (queue # <<>> /\ fresh # None) => NoneIdle
  /\ queue # <<>> => \A i, j \in DOMAIN kids : (Idle(kids[i]) /\ Idle(kids[j])) => kids[i] = kids[j]

\* Requests are queued only while no process is idle: every operation keeps that.
LEMMA WorkStep ==
  ASSUME TypeInv, NoneWaits, [Next]_vars
  PROVE  NoneWaits'
<1>1. CASE SendRequest
  <2>1. CASE \E i \in DOMAIN kids : FirstIdle(i) /\ UNCHANGED queue
    <3>1. ~NoneIdle /\ queue' = queue
      BY <2>1 DEF FirstIdle, NoneIdle
    <3>2. queue' = <<>>
      BY <1>1, <3>1 DEF NoneWaits, WorkConserving, SendRequest
    <3>3. QED
      BY <3>2 DEF NoneWaits, WorkConserving
  <2>2. CASE NoneIdle /\ UNCHANGED <<kids, running, busy>>
    BY <2>2 DEF NoneWaits, WorkConserving, NoneIdle, Idle
  <2>3. QED
    BY <1>1, <2>1, <2>2 DEF SendRequest
<1>2. CASE RunQueue
  <2>1. PICK i \in DOMAIN kids : FirstIdle(i) /\ Give(kids[i], Head(queue))
    BY <1>2 DEF RunQueue
  <2>2. queue # <<>> /\ Idle(kids[i])
    BY <1>2, <2>1 DEF RunQueue, FirstIdle
  <2>3. kids' = kids /\ running' = running /\ busy' = busy \cup {kids[i]} /\ rq'
    BY <1>2, <2>1 DEF RunQueue, Give
  <2>4. \A j \in DOMAIN kids' : ~Idle(kids[j])'
    BY <2>2, <2>3 DEF NoneWaits, Idle
  <2>5. QED
    BY <2>3, <2>4 DEF NoneWaits, WorkConserving, NoneIdle
<1>3. CASE RunQueueEnd
  BY <1>3 DEF NoneWaits, WorkConserving, RunQueueEnd, NoneIdle, Idle
<1>4. CASE Blocks
  BY <1>4 DEF NoneWaits, WorkConserving, Blocks, NoneIdle, Idle
<1>5. CASE CallbackReturn
  <2>1. queue # <<>> => NoneIdle
    BY <1>5 DEF CallbackReturn, NoneWaits, WorkConserving
  <2>2. CASE Done(Inner.child)
    <3>1. kids' = kids /\ running' = running /\ fresh' = None /\ queue' = queue
      BY <1>5 DEF CallbackReturn
    <3>2. busy' = busy \ {Inner.child} /\ rq'
      BY <2>2 DEF Done
    <3>3. \A i \in DOMAIN kids : queue # <<>> /\ Idle(kids[i])' => kids[i] = Inner.child
      BY <2>1, <3>1, <3>2 DEF NoneIdle, Idle
    <3>4. QED
      BY <3>1, <3>2, <3>3 DEF NoneWaits, WorkConserving
  <2>3. CASE UNCHANGED <<busy, data>>
    BY <1>5, <2>1, <2>3 DEF CallbackReturn, NoneWaits, WorkConserving, NoneIdle, Idle
  <2>4. QED
    BY <1>5, <2>2, <2>3 DEF CallbackReturn
<1>6. CASE Flush
  <2>1. ~NoneIdle /\ ~rq /\ queue' = queue
    BY <1>6 DEF Flush, FirstIdle, NoneIdle, AtRest
  <2>2. QED
    BY <2>1 DEF NoneWaits, WorkConserving
<1>7. ASSUME NEW c \in Child, SocketEvent(c)
      PROVE  NoneWaits'
  <2>1. queue # <<>> => NoneIdle
    BY <1>7, ProcessGroupAssumption
       DEF SocketEvent, ReadAnswer, ReadEOF, ReadError, Looks, AtRest, NoneWaits, WorkConserving
  <2>2. CASE ReadEOF(c)
    <3>1. kids' = kids /\ running' = running \ {c} /\ fresh' = None /\ queue' = queue
      BY <2>2 DEF ReadEOF, RunningCleared
    <3>2. busy' = busy \ {c} /\ rq'
      BY <2>2 DEF ReadEOF, Done
    <3>3. queue # <<>> => \A i \in DOMAIN kids : ~Idle(kids[i])'
      BY <2>1, <3>1, <3>2 DEF NoneIdle, Idle
    <3>4. QED
      BY <3>1, <3>2, <3>3 DEF NoneWaits, WorkConserving, NoneIdle
  <2>3. CASE UNCHANGED <<kids, running, busy, queue>>
    BY <2>1, <2>3 DEF NoneWaits, WorkConserving, NoneIdle, Idle
  <2>4. QED
    BY <1>7, <2>2, <2>3 DEF SocketEvent, ReadAnswer, ReadError
<1>8. ASSUME NEW c \in Child, AddChild(c)
      PROVE  NoneWaits'
  <2>1. /\ queue # <<>> => NoneIdle
        /\ kids' = Append(kids, c) /\ kids \in Seq(Child)
        /\ running' = running \cup {c} /\ busy' = busy
        /\ queue' = queue /\ rq' /\ fresh' = None
    BY <1>8 DEF AddChild, AtRest, NoneWaits, WorkConserving, TypeInv, TypeOK
  <2>2. \A i \in DOMAIN kids' : i \in DOMAIN kids \/ kids'[i] = c
    BY <2>1, Pushed
  <2>3. \A i \in DOMAIN kids : kids'[i] = kids[i]
    BY <2>1, Pushed
  <2>4. \A i \in DOMAIN kids' : queue # <<>> /\ Idle(kids[i])' => kids'[i] = c
    BY <2>1, <2>2, <2>3 DEF NoneIdle, Idle
  <2>5. QED
    BY <2>1, <2>4 DEF NoneWaits, WorkConserving
<1>9. ASSUME NEW c \in Child, WaitRequest(c) \/ Dispatch(c) \/ Die(c)
      PROVE  NoneWaits'
  BY <1>9 DEF NoneWaits, WorkConserving, NoneIdle, Idle, WaitRequest, Dispatch, Die, parent
<1>10. CASE UNCHANGED vars
  BY <1>10 DEF NoneWaits, WorkConserving, NoneIdle, Idle, vars, parent
<1>11. QED
  BY <1>1, <1>2, <1>3, <1>4, <1>5, <1>6, <1>7, <1>8, <1>9, <1>10 DEF Next

\* A request waits in the queue only while every running child is busy: what a child
\* that becomes idle, is added or is removed must not leave behind, wherever its answer is
\* found.
THEOREM PoolIsWorkConserving == Spec => []WorkConserving
<1>1. Init => NoneWaits
  BY DEF Init, NoneWaits, WorkConserving
<1>2. TypeInv /\ NoneWaits /\ [Next]_vars => NoneWaits'
  BY WorkStep
<1>3. NoneWaits => WorkConserving
  BY DEF NoneWaits
<1>4. QED
  BY <1>1, <1>2, <1>3, TypeAlways, PTL DEF Spec

(***************************************************************************)
(* Requests are given to children in the order they were made.             *)
(***************************************************************************)

\* Inductive: what was submitted is older than what is to be.
Ordered ==
  /\ NoOvertaking
  /\ \A i \in DOMAIN queue : queue[i] < next
  /\ \A c \in Child : cur[c] < next

\* Every operation keeps the queue in the order of the requests.
LEMMA OrderedStep ==
  ASSUME TypeInv, WorkConserving, Ordered, [Next]_vars
  PROVE  Ordered'
<1> USE ProcessGroupAssumption DEF Request
<1>1. /\ queue \in Seq(Nat)
      /\ next \in Nat
      /\ cur \in [Child -> Nat]
  BY DEF TypeInv, TypeOK
<1>2. CASE SendRequest
  <2>1. CASE \E i \in DOMAIN kids : FirstIdle(i) /\ Give(kids[i], next) /\ UNCHANGED queue
    <3>1. PICK i \in DOMAIN kids : FirstIdle(i) /\ Give(kids[i], next) /\ UNCHANGED queue
      BY <2>1
    <3>2. queue' = <<>>
      BY <1>2, <3>1 DEF WorkConserving, SendRequest, FirstIdle, NoneIdle
    <3>3. next' = next + 1 /\ cur' = [cur EXCEPT ![kids[i]] = next]
      BY <1>2, <3>1 DEF SendRequest, Give
    <3>4. \A c \in Child : cur'[c] < next'
      BY <1>1, <3>3 DEF Ordered
    <3>5. QED
      BY <3>2, <3>4 DEF Ordered, NoOvertaking
  <2>2. CASE queue' = Append(queue, next) /\ cur' = cur
    <3>1. next' = next + 1
      BY <1>2 DEF SendRequest
    <3>2. /\ DOMAIN queue' = 1..(Len(queue) + 1)
          /\ DOMAIN queue = 1..Len(queue)
          /\ \A i \in DOMAIN queue : queue'[i] = queue[i]
          /\ queue'[Len(queue) + 1] = next
      BY <1>1, <2>2
    <3>3. Len(queue) \in Nat /\ \A i \in DOMAIN queue : queue[i] \in Nat
      BY <1>1
    <3>4. \A i, j \in DOMAIN queue' : i < j => queue'[i] < queue'[j]
      BY <1>1, <3>2, <3>3 DEF Ordered, NoOvertaking
    <3>5. \A c \in Child, i \in DOMAIN queue' : cur'[c] < queue'[i]
      BY <1>1, <2>2, <3>2, <3>3 DEF Ordered, NoOvertaking
    <3>6. \A i \in DOMAIN queue' : queue'[i] < next'
      BY <1>1, <3>1, <3>2, <3>3 DEF Ordered
    <3>7. \A c \in Child : cur'[c] < next'
      BY <1>1, <2>2, <3>1 DEF Ordered
    <3>8. QED
      BY <3>4, <3>5, <3>6, <3>7 DEF Ordered, NoOvertaking
  <2>3. QED
    BY <1>2, <2>1, <2>2 DEF SendRequest
<1>3. CASE RunQueue
  <2>1. PICK k \in DOMAIN kids : Give(kids[k], Head(queue))
    BY <1>3 DEF RunQueue
  <2>2. /\ cur' = [cur EXCEPT ![kids[k]] = Head(queue)]
        /\ queue' = Tail(queue)
        /\ next' = next
        /\ queue # <<>>
    BY <1>3, <2>1 DEF RunQueue, Give
  <2>3. /\ Head(queue) = queue[1] /\ 1 \in DOMAIN queue
        /\ DOMAIN queue' = 1..(Len(queue) - 1)
        /\ \A i \in DOMAIN queue' : i + 1 \in DOMAIN queue /\ queue'[i] = queue[i + 1]
    BY <1>1, <2>2, HeadAndTail
  <2>4. \A i \in DOMAIN queue' : i \in Nat \ {0}
    BY <2>3
  <2>5. \A i, j \in DOMAIN queue' : i < j => queue'[i] < queue'[j]
    BY <2>3, <2>4 DEF Ordered, NoOvertaking
  <2>6. \A i \in DOMAIN queue' : queue[1] < queue'[i]
    BY <2>3, <2>4 DEF Ordered, NoOvertaking
  <2>7. \A c \in Child, i \in DOMAIN queue' : cur'[c] < queue'[i]
    BY <1>1, <2>2, <2>3, <2>6 DEF Ordered, NoOvertaking
  <2>8. \A c \in Child : cur'[c] < next'
    BY <1>1, <2>2, <2>3 DEF Ordered
  <2>9. \A i \in DOMAIN queue' : queue'[i] < next'
    BY <2>2, <2>3 DEF Ordered
  <2>10. QED
    BY <2>5, <2>7, <2>8, <2>9 DEF Ordered, NoOvertaking
<1>4. CASE UNCHANGED <<cur, queue, next>>
  BY <1>4 DEF Ordered, NoOvertaking
<1>5. QED
  BY <1>2, <1>3, <1>4
     DEF Next, vars, parent, child, RunQueueEnd, Blocks, CallbackReturn, Done, Flush, SocketEvent,
         ReadAnswer, ReadEOF, ReadError, AddChild, WaitRequest, Dispatch, Die

\* The queue is in that order at every moment.
LEMMA OrderedAlways == Spec => []Ordered
<1>1. Init => Ordered
  BY DEF Init, Ordered, NoOvertaking
<1>2. TypeInv /\ WorkConserving /\ Ordered /\ [Next]_vars => Ordered'
  BY OrderedStep
<1>3. QED
  BY <1>1, <1>2, TypeAlways, PoolIsWorkConserving, PTL DEF Spec

\* No request that was given to a child is younger than one that waits: the queue is
\* first come, first served, and SendRequest() bypasses it only when it is empty.
THEOREM PoolIsFair == Spec => []NoOvertaking
<1>1. Ordered => NoOvertaking
  BY DEF Ordered
<1>2. QED
  BY <1>1, OrderedAlways, PTL

(***************************************************************************)
(* A request that waits for its callback is in one place.                  *)
(***************************************************************************)

\* Inductive: a child that is to answer is BUSY, so that it is not given another
\* request, and so is one whose callback is being executed, which has one such callback
\* only; the requests to come are new.
Held ==
  /\ PendingIsHeld
  /\ recving \subseteq busy
  /\ OneCall
  /\ \A c \in Child : InCallback(c) => c \in busy /\ c \notin recving
  /\ \A r \in Request : r >= next => outcome[r] = "new"

\* SocketEvent(): the request that child c was to answer is over.
LEMMA FinishHeld ==
  ASSUME TypeInv, Ordered, Held, NEW c \in recving, NEW how, how # "pending", how # "new",
         recving' = recving \ {c},
         recving' \subseteq busy',
         outcome' = [outcome EXCEPT ![cur[c]] = how],
         UNCHANGED <<cur, queue, next>>,
         OneCall',
         \A d \in Child : InCallback(d)' => d \in busy' /\ d \notin recving'
  PROVE  Held'
<1>1. c \in Child /\ cur[c] < next /\ \A i \in DOMAIN queue : queue[i] # cur[c]
  BY ProcessGroupAssumption DEF TypeInv, TypeOK, Ordered, NoOvertaking, Request
<1>2. \A r \in Request : r >= next => outcome'[r] = "new"
  BY <1>1, ProcessGroupAssumption DEF Held, TypeInv, TypeOK, Request
<1>3. ASSUME NEW r \in Request
      PROVE  outcome'[r] = "pending" <=>
               \/ \E i \in DOMAIN queue' : queue'[i] = r
               \/ \E d \in recving' : cur'[d] = r
  <2>1. CASE r = cur[c]
    <3>1. outcome'[r] = how
      BY <2>1 DEF TypeInv, TypeOK
    <3>2. \A d \in recving' : cur'[d] # r
      BY <2>1 DEF Held, PendingIsHeld
    <3>3. QED
      BY <1>1, <2>1, <3>1, <3>2
  <2>2. CASE r # cur[c]
    <3>1. outcome'[r] = outcome[r]
      BY <2>2 DEF TypeInv, TypeOK
    <3>2. (\E d \in recving' : cur'[d] = r) <=> (\E d \in recving : cur[d] = r)
      BY <2>2
    <3>3. QED
      BY <3>1, <3>2 DEF Held, PendingIsHeld
  <2>3. QED
    BY <2>1, <2>2
<1>4. \A d, e \in recving' : cur'[d] = cur'[e] => d = e
  BY DEF Held, PendingIsHeld
<1>5. QED
  BY <1>2, <1>3, <1>4 DEF Held, PendingIsHeld

\* SendRequest() of a process: child c, which is idle, is given request r, which no
\* child has; the queue is then without r.
LEMMA GiveHeld ==
  ASSUME TypeInv, Held, NEW c \in Child, NEW r \in Request, c \notin busy, Give(c, r),
         \A d \in Child : cur[d] < r,
         \A q \in Request :
           q # r => ((\E i \in DOMAIN queue : queue[i] = q) <=> (\E i \in DOMAIN queue' : queue'[i] = q)),
         \A i \in DOMAIN queue' : queue'[i] # r,
         r < next', next' \in Nat, next' >= next
  PROVE  Held'
<1>1. c \notin recving /\ recving \subseteq Child /\ r \in Nat /\ next \in Nat
  BY ProcessGroupAssumption DEF Held, TypeInv, TypeOK, Request
<1>2. /\ \A d \in recving : cur'[d] = cur[d] /\ cur[d] # r
      /\ cur'[c] = r
  <2>1. cur' = [cur EXCEPT ![c] = r] /\ cur \in [Child -> 0..NReq]
    BY DEF Give, TypeInv, TypeOK
  <2>2. \A d \in Child : cur[d] # r
    BY <1>1, <2>1, ProcessGroupAssumption
  <2>3. QED
    BY <1>1, <2>1, <2>2
<1>3. \A q \in Request : q # r => outcome'[q] = outcome[q]
  BY DEF Give, TypeInv, TypeOK
<1>4. \A q \in Request : q >= next' => outcome'[q] = "new"
  <2>1. ASSUME NEW q \in Request, q >= next'
        PROVE  outcome'[q] = "new"
    <3>1. q # r /\ q >= next
      BY <2>1, <1>1, ProcessGroupAssumption DEF Request
    <3>2. QED
      BY <1>3, <3>1 DEF Held
  <2>2. QED
    BY <2>1
<1>5. OneCall' /\ \A d \in Child : InCallback(d)' => InCallback(d) /\ d # c
  BY DEF Give, Held, OneCall, InCallback
<1>6. recving' = recving \cup {c} /\ busy' = busy \cup {c} /\ outcome'[r] = "pending"
  BY DEF Give, TypeInv, TypeOK
<1>7. ASSUME NEW q \in Request
      PROVE  outcome'[q] = "pending" <=>
               \/ \E i \in DOMAIN queue' : queue'[i] = q
               \/ \E d \in recving' : cur'[d] = q
  <2>1. CASE q = r
    BY <1>2, <1>6, <2>1
  <2>2. CASE q # r
    <3>1. (\E d \in recving' : cur'[d] = q) <=> (\E d \in recving : cur[d] = q)
      BY <1>2, <1>6, <2>2
    <3>2. QED
      BY <1>3, <2>2, <3>1 DEF Held, PendingIsHeld
  <2>3. QED
    BY <2>1, <2>2
<1>8. \A d, e \in recving' : cur'[d] = cur'[e] => d = e
  BY <1>2, <1>6 DEF Held, PendingIsHeld
<1>9. recving' \subseteq busy' /\ \A d \in Child : InCallback(d)' => d \in busy' /\ d \notin recving'
  BY <1>5, <1>6 DEF Held
<1>10. QED
  BY <1>4, <1>5, <1>7, <1>8, <1>9 DEF Held, PendingIsHeld

\* Every operation keeps a request with its one holder.
LEMMA HeldStep ==
  ASSUME TypeInv, WorkConserving, Ordered, Held, [Next]_vars
  PROVE  Held'
<1> USE ProcessGroupAssumption
<1>1. next \in Nat /\ queue \in Seq(Request) /\ \A r \in Request : r \in Nat
  BY DEF TypeInv, TypeOK, Request
<1>2. CASE SendRequest
  <2>1. next \in Request /\ next' = next + 1
    BY <1>2 DEF SendRequest
  <2>2. CASE \E i \in DOMAIN kids : FirstIdle(i) /\ Give(kids[i], next) /\ UNCHANGED queue
    <3>1. PICK i \in DOMAIN kids : FirstIdle(i) /\ Give(kids[i], next) /\ UNCHANGED queue
      BY <2>2
    <3>2. kids[i] \in Child /\ kids[i] \notin busy
      BY <3>1 DEF FirstIdle, Idle, TypeInv, TypeOK
    <3>3. queue' = <<>> /\ queue = <<>>
      BY <1>2, <3>1 DEF WorkConserving, SendRequest, FirstIdle, NoneIdle
    <3>4. next < next' /\ next' \in Nat /\ next' >= next
      BY <1>1, <2>1
    <3>5. \A i_1 \in DOMAIN queue' : queue'[i_1] # next
      BY <3>3
    <3>6. \A d \in Child : cur[d] < next
      BY DEF Ordered
    <3>7. QED
      BY <2>1, <3>1, <3>2, <3>3, <3>4, <3>5, <3>6, GiveHeld
  <2>3. CASE /\ queue' = Append(queue, next)
             /\ outcome' = [outcome EXCEPT ![next] = "pending"]
             /\ UNCHANGED <<kids, running, busy, cur, recving, data, cbs, fresh, rq, child>>
    <3>1. /\ DOMAIN queue' = DOMAIN queue \cup {Len(queue) + 1}
          /\ \A i \in DOMAIN queue : queue'[i] = queue[i]
          /\ queue'[Len(queue) + 1] = next
      BY <1>1, <2>1, <2>3
    <3>2. outcome'[next] = "pending" /\ \A q \in Request : q # next => outcome'[q] = outcome[q]
      BY <2>1, <2>3 DEF TypeInv, TypeOK
    <3>3. ASSUME NEW q \in Request
          PROVE  outcome'[q] = "pending" <=>
                   \/ \E i \in DOMAIN queue' : queue'[i] = q
                   \/ \E d \in recving' : cur'[d] = q
      <4>1. CASE q = next
        BY <3>1, <3>2, <4>1
      <4>2. CASE q # next
        <5>1. (\E i \in DOMAIN queue' : queue'[i] = q) <=> (\E i \in DOMAIN queue : queue[i] = q)
          BY <3>1, <4>2
        <5>2. QED
          BY <2>3, <3>2, <4>2, <5>1 DEF Held, PendingIsHeld
      <4>3. QED
        BY <4>1, <4>2
    <3>4. \A q \in Request : q >= next' => outcome'[q] = "new"
      BY <1>1, <2>1, <3>2 DEF Held
    <3>5. QED
      BY <2>3, <3>3, <3>4 DEF Held, PendingIsHeld, OneCall, InCallback
  <2>4. QED
    BY <1>2, <2>2, <2>3 DEF SendRequest
<1>3. CASE RunQueue
  <2>1. PICK k \in DOMAIN kids : FirstIdle(k) /\ Give(kids[k], Head(queue))
    BY <1>3 DEF RunQueue
  <2>2. kids[k] \in Child /\ kids[k] \notin busy
    BY <2>1 DEF FirstIdle, Idle, TypeInv, TypeOK
  <2>3. queue # <<>> /\ queue' = Tail(queue) /\ next' = next
    BY <1>3 DEF RunQueue
  <2>4. /\ Head(queue) \in Request /\ Head(queue) = queue[1] /\ 1 \in DOMAIN queue
        /\ DOMAIN queue' = 1..(Len(queue) - 1) /\ DOMAIN queue = 1..Len(queue) /\ Len(queue) \in Nat
        /\ \A i \in DOMAIN queue' : i + 1 \in DOMAIN queue /\ queue'[i] = queue[i + 1]
    BY <1>1, <2>3, HeadAndTail
  <2>5. \A d \in Child : cur[d] < Head(queue)
    BY <2>4 DEF Ordered, NoOvertaking
  <2>6. Head(queue) < next' /\ next' \in Nat /\ next' >= next
    BY <1>1, <2>3, <2>4 DEF Ordered
  <2>7. \A i \in DOMAIN queue' : queue'[i] # Head(queue)
    <3>1. ASSUME NEW i \in DOMAIN queue'
          PROVE  queue'[i] # Head(queue)
      <4>1. i + 1 \in DOMAIN queue /\ 1 < i + 1 /\ queue'[i] = queue[i + 1]
        BY <2>4
      <4>2. queue[1] < queue[i + 1] /\ queue[1] \in Nat /\ queue[i + 1] \in Nat
        BY <1>1, <2>4, <4>1, SMTT(30) DEF Ordered, NoOvertaking
      <4>3. QED
        BY <2>4, <4>1, <4>2
    <3>2. QED
      BY <3>1
  <2>8. ASSUME NEW q \in Request, q # Head(queue)
        PROVE  (\E i \in DOMAIN queue : queue[i] = q) <=> (\E i \in DOMAIN queue' : queue'[i] = q)
    <3>1. ASSUME NEW i \in DOMAIN queue, queue[i] = q
          PROVE  \E j \in DOMAIN queue' : queue'[j] = q
      <4>1. i # 1
        BY <2>4, <2>8, <3>1
      <4>2. i - 1 \in DOMAIN queue' /\ (i - 1) + 1 = i
        BY <2>4, <4>1
      <4>3. queue'[i - 1] = queue[(i - 1) + 1]
        BY <2>4, <4>2
      <4>4. QED
        BY <3>1, <4>2, <4>3
    <3>2. QED
      BY <2>4, <3>1
  <2>9. QED
    BY <2>1, <2>2, <2>4, <2>5, <2>6, <2>7, <2>8, GiveHeld
<1>4. ASSUME NEW c \in Child, SocketEvent(c)
      PROVE  Held'
  <2>1. c \in recving /\ c \in busy /\ ~InCallback(c)
    BY <1>4 DEF SocketEvent, ReadAnswer, ReadEOF, ReadError, Looks, Held
  <2>2. ASSUME NEW a \in BOOLEAN, Callback(c, a), busy' = busy
        PROVE  /\ recving' = recving \ {c} /\ recving' \subseteq busy'
               /\ OneCall'
               /\ \A d \in Child : InCallback(d)' => d \in busy' /\ d \notin recving'
    <3>1. recving' = recving \ {c}
      BY <2>2 DEF Callback, StopRecving
    <3>2. /\ \A d \in Child : InCallback(d)' => InCallback(d) \/ d = c
          /\ OneCall'
      BY <2>1, <2>2, CallsPush DEF Held
    <3>3. QED
      BY <2>1, <2>2, <3>1, <3>2 DEF Held
  <2>3. CASE ReadAnswer(c)
    <3>1. CASE UNCHANGED <<recving, cbs, rq, outcome>>
      BY <2>3, <3>1 DEF ReadAnswer, Held, PendingIsHeld, OneCall, InCallback
    <3>2. CASE Callback(c, TRUE) /\ outcome' = [outcome EXCEPT ![cur[c]] = "answered"]
      <4>1. busy' = busy /\ UNCHANGED <<cur, queue, next>>
        BY <2>3 DEF ReadAnswer
      <4>2. QED
        BY <2>1, <2>2, <3>2, <4>1, FinishHeld
    <3>3. QED
      BY <2>3, <3>1, <3>2 DEF ReadAnswer
  <2>4. CASE ReadEOF(c)
    <3>1. /\ recving' = recving \ {c} /\ busy' = busy \ {c} /\ cbs' = cbs
          /\ outcome' = [outcome EXCEPT ![cur[c]] = "lost"]
          /\ UNCHANGED <<cur, queue, next>>
      BY <2>4 DEF ReadEOF, Done, StopRecving
    <3>2. recving' \subseteq busy'
      BY <3>1 DEF Held
    <3>3. OneCall' /\ \A d \in Child : InCallback(d)' => InCallback(d)
      BY <3>1 DEF Held, OneCall, InCallback
    <3>4. \A d \in Child : InCallback(d)' => d \in busy' /\ d \notin recving'
      BY <2>1, <3>1, <3>3 DEF Held
    <3>5. QED
      BY <2>1, <3>1, <3>2, <3>3, <3>4, FinishHeld
  <2>5. CASE ReadError(c)
    <3>1. /\ Callback(c, FALSE) /\ busy' = busy
          /\ outcome' = [outcome EXCEPT ![cur[c]] = "failed"]
          /\ UNCHANGED <<cur, queue, next>>
      BY <2>5 DEF ReadError
    <3>2. QED
      BY <2>1, <2>2, <3>1, FinishHeld
  <2>6. QED
    BY <1>4, <2>3, <2>4, <2>5 DEF SocketEvent
<1>5. CASE CallbackReturn
  <2>1. /\ \A d \in Child : InCallback(d)' => InCallback(d) /\ d # Inner.child
        /\ OneCall' /\ InCallback(Inner.child) /\ Inner.child \in Child
    BY <1>5, CallsPop DEF Held, Frame
  <2>2. /\ UNCHANGED <<cur, recving, queue, next, outcome>>
        /\ busy' = busy \/ busy' = busy \ {Inner.child}
    BY <1>5 DEF CallbackReturn, Done
  <2>3. recving' \subseteq busy' /\ \A d \in Child : InCallback(d)' => d \in busy' /\ d \notin recving'
    BY <2>1, <2>2 DEF Held
  <2>4. QED
    BY <2>1, <2>2, <2>3 DEF Held, PendingIsHeld
<1>6. CASE UNCHANGED <<busy, cur, recving, queue, next, cbs, outcome>>
  BY <1>6 DEF Held, PendingIsHeld, OneCall, InCallback
<1>7. QED
  BY <1>2, <1>3, <1>4, <1>5, <1>6
     DEF Next, vars, parent, child, RunQueueEnd, Blocks, Flush, AddChild, WaitRequest, Dispatch, Die

\* A request has one holder at every moment.
LEMMA HeldAlways == Spec => []Held
<1>1. Init => Held
  BY DEF Init, Held, PendingIsHeld, OneCall, InCallback
<1>2. TypeInv /\ WorkConserving /\ Ordered /\ Held /\ [Next]_vars => Held'
  BY HeldStep
<1>3. QED
  BY <1>1, <1>2, TypeAlways, PoolIsWorkConserving, OrderedAlways, PTL DEF Spec

\* A request that waits for its callback is in the queue or is the one that one child,
\* and one only, is to answer: no nested SendRequest(), termination or death makes
\* the pool forget a request or give it twice.
THEOREM PoolForgetsNothing == Spec => []PendingIsHeld
<1>1. Held => PendingIsHeld
  BY DEF Held
<1>2. QED
  BY <1>1, HeldAlways, PTL

(***************************************************************************)
(* A death costs one request.                                              *)
(***************************************************************************)

\* Child c is dead and the pool will not give it a request again.
Doomed(c) ==
  /\ proc[c] = "dead"
  /\ c \in running => c \in busy /\ c \notin recving /\ ~WithAnswer(c)

\* Inductive: the last request of a dead child stays its last.
LossIsLast ==
  \A r \in Request :
    outcome[r] \in {"lost", "failed"} => \E c \in Child : cur[c] = r /\ Doomed(c)

\* SendRequest() gives nothing to a child that is doomed.
LEMMA GiveDooms ==
  ASSUME TypeInv, NEW c \in Child, Doomed(c), NEW d \in Child, Idle(d), NEW r, Give(d, r)
  PROVE  cur'[c] = cur[c] /\ Doomed(c)'
<1>1. c # d
  BY DEF Doomed, Idle
<1>2. QED
  BY <1>1 DEF Give, Doomed, WithAnswer, TypeInv, TypeOK

\* Requests that are lost stay so.
LEMMA DoomedStep ==
  ASSUME TypeInv, [Next]_vars, NEW c \in Child, Doomed(c)
  PROVE  cur'[c] = cur[c] /\ Doomed(c)'
<1>1. CASE SendRequest
  <2>1. CASE \E i \in DOMAIN kids : FirstIdle(i) /\ Give(kids[i], next)
    <3>1. PICK i \in DOMAIN kids : FirstIdle(i) /\ Give(kids[i], next)
      BY <2>1
    <3>2. kids[i] \in Child /\ Idle(kids[i])
      BY <3>1 DEF FirstIdle, TypeInv, TypeOK
    <3>3. QED
      BY <3>1, <3>2, GiveDooms
  <2>2. CASE UNCHANGED <<running, busy, cur, recving, cbs, child>>
    BY <2>2 DEF Doomed, WithAnswer, child
  <2>3. QED
    BY <1>1, <2>1, <2>2 DEF SendRequest
<1>2. CASE RunQueue
  <2>1. PICK i \in DOMAIN kids : FirstIdle(i) /\ Give(kids[i], Head(queue))
    BY <1>2 DEF RunQueue
  <2>2. kids[i] \in Child /\ Idle(kids[i])
    BY <2>1 DEF FirstIdle, TypeInv, TypeOK
  <2>3. QED
    BY <2>1, <2>2, GiveDooms
<1>3. CASE RunQueueEnd
  BY <1>3 DEF RunQueueEnd, Doomed, WithAnswer, child
<1>4. CASE CallbackReturn
  <2>1. /\ WithAnswer(c)' => WithAnswer(c)
        /\ Inner.answered => WithAnswer(Inner.child)
    BY <1>4, CallsPop
  <2>2. UNCHANGED <<cur, running, recving, proc>>
    BY <1>4 DEF CallbackReturn, child
  <2>3. busy' = busy \/ (Inner.answered /\ busy' = busy \ {Inner.child})
    BY <1>4 DEF CallbackReturn, Done
  <2>4. c \in busy /\ ~WithAnswer(c) => c \in busy'
    BY <2>1, <2>3
  <2>5. QED
    BY <2>1, <2>2, <2>4 DEF Doomed
<1>5. CASE Flush
  <2>1. PICK i \in DOMAIN kids :
          FirstIdle(i) /\ running' = running \ {kids[i]} /\ proc' = [proc EXCEPT ![kids[i]] = "gone"]
    BY <1>5 DEF Flush
  <2>2. kids[i] # c
    BY <2>1 DEF FirstIdle, Idle, Doomed
  <2>3. QED
    BY <1>5, <2>1, <2>2 DEF Flush, Doomed, WithAnswer, TypeInv, TypeOK
<1>6. ASSUME NEW d \in Child, SocketEvent(d)
      PROVE  cur'[c] = cur[c] /\ Doomed(c)'
  <2>1. ASSUME NEW a \in BOOLEAN, Callback(d, a), UNCHANGED <<cur, running, busy, proc>>
        PROVE  cur'[c] = cur[c] /\ Doomed(c)'
    <3>1. recving' = recving \ {d} /\ d \in recving
      BY <1>6, <2>1 DEF Callback, StopRecving, SocketEvent, ReadAnswer, ReadEOF, ReadError, Looks
    <3>2. c # d => (WithAnswer(c)' <=> WithAnswer(c))
      BY <2>1, CallsPush
    <3>3. QED
      BY <2>1, <3>1, <3>2 DEF Doomed
  <2>2. CASE ReadAnswer(d)
    <3>1. CASE UNCHANGED <<recving, cbs>>
      BY <2>2, <3>1 DEF ReadAnswer, Doomed, WithAnswer
    <3>2. CASE Callback(d, TRUE)
      BY <2>1, <2>2, <3>2 DEF ReadAnswer
    <3>3. QED
      BY <2>2, <3>1, <3>2 DEF ReadAnswer
  <2>3. CASE ReadEOF(d)
    BY <2>3 DEF ReadEOF, Done, StopRecving, RunningCleared, Doomed, WithAnswer, child
  <2>4. CASE ReadError(d)
    BY <2>1, <2>4 DEF ReadError, child
  <2>5. QED
    BY <1>6, <2>2, <2>3, <2>4 DEF SocketEvent
<1>7. ASSUME NEW d \in Child, AddChild(d)
      PROVE  cur'[c] = cur[c] /\ Doomed(c)'
  BY <1>7 DEF AddChild, Doomed, WithAnswer, TypeInv, TypeOK
<1>8. ASSUME NEW d \in Child, WaitRequest(d) \/ Dispatch(d) \/ Die(d)
      PROVE  cur'[c] = cur[c] /\ Doomed(c)'
  <2>1. proc'[c] = "dead"
    BY <1>8 DEF WaitRequest, Dispatch, Die, Doomed, TypeInv, TypeOK
  <2>2. UNCHANGED parent
    BY <1>8 DEF WaitRequest, Dispatch, Die
  <2>3. QED
    BY <2>1, <2>2 DEF parent, Doomed, WithAnswer
<1>9. CASE Blocks
  BY <1>9 DEF Blocks, child, Doomed, WithAnswer
<1>10. CASE UNCHANGED vars
  BY <1>10 DEF vars, parent, child, Doomed, WithAnswer
<1>11. QED
  BY <1>1, <1>2, <1>3, <1>4, <1>5, <1>6, <1>7, <1>8, <1>9, <1>10 DEF Next

\* The requests that a step ends without an answer.
LEMMA NewLoss ==
  ASSUME TypeInv, Held, [Next]_vars,
         NEW r \in Request, outcome'[r] \in {"lost", "failed"}, outcome[r] \notin {"lost", "failed"}
  PROVE  \E c \in Child : cur'[c] = r /\ Doomed(c)'
<1>1. ASSUME NEW q, outcome' = [outcome EXCEPT ![q] = "pending"]
      PROVE  FALSE
  BY <1>1 DEF TypeInv, TypeOK
<1>2. CASE SendRequest
  BY <1>1, <1>2 DEF SendRequest, Give
<1>3. CASE RunQueue
  BY <1>1, <1>3 DEF RunQueue, Give
<1>4. ASSUME NEW c \in Child, SocketEvent(c)
      PROVE  cur'[c] = r /\ Doomed(c)'
  <2>1. CASE ReadAnswer(c)
    BY <2>1 DEF ReadAnswer, TypeInv, TypeOK
  <2>2. CASE ReadEOF(c)
    <3>1. cur[c] = r
      BY <2>2 DEF ReadEOF, TypeInv, TypeOK
    <3>2. QED
      BY <2>2, <3>1 DEF ReadEOF, Closed, RunningCleared, Doomed, child
  <2>3. CASE ReadError(c)
    <3>1. cur[c] = r
      BY <2>3 DEF ReadError, TypeInv, TypeOK
    <3>2. c \in recving /\ c \in busy /\ ~InCallback(c)
      BY <2>3 DEF ReadError, Looks, Held
    <3>3. ~WithAnswer(c)'
      BY <2>3, <3>2, CallsPush DEF ReadError
    <3>4. c \in busy' /\ c \notin recving' /\ proc'[c] = "dead" /\ cur' = cur
      BY <2>3, <3>2 DEF ReadError, Closed, Callback, StopRecving, child
    <3>5. QED
      BY <3>1, <3>3, <3>4 DEF Doomed
  <2>4. QED
    BY <1>4, <2>1, <2>2, <2>3 DEF SocketEvent
<1>5. CASE UNCHANGED outcome
  BY <1>5
<1>6. QED
  BY <1>2, <1>3, <1>4, <1>5
     DEF Next, vars, RunQueueEnd, Blocks, CallbackReturn, Flush, AddChild, WaitRequest, Dispatch, Die

\* A request is lost by the death of a child only.
LEMMA LossStep ==
  ASSUME TypeInv, Held, LossIsLast, [Next]_vars
  PROVE  LossIsLast'
<1> SUFFICES ASSUME NEW r \in Request, outcome'[r] \in {"lost", "failed"}
             PROVE  \E c \in Child : cur'[c] = r /\ Doomed(c)'
  BY DEF LossIsLast
<1>1. CASE outcome[r] \in {"lost", "failed"}
  <2>1. PICK c \in Child : cur[c] = r /\ Doomed(c)
    BY <1>1 DEF LossIsLast
  <2>2. QED
    BY <2>1, DoomedStep
<1>2. CASE outcome[r] \notin {"lost", "failed"}
  BY <1>2, NewLoss
<1>3. QED
  BY <1>1, <1>2

\* A request that ends without an answer is the last one of a dead child, which the
\* pool never gives another: a death costs one request at most.
THEOREM DeathCostsOneRequest == Spec => []LossHasItsDeath
<1>1. Init => LossIsLast
  BY DEF Init, LossIsLast
<1>2. TypeInv /\ Held /\ LossIsLast /\ [Next]_vars => LossIsLast'
  BY LossStep
<1>3. LossIsLast => LossHasItsDeath
  BY DEF LossIsLast, LossHasItsDeath, Doomed
<1>4. QED
  BY <1>1, <1>2, <1>3, TypeAlways, HeldAlways, PTL DEF Spec

(***************************************************************************)
(* The pool is a request broker.                                           *)
(***************************************************************************)

\* Each operation of the group is a step of a broker of requests, or none.
LEMMA BrokerStep ==
  ASSUME TypeInv, Held, [Next]_vars
  PROVE  [Broker!Next]_outcome
<1> USE DEF Broker!Next, Broker!Submit, Broker!Finish, Broker!Final
<1>1. CASE SendRequest
  <2>1. next \in Request /\ outcome[next] = "new"
    BY <1>1, ProcessGroupAssumption DEF SendRequest, Held, Request
  <2>2. outcome' = [outcome EXCEPT ![next] = "pending"]
    BY <1>1 DEF SendRequest, Give
  <2>3. QED
    BY <2>1, <2>2
<1>2. CASE RunQueue
  <2>1. Head(queue) \in Request /\ outcome[Head(queue)] = "pending"
    BY <1>2, HeadAndTail DEF RunQueue, TypeInv, TypeOK, Held, PendingIsHeld
  <2>2. outcome' = [outcome EXCEPT ![Head(queue)] = "pending"]
    BY <1>2 DEF RunQueue, Give
  <2>3. QED
    BY <2>1, <2>2 DEF TypeInv, TypeOK
<1>3. ASSUME NEW c \in Child, SocketEvent(c)
      PROVE  [Broker!Next]_outcome
  <2>1. \/ outcome' = outcome
        \/ \E how \in Broker!Final : outcome' = [outcome EXCEPT ![cur[c]] = how]
    BY <1>3 DEF SocketEvent, ReadAnswer, ReadEOF, ReadError
  <2>2. CASE cur[c] \in Request
    <3>1. outcome[cur[c]] = "pending"
      BY <1>3, <2>2 DEF SocketEvent, ReadAnswer, ReadEOF, ReadError, Looks, Held, PendingIsHeld
    <3>2. QED
      BY <2>1, <2>2, <3>1
  <2>3. CASE cur[c] \notin Request
    BY <2>1, <2>3 DEF TypeInv, TypeOK
  <2>4. QED
    BY <2>2, <2>3
<1>4. CASE UNCHANGED outcome
  BY <1>4
<1>5. QED
  BY <1>1, <1>2, <1>3, <1>4
     DEF Next, vars, RunQueueEnd, Blocks, CallbackReturn, Flush, AddChild, WaitRequest, Dispatch, Die

\* The pool implements RequestBroker, on which DNSCache is built: every request has at
\* most one callback, and none after it was lost.
THEOREM PoolImplementsBroker == Spec => BrokerSpec
<1>1. Init => Broker!Init
  BY DEF Init, Broker!Init
<1>2. TypeInv /\ Held /\ [Next]_vars => [Broker!Next]_outcome
  BY BrokerStep
<1>3. QED
  BY <1>1, <1>2, TypeAlways, HeldAlways, PTL DEF Spec, BrokerSpec, Broker!Spec

(***************************************************************************)
(* An answer is all of the answer to the request it is given for.          *)
(***************************************************************************)

AllOf(s, r) == \A i \in DOMAIN s : s[i] = r

\* ReadAnswer() moves the first n pieces of the socket to the end of what was read.
LEMMA MovePieces ==
  ASSUME NEW S, NEW s \in Seq(S), NEW t \in Seq(S), NEW r, AllOf(s, r), AllOf(t, r),
         NEW n \in 1..Len(t)
  PROVE  /\ AllOf(s \o SubSeq(t, 1, n), r)
         /\ AllOf(SubSeq(t, n + 1, Len(t)), r)
         /\ Len(s \o SubSeq(t, 1, n)) = Len(s) + n
         /\ Len(SubSeq(t, n + 1, Len(t))) = Len(t) - n
<1>1. n \in Nat /\ n <= Len(t) /\ Len(t) \in Nat /\ Len(s) \in Nat
  OBVIOUS
<1>2. /\ Len(SubSeq(t, 1, n)) = n
      /\ SubSeq(t, 1, n) \in Seq(S)
      /\ \A i \in 1..n : SubSeq(t, 1, n)[i] = t[i]
  BY <1>1
<1>3. /\ Len(SubSeq(t, n + 1, Len(t))) = Len(t) - n
      /\ SubSeq(t, n + 1, Len(t)) \in Seq(S)
      /\ \A i \in 1..(Len(t) - n) : SubSeq(t, n + 1, Len(t))[i] = t[n + i]
  BY <1>1
<1>4. /\ Len(s \o SubSeq(t, 1, n)) = Len(s) + n
      /\ DOMAIN (s \o SubSeq(t, 1, n)) = 1..(Len(s) + n)
      /\ \A i \in 1..(Len(s) + n) :
           (s \o SubSeq(t, 1, n))[i] = IF i <= Len(s) THEN s[i] ELSE SubSeq(t, 1, n)[i - Len(s)]
  BY <1>1, <1>2
<1>5. ASSUME NEW i \in 1..(Len(s) + n)
      PROVE  (s \o SubSeq(t, 1, n))[i] = r
  <2>1. CASE i <= Len(s)
    BY <1>1, <1>4, <2>1 DEF AllOf
  <2>2. CASE i > Len(s)
    <3>1. i - Len(s) \in 1..n /\ i - Len(s) \in DOMAIN t
      BY <1>1, <2>2
    <3>2. SubSeq(t, 1, n)[i - Len(s)] = r
      BY <1>2, <3>1 DEF AllOf
    <3>3. QED
      BY <1>1, <1>4, <2>2, <3>2
  <2>3. QED
    BY <1>1, <2>1, <2>2
<1>6. AllOf(s \o SubSeq(t, 1, n), r)
  BY <1>4, <1>5 DEF AllOf
<1>7. AllOf(SubSeq(t, n + 1, Len(t)), r)
  <2>1. \A i \in 1..(Len(t) - n) : n + i \in DOMAIN t
    BY <1>1
  <2>2. DOMAIN SubSeq(t, n + 1, Len(t)) = 1..(Len(t) - n)
    BY <1>1, <1>3
  <2>3. QED
    BY <1>3, <2>1, <2>2 DEF AllOf
<1>8. QED
  BY <1>3, <1>4, <1>6, <1>7

\* All of the answer was read: nothing is left in the socket.
LEMMA NothingLeft ==
  ASSUME NEW d \in Nat, NEW o \in Nat, NEW p \in Nat, NEW e, NEW size \in Nat,
         e = size, e + p = d + o, d + o <= size
  PROVE  p = 0 /\ d + o = size
OBVIOUS

\* One more piece fits, and the child serves on only if yet another does.
LEMMA OneMore ==
  ASSUME NEW d \in Nat, NEW o \in Nat, NEW size \in Nat, NEW p, p = o + 1, d + o < size
  PROVE  d + p <= size /\ (d + o + 1 # size => d + p < size)
OBVIOUS

\* The phases of a child, as the daemon and the socket see it together.
Unused(c) ==
  /\ proc[c] = "unborn"
  /\ c \notin running /\ c \notin busy /\ c \notin recving
  /\ inbox[c] = <<>> /\ outbox[c] = <<>>

Free(c) ==
  /\ proc[c] \in {"waiting", "dead"}
  /\ c \in running /\ c \notin busy /\ c \notin recving
  /\ inbox[c] = <<>> /\ outbox[c] = <<>>

Asked(c) ==
  /\ proc[c] \in {"waiting", "dead"}
  /\ c \in busy /\ c \in recving
  /\ proc[c] # "dead" => c \in running
  /\ inbox[c] = <<cur[c]>> /\ outbox[c] = <<>> /\ data[c] = <<>>

Answering(c) ==
  /\ proc[c] \in {"waiting", "serving", "dead"}
  /\ c \in busy /\ c \in recving
  /\ proc[c] # "dead" => c \in running
  /\ inbox[c] = <<>>
  /\ AllOf(outbox[c], cur[c])
  /\ AllOf(data[c], cur[c])
  /\ Len(data[c]) + Len(outbox[c]) <= Pieces
  /\ proc[c] = "serving" => job[c] = cur[c] /\ Len(data[c]) + Len(outbox[c]) < Pieces

Answered(c) ==
  /\ proc[c] \in {"waiting", "dead"}
  /\ c \in busy /\ c \notin recving
  /\ proc[c] # "dead" => c \in running
  /\ WithAnswer(c)
  /\ inbox[c] = <<>> /\ outbox[c] = <<>>
  /\ AllOf(data[c], cur[c])
  /\ Len(data[c]) = Pieces

Over(c) ==
  /\ proc[c] \in {"dead", "gone"}
  /\ c \notin recving
  /\ ~WithAnswer(c)
  /\ c \in running => c \in busy

Phase(c) == Unused(c) \/ Free(c) \/ Asked(c) \/ Answering(c) \/ Answered(c) \/ Over(c)

Phases == \A c \in Child : Phase(c) /\ (WithAnswer(c) => Answered(c))

\* A step that leaves alone all that concerns child c.
LEMMA SamePhase ==
  ASSUME NEW c \in Child,
         Phase(c) /\ (WithAnswer(c) => Answered(c)),
         proc'[c] = proc[c], inbox'[c] = inbox[c], outbox'[c] = outbox[c],
         job'[c] = job[c], cur'[c] = cur[c], data'[c] = data[c],
         c \in running' <=> c \in running,
         c \in busy' <=> c \in busy,
         c \in recving' <=> c \in recving,
         WithAnswer(c)' <=> WithAnswer(c)
  PROVE  Phase(c)' /\ (WithAnswer(c) => Answered(c))'
BY DEF Phase, Unused, Free, Asked, Answering, Answered, Over, AllOf

\* A request that is given to a child is out of the queue.
LEMMA GivePhases ==
  ASSUME TypeInv, Held, Phases, NEW d \in Child, Idle(d), NEW r \in Request, Give(d, r)
  PROVE  Phases'
<1> SUFFICES ASSUME NEW c \in Child
             PROVE  Phase(c)' /\ (WithAnswer(c) => Answered(c))'
  BY DEF Phases
<1>1. CASE c # d
  <2>1. /\ proc'[c] = proc[c] /\ inbox'[c] = inbox[c] /\ outbox'[c] = outbox[c]
        /\ job'[c] = job[c] /\ cur'[c] = cur[c] /\ data'[c] = data[c]
        /\ c \in running' <=> c \in running
        /\ c \in busy' <=> c \in busy
        /\ c \in recving' <=> c \in recving
        /\ WithAnswer(c)' <=> WithAnswer(c)
    BY <1>1 DEF Give, TypeInv, TypeOK, WithAnswer
  <2>2. QED
    BY <2>1, SamePhase DEF Phases
<1>2. CASE c = d
  <2>1. Free(c)
    BY <1>2 DEF Phases, Phase, Unused, Free, Asked, Answering, Answered, Over, Idle
  <2>2. ~WithAnswer(c) /\ ~WithAnswer(c)'
    BY <1>2 DEF Idle, Held, Give, WithAnswer, InCallback
  <2>3. /\ cur'[c] = r /\ data'[c] = <<>> /\ outbox'[c] = <<>> /\ proc' = proc
        /\ c \in busy' /\ c \in recving' /\ c \in running'
    BY <1>2, <2>1 DEF Give, Free, TypeInv, TypeOK
  <2>4. CASE proc[c] # "dead"
    <3>1. inbox'[c] = <<r>>
      BY <1>2, <2>1, <2>4 DEF Give, Free, TypeInv, TypeOK
    <3>2. Asked(c)'
      BY <2>1, <2>3, <3>1 DEF Asked, Free
    <3>3. QED
      BY <2>2, <3>2 DEF Phase
  <2>5. CASE proc[c] = "dead"
    <3>1. inbox'[c] = <<>>
      BY <1>2, <2>1, <2>5 DEF Give, Free
    <3>2. AllOf(data'[c], cur'[c]) /\ AllOf(outbox'[c], cur'[c])
      BY <2>3 DEF AllOf
    <3>3. Len(data'[c]) + Len(outbox'[c]) <= Pieces
      BY <2>3, ProcessGroupAssumption
    <3>4. Answering(c)'
      BY <2>3, <2>5, <3>1, <3>2, <3>3 DEF Answering
    <3>5. QED
      BY <2>2, <3>4 DEF Phase
  <2>6. QED
    BY <2>4, <2>5
<1>3. QED
  BY <1>1, <1>2

\* What a step that concerns child d leaves alone of the others.
Apart(d) ==
  \A c \in Child \ {d} :
    /\ proc'[c] = proc[c] /\ inbox'[c] = inbox[c] /\ outbox'[c] = outbox[c]
    /\ job'[c] = job[c] /\ cur'[c] = cur[c] /\ data'[c] = data[c]
    /\ c \in running' <=> c \in running
    /\ c \in busy' <=> c \in busy
    /\ c \in recving' <=> c \in recving
    /\ WithAnswer(c)' <=> WithAnswer(c)

\* A request is in one phase of its life.
LEMMA OnePhase ==
  ASSUME Phases, NEW d \in Child, Apart(d), Phase(d)', (WithAnswer(d) => Answered(d))'
  PROVE  Phases'
<1>1. ASSUME NEW c \in Child, c # d
      PROVE  Phase(c)' /\ (WithAnswer(c) => Answered(c))'
  BY <1>1, SamePhase DEF Phases, Apart
<1>2. QED
  BY <1>1 DEF Phases

\* Every operation moves a request forward in its life.
LEMMA PhasesStep ==
  ASSUME TypeInv, WorkConserving, Ordered, Held, Phases, [Next]_vars
  PROVE  Phases'
<1> USE ProcessGroupAssumption
<1>1. CASE SendRequest
  <2>1. CASE \E i \in DOMAIN kids : FirstIdle(i) /\ Give(kids[i], next)
    <3>1. PICK i \in DOMAIN kids : FirstIdle(i) /\ Give(kids[i], next)
      BY <2>1
    <3>2. kids[i] \in Child /\ Idle(kids[i]) /\ next \in Request
      BY <1>1, <3>1 DEF SendRequest, FirstIdle, TypeInv, TypeOK
    <3>3. QED
      BY <3>1, <3>2, GivePhases
  <2>2. CASE UNCHANGED <<running, busy, cur, recving, data, cbs, child>>
    BY <2>2, SamePhase DEF Phases, WithAnswer, child
  <2>3. QED
    BY <1>1, <2>1, <2>2 DEF SendRequest
<1>2. CASE RunQueue
  <2>1. PICK i \in DOMAIN kids : FirstIdle(i) /\ Give(kids[i], Head(queue))
    BY <1>2 DEF RunQueue
  <2>2. kids[i] \in Child /\ Idle(kids[i]) /\ Head(queue) \in Request
    BY <1>2, <2>1, HeadAndTail DEF RunQueue, FirstIdle, TypeInv, TypeOK
  <2>3. QED
    BY <2>1, <2>2, GivePhases
<1>3. CASE RunQueueEnd
  BY <1>3, SamePhase DEF Phases, RunQueueEnd, WithAnswer, child
<1>4. CASE CallbackReturn
  <2>1. PICK d \in Child : d = Inner.child
    BY <1>4, CallsPop DEF Frame
  <2>2. /\ \A c : c # d => (WithAnswer(c)' <=> WithAnswer(c))
        /\ ~WithAnswer(d)'
        /\ Inner.answered => WithAnswer(d)
        /\ ~Inner.answered => ~WithAnswer(d)
    <3>1. /\ \A c : c # d => (WithAnswer(c)' <=> WithAnswer(c))
          /\ Inner.answered => WithAnswer(d)
          /\ ~Inner.answered => ~WithAnswer(d)
      BY <1>4, <2>1, CallsPop DEF Held
    <3>2. ~InCallback(d)'
      BY <1>4, <2>1, CallsPop DEF Held
    <3>3. QED
      BY <3>1, <3>2 DEF InCallback, WithAnswer
  <2>3. CASE Inner.answered
    <3>1. Answered(d)
      BY <2>2, <2>3 DEF Phases
    <3>2. /\ busy' = busy \ {d}
          /\ data' = [data EXCEPT ![d] = <<>>]
          /\ UNCHANGED <<running, cur, recving, child>>
      BY <1>4, <2>1, <2>3 DEF CallbackReturn, Done
    <3>3. Apart(d)
      BY <2>2, <3>2 DEF Apart, child, TypeInv, TypeOK
    <3>4. CASE d \in running
      <4>1. Free(d)'
        BY <3>1, <3>2, <3>4 DEF Answered, Free, child
      <4>2. QED
        BY <2>2, <3>3, <4>1, OnePhase DEF Phase
    <3>5. CASE d \notin running
      <4>1. Over(d)'
        BY <2>2, <3>1, <3>2, <3>5 DEF Answered, Over, child
      <4>2. QED
        BY <2>2, <3>3, <4>1, OnePhase DEF Phase
    <3>6. QED
      BY <3>4, <3>5
  <2>4. CASE ~Inner.answered
    <3>1. \A c : WithAnswer(c)' <=> WithAnswer(c)
      BY <2>2, <2>4
    <3>2. UNCHANGED <<running, busy, cur, recving, data, child>>
      BY <1>4, <2>4 DEF CallbackReturn
    <3>3. QED
      BY <3>1, <3>2, SamePhase DEF Phases, child
  <2>5. QED
    BY <2>3, <2>4
<1>5. CASE Flush
  <2>1. PICK i \in DOMAIN kids :
          FirstIdle(i) /\ running' = running \ {kids[i]} /\ proc' = [proc EXCEPT ![kids[i]] = "gone"]
    BY <1>5 DEF Flush
  <2>2. /\ kids[i] \in Child /\ Idle(kids[i])
        /\ \A c : ~WithAnswer(c) /\ ~WithAnswer(c)'
        /\ UNCHANGED <<busy, cur, recving, data, inbox, job, outbox>>
    BY <1>5, <2>1 DEF Flush, AtRest, FirstIdle, WithAnswer, TypeInv, TypeOK
  <2>3. PICK d \in Child : d = kids[i]
    BY <2>2
  <2>4. Phase(d)' /\ (WithAnswer(d) => Answered(d))'
    <3>1. proc'[d] = "gone" /\ d \notin running' /\ d \notin busy
      BY <2>1, <2>2, <2>3 DEF Idle, TypeInv, TypeOK
    <3>2. d \notin recving
      BY <3>1 DEF Held
    <3>3. Over(d)'
      BY <2>2, <3>1, <3>2 DEF Over
    <3>4. QED
      BY <2>2, <3>3 DEF Phase
  <2>5. Apart(d)
    BY <2>1, <2>2, <2>3 DEF Apart, TypeInv, TypeOK
  <2>6. QED
    BY <2>4, <2>5, OnePhase
<1>6. ASSUME NEW c \in Child, SocketEvent(c)
      PROVE  Phases'
  <2>1. c \in recving /\ ~InCallback(c) /\ ~WithAnswer(c)
    BY <1>6 DEF SocketEvent, ReadAnswer, ReadEOF, ReadError, Looks, Held, InCallback, WithAnswer
  <2>2. Asked(c) \/ Answering(c)
    BY <2>1 DEF Phases, Phase, Unused, Free, Answered, Over
  <2>3. CASE ReadAnswer(c)
    <3>1. PICK n \in 1..Len(outbox[c]) :
            /\ data' = [data EXCEPT ![c] = @ \o SubSeq(outbox[c], 1, n)]
            /\ outbox' = [outbox EXCEPT ![c] = SubSeq(@, n + 1, Len(@))]
      BY <2>3 DEF ReadAnswer
    <3>2. Answering(c)
      BY <2>2, <3>1 DEF Asked
    <3>3. /\ data'[c] = data[c] \o SubSeq(outbox[c], 1, n)
          /\ outbox'[c] = SubSeq(outbox[c], n + 1, Len(outbox[c]))
          /\ data[c] \in Seq(Request) /\ outbox[c] \in Seq(Request)
      BY <3>1 DEF TypeInv, TypeOK
    <3>4. /\ AllOf(data'[c], cur[c]) /\ AllOf(outbox'[c], cur[c])
          /\ Len(data'[c]) = Len(data[c]) + n /\ Len(outbox'[c]) = Len(outbox[c]) - n
      BY <3>1, <3>2, <3>3, MovePieces DEF Answering
    <3>5. Len(data'[c]) + Len(outbox'[c]) = Len(data[c]) + Len(outbox[c])
      <4>1. n \in Nat /\ Len(data[c]) \in Nat /\ Len(outbox[c]) \in Nat
        BY <3>1, <3>3
      <4>2. Len(outbox'[c]) \in Nat /\ Len(outbox'[c]) + n = Len(outbox[c])
        <5>1. n <= Len(outbox[c]) /\ Len(outbox'[c]) = Len(outbox[c]) - n
          BY <3>4, <3>1
        <5>2. QED
          BY <4>1, <5>1
      <4>3. (Len(data[c]) + n) + Len(outbox'[c]) = Len(data[c]) + Len(outbox[c])
        <5>1. \A d, o, p \in Nat : p + n = o => (d + n) + p = d + o
          BY <4>1
        <5>2. QED
          BY <4>1, <4>2, <5>1, ZenonT(40)
      <4>4. QED
        BY <3>4, <4>3, Zenon
    <3>6. UNCHANGED <<running, busy, cur, proc, inbox, job>>
      BY <2>3 DEF ReadAnswer
    <3>7. CASE UNCHANGED <<recving, cbs>>
      <4>1. Answering(c)'
        BY <3>2, <3>4, <3>5, <3>6, <3>7 DEF Answering
      <4>2. Apart(c)
        BY <3>1, <3>6, <3>7 DEF Apart, WithAnswer, TypeInv, TypeOK
      <4>3. ~WithAnswer(c)'
        BY <2>1, <3>7 DEF WithAnswer
      <4>4. QED
        BY <4>1, <4>2, <4>3, OnePhase DEF Phase
    <3>8. CASE IsAnswerComplete(data'[c]) /\ Callback(c, TRUE)
      <4> recving' = recving \ {c}
        BY <3>8 DEF Callback, StopRecving
      <4> WithAnswer(c)' /\ \A d : d # c => (WithAnswer(d)' <=> WithAnswer(d))
        BY <3>8, CallsPush
      <4>1. Len(data'[c]) = Pieces
        BY <3>8 DEF IsAnswerComplete
      <4>2. outbox'[c] \in Seq(Request) /\ Len(outbox'[c]) = 0 /\ proc[c] # "serving"
        <5>1. outbox'[c] \in Seq(Request)
          BY <3>1, <3>3, PartsAreSequences
        <5>2. Len(outbox'[c]) \in Nat /\ Len(data[c]) \in Nat /\ Len(outbox[c]) \in Nat
          BY <3>3, <5>1
        <5>3. QED
          <6>1. /\ Len(data[c]) + Len(outbox[c]) <= Pieces
                /\ proc[c] = "serving" => Len(data[c]) + Len(outbox[c]) < Pieces
            BY <3>2 DEF Answering
          <6>2. Pieces \in Nat
            OBVIOUS
          <6>3. Len(outbox'[c]) = 0 /\ Len(data[c]) + Len(outbox[c]) = Pieces
            BY <3>5, <4>1, <5>2, <6>1, <6>2, NothingLeft, Zenon
          <6>4. ~(Pieces < Pieces)
            BY <6>2
          <6>5. QED
            BY <5>1, <6>1, <6>3, <6>4, Zenon
      <4>3. outbox'[c] = <<>>
        BY <4>2
      <4>4. Answered(c)'
        BY <3>2, <3>4, <3>6, <3>8, <4>1, <4>2, <4>3 DEF Answering, Answered
      <4>5. Apart(c)
        BY <2>1, <3>1, <3>6, <3>8 DEF Apart, TypeInv, TypeOK
      <4>6. QED
        BY <4>4, <4>5, OnePhase DEF Phase
    <3>9. QED
      BY <2>3, <3>7, <3>8 DEF ReadAnswer
  <2>4. CASE ReadEOF(c)
    <3>1. /\ c \notin running' /\ c \notin recving' /\ proc'[c] = "dead" /\ ~WithAnswer(c)'
      BY <2>1, <2>4 DEF ReadEOF, Closed, StopRecving, RunningCleared, WithAnswer, child
    <3>2. Over(c)'
      BY <3>1 DEF Over
    <3>3. Apart(c)
      BY <2>4 DEF ReadEOF, Done, StopRecving, RunningCleared, WithAnswer, child, Apart, TypeInv, TypeOK
    <3>4. QED
      BY <3>1, <3>2, <3>3, OnePhase DEF Phase
  <2>5. CASE ReadError(c)
    <3>1. ~WithAnswer(c)' /\ \A d : d # c => (WithAnswer(d)' <=> WithAnswer(d))
      BY <2>1, <2>5, CallsPush DEF ReadError
    <3>2. Over(c)'
      <4>1. c \in busy' /\ c \notin recving' /\ proc'[c] = "dead"
        BY <2>1, <2>5 DEF ReadError, Closed, Callback, StopRecving, child, Held
      <4>2. QED
        BY <3>1, <4>1 DEF Over
    <3>3. Apart(c)
      BY <2>5, <3>1 DEF ReadError, Callback, StopRecving, child, Apart, TypeInv, TypeOK
    <3>4. QED
      BY <3>1, <3>2, <3>3, OnePhase DEF Phase
  <2>6. QED
    BY <1>6, <2>3, <2>4, <2>5 DEF SocketEvent
<1>7. ASSUME NEW c \in Child, AddChild(c)
      PROVE  Phases'
  <2>1. Unused(c)
    BY <1>7 DEF AddChild, Phases, Phase, Free, Asked, Answering, Answered, Over
  <2>2. /\ \A d : ~WithAnswer(d) /\ ~WithAnswer(d)'
        /\ UNCHANGED <<busy, cur, recving, data, inbox, job, outbox>>
    BY <1>7 DEF AddChild, AtRest, WithAnswer
  <2>3. proc'[c] = "waiting" /\ c \in running'
    BY <1>7 DEF AddChild, TypeInv, TypeOK
  <2>4. Free(c)'
    BY <2>1, <2>2, <2>3 DEF Unused, Free
  <2>5. Apart(c)
    BY <1>7, <2>2 DEF AddChild, Apart, TypeInv, TypeOK
  <2>6. QED
    BY <2>2, <2>4, <2>5, OnePhase DEF Phase
<1>8. ASSUME NEW c \in Child, WaitRequest(c) \/ Dispatch(c) \/ Die(c)
      PROVE  Phases'
  <2>1. /\ UNCHANGED <<running, busy, cur, recving, data>>
        /\ \A d : WithAnswer(d)' <=> WithAnswer(d)
    BY <1>8 DEF WaitRequest, Dispatch, Die, parent, WithAnswer
  <2>2. Apart(c)
    BY <1>8, <2>1 DEF WaitRequest, Dispatch, Die, Apart, TypeInv, TypeOK
  <2>3. CASE WaitRequest(c)
    <3>1. Asked(c)
      BY <2>3 DEF WaitRequest, Phases, Phase, Unused, Free, Answering, Answered, Over
    <3>2. /\ Head(inbox[c]) = cur[c] /\ Tail(inbox[c]) = <<>> /\ Len(data[c]) = 0 /\ Len(outbox[c]) = 0
      BY <3>1 DEF Asked
    <3>3. /\ proc'[c] = "serving" /\ inbox'[c] = <<>> /\ job'[c] = cur[c] /\ outbox'[c] = <<>>
      BY <2>3, <3>1, <3>2 DEF WaitRequest, Asked, TypeInv, TypeOK
    <3>4. AllOf(data'[c], cur[c]) /\ AllOf(outbox'[c], cur[c])
      BY <2>1, <3>1, <3>3 DEF Asked, AllOf
    <3>5. proc[c] # "dead" /\ Pieces \in Nat /\ Pieces > 0
      BY <2>3 DEF WaitRequest
    <3>6. Answering(c)'
      BY <2>1, <3>1, <3>2, <3>3, <3>4, <3>5 DEF Asked, Answering
    <3>7. ~WithAnswer(c)'
      BY <2>1, <3>1 DEF Asked, Held, WithAnswer, InCallback
    <3>8. QED
      BY <2>1, <2>2, <3>6, <3>7, OnePhase DEF Phase
  <2>4. CASE Dispatch(c)
    <3>1. Answering(c)
      BY <2>4 DEF Dispatch, Phases, Phase, Unused, Free, Asked, Answered, Over
    <3>2. /\ outbox[c] \in Seq(Request) /\ job[c] \in Request /\ data[c] \in Seq(Request)
      BY <2>4 DEF Dispatch, TypeInv, TypeOK, JobIsRequest
    <3>3. /\ outbox'[c] = Append(outbox[c], job[c])
          /\ proc'[c] = IF Written(c) + 1 = Pieces THEN "waiting" ELSE "serving"
          /\ inbox'[c] = inbox[c] /\ job'[c] = job[c]
      BY <2>4 DEF Dispatch, TypeInv, TypeOK
    <3>4. Len(outbox'[c]) = Len(outbox[c]) + 1 /\ AllOf(outbox'[c], cur[c])
      BY <2>4, <3>1, <3>2, <3>3 DEF Dispatch, Answering, AllOf
    <3>5. /\ Len(data[c]) + Len(outbox'[c]) <= Pieces
          /\ proc'[c] = "serving" => Len(data[c]) + Len(outbox'[c]) < Pieces
      <4>1. /\ Len(data[c]) \in Nat /\ Len(outbox[c]) \in Nat /\ Pieces \in Nat
        BY <3>2
      <4>2. Len(data[c]) + Len(outbox[c]) < Pieces
        BY <2>4, <3>1 DEF Dispatch, Answering
      <4>3. proc'[c] = "serving" => Len(data[c]) + Len(outbox[c]) + 1 # Pieces
        BY <3>3 DEF Written
      <4>4. QED
        BY <3>4, <4>1, <4>2, <4>3, OneMore
    <3>6. Answering(c)'
      BY <2>1, <2>4, <3>1, <3>3, <3>4, <3>5 DEF Answering, Dispatch
    <3>7. ~WithAnswer(c)'
      BY <2>1, <3>1 DEF Answering, Held, WithAnswer, InCallback
    <3>8. QED
      BY <2>1, <2>2, <3>6, <3>7, OnePhase DEF Phase
  <2>5. CASE Die(c)
    <3>1. proc[c] \in {"waiting", "serving"} /\ proc'[c] = "dead" /\ UNCHANGED <<inbox, job, outbox>>
      BY <2>5 DEF Die, TypeInv, TypeOK
    <3>2. Phase(c)'
      BY <2>1, <3>1 DEF Phases, Phase, Unused, Free, Asked, Answering, Answered, Over
    <3>3. (WithAnswer(c) => Answered(c))'
      BY <2>1, <3>1 DEF Phases, Answered
    <3>4. QED
      BY <2>2, <3>2, <3>3, OnePhase
  <2>6. QED
    BY <1>8, <2>3, <2>4, <2>5
<1>9. CASE Blocks
  BY <1>9, SamePhase DEF Phases, Blocks, WithAnswer, child
<1>10. CASE UNCHANGED vars
  BY <1>10, SamePhase DEF Phases, WithAnswer, vars, parent, child
<1>11. QED
  BY <1>1, <1>2, <1>3, <1>4, <1>5, <1>6, <1>7, <1>8, <1>9, <1>10 DEF Next

\* The bytes handed to a callback are all of the answer to the request it was given
\* with, and nothing else, however the answer is cut by recv() and whenever children
\* die.
THEOREM AnswersAreRight == Spec => []RightAnswer
<1>1. Init => Phases
  <2>1. SUFFICES ASSUME Init, NEW c \in Child
                 PROVE  Unused(c) /\ ~WithAnswer(c)
    BY <2>1 DEF Phases, Phase
  <2>2. QED
    BY <2>1 DEF Init, Unused, WithAnswer
<1>2. TypeInv /\ WorkConserving /\ Ordered /\ Held /\ Phases /\ [Next]_vars => Phases'
  BY PhasesStep
<1>3. TypeInv /\ Phases => RightAnswer
  <2>1. SUFFICES ASSUME TypeInv, Phases, NEW k \in DOMAIN cbs, cbs[k].answered
                 PROVE  /\ Len(data[cbs[k].child]) = Pieces
                        /\ \A i \in DOMAIN data[cbs[k].child] :
                             data[cbs[k].child][i] = cur[cbs[k].child]
    BY <2>1 DEF RightAnswer
  <2>2. cbs[k].child \in Child
    <3>1. cbs[k] \in Frame
      BY <2>1 DEF TypeInv, TypeOK
    <3>2. QED
      BY <3>1 DEF Frame
  <2>3. Answered(cbs[k].child)
    BY <2>1, <2>2 DEF Phases, WithAnswer
  <2>4. QED
    BY <2>3 DEF Answered, AllOf
<1>4. QED
  BY <1>1, <1>2, <1>3, TypeAlways, PoolIsWorkConserving, OrderedAlways, HeldAlways, PTL DEF Spec

=============================================================================
