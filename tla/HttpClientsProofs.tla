------------------------- MODULE HttpClientsProofs -------------------------
(***************************************************************************)
(* Proofs about a client of the HTTP proxy and about the connections to a  *)
(* server that are kept.                                                   *)
(***************************************************************************)
EXTENDS HttpClients, FiniteSetTheorems, WellFoundedInduction, TLAPS

\* An HTTPData: which fields it has, and the counters.
Fields ==
    {"script", "inq", "eof", "client", "recving", "writing", "server", "serverRecving",
     "state", "serverState", "lookup", "cached", "method", "keep", "head", "rest", "resp",
     "units", "due", "status", "causes", "asked", "answered"}
HTTPData(x) ==
    /\ x = [f \in Fields |-> x[f]]
    /\ x.asked \in Nat /\ x.answered \in Nat

\* What was read was not always the head of a request.
Stray(x) == "not_a_request" \in x.causes

\* The request that was read last has been answered, or has not.
Answered(x) == x.answered = x.asked /\ ~Stray(x)
Waiting(x)  == x.answered + 1 = x.asked /\ ~Stray(x) /\ ~x.head

\* Only what is asked for with GET or HEAD is looked for in the cache.
Uncached(x) == x.method \in {"CONNECT", "POST"} => x.cached = "none"

\* The states of a client, by what is done for it.
Asking(x) ==
    /\ x.state = "REQUEST" /\ x.serverState \in {"REQUEST", "CLOSING"}
    /\ x.client /\ ~x.server /\ x.cached = "none" /\ ~x.head /\ Answered(x)
LookingUp(x) ==
    /\ x.state = "RESOLVING" /\ x.serverState = "RESOLVING" /\ ~x.recving
    /\ x.client /\ ~x.server /\ x.cached \in {"none", "stale"} /\ Waiting(x)
    /\ Uncached(x)
Connecting(x) ==
    /\ x.state = "CONNECTING" /\ x.serverState \in {"CONNECTING", "SERVER_RESPONSE"}
    /\ x.client /\ x.server /\ ~x.recving /\ x.cached \in {"none", "stale"} /\ Waiting(x)
    /\ Uncached(x)
Receiving(x) ==
    /\ x.state = "BODY" /\ x.serverState = "BODY" /\ ~x.recving
    /\ x.client /\ x.server /\ x.cached \in {"none", "own"} /\ Answered(x) /\ x.head
Reading(x) ==
    /\ x.state = "BODY" /\ x.serverState \in {"CLOSING", "REQUEST"} /\ ~x.recving
    /\ x.client /\ ~x.server /\ x.cached = "joined" /\ Answered(x) /\ x.head
Leaving(x) ==
    /\ x.state = "CLOSING" /\ x.serverState \in {"CLOSING", "REQUEST"}
    /\ x.client /\ ~x.server /\ x.writing /\ x.cached \notin {"own", "joined"}
Alone(x) ==
    /\ x.state = "CLOSING" /\ x.serverState = "BODY" /\ ~x.recving /\ ~x.writing
    /\ ~x.client /\ x.server /\ x.cached \in {"none", "own"} /\ x.head
Tunneling(x) ==
    /\ x.state = "TUNNELING" /\ x.serverState = "TUNNELING"
    /\ x.client /\ x.server /\ x.cached = "none" /\ Answered(x)

InMode(x) ==
    \/ Asking(x) \/ LookingUp(x) \/ Connecting(x) \/ Receiving(x) \/ Reading(x)
    \/ Leaving(x) \/ Alone(x) \/ Tunneling(x)

Counted(x)  == x.answered <= x.asked + (IF Stray(x) THEN 1 ELSE 0)
Complete(x) == "abandoned" \in x.causes => "not_cacheable" \in x.causes
Ended(x)    == x.status = "freed" /\ ~x.client /\ ~x.server
Crashed(x)  == x.status = "crashed" /\ x.client
               /\ x.causes \cap {"early_close", "unasked_304"} # {}
Running(x)  == x.status = "up" /\ InMode(x)

\* What holds of a client between two events.
SessionOk(x) ==
    /\ HTTPData(x) /\ Counted(x) /\ Complete(x)
    /\ Running(x) \/ Ended(x) \/ Crashed(x)
    /\ x.lookup <=> x.status = "up" /\ x.state = "RESOLVING"
    /\ x.due => x.state = "REQUEST" /\ ~x.recving
    /\ x.serverRecving => x.serverState \in {"SERVER_RESPONSE", "BODY", "TUNNELING"}

-----------------------------------------------------------------------------
\* What a method can count on, whatever it is called for: the data is there, and nothing
\* that a callback could answer is left behind, except perhaps a lookup.
Held(x) == /\ HTTPData(x) /\ Counted(x) /\ Complete(x) /\ x.status = "up"
           /\ ~x.due /\ ~x.serverRecving /\ (x.lookup => x.state = "RESOLVING")
Base(x) == Held(x) /\ ~x.lookup

\* CloseServerSocket() frees the data of a client that is gone.
LEMMA CloseServerIs ==
  ASSUME NEW x, HTTPData(x), Counted(x), Complete(x), x.status = "up", ~x.due,
         x.lookup => x.state = "RESOLVING",
         x.cached # "own" \/ "not_cacheable" \in x.causes
  PROVE  LET y == Session!CloseServerSocket(x)
         IN /\ x.client => /\ Held(y) /\ ~y.server /\ y.serverState = "CLOSING" /\ y.client
                           /\ y.cached = x.cached /\ y.writing = x.writing
                           /\ y.lookup = x.lookup
            /\ ~x.client /\ ~x.lookup => SessionOk(y) /\ y.status = "freed"
<1> DEFINE y == Session!CloseServerSocket(x)
<1> USE DEF Held, HTTPData, Fields, Session!CloseServerSocket, Session!FreeHTTPData
<1>1. HTTPData(y)
  BY ZenonT(60)
<1>2. Counted(y) /\ Complete(y)
  BY DEF Counted, Complete, Stray
<1>3. y.status = IF x.client THEN "up" ELSE "freed"
  OBVIOUS
<1>4. ~y.due /\ y.lookup = x.lookup /\ ~y.serverRecving /\ y.state = x.state
  OBVIOUS
<1>5. ~x.client => ~y.client /\ ~y.server
  OBVIOUS
<1>6. x.client => y.client /\ ~y.server /\ y.serverState = "CLOSING"
  OBVIOUS
<1>7. x.client => y.cached = x.cached /\ y.writing = x.writing
  OBVIOUS
<1>8. ~x.client /\ ~x.lookup => SessionOk(y) /\ y.status = "freed"
  BY <1>1, <1>2, <1>3, <1>4, <1>5 DEF SessionOk, Ended
<1>9. x.client => Held(y)
  BY <1>1, <1>2, <1>3, <1>4
<1>10. QED
  BY <1>4, <1>6, <1>7, <1>8, <1>9

\* So for a request that waits for nothing.
LEMMA CloseServerOk ==
  ASSUME NEW x, Base(x), x.cached # "own"
  PROVE  /\ x.client => Base(Session!CloseServerSocket(x))
         /\ ~x.client => SessionOk(Session!CloseServerSocket(x))
BY CloseServerIs DEF Base, Held

\* A client that goes, and perhaps is still sent the end of an answer.
LEMMA CloseClientOk ==
  ASSUME NEW x, Held(x), ~x.server, x.cached \notin {"own", "joined"} \/ ~x.writing, x.client,
         x.serverState \in {"CLOSING", "REQUEST"}
  PROVE  SessionOk(Session!CloseClientSocket(x))
<1> DEFINE y == Session!CloseClientSocket(x)
<1> USE DEF Held, HTTPData, Fields, Session!CloseClientSocket, Session!FreeHTTPData
<1>1. HTTPData(y)
  BY ZenonT(60)
<1>2. Counted(y) /\ Complete(y)
  BY DEF Counted, Complete, Stray
<1>3. Running(y) \/ Ended(y)
  BY DEF Running, Ended, InMode, Leaving
<1>4. ~y.due /\ ~y.lookup /\ ~y.serverRecving /\ y.state = "CLOSING"
  OBVIOUS
<1>5. QED
  BY <1>1, <1>2, <1>3, <1>4 DEF SessionOk

\* What a request leaves, when it has been answered or cannot be.
Done(x) == /\ x.cached \notin {"own", "joined"} /\ (x.writing => x.client)
           /\ x.client /\ x.keep /\ x.state # "CLOSING" => Answered(x)

\* ResetServerConnection() of a client that is there.
LEMMA ResetServerOk ==
  ASSUME NEW x, Base(x), x.cached # "own", x.client
  PROVE  LET y == Session!ResetServerConnection(x)
         IN /\ Base(y) /\ ~y.server /\ y.serverState \in {"CLOSING", "REQUEST"} /\ y.client
            /\ y.cached = x.cached /\ y.writing = x.writing /\ y.keep = x.keep
            /\ y.state = x.state /\ y.rest = x.rest /\ y.head = x.head /\ y.causes = x.causes
            /\ y.asked = x.asked /\ y.answered = x.answered /\ y.recving = x.recving
<1> DEFINE y == Session!ResetServerConnection(x)
<1> USE DEF Base, Held, HTTPData, Fields, Session!ResetServerConnection,
            Session!CloseServerSocket, Session!FreeHTTPData
<1>1. HTTPData(y)
  BY ZenonT(60)
<1>2. Counted(y) /\ Complete(y)
  BY DEF Counted, Complete, Stray
<1>3. /\ y.status = "up" /\ ~y.server /\ y.serverState \in {"CLOSING", "REQUEST"} /\ y.client
      /\ ~y.due /\ ~y.lookup /\ ~y.serverRecving
  OBVIOUS
<1>4. /\ y.cached = x.cached /\ y.writing = x.writing /\ y.keep = x.keep
      /\ y.state = x.state /\ y.rest = x.rest /\ y.head = x.head /\ y.causes = x.causes
      /\ y.asked = x.asked /\ y.answered = x.answered /\ y.recving = x.recving
  OBVIOUS
<1>5. QED
  BY <1>1, <1>2, <1>3, <1>4

\* ResetConnection() of a client that is gone frees the data.
LEMMA ResetGoneOk ==
  ASSUME NEW x, Base(x), x.cached # "own", ~x.client, ~x.writing
  PROVE  SessionOk(Session!ResetConnection(x))
<1> PICK y : y = Session!ResetServerConnection(x)
  OBVIOUS
<1> PICK z : z = Session!ResetConnection(x)
  OBVIOUS
<1>1. CASE y.status = "freed"
  <2>1. z = y
    BY <1>1 DEF Session!ResetConnection, Session!Up
  <2>2. x.server /\ x.resp.keep /\ x.serverState # "CLOSING"
        => y = [x EXCEPT !.serverState = "REQUEST", !.server = FALSE]
    BY DEF Session!ResetServerConnection
  <2>3. y = Session!CloseServerSocket(x)
    BY <1>1, <2>2 DEF Session!ResetServerConnection, Base, Held, HTTPData, Fields
  <2>4. QED
    BY <2>1, <2>3, CloseServerOk
<1>2. CASE y.status # "freed"
  <2>1. ~x.client => Session!CloseServerSocket(x).status = "freed"
    BY DEF Session!CloseServerSocket, Session!FreeHTTPData, Base, Held, HTTPData, Fields
  <2>2. y = [x EXCEPT !.serverState = "REQUEST", !.server = FALSE]
    BY <1>2, <2>1 DEF Session!ResetServerConnection
  <2>3. /\ HTTPData(y) /\ Counted(y) /\ Complete(y) /\ y.status = "up"
        /\ ~y.due /\ ~y.lookup /\ ~y.serverRecving /\ ~y.client /\ ~y.server /\ ~y.writing
    BY <2>2 DEF Base, Held, HTTPData, Fields, Counted, Complete, Stray
  <2>4. z = Session!CloseClientSocket(y)
    BY <2>3 DEF Session!ResetConnection, Session!Up
  <2> HIDE <2>2
  <2> USE <2>3, <2>4 DEF HTTPData, Fields, Session!CloseClientSocket, Session!FreeHTTPData
  <2>5. HTTPData(z)
    OBVIOUS
  <2>6. Counted(z) /\ Complete(z)
    BY DEF Counted, Complete, Stray
  <2>7. Ended(z)
    BY DEF Ended
  <2>8. ~z.due /\ ~z.lookup /\ ~z.serverRecving
    OBVIOUS
  <2>9. QED
    BY <2>5, <2>6, <2>7, <2>8, ZenonT(60) DEF SessionOk, Ended
<1>3. QED
  BY <1>1, <1>2

\* ResetConnection(): the next request, or the end.
LEMMA ResetOk ==
  ASSUME NEW x, Base(x), Done(x)
  PROVE  SessionOk(Session!ResetConnection(x))
<1>1. CASE ~x.client
  BY <1>1, ResetGoneOk DEF Done
<1>2. CASE x.client
  <2> PICK y : y = Session!ResetServerConnection(x)
    OBVIOUS
  <2>1. /\ Base(y) /\ ~y.server /\ y.serverState \in {"CLOSING", "REQUEST"} /\ y.client
        /\ y.cached = x.cached /\ y.writing = x.writing /\ y.keep = x.keep
        /\ y.state = x.state /\ y.causes = x.causes
        /\ y.asked = x.asked /\ y.answered = x.answered
    BY <1>2, ResetServerOk DEF Done
  <2>2. CASE y.state = "CLOSING" \/ ~y.keep
    <3>1. Session!ResetConnection(x) = Session!CloseClientSocket(y)
      BY <2>1, <2>2 DEF Session!ResetConnection, Session!Up, Base, Held
    <3>2. QED
      BY <3>1, <2>1, CloseClientOk DEF Done, Base
  <2>3. CASE ~(y.state = "CLOSING" \/ ~y.keep)
    <3> PICK z : z = Session!ResetConnection(x)
      OBVIOUS
    <3>1. z = [y EXCEPT !.cached = "none", !.state = "REQUEST",
                      !.method = "NONE", !.keep = FALSE, !.head = FALSE,
                      !.resp = Session!NoResponse, !.units = 0,
                      !.due = x.rest # <<>>, !.recving = x.rest = <<>>]
      BY <2>1, <2>3 DEF Session!ResetConnection, Session!Up, Base, Held
    <3>2. Answered(x)
      BY <1>2, <2>1, <2>3 DEF Done
    <3> USE DEF Base, Held, HTTPData, Fields
    <3>3. HTTPData(z)
      BY <2>1, <3>1
    <3>4. Counted(z) /\ Complete(z)
      BY <2>1, <3>1 DEF Counted, Complete, Stray
    <3>5. z.status = "up" /\ ~z.lookup /\ ~z.serverRecving
      BY <2>1, <3>1, ZenonT(60)
    <3>6. Asking(z)
      <4>1. z.state = "REQUEST" /\ z.serverState = y.serverState /\ z.cached = "none"
        BY <2>1, <3>1
      <4>4. z.client = y.client
        <5>1. y = [f \in Fields |-> y[f]]
          BY <2>1
        <5>2. DOMAIN y = Fields
          BY <5>1
        <5>3. QED
          BY <3>1, <5>2, ZenonT(30)
      <4>5. z.server = y.server
        BY <2>1, <3>1, ZenonT(60)
      <4>6. ~z.head
        BY <2>1, <3>1
      <4>2. z.asked = y.asked /\ z.answered = y.answered /\ z.causes = y.causes
        BY <2>1, <3>1
      <4>3. Answered(z)
        BY <2>1, <3>2, <4>2, ZenonT(60) DEF Answered, Stray
      <4>7. QED
        BY <2>1, <4>1, <4>3, <4>4, <4>5, <4>6 DEF Asking
    <3>7. z.due => ~z.recving
      BY <2>1, <3>1, ZenonT(60)
    <3>8. QED
      BY <3>3, <3>4, <3>5, <3>6, <3>7 DEF SessionOk, Running, InMode, Asking
  <2>4. QED
    BY <2>2, <2>3
<1>3. QED
  BY <1>1, <1>2

-----------------------------------------------------------------------------
\* SendHeader() and its like begin the answer.
LEMMA AnswerIs ==
  ASSUME NEW x, HTTPData(x)
  PROVE  LET y == Session!Answer(x)
         IN /\ HTTPData(y) /\ y.head /\ y.writing /\ y.answered = x.answered + 1
            /\ y.client = x.client /\ y.server = x.server /\ y.recving = x.recving
            /\ y.state = x.state /\ y.serverState = x.serverState
            /\ y.lookup = x.lookup /\ y.cached = x.cached /\ y.keep = x.keep /\ y.due = x.due
            /\ y.serverRecving = x.serverRecving /\ y.method = x.method /\ y.resp = x.resp
            /\ y.status = x.status /\ y.causes = x.causes /\ y.asked = x.asked
            /\ y.rest = x.rest
<1> PICK y : y = Session!Answer(x)
  OBVIOUS
<1>1. y = [x EXCEPT !.head = TRUE, !.writing = TRUE, !.answered = @ + 1]
  BY DEF Session!Answer
<1>3. x = [f \in Fields |-> x[f]] /\ x.answered \in Nat /\ x.asked \in Nat
  BY DEF HTTPData
<1>4. DOMAIN x = Fields /\ {"head", "writing", "answered", "asked"} \subseteq Fields
  BY <1>3 DEF Fields
<1>2. HTTPData(y) /\ y.head /\ y.writing /\ y.answered = x.answered + 1
  <2>1. y = [f \in Fields |-> y[f]]
    BY <1>1, <1>3
  <2>2. y.head /\ y.writing
    BY <1>1, <1>4
  <2>3. y.answered = x.answered + 1
    BY <1>1, <1>4
  <2>4. y.asked = x.asked
    BY <1>1, <1>4, Zenon
  <2>5. QED
    BY <1>3, <2>1, <2>2, <2>3, <2>4 DEF HTTPData
<1>5. /\ y.client = x.client /\ y.server = x.server /\ y.recving = x.recving
      /\ y.state = x.state /\ y.serverState = x.serverState
      /\ y.lookup = x.lookup /\ y.cached = x.cached /\ y.keep = x.keep /\ y.due = x.due
      /\ y.serverRecving = x.serverRecving /\ y.method = x.method /\ y.resp = x.resp
      /\ y.status = x.status /\ y.causes = x.causes /\ y.asked = x.asked
      /\ y.rest = x.rest
  BY <1>1, <1>4, ZenonT(60) DEF Fields
<1>6. QED
  BY <1>2, <1>5

\* Nothing has been said yet of the request that was read, or what was read was none.
Unanswered(x) ==
    ~x.head => \/ Waiting(x)
               \/ Stray(x) /\ x.answered <= x.asked /\ ~x.keep

\* A request that waits may have its answer begun.
LEMMA AnswerOk ==
  ASSUME NEW x, Base(x), Unanswered(x), ~x.head
  PROVE  Base(Session!Answer(x)) /\ (Session!Answer(x).keep => Answered(Session!Answer(x)))
<1> PICK y : y = Session!Answer(x)
  OBVIOUS
<1>1. /\ HTTPData(y) /\ y.answered = x.answered + 1 /\ y.keep = x.keep
      /\ y.lookup = x.lookup /\ y.due = x.due /\ y.serverRecving = x.serverRecving
      /\ y.status = x.status /\ y.causes = x.causes /\ y.asked = x.asked
  BY AnswerIs DEF Base, Held
<1>2. Stray(y) <=> Stray(x)
  BY <1>1 DEF Stray
<1>3. x.asked \in Nat /\ x.answered \in Nat
  BY DEF Base, Held, HTTPData
<1>4. Counted(y) /\ (y.keep => Answered(y))
  BY <1>1, <1>2, <1>3 DEF Unanswered, Waiting, Counted, Answered
<1>5. Complete(y)
  BY <1>1 DEF Base, Held, Complete
<1>6. QED
  BY <1>1, <1>4, <1>5 DEF Base, Held

\* SendError() says what is wrong, or hangs up when it is too late for that.
LEMMA SendErrorOk ==
  ASSUME NEW x, Base(x), Unanswered(x), x.cached \notin {"own", "joined"},
         x.writing => x.client,
         x.client /\ x.head => \/ x.serverState = "CLOSING"
                               \/ x.serverState = "REQUEST" /\ ~x.server
  PROVE  SessionOk(Session!SendError(x))
<1>1. CASE ~x.client
  <2>1. Done(x)
    BY <1>1 DEF Done
  <2>2. Session!SendError(x) = Session!ResetConnection(x)
    BY <1>1 DEF Session!SendError, Session!Up, Base, Held
  <2>3. QED
    BY <2>1, <2>2, ResetOk
<1>2. CASE x.client
  <2> PICK y : y = IF x.serverState = "CLOSING" THEN Session!CloseServerSocket(x) ELSE x
    OBVIOUS
  <2>1. Base(y)
    BY <1>2, CloseServerOk
  <2>2. /\ y.client = x.client /\ y.head = x.head /\ y.cached = x.cached
        /\ y.writing = x.writing /\ y.keep = x.keep /\ y.state = x.state
        /\ y.serverState = x.serverState /\ y.causes = x.causes
        /\ y.asked = x.asked /\ y.answered = x.answered
        /\ IF x.serverState = "CLOSING" THEN ~y.server ELSE y.server = x.server
    BY <1>2 DEF Session!CloseServerSocket, Session!FreeHTTPData, Base, Held, HTTPData, Fields
  <2>3. CASE ~x.head
    <3> PICK z : z = Session!Answer(y)
      OBVIOUS
    <3>1. Unanswered(y) /\ ~y.head
      BY <2>2, <2>3 DEF Unanswered, Waiting, Stray
    <3>2. Base(z) /\ (z.keep => Answered(z))
      BY <2>1, <3>1, AnswerOk
    <3>3. z.client = y.client /\ z.cached = y.cached
      BY <2>1, AnswerIs DEF Base, Held
    <3>4. Done(z)
      BY <1>2, <2>2, <3>2, <3>3 DEF Done
    <3>5. Session!SendError(x) = Session!ResetConnection(z)
      BY <1>2, <2>2, <2>3, <3>2 DEF Session!SendError, Session!Up, Base, Held
    <3>6. QED
      BY <3>2, <3>4, <3>5, ResetOk
  <2>4. CASE x.head
    <3> PICK z : z = Session!CloseClientSocket(y)
      OBVIOUS
    <3>1. SessionOk(z)
      BY <1>2, <2>1, <2>2, <2>4, CloseClientOk DEF Base
    <3>2. CASE z.status # "up"
      <4>1. Session!SendError(x) = z
        BY <1>2, <2>2, <2>4, <3>2 DEF Session!SendError, Session!Up
      <4>2. QED
        BY <3>1, <4>1
    <3>3. CASE z.status = "up"
      <4>1. Session!SendError(x) = Session!ResetConnection(z)
        BY <1>2, <2>2, <2>4, <3>3 DEF Session!SendError, Session!Up
      <4>0. z.client /\ z.state = "CLOSING"
        BY <1>2, <2>1, <2>2, <2>4, <3>3 DEF Session!CloseClientSocket, Session!FreeHTTPData, Base, Held, HTTPData, Fields
      <4>6. ~z.serverRecving /\ ~z.due
        BY <1>2, <2>1, <2>2, <3>3 DEF Session!CloseClientSocket, Session!FreeHTTPData, Base, Held, HTTPData, Fields
      <4>2. z.cached = y.cached
        BY <1>2, <2>1, <2>2, <3>3 DEF Session!CloseClientSocket, Session!FreeHTTPData, Base, Held, HTTPData, Fields
      <4>3. Base(z)
        BY <3>1, <3>3, <4>0, <4>6 DEF SessionOk, Base, Held
      <4>4. Done(z)
        BY <2>2, <4>0, <4>2 DEF Done
      <4>5. QED
        BY <4>1, <4>3, <4>4, ResetOk
    <3>4. QED
      BY <3>2, <3>3
  <2>5. QED
    BY <2>3, <2>4
<1>3. QED
  BY <1>1, <1>2

-----------------------------------------------------------------------------
\* A request that was read and waits for its answer, with no server.
Pending(x) == /\ Base(x) /\ Waiting(x) /\ x.client /\ ~x.server /\ ~x.recving
              /\ x.state # "CLOSING"

\* SendFromCache() forgets the server and answers with the object, or with an error.
LEMMA SendFromCacheOk ==
  ASSUME NEW x, Base(x), Waiting(x), x.client, ~x.recving, x.state # "CLOSING",
         x.cached \in {"none", "stale", "fresh"},
         NEW r \in Session!SendFromCache(x)
  PROVE  SessionOk(r)
<1> PICK y : y = Session!ResetServerConnection(x)
  OBVIOUS
<1>1. /\ Base(y) /\ ~y.server /\ y.serverState \in {"CLOSING", "REQUEST"} /\ y.client
      /\ y.cached = x.cached /\ y.state = x.state /\ y.head = x.head /\ y.causes = x.causes
      /\ y.asked = x.asked /\ y.answered = x.answered /\ y.recving = x.recving
  BY ResetServerOk
<1>2. Waiting(y)
  BY <1>1 DEF Waiting, Stray
<1> PICK b : b = [y EXCEPT !.state = "BODY"]
  OBVIOUS
<1> PICK z : z = Session!Answer(b)
  OBVIOUS
<1>3. Base(b) /\ Waiting(b)
  <2>1. HTTPData(b)
    BY <1>1 DEF Base, Held, HTTPData, Fields
  <2>2. Counted(b) /\ Complete(b)
    BY <1>1 DEF Base, Held, HTTPData, Fields, Counted, Complete, Stray
  <2>3. b.status = "up" /\ ~b.due /\ ~b.lookup /\ ~b.serverRecving
    BY <1>1 DEF Base, Held, HTTPData, Fields
  <2>4. Waiting(b)
    BY <1>1, <1>2 DEF Base, Held, HTTPData, Fields, Waiting, Stray
  <2>5. QED
    BY <2>1, <2>2, <2>3, <2>4 DEF Base, Held
<1>4. /\ b.state = "BODY" /\ b.serverState = y.serverState /\ b.cached = y.cached
      /\ b.client = y.client /\ b.server = y.server /\ b.recving = y.recving
  <2>1. y = [f \in Fields |-> y[f]]
    BY <1>1 DEF Base, Held, HTTPData
  <2>2. DOMAIN y = Fields
    BY <2>1
  <2>3. QED
    BY <2>2, ZenonT(60) DEF Fields
<1>5. Base(z) /\ (z.keep => Answered(z))
  BY <1>3, AnswerOk DEF Unanswered, Waiting
<1>6. /\ HTTPData(z) /\ z.head /\ z.writing /\ z.answered = b.answered + 1
      /\ z.client = b.client /\ z.server = b.server /\ z.recving = b.recving
      /\ z.state = b.state /\ z.serverState = b.serverState
      /\ z.cached = b.cached /\ z.causes = b.causes /\ z.asked = b.asked
  BY <1>3, AnswerIs DEF Base, Held
<1>7. CASE x.cached = "none" /\ r = [y EXCEPT !.status = "crashed",
                                           !.causes = @ \cup {"unasked_304"}]
  <2>1. HTTPData(r)
    BY <1>1, <1>7 DEF Base, Held, HTTPData, Fields
  <2>2. Counted(r)
    <3>1. r.asked = y.asked /\ r.answered = y.answered
      BY <1>1, <1>7 DEF Base, Held, HTTPData, Fields
    <3>2. r.causes = y.causes \cup {"unasked_304"}
      BY <1>1, <1>7 DEF Base, Held, HTTPData, Fields
    <3>3. Counted(y)
      BY <1>1 DEF Base, Held
    <3>4. QED
      BY <3>1, <3>2, <3>3 DEF Counted, Stray
  <2>3. Complete(r)
    <3>1. r.causes = y.causes \cup {"unasked_304"}
      BY <1>1, <1>7 DEF Base, Held, HTTPData, Fields
    <3>2. QED
      BY <1>1, <3>1 DEF Base, Held, Complete
  <2>4. Crashed(r)
    BY <1>1, <1>7 DEF Base, Held, HTTPData, Fields, Crashed
  <2>5. ~r.due /\ ~r.lookup /\ ~r.serverRecving
    BY <1>1, <1>7 DEF Base, Held, HTTPData, Fields
  <2>6. QED
    BY <2>1, <2>2, <2>3, <2>4, <2>5 DEF SessionOk, Crashed
<1>8. CASE r = Session!SendError(y)
  BY <1>1, <1>2, <1>8, SendErrorOk DEF Unanswered, Waiting
<1>9. CASE r = Session!ResetConnection(z)
  <2>1. Done(z)
    BY <1>1, <1>2, <1>4, <1>5, <1>6 DEF Done
  <2>2. QED
    BY <1>5, <1>9, <2>1, ResetOk
<1>10. CASE r = [z EXCEPT !.cached = "joined"]
  <2>1. HTTPData(r)
    BY <1>6, <1>10 DEF HTTPData, Fields
  <2>2. Counted(r) /\ Complete(r)
    BY <1>5, <1>10 DEF Base, Held, HTTPData, Fields, Counted, Complete, Stray
  <2>3. r.status = "up" /\ ~r.due /\ ~r.lookup /\ ~r.serverRecving
    BY <1>5, <1>10 DEF Base, Held, HTTPData, Fields
  <2>4. Answered(z)
    BY <1>3, <1>6 DEF Waiting, Answered, Stray, Base, Held, HTTPData
  <2>5. Reading(r)
    <3>1. z = [f \in Fields |-> z[f]]
      BY <1>6 DEF HTTPData
    <3>2. DOMAIN z = Fields
      BY <3>1
    <3>3. /\ r.state = z.state /\ r.serverState = z.serverState /\ r.recving = z.recving
          /\ r.client = z.client /\ r.server = z.server /\ r.cached = "joined"
          /\ r.asked = z.asked /\ r.answered = z.answered /\ r.causes = z.causes
          /\ r.head = z.head
      BY <1>10, <3>2, ZenonT(60) DEF Fields
    <3>4. Answered(r)
      BY <2>4, <3>3 DEF Answered, Stray
    <3>5. QED
      BY <1>1, <1>4, <1>6, <3>3, <3>4 DEF Reading
  <2>6. QED
    BY <2>1, <2>2, <2>3, <2>5 DEF SessionOk, Running, InMode, Reading
<1>11. QED
  <2>1. /\ Session!Up(y)
        /\ r \in IF x.cached = "none"
                 THEN {[y EXCEPT !.status = "crashed", !.causes = @ \cup {"unasked_304"}]}
                 ELSE {Session!SendError(y)} \cup
                      (IF x.method = "HEAD" THEN {Session!ResetConnection(z)}
                       ELSE {Session!ResetConnection(z), [z EXCEPT !.cached = "joined"]})
    BY <1>1, Zenon DEF Session!SendFromCache, Session!Up, Base, Held
  <2>2. \/ x.cached = "none" /\ r = [y EXCEPT !.status = "crashed",
                                           !.causes = @ \cup {"unasked_304"}]
        \/ r = Session!SendError(y) \/ r = Session!ResetConnection(z)
        \/ r = [z EXCEPT !.cached = "joined"]
    BY <2>1, Zenon
  <2>3. QED
    BY <1>7, <1>8, <1>9, <1>10, <2>2

\* A server is being connected to.
LEMMA ConnectingOk ==
  ASSUME NEW x, Pending(x), x.cached \in {"none", "stale"}, Uncached(x)
  PROVE  SessionOk(Session!Connecting(x))
<1> PICK r : r = [x EXCEPT !.server = TRUE, !.state = "CONNECTING",
                           !.serverState = "CONNECTING"]
  OBVIOUS
<1>1. r = Session!Connecting(x)
  BY DEF Session!Connecting
<1> USE DEF Pending
<1>2. HTTPData(r)
  BY DEF Base, Held, HTTPData, Fields
<1>3. Counted(r) /\ Complete(r)
  BY DEF Base, Held, HTTPData, Fields, Counted, Complete, Stray
<1>4. r.status = "up" /\ ~r.due /\ ~r.lookup /\ ~r.serverRecving
  BY DEF Base, Held, HTTPData, Fields
<1>5. Connecting(r)
  <2>1. x = [f \in Fields |-> x[f]]
    BY DEF Base, Held, HTTPData
  <2>2. DOMAIN x = Fields
    BY <2>1
  <2>3. /\ r.client = x.client /\ r.recving = x.recving /\ r.cached = x.cached
        /\ r.answered = x.answered /\ r.asked = x.asked /\ r.causes = x.causes
        /\ r.head = x.head /\ r.method = x.method
    BY <2>2, ZenonT(60) DEF Fields
  <2>4. r.server /\ r.state = "CONNECTING" /\ r.serverState = "CONNECTING"
    BY <2>2 DEF Fields
  <2>5. Waiting(r)
    BY <2>3 DEF Waiting, Stray
  <2>6. QED
    BY <2>3, <2>4, <2>5 DEF Connecting, Uncached
<1>6. SessionOk(r)
  BY <1>2, <1>3, <1>4, <1>5 DEF SessionOk, Running, InMode, Connecting
<1>7. QED
  BY <1>1, <1>6

\* The name of a server is being looked up.
LEMMA LookingUpOk ==
  ASSUME NEW x, Pending(x), x.cached \in {"none", "stale"}, Uncached(x),
         NEW r, r = [x EXCEPT !.state = "RESOLVING", !.serverState = "RESOLVING",
                              !.lookup = TRUE]
  PROVE  SessionOk(r)
<1> USE DEF Pending
<1>2. HTTPData(r)
  BY DEF Base, Held, HTTPData, Fields
<1>3. Counted(r) /\ Complete(r)
  BY DEF Base, Held, HTTPData, Fields, Counted, Complete, Stray
<1>4. r.status = "up" /\ ~r.due /\ r.lookup /\ ~r.serverRecving
  BY DEF Base, Held, HTTPData, Fields
<1>5. LookingUp(r)
  <2>1. x = [f \in Fields |-> x[f]]
    BY DEF Base, Held, HTTPData
  <2>2. DOMAIN x = Fields
    BY <2>1
  <2>3. /\ r.client = x.client /\ r.recving = x.recving /\ r.cached = x.cached
        /\ r.answered = x.answered /\ r.asked = x.asked /\ r.causes = x.causes
        /\ r.head = x.head /\ r.server = x.server /\ r.method = x.method
    BY <2>2, ZenonT(60) DEF Fields
  <2>4. r.state = "RESOLVING" /\ r.serverState = "RESOLVING"
    BY <2>2 DEF Fields
  <2>5. Waiting(r)
    BY <2>3 DEF Waiting, Stray
  <2>6. QED
    BY <2>3, <2>4, <2>5 DEF LookingUp, Uncached
<1>6. QED
  BY <1>2, <1>3, <1>4, <1>5 DEF SessionOk, Running, InMode, LookingUp

\* ConnectToServer() connects, looks up, or says that it cannot.
LEMMA ConnectToServerOk ==
  ASSUME NEW x, Pending(x), x.cached \in {"none", "stale"}, Uncached(x),
         NEW r \in Session!ConnectToServer(x)
  PROVE  SessionOk(r)
<1>1. \/ r = Session!SendError(x) \/ r = Session!Connecting(x)
      \/ r = [x EXCEPT !.state = "RESOLVING", !.serverState = "RESOLVING", !.lookup = TRUE]
  BY Zenon DEF Session!ConnectToServer
<1>2. SessionOk(Session!SendError(x))
  BY SendErrorOk DEF Pending, Unanswered, Waiting
<1>3. QED
  BY <1>1, <1>2, ConnectingOk, LookingUpOk

\* The object is looked for in the cache.
LEMMA CachedIs ==
  ASSUME NEW x, Pending(x), NEW c, NEW y, y = [x EXCEPT !.cached = c]
  PROVE  Pending(y) /\ y.cached = c /\ y.method = x.method
<1> USE DEF Pending
<1>1. HTTPData(y) /\ y.cached = c
  BY DEF Base, Held, HTTPData, Fields
<1>2. Counted(y) /\ Complete(y)
  BY DEF Base, Held, HTTPData, Fields, Counted, Complete, Stray
<1>3. y.status = "up" /\ ~y.due /\ ~y.lookup /\ ~y.serverRecving
  BY DEF Base, Held, HTTPData, Fields
<1>4. Waiting(y)
  BY DEF Base, Held, HTTPData, Fields, Waiting, Stray
<1>5. x = [f \in Fields |-> x[f]]
  BY DEF Base, Held, HTTPData
<1>6. DOMAIN x = Fields
  BY <1>5
<1>7. /\ y.client = x.client /\ y.server = x.server /\ y.recving = x.recving
      /\ y.state = x.state /\ y.method = x.method
  BY <1>6, ZenonT(60) DEF Fields
<1>8. QED
  BY <1>1, <1>2, <1>3, <1>4, <1>7 DEF Base, Held

\* A GET or HEAD is answered from the cache, or by the server, or not at all.
LEMMA HandleGetOk ==
  ASSUME NEW x, Pending(x), x.method \notin {"CONNECT", "POST"},
         NEW r \in Session!Handle_GET_HEAD(x)
  PROVE  SessionOk(r)
<1> PICK f : f = [x EXCEPT !.cached = "fresh"]
  OBVIOUS
<1>1. Pending(f) /\ f.cached = "fresh"
  BY CachedIs
<1>2. ASSUME NEW c \in {"none", "stale"}, r \in Session!ConnectToServer([x EXCEPT !.cached = c])
      PROVE  SessionOk(r)
  <2> PICK y : y = [x EXCEPT !.cached = c]
    OBVIOUS
  <2>1. Pending(y) /\ y.cached = c /\ Uncached(y)
    BY CachedIs DEF Uncached
  <2>2. r \in Session!ConnectToServer(y)
    BY <1>2
  <2>3. QED
    BY <2>1, <2>2, ConnectToServerOk
<1>3. CASE r = Session!ResetConnection(Session!Answer(f))
  <2> PICK z : z = Session!Answer(f)
    OBVIOUS
  <2>1. Base(z) /\ (z.keep => Answered(z))
    BY <1>1, AnswerOk DEF Pending, Unanswered, Waiting
  <2>2. z.client = f.client /\ z.cached = f.cached
    BY <1>1, AnswerIs DEF Pending, Base, Held
  <2>3. Done(z)
    BY <1>1, <2>1, <2>2 DEF Done, Pending
  <2>4. QED
    BY <1>3, <2>1, <2>3, ResetOk
<1>4. CASE r \in Session!SendFromCache(f)
  BY <1>1, <1>4, SendFromCacheOk DEF Pending
<1>5. \/ \E c \in {"none", "stale"} : r \in Session!ConnectToServer([x EXCEPT !.cached = c])
      \/ r = Session!ResetConnection(Session!Answer(f))
      \/ r \in Session!SendFromCache(f)
  BY Zenon DEF Session!Handle_GET_HEAD
<1>6. QED
  BY <1>2, <1>3, <1>4, <1>5

\* HandleRequest(): what was read is a request, or is taken for one and refused.
LEMMA HandleRequestOk ==
  ASSUME NEW x, HTTPData(x), Asking(x), Counted(x), Complete(x), x.status = "up",
         ~x.lookup, ~x.serverRecving, ~x.recving, NEW tokens,
         NEW r \in Session!HandleRequest(x, tokens)
  PROVE  SessionOk(r)
<1> PICK t : t = Head(tokens)
  OBVIOUS
<1> PICK method : method = IF t \in Session!Requests THEN t ELSE "UNKNOWN"
  OBVIOUS
<1> PICK keep : keep = (t \in Session!Requests \ {"GETC", "CONNECT"})
  OBVIOUS
<1> PICK asked \in Nat : asked = IF t \in Session!Requests THEN x.asked + 1 ELSE x.asked
  BY DEF HTTPData
<1> PICK causes : causes = IF t \in Session!Requests THEN x.causes
                           ELSE x.causes \cup {"not_a_request"}
  OBVIOUS
<1> PICK rest : rest = Tail(tokens)
  OBVIOUS
<1> PICK y : y = [x EXCEPT !.rest = rest, !.due = FALSE, !.method = method, !.keep = keep,
                           !.asked = asked, !.causes = causes]
  OBVIOUS
<1>1. /\ y.due = FALSE /\ y.method = method /\ y.keep = keep /\ y.asked = asked
      /\ y.causes = causes /\ y.answered = x.answered /\ y.head = x.head
      /\ y.client = x.client /\ y.server = x.server /\ y.recving = x.recving
      /\ y.state = x.state /\ y.serverState = x.serverState /\ y.cached = x.cached
      /\ y.status = x.status /\ y.lookup = x.lookup /\ y.serverRecving = x.serverRecving
      /\ y.writing = x.writing
  <2>1. x = [f \in Fields |-> x[f]]
    BY DEF HTTPData
  <2>2. DOMAIN x = Fields
    BY <2>1
  <2>3. QED
    BY <2>2, ZenonT(60) DEF Fields
<1>2. HTTPData(y)
  <2>1. y = [f \in Fields |-> y[f]]
    BY DEF HTTPData
  <2>2. QED
    BY <1>1, <2>1 DEF HTTPData
<1>3. Stray(x) = FALSE /\ x.answered = x.asked /\ x.asked \in Nat /\ ~x.head
  BY DEF Asking, Answered, HTTPData
<1>4. Base(y) /\ Unanswered(y)
  <2>1. CASE t \in Session!Requests
    BY <1>1, <1>2, <1>3, <2>1 DEF Base, Held, Unanswered, Waiting, Counted, Complete, Stray
  <2>2. CASE t \notin Session!Requests
    <3>0. ~keep
      BY <2>2, Zenon
    <3>1. "not_a_request" \in y.causes /\ y.asked = x.asked /\ ~y.keep
      BY <1>1, <2>2, <3>0
    <3>2. "abandoned" \in y.causes => "not_cacheable" \in y.causes
      BY <1>1 DEF Complete
    <3>3. QED
      BY <1>1, <1>2, <1>3, <3>1, <3>2 DEF Base, Held, Unanswered, Counted, Complete, Stray
  <2>3. QED
    BY <2>1, <2>2
<1>5. y.client /\ ~y.server /\ ~y.recving /\ y.state = "REQUEST" /\ y.cached = "none"
  BY <1>1 DEF Asking
<1>6. SessionOk(Session!SendError(y))
  BY <1>4, <1>5, SendErrorOk, <1>1, <1>3
<1>7. t \in Session!Requests => Pending(y)
  BY <1>1, <1>3, <1>4, <1>5 DEF Pending, Waiting, Stray, Unanswered
<1>8. \/ r = Session!SendError(y)
      \/ t \in Session!Requests /\ r \in Session!ConnectToServer(y)
      \/ /\ t \in Session!Requests /\ r \in Session!Handle_GET_HEAD(y)
         /\ y.method \notin {"CONNECT", "POST"}
  <2>1. r \in {Session!SendError(y)}
              \cup (IF t = "POST" THEN Session!ConnectToServer(y)
                    ELSE IF t = "CONNECT" THEN Session!Handle_CONNECT(y)
                    ELSE IF y.method = "UNKNOWN" THEN {} ELSE Session!Handle_GET_HEAD(y))
    BY Zenon DEF Session!HandleRequest
  <2>2. "POST" \in Session!Requests /\ "CONNECT" \in Session!Requests
    BY DEF Session!Requests
  <2>3. Session!Handle_CONNECT(y) = {Session!SendError(y)} \cup Session!ConnectToServer(y)
    BY DEF Session!Handle_CONNECT
  <2>4. IF t \in Session!Requests THEN y.method = t ELSE y.method = "UNKNOWN"
    BY <1>1
  <2>5. QED
    BY <2>1, <2>2, <2>3, <2>4
<1>9. QED
  BY <1>5, <1>6, <1>7, <1>8, ConnectToServerOk, HandleGetOk DEF Uncached

-----------------------------------------------------------------------------
\* InitTunnel(): from now on each side is sent what the other says, or both are closed.
LEMMA InitTunnelOk ==
  ASSUME NEW x, Base(x), Answered(x), x.client, x.server, x.cached \in {"none"}
  PROVE  SessionOk(Session!InitTunnel(x))
<1> PICK y : y = [x EXCEPT !.state = "TUNNELING", !.serverState = "TUNNELING",
                           !.rest = <<>>, !.inq = <<>>]
  OBVIOUS
<1> PICK r : r = Session!InitTunnel(x)
  OBVIOUS
<1>0. x = [f \in Fields |-> x[f]] /\ DOMAIN x = Fields
  <2>1. x = [f \in Fields |-> x[f]]
    BY DEF Base, Held, HTTPData
  <2>2. QED
    BY <2>1
<1>1. /\ y.state = "TUNNELING" /\ y.serverState = "TUNNELING" /\ y.client = x.client
      /\ y.server = x.server /\ y.cached = x.cached /\ y.asked = x.asked
      /\ y.answered = x.answered /\ y.causes = x.causes /\ y.status = x.status
      /\ y.due = x.due /\ y.lookup = x.lookup /\ y.serverRecving = x.serverRecving
      /\ y.writing = x.writing
  BY <1>0, ZenonT(60) DEF Fields
<1>2. HTTPData(y) /\ Base(y)
  <2>1. y = [f \in Fields |-> y[f]]
    BY <1>0
  <2>2. HTTPData(y)
    BY <1>1, <2>1 DEF Base, Held, HTTPData
  <2>3. QED
    BY <1>1, <2>2 DEF Base, Held, Counted, Complete, Stray
<1>3. Answered(y)
  BY <1>1 DEF Answered, Stray
<1>4. CASE ~x.eof
  <2>1. r = [y EXCEPT !.recving = TRUE, !.serverRecving = TRUE]
    BY <1>4 DEF Session!InitTunnel
  <2>2. HTTPData(r)
    BY <1>2, <2>1 DEF HTTPData, Fields
  <2>3. DOMAIN y = Fields
    <3>1. y = [f \in Fields |-> y[f]]
      BY <1>2 DEF HTTPData
    <3>2. QED
      BY <3>1
  <2>4. /\ r.state = y.state /\ r.serverState = y.serverState /\ r.client = y.client
        /\ r.server = y.server /\ r.cached = y.cached /\ r.asked = y.asked
        /\ r.answered = y.answered /\ r.causes = y.causes /\ r.status = y.status
        /\ r.due = y.due /\ r.lookup = y.lookup
    BY <2>1, <2>3, ZenonT(60) DEF Fields
  <2>5. Tunneling(r) /\ Counted(r) /\ Complete(r)
    BY <1>1, <1>2, <1>3, <2>4 DEF Tunneling, Answered, Counted, Complete, Stray, Base, Held
  <2>6. r.status = "up" /\ ~r.due /\ ~r.lookup
    BY <1>2, <2>4 DEF Base, Held
  <2>7. QED
    BY <2>2, <2>5, <2>6 DEF SessionOk, Running, InMode, Tunneling
<1>5. CASE x.eof /\ x.inq = <<>>
  <2> PICK z : z = Session!CloseServerSocket(y)
    OBVIOUS
  <2>1. Base(z)
    BY <1>1, <1>2, CloseServerOk
  <2>2. ~z.server /\ z.serverState = "CLOSING" /\ z.client /\ z.cached = y.cached
    BY <1>1, <1>2 DEF Session!CloseServerSocket, Session!FreeHTTPData, HTTPData, Fields
  <2>3. r = Session!CloseBoth(y)
    BY <1>5 DEF Session!InitTunnel
  <2>4. r = Session!CloseClientSocket(z)
    BY <2>1, <2>3 DEF Session!CloseBoth, Session!Up, Base, Held
  <2>5. QED
    BY <1>1, <2>1, <2>2, <2>4, CloseClientOk DEF Base
<1>6. CASE x.eof /\ x.inq # <<>>
  <2>1. r = [y EXCEPT !.status = "crashed", !.causes = @ \cup {"early_close"}]
    BY <1>6 DEF Session!InitTunnel
  <2>2. HTTPData(r)
    BY <1>2, <2>1 DEF HTTPData, Fields
  <2>3. r.status = "crashed" /\ r.causes = y.causes \cup {"early_close"}
    BY <1>2, <2>1 DEF HTTPData, Fields
  <2>0. DOMAIN y = Fields
    <3>1. y = [f \in Fields |-> y[f]]
      BY <1>2 DEF HTTPData
    <3>2. QED
      BY <3>1
  <2>9. /\ r.client = y.client /\ r.due = y.due /\ r.lookup = y.lookup
        /\ r.serverRecving = y.serverRecving
    BY <2>0, <2>1, ZenonT(60) DEF Fields
  <2>4. r.client /\ ~r.due /\ ~r.lookup /\ ~r.serverRecving
    BY <1>1, <1>2, <2>9 DEF Base, Held
  <2>5. r.asked = y.asked /\ r.answered = y.answered
    BY <1>2, <2>1 DEF HTTPData, Fields
  <2>6. Counted(r) /\ Complete(r)
    BY <1>2, <2>3, <2>5 DEF Base, Held, Counted, Complete, Stray
  <2>7. Crashed(r)
    BY <2>3, <2>4 DEF Crashed
  <2>8. QED
    BY <2>2, <2>4, <2>6, <2>7 DEF SessionOk, Crashed
<1>7. QED
  BY <1>4, <1>5, <1>6

\* A client that waits for a server.
LEMMA ConnectingIs ==
  ASSUME NEW x, SessionOk(x), x.status = "up", x.serverState \in {"CONNECTING", "SERVER_RESPONSE"}
  PROVE  Connecting(x)
BY DEF SessionOk, Running, Ended, Crashed, InMode, Asking, LookingUp, Receiving, Reading,
       Leaving, Alone, Tunneling

\* The server is asked, or the tunnel begins.
LEMMA ConnectedOk ==
  ASSUME NEW x, SessionOk(x), x.status = "up", ~x.due, x.serverState = "CONNECTING"
  PROVE  SessionOk(Session!Connected(x))
<1>1. Connecting(x)
  BY ConnectingIs
<1>2. Base(x)
  BY <1>1 DEF SessionOk, Connecting, Base, Held
<1>3. x = [f \in Fields |-> x[f]] /\ DOMAIN x = Fields
  <2>1. x = [f \in Fields |-> x[f]]
    BY <1>2 DEF Base, Held, HTTPData
  <2>2. QED
    BY <2>1
<1>4. CASE x.method = "CONNECT"
  <2> PICK y : y = Session!Answer(x)
    OBVIOUS
  <2>1. Base(y)
    BY <1>1, <1>2, AnswerOk DEF Connecting, Unanswered, Waiting
  <2>2. y.client = x.client /\ y.server = x.server /\ y.cached = x.cached
        /\ y.asked = x.asked /\ y.answered = x.answered + 1 /\ y.causes = x.causes
    BY <1>2, AnswerIs DEF Base, Held
  <2>3. Answered(y)
    BY <1>1, <2>2 DEF Connecting, Waiting, Answered, Stray
  <2>4. Session!Connected(x) = Session!InitTunnel(y)
    BY <1>4 DEF Session!Connected
  <2>5. QED
    BY <1>1, <1>4, <2>1, <2>2, <2>3, <2>4, InitTunnelOk DEF Connecting, Uncached
<1>5. CASE x.method = "POST"
  <2> PICK y : y = [x EXCEPT !.answered = @ + 1]
    OBVIOUS
  <2>1. y.answered = x.answered + 1
    BY <1>3 DEF Fields
  <2>2. /\ y.client = x.client /\ y.server = x.server /\ y.cached = x.cached
        /\ y.asked = x.asked /\ y.causes = x.causes /\ y.status = x.status
        /\ y.due = x.due /\ y.lookup = x.lookup /\ y.serverRecving = x.serverRecving
    BY <1>3, ZenonT(60) DEF Fields
  <2>3. y = [f \in Fields |-> y[f]]
    BY <1>3
  <2>4. HTTPData(y)
    BY <1>2, <2>1, <2>2, <2>3 DEF Base, Held, HTTPData
  <2>5. Answered(y)
    BY <1>1, <2>1, <2>2 DEF Connecting, Waiting, Answered, Stray
  <2>6. Base(y)
    BY <1>2, <2>2, <2>4, <2>5 DEF Base, Held, Counted, Complete, Answered, HTTPData
  <2>7. Session!Connected(x) = Session!InitTunnel(y)
    BY <1>5 DEF Session!Connected
  <2>8. QED
    BY <1>1, <1>5, <2>2, <2>5, <2>6, <2>7, InitTunnelOk DEF Connecting, Uncached
<1>6. CASE x.method \notin {"CONNECT", "POST"}
  <2> PICK r : r = [x EXCEPT !.serverState = "SERVER_RESPONSE", !.serverRecving = TRUE]
    OBVIOUS
  <2>1. /\ r.state = x.state /\ r.client = x.client /\ r.server = x.server
        /\ r.recving = x.recving /\ r.cached = x.cached /\ r.head = x.head
        /\ r.asked = x.asked /\ r.answered = x.answered /\ r.causes = x.causes
        /\ r.status = x.status /\ r.due = x.due /\ r.lookup = x.lookup
        /\ r.method = x.method /\ r.serverState = "SERVER_RESPONSE"
    BY <1>3, ZenonT(60) DEF Fields
  <2>2. r = [f \in Fields |-> r[f]]
    BY <1>3
  <2>3. HTTPData(r)
    BY <1>2, <2>1, <2>2 DEF Base, Held, HTTPData
  <2>4. Connecting(r)
    BY <1>1, <2>1 DEF Connecting, Waiting, Stray, Uncached
  <2>5. Counted(r) /\ Complete(r)
    BY <1>2, <2>1 DEF Base, Held, Counted, Complete, Stray
  <2>6. SessionOk(r)
    BY <1>2, <2>1, <2>3, <2>4, <2>5 DEF SessionOk, Running, InMode, Connecting, Base, Held
  <2>7. Session!Connected(x) = r
    BY <1>6 DEF Session!Connected, Session!SendRequest
  <2>8. QED
    BY <2>6, <2>7
<1>7. QED
  BY <1>4, <1>5, <1>6

-----------------------------------------------------------------------------
\* The fields of an HTTPData.
LEMMA DataFields ==
  ASSUME NEW x, HTTPData(x)
  PROVE  x = [f \in Fields |-> x[f]] /\ DOMAIN x = Fields
<1>1. x = [f \in Fields |-> x[f]]
  BY DEF HTTPData
<1>2. QED
  BY <1>1

\* The answer of a server begins to be sent on.
LEMMA InBodyOk ==
  ASSUME NEW x, Base(x), Connecting(x), NEW c \in {"none", "own"}, NEW z,
         z = Session!Answer(Session!InBody([x EXCEPT !.cached = c]))
  PROVE  Base(z) /\ Receiving(z) /\ z.cached = c
<1> PICK b : b = [[x EXCEPT !.cached = c] EXCEPT !.state = "BODY", !.serverState = "BODY"]
  OBVIOUS
<1>1. z = Session!Answer(b)
  BY Zenon DEF Session!InBody
<1>2. x = [f \in Fields |-> x[f]] /\ DOMAIN x = Fields
  BY DataFields DEF Base, Held
<1>3. DOMAIN [x EXCEPT !.cached = c] = Fields
  BY <1>2
<1>4. /\ b.state = "BODY" /\ b.serverState = "BODY" /\ b.cached = c
      /\ b.client = x.client /\ b.server = x.server /\ b.recving = x.recving
      /\ b.asked = x.asked /\ b.answered = x.answered /\ b.causes = x.causes
      /\ b.status = x.status /\ b.due = x.due /\ b.lookup = x.lookup
      /\ b.serverRecving = x.serverRecving /\ b.head = x.head
  BY <1>2, <1>3, ZenonT(60) DEF Fields
<1>5. b = [f \in Fields |-> b[f]]
  BY <1>2
<1>6. Base(b)
  BY <1>4, <1>5 DEF Base, Held, HTTPData, Counted, Complete, Stray
<1>7. Waiting(b)
  BY <1>4 DEF Connecting, Waiting, Stray
<1>8. Base(z)
  BY <1>1, <1>6, <1>7, AnswerOk DEF Unanswered, Waiting
<1>9. /\ z.head /\ z.answered = b.answered + 1
      /\ z.client = b.client /\ z.server = b.server /\ z.recving = b.recving
      /\ z.state = b.state /\ z.serverState = b.serverState
      /\ z.cached = b.cached /\ z.causes = b.causes /\ z.asked = b.asked
  <2>1. HTTPData(b)
    BY <1>6 DEF Base, Held
  <2>2. QED
    BY ONLY <1>1, <2>1, AnswerIs
<1>10. Answered(z)
  BY <1>7, <1>9 DEF Waiting, Answered, Stray
<1>11. QED
  BY <1>4, <1>8, <1>9, <1>10 DEF Connecting, Receiving

\* More of the body is awaited.
LEMMA MoreOk ==
  ASSUME NEW x, Base(x), Receiving(x) \/ Alone(x), NEW r, r = [x EXCEPT !.serverRecving = TRUE]
  PROVE  SessionOk(r)
<1>1. x = [f \in Fields |-> x[f]] /\ DOMAIN x = Fields
  BY DataFields DEF Base, Held
<1>2. /\ r.state = x.state /\ r.serverState = x.serverState /\ r.client = x.client
      /\ r.server = x.server /\ r.recving = x.recving /\ r.cached = x.cached
      /\ r.head = x.head /\ r.asked = x.asked /\ r.answered = x.answered
      /\ r.causes = x.causes /\ r.writing = x.writing
      /\ r.status = x.status /\ r.due = x.due /\ r.lookup = x.lookup
  BY <1>1, ZenonT(60) DEF Fields
<1>3. r = [f \in Fields |-> r[f]]
  BY <1>1
<1>4. HTTPData(r) /\ Counted(r) /\ Complete(r)
  BY <1>2, <1>3 DEF Base, Held, HTTPData, Counted, Complete, Stray
<1>5. Receiving(r) \/ Alone(r)
  BY <1>2 DEF Receiving, Alone, Answered, Stray
<1>6. r.status = "up" /\ ~r.due /\ ~r.lookup
  BY <1>2 DEF Base, Held
<1>7. QED
  BY <1>4, <1>5, <1>6 DEF SessionOk, Running, InMode, Receiving, Alone

\* HandleResponse(): what a server answers is sent on, cached as well, or is in the cache.
LEMMA HandleResponseOk ==
  ASSUME NEW x, Base(x), Connecting(x), NEW r \in Session!HandleResponse(x)
  PROVE  SessionOk(r)
<1>1. CASE r \in Session!SendFromCache(x)
  BY <1>1, SendFromCacheOk DEF Connecting
<1>2. CASE r \in Session!DownloadAndCache(x)
  <2>1. PICK c \in {"none", "own"} :
          r = [Session!Answer(Session!InBody([x EXCEPT !.cached = c])) EXCEPT !.serverRecving = TRUE]
    BY <1>2, Zenon DEF Session!DownloadAndCache
  <2> PICK z : z = Session!Answer(Session!InBody([x EXCEPT !.cached = c]))
    OBVIOUS
  <2>2. Base(z) /\ Receiving(z)
    BY InBodyOk
  <2>3. r = [z EXCEPT !.serverRecving = TRUE]
    BY <2>1
  <2>4. QED
    BY <2>2, <2>3, MoreOk
<1>3. CASE r = Session!ForwardResponse(x)
  <2> PICK z : z = Session!Answer(Session!InBody([x EXCEPT !.cached = "none"]))
    OBVIOUS
  <2>1. Base(z) /\ Receiving(z) /\ z.cached = "none"
    BY InBodyOk
  <2>2. \/ r = Session!ResetConnection(z) \/ r = [z EXCEPT !.serverRecving = TRUE]
    BY <1>3, Zenon DEF Session!ForwardResponse
  <2>3. Done(z)
    BY <2>1 DEF Done, Receiving
  <2>4. QED
    BY <2>1, <2>2, <2>3, ResetOk, MoreOk
<1>4. QED
  BY <1>1, <1>2, <1>3 DEF Session!HandleResponse

\* A body that is being received, or one that ends early, for a client or without one.
Bodied(x) == /\ Base(x) /\ x.cached \in {"none", "own"} /\ x.server /\ x.head
             /\ x.client => Answered(x)
             /\ x.writing => x.client

\* The server is at its end.
Marked(x) == [x EXCEPT !.serverState = "CLOSING"]

\* Nothing else of the client changes.
LEMMA MarkedIs ==
  ASSUME NEW x, HTTPData(x)
  PROVE  LET y == Marked(x)
         IN /\ HTTPData(y) /\ y.serverState = "CLOSING"
            /\ y.state = x.state /\ y.client = x.client /\ y.serverRecving = x.serverRecving
            /\ y.server = x.server /\ y.recving = x.recving /\ y.cached = x.cached
            /\ y.head = x.head /\ y.asked = x.asked /\ y.answered = x.answered
            /\ y.causes = x.causes /\ y.writing = x.writing
            /\ y.status = x.status /\ y.due = x.due /\ y.lookup = x.lookup
<1> PICK y : y = Marked(x)
  OBVIOUS
<1>0. y = [x EXCEPT !.serverState = "CLOSING"]
  BY DEF Marked
<1>1. x = [f \in Fields |-> x[f]] /\ DOMAIN x = Fields
  BY DataFields
<1>2. /\ y.serverState = "CLOSING"
      /\ y.state = x.state /\ y.client = x.client /\ y.serverRecving = x.serverRecving
      /\ y.server = x.server /\ y.recving = x.recving /\ y.cached = x.cached
      /\ y.head = x.head /\ y.asked = x.asked /\ y.answered = x.answered
      /\ y.causes = x.causes /\ y.writing = x.writing
      /\ y.status = x.status /\ y.due = x.due /\ y.lookup = x.lookup
  BY <1>0, <1>1, ZenonT(60) DEF Fields
<1>3. y = [f \in Fields |-> y[f]]
  BY <1>0, <1>1
<1>4. HTTPData(y)
  BY <1>2, <1>3 DEF HTTPData
<1>5. QED
  BY <1>2, <1>4

\* And what it was sending is of no use.
Failed(x) == [x EXCEPT !.cached = "done", !.serverState = "CLOSING"]

\* Nothing else of the client changes then.
LEMMA FailedIs ==
  ASSUME NEW x, HTTPData(x)
  PROVE  LET y == Failed(x)
         IN /\ HTTPData(y) /\ y.serverState = "CLOSING" /\ y.cached = "done"
            /\ y.state = x.state /\ y.client = x.client /\ y.serverRecving = x.serverRecving
            /\ y.server = x.server /\ y.recving = x.recving
            /\ y.head = x.head /\ y.asked = x.asked /\ y.answered = x.answered
            /\ y.causes = x.causes /\ y.writing = x.writing
            /\ y.status = x.status /\ y.due = x.due /\ y.lookup = x.lookup
<1> PICK y : y = Failed(x)
  OBVIOUS
<1>0. y = [x EXCEPT !.cached = "done", !.serverState = "CLOSING"]
  BY DEF Failed
<1>1. x = [f \in Fields |-> x[f]] /\ DOMAIN x = Fields
  BY DataFields
<1>2. /\ y.serverState = "CLOSING" /\ y.cached = "done"
      /\ y.state = x.state /\ y.client = x.client /\ y.serverRecving = x.serverRecving
      /\ y.server = x.server /\ y.recving = x.recving
      /\ y.head = x.head /\ y.asked = x.asked /\ y.answered = x.answered
      /\ y.causes = x.causes /\ y.writing = x.writing
      /\ y.status = x.status /\ y.due = x.due /\ y.lookup = x.lookup
  BY <1>0, <1>1, ZenonT(60) DEF Fields
<1>3. y = [f \in Fields |-> y[f]]
  BY <1>0, <1>1
<1>4. HTTPData(y)
  BY <1>2, <1>3 DEF HTTPData
<1>5. QED
  BY <1>2, <1>4

\* ObjectFails(): those who read the object are told, this client as well.
LEMMA ObjectFailsOk ==
  ASSUME NEW x, Base(x), x.head, x.writing => x.client
  PROVE  SessionOk(Session!ObjectFails(x))
<1> PICK y : y = Failed(x)
  OBVIOUS
<1>1. /\ HTTPData(y) /\ y.serverState = "CLOSING" /\ y.cached = "done"
      /\ y.state = x.state /\ y.client = x.client /\ y.serverRecving = x.serverRecving
      /\ y.server = x.server
      /\ y.head = x.head /\ y.asked = x.asked /\ y.answered = x.answered
      /\ y.causes = x.causes /\ y.writing = x.writing
      /\ y.status = x.status /\ y.due = x.due /\ y.lookup = x.lookup
  BY FailedIs DEF Base, Held
<1>2. Base(y)
  BY <1>1 DEF Base, Held, Counted, Complete, Stray
<1>3. Session!ObjectFails(x) = Session!SendError(y)
  BY Zenon DEF Session!ObjectFails, Failed
<1>4. SessionOk(Session!SendError(y))
  BY <1>1, <1>2, SendErrorOk DEF Unanswered
<1>5. QED
  BY <1>3, <1>4

\* HandleBody(): more, all or what is no body was received.
LEMMA HandleBodyOk ==
  ASSUME NEW x, Bodied(x), NEW what \in {"more", "done", "broken"},
         what = "more" => Receiving(x) \/ Alone(x)
  PROVE  SessionOk(Session!HandleBody(x, what))
<1> PICK r : r = Session!HandleBody(x, what)
  OBVIOUS
<1>1. CASE what = "more"
  <2>1. r = [x EXCEPT !.serverRecving = TRUE]
    BY <1>1 DEF Session!HandleBody
  <2>2. QED
    BY <1>1, <2>1, MoreOk DEF Bodied
<1>2. CASE what = "done" /\ x.cached = "own"
  <2> PICK y : y = [x EXCEPT !.cached = "done"]
    OBVIOUS
  <2>1. x = [f \in Fields |-> x[f]] /\ DOMAIN x = Fields
    BY DataFields DEF Bodied, Base, Held
  <2>2. /\ y.state = x.state /\ y.client = x.client /\ y.serverRecving = x.serverRecving
        /\ y.head = x.head /\ y.asked = x.asked /\ y.answered = x.answered
        /\ y.causes = x.causes /\ y.writing = x.writing
        /\ y.status = x.status /\ y.due = x.due /\ y.lookup = x.lookup
        /\ y.cached = "done"
    BY <2>1, ZenonT(60) DEF Fields
  <2>3. y = [f \in Fields |-> y[f]]
    BY <2>1
  <2>4. Base(y)
    BY <2>2, <2>3 DEF Bodied, Base, Held, HTTPData, Counted, Complete, Stray
  <2>5. Done(y)
    BY <2>2 DEF Bodied, Done, Answered, Stray
  <2>6. r = Session!ResetConnection(y)
    BY <1>2 DEF Session!HandleBody, Session!ObjectEnds
  <2>7. QED
    BY <2>4, <2>5, <2>6, ResetOk
<1>3. CASE what = "done" /\ x.cached # "own"
  <2>1. r = Session!ResetConnection(x)
    BY <1>3 DEF Session!HandleBody
  <2>2. Done(x)
    BY <1>3 DEF Bodied, Done
  <2>3. QED
    BY <2>1, <2>2, ResetOk DEF Bodied
<1>4. CASE what = "broken" /\ x.cached = "own"
  <2>1. r = Session!ObjectFails(x)
    BY <1>4 DEF Session!HandleBody
  <2>2. QED
    BY <2>1, ObjectFailsOk DEF Bodied
<1>5. CASE what = "broken" /\ x.cached # "own"
  <2> PICK y : y = Marked(x)
    OBVIOUS
  <2>1. /\ HTTPData(y) /\ y.serverState = "CLOSING"
        /\ y.state = x.state /\ y.client = x.client /\ y.serverRecving = x.serverRecving
        /\ y.server = x.server /\ y.cached = x.cached
        /\ y.head = x.head /\ y.asked = x.asked /\ y.answered = x.answered
        /\ y.causes = x.causes /\ y.writing = x.writing
        /\ y.status = x.status /\ y.due = x.due /\ y.lookup = x.lookup
    BY MarkedIs DEF Bodied, Base, Held
  <2>2. Base(y)
    BY <2>1 DEF Bodied, Base, Held, Counted, Complete, Stray
  <2>3. r = Session!SendError(y)
    BY <1>5 DEF Session!HandleBody, Marked
  <2>4. SessionOk(Session!SendError(y))
    BY <1>5, <2>1, <2>2, SendErrorOk DEF Bodied, Unanswered
  <2>5. QED
    BY <2>3, <2>4
<1>6. QED
  BY <1>1, <1>2, <1>3, <1>4, <1>5

-----------------------------------------------------------------------------
\* CloseBoth().
LEMMA CloseBothOk ==
  ASSUME NEW x, Base(x), x.cached # "own", x.writing => x.cached # "joined"
  PROVE  SessionOk(Session!CloseBoth(x))
<1> PICK y : y = Session!CloseServerSocket(x)
  OBVIOUS
<1>1. CASE ~x.client
  <2>1. SessionOk(y) /\ y.status = "freed"
    BY <1>1, CloseServerIs DEF Base, Held
  <2>2. Session!CloseBoth(x) = y
    BY <2>1 DEF Session!CloseBoth, Session!Up
  <2>3. QED
    BY <2>1, <2>2
<1>2. CASE x.client
  <2>1. /\ Held(y) /\ ~y.server /\ y.serverState = "CLOSING" /\ y.client
        /\ y.cached = x.cached /\ y.writing = x.writing
    BY <1>2, CloseServerIs DEF Base, Held
  <2>2. Session!CloseBoth(x) = Session!CloseClientSocket(y)
    BY <2>1 DEF Session!CloseBoth, Session!Up, Held
  <2>3. QED
    BY <2>1, <2>2, CloseClientOk
<1>3. QED
  BY <1>1, <1>2

\* ClientError(): an object that is being received may go on being so, without the client.
LEMMA ClientErrorOk ==
  ASSUME NEW x, HTTPData(x), Counted(x), Complete(x), x.status = "up", ~x.due,
         x.lookup => x.state = "RESOLVING",
         x.client, ~x.recving, x.writing => x.cached \notin {"own", "joined"},
         x.serverState = "BODY" => /\ x.server /\ x.cached \in {"none", "own"} /\ ~x.writing
                                   /\ x.head /\ ~x.lookup,
         x.serverRecving => x.serverState \in {"SERVER_RESPONSE", "BODY", "TUNNELING"},
         NEW r \in Session!ClientError(x)
  PROVE  SessionOk(r)
<1> PICK g : g = [x EXCEPT !.causes = @ \cup {"not_cacheable"}]
  OBVIOUS
<1>1. CASE x.serverState = "BODY" /\ r = Session!CloseClientSocket(x)
  <2> PICK y : y = [x EXCEPT !.lookup = IF x.state = "RESOLVING" THEN FALSE ELSE @,
                             !.state = "CLOSING"]
    OBVIOUS
  <2> USE DEF HTTPData, Fields
  <2>1. ~x.writing => Session!FreeHTTPData([y EXCEPT !.client = FALSE, !.recving = FALSE])
                      = [y EXCEPT !.client = FALSE, !.recving = FALSE]
    BY <1>1 DEF Session!FreeHTTPData
  <2>2. r = [y EXCEPT !.client = FALSE, !.recving = FALSE]
    BY <1>1, <2>1 DEF Session!CloseClientSocket
  <2>3. HTTPData(r)
    BY <2>2
  <2>4. Counted(r) /\ Complete(r)
    BY <2>2 DEF Counted, Complete, Stray
  <2>5. r.status = "up" /\ ~r.due /\ ~r.lookup
    BY <1>1, <2>2
  <2>6. Alone(r)
    BY <1>1, <2>2, ZenonT(60) DEF Alone
  <2> HIDE DEF HTTPData, Fields
  <2>7. QED
    BY <2>3, <2>4, <2>5, <2>6 DEF SessionOk, Running, InMode, Alone
<1>2. CASE r = Session!CloseClientSocket(Session!CloseServerSocket(g))
  <2>1. x = [f \in Fields |-> x[f]] /\ DOMAIN x = Fields
    BY DataFields
  <2>2. /\ g.client = x.client /\ g.writing = x.writing /\ g.cached = x.cached
        /\ g.status = x.status /\ g.due = x.due /\ g.lookup = x.lookup /\ g.state = x.state
        /\ g.asked = x.asked /\ g.answered = x.answered
    BY <2>1, ZenonT(60) DEF Fields
  <2>3. g.causes = x.causes \cup {"not_cacheable"} /\ g = [f \in Fields |-> g[f]]
    BY <2>1 DEF Fields
  <2>4. HTTPData(g) /\ Counted(g) /\ Complete(g)
    BY <2>2, <2>3 DEF HTTPData, Counted, Complete, Stray
  <2> PICK z : z = Session!CloseServerSocket(g)
    OBVIOUS
  <2>5. /\ Held(z) /\ ~z.server /\ z.serverState = "CLOSING" /\ z.client
        /\ z.cached = g.cached /\ z.writing = g.writing
    <3>1. /\ g.status = "up" /\ ~g.due /\ (g.lookup => g.state = "RESOLVING") /\ g.client
          /\ "not_cacheable" \in g.causes
      BY <2>2, <2>3
    <3>2. QED
      BY ONLY z = Session!CloseServerSocket(g), <2>4, <3>1, CloseServerIs
  <2>6. SessionOk(Session!CloseClientSocket(z))
    BY <2>2, <2>5, CloseClientOk
  <2>7. QED
    BY <1>2, <2>6
<1>3. QED
  BY <1>1, <1>2, Zenon DEF Session!ClientError

\* Where the server can be heard of.
Served(x) == Connecting(x) \/ Receiving(x) \/ Alone(x) \/ Tunneling(x)

\* A server that fails or closes is at its end, whatever it was heard of for.
LEMMA ServedMarked ==
  ASSUME NEW x, Base(x), Served(x)
  PROVE  LET y == Marked(x)
         IN /\ Base(y) /\ y.serverState = "CLOSING" /\ y.client = x.client /\ y.server = x.server
            /\ y.cached = x.cached /\ y.writing = x.writing /\ y.head = x.head
            /\ y.recving = x.recving /\ y.state = x.state /\ (y.writing => y.client)
            /\ y.cached # "joined"
            /\ Connecting(x) => Unanswered(y) /\ Waiting(y)
            /\ Receiving(x) \/ Alone(x) => Bodied(y)
<1> PICK y : y = Marked(x)
  OBVIOUS
<1>1. /\ HTTPData(y) /\ y.serverState = "CLOSING"
      /\ y.state = x.state /\ y.client = x.client /\ y.serverRecving = x.serverRecving
      /\ y.server = x.server /\ y.recving = x.recving /\ y.cached = x.cached
      /\ y.head = x.head /\ y.asked = x.asked /\ y.answered = x.answered
      /\ y.causes = x.causes /\ y.writing = x.writing
      /\ y.status = x.status /\ y.due = x.due /\ y.lookup = x.lookup
  BY MarkedIs DEF Base, Held
<1>2. Base(y)
  BY <1>1 DEF Base, Held, Counted, Complete, Stray
<1>3. (y.writing => y.client) /\ y.cached # "joined"
  BY <1>1 DEF Served, Connecting, Receiving, Alone, Tunneling
<1>4. Connecting(x) => Unanswered(y) /\ Waiting(y)
  BY <1>1 DEF Connecting, Waiting, Stray, Unanswered
<1>5. Receiving(x) \/ Alone(x) => Bodied(y)
  BY <1>1, <1>2, <1>3 DEF Receiving, Alone, Answered, Stray, Bodied
<1>6. QED
  BY <1>1, <1>2, <1>3, <1>4, <1>5

\* ServerError().
LEMMA ServerErrorOk ==
  ASSUME NEW x, Base(x), Served(x)
  PROVE  SessionOk(Session!ServerError(x))
<1> PICK y : y = Marked(x)
  OBVIOUS
<1>1. /\ Base(y) /\ y.serverState = "CLOSING" /\ y.cached = x.cached /\ (y.writing => y.client)
      /\ y.cached # "joined" /\ y.head = x.head
      /\ Connecting(x) => Unanswered(y)
      /\ Receiving(x) \/ Alone(x) => Bodied(y)
  BY ServedMarked
<1>2. Session!ServerError(x) =
        IF x.serverState \in {"CONNECTING", "SERVER_RESPONSE"} THEN Session!SendError(y)
        ELSE IF x.serverState = "BODY" /\ x.cached = "own" THEN Session!ObjectFails(y)
        ELSE Session!CloseBoth(y)
  BY DEF Session!ServerError, Marked
<1>3. x.serverState \in {"CONNECTING", "SERVER_RESPONSE"} => Connecting(x)
  BY DEF Served, Connecting, Receiving, Alone, Tunneling
<1>4. Connecting(x) => SessionOk(Session!SendError(y))
  BY <1>1, SendErrorOk DEF Connecting
<1>5. x.serverState = "BODY" => Receiving(x) \/ Alone(x)
  BY DEF Served, Connecting, Receiving, Alone, Tunneling
<1>6. x.serverState = "BODY" => SessionOk(Session!ObjectFails(y))
  BY <1>1, <1>5, ObjectFailsOk DEF Bodied
<1>7. x.serverState \notin {"CONNECTING", "SERVER_RESPONSE"} /\ ~(x.serverState = "BODY" /\ x.cached = "own")
      => x.cached # "own"
  BY DEF Served, Connecting, Receiving, Alone, Tunneling
<1>8. x.cached # "own" => SessionOk(Session!CloseBoth(y))
  BY <1>1, CloseBothOk
<1>9. QED
  BY <1>2, <1>3, <1>4, <1>6, <1>7, <1>8

\* ServerClosed().
LEMMA ServerClosedOk ==
  ASSUME NEW x, Base(x), Served(x), x.serverState \in {"SERVER_RESPONSE", "BODY", "TUNNELING"},
         NEW r \in Session!ServerClosed(x)
  PROVE  SessionOk(r)
<1> PICK y : y = Marked(x)
  OBVIOUS
<1>1. /\ Base(y) /\ y.serverState = "CLOSING" /\ y.cached = x.cached /\ (y.writing => y.client)
      /\ y.cached # "joined" /\ y.client = x.client /\ y.recving = x.recving /\ y.state = x.state
      /\ Connecting(x) => Unanswered(y) /\ Waiting(y)
      /\ Receiving(x) \/ Alone(x) => Bodied(y)
  BY ServedMarked
<1>2. CASE x.serverState = "BODY"
  <2>1. PICK what \in {"done", "broken"} : r = Session!HandleBody(y, what)
    BY <1>2, Zenon DEF Session!ServerClosed, Marked
  <2>2. Bodied(y)
    BY <1>1, <1>2 DEF Served, Connecting, Receiving, Alone, Tunneling
  <2>3. QED
    BY <2>1, <2>2, HandleBodyOk
<1>3. CASE x.serverState = "TUNNELING"
  <2>1. r = Session!CloseBoth(x)
    BY <1>3 DEF Session!ServerClosed
  <2>2. x.cached = "none"
    BY <1>3 DEF Served, Connecting, Receiving, Alone, Tunneling
  <2>3. QED
    BY <2>1, <2>2, CloseBothOk
<1>4. CASE x.serverState = "SERVER_RESPONSE"
  <2>1. Connecting(x)
    BY <1>4 DEF Served, Connecting, Receiving, Alone, Tunneling
  <2>2. r \in IF x.cached # "none" THEN Session!SendFromCache(y) ELSE {Session!SendError(y)}
    BY <1>4 DEF Session!ServerClosed, Marked
  <2>3. x.cached # "none" => \A q \in Session!SendFromCache(y) : SessionOk(q)
    BY <1>1, <2>1, SendFromCacheOk DEF Connecting
  <2>4. SessionOk(Session!SendError(y))
    BY <1>1, <2>1, SendErrorOk DEF Connecting
  <2>5. QED
    BY <2>2, <2>3, <2>4
<1>5. QED
  BY <1>2, <1>3, <1>4

-----------------------------------------------------------------------------
\* A client of which nothing has changed but what is on its way, or that it reads no more.
Same(x, r) ==
  /\ HTTPData(r)
  /\ r.client = x.client /\ r.server = x.server /\ r.serverRecving = x.serverRecving
  /\ r.state = x.state /\ r.serverState = x.serverState /\ r.lookup = x.lookup
  /\ r.cached = x.cached /\ r.method = x.method /\ r.head = x.head /\ r.due = x.due
  /\ r.status = x.status /\ r.causes = x.causes
  /\ r.asked = x.asked /\ r.answered = x.answered
  /\ (r.recving => x.recving)
  /\ (x.state = "CLOSING" => r.writing = x.writing)

\* What SessionOk() says of a client depends on these.
LEMMA SameOk ==
  ASSUME NEW x, NEW r, SessionOk(x), Same(x, r)
  PROVE  SessionOk(r)
<1>1. Counted(r) /\ Complete(r)
  BY DEF SessionOk, Same, Counted, Complete, Stray
<1>2. ASSUME Running(x)
      PROVE  Running(r)
  <2>1. Asking(x) => Asking(r)
    BY DEF Same, Asking, Answered, Stray
  <2>2. LookingUp(x) => LookingUp(r)
    BY DEF Same, LookingUp, Waiting, Stray, Uncached
  <2>3. Connecting(x) => Connecting(r)
    BY DEF Same, Connecting, Waiting, Stray, Uncached
  <2>4. Receiving(x) => Receiving(r)
    BY DEF Same, Receiving, Answered, Stray
  <2>5. Reading(x) => Reading(r)
    BY DEF Same, Reading, Answered, Stray
  <2>6. Leaving(x) => Leaving(r)
    BY DEF Same, Leaving
  <2>7. Alone(x) => Alone(r)
    BY DEF Same, Alone
  <2>8. Tunneling(x) => Tunneling(r)
    BY DEF Same, Tunneling, Answered, Stray
  <2>9. r.status = "up"
    BY <1>2 DEF Same, Running
  <2>10. QED
    BY <1>2, <2>1, <2>2, <2>3, <2>4, <2>5, <2>6, <2>7, <2>8, <2>9 DEF Running, InMode
<1>3. (Ended(x) => Ended(r)) /\ (Crashed(x) => Crashed(r))
  BY DEF Same, Ended, Crashed
<1>4. /\ HTTPData(r)
      /\ r.lookup <=> r.status = "up" /\ r.state = "RESOLVING"
      /\ r.due => r.state = "REQUEST" /\ ~r.recving
      /\ r.serverRecving => r.serverState \in {"SERVER_RESPONSE", "BODY", "TUNNELING"}
  BY DEF SessionOk, Same
<1>5. QED
  BY <1>1, <1>2, <1>3, <1>4 DEF SessionOk

\* What may change and leave a client the same.
LEMMA SameIs ==
  ASSUME NEW x, HTTPData(x), NEW r, r = [f \in Fields |-> r[f]],
         \A f \in Fields \ {"script", "inq", "eof", "units", "recving", "writing"} : r[f] = x[f],
         r.recving => x.recving, x.state = "CLOSING" => r.writing = x.writing
  PROVE  Same(x, r)
<1>1. /\ r.client = x.client /\ r.server = x.server /\ r.serverRecving = x.serverRecving
      /\ r.state = x.state /\ r.serverState = x.serverState /\ r.lookup = x.lookup
      /\ r.cached = x.cached /\ r.method = x.method /\ r.head = x.head /\ r.due = x.due
      /\ r.status = x.status /\ r.causes = x.causes
      /\ r.asked = x.asked /\ r.answered = x.answered
  BY DEF Fields
<1>2. HTTPData(r)
  BY <1>1 DEF HTTPData
<1>3. QED
  BY <1>1, <1>2 DEF Same

\* The client sends, or closes.
LEMMA ClientSendsOk == SessionOk(h) /\ Session!ClientSends => SessionOk(h')
<1> SUFFICES ASSUME SessionOk(h), Session!ClientSends
             PROVE  SessionOk(h')
  OBVIOUS
<1>1. HTTPData(h) /\ h = [f \in Fields |-> h[f]] /\ DOMAIN h = Fields
  BY DataFields DEF SessionOk
<1>2. \/ \E s, q : h' = [h EXCEPT !.script = s, !.inq = q]
      \/ h' = [h EXCEPT !.eof = TRUE]
  BY DEF Session!ClientSends
<1>3. Same(h, h')
  <2>1. h' = [f \in Fields |-> h'[f]]
    BY <1>1, <1>2
  <2>2. \A f \in Fields \ {"script", "inq", "eof"} : h'[f] = h[f]
    BY <1>1, <1>2
  <2>3. h'.recving = h.recving /\ h'.writing = h.writing
    BY <2>2 DEF Fields
  <2>4. QED
    BY <1>1, <2>1, <2>2, <2>3, SameIs
<1>4. QED
  BY <1>3, SameOk

\* A part of what the client has sent is read.
LEMMA ClientReadOk == SessionOk(h) /\ Session!ClientRead => SessionOk(h')
<1> SUFFICES ASSUME SessionOk(h), Session!ClientRead
             PROVE  SessionOk(h')
  OBVIOUS
<1>1. HTTPData(h) /\ h = [f \in Fields |-> h[f]] /\ DOMAIN h = Fields
  BY DataFields DEF SessionOk
<1>2. h.status = "up" /\ ~h.due /\ h.recving
  BY DEF Session!ClientRead, Session!Idle, Session!Up
<1>3. PICK data, q : LET x == [h EXCEPT !.inq = q, !.recving = FALSE]
                     IN IF h.state = "REQUEST" THEN h' \in Session!HandleRequest(x, data)
                        ELSE h' = [x EXCEPT !.recving = h.state = "TUNNELING"]
  BY Zenon DEF Session!ClientRead
<1> PICK x : x = [h EXCEPT !.inq = q, !.recving = FALSE]
  OBVIOUS
<1>4. /\ x = [f \in Fields |-> x[f]] /\ DOMAIN x = Fields
      /\ \A f \in Fields \ {"inq", "recving"} : x[f] = h[f]
  BY <1>1
<1>5. ~x.recving
  BY <1>1 DEF Fields
<1>6. CASE h.state = "REQUEST"
  <2>1. x.writing = h.writing
    BY <1>4 DEF Fields
  <2>0. \A f \in Fields \ {"script", "inq", "eof", "units", "recving", "writing"} : x[f] = h[f]
    BY <1>4
  <2>2. Same(h, x)
    BY ONLY <1>1, <1>4, <1>5, <2>0, <2>1, SameIs
  <2>3. SessionOk(x)
    BY <2>2, SameOk
  <2>4. x.state = "REQUEST" /\ x.status = "up"
    BY <1>2, <1>6, <2>2 DEF Same
  <2>5. Asking(x)
    BY <2>3, <2>4 DEF SessionOk, Running, InMode, Ended, Crashed, LookingUp, Connecting,
          Receiving, Reading, Leaving, Alone, Tunneling
  <2>6. h' \in Session!HandleRequest(x, data)
    BY <1>3, <1>6
  <2>7. ~x.lookup /\ ~x.serverRecving
    BY <2>3, <2>4, <2>5 DEF SessionOk, Asking
  <2>8. QED
    BY <1>5, <2>3, <2>4, <2>5, <2>6, <2>7, HandleRequestOk DEF SessionOk
<1>7. CASE h.state # "REQUEST"
  <2> PICK tunneling \in BOOLEAN : tunneling <=> h.state = "TUNNELING"
    OBVIOUS
  <2>1. h' = [x EXCEPT !.recving = h.state = "TUNNELING"]
    BY <1>3, <1>7
  <2>2. /\ h' = [f \in Fields |-> h'[f]]
        /\ \A f \in Fields \ {"inq", "recving"} : h'[f] = h[f]
    BY <1>4, <2>1
  <2>3. h'.writing = h.writing
    BY <2>2 DEF Fields
  <2>4. Same(h, h')
    BY <1>1, <1>2, <2>2, <2>3, SameIs
  <2>5. QED
    BY <2>4, SameOk
<1>8. QED
  BY <1>6, <1>7

\* Which state a client is in that is being read from or written to.
LEMMA HeardIs ==
  ASSUME NEW x, SessionOk(x), x.status = "up", x.recving \/ x.writing
  PROVE  /\ x.client
         /\ x.cached \in {"own", "joined"} => ~x.recving
         /\ x.serverState = "BODY" => /\ x.server /\ x.cached \in {"none", "own"}
                                      /\ ~x.recving /\ x.head /\ ~x.lookup
BY DEF SessionOk, Running, InMode, Ended, Crashed, Asking, LookingUp, Connecting,
       Receiving, Reading, Leaving, Alone, Tunneling

\* A client that is heard of no more for a while.
LEMMA HeardError ==
  ASSUME SessionOk(h), h.status = "up", ~h.due, NEW w, w \in {FALSE, h.writing},
         h.recving \/ h.writing, h.serverState = "BODY" => w = FALSE,
         h.cached \in {"own", "joined"} => w = FALSE,
         NEW x, x = [h EXCEPT !.recving = FALSE, !.writing = w],
         NEW r \in Session!ClientError(x)
  PROVE  SessionOk(r)
<1>1. HTTPData(h) /\ h = [f \in Fields |-> h[f]] /\ DOMAIN h = Fields
  BY DataFields DEF SessionOk
<1>2. x = [f \in Fields |-> x[f]] /\ DOMAIN x = Fields
  BY <1>1
<1>3. /\ x.client = h.client /\ x.server = h.server /\ x.serverRecving = h.serverRecving
      /\ x.state = h.state /\ x.serverState = h.serverState /\ x.lookup = h.lookup
      /\ x.cached = h.cached /\ x.head = h.head /\ x.due = h.due
      /\ x.status = h.status /\ x.causes = h.causes /\ x.writing = w
      /\ x.asked = h.asked /\ x.answered = h.answered
  BY <1>1, ZenonT(60) DEF Fields
<1>4. ~x.recving
  BY <1>1 DEF Fields
<1>5. HTTPData(x) /\ Counted(x) /\ Complete(x)
  BY <1>2, <1>3 DEF SessionOk, HTTPData, Counted, Complete, Stray
<1>6. /\ h.client
      /\ h.serverState = "BODY" => h.server /\ h.cached \in {"none", "own"} /\ h.head /\ ~h.lookup
  BY HeardIs
<1>7. /\ x.status = "up" /\ ~x.due /\ (x.lookup => x.state = "RESOLVING") /\ x.client
      /\ x.serverRecving => x.serverState \in {"SERVER_RESPONSE", "BODY", "TUNNELING"}
  BY <1>3, <1>6 DEF SessionOk
<1>8. x.writing => x.cached \notin {"own", "joined"}
  BY <1>3
<1>9. x.serverState = "BODY" => /\ x.server /\ x.cached \in {"none", "own"} /\ ~x.writing
                                /\ x.head /\ ~x.lookup
  BY <1>3, <1>6
<1>10. QED
  BY ONLY <1>4, <1>5, <1>7, <1>8, <1>9, r \in Session!ClientError(x), ClientErrorOk

\* The client closes.
LEMMA ClientEofOk == SessionOk(h) /\ Session!ClientEof => SessionOk(h')
<1> SUFFICES ASSUME SessionOk(h), Session!ClientEof
             PROVE  SessionOk(h')
  OBVIOUS
<1>1. HTTPData(h) /\ h = [f \in Fields |-> h[f]] /\ DOMAIN h = Fields
  BY DataFields DEF SessionOk
<1>2. h.status = "up" /\ ~h.due /\ h.recving
  BY DEF Session!ClientEof, Session!Idle, Session!Up
<1> PICK w : w = h.writing
  OBVIOUS
<1> PICK x : x = [h EXCEPT !.recving = FALSE]
  OBVIOUS
<1> PICK y : y = [h EXCEPT !.recving = FALSE, !.writing = w]
  OBVIOUS
<1>3. x = y
  BY <1>1 DEF Fields
<1>4. h' \in Session!ClientError(x)
  BY Zenon DEF Session!ClientEof, Session!ClientClosed
<1>5. h.serverState # "BODY" /\ h.cached \notin {"own", "joined"}
  BY <1>2, HeardIs
<1>6. QED
  BY <1>2, <1>3, <1>4, <1>5, HeardError

\* The client fails, or says nothing for too long.
LEMMA ClientFailsOk == SessionOk(h) /\ Session!ClientFails => SessionOk(h')
<1> SUFFICES ASSUME SessionOk(h), Session!ClientFails
             PROVE  SessionOk(h')
  OBVIOUS
<1> PICK w : w = FALSE
  OBVIOUS
<1> PICK x : x = [h EXCEPT !.recving = FALSE, !.writing = w]
  OBVIOUS
<1>1. h.status = "up" /\ ~h.due /\ (h.recving \/ h.writing)
  BY DEF Session!ClientFails, Session!Idle, Session!Up
<1>2. h' \in Session!ClientError(x)
  BY Zenon DEF Session!ClientFails
<1>3. w \in {FALSE, h.writing}
  OBVIOUS
<1>4. QED
  BY <1>1, <1>2, <1>3, HeardError

\* What was to be sent to the client has been.
LEMMA WrittenOk == SessionOk(h) /\ Session!Written => SessionOk(h')
<1> SUFFICES ASSUME SessionOk(h), Session!Written
             PROVE  SessionOk(h')
  OBVIOUS
<1> PICK x : x = [h EXCEPT !.writing = FALSE]
  OBVIOUS
<1>1. HTTPData(h) /\ h = [f \in Fields |-> h[f]] /\ DOMAIN h = Fields
  BY DataFields DEF SessionOk
<1>2. h.status = "up" /\ ~h.due /\ h.writing
  BY DEF Session!Written, Session!Idle, Session!Up
<1>3. h' = IF h.state = "CLOSING" THEN Session!CloseClientSocket(x) ELSE x
  BY DEF Session!Written
<1>4. /\ x = [f \in Fields |-> x[f]] /\ DOMAIN x = Fields
      /\ \A f \in Fields \ {"writing"} : x[f] = h[f]
  BY <1>1
<1>5. CASE h.state # "CLOSING"
  <2>1. \A f \in Fields \ {"script", "inq", "eof", "units", "recving", "writing"} : x[f] = h[f]
    BY <1>4
  <2>2. x.recving => h.recving
    BY <1>4 DEF Fields
  <2>3. Same(h, x)
    BY ONLY <1>1, <1>4, <1>5, <2>1, <2>2, SameIs
  <2>4. QED
    BY <1>3, <1>5, <2>3, SameOk
<1>6. CASE h.state = "CLOSING"
  <2>1. Leaving(h)
    BY <1>2, <1>6 DEF SessionOk, Running, InMode, Ended, Crashed, Asking, LookingUp, Connecting,
       Receiving, Reading, Leaving, Alone, Tunneling
  <2>2. /\ x.client = h.client /\ x.server = h.server /\ x.serverRecving = h.serverRecving
        /\ x.state = h.state /\ x.serverState = h.serverState /\ x.lookup = h.lookup
        /\ x.cached = h.cached /\ x.due = h.due
        /\ x.status = h.status /\ x.causes = h.causes
        /\ x.asked = h.asked /\ x.answered = h.answered
    BY <1>4 DEF Fields
  <2>3. HTTPData(x) /\ Counted(x) /\ Complete(x)
    BY <1>4, <2>2 DEF SessionOk, HTTPData, Counted, Complete, Stray
  <2>4. Held(x)
    BY <1>2, <1>6, <2>1, <2>2, <2>3 DEF SessionOk, Held, Leaving
  <2>5. SessionOk(Session!CloseClientSocket(x))
    BY <2>1, <2>2, <2>4, CloseClientOk DEF Leaving
  <2>6. QED
    BY <1>3, <1>6, <2>5
<1>7. QED
  BY <1>5, <1>6

\* The next request came with the one before.
LEMMA PipelinedOk == SessionOk(h) /\ Session!Pipelined => SessionOk(h')
<1> SUFFICES ASSUME SessionOk(h), Session!Pipelined
             PROVE  SessionOk(h')
  OBVIOUS
<1>1. h.status = "up" /\ h.due /\ h' \in Session!HandleRequest(h, h.rest)
  BY DEF Session!Pipelined, Session!Up
<1>2. h.state = "REQUEST" /\ ~h.recving
  BY <1>1 DEF SessionOk
<1>3. Asking(h)
  BY <1>1, <1>2 DEF SessionOk, Running, InMode, Ended, Crashed, LookingUp, Connecting,
     Receiving, Reading, Leaving, Alone, Tunneling
<1>4. ~h.lookup /\ ~h.serverRecving
  BY <1>2, <1>3 DEF SessionOk, Asking
<1>5. QED
  BY <1>1, <1>2, <1>3, <1>4, HandleRequestOk DEF SessionOk

\* The resolver answers.
LEMMA AnsweredOk == SessionOk(h) /\ Session!Answered => SessionOk(h')
<1> SUFFICES ASSUME SessionOk(h), Session!Answered
             PROVE  SessionOk(h')
  OBVIOUS
<1> PICK x : x = [h EXCEPT !.lookup = FALSE]
  OBVIOUS
<1>1. HTTPData(h) /\ h = [f \in Fields |-> h[f]] /\ DOMAIN h = Fields
  BY DataFields DEF SessionOk
<1>2. h.status = "up" /\ ~h.due /\ h.lookup
  BY DEF Session!Answered, Session!Idle, Session!Up
<1>3. LookingUp(h)
  BY <1>2 DEF SessionOk, Running, InMode, Ended, Crashed, Asking, LookingUp, Connecting,
     Receiving, Reading, Leaving, Alone, Tunneling
<1>4. /\ x = [f \in Fields |-> x[f]] /\ DOMAIN x = Fields
      /\ \A f \in Fields \ {"lookup"} : x[f] = h[f]
  BY <1>1
<1>5. /\ x.client = h.client /\ x.server = h.server /\ x.serverRecving = h.serverRecving
      /\ x.state = h.state /\ x.serverState = h.serverState /\ x.recving = h.recving
      /\ x.cached = h.cached /\ x.due = h.due /\ x.method = h.method /\ x.head = h.head
      /\ x.status = h.status /\ x.causes = h.causes
      /\ x.asked = h.asked /\ x.answered = h.answered
  BY <1>4 DEF Fields
<1>6. ~x.lookup
  BY <1>1 DEF Fields
<1>7. HTTPData(x) /\ Counted(x) /\ Complete(x)
  BY <1>4, <1>5 DEF SessionOk, HTTPData, Counted, Complete, Stray
<1>8. Base(x)
  BY <1>2, <1>3, <1>5, <1>6, <1>7 DEF SessionOk, Held, Base, LookingUp
<1>9. Pending(x) /\ x.cached \in {"none", "stale"} /\ Uncached(x)
  BY <1>3, <1>5, <1>8 DEF LookingUp, Pending, Waiting, Stray, Uncached
<1>10. \/ h' = Session!Connecting(x)
       \/ h' = Session!SendError(Marked(x))
       \/ h' = Session!SendError(x)
  <2>1. PICK found \in BOOLEAN : h' \in Session!Resolved(x, found)
    BY Zenon DEF Session!Answered
  <2>2. h' \in IF x.client /\ found
               THEN {Session!Connecting(x), Session!SendError(Marked(x))}
               ELSE {Session!SendError(x)}
    BY <2>1, Zenon DEF Session!Resolved, Marked
  <2>3. QED
    BY <2>2
<1>11. SessionOk(Session!SendError(x))
  BY <1>9, SendErrorOk DEF Pending, Unanswered, Waiting
<1>12. SessionOk(Session!SendError(Marked(x)))
  <2> PICK y : y = Marked(x)
    OBVIOUS
  <2>1. /\ HTTPData(y) /\ y.serverState = "CLOSING"
        /\ y.state = x.state /\ y.client = x.client /\ y.serverRecving = x.serverRecving
        /\ y.cached = x.cached /\ y.head = x.head /\ y.asked = x.asked
        /\ y.answered = x.answered /\ y.causes = x.causes
        /\ y.status = x.status /\ y.due = x.due /\ y.lookup = x.lookup
    BY <1>7, MarkedIs
  <2>2. Base(y)
    BY <1>8, <2>1 DEF Base, Held, Counted, Complete, Stray
  <2>3. Unanswered(y)
    BY <1>9, <2>1 DEF Pending, Unanswered, Waiting, Stray
  <2>4. QED
    BY <1>9, <2>1, <2>2, <2>3, SendErrorOk DEF Pending
<1>13. QED
  BY <1>9, <1>10, <1>11, <1>12, ConnectingOk

\* A connection is there, or cannot be.
LEMMA ServerConnectedOk == SessionOk(h) /\ Session!ServerConnected => SessionOk(h')
<1> SUFFICES ASSUME SessionOk(h), Session!ServerConnected
             PROVE  SessionOk(h')
  OBVIOUS
<1>1. /\ h.status = "up" /\ ~h.due /\ h.serverState = "CONNECTING"
      /\ h' = Session!Connected(h) \/ h' = Session!ServerError(h)
  BY DEF Session!ServerConnected, Session!Idle, Session!Up
<1>2. Connecting(h)
  BY <1>1, ConnectingIs
<1>3. Base(h)
  BY <1>1, <1>2 DEF SessionOk, Connecting, Base, Held
<1>4. SessionOk(Session!ServerError(h))
  BY <1>2, <1>3, ServerErrorOk DEF Served
<1>5. SessionOk(Session!Connected(h))
  BY <1>1, ConnectedOk
<1>6. QED
  BY <1>1, <1>4, <1>5

\* A client whose server is heard of.
LEMMA ServedIs ==
  ASSUME SessionOk(h), h.status = "up", ~h.due, h.serverRecving,
         NEW x, x = [f \in Fields |-> x[f]], ~x.serverRecving,
         \A f \in Fields \ {"serverRecving", "resp", "units", "writing"} : x[f] = h[f],
         x.writing => h.writing \/ h.client
  PROVE  /\ Base(x) /\ Served(x) /\ x.serverState = h.serverState
         /\ x.serverState \in {"SERVER_RESPONSE", "BODY", "TUNNELING"}
         /\ h.serverState = "SERVER_RESPONSE" => Connecting(x)
         /\ h.serverState = "BODY" => (Receiving(x) \/ Alone(x)) /\ Bodied(x)
<1>1. /\ x.client = h.client /\ x.server = h.server /\ x.recving = h.recving
      /\ x.state = h.state /\ x.serverState = h.serverState /\ x.lookup = h.lookup
      /\ x.cached = h.cached /\ x.due = h.due /\ x.method = h.method /\ x.head = h.head
      /\ x.status = h.status /\ x.causes = h.causes
      /\ x.asked = h.asked /\ x.answered = h.answered
  BY DEF Fields
<1>2. HTTPData(x) /\ Counted(x) /\ Complete(x)
  BY <1>1 DEF SessionOk, HTTPData, Counted, Complete, Stray
<1>3. h.serverState \in {"SERVER_RESPONSE", "BODY", "TUNNELING"}
  BY DEF SessionOk
<1>4. h.serverState = "SERVER_RESPONSE" => Connecting(h)
  BY DEF SessionOk, Running, InMode, Ended, Crashed, Asking, LookingUp, Connecting,
     Receiving, Reading, Leaving, Alone, Tunneling
<1>5. h.serverState = "BODY" => Receiving(h) \/ Alone(h)
  BY DEF SessionOk, Running, InMode, Ended, Crashed, Asking, LookingUp, Connecting,
     Receiving, Reading, Leaving, Alone, Tunneling
<1>6. h.serverState = "TUNNELING" => Tunneling(h)
  BY DEF SessionOk, Running, InMode, Ended, Crashed, Asking, LookingUp, Connecting,
     Receiving, Reading, Leaving, Alone, Tunneling
<1>7. Connecting(h) => Connecting(x)
  BY <1>1 DEF Connecting, Waiting, Stray, Uncached
<1>8. Receiving(h) => Receiving(x)
  BY <1>1 DEF Receiving, Answered, Stray
<1>9. Alone(h) => Alone(x)
  BY <1>1 DEF Alone
<1>10. Tunneling(h) => Tunneling(x)
  BY <1>1 DEF Tunneling, Answered, Stray
<1>11. ~x.lookup
  BY <1>1, <1>3, <1>4, <1>5, <1>6 DEF SessionOk, Connecting, Receiving, Alone, Tunneling
<1>12. Base(x)
  BY <1>1, <1>2, <1>11 DEF Base, Held
<1>13. Receiving(x) \/ Alone(x) => Bodied(x)
  BY <1>12 DEF Receiving, Alone, Bodied
<1>14. QED
  BY <1>1, <1>3, <1>4, <1>5, <1>6, <1>7, <1>8, <1>9, <1>10, <1>12, <1>13 DEF Served

\* The head of an answer.
LEMMA ServerRespondsOk == SessionOk(h) /\ Session!ServerResponds => SessionOk(h')
<1> SUFFICES ASSUME SessionOk(h), Session!ServerResponds
             PROVE  SessionOk(h')
  OBVIOUS
<1>1. /\ h.status = "up" /\ ~h.due /\ h.serverRecving /\ h.serverState = "SERVER_RESPONSE"
  BY DEF Session!ServerResponds, Session!Idle, Session!Up
<1>2. PICK q : h' \in Session!HandleResponse([h EXCEPT !.resp = q, !.serverRecving = FALSE])
  BY Zenon DEF Session!ServerResponds
<1> PICK x : x = [h EXCEPT !.resp = q, !.serverRecving = FALSE]
  OBVIOUS
<1>3. HTTPData(h) /\ h = [f \in Fields |-> h[f]] /\ DOMAIN h = Fields
  BY DataFields DEF SessionOk
<1>4. x = [f \in Fields |-> x[f]] /\ \A f \in Fields \ {"serverRecving", "resp"} : x[f] = h[f]
  BY <1>3
<1>5. ~x.serverRecving
  BY <1>3 DEF Fields
<1>6. x.writing = h.writing
  BY <1>4 DEF Fields
<1>7. \A f \in Fields \ {"serverRecving", "resp", "units", "writing"} : x[f] = h[f]
  BY <1>4
<1>8. Base(x) /\ Connecting(x)
  BY ONLY SessionOk(h), <1>1, <1>4, <1>5, <1>6, <1>7, ServedIs
<1>9. QED
  BY <1>2, <1>8, HandleResponseOk

\* A piece of a body, or of a tunnel.
LEMMA ServerSendsOk == SessionOk(h) /\ Session!ServerSends => SessionOk(h')
<1> SUFFICES ASSUME SessionOk(h), Session!ServerSends
             PROVE  SessionOk(h')
  OBVIOUS
<1>1. /\ h.status = "up" /\ ~h.due /\ h.serverRecving /\ h.serverState \in {"BODY", "TUNNELING"}
  BY DEF Session!ServerSends, Session!Idle, Session!Up
<1> PICK x : x = [h EXCEPT !.units = @ + 1, !.writing = h.client, !.serverRecving = FALSE]
  OBVIOUS
<1>2. IF h.serverState = "TUNNELING" THEN h' = [x EXCEPT !.serverRecving = TRUE]
      ELSE h' \in {Session!HandleBody(x, what) : what \in {"more", "done", "broken"}}
  BY Zenon DEF Session!ServerSends
<1>3. HTTPData(h) /\ h = [f \in Fields |-> h[f]] /\ DOMAIN h = Fields
  BY DataFields DEF SessionOk
<1>4. /\ x = [f \in Fields |-> x[f]]
      /\ \A f \in Fields \ {"serverRecving", "resp", "units", "writing"} : x[f] = h[f]
  BY <1>3
<1>5. ~x.serverRecving
  BY <1>3 DEF Fields
<1>6. x.writing = h.client
  BY <1>3, ZenonT(30) DEF Fields
<1>7. CASE h.serverState = "BODY"
  <2>1. (Receiving(x) \/ Alone(x)) /\ Bodied(x)
    BY ONLY SessionOk(h), <1>1, <1>4, <1>5, <1>6, <1>7, ServedIs
  <2>2. PICK what \in {"more", "done", "broken"} : h' = Session!HandleBody(x, what)
    BY <1>2, <1>7
  <2>3. QED
    BY <2>1, <2>2, HandleBodyOk
<1>8. CASE h.serverState = "TUNNELING"
  <2>1. h' = [x EXCEPT !.serverRecving = TRUE]
    BY <1>2, <1>8
  <2>2. DOMAIN x = Fields
    BY <1>4
  <2>3. h' = [f \in Fields |-> h'[f]] /\ \A f \in Fields \ {"serverRecving"} : h'[f] = x[f]
    BY <1>4, <2>1
  <2>4. h'.serverRecving
    BY <2>1, <2>2 DEF Fields
  <2>5. \A f \in Fields \ {"script", "inq", "eof", "units", "recving", "writing",
                           "serverRecving", "resp"} : h'[f] = h[f]
    BY <1>4, <2>3
  <2>6. /\ h'.client = h.client /\ h'.server = h.server
        /\ h'.state = h.state /\ h'.serverState = h.serverState /\ h'.lookup = h.lookup
        /\ h'.cached = h.cached /\ h'.method = h.method /\ h'.head = h.head /\ h'.due = h.due
        /\ h'.status = h.status /\ h'.causes = h.causes
        /\ h'.asked = h.asked /\ h'.answered = h.answered
    BY <2>5 DEF Fields
  <2>7. h'.recving = h.recving
    BY <1>4, <2>3 DEF Fields
  <2>8. HTTPData(h')
    BY <1>3, <2>3, <2>6 DEF HTTPData
  <2>9. h.state # "CLOSING"
    BY <1>1, <1>8 DEF SessionOk, Running, InMode, Ended, Crashed, Asking, LookingUp, Connecting,
       Receiving, Reading, Leaving, Alone, Tunneling
  <2>10. h'.serverRecving = h.serverRecving
    <3>1. h.serverRecving \in BOOLEAN /\ h'.serverRecving \in BOOLEAN
      <4>1. h'.serverRecving = TRUE
        BY <2>1, <2>2, ZenonT(30) DEF Fields
      <4>2. QED
        BY <1>1, <4>1
    <3>2. QED
      BY <1>1, <2>4, <3>1
  <2>11. Same(h, h')
    BY <2>6, <2>7, <2>8, <2>9, <2>10 DEF Same
  <2>12. QED
    BY <2>11, SameOk
<1>9. QED
  BY <1>1, <1>7, <1>8

\* The server fails or closes.
LEMMA ServerGoesOk == SessionOk(h) /\ Session!ServerGoes => SessionOk(h')
<1> SUFFICES ASSUME SessionOk(h), Session!ServerGoes
             PROVE  SessionOk(h')
  OBVIOUS
<1> PICK x : x = [h EXCEPT !.serverRecving = FALSE]
  OBVIOUS
<1>1. /\ h.status = "up" /\ ~h.due /\ h.serverRecving
  BY DEF Session!ServerGoes, Session!Idle, Session!Up
<1>2. h' = Session!ServerError(x) \/ h' \in Session!ServerClosed(x)
  BY Zenon DEF Session!ServerGoes
<1>3. HTTPData(h) /\ h = [f \in Fields |-> h[f]] /\ DOMAIN h = Fields
  BY DataFields DEF SessionOk
<1>4. /\ x = [f \in Fields |-> x[f]] /\ \A f \in Fields \ {"serverRecving"} : x[f] = h[f]
  BY <1>3
<1>5. ~x.serverRecving
  BY <1>3 DEF Fields
<1>6. x.writing = h.writing
  BY <1>4 DEF Fields
<1>7. \A f \in Fields \ {"serverRecving", "resp", "units", "writing"} : x[f] = h[f]
  BY <1>4
<1>8. Base(x) /\ Served(x) /\ x.serverState \in {"SERVER_RESPONSE", "BODY", "TUNNELING"}
  BY ONLY SessionOk(h), <1>1, <1>4, <1>5, <1>6, <1>7, ServedIs
<1>9. QED
  BY <1>2, <1>8, ServerErrorOk, ServerClosedOk

\* An object that another client receives ends.
LEMMA OtherEndsOk == SessionOk(h) /\ Session!OtherEnds => SessionOk(h')
<1> SUFFICES ASSUME SessionOk(h), Session!OtherEnds
             PROVE  SessionOk(h')
  OBVIOUS
<1>1. /\ h.status = "up" /\ ~h.due /\ h.cached = "joined"
      /\ h' = Session!ObjectEnds(h) \/ h' = Session!ObjectFails(h)
  BY DEF Session!OtherEnds, Session!Idle, Session!Up
<1>2. Reading(h)
  BY <1>1 DEF SessionOk, Running, InMode, Ended, Crashed, Asking, LookingUp, Connecting,
     Receiving, Reading, Leaving, Alone, Tunneling
<1>3. Base(h)
  BY <1>1, <1>2 DEF SessionOk, Base, Held, Reading
<1>4. SessionOk(Session!ObjectFails(h))
  BY <1>2, <1>3, ObjectFailsOk DEF Reading
<1>5. SessionOk(Session!ObjectEnds(h))
  <2> PICK y : y = [h EXCEPT !.cached = "done"]
    OBVIOUS
  <2>1. h = [f \in Fields |-> h[f]] /\ DOMAIN h = Fields
    BY <1>3, DataFields DEF Base, Held
  <2>2. /\ y.state = h.state /\ y.client = h.client /\ y.serverRecving = h.serverRecving
        /\ y.head = h.head /\ y.asked = h.asked /\ y.answered = h.answered
        /\ y.causes = h.causes /\ y.writing = h.writing
        /\ y.status = h.status /\ y.due = h.due /\ y.lookup = h.lookup
        /\ y.cached = "done"
    BY <2>1, ZenonT(60) DEF Fields
  <2>3. y = [f \in Fields |-> y[f]]
    BY <2>1
  <2>4. Base(y)
    BY <1>3, <2>2, <2>3 DEF Base, Held, HTTPData, Counted, Complete, Stray
  <2>5. Done(y)
    BY <1>2, <2>2 DEF Reading, Done, Answered, Stray
  <2>6. Session!ObjectEnds(h) = Session!ResetConnection(y)
    BY DEF Session!ObjectEnds
  <2>7. QED
    BY <2>4, <2>5, <2>6, ResetOk
<1>6. QED
  BY <1>1, <1>4, <1>5

\* Accept().
LEMMA SessionInit == Session!Init => SessionOk(h)
<1> SUFFICES ASSUME Session!Init
             PROVE  SessionOk(h)
  OBVIOUS
<1>1. PICK s \in Scripts :
        h = [script |-> s, inq |-> <<>>, eof |-> FALSE,
             client |-> TRUE, recving |-> TRUE, writing |-> FALSE,
             server |-> FALSE, serverRecving |-> FALSE,
             state |-> "REQUEST", serverState |-> "REQUEST",
             lookup |-> FALSE, cached |-> "none",
             method |-> "NONE", keep |-> FALSE, head |-> FALSE,
             rest |-> <<>>, resp |-> Session!NoResponse, units |-> 0,
             due |-> FALSE, status |-> "up", causes |-> {},
             asked |-> 0, answered |-> 0]
  BY DEF Session!Init
<1>2. /\ h.client /\ ~h.server /\ ~h.serverRecving /\ h.state = "REQUEST"
      /\ h.serverState = "REQUEST" /\ ~h.lookup /\ h.cached = "none" /\ ~h.head /\ ~h.due
      /\ h.status = "up" /\ h.causes = {} /\ h.asked = 0 /\ h.answered = 0
  BY <1>1
<1>3. h = [f \in Fields |-> h[f]]
  BY <1>1 DEF Fields
<1>4. HTTPData(h) /\ Counted(h) /\ Complete(h) /\ Asking(h)
  BY <1>2, <1>3 DEF HTTPData, Counted, Complete, Stray, Asking, Answered
<1>5. QED
  BY <1>2, <1>4 DEF SessionOk, Running, InMode

\* Each event leaves a client as it should be.
LEMMA SessionStep == SessionOk(h) /\ [Session!Next]_h => SessionOk(h')
<1> SUFFICES ASSUME SessionOk(h), [Session!Next]_h
             PROVE  SessionOk(h')
  OBVIOUS
<1>1. CASE UNCHANGED h
  BY <1>1
<1>2. CASE Session!Next
  BY <1>2, ClientSendsOk, ClientReadOk, ClientEofOk, ClientFailsOk, WrittenOk, PipelinedOk,
     AnsweredOk, ServerConnectedOk, ServerRespondsOk, ServerSendsOk, ServerGoesOk, OtherEndsOk
     DEF Session!Next
<1>3. QED
  BY <1>1, <1>2

\* What that says of a client.
LEMMA SessionSound ==
  ASSUME SessionOk(h)
  PROVE  Session!SessionSafe /\ Session!OneAnswerEach
<1>1. /\ h.status = "crashed" => h.causes \cap {"early_close", "unasked_304"} # {}
      /\ h.lookup <=> Session!Up(h) /\ h.state = "RESOLVING"
      /\ "abandoned" \in h.causes => "not_cacheable" \in h.causes
  BY DEF SessionOk, Running, Ended, Crashed, Session!Up, Complete
<1>2. h.status = "freed" <=> ~h.client /\ ~h.server
  BY DEF SessionOk, Running, Ended, Crashed, InMode, Asking, LookingUp, Connecting,
     Receiving, Reading, Leaving, Alone, Tunneling
<1>3. Session!Up(h) /\ ~h.client => h.serverState = "BODY"
  BY DEF SessionOk, Running, Ended, Crashed, InMode, Asking, LookingUp, Connecting,
     Receiving, Reading, Leaving, Alone, Tunneling, Session!Up
<1>4. Session!SessionSafe
  BY <1>1, <1>2, <1>3 DEF Session!SessionSafe
<1>5. Session!Idle /\ h.state = "REQUEST" => h.answered = h.asked
  BY DEF SessionOk, Running, Ended, Crashed, InMode, Asking, LookingUp, Connecting,
     Receiving, Reading, Leaving, Alone, Tunneling, Session!Up, Session!Idle, Answered
<1>6. h.answered <= h.asked + (IF "not_a_request" \in h.causes THEN 1 ELSE 0)
  BY DEF SessionOk, Counted, Stray
<1>7. QED
  BY <1>4, <1>5, <1>6 DEF Session!OneAnswerEach

SessionInv == part = "session" => SessionOk(h)

\* Whatever a client and its server do.
LEMMA SessionsAreSound == ClientsSpec => []SessionInv
<1>1. ClientsInit => SessionInv
  BY SessionInit DEF ClientsInit, SessionInv
<1>2. SessionInv /\ [ClientsNext]_<<part, clientVars>> => SessionInv'
  BY SessionStep DEF SessionInv, ClientsNext, clientVars
<1>3. QED
  BY <1>1, <1>2, PTL DEF ClientsSpec

\* What belongs to a client is freed once, after its last use.
THEOREM ClientsAreFreedOnce == ClientsSpec => []SessionSafe
<1>1. SessionInv => SessionSafe
  BY SessionSound DEF SessionInv, SessionSafe
<1>2. QED
  BY <1>1, SessionsAreSound, PTL

\* A client that waits has been answered once for each request it has sent.
THEOREM EachRequestIsAnsweredOnce ==
    ClientsSpec => [](part = "session" => Session!OneAnswerEach)
<1>1. SessionInv => (part = "session" => Session!OneAnswerEach)
  BY SessionSound DEF SessionInv
<1>2. QED
  BY <1>1, SessionsAreSound, PTL

-----------------------------------------------------------------------------
(* The connections that are kept *)

Slots  == Pool!Slots
Places == {"unopened", "used", "kept", "deleted"}
Conns  == [known : BOOLEAN, slot : [Slots -> Socks \cup {NoSock}],
           busy : [Slots -> BOOLEAN], count : Nat]
Pools  == [c : Conns, w : [Socks -> Places]]

\* A Connection counts the sockets it has, each in one slot, and is there if it has any.
Full(slot) == {i \in Slots : slot[i] # NoSock}
Once(slot) == \A i, j \in Slots : slot[i] = slot[j] /\ slot[i] # NoSock => i = j
SlotsOk(known, slot, count) ==
  /\ count = Cardinality(Full(slot)) /\ Once(slot)
  /\ known => count > 0
  /\ ~known => Full(slot) = {}

\* A socket is in a slot if it is kept, and only if the one that holds it may use it.
Placed(slot, busy, w, s) ==
  /\ w[s] = "kept" => \E i \in Slots : slot[i] = s
  /\ \A i \in Slots : slot[i] = s => w[s] = IF busy[i] THEN "used" ELSE "kept"

PoolBut(x, S) ==
  /\ x \in Pools /\ SlotsOk(x.c.known, x.c.slot, x.c.count)
  /\ \A s \in Socks \ S : Placed(x.c.slot, x.c.busy, x.w, s)
PoolOk(x) == PoolBut(x, {})

\* What the constants are.
LEMMA PoolConstants ==
  MaxConns \in Nat /\ MaxConns # 0 /\ NoSock \notin Socks /\ Slots = 1..MaxConns
BY HttpClientsAssumption DEF Pool!ConnectionMgrAssumption, Slots, Pool!Slots

\* The slots that have a socket can be counted.
LEMMA FullFinite ==
  ASSUME NEW slot
  PROVE  IsFiniteSet(Full(slot)) /\ Cardinality(Full(slot)) \in Nat
<1>1. IsFiniteSet(1..MaxConns)
  BY PoolConstants, FS_Interval
<1>2. Full(slot) \subseteq 1..MaxConns
  BY PoolConstants DEF Full
<1>3. QED
  BY <1>1, <1>2, FS_Subset, FS_CardinalityType

\* The parts of a pool.
LEMMA PoolParts ==
  ASSUME NEW x \in Pools
  PROVE  /\ x.c \in Conns /\ x.w \in [Socks -> Places]
         /\ x.c.known \in BOOLEAN /\ x.c.slot \in [Slots -> Socks \cup {NoSock}]
         /\ x.c.busy \in [Slots -> BOOLEAN] /\ x.c.count \in Nat
<1>1. x.c \in Conns /\ x.w \in [Socks -> Places]
  BY DEF Pools
<1>2. QED
  BY <1>1 DEF Conns

\* A pool by its parts.
With(known, slot, busy, count, w) ==
  [c |-> [known |-> known, slot |-> slot, busy |-> busy, count |-> count], w |-> w]

\* Two pools with the same parts are the same.
LEMMA PoolEqual ==
  ASSUME NEW x \in Pools
  PROVE  x = With(x.c.known, x.c.slot, x.c.busy, x.c.count, x.w)
<1>1. x = [c |-> x.c, w |-> x.w]
  BY DEF Pools
<1>2. x.c = [known |-> x.c.known, slot |-> x.c.slot, busy |-> x.c.busy, count |-> x.c.count]
  BY DEF Pools, Conns
<1>3. QED
  BY <1>1, <1>2 DEF With

\* The parts of x are these.
PartsAre(x, known, slot, busy, count, w) ==
  /\ x.c.known = known /\ x.c.slot = slot /\ x.c.busy = busy /\ x.c.count = count
  /\ x.w = w

\* A pool that is put together.
LEMMA WithIs ==
  ASSUME NEW known \in BOOLEAN, NEW slot \in [Slots -> Socks \cup {NoSock}],
         NEW busy \in [Slots -> BOOLEAN], NEW count \in Nat,
         NEW w \in [Socks -> Places],
         NEW x, x = With(known, slot, busy, count, w)
  PROVE  x \in Pools /\ PartsAre(x, known, slot, busy, count, w)
BY DEF With, Pools, Conns, PartsAre

\* A set of numbers has its minimum.
LEMMA Least ==
  ASSUME NEW T, T \subseteq Nat, T # {}
  PROVE  \E n \in T : \A m \in T : n <= m
<1>1. PICK R : R = OpToRel(<, Nat)
  OBVIOUS
<1>2. IsWellFoundedOn(R, Nat)
  BY <1>1, NatLessThanWellFounded
<1>3. PICK n \in T : \A m \in T : ~ (<<m, n>> \in R)
  BY <1>2, WFMin
<1>4. \A j, k \in Nat : j < k => <<j, k>> \in R
  BY <1>1 DEF OpToRel
<1>5. ASSUME NEW m \in T
      PROVE  n <= m
  <2>1. ~(m < n)
    BY <1>3, <1>4
  <2>2. QED
    BY <2>1
<1>6. QED
  BY <1>5

\* The slot that is found is one of those that were looked for.
LEMMA MinIn ==
  ASSUME NEW T, T \subseteq Slots, T # {}
  PROVE  Pool!Min(T) \in T
<1>1. T \subseteq Nat
  BY PoolConstants
<1>2. \E x \in T : \A y \in T : x =< y
  BY <1>1, Least
<1>3. QED
  BY <1>2 DEF Pool!Min

\* A set of natural numbers that has 0, and with a number the next one, has all.
LEMMA Every ==
  ASSUME NEW T, 0 \in T, \A n \in Nat : n \in T => n + 1 \in T
  PROVE  Nat \subseteq T
<1>1. SUFFICES ASSUME Nat \ T # {}
               PROVE  FALSE
  OBVIOUS
<1>2. PICK n \in Nat \ T : \A m \in Nat \ T : n <= m
  BY <1>1, Least
<1>3. n - 1 \in Nat
  BY <1>2
<1>4. n - 1 \notin T
  BY <1>2, <1>3
<1>5. QED
  BY <1>2, <1>3, <1>4

\* A socket is put into a slot that is empty.
LEMMA PutSlots ==
  ASSUME NEW slot \in [Slots -> Socks \cup {NoSock}], NEW count, NEW known, SlotsOk(known, slot, count),
         NEW s \in Socks, \A i \in Slots : slot[i] # s, NEW i \in Slots, slot[i] = NoSock,
         NEW put, put = [slot EXCEPT ![i] = s]
  PROVE  SlotsOk(TRUE, put, count + 1) /\ put \in [Slots -> Socks \cup {NoSock}]
<1>1. s # NoSock
  BY PoolConstants
<1>2. put[i] = s /\ \A j \in Slots \ {i} : put[j] = slot[j]
  OBVIOUS
<1>3. Full(put) = Full(slot) \cup {i} /\ i \notin Full(slot)
  BY <1>1, <1>2 DEF Full
<1>4. Cardinality(Full(put)) = Cardinality(Full(slot)) + 1
  BY <1>3, FullFinite, FS_AddElement
<1>5. count + 1 = Cardinality(Full(put)) /\ count + 1 > 0
  BY <1>4, FullFinite DEF SlotsOk
<1>6. Once(put)
  <2> SUFFICES ASSUME NEW j \in Slots, NEW k \in Slots, put[j] = put[k], put[j] # NoSock
               PROVE  j = k
    BY DEF Once
  <2>1. CASE j = i \/ k = i
    BY <1>2, <2>1
  <2>2. CASE j # i /\ k # i
    BY <1>2, <2>2 DEF SlotsOk, Once
  <2>3. QED
    BY <2>1, <2>2
<1>7. put \in [Slots -> Socks \cup {NoSock}]
  OBVIOUS
<1>8. QED
  BY <1>5, <1>6, <1>7 DEF SlotsOk

\* So it is where it is said to be, and the others are where they were.
LEMMA PutPlaced ==
  ASSUME NEW slot \in [Slots -> Socks \cup {NoSock}], NEW busy, NEW w \in [Socks -> Places],
         \A r \in Socks : Placed(slot, busy, w, r),
         NEW s \in Socks, \A i \in Slots : slot[i] # s, NEW i \in Slots, slot[i] = NoSock,
         NEW free, ~free[i], \A j \in Slots \ {i} : slot[j] # NoSock => free[j] = busy[j],
         NEW put, put = [slot EXCEPT ![i] = s], NEW to, to = [w EXCEPT ![s] = "kept"],
         NEW r \in Socks
  PROVE  Placed(put, free, to, r)
<1>1. put[i] = s /\ \A j \in Slots \ {i} : put[j] = slot[j]
  OBVIOUS
<1>2. to[s] = "kept" /\ (r # s => to[r] = w[r])
  OBVIOUS
<1>3. r # NoSock
  BY PoolConstants
<1>4. CASE r = s
  <2>1. \A j \in Slots : put[j] = r => j = i
    BY <1>1, <1>4
  <2>2. QED
    BY <1>1, <1>2, <1>4, <2>1 DEF Placed
<1>5. CASE r # s
  <2>1. \A j \in Slots : put[j] = r <=> slot[j] = r
    BY <1>1, <1>3, <1>5
  <2>2. \A j \in Slots : put[j] = r => free[j] = busy[j]
    BY <1>1, <1>3, <1>5, <2>1
  <2>3. QED
    BY <1>2, <1>5, <2>1, <2>2 DEF Placed
<1>6. QED
  BY <1>4, <1>5

\* A socket is taken out of its slot.
LEMMA CutSlots ==
  ASSUME NEW slot \in [Slots -> Socks \cup {NoSock}], NEW count, NEW known \in BOOLEAN,
         SlotsOk(known, slot, count), NEW s \in Socks, NEW i \in Slots, slot[i] = s,
         NEW cut, cut = [j \in Slots |-> IF slot[j] = s THEN NoSock ELSE slot[j]]
  PROVE  /\ cut \in [Slots -> Socks \cup {NoSock}] /\ known
         /\ count - 1 = Cardinality(Full(cut)) /\ count - 1 \in Nat /\ Once(cut)
         /\ \A j \in Slots : cut[j] # s
         /\ \A j \in Slots, r \in Socks \ {s} : cut[j] = r <=> slot[j] = r
<1>1. s # NoSock /\ NoSock \notin Socks
  BY PoolConstants
<1>2. \A j \in Slots \ {i} : slot[j] # s
  BY <1>1 DEF SlotsOk, Once
<1>3. cut[i] = NoSock /\ \A j \in Slots \ {i} : cut[j] = slot[j]
  BY <1>2
<1>4. Full(slot) = Full(cut) \cup {i} /\ i \notin Full(cut)
  BY <1>1, <1>3 DEF Full
<1>5. Cardinality(Full(slot)) = Cardinality(Full(cut)) + 1
  BY <1>4, FullFinite, FS_AddElement
<1>6. count - 1 = Cardinality(Full(cut)) /\ count - 1 \in Nat
  BY <1>5, FullFinite DEF SlotsOk
<1>7. Once(cut)
  <2>1. \A j \in Slots : cut[j] # NoSock => j # i /\ cut[j] = slot[j]
    BY <1>3
  <2>2. QED
    BY <2>1 DEF SlotsOk, Once
<1>8. cut \in [Slots -> Socks \cup {NoSock}]
  BY <1>1
<1>9. known
  BY <1>4 DEF SlotsOk
<1>10. /\ \A j \in Slots : cut[j] # s
       /\ \A j \in Slots, r \in Socks \ {s} : cut[j] = r <=> slot[j] = r
  BY <1>1, <1>2, <1>3
<1>11. QED
  BY <1>6, <1>7, <1>8, <1>9, <1>10

\* y is x without the socket s, but a server with no sockets may be known.
Without(x, y, s) ==
  /\ y \in Pools /\ y.w = x.w /\ y.c.known = x.c.known
  /\ y.c.count = Cardinality(Full(y.c.slot)) /\ Once(y.c.slot)
  /\ ~y.c.known => Full(y.c.slot) = {}
  /\ \A i \in Slots : y.c.slot[i] # s
  /\ \A r \in Socks \ {s} : Placed(y.c.slot, y.c.busy, y.w, r)

\* RemSocket() leaves the socket in no slot.
LEMMA RemSocketOk ==
  ASSUME NEW s \in Socks, NEW x, PoolBut(x, {s}), NEW y, y = Pool!RemSocket(x, s)
  PROVE  Without(x, y, s)
<1>1. /\ x \in Pools /\ SlotsOk(x.c.known, x.c.slot, x.c.count)
      /\ \A r \in Socks \ {s} : Placed(x.c.slot, x.c.busy, x.w, r)
  BY DEF PoolBut
<1>2. CASE \A i \in Slots : x.c.slot[i] # s
  <2>1. y = x
    BY <1>2 DEF Pool!RemSocket, Slots
  <2>2. QED
    BY <1>1, <1>2, <2>1 DEF SlotsOk, Without
<1>3. CASE \E i \in Slots : x.c.slot[i] = s
  <2>1. PICK i \in Slots : x.c.slot[i] = s
    BY <1>3
  <2>2. PICK cut : cut = [j \in Slots |-> IF x.c.slot[j] = s THEN NoSock ELSE x.c.slot[j]]
    OBVIOUS
  <2>3. /\ x.c \in Conns /\ x.w \in [Socks -> Places]
        /\ x.c.known \in BOOLEAN /\ x.c.slot \in [Slots -> Socks \cup {NoSock}]
        /\ x.c.busy \in [Slots -> BOOLEAN] /\ x.c.count \in Nat
    BY <1>1, PoolParts
  <2>4. /\ cut \in [Slots -> Socks \cup {NoSock}] /\ x.c.known
        /\ x.c.count - 1 = Cardinality(Full(cut)) /\ x.c.count - 1 \in Nat /\ Once(cut)
        /\ \A j \in Slots : cut[j] # s
        /\ \A j \in Slots, r \in Socks \ {s} : cut[j] = r <=> x.c.slot[j] = r
    BY <1>1, <2>1, <2>2, <2>3, CutSlots
  <2>5. y = [x EXCEPT !.c.slot = cut, !.c.count = x.c.count - 1]
    BY <1>3, <2>2 DEF Pool!RemSocket, Slots
  <2>6. y = With(x.c.known, cut, x.c.busy, x.c.count - 1, x.w)
    BY <1>1, <2>3, <2>5 DEF With, Pools, Conns
  <2>10. y \in Pools /\ PartsAre(y, x.c.known, cut, x.c.busy, x.c.count - 1, x.w)
    <3>1. PICK k : k = x.c.count - 1
      OBVIOUS
    <3>2. k \in Nat /\ y = With(x.c.known, cut, x.c.busy, k, x.w)
      BY <2>4, <2>6, <3>1
    <3>3. y \in Pools /\ PartsAre(y, x.c.known, cut, x.c.busy, k, x.w)
      BY ONLY <2>3, <2>4, <3>2, WithIs
    <3>4. QED
      BY <3>1, <3>3
  <2>7. /\ y \in Pools /\ y.c.known = x.c.known /\ y.c.slot = cut /\ y.c.busy = x.c.busy
        /\ y.c.count = x.c.count - 1 /\ y.w = x.w
    BY <2>10 DEF PartsAre
  <2>8. \A r \in Socks \ {s} : Placed(y.c.slot, y.c.busy, y.w, r)
    BY <1>1, <2>4, <2>7 DEF Placed
  <2>9. QED
    BY <2>4, <2>7, <2>8 DEF Without
<1>4. QED
  BY <1>2, <1>3

\* A Connection with no slots in use.
LEMMA NoConnectionIs ==
  /\ Pool!NoConnection \in Conns /\ Pool!NoConnection.known = FALSE
  /\ Pool!NoConnection.count = 0
  /\ \A i \in Slots : Pool!NoConnection.slot[i] = NoSock /\ Pool!NoConnection.busy[i] = FALSE
  /\ SlotsOk(FALSE, Pool!NoConnection.slot, 0)
<1>1. /\ Pool!NoConnection \in Conns /\ Pool!NoConnection.known = FALSE
      /\ Pool!NoConnection.count = 0
      /\ \A i \in Slots : Pool!NoConnection.slot[i] = NoSock /\ Pool!NoConnection.busy[i] = FALSE
  BY DEF Pool!NoConnection, Conns, Slots
<1>2. Full(Pool!NoConnection.slot) = {}
  BY <1>1 DEF Full
<1>3. Cardinality(Full(Pool!NoConnection.slot)) = 0
  BY <1>2, FS_EmptySet
<1>4. QED
  BY <1>1, <1>2, <1>3 DEF SlotsOk, Once

\* RemoveConnection() forgets the server if that was the last socket.
LEMMA RemoveOk ==
  ASSUME NEW s \in Socks, NEW x, PoolBut(x, {s}), NEW z, z = Pool!RemoveConnection(x, s)
  PROVE  /\ PoolBut(z, {s}) /\ z.w = x.w
         /\ \A i \in Slots : z.c.slot[i] # s
<1>1. PICK y : y = Pool!RemSocket(x, s)
  OBVIOUS
<1>2. /\ y \in Pools /\ y.w = x.w /\ y.c.known = x.c.known
      /\ y.c.count = Cardinality(Full(y.c.slot)) /\ Once(y.c.slot)
      /\ ~y.c.known => Full(y.c.slot) = {}
      /\ \A i \in Slots : y.c.slot[i] # s
      /\ \A r \in Socks \ {s} : Placed(y.c.slot, y.c.busy, y.w, r)
  <2>1. Without(x, y, s)
    BY <1>1, RemSocketOk
  <2>2. QED
    BY <2>1 DEF Without
<1>3. /\ y.c \in Conns /\ y.w \in [Socks -> Places] /\ y.c.known \in BOOLEAN
      /\ y.c.count \in Nat
  BY <1>2, PoolParts
<1>4. s # NoSock
  BY PoolConstants
<1>5. CASE x.c.known /\ y.c.count = 0
  <2>1. z = [y EXCEPT !.c = Pool!NoConnection]
    BY <1>1, <1>5 DEF Pool!RemoveConnection
  <2>2. z.c = Pool!NoConnection /\ z.w = y.w /\ z \in Pools
    BY <1>2, <2>1, NoConnectionIs DEF Pools
  <2>3. Full(y.c.slot) = {}
    BY <1>2, <1>5, FullFinite, FS_EmptySet
  <2>4. \A r \in Socks \ {s} : Placed(z.c.slot, z.c.busy, z.w, r)
    <3> SUFFICES ASSUME NEW r \in Socks \ {s}
                 PROVE  Placed(z.c.slot, z.c.busy, z.w, r)
      OBVIOUS
    <3>1. r # NoSock
      BY PoolConstants
    <3>2. \A i \in Slots : y.c.slot[i] # r
      BY <2>3, <3>1 DEF Full
    <3>3. z.w[r] # "kept"
      BY <1>2, <2>2, <3>2 DEF Placed
    <3>4. \A i \in Slots : z.c.slot[i] # r
      BY <2>2, <3>1, NoConnectionIs
    <3>5. QED
      BY <3>3, <3>4 DEF Placed
  <2>5. QED
    BY <1>2, <1>4, <2>2, <2>4, NoConnectionIs DEF PoolBut
<1>6. CASE ~(x.c.known /\ y.c.count = 0)
  <2>1. z = y
    BY <1>1, <1>6 DEF Pool!RemoveConnection
  <2>2. QED
    BY <1>2, <1>3, <1>6, <2>1 DEF PoolBut, SlotsOk
<1>7. QED
  BY <1>5, <1>6

\* Where s is, is changed.
Moved(x, s, p) == [x EXCEPT !.w[s] = p]

\* A socket in no slot can be anywhere but where those are that are kept.
LEMMA PoolMoved ==
  ASSUME NEW s \in Socks, NEW x, PoolBut(x, {s}), \A i \in Slots : x.c.slot[i] # s,
         NEW p \in Places, p # "kept", NEW y, y = Moved(x, s, p)
  PROVE  PoolOk(y) /\ y.c = x.c /\ y.w = [x.w EXCEPT ![s] = p]
<1>1. /\ x \in Pools /\ SlotsOk(x.c.known, x.c.slot, x.c.count)
      /\ \A r \in Socks \ {s} : Placed(x.c.slot, x.c.busy, x.w, r)
  BY DEF PoolBut
<1>2. y.c = x.c /\ y.w = [x.w EXCEPT ![s] = p] /\ y \in Pools
  BY <1>1 DEF Pools, Moved
<1>3. y.w[s] = p /\ \A r \in Socks \ {s} : y.w[r] = x.w[r]
  BY <1>1, <1>2, PoolParts
<1>4. Placed(y.c.slot, y.c.busy, y.w, s)
  BY <1>2, <1>3 DEF Placed
<1>5. \A r \in Socks \ {s} : Placed(y.c.slot, y.c.busy, y.w, r)
  BY <1>1, <1>2, <1>3 DEF Placed
<1>6. QED
  BY <1>1, <1>2, <1>4, <1>5 DEF PoolOk, PoolBut

\* A connection that is dropped is deleted, and in no slot.
LEMMA DropOk ==
  ASSUME NEW s \in Socks, NEW x, PoolBut(x, {s}), NEW z, z = Pool!Drop(x, s)
  PROVE  PoolOk(z) /\ z.w = [x.w EXCEPT ![s] = "deleted"]
<1>1. PICK y : y = Pool!RemoveConnection(x, s)
  OBVIOUS
<1>2. /\ PoolBut(y, {s}) /\ y.w = x.w
      /\ \A i \in Slots : y.c.slot[i] # s
  BY <1>1, RemoveOk
<1>3. z = [y EXCEPT !.w[s] = "deleted"]
  BY <1>1 DEF Pool!Drop
<1>4. PICK p \in Places : p = "deleted"
  BY DEF Places
<1>5. p # "kept" /\ z = Moved(y, s, p)
  BY <1>3, <1>4 DEF Moved
<1>6. PoolOk(z) /\ z.w = [y.w EXCEPT ![s] = p]
  BY <1>2, <1>5, PoolMoved
<1>7. QED
  BY <1>2, <1>4, <1>6

\* What PoolOk() says of x.
LEMMA OkParts ==
  ASSUME NEW x, PoolOk(x)
  PROVE  /\ x \in Pools /\ SlotsOk(x.c.known, x.c.slot, x.c.count)
         /\ \A r \in Socks : Placed(x.c.slot, x.c.busy, x.w, r)
         /\ \A S \in SUBSET Socks : PoolBut(x, S)
BY DEF PoolOk, PoolBut

\* A pool whose parts are right.
LEMMA PartsOk ==
  ASSUME NEW known, NEW slot, NEW busy, NEW count, NEW w, NEW x \in Pools,
         PartsAre(x, known, slot, busy, count, w), SlotsOk(known, slot, count), NEW S,
         \A r \in Socks \ S : Placed(slot, busy, w, r)
  PROVE  PoolBut(x, S)
BY DEF PoolBut, PartsAre

\* The socket s is put into slot i.
PutIn(x, s, i) ==
  [x EXCEPT !.c.slot[i] = s, !.c.busy[i] = FALSE, !.c.count = x.c.count + 1, !.w[s] = "kept"]

\* A socket is put into a slot of a Connection.
LEMMA PutInOk ==
  ASSUME NEW x, PoolOk(x), x.c.known, NEW s \in Socks, \A j \in Slots : x.c.slot[j] # s,
         NEW i \in Slots, x.c.slot[i] = NoSock, NEW y, y = PutIn(x, s, i)
  PROVE  PoolOk(y)
<1>1. /\ x \in Pools /\ SlotsOk(x.c.known, x.c.slot, x.c.count)
      /\ \A r \in Socks : Placed(x.c.slot, x.c.busy, x.w, r)
  BY OkParts
<1>2. /\ x.c \in Conns /\ x.w \in [Socks -> Places]
      /\ x.c.known \in BOOLEAN /\ x.c.slot \in [Slots -> Socks \cup {NoSock}]
      /\ x.c.busy \in [Slots -> BOOLEAN] /\ x.c.count \in Nat
  BY <1>1, PoolParts
<1>3. PICK put : put = [x.c.slot EXCEPT ![i] = s]
  OBVIOUS
<1>4. PICK free : free = [x.c.busy EXCEPT ![i] = FALSE]
  OBVIOUS
<1>5. PICK to : to = [x.w EXCEPT ![s] = "kept"]
  OBVIOUS
<1>6. PICK k \in Nat : k = x.c.count + 1
  BY <1>2
<1>7. y = With(TRUE, put, free, k, to)
  <2>1. x.c = [known |-> TRUE, slot |-> x.c.slot, busy |-> x.c.busy, count |-> x.c.count]
    BY <1>2 DEF Conns
  <2>2. x = [c |-> x.c, w |-> x.w]
    BY <1>1 DEF Pools
  <2>3. QED
    BY <1>3, <1>4, <1>5, <1>6, <2>1, <2>2 DEF With, PutIn
<1>8. SlotsOk(TRUE, put, k) /\ put \in [Slots -> Socks \cup {NoSock}]
  <2>1. PICK slot : slot = x.c.slot
    OBVIOUS
  <2>2. PICK n : n = x.c.count
    OBVIOUS
  <2>3. SlotsOk(TRUE, put, n + 1) /\ put \in [Slots -> Socks \cup {NoSock}]
    <3>1. slot \in [Slots -> Socks \cup {NoSock}] /\ SlotsOk(x.c.known, slot, n)
      BY <1>1, <1>2, <2>1, <2>2
    <3>2. (\A j \in Slots : slot[j] # s) /\ slot[i] = NoSock /\ put = [slot EXCEPT ![i] = s]
      BY <1>3, <2>1
    <3>3. QED
      BY ONLY <3>1, <3>2, PutSlots, s \in Socks, i \in Slots
  <2>4. QED
    BY <1>6, <2>2, <2>3
<1>9. free \in [Slots -> BOOLEAN] /\ ~free[i] /\ \A j \in Slots \ {i} : free[j] = x.c.busy[j]
  BY <1>2, <1>4
<1>10. to \in [Socks -> Places]
  BY <1>2, <1>5 DEF Places
<1>11. \A r \in Socks : Placed(put, free, to, r)
  <2>1. PICK slot, busy, w : slot = x.c.slot /\ busy = x.c.busy /\ w = x.w
    OBVIOUS
  <2>2. /\ slot \in [Slots -> Socks \cup {NoSock}] /\ w \in [Socks -> Places]
        /\ \A r \in Socks : Placed(slot, busy, w, r)
    BY <1>1, <1>2, <2>1
  <2>3. /\ \A j \in Slots : slot[j] # s
        /\ slot[i] = NoSock /\ put = [slot EXCEPT ![i] = s] /\ to = [w EXCEPT ![s] = "kept"]
        /\ ~free[i] /\ \A j \in Slots \ {i} : slot[j] # NoSock => free[j] = busy[j]
    BY <1>3, <1>5, <1>9, <2>1
  <2>4. QED
    BY ONLY <2>2, <2>3, PutPlaced, s \in Socks, i \in Slots
<1>12. y \in Pools /\ PartsAre(y, TRUE, put, free, k, to)
  BY ONLY <1>7, <1>8, <1>9, <1>10, WithIs, k \in Nat
<1>13. PoolBut(y, {})
  BY ONLY <1>8, <1>11, <1>12, PartsOk
<1>14. QED
  BY <1>13 DEF PoolOk

\* AddSocket() puts the socket into an empty slot, or deletes it.
LEMMA AddSocketOk ==
  ASSUME NEW x, PoolOk(x), x.c.known, NEW s \in Socks, \A j \in Slots : x.c.slot[j] # s,
         NEW y, y = Pool!AddSocket(x, s)
  PROVE  PoolOk(y)
<1>1. PICK empty : empty = {i \in Slots : x.c.slot[i] = NoSock}
  OBVIOUS
<1>2. CASE empty = {}
  <2>1. PICK p \in Places : p = "deleted"
    BY DEF Places
  <2>2. y = Moved(x, s, p) /\ p # "kept"
    BY <1>1, <1>2, <2>1 DEF Pool!AddSocket, Moved, Slots
  <2>3. PoolBut(x, {s})
    BY OkParts
  <2>4. QED
    BY <2>2, <2>3, PoolMoved, ZenonT(60)
<1>3. CASE empty # {}
  <2>1. PICK i : i = Pool!Min(empty)
    OBVIOUS
  <2>2. i \in empty
    BY <1>1, <1>3, <2>1, MinIn
  <2>3. i \in Slots /\ x.c.slot[i] = NoSock
    BY <1>1, <2>2
  <2>4. y = PutIn(x, s, i)
    BY <1>1, <1>3, <2>1 DEF Pool!AddSocket, PutIn, Slots
  <2>5. QED
    BY <2>3, <2>4, PutInOk
<1>4. QED
  BY <1>2, <1>3

\* The first slot.
LEMMA SlotOne == 1 \in Slots
BY PoolConstants

\* AddConnection() makes a Connection for a server that has none.
LEMMA AddConnectionOk ==
  ASSUME NEW x, PoolOk(x), NEW s \in Socks, \A j \in Slots : x.c.slot[j] # s,
         NEW y, y = Pool!AddConnection(x, s)
  PROVE  PoolOk(y)
<1>1. /\ x \in Pools /\ SlotsOk(x.c.known, x.c.slot, x.c.count)
      /\ \A r \in Socks : Placed(x.c.slot, x.c.busy, x.w, r)
  BY OkParts
<1>2. x.w \in [Socks -> Places] /\ x.c.known \in BOOLEAN
  BY <1>1, PoolParts
<1>3. CASE x.c.known
  <2>1. y = Pool!AddSocket(x, s)
    BY <1>3 DEF Pool!AddConnection
  <2>2. QED
    BY <1>3, <2>1, AddSocketOk
<1>4. CASE ~x.c.known
  <2>1. PICK z : z = [c |-> [Pool!NoConnection EXCEPT !.known = TRUE], w |-> x.w]
    OBVIOUS
  <2>2. /\ z \in Pools /\ z.c.slot = Pool!NoConnection.slot /\ z.c.count = 0
        /\ z.c.busy = Pool!NoConnection.busy /\ z.c.known = TRUE /\ z.w = x.w
    BY <1>2, <2>1, NoConnectionIs DEF Pools, Conns
  <2>3. \A r \in Socks, j \in Slots : x.c.slot[j] # r
    BY <1>1, <1>4, PoolConstants DEF SlotsOk, Full
  <2>4. \A r \in Socks : x.w[r] # "kept"
    BY <1>1, <2>3 DEF Placed
  <2>5. PICK put : put = [Pool!NoConnection.slot EXCEPT ![1] = s]
    OBVIOUS
  <2>6. PICK to : to = [x.w EXCEPT ![s] = "kept"]
    OBVIOUS
  <2>7. y = With(TRUE, put, Pool!NoConnection.busy, 1, to)
    <3>1. Pool!NoConnection = [known |-> FALSE, slot |-> Pool!NoConnection.slot,
                               busy |-> Pool!NoConnection.busy, count |-> 0]
      BY DEF Pool!NoConnection
    <3>2. y = [c |-> [Pool!NoConnection EXCEPT !.known = TRUE, !.slot[1] = s, !.count = 1],
               w |-> to]
      BY <1>4, <2>6 DEF Pool!AddConnection
    <3>3. PICK e, b : e = Pool!NoConnection.slot /\ b = Pool!NoConnection.busy
      OBVIOUS
    <3>4. PICK N : N = Pool!NoConnection
      OBVIOUS
    <3>7. PICK M : M = [N EXCEPT !.known = TRUE, !.slot[1] = s, !.count = 1]
      OBVIOUS
    <3>5. M = [known |-> TRUE, slot |-> [e EXCEPT ![1] = s], busy |-> b, count |-> 1]
      <4>1. N = [known |-> FALSE, slot |-> e, busy |-> b, count |-> 0]
        BY <3>1, <3>3, <3>4
      <4>2. QED
        BY ONLY <3>7, <4>1
    <3>6. QED
      BY <2>5, <3>2, <3>3, <3>4, <3>5, <3>7 DEF With
  <2>8. PICK b : b = Pool!NoConnection.busy
    OBVIOUS
  <2>9. PICK e : e = Pool!NoConnection.slot
    OBVIOUS
  <2>10. /\ e \in [Slots -> Socks \cup {NoSock}] /\ b \in [Slots -> BOOLEAN]
         /\ \A i \in Slots : e[i] = NoSock /\ b[i] = FALSE
         /\ SlotsOk(FALSE, e, 0)
    BY <2>8, <2>9, NoConnectionIs DEF Conns
  <2>11. SlotsOk(TRUE, put, 1) /\ put \in [Slots -> Socks \cup {NoSock}]
    <3>1. \A i \in Slots : e[i] # s
      BY <2>10, PoolConstants
    <3>2. e[1] = NoSock /\ put = [e EXCEPT ![1] = s]
      BY <2>5, <2>9, <2>10, SlotOne
    <3>3. PICK k : k = 0
      OBVIOUS
    <3>4. SlotsOk(TRUE, put, k + 1) /\ put \in [Slots -> Socks \cup {NoSock}]
      BY ONLY <2>10, <3>1, <3>2, <3>3, SlotOne, PutSlots, s \in Socks
    <3>5. k + 1 = 1
      BY <3>3
    <3>6. QED
      BY <3>4, <3>5
  <2>12. to \in [Socks -> Places] /\ to[s] = "kept" /\ \A r \in Socks \ {s} : to[r] = x.w[r]
    BY <1>2, <2>6 DEF Places
  <2>13. put[1] = s /\ \A i \in Slots \ {1} : put[i] = NoSock
    BY <2>5, <2>9, <2>10, SlotOne
  <2>14. \A r \in Socks : Placed(put, b, to, r)
    <3> SUFFICES ASSUME NEW r \in Socks
                 PROVE  Placed(put, b, to, r)
      OBVIOUS
    <3>1. r # NoSock
      BY PoolConstants
    <3>2. CASE r = s
      BY <2>10, <2>12, <2>13, <3>1, <3>2, SlotOne DEF Placed
    <3>3. CASE r # s
      BY <2>4, <2>12, <2>13, <3>1, <3>3 DEF Placed
    <3>4. QED
      BY <3>2, <3>3
  <2>15. SlotsOk(TRUE, put, 1)
    BY <2>11
  <2>16. y \in Pools /\ PartsAre(y, TRUE, put, b, 1, to)
    <3>1. PICK k \in Nat : k = 1
      OBVIOUS
    <3>2. y = With(TRUE, put, b, k, to)
      BY <2>7, <2>8, <3>1
    <3>3. y \in Pools /\ PartsAre(y, TRUE, put, b, k, to)
      BY ONLY <2>10, <2>11, <2>12, <3>2, WithIs, k \in Nat
    <3>4. QED
      BY <3>1, <3>3
  <2>17. PoolBut(y, {})
    <3>1. PICK k : k = 1
      OBVIOUS
    <3>2. SlotsOk(TRUE, put, k) /\ PartsAre(y, TRUE, put, b, k, to)
      BY <2>15, <2>16, <3>1
    <3>3. PICK S : S = {}
      OBVIOUS
    <3>4. \A r \in Socks \ S : Placed(put, b, to, r)
      BY <2>14
    <3>5. PoolBut(y, S)
      BY ONLY <2>16, <3>2, <3>4, PartsOk
    <3>6. QED
      BY <3>3, <3>5
  <2>18. QED
    BY <2>17 DEF PoolOk
<1>5. QED
  BY <1>3, <1>4

\* ReleaseConnection() keeps the connection, or deletes it.
LEMMA ReleaseOk ==
  ASSUME NEW x, PoolOk(x), NEW s \in Socks, NEW y, y = Pool!ReleaseConnection(x, s)
  PROVE  PoolOk(y)
<1>1. /\ x \in Pools /\ SlotsOk(x.c.known, x.c.slot, x.c.count)
      /\ \A r \in Socks : Placed(x.c.slot, x.c.busy, x.w, r)
  BY OkParts
<1>2. /\ x.c \in Conns /\ x.w \in [Socks -> Places]
      /\ x.c.known \in BOOLEAN /\ x.c.slot \in [Slots -> Socks \cup {NoSock}]
      /\ x.c.busy \in [Slots -> BOOLEAN] /\ x.c.count \in Nat
  BY <1>1, PoolParts
<1>3. CASE x.c.known /\ \E i \in Slots : x.c.slot[i] = s
  <2>1. PICK free : free = [i \in Slots |-> x.c.busy[i] /\ x.c.slot[i] # s]
    OBVIOUS
  <2>2. PICK to : to = [x.w EXCEPT ![s] = "kept"]
    OBVIOUS
  <2>3. y = [x EXCEPT !.c.busy = free, !.w[s] = "kept"]
    BY <1>3, <2>1 DEF Pool!ReleaseConnection, Slots
  <2>4. y = With(x.c.known, x.c.slot, free, x.c.count, to)
    <3>1. x.c = [known |-> x.c.known, slot |-> x.c.slot, busy |-> x.c.busy, count |-> x.c.count]
      BY <1>2 DEF Conns
    <3>2. x = [c |-> x.c, w |-> x.w]
      BY <1>1 DEF Pools
    <3>3. QED
      BY <2>2, <2>3, <3>1, <3>2 DEF With
  <2>5. free \in [Slots -> BOOLEAN] /\ to \in [Socks -> Places]
    BY <1>2, <2>1, <2>2 DEF Places
  <2>6. y \in Pools /\ PartsAre(y, x.c.known, x.c.slot, free, x.c.count, to)
    BY ONLY <1>2, <2>4, <2>5, WithIs
  <2>7. \A r \in Socks : Placed(x.c.slot, free, to, r)
    <3> SUFFICES ASSUME NEW r \in Socks
                 PROVE  Placed(x.c.slot, free, to, r)
      OBVIOUS
    <3>1. r # NoSock
      BY PoolConstants
    <3>2. CASE r = s
      <4>1. to[r] = "kept"
        BY <1>2, <2>2, <3>2
      <4>2. \A i \in Slots : x.c.slot[i] = r => ~free[i]
        BY <2>1, <3>2
      <4>3. QED
        BY <1>3, <3>2, <4>1, <4>2 DEF Placed
    <3>3. CASE r # s
      <4>1. to[r] = x.w[r]
        BY <1>2, <2>2, <3>3
      <4>2. \A i \in Slots : x.c.slot[i] = r => free[i] = x.c.busy[i]
        BY <1>2, <2>1, <3>3
      <4>3. QED
        BY <1>1, <4>1, <4>2 DEF Placed
    <3>4. QED
      BY <3>2, <3>3
  <2>8. PoolBut(y, {})
    BY ONLY <1>1, <2>6, <2>7, PartsOk
  <2>9. QED
    BY <2>8 DEF PoolOk
<1>4. CASE ~(x.c.known /\ \E i \in Slots : x.c.slot[i] = s)
  <2>1. y = Pool!AddConnection(x, s)
    BY <1>4 DEF Pool!ReleaseConnection, Slots
  <2>2. \A j \in Slots : x.c.slot[j] # s
    BY <1>1, <1>4, PoolConstants DEF SlotsOk, Full
  <2>3. QED
    BY <2>1, <2>2, AddConnectionOk
<1>5. QED
  BY <1>3, <1>4

\* A socket that was not opened in x was not in y.
Fresh(x, y) == \A r \in Socks : x.w[r] = "unopened" => y.w[r] = "unopened"

\* The slot that GetSocket() finds is not busy.
LEMMA FoundIn ==
  ASSUME NEW x, PoolOk(x), Pool!Finds(x)
  PROVE  \E i \in Slots : /\ ~x.c.busy[i] /\ Pool!Found(x) = x.c.slot[i]
                          /\ Pool!Taken(x) = [x EXCEPT !.c.busy[i] = TRUE]
<1>1. PICK idle : idle = Pool!Idle(x)
  OBVIOUS
<1>2. idle \subseteq Slots /\ idle # {} /\ \A i \in idle : ~x.c.busy[i]
  BY <1>1 DEF Pool!Finds, Pool!Idle, Slots
<1>3. PICK i \in idle : i = Pool!Min(idle)
  BY <1>2, MinIn
<1>4. QED
  BY <1>1, <1>2, <1>3 DEF Pool!Found, Pool!Taken

\* To take the slot of a socket moves no other.
LEMMA TakenOk ==
  ASSUME NEW x, PoolOk(x), Pool!Finds(x), NEW y, y = Pool!Taken(x), NEW s, s = Pool!Found(x)
  PROVE  /\ y.w = x.w
         /\ s = NoSock => PoolOk(y)
         /\ s # NoSock => s \in Socks /\ PoolBut(y, {s}) /\ x.w[s] = "kept"
         /\ s # NoSock => \E i \in Slots : y.c.slot[i] = s /\ y.c.busy[i]
<1>1. PICK i \in Slots : ~x.c.busy[i] /\ s = x.c.slot[i] /\ y = [x EXCEPT !.c.busy[i] = TRUE]
  BY FoundIn
<1>2. /\ x \in Pools /\ SlotsOk(x.c.known, x.c.slot, x.c.count)
      /\ \A r \in Socks : Placed(x.c.slot, x.c.busy, x.w, r)
  BY OkParts
<1>3. /\ x.c \in Conns /\ x.w \in [Socks -> Places]
      /\ x.c.known \in BOOLEAN /\ x.c.slot \in [Slots -> Socks \cup {NoSock}]
      /\ x.c.busy \in [Slots -> BOOLEAN] /\ x.c.count \in Nat
  BY <1>2, PoolParts
<1>4. PICK b : b = [x.c.busy EXCEPT ![i] = TRUE]
  OBVIOUS
<1>5. y = With(x.c.known, x.c.slot, b, x.c.count, x.w)
  <2>1. x.c = [known |-> x.c.known, slot |-> x.c.slot, busy |-> x.c.busy, count |-> x.c.count]
    BY <1>3 DEF Conns
  <2>2. x = [c |-> x.c, w |-> x.w]
    BY <1>2 DEF Pools
  <2>3. QED
    BY <1>1, <1>4, <2>1, <2>2 DEF With
<1>6. b \in [Slots -> BOOLEAN] /\ b[i] = TRUE /\ \A j \in Slots \ {i} : b[j] = x.c.busy[j]
  BY <1>3, <1>4
<1>7. y \in Pools /\ PartsAre(y, x.c.known, x.c.slot, b, x.c.count, x.w)
  BY ONLY <1>3, <1>5, <1>6, WithIs
<1>8. s = NoSock \/ s \in Socks
  BY <1>1, <1>3
<1>9. \A r \in Socks \ {s} : Placed(x.c.slot, b, x.w, r)
  <2> SUFFICES ASSUME NEW r \in Socks \ {s}
               PROVE  Placed(x.c.slot, b, x.w, r)
    OBVIOUS
  <2>1. \A j \in Slots : x.c.slot[j] = r => j # i
    BY <1>1
  <2>2. QED
    BY <1>2, <1>6, <2>1 DEF Placed
<1>10. PoolBut(y, {s})
  BY ONLY <1>2, <1>7, <1>9, PartsOk
<1>11. y.w = x.w /\ y.c.slot = x.c.slot /\ y.c.busy = b
  BY <1>7 DEF PartsAre
<1>12. s = NoSock => PoolOk(y)
  BY <1>10, PoolConstants DEF PoolOk, PoolBut
<1>13. s # NoSock => x.w[s] = "kept"
  BY <1>1, <1>2, <1>8 DEF Placed
<1>14. \E j \in Slots : y.c.slot[j] = s /\ y.c.busy[j]
  BY <1>1, <1>6, <1>11
<1>15. QED
  BY <1>8, <1>10, <1>11, <1>12, <1>13, <1>14

\* One turn of FindConnection(), for a socket that is closed.
Turn(x) == IF Pool!Closed(x) THEN Pool!Drop(Pool!Taken(x), Pool!Found(x)) ELSE x

\* It leaves the pool in order.
LEMMA TurnOk ==
  ASSUME NEW x, PoolOk(x)
  PROVE  PoolOk(Turn(x)) /\ Fresh(x, Turn(x))
<1>1. CASE ~Pool!Closed(x)
  BY <1>1 DEF Turn, Fresh
<1>2. CASE Pool!Closed(x)
  <2>1. PICK y : y = Pool!Taken(x)
    OBVIOUS
  <2>2. PICK s : s = Pool!Found(x)
    OBVIOUS
  <2>3. PICK z : z = Pool!Drop(y, s)
    OBVIOUS
  <2>4. Pool!Finds(x) /\ s # NoSock /\ Turn(x) = z
    BY <1>2, <2>1, <2>2, <2>3 DEF Pool!Closed, Turn
  <2>5. y.w = x.w /\ s \in Socks /\ PoolBut(y, {s}) /\ x.w[s] = "kept"
    BY <2>1, <2>2, <2>4, TakenOk
  <2>6. PoolOk(z) /\ z.w = [y.w EXCEPT ![s] = "deleted"]
    BY <2>3, <2>5, DropOk
  <2>7. x.w \in [Socks -> Places]
    BY PoolParts, OkParts
  <2>8. Fresh(x, z)
    BY <2>5, <2>6, <2>7 DEF Fresh
  <2>9. QED
    BY <2>4, <2>6, <2>8
<1>3. QED
  BY <1>1, <1>2

TurnsUpTo(x, g, m) == g = [n \in 0..m |-> IF n = 0 THEN x ELSE Turn(g[n - 1])]

\* The function that FindConnection() is defined by.
LEMMA TurnsExist ==
  ASSUME NEW x
  PROVE  \A m \in Nat : \E g : TurnsUpTo(x, g, m)
<1> DEFINE T == {m \in Nat : \E g : TurnsUpTo(x, g, m)}
<1>1. 0 \in T
  <2>1. PICK g : g = [n \in 0..0 |-> x]
    OBVIOUS
  <2>2. TurnsUpTo(x, g, 0)
    BY <2>1 DEF TurnsUpTo
  <2>3. QED
    BY <2>2
<1>2. ASSUME NEW m \in Nat, m \in T
      PROVE  m + 1 \in T
  <2>1. PICK g : TurnsUpTo(x, g, m)
    BY <1>2
  <2>2. PICK f : f = [n \in 0..(m + 1) |-> IF n = 0 THEN x ELSE Turn(g[n - 1])]
    OBVIOUS
  <2>3. \A n \in 0..m : f[n] = g[n]
    BY <2>1, <2>2 DEF TurnsUpTo
  <2>4. TurnsUpTo(x, f, m + 1)
    <3>1. \A n \in 0..(m + 1) : n # 0 => n - 1 \in 0..m
      BY <1>2
    <3>2. \A n \in 0..(m + 1) : n # 0 => f[n - 1] = g[n - 1]
      BY <2>3, <3>1
    <3>3. QED
      BY <2>2, <3>2 DEF TurnsUpTo
  <2>5. QED
    BY <1>2, <2>4
<1> HIDE DEF T
<1>3. Nat \subseteq T
  BY <1>1, <1>2, Every
<1>4. QED
  BY <1>3 DEF T

\* As often as it turns, the pool is in order.
LEMMA TurnsOk ==
  ASSUME NEW x, PoolOk(x), NEW M \in Nat, NEW g, TurnsUpTo(x, g, M)
  PROVE  PoolOk(g[M]) /\ Fresh(x, g[M])
<1> DEFINE T == {n \in Nat : n <= M => PoolOk(g[n]) /\ Fresh(x, g[n])}
<1>1. 0 \in T
  <2>1. g[0] = x
    BY DEF TurnsUpTo
  <2>2. QED
    BY <2>1 DEF Fresh
<1>2. ASSUME NEW m \in Nat, m \in T
      PROVE  m + 1 \in T
  <2> SUFFICES ASSUME m + 1 <= M
               PROVE  PoolOk(g[m + 1]) /\ Fresh(x, g[m + 1])
    OBVIOUS
  <2>1. m + 1 \in 0..M /\ m + 1 # 0 /\ (m + 1) - 1 = m /\ m <= M
    OBVIOUS
  <2>2. g[m + 1] = Turn(g[m])
    BY <2>1 DEF TurnsUpTo
  <2>3. PoolOk(g[m]) /\ Fresh(x, g[m])
    BY <1>2, <2>1
  <2>4. QED
    BY <2>2, <2>3, TurnOk DEF Fresh
<1> HIDE DEF T
<1>3. Nat \subseteq T
  BY <1>1, <1>2, Every
<1>4. QED
  BY <1>3 DEF T

\* The last turn gives the socket that is found to the client.
Given(y) ==
  IF ~Pool!Finds(y) THEN [x |-> y, sock |-> NoSock]
  ELSE IF Pool!Found(y) = NoSock THEN [x |-> Pool!Taken(y), sock |-> NoSock]
  ELSE [x |-> Moved(Pool!Taken(y), Pool!Found(y), "used"), sock |-> Pool!Found(y)]

\* A pool whose socket has been taken and given away is in order.
LEMMA GivenOk ==
  ASSUME NEW y, PoolOk(y), NEW f, f = Given(y)
  PROVE  PoolOk(f.x) /\ Fresh(y, f.x)
<1>1. CASE ~Pool!Finds(y)
  <2>1. f.x = y
    BY <1>1 DEF Given
  <2>2. QED
    BY <2>1 DEF Fresh
<1>2. CASE Pool!Finds(y)
  <2>1. PICK t : t = Pool!Taken(y)
    OBVIOUS
  <2>2. PICK s : s = Pool!Found(y)
    OBVIOUS
  <2>6. /\ t.w = y.w
        /\ s = NoSock => PoolOk(t)
        /\ s # NoSock => s \in Socks /\ PoolBut(t, {s}) /\ y.w[s] = "kept"
        /\ s # NoSock => \E i \in Slots : t.c.slot[i] = s /\ t.c.busy[i]
    BY <1>2, <2>1, <2>2, TakenOk
  <2>3. CASE s = NoSock
    <3>1. f.x = t
      <4>1. f = [x |-> t, sock |-> NoSock]
        BY <1>2, <2>1, <2>2, <2>3 DEF Given
      <4>2. QED
        BY <4>1
    <3>2. PoolOk(t) /\ t.w = y.w
      BY <2>3, <2>6
    <3>3. QED
      BY <3>1, <3>2 DEF Fresh
  <2>4. CASE s # NoSock
    <3>1. /\ t.w = y.w /\ s \in Socks /\ PoolBut(t, {s}) /\ y.w[s] = "kept"
          /\ \E i \in Slots : t.c.slot[i] = s /\ t.c.busy[i]
      BY <2>4, <2>6
    <3>2. f.x = Moved(t, s, "used")
      BY <1>2, <2>1, <2>2, <2>4 DEF Given
    <3>3. PICK z : z = f.x
      OBVIOUS
    <3>4. /\ t \in Pools /\ SlotsOk(t.c.known, t.c.slot, t.c.count)
          /\ \A r \in Socks \ {s} : Placed(t.c.slot, t.c.busy, t.w, r)
      BY <3>1 DEF PoolBut
    <3>5. t.w \in [Socks -> Places]
      BY <3>4, PoolParts
    <3>6. z \in Pools /\ z.c = t.c /\ z.w = [t.w EXCEPT ![s] = "used"]
      <4>1. z = [t EXCEPT !.w[s] = "used"]
        BY <3>2, <3>3 DEF Moved
      <4>2. t = [c |-> t.c, w |-> t.w] /\ t.c \in Conns
        BY <3>4 DEF Pools
      <4>3. z = [c |-> t.c, w |-> [t.w EXCEPT ![s] = "used"]]
        BY <4>1, <4>2
      <4>4. [t.w EXCEPT ![s] = "used"] \in [Socks -> Places]
        BY <3>5 DEF Places
      <4>5. QED
        BY <4>2, <4>3, <4>4 DEF Pools
    <3>7. z.w[s] = "used" /\ \A r \in Socks \ {s} : z.w[r] = t.w[r]
      BY <3>1, <3>5, <3>6
    <3>8. Placed(z.c.slot, z.c.busy, z.w, s)
      <4>1. PICK i \in Slots : t.c.slot[i] = s /\ t.c.busy[i]
        BY <3>1
      <4>2. \A j \in Slots : t.c.slot[j] = s => j = i
        BY <2>4, <3>4, <4>1 DEF SlotsOk, Once
      <4>3. QED
        BY <3>6, <3>7, <4>1, <4>2 DEF Placed
    <3>9. \A r \in Socks \ {s} : Placed(z.c.slot, z.c.busy, z.w, r)
      BY <3>4, <3>6, <3>7 DEF Placed
    <3>10. PoolOk(z)
      BY <3>4, <3>6, <3>8, <3>9 DEF PoolOk, PoolBut
    <3>11. Fresh(y, z)
      BY <3>1, <3>7 DEF Fresh
    <3>12. QED
      BY <3>3, <3>10, <3>11
  <2>5. QED
    BY <2>3, <2>4
<1>3. QED
  BY <1>1, <1>2

\* FindConnection() leaves the pool in order, and what was not opened unopened.
LEMMA FindOk ==
  ASSUME NEW x, PoolOk(x), NEW f, f = Pool!FindConnection(x)
  PROVE  PoolOk(f.x) /\ Fresh(x, f.x)
<1>1. PICK g : g = CHOOSE t : TurnsUpTo(x, t, MaxConns)
  OBVIOUS
<1>2. f = Given(g[MaxConns])
  BY <1>1 DEF Pool!FindConnection, Given, TurnsUpTo, Turn, Moved
<1>3. TurnsUpTo(x, g, MaxConns)
  BY <1>1, TurnsExist, PoolConstants
<1>4. PICK y : y = g[MaxConns]
  OBVIOUS
<1>5. PoolOk(y) /\ Fresh(x, y)
  BY <1>3, <1>4, TurnsOk, PoolConstants
<1>6. PoolOk(f.x) /\ Fresh(y, f.x)
  BY <1>2, <1>4, <1>5, GivenOk
<1>7. QED
  BY <1>5, <1>6 DEF Fresh

PoolInv == part = "pool" => PoolOk(Pool!Now)

\* conn and where as the methods work on them.
LEMMA NowIs ==
  ASSUME NEW x, Pool!Become(x)
  PROVE  x \in Pools => Pool!Now' = x
BY DEF Pool!Become, Pool!Now, Pools

\* A pool that is in order stays so when it becomes the Connection.
LEMMA BecomeOk ==
  ASSUME NEW x, Pool!Become(x), PoolOk(x)
  PROVE  PoolOk(Pool!Now)'
<1>1. x \in Pools
  BY OkParts
<1>2. Pool!Now' = x
  BY <1>1, NowIs
<1>3. QED
  BY <1>2

\* Each connection's slots are empty at first.
LEMMA PoolInit ==
  ASSUME Pool!Init
  PROVE  PoolOk(Pool!Now)
<1>1. PICK x : x = Pool!Now
  OBVIOUS
<1>2. PICK w : w = [s \in Socks |-> "unopened"]
  BY Zenon
<1>3. x = [c |-> Pool!NoConnection, w |-> w]
  BY <1>1, <1>2 DEF Pool!Init, Pool!Now
<1>4. w \in [Socks -> Places] /\ \A s \in Socks : w[s] = "unopened"
  BY <1>2 DEF Places
<1>5. x \in Pools /\ x.c = Pool!NoConnection /\ x.w = w
  BY <1>3, <1>4, NoConnectionIs DEF Pools
<1>6. \A s \in Socks : Placed(x.c.slot, x.c.busy, x.w, s)
  BY <1>4, <1>5, NoConnectionIs, PoolConstants DEF Placed
<1>7. QED
  BY <1>1, <1>5, <1>6, NoConnectionIs DEF PoolOk, PoolBut

\* A request gets a connection.
LEMMA ConnectOk ==
  ASSUME PoolOk(Pool!Now), Pool!Connect
  PROVE  PoolOk(Pool!Now)'
<1>1. PICK x : x = Pool!Now
  OBVIOUS
<1>2. PICK f : f = Pool!FindConnection(x)
  OBVIOUS
<1>3. PoolOk(f.x) /\ Fresh(x, f.x)
  BY <1>1, <1>2, FindOk
<1>4. CASE f.sock # NoSock
  <2>1. Pool!Become(f.x)
    BY <1>1, <1>2, <1>4 DEF Pool!Connect
  <2>2. QED
    BY <1>3, <2>1, BecomeOk
<1>5. CASE f.sock = NoSock
  <2>1. PICK s \in Socks : where[s] = "unopened" /\ Pool!Become(Moved(f.x, s, "used"))
    BY <1>1, <1>2, <1>5 DEF Pool!Connect, Moved
  <2>2. x.w = where
    BY <1>1 DEF Pool!Now
  <2>3. f.x.w[s] = "unopened"
    BY <1>3, <2>1, <2>2 DEF Fresh
  <2>4. PICK y : y = f.x
    OBVIOUS
  <2>5. PoolBut(y, {s}) /\ Placed(y.c.slot, y.c.busy, y.w, s) /\ y.w[s] = "unopened"
    BY <1>3, <2>3, <2>4, OkParts
  <2>6. \A i \in Slots : y.c.slot[i] # s
    BY <2>5 DEF Placed
  <2>7. PICK p \in Places : p = "used"
    BY DEF Places
  <2>8. PoolOk(Moved(y, s, p))
    BY <2>5, <2>6, <2>7, PoolMoved
  <2>9. Pool!Become(Moved(y, s, p))
    BY <2>1, <2>4, <2>7
  <2>10. QED
    BY <2>8, <2>9, BecomeOk
<1>6. QED
  BY <1>4, <1>5

\* All connections are closed.
LEMMA CleanupPoolOk ==
  ASSUME PoolOk(Pool!Now), Pool!Cleanup
  PROVE  PoolOk(Pool!Now)'
<1>1. PICK w : w = [s \in Socks |-> IF where[s] = "unopened" THEN "unopened" ELSE "deleted"]
  OBVIOUS
<1>2. w \in [Socks -> Places] /\ \A s \in Socks : w[s] # "kept"
  BY <1>1 DEF Places
<1>3. PICK x : x = [c |-> Pool!NoConnection, w |-> w]
  OBVIOUS
<1>4. x \in Pools /\ x.c = Pool!NoConnection /\ x.w = w
  BY <1>2, <1>3, NoConnectionIs DEF Pools
<1>5. \A s \in Socks : Placed(x.c.slot, x.c.busy, x.w, s)
  BY <1>2, <1>4, NoConnectionIs, PoolConstants DEF Placed
<1>6. PoolOk(x)
  BY <1>4, <1>5, NoConnectionIs DEF PoolOk, PoolBut
<1>7. Pool!Become(x)
  BY <1>1, <1>4 DEF Pool!Cleanup, Pool!Become
<1>8. QED
  BY <1>6, <1>7, BecomeOk

\* Each action keeps the pool in order.
LEMMA PoolStep ==
  ASSUME PoolOk(Pool!Now), Pool!Next
  PROVE  PoolOk(Pool!Now)'
<1>1. CASE Pool!Connect
  BY <1>1, ConnectOk
<1>2. CASE Pool!Cleanup
  BY <1>2, CleanupPoolOk
<1>3. ASSUME NEW s \in Socks, Pool!Release(s)
      PROVE  PoolOk(Pool!Now)'
  <2>1. Pool!Become(Pool!ReleaseConnection(Pool!Now, s))
    BY <1>3 DEF Pool!Release
  <2>2. PoolOk(Pool!ReleaseConnection(Pool!Now, s))
    BY ReleaseOk
  <2>3. QED
    BY <2>1, <2>2, BecomeOk
<1>4. ASSUME NEW s \in Socks, Pool!Close(s) \/ Pool!Expire(s)
      PROVE  PoolOk(Pool!Now)'
  <2>1. Pool!Become(Pool!Drop(Pool!Now, s))
    BY <1>4 DEF Pool!Close, Pool!Expire
  <2>2. PoolBut(Pool!Now, {s})
    BY OkParts
  <2>3. PoolOk(Pool!Drop(Pool!Now, s))
    BY <2>2, DropOk
  <2>4. QED
    BY <2>1, <2>3, BecomeOk
<1>5. QED
  BY <1>1, <1>2, <1>3, <1>4 DEF Pool!Next

\* ConnectionMgr counts as FiniteSets does.
LEMMA CountIs ==
  ASSUME NEW S
  PROVE  Pool!Cardinality(S) = Cardinality(S)
BY Zenon DEF Pool!Cardinality, Cardinality

\* What it is for a pool to be in order.
LEMMA PoolIsSound ==
  ASSUME PoolOk(Pool!Now)
  PROVE  Pool!PoolSound
<1>1. Pool!Now.c = conn /\ Pool!Now.w = where
  BY DEF Pool!Now
<1>2. SlotsOk(conn.known, conn.slot, conn.count)
  BY <1>1, OkParts
<1>3. \A s \in Socks : Placed(conn.slot, conn.busy, where, s)
  BY <1>1, OkParts
<1>4. conn.count = Cardinality({i \in Pool!Slots : conn.slot[i] # NoSock})
  BY <1>2 DEF SlotsOk, Full, Slots
<1>5. ASSUME NEW s \in Socks, where[s] = "kept"
      PROVE  Cardinality({i \in Slots : conn.slot[i] = s /\ ~conn.busy[i]}) = 1
  <2>1. PICK i \in Slots : conn.slot[i] = s
    BY <1>3, <1>5 DEF Placed
  <2>2. ~conn.busy[i]
    BY <1>3, <1>5, <2>1 DEF Placed
  <2>3. \A j \in Slots : conn.slot[j] = s => j = i
    BY <1>2, <2>1, PoolConstants DEF SlotsOk, Once
  <2>4. {j \in Slots : conn.slot[j] = s /\ ~conn.busy[j]} = {i}
    BY <2>1, <2>2, <2>3
  <2>5. QED
    BY <2>4, FS_Singleton
<1>6. \A s \in Socks : where[s] \in {"unopened", "deleted"} =>
        \A i \in Slots : conn.slot[i] # s
  BY <1>3 DEF Placed
<1>7. conn.known => conn.count > 0
  BY <1>2 DEF SlotsOk
<1>8. \A s \in Socks :
        /\ where[s] = "kept" =>
              Cardinality({i \in Pool!Slots : conn.slot[i] = s /\ ~conn.busy[i]}) = 1
        /\ where[s] \in {"unopened", "deleted"} => \A i \in Pool!Slots : conn.slot[i] # s
  BY <1>5, <1>6 DEF Slots
<1>9. QED
  BY <1>4, <1>7, <1>8, CountIs DEF Pool!PoolSound

\* A connection that is kept is in one slot where it can be found, and one that is
\* deleted in none, whatever requests and servers do.
THEOREM KeptConnectionsAreFound == ClientsSpec => []PoolSound
<1>1. ClientsInit => PoolInv
  BY PoolInit DEF ClientsInit, PoolInv
<1>2. PoolInv /\ [ClientsNext]_<<part, clientVars>> => PoolInv'
  <2> SUFFICES ASSUME PoolInv, [ClientsNext]_<<part, clientVars>>, part' = "pool"
               PROVE  PoolOk(Pool!Now)'
    BY DEF PoolInv
  <2>1. CASE UNCHANGED <<part, clientVars>>
    BY <2>1 DEF PoolInv, clientVars, poolVars, Pool!Now
  <2>2. CASE ClientsNext
    BY <2>2, PoolStep DEF PoolInv, ClientsNext
  <2>3. QED
    BY <2>1, <2>2
<1>3. PoolInv => PoolSound
  BY PoolIsSound DEF PoolInv, PoolSound
<1>4. QED
  BY <1>1, <1>2, <1>3, PTL DEF ClientsSpec
=============================================================================
