------------------------------- MODULE Socket -------------------------------
(***************************************************************************)
(* Asynchronous sockets and the dispatcher they register with.  The state  *)
(* of both, and what the kernel keeps for them, is one record; a method is *)
(* an operator on it.  A method that may call the user back does so last,  *)
(* so that it yields a record and the call that is due, if any.            *)
(***************************************************************************)
EXTENDS Integers, Sequences

CONSTANTS Sock,   \* Socket objects, used once each
          Fds,    \* the descriptors there are, beginning with 0
          None

ASSUME SocketAssumption == Fds \subseteq Nat /\ None \notin Sock

\* fd, flags, buf, timer: FD, Flags, Data from WriteOffset on, Timeout # 0;
\* alive: the objects that exist.  table, rset, wset: FDTable[].FD, ReadSet
\* and WriteSet.  conn, inq, eof, out: the connection, what has arrived and
\* is not read, the peer has closed its side, what the peer was sent.
NoSockets ==
    [fd |-> [s \in Sock |-> -1], flags |-> [s \in Sock |-> {}],
     buf |-> [s \in Sock |-> <<>>], timer |-> {}, alive |-> {},
     table |-> [f \in Fds |-> None], rset |-> {}, wset |-> {},
     conn |-> [s \in Sock |-> "none"], inq |-> [s \in Sock |-> <<>>],
     eof |-> {}, out |-> [s \in Sock |-> <<>>]]

Free(w) == {f \in Fds : \A s \in w.alive : w.fd[s] # f}
Lowest(F) == CHOOSE f \in F : \A g \in F : f <= g

Is(w, s, flag)    == flag \in w.flags[s]
Set(w, s, flag)   == [w EXCEPT !.flags[s] = @ \cup {flag}]
Clear(w, s, F)    == [w EXCEPT !.flags[s] = @ \ F]
SetTimeout(w, s)  == [w EXCEPT !.timer = @ \cup {s}]
NoTimeout(w, s)   == [w EXCEPT !.timer = @ \ {s}]

-----------------------------------------------------------------------------
\* IODispatcher.

AddFD(w, s, type) ==
    [w EXCEPT !.table[w.fd[s]] = s,
              !.rset = IF type = "READ" THEN @ \cup {w.fd[s]} ELSE @,
              !.wset = IF type = "WRITE" THEN @ \cup {w.fd[s]} ELSE @]

\* Wrong: takes the descriptor out of both sets, whatever is still awaited.
RemFDBoth(w, s, types) ==
    IF w.fd[s] \notin Fds \/ w.table[w.fd[s]] # s THEN w
    ELSE [w EXCEPT !.rset = @ \ {w.fd[s]}, !.wset = @ \ {w.fd[s]},
                   !.table[w.fd[s]] = None]

RemFD(w, s, types) ==
    LET f == w.fd[s]
        r == IF "READ" \in types THEN w.rset \ {f} ELSE w.rset
        x == IF "WRITE" \in types THEN w.wset \ {f} ELSE w.wset
    IN IF f \notin Fds \/ w.table[f] # s THEN w
       ELSE [w EXCEPT !.rset = r, !.wset = x,
                      !.table[f] = IF f \in r \cup x THEN s ELSE None]

Readable(w, s) ==
    w.inq[s] # <<>> \/ s \in w.eof \/ w.conn[s] \in {"refused", "reset"}
Writable(w, s) == w.conn[s] \in {"up", "refused", "reset"}

\* What select() finds, each descriptor with the object it belongs to now.
Selected(w) ==
    [r |-> {<<f, w.table[f]>> : f \in {g \in w.rset : Readable(w, w.table[g])}},
     x |-> {<<f, w.table[f]>> : f \in {g \in w.wset : Writable(w, w.table[g])}}]

-----------------------------------------------------------------------------
\* Socket.

\* socket() or accept() gives the lowest free descriptor, or fails.
New(w, s, conn) ==
    [w EXCEPT !.alive = @ \cup {s}, !.conn[s] = conn,
              !.fd[s] = IF Free(w) = {} THEN -1 ELSE Lowest(Free(w))]

Delete(w, s) ==
    LET v == RemFD(w, s, {"READ", "WRITE"})
    IN [v EXCEPT !.alive = @ \ {s}, !.timer = @ \ {s}, !.fd[s] = -1,
                 !.flags[s] = {}, !.buf[s] = <<>>,
                 !.conn[s] = "none", !.inq[s] = <<>>, !.eof = @ \ {s}]

\* Callback() before it calls.
Call(w, s, reason, data) ==
    LET v == IF reason = "WRITTEN" THEN w ELSE NoTimeout(w, s)
    IN [w  |-> IF reason = "ERROR"
               THEN Clear(v, s, {"SENDING", "CONNECTING", "RECVING"}) ELSE v,
        cb |-> <<reason, data>>]

NoCall(w)      == [w |-> w, cb |-> <<>>]
Interrupted(w) == [w |-> w, cb |-> <<"EINTR">>]

\* connect() that succeeds, fails or is under way.
AsyncConnect(w, s) ==
    {Call([w EXCEPT !.conn[s] = "up"], s, "CONNECTED", 0),
     Call([w EXCEPT !.conn[s] = "refused"], s, "ERROR", 1),
     NoCall(AddFD(SetTimeout(Set([w EXCEPT !.conn[s] = "connecting"],
                                 s, "CONNECTING"), s), s, "WRITE"))}

\* Wrong: what is queued is replaced.
AsyncSendOver(w, s, unit) ==
    AddFD(Set([w EXCEPT !.buf[s] = <<unit>>], s, "SENDING"), s, "WRITE")

\* AsyncSend() only queues, so that no callback runs inside it.
AsyncSend(w, s, unit) ==
    IF Is(w, s, "SENDING") THEN [w EXCEPT !.buf[s] = Append(@, unit)]
    ELSE AddFD(Set([w EXCEPT !.buf[s] = <<unit>>], s, "SENDING"), s, "WRITE")

\* recv(): a unit, 0 at the end, an error, or nothing yet; a signal
\* interrupts it (EINTR) in the outcomes `interrupted'.
Receive(w, s, again, interrupted) ==
    IF w.conn[s] \in {"refused", "reset"} THEN {Call(w, s, "ERROR", 1)}
    ELSE IF w.inq[s] # <<>>
    THEN {Call([w EXCEPT !.inq[s] = Tail(@)], s, "READ", Head(w.inq[s]))}
         \cup interrupted
    ELSE IF s \in w.eof THEN {Call(w, s, "READ", 0)} ELSE {NoCall(again)}

\* Wrong: the dispatcher is not told.
AwaitUnheard(w, s) == Set(w, s, "RECVING")

Await(w, s) == AddFD(Set(w, s, "RECVING"), s, "READ")

\* After EINTR the operation is neither done nor under way.
AsyncRecv(w, s, signal) ==
    LET v == RemFD(w, s, {"READ"})
    IN Receive(v, s, NoTimeout(Await(v, s), s),
               IF signal THEN {Interrupted(v)} ELSE {})

HandleRead(w, s, signal) ==
    LET v == Clear(RemFD(w, s, {"READ"}), s, {"RECVING"})
    IN IF Is(w, s, "RECVING")
       THEN Receive(v, s, Await(v, s),
                    IF signal THEN {Interrupted(Await(v, s))} ELSE {})
       ELSE {Call(w, s, "READ", -1)}

\* send() takes any part of what is queued, and nothing (EWOULDBLOCK) while
\* the connection is under way; the error of such a one is 0.
HandleWrite(w, s) ==
    LET v == Clear(RemFD(w, s, {"WRITE"}), s, {"SENDING"})
        b == w.buf[s]
        sent(n) == [v EXCEPT !.out[s] = @ \o SubSeq(b, 1, n),
                             !.buf[s] = SubSeq(b, n + 1, Len(b))]
    IN IF Is(w, s, "CONNECTING")
       THEN {Call(Clear(v, s, {"CONNECTING"}), s, "CONNECTED",
                  IF w.conn[s] \in {"up", "connecting"} THEN 0 ELSE 1)}
       ELSE IF b = <<>> THEN {NoCall(v)}
       ELSE IF w.conn[s] \in {"refused", "reset"}
       THEN {Call([v EXCEPT !.buf[s] = <<>>], s, "ERROR", 1)}
       ELSE {IF n = Len(b) THEN Call(sent(n), s, "WRITTEN", 0)
             ELSE NoCall(AddFD(Set(sent(n), s, "SENDING"), s, "WRITE"))
             : n \in IF w.conn[s] = "up" THEN 1..Len(b) ELSE {0}}

HandleTimeout(w, s) ==
    LET v == Clear([w EXCEPT !.buf[s] = <<>>], s,
                   {"SENDING", "RECVING", "CONNECTING"})
    IN {Call(RemFD(v, s, {"READ", "WRITE"}), s, "TIMEOUT", 0)}

-----------------------------------------------------------------------------
\* What is registered is what is under way, and with the object it concerns.
Registered(w) ==
    /\ \A f \in Fds :
         /\ w.table[f] = None <=> f \notin w.rset \cup w.wset
         /\ w.table[f] # None => w.table[f] \in w.alive /\ w.fd[w.table[f]] = f
    /\ \A s \in w.alive :
         /\ Is(w, s, "RECVING") <=> w.fd[s] \in w.rset
         /\ (Is(w, s, "SENDING") \/ Is(w, s, "CONNECTING"))
                <=> w.fd[s] \in w.wset
=============================================================================
