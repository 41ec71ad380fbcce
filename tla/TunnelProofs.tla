---------------------------- MODULE TunnelProofs ----------------------------
(***************************************************************************)
(* Theorems about Tunnel, for any numbers of connections, of descriptors,  *)
(* of units sent and of signals.                                           *)
(***************************************************************************)
EXTENDS Tunnel, SequenceTheorems, WellFoundedInduction, NaturalsInduction, TLAPS

(***************************************************************************)
(* What the methods of a socket do to it, to the dispatcher and to the     *)
(* other sockets.                                                          *)
(***************************************************************************)

Unit  == Nat \ {0}
Flags == {"RECVING", "SENDING", "CONNECTING"}

Fields == {"fd", "flags", "buf", "timer", "alive", "table", "rset", "wset", "conn",
           "inq", "eof", "out"}

IoType(w) ==
    /\ DOMAIN w = Fields
    /\ w.fd \in [Sock -> Fds \cup {-1}] /\ w.flags \in [Sock -> SUBSET Flags]
    /\ w.buf \in [Sock -> Seq(Unit)] /\ w.timer \subseteq Sock /\ w.alive \subseteq Sock
    /\ w.table \in [Fds -> Sock \cup {None}] /\ w.rset \subseteq Fds /\ w.wset \subseteq Fds
    /\ w.conn \in [Sock -> {"none", "connecting", "up", "refused", "reset"}]
    /\ w.inq \in [Sock -> Seq(Unit)] /\ w.eof \subseteq Sock
    /\ w.out \in [Sock -> Seq(Unit)]

\* The table of the dispatcher, and the descriptors of the objects.
Wiring(w) ==
    /\ \A f \in Fds : w.table[f] = None <=> f \notin w.rset \cup w.wset
    /\ \A f \in Fds : w.table[f] # None => w.table[f] \in w.alive /\ w.fd[w.table[f]] = f
    /\ \A s \in w.alive : w.fd[s] \in Fds
    /\ \A s, t \in w.alive : w.fd[s] = w.fd[t] => s = t
    /\ \A s \in Sock : s \notin w.alive => w.fd[s] = -1

\* The sockets that have a timeout are connecting; methods of s put that right last.
TimedBut(w, s) == \A t \in w.timer : t # s => t \in w.alive /\ Is(w, t, "CONNECTING")

Timed(w) == \A t \in w.timer : t \in w.alive /\ Is(w, t, "CONNECTING")

\* What is under way on a socket is what is registered for it; what is queued is under
\* way; and nothing is queued before it is connected.
FlagsOK(w, s) ==
    /\ Is(w, s, "RECVING") <=> w.fd[s] \in w.rset
    /\ (Is(w, s, "SENDING") \/ Is(w, s, "CONNECTING")) <=> w.fd[s] \in w.wset
    /\ Is(w, s, "SENDING") <=> w.buf[s] # <<>>
    /\ Is(w, s, "CONNECTING") => w.flags[s] = {"CONNECTING"}

\* An error that is about to be reported has cleared the flags, but the descriptor is
\* still registered.
IoInv(w, fails) ==
    /\ IoType(w) /\ Wiring(w) /\ Timed(w)
    /\ \A s \in w.alive : s[1] \notin fails => FlagsOK(w, s)

\* From w to v only what is registered has changed.
OnlySets(v, w, r, x) ==
    /\ v.rset = r /\ v.wset = x
    /\ v.fd = w.fd /\ v.flags = w.flags /\ v.buf = w.buf /\ v.timer = w.timer
    /\ v.alive = w.alive /\ v.conn = w.conn /\ v.inq = w.inq /\ v.eof = w.eof
    /\ v.out = w.out

Minus(S, s, cond) == IF cond THEN S \ {s} ELSE S
Plus(S, s, cond)  == IF cond THEN S \cup {s} ELSE S

\* s is gone, or new, and the others are as they were.
Closed(v, w, s) ==
    /\ v.alive = w.alive \ {s} /\ v.eof = w.eof \ {s} /\ v.timer = w.timer \ {s}
    /\ v.fd = [w.fd EXCEPT ![s] = -1] /\ v.flags = [w.flags EXCEPT ![s] = {}]
    /\ v.buf = [w.buf EXCEPT ![s] = <<>>] /\ v.conn = [w.conn EXCEPT ![s] = "none"]
    /\ v.inq = [w.inq EXCEPT ![s] = <<>>] /\ v.out = w.out

Opened(v, w, s, conn) ==
    /\ v.alive = w.alive \cup {s} /\ v.conn = [w.conn EXCEPT ![s] = conn]
    /\ v.flags = w.flags /\ v.buf = w.buf /\ v.inq = w.inq /\ v.out = w.out
    /\ v.eof = w.eof /\ v.fd[s] # -1

\* From w to v only s has changed, in the ways a method can change it.
Becomes(v, w, s, flags, buf, conn, inq, out) ==
    /\ v.fd = w.fd /\ v.alive = w.alive /\ v.eof = w.eof
    /\ v.flags = [w.flags EXCEPT ![s] = flags]
    /\ v.buf = [w.buf EXCEPT ![s] = buf]
    /\ v.conn = [w.conn EXCEPT ![s] = conn]
    /\ v.inq = [w.inq EXCEPT ![s] = inq]
    /\ v.out = [w.out EXCEPT ![s] = out]

\* What Callback() leaves.
Called(m, w, s, reason, data) ==
    /\ IoType(m.w) /\ Wiring(m.w) /\ Timed(m.w)
    /\ m.cb = <<reason, data>>
    /\ m.w.rset = w.rset /\ m.w.wset = w.wset
    /\ Becomes(m.w, w, s, IF reason = "ERROR" THEN {} ELSE w.flags[s], w.buf[s],
               w.conn[s], w.inq[s], w.out[s])

\* Registered for s, or not any more, and for the others as before.
SetsBut(v, w, s) ==
    \A f \in Fds : f # w.fd[s] => (f \in v.rset <=> f \in w.rset)
                                 /\ (f \in v.wset <=> f \in w.wset)

\* s is not read for the moment.
Stopped(v, w, s) ==
    /\ IoType(v) /\ Wiring(v) /\ Timed(v)
    /\ v.rset = w.rset \ {w.fd[s]} /\ v.wset = w.wset
    /\ Becomes(v, w, s, w.flags[s] \ {"RECVING"}, w.buf[s], w.conn[s], w.inq[s], w.out[s])

\* The outcomes of recv(): an error, a unit, the end, nothing yet, and a signal, which
\* leaves the flags as they were.
Received(m, w, s, signal) ==
    LET Reads(flags, inq) ==
            Becomes(m.w, w, s, flags, w.buf[s], w.conn[s], inq, w.out[s])
        idle == w.flags[s] \ {"RECVING"}
    IN \/ m.cb = <<"ERROR", 1>> /\ IoInv(m.w, {s[1]}) /\ Reads({}, w.inq[s])
       \/ /\ w.inq[s] # <<>> /\ m.cb = <<"READ", Head(w.inq[s])>> /\ IoInv(m.w, {})
          /\ Reads(idle, Tail(w.inq[s]))
       \/ /\ w.inq[s] = <<>> /\ m.cb = <<"READ", 0>> /\ IoInv(m.w, {})
          /\ Reads(idle, w.inq[s])
       \/ /\ m.cb = <<>> /\ IoInv(m.w, {})
          /\ Reads(w.flags[s] \cup {"RECVING"}, w.inq[s])
       \/ /\ m.cb = <<"EINTR">> /\ signal /\ IoInv(m.w, {})
          /\ Reads(w.flags[s], w.inq[s])

-----------------------------------------------------------------------------
\* The descriptors are numbers: any non-empty set of them has a least one, so that
\* socket() returns one and select() has a first one to report.
LEMMA LeastExists ==
  ASSUME NEW F, F \subseteq Nat, F # {}
  PROVE  \E f \in F : \A g \in F : f <= g
  <1>1. \E x \in F : \A y \in F : <<y, x>> \notin OpToRel(<, Nat)
    BY WFMin, NatLessThanWellFounded
  <1>2. PICK x \in F : \A y \in F : <<y, x>> \notin OpToRel(<, Nat)
    BY <1>1
  <1>3. \A y \in F : ~ (y < x)
    BY <1>2 DEF OpToRel
  <1> QED BY <1>3

\* What send() takes of a queue and what it leaves are the queue.
LEMMA SubSeqSplits ==
  ASSUME NEW b \in Seq(Unit), NEW n \in 0..Len(b)
  PROVE  /\ SubSeq(b, 1, n) \in Seq(Unit) /\ SubSeq(b, n + 1, Len(b)) \in Seq(Unit)
         /\ SubSeq(b, n + 1, Len(b)) = <<>> <=> n = Len(b)
         /\ SubSeq(b, 1, n) \o SubSeq(b, n + 1, Len(b)) = b
  <1>0. Len(b) \in Nat /\ n \in Int /\ \A i \in 1..Len(b) : b[i] \in Unit  OBVIOUS
  <1> DEFINE r == SubSeq(b, n + 1, Len(b))
  <1>1. SubSeq(b, 1, n) \in Seq(Unit)  BY <1>0, SubSeqProperties
  <1>2. r \in Seq(Unit) /\ Len(r) = Len(b) - n
    <2>1. n + 1 \in Int /\ \A i \in (n + 1)..Len(b) : b[i] \in Unit  BY <1>0
    <2>2. r \in Seq(Unit)
          /\ Len(r) = IF n + 1 <= Len(b) THEN Len(b) - (n + 1) + 1 ELSE 0
      BY <1>0, <2>1, SubSeqProperties
    <2> QED BY <1>0, <2>2
  <1>3. r = <<>> <=> n = Len(b)
    <2> HIDE DEF r
    <2>1. r = <<>> <=> Len(r) = 0  BY <1>2, EmptySeq
    <2> QED BY <1>0, <1>2, <2>1
  <1>4. SubSeq(b, 1, n) \o SubSeq(b, n + 1, Len(b)) = b
    <2>1. SubSeq(b, 1, Len(b)) = b  BY SubSeqFull
    <2>2. SubSeq(b, 1, n) \o SubSeq(b, n + 1, Len(b)) = SubSeq(b, 1, Len(b))
      <3>1. /\ 1 \in 1..(Len(b) + 1) /\ n \in (1 - 1)..Len(b)
            /\ Len(b) \in n..Len(b)
        BY <1>0
      <3> QED BY <3>1, ConcatAdjacentSubSeq
    <2> QED BY <2>1, <2>2
  <1> QED BY <1>1, <1>2, <1>3, <1>4

\* socket() gives a descriptor that no socket has.
LEMMA LowestIsFree ==
  ASSUME NEW w, Free(w) # {}
  PROVE  Lowest(Free(w)) \in Free(w)
  <1>1. Free(w) \subseteq Nat  BY SocketAssumption DEF Free
  <1>2. \E f \in Free(w) : \A g \in Free(w) : f <= g  BY <1>1, LeastExists
  <1> QED BY <1>2 DEF Lowest

\* RemFD() with a live socket takes its descriptor out of the sets, and out of the table
\* once it is in neither; a socket that is not in the table is in neither set.
LEMMA RemFDRemoves ==
  ASSUME NEW w, IoType(w), Wiring(w), NEW s \in w.alive, NEW types,
         NEW v, v = RemFD(w, s, types)
  PROVE  /\ IoType(v) /\ Wiring(v)
         /\ OnlySets(v, w, Minus(w.rset, w.fd[s], "READ" \in types),
                     Minus(w.wset, w.fd[s], "WRITE" \in types))
  <1> DEFINE f == w.fd[s]
             r == IF "READ" \in types THEN w.rset \ {f} ELSE w.rset
             x == IF "WRITE" \in types THEN w.wset \ {f} ELSE w.wset
             u == [w EXCEPT !.rset = r, !.wset = x,
                            !.table[f] = IF f \in r \cup x THEN s ELSE None]
  <1>0. s \in Sock /\ f \in Fds  BY DEF IoType, Wiring
  <1>1. CASE w.table[f] = s
    <2>1. v = u  BY <1>0, <1>1 DEF RemFD
    <2>2. /\ v.rset = r /\ v.wset = x
          /\ v.table = [w.table EXCEPT ![f] = IF f \in r \cup x THEN s ELSE None]
          /\ v.fd = w.fd /\ v.flags = w.flags /\ v.buf = w.buf /\ v.timer = w.timer
          /\ v.alive = w.alive /\ v.conn = w.conn /\ v.inq = w.inq /\ v.eof = w.eof
          /\ v.out = w.out /\ DOMAIN v = Fields
      BY <2>1 DEF IoType, Fields
    <2> HIDE DEF u, r, x
    <2>3. r \subseteq Fds /\ x \subseteq Fds  BY DEF r, x, IoType
    <2>4. IoType(v)  BY <2>2, <2>3, <1>0 DEF IoType
    <2>5. \A g \in Fds : g # f => (g \in r \cup x <=> g \in w.rset \cup w.wset)
      BY DEF r, x
    <2>6. \A g \in Fds : v.table[g] = IF g # f THEN w.table[g]
                                       ELSE IF f \in r \cup x THEN s ELSE None
      BY <2>2, <1>0 DEF IoType
    <2>7. s # None  BY <1>0, SocketAssumption
    <2>8. \A g \in Fds : v.table[g] = None <=> g \notin v.rset \cup v.wset
      BY <2>2, <2>5, <2>6, <2>7 DEF Wiring
    <2>9. \A g \in Fds : v.table[g] # None =>
                            v.table[g] \in v.alive /\ v.fd[v.table[g]] = g
      BY <2>2, <2>6 DEF Wiring
    <2>10. Wiring(v)
      BY <2>2, <2>8, <2>9 DEF Wiring
    <2> QED BY <2>2, <2>4, <2>10 DEF OnlySets, Minus, f, r, x
  <1>2. CASE w.table[f] # s
    <2>1. v = w  BY <1>0, <1>2 DEF RemFD
    <2>2. w.table[f] = None  BY <1>0, <1>2 DEF IoType, Wiring
    <2>3. f \notin w.rset \cup w.wset  BY <1>0, <2>2 DEF Wiring
    <2> QED BY <2>1, <2>3 DEF OnlySets, Minus
  <1> QED BY <1>1, <1>2

\* AddFD() registers the descriptor of a live socket in one of the sets.
LEMMA AddFDAdds ==
  ASSUME NEW w, IoType(w), Wiring(w), NEW s \in w.alive, NEW type \in {"READ", "WRITE"},
         NEW v, v = AddFD(w, s, type)
  PROVE  /\ IoType(v) /\ Wiring(v)
         /\ OnlySets(v, w, Plus(w.rset, w.fd[s], type = "READ"),
                     Plus(w.wset, w.fd[s], type = "WRITE"))
  <1> DEFINE f == w.fd[s]
  <1>0. s \in Sock /\ f \in Fds  BY DEF IoType, Wiring
  <1>1. /\ v.rset = IF type = "READ" THEN w.rset \cup {f} ELSE w.rset
        /\ v.wset = IF type = "WRITE" THEN w.wset \cup {f} ELSE w.wset
        /\ v.table = [w.table EXCEPT ![f] = s]
        /\ v.fd = w.fd /\ v.flags = w.flags /\ v.buf = w.buf /\ v.timer = w.timer
        /\ v.alive = w.alive /\ v.conn = w.conn /\ v.inq = w.inq /\ v.eof = w.eof
        /\ v.out = w.out /\ DOMAIN v = Fields
    BY DEF IoType, AddFD, Fields
  <1> HIDE DEF f
  <1>2. IoType(v)  BY <1>0, <1>1 DEF IoType
  <1>3. \A g \in Fds : v.table[g] = IF g = f THEN s ELSE w.table[g]
    BY <1>0, <1>1 DEF IoType
  <1>4. s # None /\ w.fd[s] = f  BY <1>0, SocketAssumption DEF f
  <1>5. \A g \in Fds : g # f => (g \in v.rset \cup v.wset <=> g \in w.rset \cup w.wset)
    BY <1>1
  <1>6. f \in v.rset \cup v.wset  BY <1>1
  <1>7. \A g \in Fds : v.table[g] = None <=> g \notin v.rset \cup v.wset
    BY <1>3, <1>4, <1>5, <1>6 DEF Wiring
  <1>8. \A g \in Fds : v.table[g] # None =>
                          v.table[g] \in v.alive /\ v.fd[v.table[g]] = g
    BY <1>1, <1>3, <1>4 DEF Wiring
  <1>9. Wiring(v)  BY <1>1, <1>7, <1>8 DEF Wiring
  <1> QED BY <1>1, <1>2, <1>9 DEF OnlySets, Plus, f

\* Callback() ends the timeout of the socket, an error ends all that is under way on it,
\* and nothing else changes before the call.
LEMMA CallBecomes ==
  ASSUME NEW w, IoType(w), Wiring(w), NEW s \in Sock, TimedBut(w, s),
         NEW reason, NEW data, reason = "WRITTEN" => s \notin w.timer,
         NEW m, m = Call(w, s, reason, data)
  PROVE  Called(m, w, s, reason, data)
  <1> DEFINE u == m.w
  <1>1. /\ u.rset = w.rset /\ u.wset = w.wset /\ u.table = w.table /\ u.fd = w.fd
        /\ u.alive = w.alive /\ u.eof = w.eof /\ u.buf = w.buf /\ u.conn = w.conn
        /\ u.inq = w.inq /\ u.out = w.out /\ DOMAIN u = Fields
        /\ u.timer = IF reason = "WRITTEN" THEN w.timer ELSE w.timer \ {s}
        /\ u.flags = IF reason = "ERROR" THEN [w.flags EXCEPT ![s] = @ \ Flags]
                     ELSE w.flags
        /\ m.cb = <<reason, data>>
    BY DEF Call, NoTimeout, Clear, IoType, Fields, Flags
  <1> HIDE DEF u
  <1>2. w.flags[s] \ Flags = {}  BY DEF IoType
  <1>3. u.flags = [w.flags EXCEPT ![s] = IF reason = "ERROR" THEN {} ELSE w.flags[s]]
    BY <1>1, <1>2 DEF IoType
  <1>4. IoType(u)  BY <1>1, <1>3 DEF IoType
  <1>5. Wiring(u)  BY <1>1 DEF Wiring
  <1>6. Timed(u)  BY <1>1, <1>3 DEF Timed, TimedBut, Is, IoType
  <1>7. Becomes(u, w, s, IF reason = "ERROR" THEN {} ELSE w.flags[s], w.buf[s], w.conn[s],
                w.inq[s], w.out[s])
    BY <1>1, <1>3 DEF Becomes, IoType
  <1> QED BY <1>1, <1>4, <1>5, <1>6, <1>7 DEF u, Called

\* `delete' closes a socket, which is then nowhere registered, and leaves the others.
LEMMA DeleteRemoves ==
  ASSUME NEW w, NEW F, IoInv(w, F), NEW s \in Sock, NEW v, v = Delete(w, s)
  PROVE  /\ IoInv(v, F)
         /\ Closed(v, w, s)
  <1>0. IoType(w) /\ Wiring(w) /\ Timed(w)  BY DEF IoInv
  <1>a. PICK u : u = RemFD(w, s, {"READ", "WRITE"})  OBVIOUS
  <1>b. v = [u EXCEPT !.alive = @ \ {s}, !.timer = @ \ {s}, !.fd[s] = -1,
                      !.flags[s] = {}, !.buf[s] = <<>>,
                      !.conn[s] = "none", !.inq[s] = <<>>, !.eof = @ \ {s}]
    BY <1>a DEF Delete
  <1>1. /\ IoType(u) /\ Wiring(u)
        /\ u.rset = w.rset \ {w.fd[s]} /\ u.wset = w.wset \ {w.fd[s]}
        /\ u.fd = w.fd /\ u.flags = w.flags /\ u.buf = w.buf /\ u.timer = w.timer
        /\ u.alive = w.alive /\ u.conn = w.conn /\ u.inq = w.inq /\ u.eof = w.eof
        /\ u.out = w.out
    <2>1. CASE s \in w.alive
      <3> DEFINE types == {"READ", "WRITE"}
      <3>1. /\ IoType(u) /\ Wiring(u)
            /\ OnlySets(u, w, Minus(w.rset, w.fd[s], "READ" \in types),
                        Minus(w.wset, w.fd[s], "WRITE" \in types))
        BY <1>0, <1>a, <2>1, RemFDRemoves
      <3> QED BY <3>1 DEF OnlySets, Minus
    <2>2. CASE s \notin w.alive
      <3>1. w.fd[s] = -1 /\ w.fd[s] \notin Fds
        BY <1>0, <2>2, SocketAssumption DEF Wiring
      <3>2. u = w  BY <1>a, <3>1 DEF RemFD
      <3> QED BY <1>0, <3>1, <3>2 DEF IoType
    <2> QED BY <2>1, <2>2
  <1>c. DOMAIN u = Fields  BY <1>1 DEF IoType
  <1>2. /\ v.alive = u.alive \ {s} /\ v.eof = u.eof \ {s} /\ v.timer = u.timer \ {s}
        /\ v.fd = [u.fd EXCEPT ![s] = -1] /\ v.flags = [u.flags EXCEPT ![s] = {}]
        /\ v.buf = [u.buf EXCEPT ![s] = <<>>] /\ v.conn = [u.conn EXCEPT ![s] = "none"]
        /\ v.inq = [u.inq EXCEPT ![s] = <<>>] /\ v.out = u.out
        /\ v.table = u.table /\ v.rset = u.rset /\ v.wset = u.wset /\ DOMAIN v = Fields
    BY <1>b, <1>c DEF Fields
  <1>3. IoType(v)
    <2>1. <<>> \in Seq(Unit)  OBVIOUS
    <2> QED BY <1>1, <1>2, <2>1 DEF IoType
  <1>4. \A g \in Fds : u.table[g] # s
    <2> SUFFICES ASSUME NEW g \in Fds, u.table[g] = s PROVE FALSE  OBVIOUS
    <2>1. s # None  BY SocketAssumption
    <2>2. u.fd[s] = g /\ g \in u.rset \cup u.wset  BY <1>1, <2>1 DEF Wiring
    <2> QED BY <1>1, <2>2
  <1>5. Wiring(v)
    <2>1. \A t \in Sock : t # s => v.fd[t] = w.fd[t]  BY <1>1, <1>2 DEF IoType
    <2>2. v.fd[s] = -1  BY <1>1, <1>2 DEF IoType
    <2>3. \A t \in v.alive : t \in w.alive /\ t \in Sock /\ t # s  BY <1>1, <1>2 DEF IoType
    <2>4. \A g \in Fds : v.table[g] = None <=> g \notin v.rset \cup v.wset
      BY <1>1, <1>2 DEF Wiring
    <2>5. \A g \in Fds : v.table[g] # None =>
                            v.table[g] \in v.alive /\ v.fd[v.table[g]] = g
      BY <1>1, <1>2, <1>4, <2>1, <2>3 DEF Wiring
    <2> QED BY <1>0, <1>1, <1>2, <2>1, <2>2, <2>3, <2>4, <2>5 DEF Wiring
  <1>6. Timed(v)  BY <1>0, <1>1, <1>2 DEF Timed, Is, IoType
  <1>7. ASSUME NEW t \in v.alive, t[1] \notin F PROVE FlagsOK(v, t)
    <2>1. t \in w.alive /\ t # s /\ t \in Sock  BY <1>1, <1>2, <1>7 DEF IoType
    <2>2. FlagsOK(w, t)  BY <1>7, <2>1 DEF IoInv
    <2>3. v.fd[t] = w.fd[t] /\ v.flags[t] = w.flags[t] /\ v.buf[t] = w.buf[t]
      BY <1>1, <1>2, <2>1 DEF IoType
    <2>4. w.fd[t] # w.fd[s]
      <3>1. CASE s \in w.alive  BY <1>0, <2>1, <3>1 DEF Wiring
      <3>2. CASE s \notin w.alive
        <4>1. w.fd[s] = -1 /\ w.fd[t] \in Fds  BY <1>0, <2>1, <3>2 DEF Wiring
        <4>2. w.fd[t] \in Nat  BY <4>1, SocketAssumption
        <4> QED BY <4>1, <4>2
      <3> QED BY <3>1, <3>2
    <2>5. v.rset = w.rset \ {w.fd[s]} /\ v.wset = w.wset \ {w.fd[s]}  BY <1>1, <1>2
    <2> QED BY <2>2, <2>3, <2>4, <2>5 DEF FlagsOK, Is
  <1> QED BY <1>1, <1>2, <1>3, <1>5, <1>6, <1>7 DEF IoInv, Closed

\* socket() and accept() make a live socket with the lowest descriptor that is free, on
\* which nothing is under way.
LEMMA NewAdds ==
  ASSUME NEW w, IoInv(w, {}), NEW s \in Sock, s \notin w.alive, w.flags[s] = {},
         w.buf[s] = <<>>, Free(w) # {},
         NEW conn \in {"none", "up"}, NEW v, v = New(w, s, conn)
  PROVE  IoInv(v, {}) /\ Opened(v, w, s, conn)
  <1> DEFINE f == Lowest(Free(w))
  <1>0. IoType(w) /\ Wiring(w) /\ Timed(w)  BY DEF IoInv
  <1>1. f \in Fds /\ \A t \in w.alive : w.fd[t] # f
    BY LowestIsFree DEF Free
  <1>2. f # -1  BY <1>1, SocketAssumption
  <1>3. f \notin w.rset \cup w.wset
    BY <1>0, <1>1 DEF Wiring
  <1>4. /\ v.fd = [w.fd EXCEPT ![s] = f] /\ v.conn = [w.conn EXCEPT ![s] = conn]
        /\ v.alive = w.alive \cup {s} /\ v.flags = w.flags /\ v.buf = w.buf
        /\ v.inq = w.inq /\ v.out = w.out /\ v.eof = w.eof /\ v.timer = w.timer
        /\ v.table = w.table /\ v.rset = w.rset /\ v.wset = w.wset /\ DOMAIN v = Fields
    BY <1>0 DEF New, IoType, Fields
  <1> HIDE DEF f
  <1>5. IoType(v)  BY <1>0, <1>1, <1>4 DEF IoType
  <1>6. v.fd[s] = f /\ \A t \in Sock : t # s => v.fd[t] = w.fd[t]
    BY <1>0, <1>4 DEF IoType
  <1>7. \A t \in v.alive : t \in Sock /\ (t # s => t \in w.alive)
    BY <1>0, <1>4 DEF IoType
  <1>8. Wiring(v)
    <2>1. \A g \in Fds : v.table[g] # None =>
                            v.table[g] \in v.alive /\ v.fd[v.table[g]] = g
      BY <1>0, <1>4, <1>6 DEF Wiring, IoType
    <2>2. \A t, u \in v.alive : v.fd[t] = v.fd[u] => t = u
      BY <1>0, <1>1, <1>6, <1>7 DEF Wiring
    <2>3. \A t \in v.alive : v.fd[t] \in Fds
      BY <1>0, <1>1, <1>6, <1>7 DEF Wiring
    <2>4. \A t \in Sock : t \notin v.alive => v.fd[t] = -1
      BY <1>0, <1>4, <1>6 DEF Wiring
    <2> QED BY <1>0, <1>4, <2>1, <2>2, <2>3, <2>4 DEF Wiring
  <1>9. Timed(v)  BY <1>0, <1>4 DEF Timed, Is
  <1>10. ASSUME NEW t \in v.alive PROVE FlagsOK(v, t)
    <2>1. CASE t = s  BY <1>3, <1>4, <1>6, <2>1 DEF FlagsOK, Is
    <2>2. CASE t # s
      <3>1. t \in w.alive /\ t \in Sock  BY <1>7, <1>10, <2>2
      <3>2. FlagsOK(w, t)  BY <3>1 DEF IoInv
      <3> QED BY <1>4, <1>6, <2>2, <3>1, <3>2 DEF FlagsOK, Is
    <2> QED BY <2>1, <2>2
  <1> QED BY <1>2, <1>4, <1>5, <1>6, <1>8, <1>9, <1>10 DEF IoInv, Opened

\* A method of a socket leaves the others of the dispatcher in order, and the socket too
\* when its flags and its descriptor agree.
LEMMA BecomesInv ==
  ASSUME NEW w, IoInv(w, {}), NEW s \in w.alive, NEW v,
         NEW flags, NEW buf, NEW conn, NEW inq, NEW out,
         IoType(v), Wiring(v), Timed(v), SetsBut(v, w, s),
         Becomes(v, w, s, flags, buf, conn, inq, out)
  PROVE  IoInv(v, {s[1]}) /\ (FlagsOK(v, s) => IoInv(v, {}))
  <1>0. IoType(w) /\ Wiring(w)  BY DEF IoInv
  <1>1. ASSUME NEW t \in v.alive, t # s PROVE FlagsOK(v, t)
    <2>1. t \in w.alive /\ t \in Sock  BY <1>0, <1>1 DEF Becomes, IoType
    <2>2. v.fd[t] = w.fd[t] /\ v.flags[t] = w.flags[t] /\ v.buf[t] = w.buf[t]
      BY <1>0, <1>1, <2>1 DEF Becomes, IoType
    <2>3. w.fd[t] # w.fd[s] /\ w.fd[t] \in Fds  BY <1>0, <1>1, <2>1 DEF Wiring
    <2>4. FlagsOK(w, t)  BY <2>1 DEF IoInv
    <2> QED BY <2>2, <2>3, <2>4 DEF FlagsOK, Is, SetsBut
  <1>2. \A t \in v.alive : t[1] \notin {s[1]} => FlagsOK(v, t)  BY <1>1
  <1>3. FlagsOK(v, s) => \A t \in v.alive : FlagsOK(v, t)  BY <1>1
  <1> QED BY <1>2, <1>3 DEF IoInv

\* Two changes of one socket make one.
LEMMA BecomesTwice ==
  ASSUME NEW w, IoType(w), NEW s \in Sock, NEW v, NEW u,
         NEW flags, NEW buf, NEW conn, NEW inq, NEW out,
         Becomes(v, w, s, flags, buf, conn, inq, out),
         NEW f, NEW b, NEW c, NEW i, NEW o, Becomes(u, v, s, f, b, c, i, o)
  PROVE  Becomes(u, w, s, f, b, c, i, o)
  <1>1. u.fd = w.fd /\ u.alive = w.alive /\ u.eof = w.eof  BY DEF Becomes
  <1>2. u.flags = [w.flags EXCEPT ![s] = f]  BY ZenonT(40) DEF Becomes, IoType
  <1>3. u.buf = [w.buf EXCEPT ![s] = b]  BY ZenonT(40) DEF Becomes, IoType
  <1>4. u.conn = [w.conn EXCEPT ![s] = c]  BY DEF Becomes, IoType
  <1>5. u.inq = [w.inq EXCEPT ![s] = i]  BY DEF Becomes, IoType
  <1>6. u.out = [w.out EXCEPT ![s] = o]  BY DEF Becomes, IoType
  <1> QED BY <1>1, <1>2, <1>3, <1>4, <1>5, <1>6 DEF Becomes

\* Waiting for input sets the flag and registers the descriptor.
LEMMA AwaitBecomes ==
  ASSUME NEW w, IoInv(w, {}), NEW s \in w.alive, ~ Is(w, s, "CONNECTING"),
         NEW v, Stopped(v, w, s), NEW u,
         u = Await(v, s) \/ u = NoTimeout(Await(v, s), s)
  PROVE  /\ IoInv(u, {})
         /\ Becomes(u, w, s, w.flags[s] \cup {"RECVING"}, w.buf[s], w.conn[s],
                    w.inq[s], w.out[s])
  <1>0. IoType(w) /\ Wiring(w) /\ Timed(w) /\ FlagsOK(w, s) /\ s \in Sock
    BY DEF IoInv, IoType
  <1>1. IoType(v) /\ Wiring(v) /\ Timed(v) /\ s \in v.alive
    BY DEF Stopped, Becomes
  <1>2. PICK x : x = Set(v, s, "RECVING")  OBVIOUS
  <1>3. /\ x.flags = [v.flags EXCEPT ![s] = @ \cup {"RECVING"}]
        /\ x.rset = v.rset /\ x.wset = v.wset /\ x.table = v.table /\ x.fd = v.fd
        /\ x.alive = v.alive /\ x.eof = v.eof /\ x.buf = v.buf /\ x.conn = v.conn
        /\ x.inq = v.inq /\ x.out = v.out /\ x.timer = v.timer /\ DOMAIN x = Fields
    BY <1>1, <1>2 DEF Set, IoType, Fields
  <1>4. IoType(x)  BY <1>0, <1>1, <1>3 DEF IoType, Flags
  <1>5. Wiring(x) /\ s \in x.alive  BY <1>1, <1>3 DEF Wiring
  <1>6. Timed(x)  BY <1>0, <1>1, <1>3 DEF Timed, Is, IoType
  <1>7. PICK y : y = AddFD(x, s, "READ")  OBVIOUS
  <1>8. /\ IoType(y) /\ Wiring(y)
        /\ OnlySets(y, x, Plus(x.rset, x.fd[s], "READ" = "READ"),
                    Plus(x.wset, x.fd[s], "READ" = "WRITE"))
    <2>1. "READ" \in {"READ", "WRITE"}  OBVIOUS
    <2> QED BY <1>4, <1>5, <1>7, <2>1, AddFDAdds
  <1>9. Await(v, s) = y  BY <1>2, <1>7 DEF Await
  <1>10. /\ u.rset = y.rset /\ u.wset = y.wset /\ u.table = y.table /\ u.fd = y.fd
         /\ u.alive = y.alive /\ u.eof = y.eof /\ u.buf = y.buf /\ u.conn = y.conn
         /\ u.inq = y.inq /\ u.out = y.out /\ u.flags = y.flags /\ DOMAIN u = Fields
         /\ u.timer \subseteq y.timer
    BY <1>8, <1>9 DEF NoTimeout, IoType, Fields
  <1>11. IoType(u) /\ Wiring(u)
    <2>1. IoType(u)  BY <1>8, <1>10 DEF IoType
    <2>2. Wiring(u)  BY <1>8, <1>10 DEF Wiring
    <2> QED BY <2>1, <2>2
  <1>12. /\ y.rset = x.rset \cup {x.fd[s]} /\ y.wset = x.wset
         /\ y.fd = x.fd /\ y.flags = x.flags /\ y.buf = x.buf /\ y.timer = x.timer
         /\ y.alive = x.alive /\ y.conn = x.conn /\ y.inq = x.inq /\ y.eof = x.eof
         /\ y.out = x.out
    BY <1>8 DEF OnlySets, Plus
  <1>13. Timed(u)  BY <1>6, <1>10, <1>12 DEF Timed, Is
  <1>14. /\ v.rset = w.rset \ {w.fd[s]} /\ v.wset = w.wset
         /\ v.fd = w.fd /\ v.alive = w.alive /\ v.eof = w.eof
         /\ v.flags = [w.flags EXCEPT ![s] = w.flags[s] \ {"RECVING"}]
         /\ v.buf = [w.buf EXCEPT ![s] = w.buf[s]]
         /\ v.conn = [w.conn EXCEPT ![s] = w.conn[s]]
         /\ v.inq = [w.inq EXCEPT ![s] = w.inq[s]]
         /\ v.out = [w.out EXCEPT ![s] = w.out[s]]
    BY DEF Stopped, Becomes
  <1>15. u.flags = [w.flags EXCEPT ![s] = w.flags[s] \cup {"RECVING"}]
    <2>1. v.flags[s] = w.flags[s] \ {"RECVING"}  BY <1>0, <1>14 DEF IoType
    <2>2. v.flags[s] \cup {"RECVING"} = w.flags[s] \cup {"RECVING"}  BY <2>1
    <2>3. u.flags = [v.flags EXCEPT ![s] = w.flags[s] \cup {"RECVING"}]
      BY <1>3, <1>10, <1>12, <2>2
    <2> QED BY <1>0, <1>14, <2>3 DEF IoType
  <1>16. Becomes(u, w, s, w.flags[s] \cup {"RECVING"}, w.buf[s], w.conn[s], w.inq[s],
                 w.out[s])
    BY <1>3, <1>10, <1>12, <1>14, <1>15 DEF Becomes
  <1>17. SetsBut(u, w, s) /\ u.fd[s] \in u.rset /\ u.wset = w.wset /\ u.fd = w.fd
    BY <1>3, <1>10, <1>12, <1>14 DEF SetsBut
  <1>18. FlagsOK(u, s)
    <2>1. u.flags[s] = w.flags[s] \cup {"RECVING"} /\ u.buf[s] = w.buf[s]
      BY <1>0, <1>16 DEF Becomes, IoType
    <2> QED BY <1>0, <1>17, <2>1 DEF FlagsOK, Is
  <1> QED BY <1>11, <1>13, <1>16, <1>17, <1>18, BecomesInv

\* recv() takes the first unit, in order, reports the end only when nothing is unread, and
\* otherwise leaves the socket listened to, but for a signal.
LEMMA ReceiveOutcome ==
  ASSUME NEW w, IoInv(w, {}), NEW s \in w.alive, ~ Is(w, s, "CONNECTING"),
         NEW v, Stopped(v, w, s), NEW again, NEW after, NEW signal,
         again = Await(v, s) \/ again = NoTimeout(Await(v, s), s),
         \/ after = Await(v, s) /\ Is(w, s, "RECVING")
         \/ after = v /\ ~ Is(w, s, "RECVING"),
         NEW m \in Receive(v, s, again, IF signal THEN {Interrupted(after)} ELSE {})
  PROVE  Received(m, w, s, signal)
  <1> DEFINE idle == w.flags[s] \ {"RECVING"}
             Reads(flags, inq) ==
               Becomes(m.w, w, s, flags, w.buf[s], w.conn[s], inq, w.out[s])
  <1>0. IoType(w) /\ Wiring(w) /\ Timed(w) /\ FlagsOK(w, s) /\ s \in Sock
    BY DEF IoInv, IoType
  <1>1. IoType(v) /\ Wiring(v) /\ Timed(v) /\ s \in v.alive
    BY DEF Stopped, Becomes
  <1>2. /\ v.rset = w.rset \ {w.fd[s]} /\ v.wset = w.wset
        /\ v.fd = w.fd /\ v.alive = w.alive /\ v.eof = w.eof
        /\ v.flags = [w.flags EXCEPT ![s] = idle]
        /\ v.buf = [w.buf EXCEPT ![s] = w.buf[s]]
        /\ v.conn = [w.conn EXCEPT ![s] = w.conn[s]]
        /\ v.inq = [w.inq EXCEPT ![s] = w.inq[s]]
        /\ v.out = [w.out EXCEPT ![s] = w.out[s]]
    BY DEF Stopped, Becomes
  <1>3. v.flags[s] = idle /\ v.buf[s] = w.buf[s] /\ v.inq[s] = w.inq[s]
    BY <1>0, <1>2 DEF IoType
  <1>4. /\ TimedBut(v, s) /\ s \notin v.timer
    BY <1>0, <1>1, <1>3 DEF Timed, TimedBut, Is
  <1>5. ASSUME NEW x, IoType(x), Wiring(x), Timed(x), NEW inq, x.rset = v.rset, x.wset = v.wset,
               Becomes(x, w, s, idle, w.buf[s], w.conn[s], inq, w.out[s])
        PROVE  IoInv(x, {})
    <2>1. x.flags[s] = idle /\ x.buf[s] = w.buf[s] /\ x.fd = w.fd
      BY <1>0, <1>5 DEF Becomes, IoType
    <2>2. FlagsOK(x, s)  BY <1>0, <1>2, <1>5, <2>1 DEF FlagsOK, Is
    <2>3. SetsBut(x, w, s)  BY <1>2, <1>5 DEF SetsBut
    <2> QED BY <1>5, <2>2, <2>3, BecomesInv
  <1>6. Becomes(v, w, s, idle, w.buf[s], w.conn[s], w.inq[s], w.out[s])
    BY DEF Stopped
  <1>7. v.conn[s] = w.conn[s] /\ v.out[s] = w.out[s]  BY <1>0, <1>2 DEF IoType
  <1> HIDE DEF idle
  <1>8. CASE v.conn[s] \in {"refused", "reset"}
    <2>1. m = Call(v, s, "ERROR", 1)  BY <1>8 DEF Receive
    <2>2. Called(m, v, s, "ERROR", 1)
      BY <1>0, <1>1, <1>4, <2>1, CallBecomes
    <2>3. PICK x : x = m.w  OBVIOUS
    <2>4. /\ IoType(x) /\ Wiring(x) /\ Timed(x) /\ m.cb = <<"ERROR", 1>>
          /\ x.rset = v.rset /\ x.wset = v.wset
          /\ Becomes(x, v, s, {}, v.buf[s], v.conn[s], v.inq[s], v.out[s])
      BY <2>2, <2>3 DEF Called
    <2>5. Becomes(x, w, s, {}, v.buf[s], v.conn[s], v.inq[s], v.out[s])
      BY <1>0, <1>6, <2>4, BecomesTwice
    <2>6. SetsBut(x, w, s)  BY <1>2, <2>4 DEF SetsBut
    <2>7. IoInv(x, {s[1]})  BY <2>4, <2>5, <2>6, BecomesInv
    <2> QED BY <1>3, <1>7, <2>3, <2>4, <2>5, <2>7 DEF Received
  <1>9. CASE m \in IF signal THEN {Interrupted(after)} ELSE {}
    <2>1. m = Interrupted(after) /\ signal  BY <1>9
    <2>2. m.cb = <<"EINTR">> /\ m.w = after  BY <2>1 DEF Interrupted
    <2>3. IoInv(after, {})
          /\ Becomes(after, w, s, w.flags[s], w.buf[s], w.conn[s], w.inq[s], w.out[s])
      <3>1. CASE after = Await(v, s) /\ Is(w, s, "RECVING")
        <4>1. w.flags[s] \cup {"RECVING"} = w.flags[s]  BY <3>1 DEF Is
        <4> QED BY <3>1, <4>1, AwaitBecomes
      <3>2. CASE after = v /\ ~ Is(w, s, "RECVING")
        <4>1. idle = w.flags[s]  BY <3>2 DEF Is, idle
        <4> QED BY <1>1, <1>5, <1>6, <3>2, <4>1
      <3> QED BY <3>1, <3>2
    <2> QED BY <2>1, <2>2, <2>3 DEF Received
  <1>10. CASE /\ v.conn[s] \notin {"refused", "reset"} /\ w.inq[s] # <<>>
              /\ m \notin IF signal THEN {Interrupted(after)} ELSE {}
    <2>1. PICK y : y = [v EXCEPT !.inq[s] = Tail(@)]  OBVIOUS
    <2>2. m = Call(y, s, "READ", Head(w.inq[s]))
      BY <1>3, <1>10, <2>1 DEF Receive
    <2>3. /\ y.rset = v.rset /\ y.wset = v.wset /\ y.table = v.table /\ y.fd = v.fd
          /\ y.alive = v.alive /\ y.eof = v.eof /\ y.buf = v.buf /\ y.conn = v.conn
          /\ y.inq = [v.inq EXCEPT ![s] = Tail(w.inq[s])] /\ y.out = v.out
          /\ y.timer = v.timer /\ DOMAIN y = Fields /\ y.flags = v.flags
      BY <1>1, <1>3, <2>1 DEF IoType, Fields
    <2>4. Tail(w.inq[s]) \in Seq(Unit)  BY <1>0, <1>10 DEF IoType
    <2>5. IoType(y)  BY <1>1, <2>3, <2>4 DEF IoType
    <2>6. Wiring(y) /\ TimedBut(y, s) /\ s \notin y.timer
      BY <1>1, <1>4, <2>3 DEF Wiring, TimedBut, Is
    <2>7. Becomes(y, w, s, idle, w.buf[s], w.conn[s], Tail(w.inq[s]), w.out[s])
      <3>1. w.inq \in [Sock -> Seq(Unit)]  BY <1>0 DEF IoType
      <3>2. y.inq = [w.inq EXCEPT ![s] = Tail(w.inq[s])]
        BY <1>0, <1>2, <2>3, <3>1
      <3> QED BY <1>2, <2>3, <3>2 DEF Becomes
    <2>8. Called(m, y, s, "READ", Head(w.inq[s]))
      BY <1>0, <2>2, <2>5, <2>6, CallBecomes
    <2>9. PICK x : x = m.w  OBVIOUS
    <2>10. /\ IoType(x) /\ Wiring(x) /\ Timed(x) /\ m.cb = <<"READ", Head(w.inq[s])>>
           /\ x.rset = y.rset /\ x.wset = y.wset
           /\ Becomes(x, y, s, y.flags[s], y.buf[s], y.conn[s], y.inq[s], y.out[s])
      BY <2>8, <2>9 DEF Called
    <2>11. Becomes(x, w, s, y.flags[s], y.buf[s], y.conn[s], y.inq[s], y.out[s])
      BY <1>0, <2>7, <2>10, BecomesTwice
    <2>12. y.flags[s] = idle /\ y.buf[s] = w.buf[s] /\ y.conn[s] = w.conn[s]
           /\ y.inq[s] = Tail(w.inq[s]) /\ y.out[s] = w.out[s]
      <3>1. y.flags[s] = idle /\ y.buf[s] = w.buf[s] /\ y.conn[s] = w.conn[s]
            /\ y.out[s] = w.out[s]
        BY <1>3, <1>7, <2>3
      <3>2. v.inq \in [Sock -> Seq(Unit)]  BY <1>1 DEF IoType
      <3>3. y.inq[s] = Tail(w.inq[s])  BY <1>0, <2>3, <3>2
      <3> QED BY <3>1, <3>3
    <2>13. Becomes(x, w, s, idle, w.buf[s], w.conn[s], Tail(w.inq[s]), w.out[s])
      BY <2>11, <2>12
    <2>14. IoInv(x, {})  BY <1>5, <2>3, <2>10, <2>13
    <2> QED BY <1>10, <2>9, <2>10, <2>13, <2>14 DEF Received, idle
  <1>11. CASE /\ v.conn[s] \notin {"refused", "reset"} /\ w.inq[s] = <<>> /\ s \in v.eof
    <2>1. m = Call(v, s, "READ", 0)  BY <1>3, <1>11 DEF Receive
    <2>2. Called(m, v, s, "READ", 0)
      BY <1>0, <1>1, <1>4, <2>1, CallBecomes
    <2>3. PICK x : x = m.w  OBVIOUS
    <2>4. /\ IoType(x) /\ Wiring(x) /\ Timed(x) /\ m.cb = <<"READ", 0>>
          /\ x.rset = v.rset /\ x.wset = v.wset
          /\ Becomes(x, v, s, v.flags[s], v.buf[s], v.conn[s], v.inq[s], v.out[s])
      BY <2>2, <2>3 DEF Called
    <2>5. Becomes(x, w, s, v.flags[s], v.buf[s], v.conn[s], v.inq[s], v.out[s])
      BY <1>0, <1>6, <2>4, BecomesTwice
    <2>6. Becomes(x, w, s, idle, w.buf[s], w.conn[s], w.inq[s], w.out[s])
      BY <1>3, <1>7, <2>5
    <2>7. IoInv(x, {})  BY <1>5, <2>4, <2>6
    <2> QED BY <1>11, <2>3, <2>4, <2>6, <2>7 DEF Received, idle
  <1>12. CASE /\ v.conn[s] \notin {"refused", "reset"} /\ w.inq[s] = <<>> /\ s \notin v.eof
    <2>1. m = NoCall(again)  BY <1>3, <1>12 DEF Receive
    <2>2. m.cb = <<>> /\ m.w = again  BY <2>1 DEF NoCall
    <2>3. /\ IoInv(again, {})
          /\ Becomes(again, w, s, w.flags[s] \cup {"RECVING"}, w.buf[s], w.conn[s],
                     w.inq[s], w.out[s])
      BY AwaitBecomes
    <2> QED BY <2>2, <2>3 DEF Received
  <1> QED BY <1>8, <1>9, <1>10, <1>11, <1>12

\* What is read is not listened to.
LEMMA Unheard ==
  ASSUME NEW w, IoInv(w, {}), NEW s \in w.alive, NEW v, v = RemFD(w, s, {"READ"}),
         NEW u, u = Clear(v, s, {"RECVING"}) \/ (u = v /\ ~ Is(w, s, "RECVING"))
  PROVE  Stopped(u, w, s)
  <1>0. IoType(w) /\ Wiring(w) /\ Timed(w) /\ FlagsOK(w, s) /\ s \in Sock
    BY DEF IoInv, IoType
  <1> DEFINE types == {"READ"}
  <1>1. /\ IoType(v) /\ Wiring(v)
        /\ OnlySets(v, w, Minus(w.rset, w.fd[s], "READ" \in types),
                    Minus(w.wset, w.fd[s], "WRITE" \in types))
    BY <1>0, RemFDRemoves
  <1>2. /\ v.rset = w.rset \ {w.fd[s]} /\ v.wset = w.wset
        /\ v.fd = w.fd /\ v.flags = w.flags /\ v.buf = w.buf /\ v.timer = w.timer
        /\ v.alive = w.alive /\ v.conn = w.conn /\ v.inq = w.inq /\ v.eof = w.eof
        /\ v.out = w.out
    BY <1>1 DEF OnlySets, Minus
  <1>3. /\ u.rset = v.rset /\ u.wset = v.wset /\ u.table = v.table /\ u.fd = v.fd
        /\ u.alive = v.alive /\ u.eof = v.eof /\ u.buf = v.buf /\ u.conn = v.conn
        /\ u.inq = v.inq /\ u.out = v.out /\ u.timer = v.timer /\ DOMAIN u = Fields
        /\ u.flags = [v.flags EXCEPT ![s] = v.flags[s] \ {"RECVING"}]
    <2>1. CASE u = Clear(v, s, {"RECVING"})
      BY <1>1, <2>1 DEF Clear, IoType, Fields
    <2>2. CASE u = v /\ ~ Is(w, s, "RECVING")
      <3>1. v.flags[s] \ {"RECVING"} = v.flags[s]  BY <1>2, <2>2 DEF Is
      <3> QED BY <1>1, <2>2, <3>1 DEF IoType
    <2> QED BY <2>1, <2>2
  <1>4. IoType(u)  BY <1>0, <1>1, <1>3 DEF IoType
  <1>5. Wiring(u)  BY <1>1, <1>3 DEF Wiring
  <1>6. Timed(u)  BY <1>0, <1>2, <1>3 DEF Timed, Is, IoType
  <1>7. Becomes(u, w, s, w.flags[s] \ {"RECVING"}, w.buf[s], w.conn[s], w.inq[s], w.out[s])
    BY <1>0, <1>2, <1>3 DEF Becomes, IoType
  <1> QED BY <1>2, <1>3, <1>4, <1>5, <1>6, <1>7 DEF Stopped

\* HandleRead() of a socket that is listened to, and AsyncRecv() of one that is not: the
\* outcomes are those of recv().
LEMMA HandleReadOutcome ==
  ASSUME NEW w, IoInv(w, {}), NEW s \in w.alive, Is(w, s, "RECVING"), NEW signal,
         NEW m \in HandleRead(w, s, signal)
  PROVE  Received(m, w, s, signal)
  <1>0. FlagsOK(w, s)  BY DEF IoInv
  <1>1. ~ Is(w, s, "CONNECTING")  BY <1>0 DEF FlagsOK, Is
  <1>2. PICK v : v = RemFD(w, s, {"READ"})  OBVIOUS
  <1>3. PICK u : u = Clear(v, s, {"RECVING"})  OBVIOUS
  <1>4. Stopped(u, w, s)  BY <1>2, <1>3, Unheard
  <1>5. PICK after : after = Await(u, s)  OBVIOUS
  <1>6. m \in Receive(u, s, after, IF signal THEN {Interrupted(after)} ELSE {})
    BY <1>2, <1>3, <1>5 DEF HandleRead
  <1> QED BY <1>1, <1>4, <1>5, <1>6, ReceiveOutcome

\* AsyncRecv() on a socket that is not listened to yet.
LEMMA AsyncRecvOutcome ==
  ASSUME NEW w, IoInv(w, {}), NEW s \in w.alive, ~ Is(w, s, "RECVING"),
         ~ Is(w, s, "CONNECTING"), NEW signal, NEW m \in AsyncRecv(w, s, signal)
  PROVE  Received(m, w, s, signal)
  <1>1. PICK v : v = RemFD(w, s, {"READ"})  OBVIOUS
  <1>2. Stopped(v, w, s)  BY <1>1, Unheard
  <1>3. PICK again : again = NoTimeout(Await(v, s), s)  OBVIOUS
  <1>4. m \in Receive(v, s, again, IF signal THEN {Interrupted(v)} ELSE {})
    BY <1>1, <1>3 DEF AsyncRecv
  <1> QED BY <1>2, <1>3, <1>4, ReceiveOutcome

\* The outcomes of send() and of the end of a connect(), and of a timeout.
Written(m, w, s) ==
    LET Writes(flags, buf, out) ==
            Becomes(m.w, w, s, flags, buf, w.conn[s], w.inq[s], out)
        b == w.buf[s]
    IN \/ /\ Is(w, s, "CONNECTING") /\ IoInv(m.w, {}) /\ Writes({}, b, w.out[s])
          /\ m.cb = <<"CONNECTED", IF w.conn[s] \in {"up", "connecting"} THEN 0 ELSE 1>>
       \/ m.cb = <<"ERROR", 1>> /\ IoInv(m.w, {s[1]}) /\ Writes({}, <<>>, w.out[s])
       \/ /\ m.cb \in {<<>>, <<"WRITTEN", 0>>} /\ IoInv(m.w, {})
          /\ ~ Is(w, s, "CONNECTING")
          /\ \E n \in 0..Len(b), f \in {"SENDING", "RECVING"} :
                Writes(w.flags[s] \cap {"RECVING", f}, SubSeq(b, n + 1, Len(b)),
                       w.out[s] \o SubSeq(b, 1, n))

\* HandleWrite() of a socket that is connecting reports that, and of one that is sending
\* sends the first units that are queued, in order, and keeps the rest.
LEMMA HandleWriteOutcome ==
  ASSUME NEW w, IoInv(w, {}), NEW s \in w.alive,
         Is(w, s, "SENDING") \/ Is(w, s, "CONNECTING"), NEW m \in HandleWrite(w, s)
  PROVE  Written(m, w, s)
  <1> DEFINE b == w.buf[s]
             types == {"WRITE"}
             idle == w.flags[s] \ {"SENDING"}
  <1>0. IoType(w) /\ Wiring(w) /\ Timed(w) /\ FlagsOK(w, s) /\ s \in Sock
    BY DEF IoInv, IoType
  <1>1. PICK r : r = RemFD(w, s, {"WRITE"})  OBVIOUS
  <1>2. /\ IoType(r) /\ Wiring(r)
        /\ OnlySets(r, w, Minus(w.rset, w.fd[s], "READ" \in types),
                    Minus(w.wset, w.fd[s], "WRITE" \in types))
    BY <1>0, <1>1, RemFDRemoves
  <1>3. /\ r.rset = w.rset /\ r.wset = w.wset \ {w.fd[s]}
        /\ r.fd = w.fd /\ r.flags = w.flags /\ r.buf = w.buf /\ r.timer = w.timer
        /\ r.alive = w.alive /\ r.conn = w.conn /\ r.inq = w.inq /\ r.eof = w.eof
        /\ r.out = w.out
    BY <1>2 DEF OnlySets, Minus
  <1>4. PICK v : v = Clear(r, s, {"SENDING"})  OBVIOUS
  <1>5. /\ v.rset = r.rset /\ v.wset = r.wset /\ v.table = r.table /\ v.fd = r.fd
        /\ v.alive = r.alive /\ v.eof = r.eof /\ v.buf = r.buf /\ v.conn = r.conn
        /\ v.inq = r.inq /\ v.out = r.out /\ v.timer = r.timer /\ DOMAIN v = Fields
        /\ v.flags = [r.flags EXCEPT ![s] = r.flags[s] \ {"SENDING"}]
    BY <1>2, <1>4 DEF Clear, IoType, Fields
  <1>6. IoType(v)  BY <1>0, <1>2, <1>5 DEF IoType
  <1>7. Wiring(v)  BY <1>2, <1>5 DEF Wiring
  <1>8. Timed(v)  BY <1>0, <1>3, <1>5 DEF Timed, Is, IoType
  <1>9. /\ v.flags[s] = idle /\ v.buf[s] = b /\ v.conn[s] = w.conn[s]
        /\ v.inq[s] = w.inq[s] /\ v.out[s] = w.out[s]
    <2>1. w.flags \in [Sock -> SUBSET Flags]  BY <1>0 DEF IoType
    <2>2. v.flags[s] = idle  BY <1>0, <1>3, <1>5, <2>1
    <2> QED BY <1>3, <1>5, <2>2
  <1>10. Becomes(v, w, s, idle, b, w.conn[s], w.inq[s], w.out[s])
    BY <1>0, <1>3, <1>5 DEF Becomes, IoType
  <1>11. HandleWrite(w, s) =
           LET moved(n) == [v EXCEPT !.out[s] = @ \o SubSeq(b, 1, n),
                                     !.buf[s] = SubSeq(b, n + 1, Len(b))]
           IN IF Is(w, s, "CONNECTING")
              THEN {Call(Clear(v, s, {"CONNECTING"}), s, "CONNECTED",
                         IF w.conn[s] \in {"up", "connecting"} THEN 0 ELSE 1)}
              ELSE IF b = <<>> THEN {NoCall(v)}
              ELSE IF w.conn[s] \in {"refused", "reset"}
              THEN {Call([v EXCEPT !.buf[s] = <<>>], s, "ERROR", 1)}
              ELSE {IF n = Len(b) THEN Call(moved(n), s, "WRITTEN", 0)
                    ELSE NoCall(AddFD(Set(moved(n), s, "SENDING"), s, "WRITE"))
                    : n \in IF w.conn[s] = "up" THEN 1..Len(b) ELSE {0}}
    BY <1>1, <1>4, ZenonT(40) DEF HandleWrite
  <1> HIDE DEF idle, b
  <1>12. s \notin w.timer \/ Is(w, s, "CONNECTING")  BY <1>0 DEF Timed
  <1>13. CASE Is(w, s, "CONNECTING")
    <2> DEFINE d == IF w.conn[s] \in {"up", "connecting"} THEN 0 ELSE 1
    <2>1. PICK y : y = Clear(v, s, {"CONNECTING"})  OBVIOUS
    <2>2. m = Call(y, s, "CONNECTED", d)  BY <1>11, <1>13, <2>1
    <2> HIDE DEF d
    <2>3. /\ y.rset = v.rset /\ y.wset = v.wset /\ y.table = v.table /\ y.fd = v.fd
          /\ y.alive = v.alive /\ y.eof = v.eof /\ y.buf = v.buf /\ y.conn = v.conn
          /\ y.inq = v.inq /\ y.out = v.out /\ y.timer = v.timer /\ DOMAIN y = Fields
          /\ y.flags = [v.flags EXCEPT ![s] = v.flags[s] \ {"CONNECTING"}]
      BY <1>6, <2>1 DEF Clear, IoType, Fields
    <2>4. v.flags[s] \ {"CONNECTING"} = {}
      BY <1>0, <1>9, <1>13 DEF FlagsOK, idle
    <2>5. IoType(y)  BY <1>0, <1>6, <2>3 DEF IoType
    <2>6. Wiring(y)  BY <1>7, <2>3 DEF Wiring
    <2>7. TimedBut(y, s)  BY <1>0, <1>6, <1>8, <2>3 DEF Timed, TimedBut, Is, IoType
    <2>8. Called(m, y, s, "CONNECTED", d)
      BY <1>0, <2>2, <2>5, <2>6, <2>7, CallBecomes
    <2>9. PICK x : x = m.w  OBVIOUS
    <2>10. /\ IoType(x) /\ Wiring(x) /\ Timed(x) /\ m.cb = <<"CONNECTED", d>>
           /\ x.rset = y.rset /\ x.wset = y.wset
           /\ Becomes(x, y, s, y.flags[s], y.buf[s], y.conn[s], y.inq[s], y.out[s])
      BY <2>8, <2>9 DEF Called
    <2>11. Becomes(y, w, s, {}, b, w.conn[s], w.inq[s], w.out[s])
      <3>1. y.flags = [v.flags EXCEPT ![s] = {}]  BY <2>3, <2>4
      <3>2. y.flags = [w.flags EXCEPT ![s] = {}]  BY <1>0, <1>10, <3>1 DEF Becomes, IoType
      <3> QED BY <1>10, <2>3, <3>2 DEF Becomes
    <2>12. Becomes(x, w, s, y.flags[s], y.buf[s], y.conn[s], y.inq[s], y.out[s])
      BY <1>0, <2>10, <2>11, BecomesTwice
    <2>13. y.flags[s] = {} /\ y.buf[s] = b /\ y.conn[s] = w.conn[s]
           /\ y.inq[s] = w.inq[s] /\ y.out[s] = w.out[s]
      <3>1. v.flags \in [Sock -> SUBSET Flags]  BY <1>6 DEF IoType
      <3>2. y.flags[s] = {}  BY <1>0, <2>3, <2>4, <3>1
      <3> QED BY <1>9, <2>3, <3>2
    <2>14. Becomes(x, w, s, {}, b, w.conn[s], w.inq[s], w.out[s])
      BY <2>12, <2>13
    <2>15. SetsBut(x, w, s) /\ x.rset = w.rset /\ x.wset = w.wset \ {w.fd[s]} /\ x.fd = w.fd
      BY <1>3, <1>5, <2>3, <2>10, <2>14 DEF SetsBut, Becomes
    <2>16. x.flags[s] = {} /\ x.buf[s] = w.buf[s]
      BY <1>0, <2>14 DEF Becomes, IoType, b
    <2>17. FlagsOK(x, s)
      BY <1>0, <1>13, <2>15, <2>16 DEF FlagsOK, Is
    <2>18. IoInv(x, {})  BY <2>10, <2>14, <2>15, <2>17, BecomesInv
    <2> QED BY <1>13, <2>9, <2>10, <2>14, <2>18 DEF Written, b, d
  <1>14. CASE ~ Is(w, s, "CONNECTING") /\ w.conn[s] \in {"refused", "reset"}
    <2>0. b # <<>>  BY <1>0, <1>14 DEF FlagsOK, b
    <2>1. PICK y : y = [v EXCEPT !.buf[s] = <<>>]  OBVIOUS
    <2>2. m = Call(y, s, "ERROR", 1)  BY <1>11, <1>14, <2>0, <2>1
    <2>3. /\ y.rset = v.rset /\ y.wset = v.wset /\ y.table = v.table /\ y.fd = v.fd
          /\ y.alive = v.alive /\ y.eof = v.eof /\ y.conn = v.conn /\ y.flags = v.flags
          /\ y.inq = v.inq /\ y.out = v.out /\ y.timer = v.timer /\ DOMAIN y = Fields
          /\ y.buf = [v.buf EXCEPT ![s] = <<>>]
      BY <1>6, <2>1 DEF IoType, Fields
    <2>4. <<>> \in Seq(Unit)  OBVIOUS
    <2>5. IoType(y)  BY <1>0, <1>6, <2>3, <2>4 DEF IoType
    <2>6. Wiring(y)  BY <1>7, <2>3 DEF Wiring
    <2>7. TimedBut(y, s)  BY <1>8, <2>3 DEF Timed, TimedBut, Is
    <2>8. Called(m, y, s, "ERROR", 1)
      BY <1>0, <2>2, <2>5, <2>6, <2>7, CallBecomes
    <2>9. PICK x : x = m.w  OBVIOUS
    <2>10. /\ IoType(x) /\ Wiring(x) /\ Timed(x) /\ m.cb = <<"ERROR", 1>>
           /\ x.rset = y.rset /\ x.wset = y.wset
           /\ Becomes(x, y, s, {}, y.buf[s], y.conn[s], y.inq[s], y.out[s])
      BY <2>8, <2>9 DEF Called
    <2>11. Becomes(y, w, s, idle, <<>>, w.conn[s], w.inq[s], w.out[s])
      <3>1. y.buf = [w.buf EXCEPT ![s] = <<>>]
        BY <1>0, <1>10, <2>3 DEF Becomes, IoType
      <3> QED BY <1>10, <2>3, <3>1 DEF Becomes
    <2>12. Becomes(x, w, s, {}, y.buf[s], y.conn[s], y.inq[s], y.out[s])
      BY <1>0, <2>10, <2>11, BecomesTwice
    <2>13. y.buf[s] = <<>> /\ y.conn[s] = w.conn[s]
           /\ y.inq[s] = w.inq[s] /\ y.out[s] = w.out[s]
      <3>1. v.buf \in [Sock -> Seq(Unit)]  BY <1>6 DEF IoType
      <3>2. y.buf[s] = <<>>  BY <1>0, <2>3, <3>1
      <3> QED BY <1>9, <2>3, <3>2
    <2>14. Becomes(x, w, s, {}, <<>>, w.conn[s], w.inq[s], w.out[s])
      BY <2>12, <2>13
    <2>15. SetsBut(x, w, s)
      BY <1>3, <1>5, <2>3, <2>10 DEF SetsBut
    <2>16. IoInv(x, {s[1]})  BY <2>10, <2>14, <2>15, BecomesInv
    <2> QED BY <2>9, <2>10, <2>14, <2>16 DEF Written
  <1>15. CASE ~ Is(w, s, "CONNECTING") /\ w.conn[s] \notin {"refused", "reset"}
    <2>0. b # <<>> /\ s \notin v.timer
      BY <1>0, <1>3, <1>5, <1>12, <1>15 DEF FlagsOK, b
    <2>1. PICK n \in IF w.conn[s] = "up" THEN 1..Len(b) ELSE {0} :
            LET y == [v EXCEPT !.out[s] = @ \o SubSeq(b, 1, n),
                               !.buf[s] = SubSeq(b, n + 1, Len(b))]
            IN m = IF n = Len(b) THEN Call(y, s, "WRITTEN", 0)
                   ELSE NoCall(AddFD(Set(y, s, "SENDING"), s, "WRITE"))
      BY <1>11, <1>15, <2>0
    <2> DEFINE bf == SubSeq(b, n + 1, Len(b))
               o  == w.out[s] \o SubSeq(b, 1, n)
    <2>2. b \in Seq(Unit) /\ Len(b) \in Nat /\ w.out[s] \in Seq(Unit)
      BY <1>0 DEF IoType, b
    <2>3. n \in 0..Len(b)  BY <2>1, <2>2
    <2>4. bf \in Seq(Unit) /\ o \in Seq(Unit) /\ (bf = <<>> <=> n = Len(b))
      <3>1. bf \in Seq(Unit) /\ (bf = <<>> <=> n = Len(b)) /\ SubSeq(b, 1, n) \in Seq(Unit)
        BY <2>2, <2>3, SubSeqSplits
      <3>2. o \in Seq(Unit)  BY <2>2, <3>1, ConcatProperties
      <3> QED BY <3>1, <3>2
    <2> HIDE DEF bf, o
    <2>5. PICK y : y = [v EXCEPT !.out[s] = @ \o SubSeq(b, 1, n),
                                 !.buf[s] = SubSeq(b, n + 1, Len(b))]
      OBVIOUS
    <2>6. /\ y.rset = v.rset /\ y.wset = v.wset /\ y.table = v.table /\ y.fd = v.fd
          /\ y.alive = v.alive /\ y.eof = v.eof /\ y.conn = v.conn /\ y.flags = v.flags
          /\ y.inq = v.inq /\ y.timer = v.timer /\ DOMAIN y = Fields
          /\ y.buf = [v.buf EXCEPT ![s] = bf] /\ y.out = [v.out EXCEPT ![s] = o]
      BY <1>6, <1>9, <2>5 DEF IoType, Fields, bf, o
    <2>7. IoType(y)  BY <1>0, <1>6, <2>4, <2>6, SMTT(30) DEF IoType
    <2>8. Wiring(y)  BY <1>7, <2>6 DEF Wiring
    <2>9. Timed(y) /\ TimedBut(y, s) /\ s \notin y.timer
      BY <1>8, <2>0, <2>6 DEF Timed, TimedBut, Is
    <2>10. Becomes(y, w, s, idle, bf, w.conn[s], w.inq[s], o)
      <3>1. y.buf = [w.buf EXCEPT ![s] = bf]
        BY <1>0, <1>10, <2>6 DEF Becomes, IoType
      <3>2. y.out = [w.out EXCEPT ![s] = o]
        BY <1>0, <1>10, <2>6 DEF Becomes, IoType
      <3> QED BY <1>10, <2>6, <3>1, <3>2 DEF Becomes
    <2>11. y.flags[s] = idle /\ y.buf[s] = bf /\ y.conn[s] = w.conn[s]
           /\ y.inq[s] = w.inq[s] /\ y.out[s] = o
      <3>1. v.buf \in [Sock -> Seq(Unit)] /\ v.out \in [Sock -> Seq(Unit)]
        BY <1>6 DEF IoType
      <3>2. y.buf[s] = bf /\ y.out[s] = o  BY <1>0, <2>6, <3>1
      <3> QED BY <1>9, <2>6, <3>2
    <2>12. idle = w.flags[s] \cap {"RECVING", "RECVING"}
      BY <1>0, <1>15 DEF IoType, Flags, Is, idle
    <2>13. CASE n = Len(b)
      <3>1. m = Call(y, s, "WRITTEN", 0)  BY <2>1, <2>5, <2>13
      <3>2. Called(m, y, s, "WRITTEN", 0)
        BY <1>0, <2>7, <2>8, <2>9, <3>1, CallBecomes
      <3>3. PICK x : x = m.w  OBVIOUS
      <3>4. /\ IoType(x) /\ Wiring(x) /\ Timed(x) /\ m.cb = <<"WRITTEN", 0>>
            /\ x.rset = y.rset /\ x.wset = y.wset
            /\ Becomes(x, y, s, y.flags[s], y.buf[s], y.conn[s], y.inq[s], y.out[s])
        BY <3>2, <3>3 DEF Called
      <3>5. Becomes(x, w, s, y.flags[s], y.buf[s], y.conn[s], y.inq[s], y.out[s])
        BY <1>0, <2>10, <3>4, BecomesTwice
      <3>6. Becomes(x, w, s, idle, bf, w.conn[s], w.inq[s], o)
        BY <2>11, <3>5
      <3>7. SetsBut(x, w, s) /\ x.rset = w.rset /\ x.wset = w.wset \ {w.fd[s]} /\ x.fd = w.fd
        BY <1>3, <1>5, <2>6, <3>4, <3>6 DEF SetsBut, Becomes
      <3>8. x.flags[s] = idle /\ x.buf[s] = <<>>
        BY <1>0, <2>4, <2>13, <3>6 DEF Becomes, IoType
      <3>9. FlagsOK(x, s)
        BY <1>0, <1>15, <3>7, <3>8 DEF FlagsOK, Is, idle
      <3>10. IoInv(x, {})  BY <3>4, <3>6, <3>7, <3>9, BecomesInv
      <3>11. /\ m.cb \in {<<>>, <<"WRITTEN", 0>>}
             /\ Becomes(m.w, w, s, w.flags[s] \cap {"RECVING", "RECVING"},
                        SubSeq(w.buf[s], n + 1, Len(w.buf[s])), w.conn[s], w.inq[s],
                        w.out[s] \o SubSeq(w.buf[s], 1, n))
        BY <2>12, <3>3, <3>4, <3>6 DEF b, bf, o
      <3>12. n \in 0..Len(w.buf[s])  BY <2>3 DEF b
      <3> QED BY <1>15, <3>3, <3>10, <3>11, <3>12 DEF Written
    <2>14. CASE n # Len(b)
      <3>1. m = NoCall(AddFD(Set(y, s, "SENDING"), s, "WRITE"))  BY <2>1, <2>5, <2>14
      <3>2. PICK z : z = Set(y, s, "SENDING")  OBVIOUS
      <3>3. /\ z.rset = y.rset /\ z.wset = y.wset /\ z.table = y.table /\ z.fd = y.fd
            /\ z.alive = y.alive /\ z.eof = y.eof /\ z.conn = y.conn
            /\ z.inq = y.inq /\ z.timer = y.timer /\ DOMAIN z = Fields
            /\ z.buf = y.buf /\ z.out = y.out
            /\ z.flags = [y.flags EXCEPT ![s] = y.flags[s] \cup {"SENDING"}]
        BY <2>7, <3>2 DEF Set, IoType, Fields
      <3>4. IoType(z)  BY <1>0, <2>7, <3>3, SMTT(30) DEF IoType, Flags
      <3>5. Wiring(z)  BY <2>8, <3>3 DEF Wiring
      <3>6. Timed(z)
        <4>1. \A t \in Sock : t # s => z.flags[t] = y.flags[t]
          BY <1>0, <2>7, <3>3 DEF IoType
        <4>2. z.timer \subseteq Sock  BY <3>4 DEF IoType
        <4> QED BY <2>9, <3>3, <4>1, <4>2 DEF Timed, Is
      <3>7. PICK x : x = AddFD(z, s, "WRITE")  OBVIOUS
      <3>8. s \in z.alive /\ "WRITE" \in {"READ", "WRITE"}
        BY <2>6, <2>10, <3>3 DEF Becomes
      <3>9. /\ IoType(x) /\ Wiring(x)
            /\ OnlySets(x, z, Plus(z.rset, z.fd[s], "WRITE" = "READ"),
                        Plus(z.wset, z.fd[s], "WRITE" = "WRITE"))
        BY <3>4, <3>5, <3>7, <3>8, AddFDAdds
      <3>10. /\ x.rset = z.rset /\ x.wset = z.wset \cup {z.fd[s]}
             /\ x.fd = z.fd /\ x.flags = z.flags /\ x.buf = z.buf /\ x.timer = z.timer
             /\ x.alive = z.alive /\ x.conn = z.conn /\ x.inq = z.inq /\ x.eof = z.eof
             /\ x.out = z.out
        BY <3>9 DEF OnlySets, Plus
      <3>11. Timed(x)  BY <3>6, <3>10 DEF Timed, Is
      <3>12. y.flags[s] \cup {"SENDING"} = w.flags[s] \cap {"RECVING", "SENDING"}
        <4>1. Is(w, s, "SENDING")  BY <1>15
        <4> QED BY <1>0, <1>15, <2>11, <4>1 DEF IoType, Flags, Is, idle
      <3>13. Becomes(x, w, s, w.flags[s] \cap {"RECVING", "SENDING"}, bf, w.conn[s],
                     w.inq[s], o)
        <4>1. x.flags = [y.flags EXCEPT ![s] = w.flags[s] \cap {"RECVING", "SENDING"}]
          BY <3>3, <3>10, <3>12
        <4>2. x.flags = [w.flags EXCEPT ![s] = w.flags[s] \cap {"RECVING", "SENDING"}]
          BY <1>0, <2>10, <4>1 DEF Becomes, IoType
        <4> QED BY <2>10, <3>3, <3>10, <4>2 DEF Becomes
      <3>14. SetsBut(x, w, s) /\ x.rset = w.rset /\ w.fd[s] \in x.wset /\ x.fd = w.fd
        BY <1>3, <1>5, <2>6, <3>3, <3>10, <3>13 DEF SetsBut, Becomes
      <3>15. x.flags[s] = w.flags[s] \cap {"RECVING", "SENDING"} /\ x.buf[s] = bf
        BY <1>0, <3>13 DEF Becomes, IoType
      <3>16. FlagsOK(x, s)
        <4>1. Is(w, s, "SENDING") /\ bf # <<>>  BY <1>15, <2>4, <2>14
        <4> QED BY <1>0, <1>15, <3>14, <3>15, <4>1 DEF FlagsOK, Is
      <3>17. IoInv(x, {})  BY <3>9, <3>11, <3>13, <3>14, <3>16, BecomesInv
      <3>18. m.w = x /\ m.cb = <<>>  BY <3>1, <3>2, <3>7 DEF NoCall
      <3>19. /\ m.cb \in {<<>>, <<"WRITTEN", 0>>}
             /\ Becomes(m.w, w, s, w.flags[s] \cap {"RECVING", "SENDING"},
                        SubSeq(w.buf[s], n + 1, Len(w.buf[s])), w.conn[s], w.inq[s],
                        w.out[s] \o SubSeq(w.buf[s], 1, n))
        BY <3>13, <3>18 DEF b, bf, o
      <3>20. n \in 0..Len(w.buf[s])  BY <2>3 DEF b
      <3> QED BY <1>15, <3>17, <3>18, <3>19, <3>20 DEF Written
    <2> QED BY <2>13, <2>14
  <1> QED BY <1>13, <1>14, <1>15

\* A timeout ends the connect() that took too long.
TimedOut(m, w, s) ==
    /\ m.cb = <<"TIMEOUT", 0>> /\ IoInv(m.w, {})
    /\ Becomes(m.w, w, s, {}, <<>>, w.conn[s], w.inq[s], w.out[s])

\* HandleTimeout() drops what is queued and takes the socket out of the dispatcher.
LEMMA HandleTimeoutOutcome ==
  ASSUME NEW w, IoInv(w, {}), NEW s \in w.timer, NEW m \in HandleTimeout(w, s)
  PROVE  TimedOut(m, w, s)
  <1>0. IoType(w) /\ Wiring(w) /\ Timed(w) /\ FlagsOK(w, s) /\ s \in w.alive /\ s \in Sock
    BY DEF IoInv, IoType, Timed
  <1>1. PICK y : y = Clear([w EXCEPT !.buf[s] = <<>>], s,
                           {"SENDING", "RECVING", "CONNECTING"})
    OBVIOUS
  <1>2. /\ y.rset = w.rset /\ y.wset = w.wset /\ y.table = w.table /\ y.fd = w.fd
        /\ y.alive = w.alive /\ y.eof = w.eof /\ y.conn = w.conn
        /\ y.inq = w.inq /\ y.timer = w.timer /\ DOMAIN y = Fields
        /\ y.buf = [w.buf EXCEPT ![s] = <<>>] /\ y.out = w.out
        /\ y.flags = [w.flags EXCEPT
                        ![s] = w.flags[s] \ {"SENDING", "RECVING", "CONNECTING"}]
    BY <1>0, <1>1 DEF Clear, IoType, Fields
  <1>3. w.flags[s] \ {"SENDING", "RECVING", "CONNECTING"} = {}
    BY <1>0 DEF IoType, Flags
  <1>4. <<>> \in Seq(Unit)  OBVIOUS
  <1>5. IoType(y)  BY <1>0, <1>2, <1>3, <1>4 DEF IoType
  <1>6. Wiring(y)  BY <1>0, <1>2 DEF Wiring
  <1>7. TimedBut(y, s)  BY <1>0, <1>2 DEF Timed, TimedBut, Is, IoType
  <1> DEFINE types == {"READ", "WRITE"}
  <1>8. PICK r : r = RemFD(y, s, {"READ", "WRITE"})  OBVIOUS
  <1>9. s \in y.alive  BY <1>0, <1>2
  <1>10. /\ IoType(r) /\ Wiring(r)
         /\ OnlySets(r, y, Minus(y.rset, y.fd[s], "READ" \in types),
                     Minus(y.wset, y.fd[s], "WRITE" \in types))
    BY <1>5, <1>6, <1>8, <1>9, RemFDRemoves
  <1>11. /\ r.rset = w.rset \ {w.fd[s]} /\ r.wset = w.wset \ {w.fd[s]}
         /\ r.fd = w.fd /\ r.flags = y.flags /\ r.buf = y.buf /\ r.timer = w.timer
         /\ r.alive = w.alive /\ r.conn = w.conn /\ r.inq = w.inq /\ r.eof = w.eof
         /\ r.out = w.out
    BY <1>2, <1>10 DEF OnlySets, Minus
  <1>12. m = Call(r, s, "TIMEOUT", 0)
    BY <1>1, <1>8 DEF HandleTimeout
  <1>13. TimedBut(r, s)  BY <1>2, <1>7, <1>11 DEF TimedBut, Is
  <1>14. Called(m, r, s, "TIMEOUT", 0)
    BY <1>0, <1>10, <1>12, <1>13, CallBecomes
  <1>15. PICK x : x = m.w  OBVIOUS
  <1>16. /\ IoType(x) /\ Wiring(x) /\ Timed(x) /\ m.cb = <<"TIMEOUT", 0>>
         /\ x.rset = r.rset /\ x.wset = r.wset
         /\ Becomes(x, r, s, r.flags[s], r.buf[s], r.conn[s], r.inq[s], r.out[s])
    BY <1>14, <1>15 DEF Called
  <1>17. Becomes(r, w, s, {}, <<>>, w.conn[s], w.inq[s], w.out[s])
    BY <1>0, <1>2, <1>3, <1>11 DEF Becomes, IoType
  <1>18. Becomes(x, w, s, r.flags[s], r.buf[s], r.conn[s], r.inq[s], r.out[s])
    BY <1>0, <1>16, <1>17, BecomesTwice
  <1>19. r.flags[s] = {} /\ r.buf[s] = <<>> /\ r.conn[s] = w.conn[s]
         /\ r.inq[s] = w.inq[s] /\ r.out[s] = w.out[s]
    <2>1. w.flags \in [Sock -> SUBSET Flags] /\ w.buf \in [Sock -> Seq(Unit)]
      BY <1>0 DEF IoType
    <2>2. r.flags[s] = {} /\ r.buf[s] = <<>>  BY <1>0, <1>2, <1>3, <1>11, <2>1
    <2> QED BY <1>11, <2>2
  <1>20. Becomes(x, w, s, {}, <<>>, w.conn[s], w.inq[s], w.out[s])
    BY <1>18, <1>19
  <1>21. SetsBut(x, w, s) /\ x.rset = r.rset /\ x.wset = r.wset /\ x.fd = w.fd
    BY <1>11, <1>16, <1>20 DEF SetsBut, Becomes
  <1>22. x.flags[s] = {} /\ x.buf[s] = <<>>
    BY <1>0, <1>20 DEF Becomes, IoType
  <1>23. FlagsOK(x, s)  BY <1>11, <1>21, <1>22 DEF FlagsOK, Is
  <1>24. IoInv(x, {})  BY <1>0, <1>16, <1>20, <1>21, <1>23, BecomesInv
  <1> QED BY <1>15, <1>16, <1>20, <1>24 DEF TimedOut

\* connect() succeeds, fails or is under way, with a timeout.
Connects(m, w, s) ==
    LET Conns(flags, conn) ==
            Becomes(m.w, w, s, flags, w.buf[s], conn, w.inq[s], w.out[s])
    IN /\ IoInv(m.w, {})
       /\ \/ m.cb = <<"CONNECTED", 0>> /\ Conns({}, "up")
          \/ m.cb = <<"ERROR", 1>> /\ Conns({}, "refused")
          \/ m.cb = <<>> /\ Conns({"CONNECTING"}, "connecting")

\* AsyncConnect() registers the socket only when the connection is under way.
LEMMA AsyncConnectOutcome ==
  ASSUME NEW w, IoInv(w, {}), NEW s \in w.alive, w.flags[s] = {},
         NEW m \in AsyncConnect(w, s)
  PROVE  Connects(m, w, s)
  <1>0. IoType(w) /\ Wiring(w) /\ Timed(w) /\ FlagsOK(w, s) /\ s \in Sock
    BY DEF IoInv, IoType
  <1>1. s \notin w.timer  BY <1>0 DEF Timed, Is
  <1>2. ASSUME NEW conn \in {"connecting", "up", "refused"}, NEW y,
               y = [w EXCEPT !.conn[s] = conn]
        PROVE  /\ y.rset = w.rset /\ y.wset = w.wset /\ y.table = w.table /\ y.fd = w.fd
               /\ y.alive = w.alive /\ y.eof = w.eof /\ y.conn = [w.conn EXCEPT ![s] = conn]
               /\ y.inq = w.inq /\ y.timer = w.timer /\ DOMAIN y = Fields
               /\ y.buf = w.buf /\ y.out = w.out /\ y.flags = w.flags
    BY <1>0, <1>2 DEF IoType, Fields
  <1>3. ASSUME NEW conn \in {"up", "refused"}, NEW reason, NEW data,
               reason \in {"CONNECTED", "ERROR"},
               m = Call([w EXCEPT !.conn[s] = conn], s, reason, data)
        PROVE  /\ m.cb = <<reason, data>> /\ IoInv(m.w, {})
               /\ Becomes(m.w, w, s, {}, w.buf[s], conn, w.inq[s], w.out[s])
    <2>1. PICK y : y = [w EXCEPT !.conn[s] = conn]  OBVIOUS
    <2>2. /\ y.rset = w.rset /\ y.wset = w.wset /\ y.table = w.table /\ y.fd = w.fd
          /\ y.alive = w.alive /\ y.eof = w.eof /\ y.conn = [w.conn EXCEPT ![s] = conn]
          /\ y.inq = w.inq /\ y.timer = w.timer /\ DOMAIN y = Fields
          /\ y.buf = w.buf /\ y.out = w.out /\ y.flags = w.flags
      BY <1>0, <2>1 DEF IoType, Fields
    <2>3. IoType(y)  BY <1>0, <2>2 DEF IoType
    <2>4. Wiring(y) /\ TimedBut(y, s)
      BY <1>0, <2>2 DEF Wiring, Timed, TimedBut, Is
    <2>5. Called(m, y, s, reason, data)
      BY <1>0, <1>3, <2>1, <2>3, <2>4, CallBecomes
    <2>6. PICK x : x = m.w  OBVIOUS
    <2>7. /\ IoType(x) /\ Wiring(x) /\ Timed(x) /\ m.cb = <<reason, data>>
          /\ x.rset = y.rset /\ x.wset = y.wset
          /\ Becomes(x, y, s, IF reason = "ERROR" THEN {} ELSE y.flags[s], y.buf[s],
                     y.conn[s], y.inq[s], y.out[s])
      BY <2>5, <2>6 DEF Called
    <2>8. y.conn[s] = conn /\ y.flags[s] = {}
      BY <1>0, <2>2 DEF IoType
    <2>9. Becomes(y, w, s, {}, w.buf[s], conn, w.inq[s], w.out[s])
      BY <1>0, <2>2 DEF Becomes, IoType
    <2>10. Becomes(x, y, s, {}, w.buf[s], conn, w.inq[s], w.out[s])
      BY <2>2, <2>7, <2>8
    <2>11. Becomes(x, w, s, {}, w.buf[s], conn, w.inq[s], w.out[s])
      BY <1>0, <2>9, <2>10, BecomesTwice
    <2>12. SetsBut(x, w, s) /\ x.rset = w.rset /\ x.wset = w.wset /\ x.fd = w.fd
      BY <2>2, <2>7, <2>11 DEF SetsBut, Becomes
    <2>13. x.flags[s] = {} /\ x.buf[s] = w.buf[s]
      BY <1>0, <2>11 DEF Becomes, IoType
    <2>14. FlagsOK(x, s)  BY <1>0, <2>12, <2>13 DEF FlagsOK, Is
    <2>15. IoInv(x, {})  BY <2>7, <2>11, <2>12, <2>14, BecomesInv
    <2> QED BY <2>6, <2>7, <2>11, <2>15
  <1>4. CASE m = NoCall(AddFD(SetTimeout(Set([w EXCEPT !.conn[s] = "connecting"],
                                             s, "CONNECTING"), s), s, "WRITE"))
    <2>1. PICK y : y = SetTimeout(Set([w EXCEPT !.conn[s] = "connecting"],
                                      s, "CONNECTING"), s)
      OBVIOUS
    <2>2. /\ y.rset = w.rset /\ y.wset = w.wset /\ y.table = w.table /\ y.fd = w.fd
          /\ y.alive = w.alive /\ y.eof = w.eof
          /\ y.conn = [w.conn EXCEPT ![s] = "connecting"]
          /\ y.inq = w.inq /\ y.timer = w.timer \cup {s} /\ DOMAIN y = Fields
          /\ y.buf = w.buf /\ y.out = w.out
          /\ y.flags = [w.flags EXCEPT ![s] = w.flags[s] \cup {"CONNECTING"}]
      BY <1>0, <2>1 DEF Set, SetTimeout, IoType, Fields
    <2>3. y.flags = [w.flags EXCEPT ![s] = {"CONNECTING"}]  BY <2>2
    <2>4. IoType(y)  BY <1>0, <2>2, <2>3 DEF IoType, Flags
    <2>5. Wiring(y) /\ s \in y.alive  BY <1>0, <2>2 DEF Wiring
    <2>6. Timed(y)
      <3>1. \A t \in Sock : t # s => y.flags[t] = w.flags[t]
        BY <1>0, <2>2, <2>3 DEF IoType
      <3>2. y.flags[s] = {"CONNECTING"} /\ y.timer \subseteq Sock
        BY <1>0, <2>3, <2>4 DEF IoType
      <3> QED BY <1>0, <2>2, <3>1, <3>2 DEF Timed, Is
    <2>7. PICK x : x = AddFD(y, s, "WRITE")  OBVIOUS
    <2>8. "WRITE" \in {"READ", "WRITE"}  OBVIOUS
    <2>9. /\ IoType(x) /\ Wiring(x)
          /\ OnlySets(x, y, Plus(y.rset, y.fd[s], "WRITE" = "READ"),
                      Plus(y.wset, y.fd[s], "WRITE" = "WRITE"))
      BY <2>4, <2>5, <2>7, <2>8, AddFDAdds
    <2>10. /\ x.rset = w.rset /\ x.wset = w.wset \cup {w.fd[s]}
           /\ x.fd = w.fd /\ x.flags = y.flags /\ x.buf = y.buf /\ x.timer = y.timer
           /\ x.alive = y.alive /\ x.conn = y.conn /\ x.inq = y.inq /\ x.eof = y.eof
           /\ x.out = y.out
      BY <2>2, <2>9 DEF OnlySets, Plus
    <2>11. Timed(x)  BY <2>6, <2>10 DEF Timed, Is
    <2>12. Becomes(x, w, s, {"CONNECTING"}, w.buf[s], "connecting", w.inq[s], w.out[s])
      BY <1>0, <2>2, <2>3, <2>10 DEF Becomes, IoType
    <2>13. SetsBut(x, w, s)  BY <2>10 DEF SetsBut
    <2>14. x.flags[s] = {"CONNECTING"} /\ x.buf[s] = w.buf[s]
      BY <1>0, <2>12 DEF Becomes, IoType
    <2>15. FlagsOK(x, s)  BY <1>0, <2>10, <2>14 DEF FlagsOK, Is
    <2>16. IoInv(x, {})  BY <2>9, <2>11, <2>12, <2>13, <2>15, BecomesInv
    <2>17. m.w = x /\ m.cb = <<>>  BY <1>4, <2>1, <2>7 DEF NoCall
    <2> QED BY <2>12, <2>16, <2>17 DEF Connects
  <1>5. CASE m = Call([w EXCEPT !.conn[s] = "up"], s, "CONNECTED", 0)
    BY <1>3, <1>5 DEF Connects
  <1>6. CASE m = Call([w EXCEPT !.conn[s] = "refused"], s, "ERROR", 1)
    BY <1>3, <1>6 DEF Connects
  <1> QED BY <1>4, <1>5, <1>6 DEF AsyncConnect

\* AsyncSend() queues a unit behind those that are queued.
LEMMA AsyncSendBecomes ==
  ASSUME NEW w, IoInv(w, {}), NEW s \in w.alive, ~ Is(w, s, "CONNECTING"),
         NEW unit \in Unit, NEW x, x = AsyncSend(w, s, unit)
  PROVE  /\ IoInv(x, {})
         /\ Becomes(x, w, s, w.flags[s] \cup {"SENDING"}, Append(w.buf[s], unit),
                    w.conn[s], w.inq[s], w.out[s])
  <1>0. IoType(w) /\ Wiring(w) /\ Timed(w) /\ FlagsOK(w, s) /\ s \in Sock
    BY DEF IoInv, IoType
  <1>1. PICK b : b = Append(w.buf[s], unit)  OBVIOUS
  <1>2. b \in Seq(Unit) /\ b # <<>>
    <2>1. w.buf[s] \in Seq(Unit)  BY <1>0 DEF IoType
    <2> QED BY <1>1, <2>1, AppendProperties
  <1>3. s \notin w.timer  BY <1>0 DEF Timed
  <1>4. CASE Is(w, s, "SENDING")
    <2>1. x = [w EXCEPT !.buf[s] = b]  BY <1>1, <1>4 DEF AsyncSend
    <2>2. /\ x.rset = w.rset /\ x.wset = w.wset /\ x.table = w.table /\ x.fd = w.fd
          /\ x.alive = w.alive /\ x.eof = w.eof /\ x.conn = w.conn
          /\ x.inq = w.inq /\ x.timer = w.timer /\ DOMAIN x = Fields
          /\ x.buf = [w.buf EXCEPT ![s] = b] /\ x.out = w.out /\ x.flags = w.flags
      BY <1>0, <2>1 DEF IoType, Fields
    <2>3. IoType(x)  BY <1>0, <1>2, <2>2 DEF IoType
    <2>4. Wiring(x) /\ Timed(x) /\ SetsBut(x, w, s)
      BY <1>0, <2>2 DEF Wiring, Timed, Is, SetsBut
    <2>5. w.flags[s] \cup {"SENDING"} = w.flags[s]  BY <1>4 DEF Is
    <2>6. Becomes(x, w, s, w.flags[s] \cup {"SENDING"}, b, w.conn[s], w.inq[s], w.out[s])
      BY <1>0, <2>2, <2>5 DEF Becomes, IoType
    <2>7. x.buf[s] = b  BY <1>0, <2>2 DEF IoType
    <2>8. FlagsOK(x, s)  BY <1>0, <1>2, <1>4, <2>2, <2>7 DEF FlagsOK, Is
    <2> QED BY <1>1, <2>3, <2>4, <2>6, <2>8, BecomesInv
  <1>5. CASE ~ Is(w, s, "SENDING")
    <2>1. w.buf[s] = <<>>  BY <1>0, <1>5 DEF FlagsOK
    <2>2. b = <<unit>>  BY <1>1, <2>1
    <2>3. PICK y : y = Set([w EXCEPT !.buf[s] = b], s, "SENDING")  OBVIOUS
    <2>4. x = AddFD(y, s, "WRITE")  BY <1>5, <2>2, <2>3 DEF AsyncSend
    <2>5. /\ y.rset = w.rset /\ y.wset = w.wset /\ y.table = w.table /\ y.fd = w.fd
          /\ y.alive = w.alive /\ y.eof = w.eof /\ y.conn = w.conn
          /\ y.inq = w.inq /\ y.timer = w.timer /\ DOMAIN y = Fields
          /\ y.buf = [w.buf EXCEPT ![s] = b] /\ y.out = w.out
          /\ y.flags = [w.flags EXCEPT ![s] = w.flags[s] \cup {"SENDING"}]
      BY <1>0, <2>3 DEF Set, IoType, Fields
    <2>6. IoType(y)
      <3>1. w.flags[s] \cup {"SENDING"} \subseteq Flags  BY <1>0 DEF IoType, Flags
      <3> QED BY <1>0, <1>2, <2>5, <3>1 DEF IoType
    <2>7. Wiring(y) /\ s \in y.alive  BY <1>0, <2>5 DEF Wiring
    <2>8. "WRITE" \in {"READ", "WRITE"}  OBVIOUS
    <2>9. /\ IoType(x) /\ Wiring(x)
          /\ OnlySets(x, y, Plus(y.rset, y.fd[s], "WRITE" = "READ"),
                      Plus(y.wset, y.fd[s], "WRITE" = "WRITE"))
      BY <2>4, <2>6, <2>7, <2>8, AddFDAdds
    <2>10. /\ x.rset = w.rset /\ x.wset = w.wset \cup {w.fd[s]}
           /\ x.fd = w.fd /\ x.flags = y.flags /\ x.buf = y.buf /\ x.timer = w.timer
           /\ x.alive = w.alive /\ x.conn = y.conn /\ x.inq = y.inq /\ x.eof = y.eof
           /\ x.out = y.out
      BY <2>5, <2>9 DEF OnlySets, Plus
    <2>11. Timed(x)
      <3>1. \A t \in Sock : t # s => x.flags[t] = w.flags[t]
        BY <1>0, <2>5, <2>10 DEF IoType
      <3>2. x.timer \subseteq Sock  BY <2>9 DEF IoType
      <3> QED BY <1>0, <1>3, <2>5, <2>10, <3>1, <3>2 DEF Timed, Is
    <2>12. Becomes(x, w, s, w.flags[s] \cup {"SENDING"}, b, w.conn[s], w.inq[s], w.out[s])
      BY <1>0, <2>5, <2>10 DEF Becomes, IoType
    <2>13. SetsBut(x, w, s)  BY <2>10 DEF SetsBut
    <2>14. x.flags[s] = w.flags[s] \cup {"SENDING"} /\ x.buf[s] = b
      BY <1>0, <2>12 DEF Becomes, IoType
    <2>15. FlagsOK(x, s)  BY <1>0, <1>2, <2>10, <2>14 DEF FlagsOK, Is
    <2> QED BY <1>1, <2>9, <2>11, <2>12, <2>13, <2>15, BecomesInv
  <1> QED BY <1>4, <1>5

-----------------------------------------------------------------------------
\* What a peer was sent is changed by send() only.
KeepsOut(v, z) == DOMAIN v = Fields /\ v.out = z.out

\* Flags, timeouts and the dispatcher's sets have nothing to do with it.
LEMMA BookkeepingKeepsOut ==
  ASSUME NEW z, NEW w, KeepsOut(w, z), NEW s
  PROVE  /\ \A F : KeepsOut(Clear(w, s, F), z)
         /\ \A flag : KeepsOut(Set(w, s, flag), z)
         /\ KeepsOut(SetTimeout(w, s), z) /\ KeepsOut(NoTimeout(w, s), z)
         /\ \A type : KeepsOut(AddFD(w, s, type), z)
         /\ \A types : KeepsOut(RemFD(w, s, types), z)
         /\ \A conn : KeepsOut([w EXCEPT !.conn[s] = conn], z)
         /\ \A buf : KeepsOut([w EXCEPT !.buf[s] = buf], z)
         /\ \A inq : KeepsOut([w EXCEPT !.inq[s] = inq], z)
  <1>1. \A F : KeepsOut(Clear(w, s, F), z)  BY DEF KeepsOut, Clear, Fields
  <1>2. \A flag : KeepsOut(Set(w, s, flag), z)  BY DEF KeepsOut, Set, Fields
  <1>3. KeepsOut(SetTimeout(w, s), z)  BY DEF KeepsOut, SetTimeout, Fields
  <1>4. KeepsOut(NoTimeout(w, s), z)  BY DEF KeepsOut, NoTimeout, Fields
  <1>5. \A type : KeepsOut(AddFD(w, s, type), z)  BY DEF KeepsOut, AddFD, Fields
  <1>6. \A types : KeepsOut(RemFD(w, s, types), z)  BY DEF KeepsOut, RemFD, Fields
  <1>7. \A conn : KeepsOut([w EXCEPT !.conn[s] = conn], z)  BY DEF KeepsOut, Fields
  <1>8. \A buf : KeepsOut([w EXCEPT !.buf[s] = buf], z)  BY DEF KeepsOut, Fields
  <1>9. \A inq : KeepsOut([w EXCEPT !.inq[s] = inq], z)  BY DEF KeepsOut, Fields
  <1> QED BY <1>1, <1>2, <1>3, <1>4, <1>5, <1>6, <1>7, <1>8, <1>9

\* Callback() does not send, whatever it reports.
LEMMA CallKeepsOut ==
  ASSUME NEW z, NEW w, KeepsOut(w, z), NEW s, NEW reason, NEW data
  PROVE  KeepsOut(Call(w, s, reason, data).w, z)
  <1>1. PICK v : v = IF reason = "WRITTEN" THEN w ELSE NoTimeout(w, s)  OBVIOUS
  <1>2. KeepsOut(v, z)  BY <1>1, BookkeepingKeepsOut
  <1>3. PICK u : u = Clear(v, s, {"SENDING", "CONNECTING", "RECVING"})  OBVIOUS
  <1>4. KeepsOut(u, z)  BY <1>2, <1>3, BookkeepingKeepsOut
  <1>5. Call(w, s, reason, data).w = IF reason = "ERROR" THEN u ELSE v
    BY <1>1, <1>3 DEF Call
  <1> QED BY <1>2, <1>4, <1>5

\* Nor do connect(), the queueing of what is to be sent, and a timeout.
LEMMA MethodsKeepOut ==
  ASSUME NEW z, NEW w, KeepsOut(w, z), NEW s
  PROVE  /\ \A conn : KeepsOut(New(w, s, conn), z)
         /\ KeepsOut(Delete(w, s), z)
         /\ \A unit : KeepsOut(AsyncSend(w, s, unit), z)
         /\ \A m \in AsyncConnect(w, s) : KeepsOut(m.w, z)
         /\ \A m \in HandleTimeout(w, s) : KeepsOut(m.w, z)
  <1>1. \A conn : KeepsOut(New(w, s, conn), z)  BY DEF KeepsOut, New, Fields
  <1>2. KeepsOut(Delete(w, s), z)
    <2>1. PICK v : v = RemFD(w, s, {"READ", "WRITE"})  OBVIOUS
    <2>2. KeepsOut(v, z)  BY <2>1, BookkeepingKeepsOut
    <2> QED BY <2>1, <2>2 DEF KeepsOut, Delete, Fields
  <1>3. ASSUME NEW unit PROVE KeepsOut(AsyncSend(w, s, unit), z)
    <2>1. PICK x, y, flag, type :
            x = <<unit>> /\ y = Append(w.buf[s], unit) /\ flag = "SENDING" /\ type = "WRITE"
      OBVIOUS
    <2>2. PICK u : u = [w EXCEPT !.buf[s] = x]  OBVIOUS
    <2>3. PICK v : v = Set(u, s, flag)  OBVIOUS
    <2>4. KeepsOut(u, z) /\ KeepsOut([w EXCEPT !.buf[s] = y], z)
      BY <2>2, BookkeepingKeepsOut
    <2>5. KeepsOut(v, z)  BY <2>3, <2>4, BookkeepingKeepsOut
    <2>6. KeepsOut(AddFD(v, s, type), z)  BY <2>5, BookkeepingKeepsOut
    <2>7. AsyncSend(w, s, unit) = IF Is(w, s, "SENDING") THEN [w EXCEPT !.buf[s] = y]
                                  ELSE AddFD(v, s, type)
      BY <2>1, <2>2, <2>3 DEF AsyncSend
    <2> QED BY <2>4, <2>6, <2>7
  <1>4. ASSUME NEW m \in AsyncConnect(w, s) PROVE KeepsOut(m.w, z)
    <2>1. PICK a, b, c, flag, type : /\ a = "up" /\ b = "refused" /\ c = "connecting"
                                     /\ flag = "CONNECTING" /\ type = "WRITE"
      OBVIOUS
    <2>2. PICK u, v, x : /\ u = [w EXCEPT !.conn[s] = a] /\ v = [w EXCEPT !.conn[s] = b]
                         /\ x = [w EXCEPT !.conn[s] = c]
      OBVIOUS
    <2>3. PICK y : y = Set(x, s, flag)  OBVIOUS
    <2>4. PICK k : k = SetTimeout(y, s)  OBVIOUS
    <2>5. PICK n : n = AddFD(k, s, type)  OBVIOUS
    <2>6. KeepsOut(u, z) /\ KeepsOut(v, z) /\ KeepsOut(x, z)
      BY <2>2, BookkeepingKeepsOut
    <2>7. KeepsOut(y, z)  BY <2>3, <2>6, BookkeepingKeepsOut
    <2>8. KeepsOut(k, z)  BY <2>4, <2>7, BookkeepingKeepsOut
    <2>9. KeepsOut(n, z)  BY <2>5, <2>8, BookkeepingKeepsOut
    <2>10. KeepsOut(Call(u, s, "CONNECTED", 0).w, z)  BY <2>6, CallKeepsOut
    <2>11. KeepsOut(Call(v, s, "ERROR", 1).w, z)  BY <2>6, CallKeepsOut
    <2>12. NoCall(n).w = n  BY DEF NoCall
    <2>13. \/ m = Call(u, s, "CONNECTED", 0) \/ m = Call(v, s, "ERROR", 1)
           \/ m = NoCall(n)
      BY <2>1, <2>2, <2>3, <2>4, <2>5 DEF AsyncConnect
    <2> QED BY <2>9, <2>10, <2>11, <2>12, <2>13
  <1>5. ASSUME NEW m \in HandleTimeout(w, s) PROVE KeepsOut(m.w, z)
    <2>1. PICK e, F : e = <<>> /\ F = {"SENDING", "RECVING", "CONNECTING"}  OBVIOUS
    <2>2. PICK u : u = [w EXCEPT !.buf[s] = e]  OBVIOUS
    <2>3. PICK v : v = Clear(u, s, F)  OBVIOUS
    <2>4. PICK x : x = RemFD(v, s, {"READ", "WRITE"})  OBVIOUS
    <2>5. KeepsOut(u, z)  BY <2>2, BookkeepingKeepsOut
    <2>6. KeepsOut(v, z)  BY <2>3, <2>5, BookkeepingKeepsOut
    <2>7. KeepsOut(x, z)  BY <2>4, <2>6, BookkeepingKeepsOut
    <2>8. KeepsOut(Call(x, s, "TIMEOUT", 0).w, z)  BY <2>7, CallKeepsOut
    <2>9. m = Call(x, s, "TIMEOUT", 0)
      BY <2>1, <2>2, <2>3, <2>4 DEF HandleTimeout
    <2> QED BY <2>8, <2>9
  <1> QED BY <1>1, <1>2, <1>3, <1>4, <1>5

\* recv() does not send.
LEMMA ReceiveKeepsOut ==
  ASSUME NEW z, NEW w, KeepsOut(w, z), NEW s, NEW again, KeepsOut(again, z),
         NEW interrupted, \A m \in interrupted : KeepsOut(m.w, z),
         NEW m \in Receive(w, s, again, interrupted)
  PROVE  KeepsOut(m.w, z)
  <1>1. PICK x : x = Tail(w.inq[s])  OBVIOUS
  <1>2. PICK u : u = [w EXCEPT !.inq[s] = x]  OBVIOUS
  <1>3. KeepsOut(u, z)  BY <1>2, BookkeepingKeepsOut
  <1>4. PICK h : h = Head(w.inq[s])  OBVIOUS
  <1>5. KeepsOut(Call(u, s, "READ", h).w, z)  BY <1>3, CallKeepsOut
  <1>6. KeepsOut(Call(w, s, "READ", 0).w, z) /\ KeepsOut(Call(w, s, "ERROR", 1).w, z)
    BY CallKeepsOut
  <1>7. NoCall(again).w = again  BY DEF NoCall
  <1>8. \/ m = Call(w, s, "ERROR", 1) \/ m = Call(u, s, "READ", h)
        \/ m \in interrupted \/ m = Call(w, s, "READ", 0) \/ m = NoCall(again)
    BY <1>1, <1>2, <1>4 DEF Receive
  <1> QED BY <1>5, <1>6, <1>7, <1>8

\* Nor do AsyncRecv() and HandleRead().
LEMMA ReadsKeepOut ==
  ASSUME NEW z, NEW w, KeepsOut(w, z), NEW s, NEW signal
  PROVE  /\ \A m \in AsyncRecv(w, s, signal) : KeepsOut(m.w, z)
         /\ \A m \in HandleRead(w, s, signal) : KeepsOut(m.w, z)
  <1>1. PICK flag, type, F : flag = "RECVING" /\ type = "READ" /\ F = {"RECVING"}  OBVIOUS
  <1>2. ASSUME NEW v, KeepsOut(v, z) PROVE KeepsOut(Await(v, s), z)
    <2>1. PICK x : x = Set(v, s, flag)  OBVIOUS
    <2>2. KeepsOut(x, z)  BY <1>2, <2>1, BookkeepingKeepsOut
    <2>3. KeepsOut(AddFD(x, s, type), z)  BY <2>2, BookkeepingKeepsOut
    <2> QED BY <1>1, <2>1, <2>3 DEF Await
  <1>3. PICK y : y = RemFD(w, s, {"READ"})  OBVIOUS
  <1>4. KeepsOut(y, z)  BY <1>3, BookkeepingKeepsOut
  <1>5. \A v : Interrupted(v).w = v  BY DEF Interrupted
  <1>6. ASSUME NEW m \in AsyncRecv(w, s, signal) PROVE KeepsOut(m.w, z)
    <2>1. PICK x : x = Await(y, s)  OBVIOUS
    <2>2. PICK a : a = NoTimeout(x, s)  OBVIOUS
    <2>3. KeepsOut(x, z)  BY <1>2, <1>4, <2>1
    <2>4. KeepsOut(a, z)  BY <2>2, <2>3, BookkeepingKeepsOut
    <2>5. PICK I : I = IF signal THEN {Interrupted(y)} ELSE {}  OBVIOUS
    <2>6. \A n \in I : KeepsOut(n.w, z)  BY <1>4, <1>5, <2>5
    <2>7. m \in Receive(y, s, a, I)  BY <1>3, <2>1, <2>2, <2>5 DEF AsyncRecv
    <2> QED BY <1>4, <2>4, <2>6, <2>7, ReceiveKeepsOut
  <1>7. ASSUME NEW m \in HandleRead(w, s, signal) PROVE KeepsOut(m.w, z)
    <2>1. PICK x : x = Clear(y, s, F)  OBVIOUS
    <2>2. KeepsOut(x, z)  BY <1>4, <2>1, BookkeepingKeepsOut
    <2>3. PICK a : a = Await(x, s)  OBVIOUS
    <2>4. KeepsOut(a, z)  BY <1>2, <2>2, <2>3
    <2>5. PICK I : I = IF signal THEN {Interrupted(a)} ELSE {}  OBVIOUS
    <2>6. \A n \in I : KeepsOut(n.w, z)  BY <1>5, <2>4, <2>5
    <2>7. m \in Receive(x, s, a, I) \/ m = Call(w, s, "READ", -1)
      BY <1>1, <1>3, <2>1, <2>3, <2>5 DEF HandleRead
    <2>8. KeepsOut(Call(w, s, "READ", -1).w, z)  BY CallKeepsOut
    <2>9. m \in Receive(x, s, a, I) => KeepsOut(m.w, z)
      BY <2>2, <2>4, <2>6, ReceiveKeepsOut
    <2> QED BY <2>7, <2>8, <2>9
  <1> QED BY <1>6, <1>7

\* What HandleWrite() has sent, and what it has dropped.
SentOf(v, s, b, n) == [v EXCEPT !.out[s] = @ \o SubSeq(b, 1, n),
                                !.buf[s] = SubSeq(b, n + 1, Len(b))]
Emptied(v, s) == [v EXCEPT !.buf[s] = <<>>]

\* HandleWrite() calls back, or stops, or sends the first of what is queued.
WriteEnds(m, v, s, b) ==
    \/ \E data : m = Call(Clear(v, s, {"CONNECTING"}), s, "CONNECTED", data)
    \/ m = NoCall(v)
    \/ m = Call(Emptied(v, s), s, "ERROR", 1)
    \/ \E n \in 0..Len(b) :
         \/ m = Call(SentOf(v, s, b, n), s, "WRITTEN", 0)
         \/ m = NoCall(AddFD(Set(SentOf(v, s, b, n), s, "SENDING"), s, "WRITE"))

\* HandleWrite() with its intermediate states named.
LEMMA HandleWriteIs ==
  ASSUME NEW w, NEW s, NEW b, b = w.buf[s], NEW v,
         v = Clear(RemFD(w, s, {"WRITE"}), s, {"SENDING"})
  PROVE  HandleWrite(w, s) =
          IF Is(w, s, "CONNECTING")
             THEN {Call(Clear(v, s, {"CONNECTING"}), s, "CONNECTED",
                        IF w.conn[s] \in {"up", "connecting"} THEN 0 ELSE 1)}
             ELSE IF b = <<>> THEN {NoCall(v)}
             ELSE IF w.conn[s] \in {"refused", "reset"}
             THEN {Call(Emptied(v, s), s, "ERROR", 1)}
             ELSE {IF n = Len(b) THEN Call(SentOf(v, s, b, n), s, "WRITTEN", 0)
                   ELSE NoCall(AddFD(Set(SentOf(v, s, b, n), s, "SENDING"), s, "WRITE"))
                   : n \in IF w.conn[s] = "up" THEN 1..Len(b) ELSE {0}}
  BY DEF HandleWrite, SentOf, Emptied

\* These are all its outcomes.
LEMMA HandleWriteWrites ==
  ASSUME NEW w, NEW s, w.buf[s] \in Seq(Unit), NEW b, b = w.buf[s], NEW v,
         v = Clear(RemFD(w, s, {"WRITE"}), s, {"SENDING"}), NEW m \in HandleWrite(w, s)
  PROVE  WriteEnds(m, v, s, b)
  <1>1. PICK H : H = HandleWrite(w, s)  OBVIOUS
  <1>2. m \in H  BY <1>1
  <1>3. H = IF Is(w, s, "CONNECTING")
               THEN {Call(Clear(v, s, {"CONNECTING"}), s, "CONNECTED",
                          IF w.conn[s] \in {"up", "connecting"} THEN 0 ELSE 1)}
               ELSE IF b = <<>> THEN {NoCall(v)}
               ELSE IF w.conn[s] \in {"refused", "reset"}
               THEN {Call(Emptied(v, s), s, "ERROR", 1)}
               ELSE {IF n = Len(b) THEN Call(SentOf(v, s, b, n), s, "WRITTEN", 0)
                     ELSE NoCall(AddFD(Set(SentOf(v, s, b, n), s, "SENDING"), s, "WRITE"))
                     : n \in IF w.conn[s] = "up" THEN 1..Len(b) ELSE {0}}
    BY <1>1, HandleWriteIs
  <1>4. Len(b) \in Nat  BY LenProperties
  <1>5. CASE Is(w, s, "CONNECTING")
    <2>1. PICK d : d = IF w.conn[s] \in {"up", "connecting"} THEN 0 ELSE 1  OBVIOUS
    <2>2. m = Call(Clear(v, s, {"CONNECTING"}), s, "CONNECTED", d)
      BY <1>2, <1>3, <1>5, <2>1
    <2> QED BY <2>2 DEF WriteEnds
  <1>6. CASE ~ Is(w, s, "CONNECTING") /\ b = <<>>
    <2>1. m = NoCall(v)  BY <1>2, <1>3, <1>6
    <2> QED BY <2>1 DEF WriteEnds
  <1>7. CASE ~ Is(w, s, "CONNECTING") /\ b # <<>> /\ w.conn[s] \in {"refused", "reset"}
    <2>1. m = Call(Emptied(v, s), s, "ERROR", 1)  BY <1>2, <1>3, <1>7
    <2> QED BY <2>1 DEF WriteEnds
  <1>8. CASE ~ Is(w, s, "CONNECTING") /\ b # <<>> /\ w.conn[s] \notin {"refused", "reset"}
    <2>1. PICK n \in IF w.conn[s] = "up" THEN 1..Len(b) ELSE {0} :
            m = IF n = Len(b) THEN Call(SentOf(v, s, b, n), s, "WRITTEN", 0)
                ELSE NoCall(AddFD(Set(SentOf(v, s, b, n), s, "SENDING"), s, "WRITE"))
      BY <1>2, <1>3, <1>8
    <2>2. n \in 0..Len(b)  BY <1>4, <2>1
    <2>3. \/ m = Call(SentOf(v, s, b, n), s, "WRITTEN", 0)
          \/ m = NoCall(AddFD(Set(SentOf(v, s, b, n), s, "SENDING"), s, "WRITE"))
      BY <2>1
    <2> QED BY <2>2, <2>3 DEF WriteEnds
  <1> QED BY <1>5, <1>6, <1>7, <1>8

\* What HandleWrite() sends was queued first, and it reports no error then.
SendsMore(m, w, s) ==
    /\ m.cb \in {<<>>, <<"WRITTEN", 0>>}
    /\ \E x \in Seq(Unit) : m.w.out = [w.out EXCEPT ![s] = w.out[s] \o x]

\* A write only adds to what the peer was sent.
LEMMA HandleWriteSends ==
  ASSUME NEW w, IoType(w), NEW s \in Sock, NEW m \in HandleWrite(w, s)
  PROVE  m.w.out = w.out \/ SendsMore(m, w, s)
  <1>0. DOMAIN w = Fields /\ w.buf[s] \in Seq(Unit)  BY DEF IoType
  <1>1. PICK b : b = w.buf[s]  OBVIOUS
  <1>2. PICK e, flag, type : e = <<>> /\ flag = "SENDING" /\ type = "WRITE"  OBVIOUS
  <1>3. PICK u : u = RemFD(w, s, {"WRITE"})  OBVIOUS
  <1>4. PICK v : v = Clear(u, s, {"SENDING"})  OBVIOUS
  <1>5. KeepsOut(w, w)  BY <1>0 DEF KeepsOut
  <1>6. KeepsOut(u, w)  BY <1>3, <1>5, BookkeepingKeepsOut
  <1>7. KeepsOut(v, w)  BY <1>4, <1>6, BookkeepingKeepsOut
  <1>8. WriteEnds(m, v, s, b)  BY <1>0, <1>1, <1>3, <1>4, HandleWriteWrites
  <1>9. PICK k : k = Clear(v, s, {"CONNECTING"})  OBVIOUS
  <1>10. PICK y : y = Emptied(v, s)  OBVIOUS
  <1>11. KeepsOut(k, w) /\ KeepsOut(y, w)
    <2>1. y = [v EXCEPT !.buf[s] = e]  BY <1>2, <1>10 DEF Emptied
    <2> QED BY <1>7, <1>9, <2>1, BookkeepingKeepsOut
  <1>12. CASE \E data : m = Call(k, s, "CONNECTED", data)
    <2>1. PICK data : m = Call(k, s, "CONNECTED", data)  BY <1>12
    <2>2. KeepsOut(Call(k, s, "CONNECTED", data).w, w)  BY <1>11, CallKeepsOut
    <2> QED BY <2>1, <2>2 DEF KeepsOut
  <1>13. CASE m = NoCall(v)
    BY <1>7, <1>13 DEF NoCall, KeepsOut
  <1>14. CASE m = Call(y, s, "ERROR", 1)
    <2>1. KeepsOut(Call(y, s, "ERROR", 1).w, w)  BY <1>11, CallKeepsOut
    <2> QED BY <1>14, <2>1 DEF KeepsOut
  <1>15. ASSUME NEW n \in 0..Len(b), NEW z,
                z = SentOf(v, s, b, n),
                \/ m = Call(z, s, "WRITTEN", 0)
                \/ m = NoCall(AddFD(Set(z, s, "SENDING"), s, "WRITE"))
         PROVE  SendsMore(m, w, s)
    <2>1. PICK x : x = SubSeq(b, 1, n)  OBVIOUS
    <2>2. x \in Seq(Unit)  BY <1>0, <1>1, <2>1, SubSeqSplits
    <2>3. DOMAIN z = Fields /\ z.out = [w.out EXCEPT ![s] = w.out[s] \o x]
      BY <1>7, <1>15, <2>1 DEF KeepsOut, Fields, SentOf
    <2>4. KeepsOut(z, z)  BY <2>3 DEF KeepsOut
    <2>5. PICK d : d = Set(z, s, flag)  OBVIOUS
    <2>6. KeepsOut(d, z)  BY <2>4, <2>5, BookkeepingKeepsOut
    <2>7. PICK g : g = AddFD(d, s, type)  OBVIOUS
    <2>8. KeepsOut(g, z)  BY <2>6, <2>7, BookkeepingKeepsOut
    <2>9. KeepsOut(Call(z, s, "WRITTEN", 0).w, z)  BY <2>4, CallKeepsOut
    <2>10. m = Call(z, s, "WRITTEN", 0) \/ m = NoCall(g)  BY <1>2, <1>15, <2>5, <2>7
    <2>11. m.w.out = z.out  BY <2>8, <2>9, <2>10 DEF KeepsOut, NoCall
    <2>12. m.cb \in {<<>>, <<"WRITTEN", 0>>}  BY <2>10 DEF Call, NoCall
    <2> QED BY <2>2, <2>3, <2>11, <2>12 DEF SendsMore
  <1> QED BY <1>2, <1>8, <1>9, <1>10, <1>12, <1>13, <1>14, <1>15 DEF WriteEnds

(***************************************************************************)
(* The calls that are due.                                                 *)
(***************************************************************************)

Event(s, reason, data) == <<"event", s, reason, data>>
RecvCall(s) == <<"recv", s>>

Ends(c) == {Src(c), Dest(c)}

\* Below a call for the target's end Connected() may have one to make for the user's.
Rests(s) == {<<>>} \cup {<<RecvCall(Src(c))>> : c \in {d \in Conn : s = Dest(d)}}

\* InHand(), Failing() and what is due, of any sequence of calls.
HandOf(q, s) ==
    LET at == {i \in 1..Len(q) : /\ q[i][1] = "event" /\ q[i][2] = Other(s)
                                 /\ q[i][3] = "READ" /\ q[i][4] > 0}
    IN IF at = {} THEN <<>> ELSE <<q[CHOOSE i \in at : TRUE][4]>>

FailingIn(q, c) ==
    \E i \in 1..Len(q) : q[i][2][1] = c /\ q[i][1] = "event" /\ q[i][3] = "ERROR"

\* An AsyncRecv() or a callback is due that will listen to s again, or end it.
DueIn(q, s) ==
    \E i \in 1..Len(q) : q[i] = RecvCall(s) \/ (q[i][1] = "event" /\ q[i][2] = s)

Uninvolved(q, c) ==
    ~ FailingIn(q, c) /\ \A s \in Ends(c) : HandOf(q, s) = <<>> /\ ~ DueIn(q, s)

\* q is the call e for s before the rest r.
Pending(q, e, s, r) == s \in Sock /\ r \in Rests(s) /\ q = <<e>> \o r

(***************************************************************************)
(* The inductive invariant.                                                *)
(***************************************************************************)

\* A callback or an AsyncRecv() that is due finds the socket in this state.
Finds(s, e) ==
    \/ /\ e = RecvCall(s)
       /\ s \in io.alive => tun[s[1]] = "FORWARDING" /\ ~ Is(io, s, "RECVING")
    \/ /\ \E d \in Nat : e = Event(s, "READ", d)
       /\ s \in io.alive /\ tun[s[1]] = "FORWARDING" /\ ~ Is(io, s, "RECVING")
    \/ /\ \E d \in {0, 1} : e = Event(s, "CONNECTED", d)
       /\ s = Dest(s[1]) /\ tun[s[1]] = "CONNECTING" /\ io.flags[s] = {}
       /\ e[4] = 0 => io.conn[s] # "connecting" \/ "stale" \in causes
    \/ /\ e = Event(s, "ERROR", 1)
       /\ s \in io.alive /\ tun[s[1]] \in {"CONNECTING", "FORWARDING"}
    \/ /\ e = Event(s, "TIMEOUT", 0)
       /\ s \in io.alive /\ tun[s[1]] = "CONNECTING"

CallsOK ==
    \/ calls = <<>>
    \/ \E s \in Sock : \E e, r :
         /\ calls = <<e>> \o r /\ Finds(s, e) /\ r \in Rests(s)
         /\ r # <<>> => Finds(Src(s[1]), RecvCall(Src(s[1])))

\* A socket that was not used yet.
Pristine(s) ==
    /\ s \notin io.alive /\ io.flags[s] = {} /\ io.conn[s] = "none"
    /\ io.buf[s] = <<>> /\ io.inq[s] = <<>> /\ io.out[s] = <<>> /\ sent[s] = 0

\* What the state of a connection says about its sockets.
TunOK(c) ==
    /\ tun[c] = "new" => Pristine(Src(c)) /\ Pristine(Dest(c)) /\ asked[c] = None
    /\ tun[c] = "RESOLVING" =>
         Src(c) \in io.alive /\ io.flags[Src(c)] = {} /\ Pristine(Dest(c))
    /\ tun[c] = "CONNECTING" =>
         /\ Src(c) \in io.alive /\ Dest(c) \in io.alive
         /\ io.flags[Src(c)] = {} /\ io.flags[Dest(c)] \subseteq {"CONNECTING"}
    /\ tun[c] = "FORWARDING" =>
         /\ Src(c) \in io.alive /\ Dest(c) \in io.alive
         /\ ~ Is(io, Src(c), "CONNECTING") /\ ~ Is(io, Dest(c), "CONNECTING")
         /\ io.conn[Dest(c)] # "connecting" \/ "stale" \in causes
    /\ tun[c] = "deleted" => Src(c) \notin io.alive /\ Dest(c) \notin io.alive
    /\ status = "up" /\ asked[c] # None => tun[c] = "RESOLVING"
    /\ status = "unloaded" /\ asked[c] # None => "renamed" \in causes

\* An end of a connection that forwards is listened to, or is about to be.
Listened(s) ==
    tun[s[1]] = "FORWARDING" =>
        \/ Is(io, s, "RECVING") \/ "EINTR" \in causes
        \/ DueIn(calls, s) \/ FailingIn(calls, s[1])

Numbers(n) == [i \in 1..n |-> i]

\* The units of a direction, from those that are out to those that are unread.
Chain(a, b, h, q) == ((a \o b) \o h) \o q
Whole(w, q, s) == Chain(w.out[s], w.buf[s], HandOf(q, s), w.inq[Other(s)])

Transit(s) ==
    tun[s[1]] # "deleted" /\ ~ FailingIn(calls, s[1]) =>
        Whole(io, calls, s) = Numbers(sent[Other(s)])

ConnOK(c) ==
    TunOK(c) /\ \A s \in Ends(c) : Listened(s) /\ Transit(s)

\* What select() found writable is so for as long as the object exists.
ReadyOK ==
    /\ ready = [r |-> ready.r, x |-> ready.x]
    /\ \A d \in ready.r \cup ready.x :
         /\ d[1] \in Fds /\ d[2] \in Sock
         /\ tun[d[2][1]] \in {"CONNECTING", "FORWARDING", "deleted"}
    /\ \A d \in ready.x : d[2] \in io.alive => io.conn[d[2]] # "connecting"

CrashOK ==
    status = "crashed" => "renamed" \in causes \/ (calls # <<>> /\ Top[1] = "recv")

TunType ==
    /\ tun \in [Conn -> {"new", "RESOLVING", "CONNECTING", "FORWARDING", "deleted"}]
    /\ sent \in [Sock -> Nat] /\ signals \in Nat /\ DOMAIN asked = Conn
    /\ status \in {"up", "unloaded", "crashed"}
    /\ status = "unloaded" => calls = <<>>

Fails == {c \in Conn : FailingIn(calls, c)}

TunInv ==
    /\ TunType /\ IoInv(io, Fails) /\ CallsOK
    /\ (\A c \in Conn : ConnOK(c)) /\ ReadyOK /\ CrashOK

-----------------------------------------------------------------------------
\* A connection has two sockets, each the other's.
LEMMA EndsOfConn ==
  /\ \A c \in Conn : /\ Src(c) \in Sock /\ Dest(c) \in Sock /\ Src(c) # Dest(c)
                     /\ Src(c)[1] = c /\ Dest(c)[1] = c
                     /\ Other(Src(c)) = Dest(c) /\ Other(Dest(c)) = Src(c)
  /\ \A s \in Sock : s[1] \in Conn /\ (s = Src(s[1]) \/ s = Dest(s[1]))
  <1>1. \A c : Src(c)[1] = c /\ Dest(c)[1] = c /\ Src(c) # Dest(c)  BY DEF Src, Dest
  <1>2. \A c \in Conn : Src(c) \in Sock /\ Dest(c) \in Sock  BY TunnelAssumption
  <1>3. \A c : Other(Src(c)) = Dest(c) /\ Other(Dest(c)) = Src(c)
    <2> TAKE c
    <2>1. Src(c)[1] = c /\ Dest(c)[1] = c /\ Src(c) # Dest(c)  BY <1>1
    <2>2. \A s : Other(s) = IF s = Src(s[1]) THEN Dest(s[1]) ELSE Src(s[1])  BY DEF Other
    <2> QED BY <2>1, <2>2
  <1>4. \A s \in Sock : \E c \in Conn : s = Src(c) \/ s = Dest(c)  BY TunnelAssumption
  <1>5. ASSUME NEW s \in Sock
        PROVE  s[1] \in Conn /\ (s = Src(s[1]) \/ s = Dest(s[1]))
    <2>1. PICK c \in Conn : s = Src(c) \/ s = Dest(c)  BY <1>4
    <2>2. s[1] = c  BY <1>1, <2>1
    <2> QED BY <2>1, <2>2
  <1> QED BY <1>1, <1>2, <1>3, <1>5

\* Each end of a connection has one other end, and there are no more ends.
LEMMA OtherEnd ==
  ASSUME NEW s \in Sock
  PROVE  /\ s[1] \in Conn /\ Other(s) \in Sock /\ Other(s) # s /\ Other(Other(s)) = s
         /\ Other(s)[1] = s[1]
         /\ Ends(s[1]) = {s, Other(s)}
         /\ \A t \in Sock : t[1] = s[1] => t = s \/ t = Other(s)
  <1>1. s[1] \in Conn /\ (s = Src(s[1]) \/ s = Dest(s[1]))  BY EndsOfConn
  <1>2. CASE s = Src(s[1])
    BY <1>1, <1>2, EndsOfConn DEF Ends
  <1>3. CASE s = Dest(s[1])
    BY <1>1, <1>3, EndsOfConn DEF Ends
  <1> QED BY <1>1, <1>2, <1>3

\* Lists of one and of two.
LEMMA OneIsSeq ==
  ASSUME NEW e
  PROVE  /\ <<e>> # <<>> /\ <<e>>[1] = e /\ Len(<<e>>) = 1 /\ Tail(<<e>>) = <<>>
         /\ <<e>> \o <<>> = <<e>> /\ <<>> \o <<e>> = <<e>>
  <1>1. <<e>> \in Seq({e}) /\ Len(<<e>>) = 1 /\ <<e>>[1] = e  OBVIOUS
  <1>2. <<e>> # <<>>  OBVIOUS
  <1> DEFINE s == <<e>>
  <1> HIDE DEF s
  <1>3. s \in Seq({e}) /\ Len(s) = 1 /\ s # <<>>  BY <1>1, <1>2 DEF s
  <1>4. Tail(s) \in Seq({e}) /\ Len(Tail(s)) = 0
    <2>1. Tail(s) \in Seq({e}) /\ Len(Tail(s)) = Len(s) - 1
      BY <1>3, HeadTailProperties
    <2> QED BY <1>3, <2>1
  <1>5. Tail(s) = <<>>  BY <1>4, EmptySeq
  <1>6. s \o <<>> = s /\ <<>> \o s = s  BY <1>3, ConcatEmptySeq
  <1> QED BY <1>1, <1>2, <1>5, <1>6 DEF s

\* A list of two, as Connected() leaves it: the call for the target's end, and the user's.
LEMMA TwoIsSeq ==
  ASSUME NEW e, NEW x
  PROVE  LET q == <<e>> \o <<x>>
         IN q # <<>> /\ q[1] = e /\ q[2] = x /\ Len(q) = 2 /\ Tail(q) = <<x>>
  <1> DEFINE S == {e, x}
             a == <<e>>
             b == <<x>>
             q == a \o b
  <1>1. a \in Seq(S) /\ b \in Seq(S) /\ Len(a) = 1 /\ Len(b) = 1 /\ a[1] = e /\ b[1] = x
    OBVIOUS
  <1> HIDE DEF a, b
  <1>2. /\ q \in Seq(S) /\ Len(q) = Len(a) + Len(b)
        /\ \A i \in 1..(Len(a) + Len(b)) :
              q[i] = IF i <= Len(a) THEN a[i] ELSE b[i - Len(a)]
    BY <1>1, ConcatProperties
  <1> HIDE DEF q, S
  <1>3. Len(q) = 2 /\ q[1] = e /\ q[2] = x  BY <1>1, <1>2
  <1>4. q # <<>>  BY <1>2, <1>3, EmptySeq
  <1>5. Tail(q) \in Seq(S) /\ Len(Tail(q)) = 1 /\ Tail(q)[1] = x
    <2>1. /\ Tail(q) \in Seq(S) /\ Len(Tail(q)) = Len(q) - 1
          /\ \A i \in 1..Len(Tail(q)) : Tail(q)[i] = q[i + 1]
      BY <1>2, <1>4, HeadTailProperties
    <2>2. Len(Tail(q)) = 1  BY <1>3, <2>1
    <2>3. 1 \in 1..Len(Tail(q)) /\ 1 + 1 = 2  BY <2>2
    <2>4. Tail(q)[1] = q[1 + 1]  BY <2>1, <2>3
    <2> QED BY <1>3, <2>1, <2>2, <2>3, <2>4
  <1>6. Tail(q) = b
    <2> DEFINE t == Tail(q)
    <2>1. t \in Seq(S) /\ Len(t) = 1 /\ t[1] = x  BY <1>5
    <2> HIDE DEF t
    <2>2. \A i \in 1..Len(t) : i = 1  BY <2>1
    <2>3. Len(t) = Len(b) /\ \A i \in 1..Len(t) : t[i] = b[i]
      BY <1>1, <2>1, <2>2
    <2>4. t = b  BY <1>1, <2>1, <2>3, SeqEqual
    <2> QED BY <2>4 DEF t
  <1> QED BY <1>3, <1>4, <1>6 DEF q, a, b

\* The calls as a list: a call before the rest.
LEMMA Cons ==
  ASSUME NEW e, NEW s, NEW r, NEW q, Pending(q, e, s, r)
  PROVE  /\ q # <<>> /\ q[1] = e /\ Tail(q) = r
         /\ \/ r = <<>> /\ Len(q) = 1
            \/ Len(q) = 2 /\ r = <<RecvCall(Src(s[1]))>> /\ s = Dest(s[1])
               /\ q[2] = RecvCall(Src(s[1]))
  <1>0. s \in Sock /\ r \in Rests(s) /\ q = <<e>> \o r  BY DEF Pending
  <1>1. CASE r = <<>>
    BY <1>0, <1>1, OneIsSeq
  <1>2. CASE r # <<>>
    <2>1. PICK c \in Conn : s = Dest(c) /\ r = <<RecvCall(Src(c))>>  BY <1>0, <1>2 DEF Rests
    <2>2. s[1] = c  BY <2>1 DEF Dest
    <2> DEFINE x == RecvCall(Src(c))
    <2>3. q = <<e>> \o <<x>> /\ r = <<x>>  BY <1>0, <2>1
    <2> HIDE DEF x
    <2>4. q # <<>> /\ q[1] = e /\ Tail(q) = <<x>> /\ Len(q) = 2 /\ q[2] = x
      BY <2>3, TwoIsSeq
    <2> QED BY <2>1, <2>2, <2>3, <2>4 DEF x
  <1> QED BY <1>1, <1>2

\* With no call due, no error is to be reported and no unit is in a callback's hands.
LEMMA NothingDue ==
  ASSUME NEW c
  PROVE  Uninvolved(<<>>, c)
  <1>1. 1..Len(<<>>) = {}  OBVIOUS
  <1> QED BY <1>1 DEF Uninvolved, FailingIn, HandOf, DueIn

\* What an AsyncRecv() that is due, and a callback that is due, say about the sockets.
LEMMA RecvDue ==
  ASSUME NEW s, NEW r, NEW q, Pending(q, RecvCall(s), s, r)
  PROVE  /\ \A c : ~ FailingIn(q, c)
         /\ \A t : HandOf(q, t) = <<>>
         /\ DueIn(q, s)
         /\ \A t : DueIn(q, t) <=> t = s \/ (r # <<>> /\ t = Src(s[1]))
  <1>1. /\ q # <<>> /\ q[1] = RecvCall(s) /\ Tail(q) = r
        /\ \/ r = <<>> /\ Len(q) = 1
           \/ Len(q) = 2 /\ r = <<RecvCall(Src(s[1]))>> /\ s = Dest(s[1])
              /\ q[2] = RecvCall(Src(s[1]))
    BY Cons
  <1>2. \A t : RecvCall(t)[1] = "recv"  BY DEF RecvCall
  <1>a. \A i \in 1..Len(q) : i = 1 \/ (i = 2 /\ Len(q) = 2)  BY <1>1
  <1>b. q[1][1] = "recv" /\ (Len(q) = 2 => q[2][1] = "recv")  BY <1>1, <1>2
  <1>3. \A i \in 1..Len(q) : q[i][1] = "recv"  BY <1>a, <1>b
  <1>c. "recv" # "event"  OBVIOUS
  <1>4. \A t, u : RecvCall(t) = RecvCall(u) <=> t = u  BY DEF RecvCall
  <1>5. \A c : ~ FailingIn(q, c)  BY <1>3, <1>c DEF FailingIn
  <1>6. \A t : HandOf(q, t) = <<>>  BY <1>3 DEF HandOf
  <1>7. \A t : DueIn(q, t) <=> \E i \in 1..Len(q) : q[i] = RecvCall(t)
    BY <1>3 DEF DueIn
  <1>8. r = <<RecvCall(Src(s[1]))>> => r # <<>>  OBVIOUS
  <1>9. CASE Len(q) = 1
    <2>1. \A i : i \in 1..Len(q) <=> i = 1  BY <1>9
    <2> QED BY <1>1, <1>4, <1>5, <1>6, <1>7, <1>8, <1>9, <2>1
  <1>10. CASE Len(q) = 2
    <2>1. \A i : i \in 1..Len(q) <=> i = 1 \/ i = 2  BY <1>10
    <2> QED BY <1>1, <1>4, <1>5, <1>6, <1>7, <1>8, <1>10, <2>1
  <1> QED BY <1>1, <1>9, <1>10

EventSays(q, s, r, reason, data) ==
    /\ \A c : FailingIn(q, c) <=> reason = "ERROR" /\ c = s[1]
    /\ \A t \in Sock : HandOf(q, t) = IF reason = "READ" /\ data > 0 /\ t = Other(s)
                                    THEN <<data>> ELSE <<>>
    /\ DueIn(q, s)
    /\ \A t : DueIn(q, t) <=> t = s \/ (r # <<>> /\ t = Src(s[1]))

\* A callback that is due holds a unit for the other end, or an error, and listens to s again.
LEMMA EventDue ==
  ASSUME NEW s, NEW r, NEW reason, NEW data \in Nat,
         NEW q, Pending(q, Event(s, reason, data), s, r)
  PROVE  EventSays(q, s, r, reason, data)
  <1>1. /\ q # <<>> /\ q[1] = Event(s, reason, data) /\ Tail(q) = r
        /\ \/ r = <<>> /\ Len(q) = 1
           \/ Len(q) = 2 /\ r = <<RecvCall(Src(s[1]))>> /\ s = Dest(s[1])
              /\ q[2] = RecvCall(Src(s[1]))
    BY Cons
  <1>2. \A t : RecvCall(t)[1] = "recv"  BY DEF RecvCall
  <1>3. /\ Event(s, reason, data)[1] = "event" /\ Event(s, reason, data)[2] = s
        /\ Event(s, reason, data)[3] = reason /\ Event(s, reason, data)[4] = data
    BY DEF Event
  <1>4. \A t, u : RecvCall(t) = RecvCall(u) <=> t = u  BY DEF RecvCall
  <1>5. \A t : Event(s, reason, data) # RecvCall(t)  BY <1>2, <1>3
  <1>6. 1 \in 1..Len(q) /\ \A i \in 1..Len(q) : i # 1 => i = 2 /\ q[i][1] = "recv"
    <2>1. Len(q) = 1 \/ (Len(q) = 2 /\ q[2][1] = "recv")
      <3>1. q[2] = RecvCall(Src(s[1])) => q[2][1] = "recv"  BY <1>2
      <3> QED BY <1>1, <3>1, Zenon
    <2>2. CASE Len(q) = 1
      <3>1. \A i : i \in 1..Len(q) <=> i = 1  BY <2>2
      <3> QED BY <3>1
    <2>3. CASE Len(q) = 2 /\ q[2][1] = "recv"
      <3>1. \A i : i \in 1..Len(q) <=> i = 1 \/ i = 2  BY <2>3
      <3> QED BY <2>3, <3>1
    <2> QED BY <2>1, <2>2, <2>3
  <1>7. \A c : FailingIn(q, c) <=> reason = "ERROR" /\ c = s[1]
    <2>1. q[1][1] = "event" /\ q[1][2] = s /\ q[1][3] = reason  BY <1>1, <1>3
    <2> QED BY <1>6, <2>1 DEF FailingIn
  <1>8. ASSUME NEW t \in Sock
        PROVE  HandOf(q, t) = IF reason = "READ" /\ data > 0 /\ t = Other(s)
                              THEN <<data>> ELSE <<>>
    <2>1. Other(t) = s <=> t = Other(s)  BY OtherEnd DEF Pending
    <2> DEFINE at == {i \in 1..Len(q) : /\ q[i][1] = "event" /\ q[i][2] = Other(t)
                                        /\ q[i][3] = "READ" /\ q[i][4] > 0}
    <2>2. q[1][1] = "event" /\ q[1][2] = s /\ q[1][3] = reason /\ q[1][4] = data
      BY <1>1, <1>3
    <2>3. HandOf(q, t) = IF at = {} THEN <<>> ELSE <<q[CHOOSE i \in at : TRUE][4]>>
      BY DEF HandOf
    <2>4. CASE reason = "READ" /\ data > 0 /\ t = Other(s)
      <3>1. at = {1}  BY <1>6, <2>1, <2>2, <2>4
      <3> HIDE DEF at
      <3>2. (CHOOSE i \in at : TRUE) = 1  BY <3>1
      <3> QED BY <2>2, <2>3, <2>4, <3>1, <3>2
    <2>5. CASE ~ (reason = "READ" /\ data > 0 /\ t = Other(s))
      <3>1. at = {}  BY <1>6, <2>1, <2>2, <2>5
      <3> QED BY <2>3, <2>5, <3>1
    <2> QED BY <2>4, <2>5
  <1>9. \A t : DueIn(q, t) <=> t = s \/ (r # <<>> /\ t = Src(s[1]))
    <2>0. r = <<RecvCall(Src(s[1]))>> => r # <<>>  OBVIOUS
    <2>1. CASE Len(q) = 1
      <3>1. \A i : i \in 1..Len(q) <=> i = 1  BY <2>1
      <3>2. q[1][1] = "event" /\ q[1][2] = s  BY <1>1, <1>3
      <3>3. \A t : DueIn(q, t) <=> t = s  BY <1>1, <1>5, <3>1, <3>2 DEF DueIn
      <3> QED BY <1>1, <2>0, <2>1, <3>3
    <2>2. CASE Len(q) = 2
      <3>1. \A i : i \in 1..Len(q) <=> i = 1 \/ i = 2  BY <2>2
      <3>2. q[1][1] = "event" /\ q[1][2] = s /\ q[2][1] = "recv"  BY <1>1, <1>2, <1>3, <2>2
      <3>3. \A t : q[2] = RecvCall(t) <=> t = Src(s[1])  BY <1>1, <1>4, <2>2
      <3>4. \A t : DueIn(q, t) <=> t = s \/ t = Src(s[1])
        BY <1>1, <1>5, <3>1, <3>2, <3>3 DEF DueIn
      <3> QED BY <1>1, <2>0, <2>2, <3>4
    <2> QED BY <1>1, <2>1, <2>2
  <1> QED BY <1>7, <1>8, <1>9 DEF EventSays

-----------------------------------------------------------------------------
\* The units that are sent, and the ways they go.
LEMMA NumbersGrow ==
  ASSUME NEW n \in Nat
  PROVE  /\ Numbers(0) = <<>> /\ Numbers(n) \in Seq(Unit) /\ Len(Numbers(n)) = n
         /\ Numbers(n + 1) = Append(Numbers(n), n + 1)
  <1>1. Numbers(0) = <<>>  BY DEF Numbers
  <1>2. \A m \in Nat : Numbers(m) \in Seq(Unit) /\ Len(Numbers(m)) = m
                       /\ \A i \in 1..m : Numbers(m)[i] = i
    BY DEF Numbers, Unit
  <1>3. n + 1 \in Nat /\ n + 1 \in Unit  BY DEF Unit
  <1> DEFINE a == Append(Numbers(n), n + 1)
  <1>4. /\ a \in Seq(Unit) /\ Len(a) = n + 1
        /\ \A i \in 1..Len(Numbers(n)) : a[i] = Numbers(n)[i]
        /\ a[Len(Numbers(n)) + 1] = n + 1
    BY <1>2, <1>3, AppendProperties
  <1> HIDE DEF a
  <1>5. \A i \in 1..(n + 1) : Numbers(n + 1)[i] = a[i]
    <2> TAKE i \in 1..(n + 1)
    <2>1. Numbers(n + 1)[i] = i  BY <1>2, <1>3
    <2>2. CASE i = n + 1  BY <1>2, <1>4, <2>1, <2>2
    <2>3. CASE i # n + 1
      <3>1. i \in 1..n  BY <2>3
      <3> QED BY <1>2, <1>4, <2>1, <3>1
    <2> QED BY <2>2, <2>3
  <1>6. Numbers(n + 1) = a
    <2>1. Len(Numbers(n + 1)) = Len(a)  BY <1>2, <1>3, <1>4
    <2>2. \A i \in 1..Len(Numbers(n + 1)) : Numbers(n + 1)[i] = a[i]
      BY <1>2, <1>3, <1>5
    <2> QED BY <1>2, <1>3, <1>4, <2>1, <2>2, SeqEqual
  <1> QED BY <1>1, <1>2, <1>6 DEF a

\* What is out is the first of the units that were sent.
LEMMA PrefixOfNumbers ==
  ASSUME NEW n \in Nat, NEW a \in Seq(Unit), NEW x \in Seq(Unit), a \o x = Numbers(n)
  PROVE  Len(a) \in 0..n /\ a = SubSeq(Numbers(n), 1, Len(a))
  <1>1. /\ Len(a \o x) = Len(a) + Len(x) /\ Len(a) \in Nat /\ Len(x) \in Nat
        /\ \A i \in 1..(Len(a) + Len(x)) :
             (a \o x)[i] = IF i <= Len(a) THEN a[i] ELSE x[i - Len(a)]
    BY ConcatProperties, LenProperties
  <1>2. Numbers(n) \in Seq(Unit) /\ Len(Numbers(n)) = n  BY NumbersGrow
  <1>3. Len(a) \in 0..n  BY <1>1, <1>2
  <1> DEFINE p == SubSeq(Numbers(n), 1, Len(a))
  <1>4. /\ p \in Seq(Unit) /\ Len(p) = Len(a)
        /\ \A i \in 1..Len(a) : p[i] = Numbers(n)[i]
    <2>1. 1 \in Int /\ Len(a) \in Int /\ \A i \in 1..Len(a) : Numbers(n)[i] \in Unit
      BY <1>1, <1>2, <1>3
    <2>2. /\ p \in Seq(Unit) /\ Len(p) = IF 1 <= Len(a) THEN Len(a) - 1 + 1 ELSE 0
          /\ \A i \in 1..(Len(a) - 1 + 1) : p[i] = Numbers(n)[1 + i - 1]
      BY <2>1, SubSeqProperties
    <2> HIDE DEF p
    <2>3. Len(a) - 1 + 1 = Len(a)  BY <1>1
    <2>4. \A i \in 1..Len(a) : 1 + i - 1 = i  BY <1>1
    <2> QED BY <1>1, <2>2, <2>3, <2>4
  <1> HIDE DEF p
  <1>5. \A i \in 1..Len(a) : a[i] = p[i]  BY <1>1, <1>4
  <1>6. a = p  BY <1>4, <1>5, SeqEqual
  <1> QED BY <1>3, <1>6 DEF p

\* A unit that is sent comes last.
LEMMA WholeGrows ==
  ASSUME NEW a \in Seq(Unit), NEW b \in Seq(Unit), NEW h \in Seq(Unit), NEW q \in Seq(Unit),
         NEW n \in Nat, Chain(a, b, h, q) = Numbers(n), NEW u, u = n + 1
  PROVE  Chain(a, b, h, Append(q, u)) = Numbers(u)
  <1>0. u \in Unit /\ ((a \o b) \o h) \o q = Numbers(n)  BY DEF Unit, Chain
  <1> DEFINE x == (a \o b) \o h
  <1>1. x \in Seq(Unit)
    <2>1. a \o b \in Seq(Unit)  BY ConcatProperties
    <2> QED BY <2>1, ConcatProperties
  <1> HIDE DEF x
  <1>2. x \o q = Numbers(n)  BY <1>0 DEF x
  <1>3. <<u>> \in Seq(Unit)  BY <1>0
  <1>4. Append(q, u) = q \o <<u>>  BY <1>0, AppendIsConcat
  <1>5. x \o (q \o <<u>>) = (x \o q) \o <<u>>  BY <1>1, <1>3, ConcatAssociative
  <1>6. Numbers(n) \in Seq(Unit) /\ Numbers(n + 1) = Append(Numbers(n), u)  BY NumbersGrow
  <1>7. Append(Numbers(n), u) = Numbers(n) \o <<u>>  BY <1>0, <1>6, AppendIsConcat
  <1> QED BY <1>2, <1>4, <1>5, <1>6, <1>7 DEF x, Chain

\* A unit that is read goes from what has arrived to the hands of the callback.
LEMMA WholeRead ==
  ASSUME NEW a \in Seq(Unit), NEW b \in Seq(Unit), NEW q \in Seq(Unit), q # <<>>
  PROVE  Chain(a, b, <<Head(q)>>, Tail(q)) = Chain(a, b, <<>>, q)
  <1>1. a \o b \in Seq(Unit)  BY ConcatProperties
  <1>2. Head(q) \in Unit /\ Tail(q) \in Seq(Unit)  BY HeadTailProperties
  <1>3. <<Head(q)>> \in Seq(Unit)  BY <1>2
  <1>4. q = <<Head(q)>> \o Tail(q)
    <2> DEFINE c == <<Head(q)>> \o Tail(q)
    <2>1. /\ Len(Tail(q)) = Len(q) - 1 /\ Len(<<Head(q)>>) = 1 /\ <<Head(q)>>[1] = Head(q)
          /\ \A i \in 1..Len(Tail(q)) : Tail(q)[i] = q[i + 1]
      BY HeadTailProperties
    <2>2. /\ c \in Seq(Unit) /\ Len(c) = Len(<<Head(q)>>) + Len(Tail(q))
          /\ \A i \in 1..(Len(<<Head(q)>>) + Len(Tail(q))) :
                c[i] = IF i <= Len(<<Head(q)>>) THEN <<Head(q)>>[i]
                       ELSE Tail(q)[i - Len(<<Head(q)>>)]
      BY <1>2, <1>3, ConcatProperties
    <2>3. Len(q) \in Nat /\ q[1] = Head(q)  OBVIOUS
    <2> DEFINE t == Tail(q)
               d == Head(q)
    <2>4. /\ Len(t) = Len(q) - 1 /\ \A i \in 1..Len(t) : t[i] = q[i + 1]
          /\ Len(c) = 1 + Len(t) /\ c \in Seq(Unit) /\ q[1] = d
          /\ \A i \in 1..(1 + Len(t)) : c[i] = IF i <= 1 THEN <<d>>[i] ELSE t[i - 1]
          /\ <<d>>[1] = d
      BY <2>1, <2>2, <2>3
    <2> HIDE DEF c, t, d
    <2>5. Len(q) = Len(c) /\ Len(q) \in Nat  BY <2>3, <2>4
    <2>6. \A i \in 1..Len(q) : q[i] = c[i]
      <3> TAKE i \in 1..Len(q)
      <3>1. CASE i = 1
        <4>1. 1 \in 1..(1 + Len(t)) /\ 1 <= 1  BY <2>4, <2>5, <3>1
        <4>2. c[1] = <<d>>[1]  BY <2>4, <4>1
        <4> QED BY <2>4, <3>1, <4>2
      <3>2. CASE i # 1
        <4>1. i \in 1..(1 + Len(t)) /\ ~ (i <= 1) /\ i - 1 \in 1..Len(t) /\ (i - 1) + 1 = i
          BY <2>4, <2>5, <3>2
        <4>2. c[i] = t[i - 1]  BY <2>4, <4>1
        <4>3. t[i - 1] = q[(i - 1) + 1]  BY <2>4, <4>1
        <4> QED BY <4>1, <4>2, <4>3
      <3> QED BY <3>1, <3>2
    <2>7. q = c  BY <2>4, <2>5, <2>6, SeqEqual
    <2> QED BY <2>7 DEF c
  <1>5. ((a \o b) \o <<Head(q)>>) \o Tail(q) = (a \o b) \o (<<Head(q)>> \o Tail(q))
    BY <1>1, <1>2, <1>3, ConcatAssociative
  <1>6. (a \o b) \o <<>> = a \o b  BY <1>1, ConcatEmptySeq
  <1> QED BY <1>4, <1>5, <1>6 DEF Chain

\* A unit that is forwarded goes from the hands of the callback to the end of the queue.
LEMMA WholeForward ==
  ASSUME NEW a \in Seq(Unit), NEW b \in Seq(Unit), NEW u \in Unit, NEW q \in Seq(Unit)
  PROVE  Chain(a, Append(b, u), <<>>, q) = Chain(a, b, <<u>>, q)
  <1>1. <<u>> \in Seq(Unit)  OBVIOUS
  <1>2. Append(b, u) = b \o <<u>> /\ Append(b, u) \in Seq(Unit)
    BY AppendIsConcat, AppendProperties
  <1>3. a \o (b \o <<u>>) = (a \o b) \o <<u>>  BY <1>1, ConcatAssociative
  <1>4. a \o Append(b, u) \in Seq(Unit)  BY <1>2, ConcatProperties
  <1>5. (a \o Append(b, u)) \o <<>> = a \o Append(b, u)  BY <1>4, ConcatEmptySeq
  <1> QED BY <1>2, <1>3, <1>5 DEF Chain

\* Units that are sent go from the front of the queue to the end of what is out.
LEMMA WholeWritten ==
  ASSUME NEW a \in Seq(Unit), NEW b \in Seq(Unit), NEW n \in 0..Len(b), NEW h, NEW q
  PROVE  Chain(a \o SubSeq(b, 1, n), SubSeq(b, n + 1, Len(b)), h, q) = Chain(a, b, h, q)
  <1>1. /\ SubSeq(b, 1, n) \in Seq(Unit) /\ SubSeq(b, n + 1, Len(b)) \in Seq(Unit)
        /\ SubSeq(b, 1, n) \o SubSeq(b, n + 1, Len(b)) = b
    BY SubSeqSplits
  <1>2. (a \o SubSeq(b, 1, n)) \o SubSeq(b, n + 1, Len(b))
          = a \o (SubSeq(b, 1, n) \o SubSeq(b, n + 1, Len(b)))
    <2> DEFINE x == SubSeq(b, 1, n)
               y == SubSeq(b, n + 1, Len(b))
    <2>1. x \in Seq(Unit) /\ y \in Seq(Unit)  BY <1>1
    <2> HIDE DEF x, y
    <2>2. (a \o x) \o y = a \o (x \o y)  BY <2>1, ConcatAssociative, SMTT(30)
    <2> QED BY <2>2 DEF x, y
  <1> QED BY <1>1, <1>2 DEF Chain

-----------------------------------------------------------------------------
\* Nothing of connection c changes: its sockets, its state, its lookup.
Still(c) ==
    /\ \A s \in Ends(c) :
         /\ io'.flags[s] = io.flags[s] /\ io'.buf[s] = io.buf[s] /\ io'.conn[s] = io.conn[s]
         /\ io'.inq[s] = io.inq[s] /\ io'.out[s] = io.out[s] /\ sent'[s] = sent[s]
         /\ s \in io'.alive <=> s \in io.alive
    /\ tun'[c] = tun[c] /\ asked'[c] = asked[c]

\* A connection to which nothing happens stays as it should be.
LEMMA StillOK ==
  ASSUME NEW c \in Conn, ConnOK(c), Still(c), causes \subseteq causes',
         status' = status \/ status' = "crashed",
         Uninvolved(calls, c), Uninvolved(calls', c)
  PROVE  ConnOK(c)'
  <1>0. /\ Src(c) \in Ends(c) /\ Dest(c) \in Ends(c) /\ Src(c)[1] = c /\ Dest(c)[1] = c
        /\ \A s \in Ends(c) : s[1] = c /\ Other(s) \in Ends(c)
    BY EndsOfConn DEF Ends
  <1>1. TunOK(c)'
    <2>1. TunOK(c)  BY DEF ConnOK
    <2> QED BY <1>0, <2>1 DEF TunOK, Still, Pristine, Is
  <1>2. ASSUME NEW s \in Ends(c) PROVE Listened(s)'
    <2>1. Listened(s)  BY DEF ConnOK
    <2>2. s[1] = c /\ ~ DueIn(calls, s) /\ ~ FailingIn(calls, c)  BY <1>0 DEF Uninvolved
    <2> QED BY <2>1, <2>2 DEF Listened, Still, Is
  <1>3. ASSUME NEW s \in Ends(c) PROVE Transit(s)'
    <2>1. Transit(s)  BY DEF ConnOK
    <2>2. /\ s[1] = c /\ ~ FailingIn(calls, c) /\ HandOf(calls, s) = <<>>
          /\ HandOf(calls', s) = <<>> /\ Other(s) \in Ends(c)
      BY <1>0 DEF Uninvolved
    <2>3. Whole(io', calls', s) = Whole(io, calls, s)
      BY <2>2 DEF Whole, Still
    <2> QED BY <2>1, <2>2, <2>3 DEF Transit, Still
  <1> QED BY <1>1, <1>2, <1>3 DEF ConnOK

\* What the invariant says of the sockets alone.
LEMMA IoFacts ==
  ASSUME TunInv
  PROVE  /\ IoType(io) /\ Wiring(io) /\ Timed(io)
         /\ \A s \in io.alive : s \in Sock /\ io.fd[s] \in Fds
                             /\ (~ FailingIn(calls, s[1]) => FlagsOK(io, s))
  <1>1. IoType(io) /\ Wiring(io) /\ Timed(io)  BY DEF TunInv, IoInv
  <1>2. ASSUME NEW s \in io.alive
        PROVE  s \in Sock /\ io.fd[s] \in Fds /\ (~ FailingIn(calls, s[1]) => FlagsOK(io, s))
    <2>1. s \in Sock /\ io.fd[s] \in Fds  BY <1>1 DEF IoType, Wiring
    <2>2. ~ FailingIn(calls, s[1]) => s[1] \notin Fails  BY DEF Fails
    <2> QED BY <2>1, <2>2 DEF TunInv, IoInv
  <1> QED BY <1>1, <1>2

\* When the module is loaded the invariant holds.
LEMMA InitInv == Init => TunInv
  <1> SUFFICES ASSUME Init PROVE TunInv  OBVIOUS
  <1>0. /\ io = NoSockets /\ tun = [c \in Conn |-> "new"] /\ asked = [c \in Conn |-> None]
        /\ calls = <<>> /\ ready = NothingReady /\ sent = [s \in Sock |-> 0]
        /\ signals = MaxSignals /\ status = "up"
    BY DEF Init
  <1>1. /\ io.fd = [s \in Sock |-> -1] /\ io.flags = [s \in Sock |-> {}]
        /\ io.buf = [s \in Sock |-> <<>>] /\ io.timer = {} /\ io.alive = {}
        /\ io.table = [f \in Fds |-> None] /\ io.rset = {} /\ io.wset = {}
        /\ io.conn = [s \in Sock |-> "none"] /\ io.inq = [s \in Sock |-> <<>>]
        /\ io.eof = {} /\ io.out = [s \in Sock |-> <<>>] /\ DOMAIN io = Fields
    BY <1>0 DEF NoSockets, Fields
  <1>2. IoType(io)
    <2>1. <<>> \in Seq(Unit)  OBVIOUS
    <2> QED BY <1>1, <2>1 DEF IoType
  <1>3. Wiring(io) /\ Timed(io)  BY <1>1, SocketAssumption DEF Wiring, Timed
  <1>4. IoInv(io, Fails)  BY <1>1, <1>2, <1>3 DEF IoInv
  <1>5. TunType  BY <1>0, TunnelAssumption DEF TunType
  <1>6. ASSUME NEW c \in Conn PROVE ConnOK(c)
    <2>0. Src(c) \in Sock /\ Dest(c) \in Sock  BY EndsOfConn
    <2>1. TunOK(c)  BY <1>0, <1>1, <2>0 DEF TunOK, Pristine
    <2>2. ASSUME NEW s \in Ends(c) PROVE Listened(s) /\ Transit(s)
      <3>0. s \in Sock /\ s[1] = c /\ Other(s) \in Sock  BY EndsOfConn, OtherEnd DEF Ends
      <3>1. Listened(s)  BY <1>0, <3>0 DEF Listened
      <3>2. HandOf(calls, s) = <<>>  BY <1>0, NothingDue, <3>0 DEF Uninvolved, Ends
      <3>3. Whole(io, calls, s) = ((<<>> \o <<>>) \o <<>>) \o <<>>
        BY <1>1, <3>0, <3>2 DEF Whole, Chain
      <3>4. ((<<>> \o <<>>) \o <<>>) \o <<>> = <<>>
        <4>1. <<>> \in Seq(Unit)  OBVIOUS
        <4>2. <<>> \o <<>> = <<>>  BY <4>1, ConcatEmptySeq
        <4> QED BY <4>2
      <3>5. sent[Other(s)] = 0 /\ Numbers(0) = <<>>
        <4>1. 0 \in Nat  OBVIOUS
        <4> QED BY <1>0, <3>0, <4>1, NumbersGrow
      <3> QED BY <3>1, <3>3, <3>4, <3>5 DEF Transit
    <2> QED BY <2>1, <2>2 DEF ConnOK
  <1>7. ReadyOK  BY <1>0 DEF ReadyOK, NothingReady
  <1> QED BY <1>0, <1>4, <1>5, <1>6, <1>7 DEF TunInv, CallsOK, CrashOK

\* What the peers do changes what has arrived and how connections stand, and nothing that
\* the daemon keeps.
LEMMA PeerStepOK ==
  ASSUME TunInv,
         io'.fd = io.fd, io'.flags = io.flags, io'.buf = io.buf, io'.timer = io.timer,
         io'.alive = io.alive, io'.table = io.table, io'.rset = io.rset,
         io'.wset = io.wset, io'.out = io.out, DOMAIN io' = Fields,
         io'.eof \subseteq Sock, io'.inq \in [Sock -> Seq(Unit)],
         io'.conn \in [Sock -> {"none", "connecting", "up", "refused", "reset"}],
         sent' \in [Sock -> Nat],
         UNCHANGED <<tun, asked, calls, ready, signals, causes, status>>,
         \A s \in Sock : io.conn[s] # "connecting" => io'.conn[s] # "connecting",
         \A s \in Sock : s \notin io.alive =>
             io'.conn[s] = io.conn[s] /\ io'.inq[s] = io.inq[s] /\ sent'[s] = sent[s],
         \A s \in Sock : Transit(s)'
  PROVE  TunInv'
  <1>0. IoType(io) /\ Wiring(io) /\ Timed(io)  BY IoFacts
  <1>1. IoInv(io', Fails')
    <2>1. IoType(io')  BY <1>0 DEF IoType
    <2>2. Wiring(io')  BY <1>0 DEF Wiring
    <2>3. Timed(io')  BY <1>0 DEF Timed, Is
    <2>4. Fails' = Fails  BY DEF Fails
    <2>5. ASSUME NEW s \in io'.alive, s[1] \notin Fails PROVE FlagsOK(io', s)
      <3>1. FlagsOK(io, s)  BY <2>5 DEF TunInv, IoInv
      <3> QED BY <3>1 DEF FlagsOK, Is
    <2> QED BY <2>1, <2>2, <2>3, <2>4, <2>5 DEF IoInv
  <1>2. ASSUME NEW s \in Sock, NEW e, Finds(s, e) PROVE Finds(s, e)'
    BY <1>2 DEF Finds, Is
  <1>3. CallsOK'
    <2>1. CASE calls = <<>>  BY <2>1 DEF CallsOK
    <2>2. CASE calls # <<>>
      <3>1. PICK s \in Sock : \E e, r :
              /\ calls = <<e>> \o r /\ Finds(s, e) /\ r \in Rests(s)
              /\ r # <<>> => Finds(Src(s[1]), RecvCall(Src(s[1])))
        BY <2>2 DEF TunInv, CallsOK
      <3>2. PICK e, r :
              /\ calls = <<e>> \o r /\ Finds(s, e) /\ r \in Rests(s)
              /\ r # <<>> => Finds(Src(s[1]), RecvCall(Src(s[1])))
        BY <3>1
      <3>3. Src(s[1]) \in Sock  BY EndsOfConn
      <3>4. calls' = <<e>> \o r  BY <3>2
      <3>5. Finds(s, e)' /\ (r # <<>> => Finds(Src(s[1]), RecvCall(Src(s[1])))')
        BY <1>2, <3>2, <3>3
      <3> QED BY <3>2, <3>4, <3>5 DEF CallsOK
    <2> QED BY <2>1, <2>2
  <1>4. ASSUME NEW c \in Conn PROVE ConnOK(c)'
    <2>0. ConnOK(c) /\ Src(c) \in Sock /\ Dest(c) \in Sock  BY EndsOfConn DEF TunInv
    <2>1. ASSUME NEW s \in Sock, Pristine(s) PROVE Pristine(s)'
      BY <2>1 DEF Pristine
    <2>2. TunOK(c)'
      <3>1. TunOK(c)  BY <2>0 DEF ConnOK
      <3> QED BY <2>0, <2>1, <3>1 DEF TunOK, Is
    <2>3. ASSUME NEW s \in Ends(c) PROVE Listened(s)'
      <3>1. Listened(s)  BY <2>0 DEF ConnOK
      <3> QED BY <3>1 DEF Listened, Is
    <2>4. \A s \in Ends(c) : s \in Sock  BY <2>0 DEF Ends
    <2> QED BY <2>2, <2>3, <2>4 DEF ConnOK
  <1>5. ReadyOK'
    <2>1. ReadyOK  BY DEF TunInv
    <2> QED BY <2>1 DEF ReadyOK
  <1>6. TunType' /\ CrashOK'
    BY DEF TunInv, TunType, CrashOK, Top
  <1> QED BY <1>1, <1>3, <1>4, <1>5, <1>6 DEF TunInv

\* A call that is due is an AsyncRecv() or a callback.
LEMMA FindsEvent ==
  ASSUME NEW s, NEW e, Finds(s, e), e # RecvCall(s)
  PROVE  \E reason : \E data \in Nat : e = Event(s, reason, data)
  <1>1. CASE \E d \in Nat : e = Event(s, "READ", d)
    <2>1. PICK d \in Nat : e = Event(s, "READ", d)  BY <1>1
    <2> QED BY <2>1
  <1>2. CASE \E d \in {0, 1} : e = Event(s, "CONNECTED", d)
    <2>1. PICK d \in {0, 1} : e = Event(s, "CONNECTED", d)  BY <1>2
    <2>2. d \in Nat  BY <2>1
    <2> QED BY <2>1, <2>2
  <1>3. CASE e = Event(s, "ERROR", 1)
    <2>1. 1 \in Nat  OBVIOUS
    <2> QED BY <1>3, <2>1
  <1>4. CASE e = Event(s, "TIMEOUT", 0)
    <2>1. 0 \in Nat  OBVIOUS
    <2> QED BY <1>4, <2>1
  <1> QED BY <1>1, <1>2, <1>3, <1>4 DEF Finds

\* The units of s in flight are typed.
LEMMA WholeParts ==
  ASSUME TunInv, NEW s \in Sock
  PROVE  /\ io.out[s] \in Seq(Unit) /\ io.buf[s] \in Seq(Unit) /\ io.inq[s] \in Seq(Unit)
         /\ HandOf(calls, s) \in Seq(Unit) /\ Transit(s)
  <1>1. io.out[s] \in Seq(Unit) /\ io.buf[s] \in Seq(Unit) /\ io.inq[s] \in Seq(Unit)
    BY IoFacts DEF IoType
  <1>2. Transit(s)
    <2>1. s[1] \in Conn /\ s \in Ends(s[1])  BY OtherEnd
    <2> QED BY <2>1 DEF TunInv, ConnOK
  <1>3. HandOf(calls, s) \in Seq(Unit)
    <2>0. <<>> \in Seq(Unit)  OBVIOUS
    <2>1. CASE calls = <<>>
      <3>1. HandOf(calls, s) = <<>>
        <4>1. s \in Ends(s[1])  BY OtherEnd
        <4> QED BY <2>1, <4>1, NothingDue DEF Uninvolved
      <3> QED BY <2>0, <3>1
    <2>2. CASE calls # <<>>
      <3>1. PICK t \in Sock : \E e, r :
              calls = <<e>> \o r /\ Finds(t, e) /\ r \in Rests(t)
        BY <2>2 DEF TunInv, CallsOK
      <3>2. PICK e, r : calls = <<e>> \o r /\ Finds(t, e) /\ r \in Rests(t)
        BY <3>1
      <3>3. CASE e = RecvCall(t)
        <4>0. Pending(calls, RecvCall(t), t, r)  BY <3>2, <3>3 DEF Pending
        <4>1. \A u : HandOf(calls, u) = <<>>  BY <4>0, RecvDue
        <4> QED BY <2>0, <4>1
      <3>4. CASE e # RecvCall(t)
        <4>1. \E reason : \E data \in Nat : e = Event(t, reason, data)
          BY <3>2, <3>4, FindsEvent
        <4>2. PICK reason : \E data \in Nat : e = Event(t, reason, data)  BY <4>1
        <4>3. PICK data \in Nat : e = Event(t, reason, data)  BY <4>2
        <4>4. Pending(calls, Event(t, reason, data), t, r)  BY <3>2, <4>3 DEF Pending
        <4>5. \A u \in Sock : HandOf(calls, u) =
                 IF reason = "READ" /\ data > 0 /\ u = Other(t) THEN <<data>> ELSE <<>>
          BY <4>4, EventDue DEF EventSays
        <4>6. data > 0 => <<data>> \in Seq(Unit)  BY <4>3 DEF Unit
        <4> QED BY <2>0, <4>5, <4>6
      <3> QED BY <3>3, <3>4
    <2> QED BY <2>1, <2>2
  <1> QED BY <1>1, <1>2, <1>3

\* What a peer sends comes last of what is unread.
LEMMA SendsOK ==
  ASSUME TunInv, NEW s \in Sock, Sends(s)
  PROVE  TunInv'
  <1>0. IoType(io) /\ sent \in [Sock -> Nat]  BY IoFacts DEF TunInv, TunType
  <1>1. /\ io.conn[s] = "up" /\ s \in io.alive /\ sent' = [sent EXCEPT ![s] = sent[s] + 1]
        /\ io' = [io EXCEPT !.inq[s] = Append(io.inq[s], sent[s] + 1)]
        /\ UNCHANGED <<tun, asked, target, calls, ready, signals, causes, status>>
    BY DEF Sends
  <1>2. PICK x : x = Append(io.inq[s], sent[s] + 1)  OBVIOUS
  <1>3. x \in Seq(Unit) /\ sent[s] + 1 \in Unit /\ sent[s] \in Nat
    <2>1. io.inq[s] \in Seq(Unit) /\ sent[s] + 1 \in Unit /\ sent[s] \in Nat
      BY <1>0 DEF IoType, Unit
    <2> QED BY <1>2, <2>1, AppendProperties
  <1>4. /\ io'.inq = [io.inq EXCEPT ![s] = x]
        /\ io'.fd = io.fd /\ io'.flags = io.flags /\ io'.buf = io.buf
        /\ io'.timer = io.timer /\ io'.alive = io.alive /\ io'.table = io.table
        /\ io'.rset = io.rset /\ io'.wset = io.wset /\ io'.out = io.out
        /\ DOMAIN io' = Fields /\ io'.conn = io.conn /\ io'.eof = io.eof
    BY <1>0, <1>1, <1>2 DEF IoType, Fields
  <1>5. io'.inq \in [Sock -> Seq(Unit)] /\ sent' \in [Sock -> Nat]
    BY <1>0, <1>1, <1>3, <1>4 DEF IoType
  <1>6. \A t \in Sock : t # s => io'.inq[t] = io.inq[t] /\ sent'[t] = sent[t]
    BY <1>0, <1>1, <1>4 DEF IoType
  <1>7. io'.inq[s] = x /\ sent'[s] = sent[s] + 1
    BY <1>0, <1>1, <1>4 DEF IoType
  <1>8. ASSUME NEW t \in Sock PROVE Transit(t)'
    <2>0. Other(t) \in Sock  BY OtherEnd
    <2>1. /\ io.out[t] \in Seq(Unit) /\ io.buf[t] \in Seq(Unit)
          /\ io.inq[Other(t)] \in Seq(Unit)
          /\ HandOf(calls, t) \in Seq(Unit) /\ Transit(t)
      BY <2>0, WholeParts
    <2>2. CASE Other(t) = s
      <3> DEFINE a == io.out[t]
                 b == io.buf[t]
                 h == HandOf(calls, t)
                 q == io.inq[s]
                 n == sent[s]
      <3>1. Whole(io, calls, t) = Chain(a, b, h, q)  BY <2>2 DEF Whole
      <3>2. Whole(io', calls', t) = Chain(a, b, h, Append(q, n + 1))
        BY <1>1, <1>2, <1>4, <1>7, <2>2 DEF Whole
      <3>3. /\ a \in Seq(Unit) /\ b \in Seq(Unit) /\ h \in Seq(Unit) /\ q \in Seq(Unit)
            /\ n \in Nat
        BY <1>3, <2>1, <2>2
      <3> HIDE DEF a, b, h, q, n
      <3>4. Chain(a, b, h, q) = Numbers(n) => Chain(a, b, h, Append(q, n + 1)) = Numbers(n + 1)
        BY <3>3, WholeGrows
      <3>5. Whole(io, calls, t) = Numbers(n) => Whole(io', calls', t) = Numbers(n + 1)
        BY <3>1, <3>2, <3>4
      <3>6. sent[Other(t)] = n /\ sent'[Other(t)] = n + 1  BY <1>7, <2>2 DEF n
      <3>7. Transit(t) /\ calls' = calls /\ tun' = tun  BY <1>1, <2>1
      <3>8. tun[t[1]] # "deleted" /\ ~ FailingIn(calls, t[1])
            => Whole(io, calls, t) = Numbers(n)
        BY <3>6, <3>7 DEF Transit
      <3>9. tun'[t[1]] # "deleted" /\ ~ FailingIn(calls', t[1])
            => Whole(io', calls', t) = Numbers(sent'[Other(t)])
        BY <3>5, <3>6, <3>7, <3>8
      <3> QED BY <3>9 DEF Transit
    <2>3. CASE Other(t) # s
      <3>0. /\ io'.out = io.out /\ io'.buf = io.buf /\ calls' = calls
            /\ io'.inq[Other(t)] = io.inq[Other(t)] /\ sent'[Other(t)] = sent[Other(t)]
            /\ tun' = tun
        BY <1>1, <1>4, <1>6, <2>0, <2>3
      <3>1. Whole(io', calls', t) = Whole(io, calls, t)
        BY <3>0 DEF Whole
      <3>2. Transit(t)  BY <2>1
      <3> QED BY <3>0, <3>1, <3>2 DEF Transit
    <2> QED BY <2>2, <2>3
  <1>9. \A t \in Sock : t \notin io.alive =>
             io'.conn[t] = io.conn[t] /\ io'.inq[t] = io.inq[t] /\ sent'[t] = sent[t]
    BY <1>1, <1>4, <1>6
  <1>10. /\ io'.eof \subseteq Sock
         /\ io'.conn \in [Sock -> {"none", "connecting", "up", "refused", "reset"}]
         /\ \A t \in Sock : io.conn[t] # "connecting" => io'.conn[t] # "connecting"
    BY <1>0, <1>4 DEF IoType
  <1>11. UNCHANGED <<tun, asked, calls, ready, signals, causes, status>>  BY <1>1
  <1> QED BY <1>4, <1>5, <1>8, <1>9, <1>10, <1>11, PeerStepOK

\* A peer that answers, closes its side or resets the connection.
LEMMA PeerActsOK ==
  ASSUME TunInv, NEW s \in Sock, PeerActs(s)
  PROVE  TunInv'
  <1>0. IoType(io) /\ sent \in [Sock -> Nat]  BY IoFacts DEF TunInv, TunType
  <1>1. UNCHANGED <<tun, asked, calls, ready, sent, signals, causes, status>> /\ s \in io.alive
    BY DEF PeerActs
  <1>2. /\ io'.fd = io.fd /\ io'.flags = io.flags /\ io'.buf = io.buf
        /\ io'.timer = io.timer /\ io'.alive = io.alive /\ io'.table = io.table
        /\ io'.rset = io.rset /\ io'.wset = io.wset /\ io'.out = io.out
        /\ DOMAIN io' = Fields /\ io'.inq = io.inq
        /\ io'.eof = io.eof \/ io'.eof = io.eof \cup {s}
        /\ io'.conn = io.conn
           \/ \E to \in {"up", "refused", "reset"} : io'.conn = [io.conn EXCEPT ![s] = to]
    <2>1. CASE \E to \in {"up", "refused"} : io' = [io EXCEPT !.conn[s] = to]
      <3>1. PICK to \in {"up", "refused"} : io' = [io EXCEPT !.conn[s] = to]  BY <2>1
      <3> QED BY <1>0, <3>1 DEF IoType, Fields
    <2>2. CASE io' = [io EXCEPT !.eof = @ \cup {s}]
      BY <1>0, <2>2 DEF IoType, Fields
    <2>3. CASE io' = [io EXCEPT !.conn[s] = "reset"]
      BY <1>0, <2>3 DEF IoType, Fields
    <2> QED BY <2>1, <2>2, <2>3 DEF PeerActs
  <1>3. /\ io'.conn \in [Sock -> {"none", "connecting", "up", "refused", "reset"}]
        /\ \A t \in Sock : io.conn[t] # "connecting" => io'.conn[t] # "connecting"
        /\ \A t \in Sock : t # s => io'.conn[t] = io.conn[t]
    <2>0. io.conn \in [Sock -> {"none", "connecting", "up", "refused", "reset"}]
      BY <1>0 DEF IoType
    <2>1. CASE io'.conn = io.conn  BY <2>0, <2>1
    <2>2. CASE \E to \in {"up", "refused", "reset"} : io'.conn = [io.conn EXCEPT ![s] = to]
      BY <2>0, <2>2
    <2> QED BY <1>2, <2>1, <2>2
  <1>4. io'.eof \subseteq Sock /\ io'.inq \in [Sock -> Seq(Unit)] /\ sent' \in [Sock -> Nat]
    BY <1>0, <1>1, <1>2 DEF IoType
  <1>5. ASSUME NEW t \in Sock PROVE Transit(t)'
    <2>1. Transit(t)  BY WholeParts
    <2>2. Whole(io', calls', t) = Whole(io, calls, t)  BY <1>1, <1>2 DEF Whole
    <2> QED BY <1>1, <2>1, <2>2 DEF Transit
  <1>6. \A t \in Sock : t \notin io.alive =>
             io'.conn[t] = io.conn[t] /\ io'.inq[t] = io.inq[t] /\ sent'[t] = sent[t]
    BY <1>1, <1>2, <1>3
  <1>7. UNCHANGED <<tun, asked, calls, ready, signals, causes, status>>  BY <1>1
  <1> QED BY <1>2, <1>3, <1>4, <1>5, <1>6, <1>7, PeerStepOK

\* Steps that leave the sockets, the tunnels and the calls alone.
LEMMA IdleOK ==
  ASSUME TunInv, UNCHANGED <<io, tun, asked, calls, sent, signals, causes>>,
         status' = status \/ status' = "crashed", ReadyOK', CrashOK'
  PROVE  TunInv'
  <1>1. IoInv(io', Fails')  BY DEF TunInv, Fails
  <1>2. CallsOK'
    <2>1. \A s, e : Finds(s, e) => Finds(s, e)'  BY DEF Finds, Is
    <2>2. CallsOK  BY DEF TunInv
    <2> QED BY <2>1, <2>2 DEF CallsOK
  <1>3. ASSUME NEW c \in Conn PROVE ConnOK(c)'
    <2>0. ConnOK(c)  BY DEF TunInv
    <2>1. TunOK(c)'
      <3>1. TunOK(c)  BY <2>0 DEF ConnOK
      <3> QED BY <3>1 DEF TunOK, Pristine, Is
    <2>2. ASSUME NEW s \in Ends(c) PROVE Listened(s)' /\ Transit(s)'
      <3>1. Listened(s) /\ Transit(s)  BY <2>0 DEF ConnOK
      <3> QED BY <3>1 DEF Listened, Transit, Whole, Is
    <2> QED BY <2>1, <2>2 DEF ConnOK
  <1>4. TunType'  BY DEF TunInv, TunType
  <1> QED BY <1>1, <1>2, <1>3, <1>4 DEF TunInv

\* Nothing happens.
LEMMA StutterOK ==
  ASSUME TunInv, UNCHANGED vars
  PROVE  TunInv'
  <1>1. UNCHANGED <<io, tun, asked, calls, ready, sent, signals, causes, status>>  BY DEF vars
  <1>2. ReadyOK' /\ CrashOK'  BY <1>1 DEF TunInv, ReadyOK, CrashOK, Top
  <1> QED BY <1>1, <1>2, IdleOK

\* The new name is for lookups to come; nothing else is touched.
LEMMA ReloadCfgOK ==
  ASSUME TunInv, ReloadCfg
  PROVE  TunInv'
  <1>1. UNCHANGED <<io, tun, asked, calls, ready, sent, signals, causes, status>>
    BY DEF ReloadCfg
  <1>2. ReadyOK' /\ CrashOK'  BY <1>1 DEF TunInv, ReadyOK, CrashOK, Top
  <1> QED BY <1>1, <1>2, IdleOK

\* An answer that is late finds the module gone: only for a name that was changed.
LEMMA LateAnswerOK ==
  ASSUME TunInv, LateAnswer
  PROVE  TunInv'
  <1>1. /\ UNCHANGED <<io, tun, asked, calls, ready, sent, signals, causes>>
        /\ status' = "crashed"
    BY DEF LateAnswer
  <1>2. "renamed" \in causes
    <2>1. PICK c \in Conn : asked[c] # None  BY DEF LateAnswer
    <2>2. TunOK(c)  BY DEF TunInv, ConnOK
    <2> QED BY <2>1, <2>2 DEF LateAnswer, TunOK
  <1>3. ReadyOK' /\ CrashOK'  BY <1>1, <1>2 DEF TunInv, ReadyOK, CrashOK, Top
  <1> QED BY <1>1, <1>3, IdleOK

-----------------------------------------------------------------------------
\* The steps of the daemon, which concern one connection.

\* What is due concerns connection c.
DueFor(q, c) ==
    \/ q = <<>>
    \/ \E s \in Sock : \E r :
         /\ s[1] = c
         /\ \/ Pending(q, RecvCall(s), s, r)
            \/ \E reason : \E data \in Nat : Pending(q, Event(s, reason, data), s, r)

\* Other connections have nothing due.
LEMMA DueUninvolved ==
  ASSUME NEW q, NEW c0 \in Conn, DueFor(q, c0), NEW c \in Conn, c # c0
  PROVE  Uninvolved(q, c)
  <1>0. /\ \A t \in Ends(c) : t \in Sock /\ t[1] = c
        /\ Src(c0)[1] = c0
    BY EndsOfConn DEF Ends
  <1>1. CASE q = <<>>  BY <1>1, NothingDue
  <1>2. CASE q # <<>>
    <2>1. PICK s \in Sock : \E r :
            /\ s[1] = c0
            /\ \/ Pending(q, RecvCall(s), s, r)
               \/ \E reason : \E data \in Nat : Pending(q, Event(s, reason, data), s, r)
      BY <1>2 DEF DueFor
    <2>2. PICK r :
            /\ s[1] = c0
            /\ \/ Pending(q, RecvCall(s), s, r)
               \/ \E reason : \E data \in Nat : Pending(q, Event(s, reason, data), s, r)
      BY <2>1
    <2>3. \A t \in Ends(c) : t # s /\ t # Src(s[1]) /\ t # Other(s)
      BY <1>0, <2>2, OtherEnd
    <2>4. CASE Pending(q, RecvCall(s), s, r)
      <3>1. /\ \A d : ~ FailingIn(q, d)
            /\ \A t : HandOf(q, t) = <<>>
            /\ \A t : DueIn(q, t) <=> t = s \/ (r # <<>> /\ t = Src(s[1]))
        BY <2>4, RecvDue
      <3> QED BY <2>3, <3>1 DEF Uninvolved
    <2>5. CASE \E reason : \E data \in Nat : Pending(q, Event(s, reason, data), s, r)
      <3>1. PICK reason : \E data \in Nat : Pending(q, Event(s, reason, data), s, r)
        BY <2>5
      <3>2. PICK data \in Nat : Pending(q, Event(s, reason, data), s, r)  BY <3>1
      <3>3. /\ \A d : FailingIn(q, d) <=> reason = "ERROR" /\ d = s[1]
            /\ \A t \in Sock : HandOf(q, t) = IF reason = "READ" /\ data > 0 /\ t = Other(s)
                                            THEN <<data>> ELSE <<>>
            /\ \A t : DueIn(q, t) <=> t = s \/ (r # <<>> /\ t = Src(s[1]))
        BY <3>2, EventDue DEF EventSays
      <3> QED BY <1>0, <2>2, <2>3, <3>3 DEF Uninvolved
    <2> QED BY <2>2, <2>4, <2>5
  <1> QED BY <1>1, <1>2

\* They stay as they are.
LEMMA OthersOK ==
  ASSUME TunInv, NEW c0 \in Conn, \A c \in Conn : c # c0 => Still(c),
         causes \subseteq causes', status' = status \/ status' = "crashed",
         DueFor(calls, c0), DueFor(calls', c0)
  PROVE  \A c \in Conn : c # c0 => ConnOK(c)'
  <1> SUFFICES ASSUME NEW c \in Conn, c # c0 PROVE ConnOK(c)'
    OBVIOUS
  <1>1. Uninvolved(calls, c) /\ Uninvolved(calls', c)  BY DueUninvolved
  <1>2. ConnOK(c)  BY DEF TunInv
  <1> QED BY <1>1, <1>2, StillOK

\* A method of one socket leaves the other connections alone.
LEMMA BecomesStill ==
  ASSUME IoType(io), NEW s \in Sock, NEW flags, NEW buf, NEW conn, NEW inq, NEW out,
         Becomes(io', io, s, flags, buf, conn, inq, out), sent' = sent,
         \A c \in Conn : c # s[1] => tun'[c] = tun[c] /\ asked'[c] = asked[c]
  PROVE  \A c \in Conn : c # s[1] => Still(c)
  <1> SUFFICES ASSUME NEW c \in Conn, c # s[1] PROVE Still(c)
    OBVIOUS
  <1>1. \A t \in Ends(c) : t \in Sock /\ t # s  BY EndsOfConn DEF Ends
  <1> QED BY <1>1 DEF Still, Becomes, IoType

\* Dispatch() looks at one of what select() found, and nothing else does.
Shrinks ==
    /\ ready' = [r |-> ready'.r, x |-> ready'.x]
    /\ ready'.r \subseteq ready.r /\ ready'.x \subseteq ready.x

\* What select() found stays as it was found.
LEMMA ReadyKept ==
  ASSUME TunInv, Shrinks,
         \A c \in Conn : tun[c] \in {"CONNECTING", "FORWARDING", "deleted"}
             => tun'[c] \in {"CONNECTING", "FORWARDING", "deleted"},
         \A s \in Sock : tun[s[1]] \in {"CONNECTING", "FORWARDING", "deleted"} =>
             /\ s \in io'.alive => s \in io.alive
             /\ s \in io'.alive /\ io.conn[s] # "connecting" => io'.conn[s] # "connecting"
  PROVE  ReadyOK'
  <1>1. ReadyOK  BY DEF TunInv
  <1>2. \A s \in Sock : s[1] \in Conn  BY OtherEnd
  <1> QED BY <1>1, <1>2 DEF ReadyOK, Shrinks

\* Nothing is under way on a socket before its connection is being made.
LEMMA FlaggedTun ==
  ASSUME TunInv, NEW s \in io.alive, io.flags[s] # {}
  PROVE  tun[s[1]] \in {"CONNECTING", "FORWARDING"}
  <1>1. s \in Sock  BY IoFacts
  <1>2. s[1] \in Conn /\ (s = Src(s[1]) \/ s = Dest(s[1]))  BY <1>1, EndsOfConn
  <1>3. TunOK(s[1])  BY <1>2 DEF TunInv, ConnOK
  <1>4. tun[s[1]] \in {"new", "RESOLVING", "CONNECTING", "FORWARDING", "deleted"}
    BY <1>2 DEF TunInv, TunType
  <1> QED BY <1>2, <1>3, <1>4 DEF TunOK, Pristine

\* WaitEvents() finds descriptors of sockets on which something is under way.
LEMMA WaitEventsOK ==
  ASSUME TunInv, WaitEvents
  PROVE  TunInv'
  <1>1. /\ calls = <<>> /\ status = "up" /\ ready' = Selected(io)
        /\ UNCHANGED <<io, tun, asked, calls, sent, signals, causes, status>>
    BY DEF WaitEvents, InLoop, Between
  <1>2. \A c : ~ FailingIn(calls, c)  BY <1>1, NothingDue DEF Uninvolved
  <1>3. IoType(io) /\ Wiring(io)  BY IoFacts
  <1>4. ASSUME NEW f \in io.rset \cup io.wset
        PROVE  /\ f \in Fds /\ io.table[f] \in io.alive /\ io.table[f] \in Sock
               /\ tun[io.table[f][1]] \in {"CONNECTING", "FORWARDING"}
    <2>1. f \in Fds /\ io.table[f] \in io.alive /\ io.fd[io.table[f]] = f
      BY <1>3, <1>4 DEF IoType, Wiring
    <2>2. FlagsOK(io, io.table[f])  BY <1>2, <2>1, IoFacts
    <2>3. io.flags[io.table[f]] # {}  BY <1>4, <2>1, <2>2 DEF FlagsOK, Is
    <2>4. io.table[f] \in Sock  BY <2>1, IoFacts
    <2> QED BY <2>1, <2>3, <2>4, FlaggedTun
  <1>5. ReadyOK'
    <2> DEFINE R == {<<f, io.table[f]>> : f \in {g \in io.rset : Readable(io, io.table[g])}}
               X == {<<f, io.table[f]>> : f \in {g \in io.wset : Writable(io, io.table[g])}}
    <2>1. ready'.r = R /\ ready'.x = X /\ ready' = [r |-> ready'.r, x |-> ready'.x]
      BY <1>1 DEF Selected
    <2>2. ASSUME NEW d \in R \cup X
          PROVE  /\ d[1] \in Fds /\ d[2] \in Sock
                 /\ tun[d[2][1]] \in {"CONNECTING", "FORWARDING"}
      <3>1. PICK f \in io.rset \cup io.wset : d = <<f, io.table[f]>>  BY <2>2
      <3>2. d[1] = f /\ d[2] = io.table[f]  BY <3>1
      <3> QED BY <1>4, <3>2
    <2>3. ASSUME NEW d \in X PROVE io.conn[d[2]] # "connecting"
      <3>1. PICK f \in io.wset : d = <<f, io.table[f]>> /\ Writable(io, io.table[f])
        BY <2>3
      <3>2. d[2] = io.table[f]  BY <3>1
      <3> QED BY <3>1, <3>2 DEF Writable
    <2> HIDE DEF R, X
    <2> QED BY <1>1, <2>1, <2>2, <2>3 DEF ReadyOK
  <1>6. CrashOK'  BY <1>1 DEF CrashOK
  <1> QED BY <1>1, <1>5, <1>6, IdleOK

-----------------------------------------------------------------------------
\* The call that is made next.
LEMMA TopFacts ==
  ASSUME TunInv, calls # <<>>
  PROVE  \E s \in Sock : \E e, r :
           /\ Pending(calls, e, s, r) /\ Finds(s, e) /\ Top = e /\ Rest = r
           /\ r # <<>> => Finds(Src(s[1]), RecvCall(Src(s[1])))
           /\ e = RecvCall(s) \/ \E reason : \E data \in Nat : e = Event(s, reason, data)
           /\ DueFor(calls, s[1])
  <1>1. PICK s \in Sock : \E e, r :
           /\ calls = <<e>> \o r /\ Finds(s, e) /\ r \in Rests(s)
           /\ r # <<>> => Finds(Src(s[1]), RecvCall(Src(s[1])))
    BY DEF TunInv, CallsOK
  <1>2. PICK e, r :
           /\ calls = <<e>> \o r /\ Finds(s, e) /\ r \in Rests(s)
           /\ r # <<>> => Finds(Src(s[1]), RecvCall(Src(s[1])))
    BY <1>1
  <1>3. Pending(calls, e, s, r)  BY <1>2 DEF Pending
  <1>4. Top = e /\ Rest = r
    <2>1. calls[1] = e /\ Tail(calls) = r  BY <1>3, Cons
    <2> QED BY <2>1 DEF Top, Rest
  <1>5. e = RecvCall(s) \/ \E reason : \E data \in Nat : e = Event(s, reason, data)
    BY <1>2, FindsEvent
  <1>6. DueFor(calls, s[1])  BY <1>3, <1>5 DEF DueFor
  <1> QED BY <1>2, <1>3, <1>4, <1>5, <1>6

\* After it the rest is due.
LEMMA Popped ==
  ASSUME NEW s \in Sock, NEW r \in Rests(s), calls' = r,
         r # <<>> => Finds(Src(s[1]), RecvCall(Src(s[1])))'
  PROVE  /\ CallsOK' /\ DueFor(calls', s[1])
         /\ \A c : ~ FailingIn(calls', c)
         /\ \A t \in Sock : HandOf(calls', t) = <<>>
         /\ \A t \in Sock : DueIn(calls', t) <=> r # <<>> /\ t = Src(s[1])
  <1>1. CASE r = <<>>
    <2>1. calls' = <<>>  BY <1>1
    <2>2. CallsOK' /\ DueFor(calls', s[1])  BY <2>1 DEF CallsOK, DueFor
    <2>3. /\ \A c : ~ FailingIn(calls', c)
          /\ \A t \in Sock : HandOf(calls', t) = <<>> /\ ~ DueIn(calls', t)
      <3>1. \A c : Uninvolved(calls', c)  BY <2>1, NothingDue
      <3>2. \A t \in Sock : t \in Ends(t[1])  BY OtherEnd
      <3> QED BY <3>1, <3>2 DEF Uninvolved
    <2> QED BY <1>1, <2>2, <2>3
  <1>2. CASE r # <<>>
    <2>1. PICK c \in Conn : s = Dest(c) /\ r = <<RecvCall(Src(c))>>  BY <1>2 DEF Rests
    <2>2. s[1] = c /\ Src(c) \in Sock /\ Src(c)[1] = c  BY <2>1, EndsOfConn
    <2>3. calls' = <<RecvCall(Src(c))>> \o <<>>
      <3> DEFINE e == RecvCall(Src(c))
      <3>1. <<e>> \o <<>> = <<e>>  BY OneIsSeq
      <3> QED BY <2>1, <3>1
    <2>4. <<>> \in Rests(Src(c))  BY DEF Rests
    <2>5. Pending(calls', RecvCall(Src(c)), Src(c), <<>>)  BY <2>2, <2>3, <2>4 DEF Pending
    <2>6. Finds(Src(c), RecvCall(Src(c)))'  BY <1>2, <2>2
    <2>7. CallsOK'
      <3>1. /\ calls' = <<RecvCall(Src(c))>> \o <<>> /\ Finds(Src(c), RecvCall(Src(c)))'
            /\ <<>> \in Rests(Src(c))
        BY <2>3, <2>4, <2>6
      <3> QED BY <2>2, <3>1 DEF CallsOK
    <2>8. DueFor(calls', s[1])  BY <2>2, <2>5 DEF DueFor
    <2>9. /\ \A d : ~ FailingIn(calls', d)
          /\ \A t : HandOf(calls', t) = <<>>
          /\ \A t : DueIn(calls', t) <=> t = Src(c)
      BY <2>5, RecvDue
    <2> QED BY <1>2, <2>2, <2>7, <2>8, <2>9
  <1> QED BY <1>1, <1>2

\* A call that is added to them.
LEMMA Pushed ==
  ASSUME NEW s \in Sock, NEW e, NEW r, Pending(calls', e, s, r), Finds(s, e)',
         r # <<>> => Finds(Src(s[1]), RecvCall(Src(s[1])))'
  PROVE  CallsOK' /\ DueFor(calls', s[1])
  <1>1. e = RecvCall(s) \/ \E reason : \E data \in Nat : e = Event(s, reason, data)
    <2>1. CASE \E d \in Nat : e = Event(s, "READ", d)
      <3>1. PICK d \in Nat : e = Event(s, "READ", d)  BY <2>1
      <3> QED BY <3>1
    <2>2. CASE \E d \in {0, 1} : e = Event(s, "CONNECTED", d)
      <3>1. PICK d \in {0, 1} : e = Event(s, "CONNECTED", d)  BY <2>2
      <3>2. d \in Nat  BY <3>1
      <3> QED BY <3>1, <3>2
    <2>3. CASE e = Event(s, "ERROR", 1)
      <3>1. 1 \in Nat  OBVIOUS
      <3> QED BY <2>3, <3>1
    <2>4. CASE e = Event(s, "TIMEOUT", 0)
      <3>1. 0 \in Nat  OBVIOUS
      <3> QED BY <2>4, <3>1
    <2> QED BY <2>1, <2>2, <2>3, <2>4 DEF Finds
  <1>2. DueFor(calls', s[1])  BY <1>1 DEF DueFor
  <1>3. CallsOK'
    <2>1. calls' = <<e>> \o r /\ r \in Rests(s)  BY DEF Pending
    <2> QED BY <2>1 DEF CallsOK
  <1> QED BY <1>2, <1>3

\* What the outcome of a method of s says of the calls that are due.
Outcome(s, m, rest) ==
    /\ io' = m.w
    /\ calls' = IF m.cb = <<>> \/ m.cb[1] \in {"WRITTEN", "EINTR"} THEN rest
                ELSE <<<<"event", s, m.cb[1], m.cb[2]>>>> \o rest
    /\ signals' = IF m.cb = <<"EINTR">> THEN signals - 1 ELSE signals

\* A method of a socket has one of its outcomes.
LEMMA ResultHas ==
  ASSUME NEW s, NEW R, NEW rest, Result(s, R, rest)
  PROVE  \E m \in R : Outcome(s, m, rest)
  BY DEF Result, Outcome

\* A callback is due before the rest when the outcome has one; WRITTEN has no handler.
LEMMA OutcomeCalls ==
  ASSUME NEW s, NEW m, NEW rest, Outcome(s, m, rest)
  PROVE  /\ io' = m.w
         /\ m.cb \in {<<>>, <<"WRITTEN", 0>>} => calls' = rest /\ signals' = signals
         /\ m.cb = <<"EINTR">> => calls' = rest /\ signals' = signals - 1
         /\ \A reason \in {"READ", "ERROR", "CONNECTED", "TIMEOUT"} : \A data :
              m.cb = <<reason, data>> =>
                 calls' = <<Event(s, reason, data)>> \o rest /\ signals' = signals
  <1>1. PICK b : b = m.cb  OBVIOUS
  <1>2. /\ calls' = IF b = <<>> \/ b[1] \in {"WRITTEN", "EINTR"} THEN rest
                    ELSE <<<<"event", s, b[1], b[2]>>>> \o rest
        /\ signals' = IF b = <<"EINTR">> THEN signals - 1 ELSE signals
    BY <1>1 DEF Outcome
  <1>3. b \in {<<>>, <<"WRITTEN", 0>>} => calls' = rest /\ signals' = signals
    <2>1. b = <<"WRITTEN", 0>> => b[1] = "WRITTEN"  OBVIOUS
    <2>2. <<"EINTR">>[1] = "EINTR" /\ <<"EINTR">> # <<>>  OBVIOUS
    <2>3. b \in {<<>>, <<"WRITTEN", 0>>} => b # <<"EINTR">>
      <3>1. CASE b = <<>>  BY <2>2, <3>1
      <3>2. CASE b = <<"WRITTEN", 0>>  BY <2>1, <2>2, <3>2
      <3> QED BY <3>1, <3>2
    <2> QED BY <1>2, <2>1, <2>3
  <1>4. b = <<"EINTR">> => calls' = rest /\ signals' = signals - 1
    <2>1. b = <<"EINTR">> => b[1] = "EINTR"  OBVIOUS
    <2> QED BY <1>2, <2>1
  <1>5. ASSUME NEW reason \in {"READ", "ERROR", "CONNECTED", "TIMEOUT"}, NEW data,
               b = <<reason, data>>
        PROVE  calls' = <<Event(s, reason, data)>> \o rest /\ signals' = signals
    <2>1. b[1] = reason /\ b[2] = data /\ b # <<>>  BY <1>5
    <2>2. <<"EINTR">>[1] = "EINTR"  OBVIOUS
    <2>3. reason \notin {"WRITTEN", "EINTR"} /\ reason # "EINTR"  BY <1>5
    <2>4. b # <<"EINTR">>  BY <2>1, <2>2, <2>3
    <2>5. calls' = <<<<"event", s, b[1], b[2]>>>> \o rest /\ signals' = signals
      BY <1>2, <2>1, <2>3, <2>4
    <2> QED BY <2>1, <2>5 DEF Event
  <1> QED BY <1>1, <1>3, <1>4, <1>5 DEF Outcome

\* A connection that forwards goes on forwarding.
LEMMA StillForwards ==
  ASSUME NEW c \in Conn, TunOK(c), tun[c] = "FORWARDING", status = "up",
         tun'[c] = tun[c], asked'[c] = asked[c], causes \subseteq causes',
         \A s \in Ends(c) : /\ s \in io.alive => s \in io'.alive
                            /\ io'.conn[s] = io.conn[s] /\ ~ Is(io', s, "CONNECTING")
  PROVE  TunOK(c)'
  <1>1. Src(c) \in Ends(c) /\ Dest(c) \in Ends(c)  BY DEF Ends
  <1> QED BY <1>1 DEF TunOK, Is

-----------------------------------------------------------------------------
\* What is read, by an AsyncRecv() that is due or because select() found something: the
\* unit is in the hands of a callback, and otherwise the socket is listened to again.
LEMMA ReadOK ==
  ASSUME TunInv, NEW s \in io.alive, tun[s[1]] = "FORWARDING", status = "up",
         NEW r \in Rests(s), r # <<>> => Finds(Src(s[1]), RecvCall(Src(s[1]))),
         \/ calls = <<>> /\ r = <<>> /\ Is(io, s, "RECVING")
         \/ Pending(calls, RecvCall(s), s, r) /\ ~ Is(io, s, "RECVING"),
         NEW m, Received(m, io, s, signals > 0), Outcome(s, m, r),
         UNCHANGED <<tun, asked, sent, status>>, causes \subseteq causes',
         signals' # signals => Is(io, s, "RECVING") \/ "EINTR" \in causes',
         Shrinks
  PROVE  TunInv'
  <1> DEFINE c == s[1]
             o == Other(s)
  <1>0. /\ s \in Sock /\ c \in Conn /\ o \in Sock /\ o # s /\ Other(o) = s /\ Other(s) = o
        /\ o[1] = c /\ Ends(c) = {s, o} /\ s \in Ends(c) /\ o \in Ends(c)
        /\ \A t \in Sock : t[1] = c => t = s \/ t = o
    BY IoFacts, OtherEnd
  <1>1. IoType(io)  BY IoFacts
  <1>2. /\ \A d : ~ FailingIn(calls, d)
        /\ \A t \in Sock : HandOf(calls, t) = <<>>
        /\ \A t \in Sock : DueIn(calls, t) => t = s \/ (r # <<>> /\ t = Src(c))
        /\ DueFor(calls, c)
    <2>1. CASE calls = <<>>
      <3>1. \A d : Uninvolved(calls, d)  BY <2>1, NothingDue
      <3>2. \A t \in Sock : t \in Ends(t[1])  BY OtherEnd
      <3> QED BY <2>1, <3>1, <3>2 DEF Uninvolved, DueFor
    <2>2. CASE Pending(calls, RecvCall(s), s, r)
      <3>1. /\ \A d : ~ FailingIn(calls, d)
            /\ \A t : HandOf(calls, t) = <<>>
            /\ \A t : DueIn(calls, t) <=> t = s \/ (r # <<>> /\ t = Src(c))
        BY <2>2, RecvDue
      <3>2. DueFor(calls, c)  BY <1>0, <2>2 DEF DueFor
      <3> QED BY <3>1, <3>2
    <2> QED BY <2>1, <2>2
  <1>3. r # <<>> => Src(c) = o
    <2>1. ASSUME r # <<>> PROVE s = Dest(c)
      <3>1. PICK d \in Conn : s = Dest(d)  BY <2>1 DEF Rests
      <3>2. Dest(d)[1] = d  BY EndsOfConn
      <3> QED BY <3>1, <3>2
    <2> QED BY <1>0, <2>1, EndsOfConn
  <1>4. ConnOK(c) /\ TunOK(c) /\ Listened(o) /\ Transit(s) /\ Transit(o)
    BY <1>0 DEF TunInv, ConnOK
  <1>5. /\ ~ Is(io, s, "CONNECTING") /\ ~ Is(io, o, "CONNECTING")
        /\ s \in io.alive /\ o \in io.alive
    <2>1. \A t \in Ends(c) : ~ Is(io, t, "CONNECTING") /\ t \in io.alive
      BY <1>4 DEF TunOK, Ends
    <2> QED BY <1>0, <2>1
  \* Every outcome changes the flags and what is unread of s, and the calls.
  <1>6. PICK flags, inq :
          /\ Becomes(io', io, s, flags, io.buf[s], io.conn[s], inq, io.out[s])
          /\ \/ /\ IoInv(io', {c}) /\ flags = {} /\ inq = io.inq[s]
                /\ calls' = <<Event(s, "ERROR", 1)>> \o r /\ signals' = signals
             \/ /\ IoInv(io', {}) /\ flags = io.flags[s] \ {"RECVING"}
                /\ io.inq[s] # <<>> /\ inq = Tail(io.inq[s])
                /\ calls' = <<Event(s, "READ", Head(io.inq[s]))>> \o r /\ signals' = signals
             \/ /\ IoInv(io', {}) /\ flags = io.flags[s] \ {"RECVING"} /\ inq = io.inq[s]
                /\ calls' = <<Event(s, "READ", 0)>> \o r /\ signals' = signals
             \/ /\ IoInv(io', {}) /\ flags = io.flags[s] \cup {"RECVING"}
                /\ inq = io.inq[s] /\ calls' = r /\ signals' = signals
             \/ /\ IoInv(io', {}) /\ flags = io.flags[s] /\ inq = io.inq[s]
                /\ calls' = r /\ signals > 0 /\ signals' = signals - 1
    <2>1. /\ io' = m.w
          /\ m.cb \in {<<>>, <<"WRITTEN", 0>>} => calls' = r /\ signals' = signals
          /\ m.cb = <<"EINTR">> => calls' = r /\ signals' = signals - 1
          /\ \A reason \in {"READ", "ERROR", "CONNECTED", "TIMEOUT"} : \A data :
               m.cb = <<reason, data>> =>
                  calls' = <<Event(s, reason, data)>> \o r /\ signals' = signals
      BY OutcomeCalls
    <2>2. PICK b, x : b = m.cb /\ x = m.w  OBVIOUS
    <2>3. io' = x  BY <2>1, <2>2
    <2> DEFINE Reads(flags, inq) ==
                  Becomes(x, io, s, flags, io.buf[s], io.conn[s], inq, io.out[s])
    <2>4. \/ b = <<"ERROR", 1>> /\ IoInv(x, {c}) /\ Reads({}, io.inq[s])
          \/ /\ io.inq[s] # <<>> /\ b = <<"READ", Head(io.inq[s])>> /\ IoInv(x, {})
             /\ Reads(io.flags[s] \ {"RECVING"}, Tail(io.inq[s]))
          \/ /\ b = <<"READ", 0>> /\ IoInv(x, {})
             /\ Reads(io.flags[s] \ {"RECVING"}, io.inq[s])
          \/ /\ b = <<>> /\ IoInv(x, {})
             /\ Reads(io.flags[s] \cup {"RECVING"}, io.inq[s])
          \/ /\ b = <<"EINTR">> /\ signals > 0 /\ IoInv(x, {})
             /\ Reads(io.flags[s], io.inq[s])
      BY <2>2 DEF Received
    <2> HIDE DEF Reads, c, o
    <2>5. CASE b = <<"ERROR", 1>> /\ IoInv(x, {c}) /\ Reads({}, io.inq[s])
      <3>1. calls' = <<Event(s, "ERROR", 1)>> \o r /\ signals' = signals
        BY <2>1, <2>2, <2>5
      <3> QED BY <2>3, <2>5, <3>1 DEF Reads
    <2>6. CASE /\ io.inq[s] # <<>> /\ b = <<"READ", Head(io.inq[s])>> /\ IoInv(x, {})
               /\ Reads(io.flags[s] \ {"RECVING"}, Tail(io.inq[s]))
      <3>1. calls' = <<Event(s, "READ", Head(io.inq[s]))>> \o r /\ signals' = signals
        BY <2>1, <2>2, <2>6
      <3> QED BY <2>3, <2>6, <3>1 DEF Reads
    <2>7. CASE /\ b = <<"READ", 0>> /\ IoInv(x, {})
               /\ Reads(io.flags[s] \ {"RECVING"}, io.inq[s])
      <3>1. calls' = <<Event(s, "READ", 0)>> \o r /\ signals' = signals
        BY <2>1, <2>2, <2>7
      <3> QED BY <2>3, <2>7, <3>1 DEF Reads
    <2>8. CASE /\ b = <<>> /\ IoInv(x, {})
               /\ Reads(io.flags[s] \cup {"RECVING"}, io.inq[s])
      <3>1. calls' = r /\ signals' = signals  BY <2>1, <2>2, <2>8
      <3> QED BY <2>3, <2>8, <3>1 DEF Reads
    <2>9. CASE /\ b = <<"EINTR">> /\ signals > 0 /\ IoInv(x, {})
               /\ Reads(io.flags[s], io.inq[s])
      <3>1. calls' = r /\ signals' = signals - 1  BY <2>1, <2>2, <2>9
      <3> QED BY <2>3, <2>9, <3>1 DEF Reads
    <2> QED BY <2>4, <2>5, <2>6, <2>7, <2>8, <2>9
  <1>7. /\ \A d \in Conn : d # c => Still(d)
        /\ io'.alive = io.alive /\ io'.conn = io.conn /\ io'.buf = io.buf /\ io'.out = io.out
        /\ io'.flags[s] = flags /\ io'.flags[o] = io.flags[o]
        /\ io'.inq[s] = inq /\ io'.inq[o] = io.inq[o]
    <2>1. \A d \in Conn : d # c => Still(d)  BY <1>0, <1>1, <1>6, BecomesStill
    <2>2. /\ io'.alive = io.alive
          /\ io'.conn = [io.conn EXCEPT ![s] = io.conn[s]]
          /\ io'.buf = [io.buf EXCEPT ![s] = io.buf[s]]
          /\ io'.out = [io.out EXCEPT ![s] = io.out[s]]
          /\ io'.flags = [io.flags EXCEPT ![s] = flags]
          /\ io'.inq = [io.inq EXCEPT ![s] = inq]
      BY <1>6 DEF Becomes
    <2> QED BY <1>0, <1>1, <2>1, <2>2 DEF IoType
  <1>8. TunOK(c)'
    <2>1. ~ Is(io', s, "CONNECTING") /\ ~ Is(io', o, "CONNECTING")
      BY <1>5, <1>6, <1>7 DEF Is
    <2>2. \A t \in Ends(c) : /\ t \in io.alive => t \in io'.alive
                             /\ io'.conn[t] = io.conn[t] /\ ~ Is(io', t, "CONNECTING")
      BY <1>0, <1>7, <2>1
    <2> QED BY <1>0, <1>4, <2>2, StillForwards
  <1>9. r # <<>> => Finds(Src(c), RecvCall(Src(c)))'
    <2>1. ASSUME r # <<>> PROVE Finds(o, RecvCall(o))'
      <3>1. Finds(o, RecvCall(o))  BY <1>3, <2>1
      <3>2. ~ Is(io, o, "RECVING")
        <4>1. RecvCall(o)[1] = "recv" /\ \A reason, data : Event(o, reason, data)[1] = "event"
          BY DEF RecvCall, Event
        <4> QED BY <1>5, <3>1, <4>1 DEF Finds
      <3> QED BY <1>0, <1>7, <3>2 DEF Finds, Is
    <2> QED BY <1>3, <2>1
  \* The calls that are due then.
  <1>10. ASSUME NEW reason, NEW data \in Nat, calls' = <<Event(s, reason, data)>> \o r
         PROVE  /\ Pending(calls', Event(s, reason, data), s, r)
                /\ \A d : FailingIn(calls', d) <=> reason = "ERROR" /\ d = c
                /\ HandOf(calls', s) = <<>>
                /\ HandOf(calls', o) = IF reason = "READ" /\ data > 0 THEN <<data>> ELSE <<>>
                /\ DueIn(calls', s) /\ (DueIn(calls, o) => DueIn(calls', o))
    <2>1. Pending(calls', Event(s, reason, data), s, r)  BY <1>0, <1>10 DEF Pending
    <2>2. /\ \A d : FailingIn(calls', d) <=> reason = "ERROR" /\ d = s[1]
          /\ \A t \in Sock : HandOf(calls', t) =
                IF reason = "READ" /\ data > 0 /\ t = Other(s) THEN <<data>> ELSE <<>>
          /\ DueIn(calls', s)
          /\ \A t : DueIn(calls', t) <=> t = s \/ (r # <<>> /\ t = Src(s[1]))
      BY <2>1, EventDue DEF EventSays
    <2> QED BY <1>0, <1>2, <2>1, <2>2
  <1>11. ASSUME calls' = r
         PROVE  /\ CallsOK' /\ DueFor(calls', c) /\ \A d : ~ FailingIn(calls', d)
                /\ HandOf(calls', s) = <<>> /\ HandOf(calls', o) = <<>>
                /\ DueIn(calls, o) => DueIn(calls', o)
    <2>1. /\ CallsOK' /\ DueFor(calls', s[1])
          /\ \A d : ~ FailingIn(calls', d)
          /\ \A t \in Sock : HandOf(calls', t) = <<>>
          /\ \A t \in Sock : DueIn(calls', t) <=> r # <<>> /\ t = Src(s[1])
      BY <1>0, <1>9, <1>11, Popped
    <2> QED BY <1>0, <1>2, <2>1
  <1> HIDE DEF c, o
  <1>12. SUFFICES /\ IoInv(io', Fails') /\ CallsOK' /\ DueFor(calls', c)
                  /\ Listened(s)' /\ Listened(o)' /\ Transit(s)' /\ Transit(o)'
                  /\ signals' \in Nat
    <2>1. \A d \in Conn : d # c => ConnOK(d)'
      BY <1>0, <1>2, <1>7, <1>12, OthersOK
    <2>2. ConnOK(c)'
      <3>1. \A t \in Ends(c) : Listened(t)' /\ Transit(t)'  BY <1>0, <1>12
      <3> QED BY <1>8, <3>1 DEF ConnOK
    <2>3. \A d \in Conn : ConnOK(d)'  BY <2>1, <2>2
    <2>4. TunType' /\ CrashOK'
      BY <1>12 DEF TunInv, TunType, CrashOK
    <2>5. ReadyOK'  BY <1>7, ReadyKept
    <2> QED BY <1>12, <2>3, <2>4, <2>5 DEF TunInv
  <1>13. /\ tun[s[1]] = "FORWARDING" /\ tun' = tun /\ s[1] = c /\ o[1] = c /\ sent' = sent
    BY <1>0 DEF c
  <1>14. Listened(o)' \/ (DueIn(calls, o) /\ ~ DueIn(calls', o))
    <2>1. Is(io, o, "RECVING") \/ "EINTR" \in causes \/ DueIn(calls, o)
      BY <1>2, <1>4, <1>13 DEF Listened
    <2> QED BY <1>7, <2>1 DEF Listened, Is
  \* Nothing goes, unless the unit that is read.
  <1>15. ASSUME NEW t \in {s, o}, io'.inq[Other(t)] = io.inq[Other(t)],
                HandOf(calls', t) = <<>>
         PROVE  Transit(t)'
    <2>1. t \in Sock /\ HandOf(calls, t) = <<>> /\ Transit(t)  BY <1>0, <1>2, <1>4
    <2>2. Whole(io', calls', t) = Whole(io, calls, t)  BY <1>7, <1>15, <2>1 DEF Whole
    <2>3. tun[t[1]] # "deleted" /\ ~ FailingIn(calls, t[1])
      BY <1>2, <1>13
    <2>4. Whole(io, calls, t) = Numbers(sent[Other(t)])  BY <2>1, <2>3 DEF Transit
    <2> QED BY <1>13, <2>2, <2>4 DEF Transit
  <1>16. signals \in Nat  BY DEF TunInv, TunType
  <1>17. CASE /\ IoInv(io', {c}) /\ flags = {} /\ inq = io.inq[s]
              /\ calls' = <<Event(s, "ERROR", 1)>> \o r /\ signals' = signals
    <2>0. 1 \in Nat  OBVIOUS
    <2>1. /\ Pending(calls', Event(s, "ERROR", 1), s, r)
          /\ \A d : FailingIn(calls', d) <=> d = c
      BY <1>10, <1>17, <2>0
    <2>2. Fails' = {c}  BY <1>0, <2>1 DEF Fails
    <2>3. Finds(s, Event(s, "ERROR", 1))'
      BY <1>5, <1>7, <1>13 DEF Finds
    <2>4. CallsOK' /\ DueFor(calls', c)
      <3>1. r # <<>> => Finds(Src(s[1]), RecvCall(Src(s[1])))'  BY <1>9, <1>13
      <3> QED BY <1>0, <1>13, <2>1, <2>3, <3>1, Pushed
    <2>5. FailingIn(calls', c)  BY <2>1
    <2>6. Listened(s)' /\ Listened(o)' /\ Transit(s)' /\ Transit(o)'
      BY <1>13, <2>5 DEF Listened, Transit
    <2> QED BY <1>16, <1>17, <2>2, <2>4, <2>6
  <1>18. CASE /\ IoInv(io', {}) /\ flags = io.flags[s] \ {"RECVING"}
              /\ io.inq[s] # <<>> /\ inq = Tail(io.inq[s])
              /\ calls' = <<Event(s, "READ", Head(io.inq[s]))>> \o r /\ signals' = signals
    <2>a. PICK u : u = Head(io.inq[s])  OBVIOUS
    <2>0. io.inq[s] \in Seq(Unit) /\ u \in Unit /\ u \in Nat /\ u > 0
      <3>1. io.inq[s] \in Seq(Unit)  BY <1>0, <1>1 DEF IoType
      <3>2. u \in Unit  BY <1>18, <2>a, <3>1, HeadTailProperties
      <3> QED BY <3>1, <3>2 DEF Unit
    <2>1. calls' = <<Event(s, "READ", u)>> \o r  BY <1>18, <2>a
    <2>2. /\ Pending(calls', Event(s, "READ", u), s, r)
          /\ \A d : ~ FailingIn(calls', d)
          /\ HandOf(calls', s) = <<>> /\ HandOf(calls', o) = <<u>>
          /\ DueIn(calls', s) /\ (DueIn(calls, o) => DueIn(calls', o))
      BY <1>10, <2>0, <2>1
    <2>3. Fails' = {}  BY <2>2 DEF Fails
    <2>4. Finds(s, Event(s, "READ", u))'
      <3>1. ~ Is(io', s, "RECVING")  BY <1>7, <1>18 DEF Is
      <3>2. \E d \in Nat : Event(s, "READ", u) = Event(s, "READ", d)  BY <2>0
      <3>3. s \in io'.alive /\ tun'[s[1]] = "FORWARDING"  BY <1>5, <1>7, <1>13
      <3> QED BY <3>1, <3>2, <3>3 DEF Finds
    <2>5. CallsOK' /\ DueFor(calls', c)
      <3>1. r # <<>> => Finds(Src(s[1]), RecvCall(Src(s[1])))'  BY <1>9, <1>13
      <3> QED BY <1>0, <1>13, <2>2, <2>4, <3>1, Pushed
    <2>6. Listened(s)' /\ Listened(o)'
      BY <1>13, <1>14, <2>2 DEF Listened
    <2>7. Transit(s)'  BY <1>0, <1>7, <1>15, <2>2
    <2>8. Transit(o)'
      <3>1. /\ io.out[o] \in Seq(Unit) /\ io.buf[o] \in Seq(Unit)
        BY <1>0, <1>1 DEF IoType
      <3>2. Whole(io, calls, o) = Chain(io.out[o], io.buf[o], <<>>, io.inq[s])
        BY <1>0, <1>2 DEF Whole
      <3>3. Whole(io', calls', o) = Chain(io.out[o], io.buf[o], <<u>>, Tail(io.inq[s]))
        BY <1>0, <1>7, <1>18, <2>2 DEF Whole
      <3>4. Chain(io.out[o], io.buf[o], <<u>>, Tail(io.inq[s]))
              = Chain(io.out[o], io.buf[o], <<>>, io.inq[s])
        BY <1>18, <2>0, <2>a, <3>1, WholeRead
      <3>5. Whole(io, calls, o) = Numbers(sent[Other(o)])
        BY <1>2, <1>4, <1>13 DEF Transit
      <3> QED BY <1>13, <3>2, <3>3, <3>4, <3>5 DEF Transit
    <2> QED BY <1>16, <1>18, <2>3, <2>5, <2>6, <2>7, <2>8
  <1>19. CASE /\ IoInv(io', {}) /\ flags = io.flags[s] \ {"RECVING"} /\ inq = io.inq[s]
              /\ calls' = <<Event(s, "READ", 0)>> \o r /\ signals' = signals
    <2>a. PICK z : z = 0  OBVIOUS
    <2>0. z \in Nat /\ ~ (z > 0) /\ calls' = <<Event(s, "READ", z)>> \o r
      BY <1>19, <2>a
    <2>2. /\ Pending(calls', Event(s, "READ", z), s, r)
          /\ \A d : ~ FailingIn(calls', d)
          /\ HandOf(calls', s) = <<>> /\ HandOf(calls', o) = <<>>
          /\ DueIn(calls', s) /\ (DueIn(calls, o) => DueIn(calls', o))
      <3>1. /\ Pending(calls', Event(s, "READ", z), s, r)
            /\ \A d : FailingIn(calls', d) <=> "READ" = "ERROR" /\ d = c
            /\ HandOf(calls', s) = <<>>
            /\ HandOf(calls', o) = IF "READ" = "READ" /\ z > 0 THEN <<z>> ELSE <<>>
            /\ DueIn(calls', s) /\ (DueIn(calls, o) => DueIn(calls', o))
        BY <1>10, <2>0
      <3> QED BY <2>0, <3>1
    <2>3. Fails' = {}  BY <2>2 DEF Fails
    <2>4. Finds(s, Event(s, "READ", z))'
      <3>1. ~ Is(io', s, "RECVING")  BY <1>7, <1>19 DEF Is
      <3>2. \E d \in Nat : Event(s, "READ", z) = Event(s, "READ", d)  BY <2>0
      <3>3. s \in io'.alive /\ tun'[s[1]] = "FORWARDING"  BY <1>5, <1>7, <1>13
      <3> QED BY <3>1, <3>2, <3>3 DEF Finds
    <2>5. CallsOK' /\ DueFor(calls', c)
      <3>1. r # <<>> => Finds(Src(s[1]), RecvCall(Src(s[1])))'  BY <1>9, <1>13
      <3> QED BY <1>0, <1>13, <2>2, <2>4, <3>1, Pushed
    <2>6. Listened(s)' /\ Listened(o)'
      BY <1>13, <1>14, <2>2 DEF Listened
    <2>7. Transit(s)' /\ Transit(o)'
      BY <1>0, <1>7, <1>15, <1>19, <2>2
    <2> QED BY <1>16, <1>19, <2>3, <2>5, <2>6, <2>7
  <1>20. CASE calls' = r /\ IoInv(io', {}) /\ inq = io.inq[s] /\ signals' \in Nat
              /\ ("RECVING" \in flags \/ "EINTR" \in causes')
    <2>1. /\ CallsOK' /\ DueFor(calls', c) /\ \A d : ~ FailingIn(calls', d)
          /\ HandOf(calls', s) = <<>> /\ HandOf(calls', o) = <<>>
          /\ DueIn(calls, o) => DueIn(calls', o)
      BY <1>11, <1>20
    <2>2. Fails' = {}  BY <2>1 DEF Fails
    <2>3. Listened(s)' /\ Listened(o)'
      BY <1>7, <1>14, <1>20, <2>1 DEF Listened, Is
    <2>4. Transit(s)' /\ Transit(o)'
      BY <1>0, <1>7, <1>15, <1>20, <2>1
    <2> QED BY <1>20, <2>1, <2>2, <2>3, <2>4
  <1>21. CASE /\ IoInv(io', {}) /\ flags = io.flags[s] \cup {"RECVING"}
              /\ inq = io.inq[s] /\ calls' = r /\ signals' = signals
    BY <1>16, <1>20, <1>21
  <1>22. CASE /\ IoInv(io', {}) /\ flags = io.flags[s] /\ inq = io.inq[s]
              /\ calls' = r /\ signals > 0 /\ signals' = signals - 1
    <2>1. signals' \in Nat /\ signals' # signals  BY <1>16, <1>22
    <2>2. "RECVING" \in flags \/ "EINTR" \in causes'  BY <1>22, <2>1 DEF Is
    <2> QED BY <1>20, <1>22, <2>1, <2>2
  <1> QED BY <1>6, <1>17, <1>18, <1>19, <1>21, <1>22

-----------------------------------------------------------------------------
\* No call is due, or one that is no callback: what is registered is what is under way.
LEMMA NoneFails ==
  ASSUME TunInv, \A c : ~ FailingIn(calls, c)
  PROVE  Fails = {} /\ IoInv(io, {}) /\ \A s \in io.alive : FlagsOK(io, s)
  <1>1. Fails = {}  BY DEF Fails
  <1>2. IoInv(io, {})  BY <1>1 DEF TunInv
  <1> QED BY <1>1, <1>2, IoFacts

\* AsyncRecv() that is due after a callback, on a socket that is there or is not.
LEMMA RecvOK ==
  ASSUME TunInv, Callback, Recv
  PROVE  TunInv'
  <1>0. /\ status = "up" /\ calls # <<>> /\ Top[1] = "recv"
        /\ UNCHANGED <<tun, asked, target, ready, sent>>
    BY DEF Callback, Recv
  <1>1. PICK s \in Sock : \E e, r :
           /\ Pending(calls, e, s, r) /\ Finds(s, e) /\ Top = e /\ Rest = r
           /\ r # <<>> => Finds(Src(s[1]), RecvCall(Src(s[1])))
           /\ e = RecvCall(s) \/ \E reason : \E data \in Nat : e = Event(s, reason, data)
           /\ DueFor(calls, s[1])
    BY <1>0, TopFacts
  <1>2. PICK e, r :
           /\ Pending(calls, e, s, r) /\ Finds(s, e) /\ Top = e /\ Rest = r
           /\ r # <<>> => Finds(Src(s[1]), RecvCall(Src(s[1])))
           /\ e = RecvCall(s) \/ \E reason : \E data \in Nat : e = Event(s, reason, data)
           /\ DueFor(calls, s[1])
    BY <1>1
  <1>3. e = RecvCall(s) /\ Top[2] = s
    <2>1. \A reason, data : Event(s, reason, data)[1] = "event"  BY DEF Event
    <2>2. e = RecvCall(s)  BY <1>0, <1>2, <2>1
    <2> QED BY <1>2, <2>2 DEF RecvCall
  <1>4. Pending(calls, RecvCall(s), s, r)  BY <1>2, <1>3
  <1>5. \A c : ~ FailingIn(calls, c)  BY <1>4, RecvDue
  <1>6. CASE s \in io.alive
    <2>1. /\ \E m \in AsyncRecv(io, s, signals > 0) : Outcome(s, m, r)
          /\ causes' = IF signals' # signals THEN causes \cup {"EINTR"} ELSE causes
          /\ status' = status
      BY <1>2, <1>3, <1>6 DEF Recv, Result, Outcome
    <2>2. PICK m \in AsyncRecv(io, s, signals > 0) : Outcome(s, m, r)  BY <2>1
    <2>3. tun[s[1]] = "FORWARDING" /\ ~ Is(io, s, "RECVING")
      <3>1. RecvCall(s)[1] = "recv" /\ \A reason, data : Event(s, reason, data)[1] = "event"
        BY DEF RecvCall, Event
      <3> QED BY <1>2, <1>3, <1>6, <3>1 DEF Finds
    <2>4. ~ Is(io, s, "CONNECTING")
      <3>1. s[1] \in Conn /\ (s = Src(s[1]) \/ s = Dest(s[1]))  BY EndsOfConn
      <3>2. TunOK(s[1])  BY <3>1 DEF TunInv, ConnOK
      <3> QED BY <2>3, <3>1, <3>2 DEF TunOK
    <2>5. Received(m, io, s, signals > 0)
      BY <1>5, <1>6, <2>2, <2>3, <2>4, NoneFails, AsyncRecvOutcome
    <2>6. Shrinks  BY <1>0 DEF Shrinks, TunInv, ReadyOK
    <2>7. r \in Rests(s)  BY <1>4 DEF Pending
    <2>8. causes \subseteq causes' /\ (signals' # signals => "EINTR" \in causes')
      BY <2>1
    <2> QED BY <1>0, <1>2, <1>4, <1>6, <2>1, <2>2, <2>3, <2>5, <2>6, <2>7, <2>8, ReadOK
  <1>7. CASE s \notin io.alive
    <2>1. status' = "crashed" /\ UNCHANGED <<io, calls, signals, causes>>
      BY <1>3, <1>7 DEF Recv
    <2>2. ReadyOK' /\ CrashOK'
      BY <1>0, <2>1 DEF TunInv, ReadyOK, CrashOK, Top
    <2> QED BY <1>0, <2>1, <2>2, IdleOK
  <1> QED BY <1>6, <1>7

\* Dispatch() reads from a socket of a connection that forwards.
LEMMA ReadReadyOK ==
  ASSUME TunInv, Between, NEW f \in io.rset, Shrinks,
         NEW m \in HandleRead(io, io.table[f], signals > 0),
         Outcome(io.table[f], m, <<>>),
         UNCHANGED <<tun, asked, sent, status>>, causes \subseteq causes'
  PROVE  TunInv'
  <1>0. status = "up" /\ calls = <<>>  BY DEF Between
  <1>1. \A c : ~ FailingIn(calls, c)  BY <1>0, NothingDue DEF Uninvolved
  <1>2. IoInv(io, {}) /\ \A t \in io.alive : FlagsOK(io, t)  BY <1>1, NoneFails
  <1>3. PICK s : s = io.table[f]  OBVIOUS
  <1>4. s \in io.alive /\ io.fd[s] = f /\ Is(io, s, "RECVING")
    <2>1. IoType(io) /\ Wiring(io)  BY IoFacts
    <2>2. f \in Fds /\ s \in io.alive /\ io.fd[s] = f
      BY <1>3, <2>1 DEF IoType, Wiring
    <2> QED BY <1>2, <2>2 DEF FlagsOK
  <1>5. tun[s[1]] = "FORWARDING"
    <2>1. s \in Sock /\ s[1] \in Conn /\ (s = Src(s[1]) \/ s = Dest(s[1]))
      BY <1>4, IoFacts, EndsOfConn
    <2>2. tun[s[1]] \in {"CONNECTING", "FORWARDING"}
      BY <1>4, FlaggedTun DEF Is
    <2>3. TunOK(s[1])  BY <2>1 DEF TunInv, ConnOK
    <2> QED BY <1>4, <2>1, <2>2, <2>3 DEF TunOK, Is
  <1>6. Received(m, io, s, signals > 0)  BY <1>2, <1>3, <1>4, HandleReadOutcome
  <1>7. Outcome(s, m, <<>>)  BY <1>3
  <1>8. PICK r : r = <<>>  OBVIOUS
  <1>9. r \in Rests(s) /\ Outcome(s, m, r)  BY <1>7, <1>8 DEF Rests
  <1> QED BY <1>0, <1>4, <1>5, <1>6, <1>8, <1>9, ReadOK

\* A connection that is being made is so still.
LEMMA StillConnects ==
  ASSUME NEW c \in Conn, TunOK(c), tun[c] = "CONNECTING", status = "up",
         tun'[c] = tun[c], asked'[c] = asked[c],
         \A s \in Ends(c) : (s \in io.alive => s \in io'.alive) /\ io'.flags[s] \subseteq io.flags[s]
  PROVE  TunOK(c)'
  <1>1. Src(c) \in Ends(c) /\ Dest(c) \in Ends(c)  BY DEF Ends
  <1>2. io'.flags[Src(c)] = {} /\ io'.flags[Dest(c)] \subseteq {"CONNECTING"}
    BY <1>1 DEF TunOK
  <1> QED BY <1>1, <1>2 DEF TunOK

\* Dispatch() writes to a socket: the connect() is done, what is queued goes out in order,
\* or there is an error to report.
LEMMA WriteReadyOK ==
  ASSUME TunInv, Between, NEW f \in io.wset, Shrinks,
         NEW m \in HandleWrite(io, io.table[f]),
         Outcome(io.table[f], m, <<>>),
         UNCHANGED <<tun, asked, sent, status>>, causes \subseteq causes',
         io.conn[io.table[f]] # "connecting" \/ "stale" \in causes'
  PROVE  TunInv'
  <1>0. status = "up" /\ calls = <<>>  BY DEF Between
  <1>1. /\ \A d : ~ FailingIn(calls, d)
        /\ \A t \in Sock : HandOf(calls, t) = <<>> /\ ~ DueIn(calls, t)
        /\ \A d \in Conn : DueFor(calls, d)
    <2>1. \A d : Uninvolved(calls, d)  BY <1>0, NothingDue
    <2>2. \A t \in Sock : t \in Ends(t[1])  BY OtherEnd
    <2> QED BY <1>0, <2>1, <2>2 DEF Uninvolved, DueFor
  <1>2. IoType(io) /\ IoInv(io, {}) /\ \A t \in io.alive : FlagsOK(io, t)
    BY <1>1, NoneFails, IoFacts
  <1>3. PICK s : s = io.table[f]  OBVIOUS
  <1>4. s \in io.alive /\ io.fd[s] = f /\ (Is(io, s, "SENDING") \/ Is(io, s, "CONNECTING"))
    <2>1. IoType(io) /\ Wiring(io)  BY IoFacts
    <2>2. f \in Fds /\ s \in io.alive /\ io.fd[s] = f
      BY <1>3, <2>1 DEF IoType, Wiring
    <2> QED BY <1>2, <2>2 DEF FlagsOK
  <1> DEFINE c == s[1]
             o == Other(s)
  <1>5. /\ s \in Sock /\ c \in Conn /\ o \in Sock /\ o # s /\ Other(o) = s /\ Other(s) = o
        /\ o[1] = c /\ s[1] = c
        /\ Ends(c) = {s, o} /\ s \in Ends(c) /\ o \in Ends(c)
        /\ s = Src(c) \/ s = Dest(c)
    BY <1>4, IoFacts, OtherEnd, EndsOfConn
  <1>6. ConnOK(c) /\ TunOK(c) /\ Listened(s) /\ Listened(o) /\ Transit(s) /\ Transit(o)
    BY <1>5 DEF TunInv, ConnOK
  <1>7. tun[c] \in {"CONNECTING", "FORWARDING"}  BY <1>4, FlaggedTun DEF Is
  <1>8. IF Is(io, s, "CONNECTING") THEN tun[c] = "CONNECTING" /\ s = Dest(c)
                                   ELSE tun[c] = "FORWARDING"
    BY <1>4, <1>5, <1>6, <1>7 DEF TunOK, Is
  <1> HIDE DEF c, o
  \* Every outcome changes the flags, what is queued and what is out of s, and the calls.
  <1>9. PICK flags, buf, out :
          /\ Becomes(io', io, s, flags, buf, io.conn[s], io.inq[s], out)
          /\ signals' = signals /\ flags \subseteq io.flags[s]
          /\ \/ /\ Is(io, s, "CONNECTING") /\ IoInv(io', {}) /\ flags = {}
                /\ buf = io.buf[s] /\ out = io.out[s]
                /\ \E d \in {0, 1} : calls' = <<Event(s, "CONNECTED", d)>> \o <<>>
             \/ /\ IoInv(io', {c}) /\ flags = {}
                /\ calls' = <<Event(s, "ERROR", 1)>> \o <<>>
             \/ /\ IoInv(io', {}) /\ ~ Is(io, s, "CONNECTING") /\ calls' = <<>>
                /\ "RECVING" \in flags <=> "RECVING" \in io.flags[s]
                /\ \E n \in 0..Len(io.buf[s]) :
                     /\ buf = SubSeq(io.buf[s], n + 1, Len(io.buf[s]))
                     /\ out = io.out[s] \o SubSeq(io.buf[s], 1, n)
    <2>1. /\ io' = m.w
          /\ m.cb \in {<<>>, <<"WRITTEN", 0>>} => calls' = <<>> /\ signals' = signals
          /\ \A reason \in {"READ", "ERROR", "CONNECTED", "TIMEOUT"} : \A data :
               m.cb = <<reason, data>> =>
                  calls' = <<Event(s, reason, data)>> \o <<>> /\ signals' = signals
      <3>1. PICK r : r = <<>>  OBVIOUS
      <3>2. Outcome(s, m, r)  BY <1>3, <3>1
      <3>3. /\ io' = m.w
            /\ m.cb \in {<<>>, <<"WRITTEN", 0>>} => calls' = r /\ signals' = signals
            /\ \A reason \in {"READ", "ERROR", "CONNECTED", "TIMEOUT"} : \A data :
                 m.cb = <<reason, data>> =>
                    calls' = <<Event(s, reason, data)>> \o r /\ signals' = signals
        BY <3>2, OutcomeCalls
      <3> QED BY <3>1, <3>3
    <2>2. PICK b, x, q : b = m.cb /\ x = m.w /\ q = io.buf[s]  OBVIOUS
    <2>3. io' = x  BY <2>1, <2>2
    <2> DEFINE Writes(flags, buf, out) ==
                  Becomes(x, io, s, flags, buf, io.conn[s], io.inq[s], out)
               d == IF io.conn[s] \in {"up", "connecting"} THEN 0 ELSE 1
    <2>4. Written(m, io, s)  BY <1>2, <1>3, <1>4, HandleWriteOutcome
    <2>5. \/ /\ Is(io, s, "CONNECTING") /\ IoInv(x, {}) /\ Writes({}, q, io.out[s])
             /\ b = <<"CONNECTED", d>>
          \/ b = <<"ERROR", 1>> /\ IoInv(x, {c}) /\ Writes({}, <<>>, io.out[s])
          \/ /\ b \in {<<>>, <<"WRITTEN", 0>>} /\ IoInv(x, {})
             /\ ~ Is(io, s, "CONNECTING")
             /\ \E n \in 0..Len(q), g \in {"SENDING", "RECVING"} :
                   Writes(io.flags[s] \cap {"RECVING", g}, SubSeq(q, n + 1, Len(q)),
                          io.out[s] \o SubSeq(q, 1, n))
      BY <1>5, <2>2, <2>4 DEF Written
    <2>6. d \in {0, 1}  OBVIOUS
    <2> HIDE DEF Writes, d
    <2>7. CASE /\ Is(io, s, "CONNECTING") /\ IoInv(x, {}) /\ Writes({}, q, io.out[s])
               /\ b = <<"CONNECTED", d>>
      <3>1. calls' = <<Event(s, "CONNECTED", d)>> \o <<>> /\ signals' = signals
        BY <2>1, <2>2, <2>7
      <3> QED BY <2>2, <2>3, <2>6, <2>7, <3>1 DEF Writes
    <2>8. CASE b = <<"ERROR", 1>> /\ IoInv(x, {c}) /\ Writes({}, <<>>, io.out[s])
      <3>1. calls' = <<Event(s, "ERROR", 1)>> \o <<>> /\ signals' = signals
        BY <2>1, <2>2, <2>8
      <3> QED BY <2>3, <2>8, <3>1 DEF Writes
    <2>9. CASE /\ b \in {<<>>, <<"WRITTEN", 0>>} /\ IoInv(x, {})
               /\ ~ Is(io, s, "CONNECTING")
               /\ \E n \in 0..Len(q), g \in {"SENDING", "RECVING"} :
                     Writes(io.flags[s] \cap {"RECVING", g}, SubSeq(q, n + 1, Len(q)),
                            io.out[s] \o SubSeq(q, 1, n))
      <3>1. PICK n \in 0..Len(q), g \in {"SENDING", "RECVING"} :
                     Writes(io.flags[s] \cap {"RECVING", g}, SubSeq(q, n + 1, Len(q)),
                            io.out[s] \o SubSeq(q, 1, n))
        BY <2>9
      <3>2. calls' = <<>> /\ signals' = signals  BY <2>1, <2>2, <2>9
      <3>3. PICK fl, bu, ou : /\ fl = io.flags[s] \cap {"RECVING", g}
                              /\ bu = SubSeq(q, n + 1, Len(q))
                              /\ ou = io.out[s] \o SubSeq(q, 1, n)
        OBVIOUS
      <3>4. Becomes(io', io, s, fl, bu, io.conn[s], io.inq[s], ou)
        BY <2>3, <3>1, <3>3 DEF Writes
      <3>5. fl \subseteq io.flags[s] /\ ("RECVING" \in fl <=> "RECVING" \in io.flags[s])
        BY <3>3
      <3>6. /\ n \in 0..Len(io.buf[s])
            /\ bu = SubSeq(io.buf[s], n + 1, Len(io.buf[s]))
            /\ ou = io.out[s] \o SubSeq(io.buf[s], 1, n)
        BY <2>2, <3>1, <3>3
      <3>7. IoInv(io', {}) /\ ~ Is(io, s, "CONNECTING")  BY <2>3, <2>9
      <3> QED BY <3>2, <3>4, <3>5, <3>6, <3>7
    <2> QED BY <2>5, <2>7, <2>8, <2>9
  <1>10. /\ \A d \in Conn : d # c => Still(d)
         /\ io'.alive = io.alive /\ io'.conn = io.conn /\ io'.inq = io.inq
         /\ io'.flags[s] = flags /\ io'.flags[o] = io.flags[o]
         /\ io'.buf[s] = buf /\ io'.buf[o] = io.buf[o]
         /\ io'.out[s] = out /\ io'.out[o] = io.out[o]
    <2>1. \A d \in Conn : d # c => Still(d)  BY <1>2, <1>5, <1>9, BecomesStill
    <2>2. /\ io'.alive = io.alive
          /\ io'.conn = [io.conn EXCEPT ![s] = io.conn[s]]
          /\ io'.buf = [io.buf EXCEPT ![s] = buf]
          /\ io'.out = [io.out EXCEPT ![s] = out]
          /\ io'.flags = [io.flags EXCEPT ![s] = flags]
          /\ io'.inq = [io.inq EXCEPT ![s] = io.inq[s]]
      BY <1>9 DEF Becomes
    <2> QED BY <1>2, <1>5, <2>1, <2>2 DEF IoType
  <1>11. TunOK(c)'
    <2>1. \A t \in Ends(c) : /\ t \in io.alive => t \in io'.alive
                             /\ io'.flags[t] \subseteq io.flags[t]
                             /\ io'.conn[t] = io.conn[t]
      BY <1>5, <1>9, <1>10
    <2>2. CASE tun[c] = "CONNECTING"
      BY <1>0, <1>5, <1>6, <2>1, <2>2, StillConnects
    <2>3. CASE tun[c] = "FORWARDING"
      <3>1. \A t \in Ends(c) : ~ Is(io, t, "CONNECTING")
        BY <1>6, <2>3 DEF TunOK, Ends
      <3>2. \A t \in Ends(c) : ~ Is(io', t, "CONNECTING")  BY <2>1, <3>1 DEF Is
      <3> QED BY <1>0, <1>5, <1>6, <2>1, <2>3, <3>2, StillForwards
    <2> QED BY <1>7, <2>2, <2>3
  <1>12. SUFFICES /\ IoInv(io', Fails') /\ CallsOK' /\ DueFor(calls', c)
                  /\ Listened(s)' /\ Listened(o)' /\ Transit(s)' /\ Transit(o)'
    <2>1. \A d \in Conn : d # c => ConnOK(d)'
      BY <1>1, <1>5, <1>10, <1>12, OthersOK
    <2>2. ConnOK(c)'
      <3>1. \A t \in Ends(c) : Listened(t)' /\ Transit(t)'  BY <1>5, <1>12
      <3> QED BY <1>11, <3>1 DEF ConnOK
    <2>3. \A d \in Conn : ConnOK(d)'  BY <2>1, <2>2
    <2>4. TunType' /\ CrashOK'
      BY <1>0, <1>9 DEF TunInv, TunType, CrashOK
    <2>5. ReadyOK'  BY <1>10, ReadyKept
    <2> QED BY <1>12, <2>3, <2>4, <2>5 DEF TunInv
  <1>13. <<>> \in Rests(s)  BY DEF Rests
  <1>14. tun' = tun /\ sent' = sent  OBVIOUS
  \* Where nothing was queued, or nothing goes out, nothing changes on the way.
  <1>15. ASSUME NEW t \in {s, o}, HandOf(calls', t) = <<>>,
                t = o \/ (buf = io.buf[s] /\ out = io.out[s])
         PROVE  Transit(t)'
    <2>1. t \in Sock /\ HandOf(calls, t) = <<>> /\ Transit(t) /\ t[1] = c
      BY <1>1, <1>5, <1>6
    <2>2. io'.buf[t] = io.buf[t] /\ io'.out[t] = io.out[t]  BY <1>10, <1>15
    <2>3. Whole(io', calls', t) = Whole(io, calls, t)
      BY <1>10, <1>15, <2>1, <2>2 DEF Whole
    <2>4. tun[t[1]] # "deleted" /\ ~ FailingIn(calls, t[1])  BY <1>1, <1>7, <2>1
    <2>5. Whole(io, calls, t) = Numbers(sent[Other(t)])  BY <2>1, <2>4 DEF Transit
    <2> QED BY <1>14, <2>3, <2>5 DEF Transit
  <1>16. CASE /\ Is(io, s, "CONNECTING") /\ IoInv(io', {}) /\ flags = {}
              /\ buf = io.buf[s] /\ out = io.out[s]
              /\ \E d \in {0, 1} : calls' = <<Event(s, "CONNECTED", d)>> \o <<>>
    <2>1. PICK d \in {0, 1} : calls' = <<Event(s, "CONNECTED", d)>> \o <<>>  BY <1>16
    <2>2. d \in Nat /\ tun[c] = "CONNECTING" /\ s = Dest(c)  BY <1>8, <1>16
    <2>3. Pending(calls', Event(s, "CONNECTED", d), s, <<>>)  BY <1>5, <1>13, <2>1 DEF Pending
    <2>4. /\ \A g : ~ FailingIn(calls', g)
          /\ \A t \in Sock : HandOf(calls', t) = <<>>
      <3>1. PICK reason, r : reason = "CONNECTED" /\ r = <<>>  OBVIOUS
      <3>2. Pending(calls', Event(s, reason, d), s, r)  BY <2>3, <3>1
      <3>3. EventSays(calls', s, r, reason, d)  BY <2>2, <3>2, EventDue
      <3> QED BY <3>1, <3>3 DEF EventSays
    <2>5. Fails' = {} /\ HandOf(calls', s) = <<>> /\ HandOf(calls', o) = <<>>
      BY <1>5, <2>4 DEF Fails
    <2>6. Finds(s, Event(s, "CONNECTED", d))'
      <3>1. s = Dest(s[1]) /\ tun'[s[1]] = "CONNECTING" /\ io'.flags[s] = {}
        BY <1>5, <1>10, <1>14, <1>16, <2>2
      <3>2. io'.conn[s] # "connecting" \/ "stale" \in causes'  BY <1>3, <1>10
      <3>3. \E g \in {0, 1} : Event(s, "CONNECTED", d) = Event(s, "CONNECTED", g)  BY <2>1
      <3> QED BY <3>1, <3>2, <3>3 DEF Finds
    <2>7. CallsOK' /\ DueFor(calls', c)  BY <1>5, <2>3, <2>6, Pushed
    <2>8. Listened(s)' /\ Listened(o)'  BY <1>5, <1>14, <2>2 DEF Listened
    <2>9. Transit(s)' /\ Transit(o)'  BY <1>15, <1>16, <2>5
    <2> QED BY <1>16, <2>5, <2>7, <2>8, <2>9
  <1>17. CASE /\ IoInv(io', {c}) /\ flags = {}
              /\ calls' = <<Event(s, "ERROR", 1)>> \o <<>>
    <2>0. 1 \in Nat  OBVIOUS
    <2>3. Pending(calls', Event(s, "ERROR", 1), s, <<>>)  BY <1>5, <1>13, <1>17 DEF Pending
    <2>4. \A g : FailingIn(calls', g) <=> "ERROR" = "ERROR" /\ g = s[1]
      BY <2>0, <2>3, EventDue DEF EventSays
    <2>5. Fails' = {c} /\ FailingIn(calls', c)
      BY <1>5, <2>4 DEF Fails
    <2>6. Finds(s, Event(s, "ERROR", 1))'
      BY <1>4, <1>5, <1>7, <1>10, <1>14 DEF Finds
    <2>7. CallsOK' /\ DueFor(calls', c)  BY <1>5, <2>3, <2>6, Pushed
    <2>8. Listened(s)' /\ Listened(o)' /\ Transit(s)' /\ Transit(o)'
      BY <1>5, <2>5 DEF Listened, Transit
    <2> QED BY <1>17, <2>5, <2>7, <2>8
  <1>18. CASE /\ IoInv(io', {}) /\ ~ Is(io, s, "CONNECTING") /\ calls' = <<>>
              /\ "RECVING" \in flags <=> "RECVING" \in io.flags[s]
              /\ \E n \in 0..Len(io.buf[s]) :
                   /\ buf = SubSeq(io.buf[s], n + 1, Len(io.buf[s]))
                   /\ out = io.out[s] \o SubSeq(io.buf[s], 1, n)
    <2>1. /\ \A g : ~ FailingIn(calls', g)
          /\ HandOf(calls', s) = <<>> /\ HandOf(calls', o) = <<>>
      BY <1>0, <1>1, <1>5, <1>18
    <2>2. Fails' = {}  BY <2>1 DEF Fails
    <2>3. CallsOK' /\ DueFor(calls', c)  BY <1>18 DEF CallsOK, DueFor
    <2>4. Listened(s)' /\ Listened(o)'
      BY <1>1, <1>5, <1>6, <1>10, <1>14, <1>18 DEF Listened, Is
    <2>5. Transit(o)'  BY <1>15, <2>1
    <2>6. Transit(s)'
      <3>1. PICK n \in 0..Len(io.buf[s]) :
                   /\ buf = SubSeq(io.buf[s], n + 1, Len(io.buf[s]))
                   /\ out = io.out[s] \o SubSeq(io.buf[s], 1, n)
        BY <1>18
      <3>2. io.out[s] \in Seq(Unit) /\ io.buf[s] \in Seq(Unit)  BY <1>2, <1>5 DEF IoType
      <3>3. Whole(io, calls, s) = Chain(io.out[s], io.buf[s], <<>>, io.inq[o])
        BY <1>1, <1>5 DEF Whole
      <3>4. Whole(io', calls', s) = Chain(out, buf, <<>>, io.inq[o])
        BY <1>5, <1>10, <2>1 DEF Whole
      <3>5. Chain(out, buf, <<>>, io.inq[o]) = Chain(io.out[s], io.buf[s], <<>>, io.inq[o])
        BY <3>1, <3>2, WholeWritten
      <3>6. Whole(io, calls, s) = Numbers(sent[Other(s)])
        BY <1>1, <1>5, <1>6, <1>7 DEF Transit
      <3> QED BY <1>14, <3>3, <3>4, <3>5, <3>6 DEF Transit
    <2> QED BY <1>18, <2>2, <2>3, <2>4, <2>5, <2>6
  <1> QED BY <1>9, <1>16, <1>17, <1>18

\* Dispatch() goes on with what is first in what select() found.
LEMMA DispatchOK ==
  ASSUME TunInv, Dispatch
  PROVE  TunInv'
  <1> DEFINE reading == ready.r # {}
             set == IF reading THEN ready.r ELSE ready.x
             least == CHOOSE d \in set : \A g \in set : d[1] <= g[1]
  <1>0. /\ Between /\ ready # NothingReady /\ status = "up" /\ calls = <<>>
        /\ UNCHANGED <<tun, asked, target, sent, status>>
    BY DEF Dispatch, Between
  <1>1. ReadyOK /\ IoType(io)  BY IoFacts DEF TunInv
  <1>2. PICK e : e = least  OBVIOUS
  <1>3. /\ ready' = IF reading THEN [ready EXCEPT !.r = @ \ {e}]
                    ELSE [ready EXCEPT !.x = @ \ {e}]
        /\ IF ~ (e[1] \in (IF reading THEN io.rset ELSE io.wset))
           THEN UNCHANGED <<io, calls, signals, causes>>
           ELSE /\ Result(io.table[e[1]],
                          IF reading THEN HandleRead(io, io.table[e[1]], signals > 0)
                          ELSE HandleWrite(io, io.table[e[1]]), <<>>)
                /\ causes' = IF io.table[e[1]] = e[2] THEN causes ELSE causes \cup {"stale"}
    BY <1>2 DEF Dispatch
  <1>4. e \in set
    <2>1. set # {}
      <3>1. ASSUME ready.r = {}, ready.x = {} PROVE FALSE
        <4>1. ready = [r |-> ready.r, x |-> ready.x]  BY <1>1 DEF ReadyOK
        <4> QED BY <1>0, <3>1, <4>1 DEF NothingReady
      <3> QED BY <3>1
    <2> DEFINE F == {d[1] : d \in set}
    <2>2. F \subseteq Nat /\ F # {}
      <3>1. \A d \in set : d[1] \in Nat  BY <1>1, SocketAssumption DEF ReadyOK
      <3> QED BY <2>1, <3>1
    <2>3. PICK g \in F : \A h \in F : g <= h  BY <2>2, LeastExists
    <2>4. PICK d \in set : d[1] = g  BY <2>3
    <2>5. \A h \in set : d[1] <= h[1]  BY <2>3, <2>4
    <2> QED BY <1>2, <2>4, <2>5
  <1>5. Shrinks  BY <1>1, <1>3 DEF Shrinks, ReadyOK
  <1>6. causes \subseteq causes'  BY <1>3
  <1>7. CASE ~ (e[1] \in (IF reading THEN io.rset ELSE io.wset))
    <2>1. UNCHANGED <<io, calls, signals, causes>>  BY <1>3, <1>7
    <2>2. ReadyOK'  BY <1>0, <1>5, <2>1, ReadyKept
    <2>3. CrashOK'  BY <1>0 DEF CrashOK
    <2> QED BY <1>0, <2>1, <2>2, <2>3, IdleOK
  <1>8. CASE reading /\ e[1] \in io.rset
    <2>1. Result(io.table[e[1]], HandleRead(io, io.table[e[1]], signals > 0), <<>>)
      BY <1>3, <1>8
    <2>2. PICK m \in HandleRead(io, io.table[e[1]], signals > 0) :
             Outcome(io.table[e[1]], m, <<>>)
      BY <2>1 DEF Result, Outcome
    <2>3. PICK f : f = e[1]  OBVIOUS
    <2> QED BY <1>0, <1>5, <1>6, <1>8, <2>2, <2>3, ReadReadyOK
  <1>9. CASE ~ reading /\ e[1] \in io.wset
    <2>1. Result(io.table[e[1]], HandleWrite(io, io.table[e[1]]), <<>>)
      BY <1>3, <1>9
    <2>2. PICK m \in HandleWrite(io, io.table[e[1]]) : Outcome(io.table[e[1]], m, <<>>)
      BY <2>1 DEF Result, Outcome
    <2>3. PICK f : f = e[1]  OBVIOUS
    <2>4. io.conn[io.table[f]] # "connecting" \/ "stale" \in causes'
      <3>1. CASE io.table[f] = e[2]
        <4>1. e \in ready.x  BY <1>4, <1>9
        <4>2. io.table[f] \in io.alive
          <5>1. Wiring(io) /\ f \in Fds  BY <1>1, <1>9, <2>3, IoFacts DEF IoType
          <5> QED BY <1>9, <2>3, <5>1 DEF Wiring
        <4> QED BY <1>1, <3>1, <4>1, <4>2 DEF ReadyOK
      <3>2. CASE io.table[f] # e[2]  BY <1>3, <1>9, <2>3, <3>2
      <3> QED BY <3>1, <3>2
    <2> QED BY <1>0, <1>5, <1>6, <1>9, <2>2, <2>3, <2>4, WriteReadyOK
  <1> QED BY <1>7, <1>8, <1>9

-----------------------------------------------------------------------------
\* Forward() queues the unit that was read for the other end, and listens again.
LEMMA ForwardOK ==
  ASSUME TunInv, Callback, Forward
  PROVE  TunInv'
  <1>0. /\ status = "up" /\ calls # <<>>
        /\ Top[1] = "event" /\ Top[3] = "READ" /\ Top[4] # 0
        /\ UNCHANGED <<tun, asked, target, ready, sent, signals, causes>>
    BY DEF Callback, Forward
  <1>1. PICK s \in Sock : \E e, r :
           /\ Pending(calls, e, s, r) /\ Finds(s, e) /\ Top = e /\ Rest = r
           /\ r # <<>> => Finds(Src(s[1]), RecvCall(Src(s[1])))
           /\ e = RecvCall(s) \/ \E reason : \E data \in Nat : e = Event(s, reason, data)
           /\ DueFor(calls, s[1])
    BY <1>0, TopFacts
  <1>2. PICK e, r :
           /\ Pending(calls, e, s, r) /\ Finds(s, e) /\ Top = e /\ Rest = r
           /\ r # <<>> => Finds(Src(s[1]), RecvCall(Src(s[1])))
           /\ e = RecvCall(s) \/ \E reason : \E data \in Nat : e = Event(s, reason, data)
           /\ DueFor(calls, s[1])
    BY <1>1
  <1>3. \E d \in Nat : e = Event(s, "READ", d)
    <2>1. e # RecvCall(s)
      <3>1. RecvCall(s)[1] = "recv"  BY DEF RecvCall
      <3> QED BY <1>0, <1>2, <3>1
    <2>2. PICK reason : \E data \in Nat : e = Event(s, reason, data)  BY <1>2, <2>1
    <2>3. PICK data \in Nat : e = Event(s, reason, data)  BY <2>2
    <2>4. reason = "READ"  BY <1>0, <1>2, <2>3 DEF Event
    <2> QED BY <2>3, <2>4
  <1>4. PICK d \in Nat : e = Event(s, "READ", d)  BY <1>3
  <1>5. Top[2] = s /\ Top[4] = d /\ d > 0 /\ d \in Unit
    <2>1. Top[2] = s /\ Top[4] = d  BY <1>2, <1>4 DEF Event
    <2> QED BY <1>0, <1>4, <2>1 DEF Unit
  <1> DEFINE c == s[1]
             o == Other(s)
  <1>6. /\ s \in Sock /\ c \in Conn /\ o \in Sock /\ o # s /\ Other(o) = s /\ Other(s) = o
        /\ o[1] = c /\ s[1] = c
        /\ Ends(c) = {s, o} /\ s \in Ends(c) /\ o \in Ends(c)
        /\ s = Src(c) \/ s = Dest(c)
    BY OtherEnd, EndsOfConn
  <1>7. s \in io.alive /\ tun[c] = "FORWARDING" /\ ~ Is(io, s, "RECVING")
    <2>1. RecvCall(s)[1] = "recv" /\ \A reason, data : /\ Event(s, reason, data)[1] = "event"
                                                       /\ Event(s, reason, data)[3] = reason
      BY DEF RecvCall, Event
    <2> QED BY <1>0, <1>2, <2>1 DEF Finds
  <1>8. ConnOK(c) /\ TunOK(c) /\ Listened(s) /\ Listened(o) /\ Transit(s) /\ Transit(o)
    BY <1>6 DEF TunInv, ConnOK
  <1>9. \A t \in Ends(c) : t \in io.alive /\ ~ Is(io, t, "CONNECTING")
    BY <1>7, <1>8 DEF TunOK, Ends
  <1>10. Pending(calls, Event(s, "READ", d), s, r)  BY <1>2, <1>4
  <1>11. EventSays(calls, s, r, "READ", d)  BY <1>4, <1>10, EventDue
  <1>12. /\ \A g : ~ FailingIn(calls, g)
         /\ HandOf(calls, o) = <<d>> /\ HandOf(calls, s) = <<>>
         /\ \A t : DueIn(calls, t) <=> t = s \/ (r # <<>> /\ t = Src(c))
    BY <1>5, <1>6, <1>11 DEF EventSays
  <1>13. IoInv(io, {}) /\ IoType(io)  BY <1>12, NoneFails, IoFacts
  <1> HIDE DEF c, o
  <1>14. /\ io' = AsyncSend(io, o, d) /\ calls' = <<RecvCall(s)>> \o r /\ status' = status
    <2>1. ~ (Top[4] = -1)  BY <1>5
    <2> QED BY <1>2, <1>5, <2>1 DEF Forward, RecvCall, o
  <1>15. PICK t, u, flags, buf : /\ t = o /\ u = AsyncSend(io, o, d)
                                 /\ flags = io.flags[o] \cup {"SENDING"}
                                 /\ buf = Append(io.buf[o], d)
    OBVIOUS
  <1>16. IoInv(io', {}) /\ Becomes(io', io, t, flags, buf, io.conn[t], io.inq[t], io.out[t])
    <2>1. t \in io.alive /\ ~ Is(io, t, "CONNECTING") /\ u = AsyncSend(io, t, d)
      BY <1>6, <1>9, <1>15
    <2>2. /\ IoInv(u, {})
          /\ Becomes(u, io, t, io.flags[t] \cup {"SENDING"}, Append(io.buf[t], d),
                     io.conn[t], io.inq[t], io.out[t])
      BY <1>5, <1>13, <2>1, AsyncSendBecomes
    <2> QED BY <1>14, <1>15, <2>2
  <1>17. /\ \A g \in Conn : g # c => Still(g)
         /\ io'.alive = io.alive /\ io'.conn = io.conn /\ io'.inq = io.inq /\ io'.out = io.out
         /\ io'.flags[o] = flags /\ io'.flags[s] = io.flags[s]
         /\ io'.buf[o] = buf /\ io'.buf[s] = io.buf[s]
    <2>1. \A g \in Conn : g # c => Still(g)  BY <1>0, <1>6, <1>13, <1>15, <1>16, BecomesStill
    <2>2. /\ io'.alive = io.alive
          /\ io'.conn = [io.conn EXCEPT ![o] = io.conn[o]]
          /\ io'.buf = [io.buf EXCEPT ![o] = buf]
          /\ io'.out = [io.out EXCEPT ![o] = io.out[o]]
          /\ io'.flags = [io.flags EXCEPT ![o] = flags]
          /\ io'.inq = [io.inq EXCEPT ![o] = io.inq[o]]
      BY <1>15, <1>16 DEF Becomes
    <2> QED BY <1>6, <1>13, <2>1, <2>2 DEF IoType
  <1>18. TunOK(c)'
    <2>1. \A x \in Ends(c) : ~ Is(io', x, "CONNECTING")
      <3>1. "CONNECTING" \notin io.flags[o] /\ "CONNECTING" \notin io.flags[s]
        BY <1>6, <1>9 DEF Is
      <3>2. "CONNECTING" \notin io'.flags[o] /\ "CONNECTING" \notin io'.flags[s]
        <4>1. io'.flags[o] = io.flags[o] \cup {"SENDING"} /\ io'.flags[s] = io.flags[s]
          BY <1>15, <1>17
        <4> QED BY <3>1, <4>1
      <3> QED BY <1>6, <3>2 DEF Is
    <2>2. \A x \in Ends(c) : /\ x \in io.alive => x \in io'.alive
                             /\ io'.conn[x] = io.conn[x] /\ ~ Is(io', x, "CONNECTING")
      BY <1>17, <2>1
    <2> QED BY <1>0, <1>6, <1>7, <1>8, <2>2, StillForwards
  <1>19. Pending(calls', RecvCall(s), s, r)  BY <1>2, <1>14 DEF Pending
  <1>20. /\ \A g : ~ FailingIn(calls', g)
         /\ \A x : HandOf(calls', x) = <<>>
         /\ \A x : DueIn(calls', x) <=> x = s \/ (r # <<>> /\ x = Src(c))
    BY <1>6, <1>19, RecvDue
  <1>21. Fails' = {}  BY <1>20 DEF Fails
  <1>22. CallsOK' /\ DueFor(calls', c)
    <2>1. Finds(s, RecvCall(s))'
      BY <1>0, <1>6, <1>7, <1>17 DEF Finds, Is
    <2>2. ASSUME r # <<>> PROVE Finds(Src(c), RecvCall(Src(c)))'
      <3>1. Src(c) = o
        <4>1. PICK g \in Conn : s = Dest(g)  BY <1>2, <2>2 DEF Pending, Rests
        <4>2. s = Dest(c)  BY <1>6, <4>1, EndsOfConn
        <4> QED BY <1>6, <4>2, EndsOfConn
      <3>2. Finds(o, RecvCall(o))  BY <1>2, <1>6, <2>2, <3>1
      <3>3. ~ Is(io, o, "RECVING")
        <4>1. /\ RecvCall(o)[1] = "recv"
              /\ \A reason, data : Event(o, reason, data)[1] = "event"
          BY DEF RecvCall, Event
        <4>2. o \in io.alive  BY <1>6, <1>9
        <4> QED BY <3>2, <4>1, <4>2 DEF Finds
      <3>4. ~ Is(io', o, "RECVING")  BY <1>15, <1>17, <3>3 DEF Is
      <3>5. Finds(o, RecvCall(o))'  BY <1>0, <1>6, <1>7, <3>4 DEF Finds
      <3> QED BY <3>1, <3>5
    <2> QED BY <1>6, <1>19, <2>1, <2>2, Pushed
  <1>23. Listened(s)' /\ Listened(o)'
    <2>1. Listened(s)'  BY <1>20 DEF Listened
    <2>2. Is(io, o, "RECVING") \/ "EINTR" \in causes \/ DueIn(calls, o)
      BY <1>6, <1>7, <1>8, <1>12 DEF Listened
    <2>3. Is(io, o, "RECVING") => Is(io', o, "RECVING")  BY <1>15, <1>17 DEF Is
    <2>4. DueIn(calls, o) => DueIn(calls', o)  BY <1>12, <1>20
    <2> QED BY <1>0, <2>1, <2>2, <2>3, <2>4 DEF Listened
  <1>24. Transit(s)' /\ Transit(o)'
    <2>1. /\ Whole(io, calls, s) = Numbers(sent[Other(s)])
          /\ Whole(io, calls, o) = Numbers(sent[Other(o)])
      BY <1>6, <1>7, <1>8, <1>12 DEF Transit
    <2>2. Whole(io', calls', s) = Whole(io, calls, s)
      BY <1>6, <1>12, <1>17, <1>20 DEF Whole
    <2>3. Whole(io', calls', o) = Whole(io, calls, o)
      <3>1. Whole(io, calls, o) = Chain(io.out[o], io.buf[o], <<d>>, io.inq[s])
        BY <1>6, <1>12 DEF Whole
      <3>2. Whole(io', calls', o) = Chain(io.out[o], Append(io.buf[o], d), <<>>, io.inq[s])
        BY <1>6, <1>15, <1>17, <1>20 DEF Whole
      <3>3. /\ io.out[o] \in Seq(Unit) /\ io.buf[o] \in Seq(Unit)
            /\ io.inq[s] \in Seq(Unit)
        BY <1>6, <1>13 DEF IoType
      <3> QED BY <1>5, <3>1, <3>2, <3>3, WholeForward
    <2> QED BY <1>0, <2>1, <2>2, <2>3 DEF Transit
  <1>25. \A g \in Conn : ConnOK(g)'
    <2>1. \A g \in Conn : g # c => ConnOK(g)'
      BY <1>0, <1>2, <1>6, <1>14, <1>17, <1>22, OthersOK
    <2>2. ConnOK(c)'
      <3>1. \A x \in Ends(c) : Listened(x)' /\ Transit(x)'  BY <1>6, <1>23, <1>24
      <3> QED BY <1>18, <3>1 DEF ConnOK
    <2> QED BY <2>1, <2>2
  <1>26. Shrinks  BY <1>0 DEF Shrinks, TunInv, ReadyOK
  <1>27. ReadyOK'  BY <1>0, <1>17, <1>26, ReadyKept
  <1>28. TunType' /\ CrashOK'
    BY <1>0, <1>14 DEF TunInv, TunType, CrashOK
  <1> QED BY <1>16, <1>21, <1>22, <1>25, <1>27, <1>28 DEF TunInv

-----------------------------------------------------------------------------
\* `delete' of one end deletes both: neither exists, and the others are as they were.
BothGone(c) ==
    /\ IoInv(io', {})
    /\ \A s \in Ends(c) : s \notin io'.alive
    /\ io'.alive \subseteq io.alive /\ io'.out = io.out
    /\ \A s \in Sock : s[1] # c =>
         /\ io'.flags[s] = io.flags[s] /\ io'.buf[s] = io.buf[s] /\ io'.conn[s] = io.conn[s]
         /\ io'.inq[s] = io.inq[s]
         /\ s \in io'.alive <=> s \in io.alive

\* `delete Src' takes the other end with it, and nothing else.
LEMMA DeleteBothGone ==
  ASSUME NEW c \in Conn, NEW F, IoInv(io, F), F \subseteq {c},
         io' = Delete(Delete(io, Src(c)), Dest(c))
  PROVE  BothGone(c)
  <1>1. PICK s, t, v, w : s = Src(c) /\ t = Dest(c) /\ v = Delete(io, s) /\ w = Delete(v, t)
    OBVIOUS
  <1>2. s \in Sock /\ t \in Sock /\ s[1] = c /\ t[1] = c /\ Ends(c) = {s, t}
    BY <1>1, EndsOfConn DEF Ends
  <1>3. IoInv(v, F) /\ Closed(v, io, s)  BY <1>1, <1>2, DeleteRemoves
  <1>4. IoInv(w, F) /\ Closed(w, v, t)  BY <1>1, <1>2, <1>3, DeleteRemoves
  <1>5. io' = w  BY <1>1
  <1>6. IoType(io) /\ IoType(v) /\ IoType(w)  BY <1>3, <1>4 DEF IoInv
  <1>7. /\ w.alive = (io.alive \ {s}) \ {t} /\ w.out = io.out
        /\ w.flags = [[io.flags EXCEPT ![s] = {}] EXCEPT ![t] = {}]
        /\ w.buf = [[io.buf EXCEPT ![s] = <<>>] EXCEPT ![t] = <<>>]
        /\ w.conn = [[io.conn EXCEPT ![s] = "none"] EXCEPT ![t] = "none"]
        /\ w.inq = [[io.inq EXCEPT ![s] = <<>>] EXCEPT ![t] = <<>>]
    BY <1>3, <1>4 DEF Closed
  <1>8. \A x \in w.alive : x[1] # c
    <2>1. \A x \in w.alive : x \in Sock /\ x \notin Ends(c)  BY <1>2, <1>6, <1>7 DEF IoType
    <2> QED BY <2>1, OtherEnd, <1>2
  <1>9. IoInv(w, {})
    <2>1. \A x \in w.alive : FlagsOK(w, x)  BY <1>4, <1>8 DEF IoInv
    <2> QED BY <1>4, <2>1 DEF IoInv
  <1>10. \A x \in Sock : x[1] # c =>
           /\ w.flags[x] = io.flags[x] /\ w.buf[x] = io.buf[x] /\ w.conn[x] = io.conn[x]
           /\ w.inq[x] = io.inq[x]
           /\ x \in w.alive <=> x \in io.alive
    <2> TAKE x \in Sock
    <2> HAVE x[1] # c
    <2>1. x # s /\ x # t  BY <1>2
    <2> QED BY <1>6, <1>7, <2>1 DEF IoType
  <1> QED BY <1>2, <1>5, <1>7, <1>8, <1>9, <1>10, ZenonT(40) DEF BothGone

\* The end of a connection, which no lookup is under way for any more.
LEMMA GoneOK ==
  ASSUME TunInv, NEW c \in Conn, BothGone(c), status = "up", status' = status,
         tun' = [tun EXCEPT ![c] = "deleted"], asked'[c] = None,
         DOMAIN asked' = Conn, \A d \in Conn : d # c => asked'[d] = asked[d],
         UNCHANGED <<ready, sent, signals>>, causes \subseteq causes',
         CallsOK', DueFor(calls, c), DueFor(calls', c), \A d : ~ FailingIn(calls', d)
  PROVE  TunInv'
  <1>0. TunType /\ Src(c)[1] = c /\ Dest(c)[1] = c  BY EndsOfConn DEF TunInv
  <1>1. tun'[c] = "deleted" /\ \A d \in Conn : d # c => tun'[d] = tun[d]
    BY <1>0 DEF TunType
  <1>2. \A d \in Conn : d # c => Still(d)
    <2> SUFFICES ASSUME NEW d \in Conn, d # c PROVE Still(d)
      OBVIOUS
    <2>1. \A s \in Ends(d) : s \in Sock /\ s[1] # c  BY EndsOfConn DEF Ends
    <2> QED BY <1>1, <2>1 DEF Still, BothGone
  <1>3. \A d \in Conn : d # c => ConnOK(d)'
    BY <1>2, OthersOK
  <1>4. ConnOK(c)'
    <2>1. TunOK(c)'
      <3>1. Src(c) \notin io'.alive /\ Dest(c) \notin io'.alive  BY DEF BothGone, Ends
      <3> QED BY <1>1, <3>1 DEF TunOK
    <2>2. \A s \in Ends(c) : s[1] = c  BY <1>0 DEF Ends
    <2>3. \A s \in Ends(c) : Listened(s)' /\ Transit(s)'
      BY <1>1, <2>2 DEF Listened, Transit
    <2> QED BY <2>1, <2>3 DEF ConnOK
  <1>5. ReadyOK'
    <2>1. Shrinks  BY DEF Shrinks, TunInv, ReadyOK
    <2>2. \A d \in Conn : tun[d] \in {"CONNECTING", "FORWARDING", "deleted"}
             => tun'[d] \in {"CONNECTING", "FORWARDING", "deleted"}
      BY <1>1
    <2>3. \A s \in Sock : s \in io'.alive => s \in io.alive /\ io'.conn[s] = io.conn[s]
      <3> TAKE s \in Sock
      <3> HAVE s \in io'.alive
      <3>1. s[1] # c  BY OtherEnd DEF BothGone
      <3> QED BY <3>1 DEF BothGone
    <2> QED BY <2>1, <2>2, <2>3, ReadyKept
  <1>6. TunType' /\ CrashOK'
    <2>1. TunType  BY DEF TunInv
    <2> QED BY <2>1 DEF TunType, CrashOK
  <1>7. IoInv(io', Fails')
    <2>1. Fails' = {}  BY DEF Fails
    <2> QED BY <2>1 DEF BothGone
  <1> QED BY <1>3, <1>4, <1>5, <1>6, <1>7 DEF TunInv

\* An error, a timeout or the end of one side ends the connection.
LEMMA CloseOK ==
  ASSUME TunInv, Callback, Close
  PROVE  TunInv'
  <1>0. /\ status = "up" /\ calls # <<>> /\ Top[1] = "event" /\ calls' = Rest
        /\ DeleteBoth(Top[2][1])
        /\ UNCHANGED <<asked, ready, sent, signals, causes, status>>
    BY DEF Callback, Close
  <1>1. PICK s \in Sock : \E e, r :
           /\ Pending(calls, e, s, r) /\ Finds(s, e) /\ Top = e /\ Rest = r
           /\ r # <<>> => Finds(Src(s[1]), RecvCall(Src(s[1])))
           /\ e = RecvCall(s) \/ \E reason : \E data \in Nat : e = Event(s, reason, data)
           /\ DueFor(calls, s[1])
    BY <1>0, TopFacts
  <1>2. PICK e, r :
           /\ Pending(calls, e, s, r) /\ Finds(s, e) /\ Top = e /\ Rest = r
           /\ r # <<>> => Finds(Src(s[1]), RecvCall(Src(s[1])))
           /\ e = RecvCall(s) \/ \E reason : \E data \in Nat : e = Event(s, reason, data)
           /\ DueFor(calls, s[1])
    BY <1>1
  <1>3. e # RecvCall(s) /\ Top[2] = s
    <2>1. RecvCall(s)[1] = "recv" /\ \A reason, data : Event(s, reason, data)[2] = s
      BY DEF RecvCall, Event
    <2> QED BY <1>0, <1>2, <2>1
  <1>4. PICK c \in Conn : s[1] = c  BY OtherEnd
  <1>5. tun[c] \in {"CONNECTING", "FORWARDING"}  BY <1>2, <1>3, <1>4 DEF Finds
  <1>6. Fails \subseteq {c}
    <2>1. PICK reason : \E data \in Nat : e = Event(s, reason, data)  BY <1>2, <1>3
    <2>2. PICK data \in Nat : e = Event(s, reason, data)  BY <2>1
    <2>3. Pending(calls, Event(s, reason, data), s, r)  BY <1>2, <2>2
    <2>4. EventSays(calls, s, r, reason, data)  BY <2>3, EventDue
    <2> QED BY <1>4, <2>4 DEF EventSays, Fails
  <1>7. BothGone(c)
    <2>1. IoInv(io, Fails)  BY DEF TunInv
    <2>2. io' = Delete(Delete(io, Src(c)), Dest(c))  BY <1>0, <1>3, <1>4 DEF DeleteBoth
    <2> QED BY <1>6, <2>1, <2>2, DeleteBothGone
  <1>8. tun' = [tun EXCEPT ![c] = "deleted"]  BY <1>0, <1>3, <1>4 DEF DeleteBoth
  <1>9. asked[c] = None
    <2>1. TunOK(c)  BY DEF TunInv, ConnOK
    <2> QED BY <1>0, <1>5, <2>1 DEF TunOK
  <1>10. Finds(Src(s[1]), RecvCall(Src(s[1])))'
    <2>1. Src(c) \notin io'.alive  BY <1>7 DEF BothGone, Ends
    <2> QED BY <1>4, <2>1 DEF Finds
  <1>11. /\ CallsOK' /\ DueFor(calls', s[1])
         /\ \A d : ~ FailingIn(calls', d)
    <2>1. calls' = r /\ r \in Rests(s)  BY <1>0, <1>2 DEF Pending
    <2> QED BY <1>10, <2>1, Popped
  <1>12. DOMAIN asked = Conn  BY DEF TunInv, TunType
  <1>13. DueFor(calls, c) /\ DueFor(calls', c)  BY <1>2, <1>4, <1>11
  <1> QED BY <1>0, <1>7, <1>8, <1>9, <1>11, <1>12, <1>13, GoneOK

\* Connected() begins to listen to both ends.
LEMMA PairIsSeq ==
  ASSUME NEW a, NEW b
  PROVE  <<a, b>> \o <<>> = <<a>> \o <<b>>
  <1> DEFINE S == {a, b}
             p == <<a, b>>
             q == <<a>> \o <<b>>
  <1>1. p \in Seq(S) /\ Len(p) = 2 /\ p[1] = a /\ p[2] = b  OBVIOUS
  <1>2. p \o <<>> = p
    <2>1. \E T : p \in Seq(T)  BY <1>1
    <2> HIDE DEF p
    <2> QED BY <2>1, ConcatEmptySeq
  <1>3. q[1] = a /\ q[2] = b /\ Len(q) = 2
    <2>1. q # <<>> /\ q[1] = a /\ q[2] = b /\ Len(q) = 2 /\ Tail(q) = <<b>>
      BY TwoIsSeq
    <2> QED BY <2>1
  <1>4. q \in Seq(S)
    <2>1. <<a>> \in Seq(S) /\ <<b>> \in Seq(S)  OBVIOUS
    <2> QED BY <2>1, ConcatProperties
  <1> HIDE DEF p, q, S
  <1>5. \A i \in 1..Len(p) : p[i] = q[i]
    <2>1. \A i \in 1..Len(p) : i = 1 \/ i = 2  BY <1>1
    <2> QED BY <1>1, <1>3, <2>1
  <1>6. p = q  BY <1>1, <1>3, <1>4, <1>5, SeqEqual
  <1> QED BY <1>2, <1>6 DEF p, q

\* Connected() has both ends listened to, the target's first.
LEMMA ConnectedOK ==
  ASSUME TunInv, Callback, Connected
  PROVE  TunInv'
  <1>0. /\ status = "up" /\ calls # <<>>
        /\ Top[1] = "event" /\ Top[3] = "CONNECTED" /\ Top[4] = 0
        /\ UNCHANGED <<io, asked, ready, sent, signals, causes, status>>
    BY DEF Callback, Connected
  <1>1. PICK s \in Sock : \E e, r :
           /\ Pending(calls, e, s, r) /\ Finds(s, e) /\ Top = e /\ Rest = r
           /\ r # <<>> => Finds(Src(s[1]), RecvCall(Src(s[1])))
           /\ e = RecvCall(s) \/ \E reason : \E data \in Nat : e = Event(s, reason, data)
           /\ DueFor(calls, s[1])
    BY <1>0, TopFacts
  <1>2. PICK e, r :
           /\ Pending(calls, e, s, r) /\ Finds(s, e) /\ Top = e /\ Rest = r
           /\ r # <<>> => Finds(Src(s[1]), RecvCall(Src(s[1])))
           /\ e = RecvCall(s) \/ \E reason : \E data \in Nat : e = Event(s, reason, data)
           /\ DueFor(calls, s[1])
    BY <1>1
  <1>3. PICK c \in Conn : s[1] = c  BY OtherEnd
  <1>4. /\ s = Dest(c) /\ tun[c] = "CONNECTING" /\ io.flags[s] = {}
        /\ io.conn[s] # "connecting" \/ "stale" \in causes
        /\ Top[2] = s /\ e = Event(s, "CONNECTED", 0)
    <2>1. /\ RecvCall(s)[1] = "recv"
          /\ \A reason, data : /\ Event(s, reason, data)[2] = s
                               /\ Event(s, reason, data)[3] = reason
                               /\ Event(s, reason, data)[4] = data
      BY DEF RecvCall, Event
    <2>2. PICK d \in {0, 1} : e = Event(s, "CONNECTED", d)
      BY <1>0, <1>2, <2>1 DEF Finds
    <2>3. d = 0 /\ e[4] = 0 /\ e[1] # "recv"  BY <1>0, <1>2, <2>1, <2>2
    <2>4. s = Dest(s[1]) /\ tun[s[1]] = "CONNECTING" /\ io.flags[s] = {}
          /\ (e[4] = 0 => io.conn[s] # "connecting" \/ "stale" \in causes)
      BY <1>0, <1>2, <2>1, <2>2, <2>3 DEF Finds
    <2> QED BY <1>2, <1>3, <2>1, <2>2, <2>3, <2>4
  <1>5. /\ Src(c) \in Sock /\ Dest(c) \in Sock /\ Src(c)[1] = c /\ Dest(c)[1] = c
        /\ Src(c) # Dest(c)
    BY EndsOfConn
  <1>6. /\ ConnOK(c) /\ TunOK(c) /\ Src(c) \in io.alive /\ Dest(c) \in io.alive
        /\ io.flags[Src(c)] = {} /\ asked[c] = None
        /\ Transit(Src(c)) /\ Transit(Dest(c))
    <2>1. ConnOK(c) /\ TunOK(c) /\ Transit(Src(c)) /\ Transit(Dest(c))
      BY DEF TunInv, ConnOK, Ends
    <2> QED BY <1>0, <1>4, <2>1 DEF TunOK
  \* No call for the user's end is due below, as it is not forwarding yet.
  <1>7. r = <<>>
    <2>1. ASSUME r # <<>> PROVE FALSE
      <3>1. Finds(Src(c), RecvCall(Src(c)))  BY <1>2, <1>3, <2>1
      <3>2. RecvCall(Src(c))[1] = "recv" /\ \A reason, data : Event(Src(c), reason, data)[1] = "event"
        BY DEF RecvCall, Event
      <3>3. tun[Src(c)[1]] = "FORWARDING"  BY <1>6, <3>1, <3>2 DEF Finds
      <3> QED BY <1>4, <1>5, <3>3
    <2> QED BY <2>1
  <1>8. /\ tun' = [tun EXCEPT ![c] = "FORWARDING"]
        /\ calls' = <<RecvCall(Dest(c)), RecvCall(Src(c))>> \o <<>>
    BY <1>2, <1>3, <1>4, <1>7 DEF Connected, RecvCall
  <1>9. calls' = <<RecvCall(Dest(c))>> \o <<RecvCall(Src(c))>>
    BY <1>8, PairIsSeq
  <1>10. PICK x : x = <<RecvCall(Src(c))>>  OBVIOUS
  <1>11. x \in Rests(Dest(c)) /\ x # <<>>
    BY <1>10 DEF Rests
  <1>12. Pending(calls', RecvCall(Dest(c)), Dest(c), x)  BY <1>5, <1>9, <1>10, <1>11 DEF Pending
  <1>13. tun'[c] = "FORWARDING" /\ \A d \in Conn : d # c => tun'[d] = tun[d]
    BY <1>8 DEF TunInv, TunType
  <1>14. CallsOK' /\ DueFor(calls', c)
    <2>1. Finds(Dest(c), RecvCall(Dest(c)))'
      BY <1>0, <1>4, <1>5, <1>13 DEF Finds, Is
    <2>2. Finds(Src(c), RecvCall(Src(c)))'
      BY <1>0, <1>5, <1>6, <1>13 DEF Finds, Is
    <2> QED BY <1>5, <1>12, <2>1, <2>2, Pushed
  <1>15. /\ \A d : ~ FailingIn(calls', d)
         /\ \A t : HandOf(calls', t) = <<>>
         /\ DueIn(calls', Src(c)) /\ DueIn(calls', Dest(c))
    <2>1. /\ \A d : ~ FailingIn(calls', d)
          /\ \A t : HandOf(calls', t) = <<>>
          /\ \A t : DueIn(calls', t) <=> t = Dest(c) \/ (x # <<>> /\ t = Src(Dest(c)[1]))
      BY <1>12, RecvDue
    <2> QED BY <1>5, <1>11, <2>1
  <1>16. /\ \A d : ~ FailingIn(calls, d)
         /\ \A t \in Sock : HandOf(calls, t) = <<>>
    <2>1. PICK z, reason : z = 0 /\ reason = "CONNECTED"  OBVIOUS
    <2>2. Pending(calls, Event(s, reason, z), s, r) /\ z \in Nat  BY <1>2, <1>4, <2>1
    <2>3. EventSays(calls, s, r, reason, z)  BY <2>2, EventDue
    <2> QED BY <2>1, <2>3 DEF EventSays
  <1>17. \A d \in Conn : ConnOK(d)'
    <2>1. \A d \in Conn : d # c => Still(d)  BY <1>0, <1>13 DEF Still
    <2>2. \A d \in Conn : d # c => ConnOK(d)'
      BY <1>0, <1>2, <1>3, <1>14, <2>1, OthersOK
    <2>3. TunOK(c)'
      <3>1. ~ Is(io, Src(c), "CONNECTING") /\ ~ Is(io, Dest(c), "CONNECTING")
        BY <1>4, <1>6 DEF Is
      <3> QED BY <1>0, <1>4, <1>6, <1>13, <3>1 DEF TunOK, Is
    <2>4. \A t \in Ends(c) : Listened(t)'
      BY <1>15 DEF Ends, Listened
    <2>5. ASSUME NEW t \in Ends(c) PROVE Transit(t)'
      <3>1. t \in Sock /\ t[1] = c /\ Transit(t)  BY <1>5, <1>6, <2>5 DEF Ends
      <3>2. Whole(io', calls', t) = Whole(io, calls, t)
        BY <1>0, <1>15, <1>16, <3>1 DEF Whole
      <3>3. Whole(io, calls, t) = Numbers(sent[Other(t)])
        BY <1>4, <1>16, <3>1 DEF Transit
      <3> QED BY <1>0, <3>2, <3>3 DEF Transit
    <2>6. ConnOK(c)'  BY <2>3, <2>4, <2>5 DEF ConnOK
    <2> QED BY <2>2, <2>6
  <1>18. IoInv(io', Fails')
    <2>1. Fails' = {} /\ IoInv(io, {})  BY <1>15, <1>16, NoneFails DEF Fails
    <2> QED BY <1>0, <2>1
  <1>19. ReadyOK'
    <2>1. Shrinks  BY <1>0 DEF Shrinks, TunInv, ReadyOK
    <2> QED BY <1>0, <1>13, <2>1, ReadyKept
  <1>20. TunType' /\ CrashOK'
    BY <1>0, <1>8 DEF TunInv, TunType, CrashOK
  <1> QED BY <1>14, <1>17, <1>18, <1>19, <1>20 DEF TunInv

\* SocketEvent(), whatever it is told.
LEMMA CallbackOK ==
  ASSUME TunInv, Callback
  PROVE  TunInv'
  <1>1. Connected \/ Close \/ Forward \/ Recv  BY DEF Callback
  <1> QED BY <1>1, ConnectedOK, CloseOK, ForwardOK, RecvOK

-----------------------------------------------------------------------------
\* Nothing is due in the main loop.
LEMMA NothingIsDue ==
  ASSUME TunInv, calls = <<>>
  PROVE  /\ \A d : ~ FailingIn(calls, d)
         /\ \A t \in Sock : HandOf(calls, t) = <<>> /\ ~ DueIn(calls, t)
         /\ \A d \in Conn : DueFor(calls, d)
         /\ Fails = {} /\ IoInv(io, {}) /\ IoType(io)
         /\ \A s \in io.alive : FlagsOK(io, s)
  <1>1. \A d : Uninvolved(calls, d)  BY NothingDue
  <1>2. \A t \in Sock : t \in Ends(t[1])  BY OtherEnd
  <1>3. \A d : ~ FailingIn(calls, d)  BY <1>1 DEF Uninvolved
  <1> QED BY <1>1, <1>2, <1>3, NoneFails, IoFacts DEF Uninvolved, DueFor

\* A socket that cannot be opened has no descriptor.
LEMMA NewFails ==
  ASSUME NEW w, IoType(w), NEW s \in Sock, NEW conn, NEW v, v = New(w, s, conn),
         v.fd[s] # -1
  PROVE  Free(w) # {}
  <1>1. v.fd = [w.fd EXCEPT ![s] = IF Free(w) = {} THEN -1 ELSE Lowest(Free(w))]
    BY DEF IoType, Fields, New
  <1>2. v.fd[s] = IF Free(w) = {} THEN -1 ELSE Lowest(Free(w))
    BY <1>1 DEF IoType
  <1> QED BY <1>2

\* accept() gives a connection its first socket, or drops it.
LEMMA AcceptOK ==
  ASSUME TunInv, NEW c \in Conn, Accept(c)
  PROVE  TunInv'
  <1>0. /\ status = "up" /\ calls = <<>> /\ tun[c] = "new"
        /\ UNCHANGED <<target, calls, ready, sent, signals, causes, status>>
    BY DEF Accept, Between
  <1>1. /\ \A d : ~ FailingIn(calls, d)
        /\ \A t \in Sock : HandOf(calls, t) = <<>> /\ ~ DueIn(calls, t)
        /\ \A d \in Conn : DueFor(calls, d)
        /\ Fails = {} /\ IoInv(io, {}) /\ IoType(io)
    BY <1>0, NothingIsDue
  <1>2. PICK s, o : s = Src(c) /\ o = Dest(c)  OBVIOUS
  <1>3. /\ s \in Sock /\ o \in Sock /\ s # o /\ s[1] = c /\ o[1] = c /\ Ends(c) = {s, o}
        /\ Other(s) = o /\ Other(o) = s
    BY <1>2, EndsOfConn DEF Ends
  <1>4. ConnOK(c) /\ TunOK(c) /\ Pristine(s) /\ Pristine(o) /\ asked[c] = None
        /\ Transit(s) /\ Transit(o)
    <2>1. ConnOK(c) /\ TunOK(c) /\ Transit(s) /\ Transit(o)
      BY <1>3 DEF TunInv, ConnOK
    <2> QED BY <1>0, <1>2, <2>1 DEF TunOK
  <1>5. TunType  BY DEF TunInv
  <1>6. /\ Fails' = {} /\ CallsOK' /\ DueFor(calls', c)
        /\ HandOf(calls', s) = <<>> /\ HandOf(calls', o) = <<>>
    <2>1. calls' = <<>>  BY <1>0
    <2>2. \A d : ~ FailingIn(calls', d)  BY <1>0, <1>1
    <2> QED BY <1>0, <1>1, <1>3, <2>1, <2>2 DEF Fails, CallsOK, DueFor
  <1>7. Shrinks  BY <1>0 DEF Shrinks, TunInv, ReadyOK
  <1>8. PICK w : w = New(io, s, "up")  OBVIOUS
  <1>9. CASE w.fd[s] = -1
    <2>1. tun' = [tun EXCEPT ![c] = "deleted"] /\ io' = io /\ asked' = asked
      BY <1>2, <1>8, <1>9 DEF Accept
    <2>2. tun'[c] = "deleted" /\ \A d \in Conn : d # c => tun'[d] = tun[d]
      BY <1>5, <2>1 DEF TunType
    <2>3. \A d \in Conn : d # c => Still(d)  BY <1>0, <2>1, <2>2 DEF Still
    <2>4. \A d \in Conn : d # c => ConnOK(d)'
      BY <1>0, <1>1, <1>6, <2>3, OthersOK
    <2>5. ConnOK(c)'
      <3>1. TunOK(c)'
        BY <1>0, <1>2, <1>4, <2>1, <2>2 DEF TunOK, Pristine
      <3>2. \A t \in Ends(c) : Listened(t)' /\ Transit(t)'
        BY <1>3, <2>2 DEF Listened, Transit
      <3> QED BY <3>1, <3>2 DEF ConnOK
    <2>6. ReadyOK'  BY <1>7, <2>1, <2>2, ReadyKept
    <2>7. TunType' /\ CrashOK'  BY <1>0, <1>5, <2>1 DEF TunType, CrashOK
    <2> QED BY <1>1, <1>6, <2>1, <2>4, <2>5, <2>6, <2>7 DEF TunInv
  <1>10. CASE w.fd[s] # -1
    <2>1. /\ tun' = [tun EXCEPT ![c] = "RESOLVING"] /\ io' = w
          /\ asked' = [asked EXCEPT ![c] = target]
      BY <1>2, <1>8, <1>10 DEF Accept
    <2>2. /\ tun'[c] = "RESOLVING" /\ \A d \in Conn : d # c => tun'[d] = tun[d]
          /\ \A d \in Conn : d # c => asked'[d] = asked[d]
      BY <1>5, <2>1 DEF TunType
    <2>3. IoInv(w, {}) /\ Opened(w, io, s, "up")
      <3>1. s \notin io.alive /\ io.flags[s] = {} /\ io.buf[s] = <<>>
        BY <1>4 DEF Pristine
      <3>2. Free(io) # {}  BY <1>1, <1>3, <1>8, <1>10, NewFails
      <3> QED BY <1>1, <1>3, <1>8, <3>1, <3>2, NewAdds
    <2>4. /\ io'.alive = io.alive \cup {s} /\ io'.flags = io.flags /\ io'.buf = io.buf
          /\ io'.inq = io.inq /\ io'.out = io.out /\ io'.conn[s] = "up"
          /\ \A t \in Sock : t # s => io'.conn[t] = io.conn[t]
      BY <1>1, <1>3, <2>1, <2>3 DEF Opened, IoType
    <2>5. \A d \in Conn : d # c => Still(d)
      <3> SUFFICES ASSUME NEW d \in Conn, d # c PROVE Still(d)
        OBVIOUS
      <3>1. \A t \in Ends(d) : t \in Sock /\ t # s  BY <1>3, EndsOfConn DEF Ends
      <3> QED BY <1>0, <2>2, <2>4, <3>1 DEF Still
    <2>6. \A d \in Conn : d # c => ConnOK(d)'
      BY <1>0, <1>1, <1>6, <2>5, OthersOK
    <2>7. ConnOK(c)'
      <3>1. TunOK(c)'
        <4>1. s \in io'.alive /\ io'.flags[s] = {}  BY <1>4, <2>4 DEF Pristine
        <4>2. Pristine(o)'  BY <1>0, <1>3, <1>4, <2>4 DEF Pristine
        <4> QED BY <1>0, <1>2, <2>2, <4>1, <4>2 DEF TunOK
      <3>2. ASSUME NEW t \in Ends(c) PROVE Listened(t)' /\ Transit(t)'
        <4>1. t \in Sock /\ t[1] = c /\ Transit(t)  BY <1>3, <1>4
        <4>2. Whole(io', calls', t) = Whole(io, calls, t)
          BY <1>0, <2>4 DEF Whole
        <4>3. Whole(io, calls, t) = Numbers(sent[Other(t)])
          BY <1>0, <1>1, <4>1 DEF Transit
        <4> QED BY <1>0, <2>2, <4>1, <4>2, <4>3 DEF Listened, Transit
      <3> QED BY <3>1, <3>2 DEF ConnOK
    <2>8. ReadyOK'
      <3>1. \A t \in Sock : tun[t[1]] \in {"CONNECTING", "FORWARDING", "deleted"} => t # s
        BY <1>0, <1>3
      <3> QED BY <1>0, <1>7, <2>2, <2>4, <3>1, ReadyKept
    <2>9. TunType' /\ CrashOK'  BY <1>0, <1>5, <2>1 DEF TunType, CrashOK
    <2> QED BY <1>6, <2>1, <2>3, <2>6, <2>7, <2>8, <2>9 DEF TunInv
  <1> QED BY <1>9, <1>10

\* DNSCallback() with an address makes the socket for the target and connects it.
LEMMA ResolvedOK ==
  ASSUME TunInv, NEW c \in Conn, Resolved(c)
  PROVE  TunInv'
  <1>0. /\ status = "up" /\ calls = <<>> /\ asked[c] # None
        /\ asked' = [asked EXCEPT ![c] = None]
        /\ UNCHANGED <<target, ready, sent>>
    BY DEF Resolved, Between
  <1>1. /\ \A d : ~ FailingIn(calls, d)
        /\ \A t \in Sock : HandOf(calls, t) = <<>> /\ ~ DueIn(calls, t)
        /\ \A d \in Conn : DueFor(calls, d)
        /\ Fails = {} /\ IoInv(io, {}) /\ IoType(io)
    BY <1>0, NothingIsDue
  <1>2. PICK s, o : s = Src(c) /\ o = Dest(c)  OBVIOUS
  <1>3. /\ s \in Sock /\ o \in Sock /\ s # o /\ s[1] = c /\ o[1] = c /\ Ends(c) = {s, o}
        /\ Other(s) = o /\ Other(o) = s /\ o = Dest(o[1])
    BY <1>2, EndsOfConn DEF Ends
  <1>4. /\ ConnOK(c) /\ TunOK(c) /\ tun[c] = "RESOLVING"
        /\ s \in io.alive /\ io.flags[s] = {} /\ Pristine(o)
        /\ Transit(s) /\ Transit(o)
    <2>1. ConnOK(c) /\ TunOK(c) /\ Transit(s) /\ Transit(o)
      BY <1>3 DEF TunInv, ConnOK
    <2> QED BY <1>0, <1>2, <2>1 DEF TunOK
  <1>5. TunType  BY DEF TunInv
  <1>6. /\ asked'[c] = None /\ DOMAIN asked' = Conn
        /\ \A d \in Conn : d # c => asked'[d] = asked[d]
    BY <1>0, <1>5 DEF TunType
  <1>7. PICK w : w = New(io, o, "none")  OBVIOUS
  <1>8. CASE w.fd[o] # -1 /\ tun' = [tun EXCEPT ![c] = "CONNECTING"]
             /\ Result(o, AsyncConnect(w, o), <<>>) /\ causes' = causes /\ status' = status
    <2>. PICK m \in AsyncConnect(w, o) : Outcome(o, m, <<>>)
      BY <1>8 DEF Result, Outcome
    <2>1. PICK r : r = <<>> /\ Outcome(o, m, r)
      OBVIOUS
    <2>2. IoInv(w, {}) /\ Opened(w, io, o, "none")
      <3>1. o \notin io.alive /\ io.flags[o] = {} /\ io.buf[o] = <<>>
        BY <1>4 DEF Pristine
      <3>2. Free(io) # {}  BY <1>1, <1>3, <1>7, <1>8, NewFails
      <3> QED BY <1>1, <1>3, <1>7, <3>1, <3>2, NewAdds
    <2>3. Connects(m, w, o)
      <3>1. o \in w.alive /\ w.flags[o] = {}  BY <1>4, <2>2 DEF Opened, Pristine
      <3> QED BY <2>1, <2>2, <3>1, AsyncConnectOutcome
    <2>4. /\ io' = m.w
          /\ m.cb \in {<<>>, <<"WRITTEN", 0>>} => calls' = r /\ signals' = signals
          /\ \A reason \in {"READ", "ERROR", "CONNECTED", "TIMEOUT"} : \A data :
               m.cb = <<reason, data>> =>
                  calls' = <<Event(o, reason, data)>> \o r /\ signals' = signals
      <3>1. Outcome(o, m, r)  BY <2>1
      <3> QED BY <3>1, OutcomeCalls
    <2>5. PICK flags, conn :
            /\ IoInv(io', {}) /\ signals' = signals /\ flags \subseteq {"CONNECTING"}
            /\ Becomes(io', w, o, flags, w.buf[o], conn, w.inq[o], w.out[o])
            /\ \/ /\ calls' = <<Event(o, "CONNECTED", 0)>> \o r
                  /\ flags = {} /\ conn # "connecting"
               \/ calls' = <<Event(o, "ERROR", 1)>> \o r
               \/ calls' = r
      <3>1. PICK b, x : b = m.cb /\ x = m.w  OBVIOUS
      <3>2. /\ IoInv(x, {})
            /\ \/ /\ b = <<"CONNECTED", 0>>
                  /\ Becomes(x, w, o, {}, w.buf[o], "up", w.inq[o], w.out[o])
               \/ /\ b = <<"ERROR", 1>>
                  /\ Becomes(x, w, o, {}, w.buf[o], "refused", w.inq[o], w.out[o])
               \/ /\ b = <<>>
                  /\ Becomes(x, w, o, {"CONNECTING"}, w.buf[o], "connecting",
                             w.inq[o], w.out[o])
        BY <2>3, <3>1 DEF Connects
      <3>3. io' = x  BY <2>4, <3>1
      <3>4. CASE /\ b = <<"CONNECTED", 0>>
                 /\ Becomes(x, w, o, {}, w.buf[o], "up", w.inq[o], w.out[o])
        <4>1. calls' = <<Event(o, "CONNECTED", 0)>> \o r /\ signals' = signals
          BY <2>4, <3>1, <3>4
        <4>2. PICK fl, cn : fl = {} /\ cn = "up"  OBVIOUS
        <4>3. Becomes(io', w, o, fl, w.buf[o], cn, w.inq[o], w.out[o])
          BY <3>3, <3>4, <4>2
        <4> QED BY <3>2, <3>3, <4>1, <4>2, <4>3
      <3>5. CASE /\ b = <<"ERROR", 1>>
                 /\ Becomes(x, w, o, {}, w.buf[o], "refused", w.inq[o], w.out[o])
        <4>1. calls' = <<Event(o, "ERROR", 1)>> \o r /\ signals' = signals
          BY <2>4, <3>1, <3>5
        <4>2. PICK fl, cn : fl = {} /\ cn = "refused"  OBVIOUS
        <4>3. Becomes(io', w, o, fl, w.buf[o], cn, w.inq[o], w.out[o])
          BY <3>3, <3>5, <4>2
        <4> QED BY <3>2, <3>3, <4>1, <4>2, <4>3
      <3>6. CASE /\ b = <<>>
                 /\ Becomes(x, w, o, {"CONNECTING"}, w.buf[o], "connecting",
                            w.inq[o], w.out[o])
        <4>1. calls' = r /\ signals' = signals  BY <2>4, <3>1, <3>6
        <4>2. PICK fl, cn : fl = {"CONNECTING"} /\ cn = "connecting"  OBVIOUS
        <4>3. Becomes(io', w, o, fl, w.buf[o], cn, w.inq[o], w.out[o])
          BY <3>3, <3>6, <4>2
        <4> QED BY <3>2, <3>3, <4>1, <4>2, <4>3
      <3> QED BY <3>2, <3>4, <3>5, <3>6
    <2>6. /\ io'.alive = io.alive \cup {o}
          /\ io'.buf = io.buf /\ io'.inq = io.inq /\ io'.out = io.out
          /\ io'.flags[o] = flags /\ io'.conn[o] = conn
          /\ \A t \in Sock : t # o => io'.flags[t] = io.flags[t] /\ io'.conn[t] = io.conn[t]
      <3>1. IoType(w)  BY <2>2 DEF IoInv
      <3>2. /\ w.alive = io.alive \cup {o} /\ w.conn = [io.conn EXCEPT ![o] = "none"]
            /\ w.flags = io.flags /\ w.buf = io.buf /\ w.inq = io.inq /\ w.out = io.out
        BY <2>2 DEF Opened
      <3>3. /\ io'.alive = w.alive
            /\ io'.flags = [w.flags EXCEPT ![o] = flags]
            /\ io'.buf = [w.buf EXCEPT ![o] = w.buf[o]]
            /\ io'.conn = [w.conn EXCEPT ![o] = conn]
            /\ io'.inq = [w.inq EXCEPT ![o] = w.inq[o]]
            /\ io'.out = [w.out EXCEPT ![o] = w.out[o]]
        BY <2>5 DEF Becomes
      <3> QED BY <1>1, <1>3, <3>1, <3>2, <3>3 DEF IoType
    <2>7. tun'[c] = "CONNECTING" /\ \A d \in Conn : d # c => tun'[d] = tun[d]
      BY <1>5, <1>8 DEF TunType
    <2>8. \A d \in Conn : d # c => Still(d)
      <3> SUFFICES ASSUME NEW d \in Conn, d # c PROVE Still(d)
        OBVIOUS
      <3>1. \A t \in Ends(d) : t \in Sock /\ t # o  BY <1>3, EndsOfConn DEF Ends
      <3> QED BY <1>0, <1>6, <2>6, <2>7, <3>1 DEF Still
    <2>9. r \in Rests(o) /\ r = <<>>  BY <2>1 DEF Rests
    <2>10. TunOK(c)'
      <3>1. /\ s \in io'.alive /\ o \in io'.alive
            /\ io'.flags[s] = {} /\ io'.flags[o] \subseteq {"CONNECTING"}
        BY <1>3, <1>4, <2>5, <2>6
      <3> QED BY <1>2, <1>6, <2>7, <3>1 DEF TunOK
    \* A socket that fails at once is as one that fails later.
    <2>11. /\ IoInv(io', Fails') /\ CallsOK' /\ DueFor(calls', c)
           /\ \A t \in Sock : HandOf(calls', t) = <<>>
      <3>1. CASE calls' = r
        <4>1. calls' = <<>> /\ calls' = calls  BY <1>0, <2>9, <3>1
        <4>2. Fails' = {} /\ \A t \in Sock : HandOf(calls', t) = <<>>
          BY <1>1, <4>1 DEF Fails
        <4> QED BY <2>5, <4>1, <4>2 DEF CallsOK, DueFor
      <3>2. CASE calls' = <<Event(o, "CONNECTED", 0)>> \o r /\ flags = {} /\ conn # "connecting"
        <4>1. PICK z, reason : z = 0 /\ reason = "CONNECTED"  OBVIOUS
        <4>2. Pending(calls', Event(o, reason, z), o, r) /\ z \in Nat
          BY <1>3, <2>9, <3>2, <4>1 DEF Pending
        <4>3. EventSays(calls', o, r, reason, z)  BY <4>2, EventDue
        <4>4. Fails' = {} /\ \A t \in Sock : HandOf(calls', t) = <<>>
          BY <4>1, <4>3 DEF EventSays, Fails
        <4>5. Finds(o, Event(o, reason, z))'
          <5>1. \E d \in {0, 1} : Event(o, reason, z) = Event(o, "CONNECTED", d)  BY <4>1
          <5> QED BY <1>3, <2>6, <2>7, <3>2, <5>1 DEF Finds
        <4>6. CallsOK' /\ DueFor(calls', o[1])  BY <1>3, <2>9, <4>2, <4>5, Pushed
        <4> QED BY <1>3, <2>5, <4>4, <4>6
      <3>3. CASE calls' = <<Event(o, "ERROR", 1)>> \o r
        <4>1. PICK z, reason : z = 1 /\ reason = "ERROR"  OBVIOUS
        <4>2. Pending(calls', Event(o, reason, z), o, r) /\ z \in Nat
          BY <1>3, <2>9, <3>3, <4>1 DEF Pending
        <4>3. EventSays(calls', o, r, reason, z)  BY <4>2, EventDue
        <4>4. \A t \in Sock : HandOf(calls', t) = <<>>
          BY <4>1, <4>3 DEF EventSays
        <4>5. Finds(o, Event(o, reason, z))'
          BY <1>3, <2>6, <2>7, <4>1 DEF Finds
        <4>6. CallsOK' /\ DueFor(calls', o[1])  BY <1>3, <2>9, <4>2, <4>5, Pushed
        <4>7. IoInv(io', Fails')  BY <2>5 DEF IoInv
        <4> QED BY <1>3, <4>4, <4>6, <4>7
      <3> QED BY <2>5, <3>1, <3>2, <3>3
    <2>12. \A d \in Conn : ConnOK(d)'
      <3>1. \A d \in Conn : d # c => ConnOK(d)'
        BY <1>1, <1>8, <2>8, <2>11, OthersOK
      <3>2. ASSUME NEW t \in Ends(c) PROVE Listened(t)' /\ Transit(t)'
        <4>1. t \in Sock /\ t[1] = c /\ Transit(t)  BY <1>3, <1>4
        <4>2. Whole(io', calls', t) = Whole(io, calls, t)
          BY <1>1, <2>6, <2>11, <4>1 DEF Whole
        <4>3. Whole(io, calls, t) = Numbers(sent[Other(t)])
          BY <1>1, <1>4, <4>1 DEF Transit
        <4> QED BY <1>0, <2>7, <4>1, <4>2, <4>3 DEF Listened, Transit
      <3> QED BY <2>10, <3>1, <3>2 DEF ConnOK
    <2>13. ReadyOK'
      <3>1. \A t \in Sock : tun[t[1]] \in {"CONNECTING", "FORWARDING", "deleted"} => t # o
        BY <1>3, <1>4
      <3>2. Shrinks  BY <1>0 DEF Shrinks, TunInv, ReadyOK
      <3> QED BY <2>6, <2>7, <3>1, <3>2, ReadyKept
    <2>14. TunType' /\ CrashOK'
      BY <1>0, <1>5, <1>6, <1>8, <2>5 DEF TunType, CrashOK
    <2> QED BY <2>11, <2>12, <2>13, <2>14 DEF TunInv
  <1>9. CASE DeleteBoth(c) /\ UNCHANGED <<calls, signals, causes, status>>
    <2>1. BothGone(c)
      <3>1. io' = Delete(Delete(io, Src(c)), Dest(c))  BY <1>9 DEF DeleteBoth
      <3> QED BY <1>1, <3>1, DeleteBothGone
    <2>2. tun' = [tun EXCEPT ![c] = "deleted"]  BY <1>9 DEF DeleteBoth
    <2>3. /\ CallsOK' /\ DueFor(calls, c) /\ DueFor(calls', c)
          /\ \A d : ~ FailingIn(calls', d)
      BY <1>0, <1>1, <1>9 DEF CallsOK
    <2> QED BY <1>0, <1>6, <1>9, <2>1, <2>2, <2>3, GoneOK
  <1>10. ~ (tun[c] = "deleted")  BY <1>4
  <1> QED BY <1>2, <1>7, <1>8, <1>9, <1>10 DEF Resolved

\* CheckTimeouts() ends a connect() that took too long.
LEMMA CheckTimeoutsOK ==
  ASSUME TunInv, CheckTimeouts
  PROVE  TunInv'
  <1>0. /\ status = "up" /\ calls = <<>>
        /\ UNCHANGED <<tun, asked, target, ready, sent, causes, status>>
    BY DEF CheckTimeouts, InLoop, Between
  <1>1. /\ \A d : ~ FailingIn(calls, d)
        /\ \A t \in Sock : HandOf(calls, t) = <<>> /\ ~ DueIn(calls, t)
        /\ \A d \in Conn : DueFor(calls, d)
        /\ Fails = {} /\ IoInv(io, {}) /\ IoType(io)
        /\ \A t \in io.alive : FlagsOK(io, t)
    BY <1>0, NothingIsDue
  <1>2. PICK s \in io.timer : Result(s, HandleTimeout(io, s), <<>>)
    BY DEF CheckTimeouts
  <1>3. PICK r : r = <<>>  OBVIOUS
  <1>4. \E m \in HandleTimeout(io, s) : Outcome(s, m, r)  BY <1>2, <1>3, ResultHas
  <1>5. PICK m \in HandleTimeout(io, s) : Outcome(s, m, r)  BY <1>4
  <1>6. TimedOut(m, io, s)  BY <1>1, <1>5, HandleTimeoutOutcome
  <1>7. /\ s \in io.alive /\ s \in Sock /\ Is(io, s, "CONNECTING")
        /\ io.flags[s] = {"CONNECTING"} /\ io.buf[s] = <<>>
    <2>1. s \in io.alive /\ Is(io, s, "CONNECTING")  BY <1>1, <1>2 DEF IoInv, Timed
    <2>2. FlagsOK(io, s)  BY <1>1, <2>1
    <2>3. io.flags[s] = {"CONNECTING"}  BY <2>1, <2>2 DEF FlagsOK
    <2>4. io.buf[s] = <<>>
      <3>1. ~ Is(io, s, "SENDING")  BY <2>3 DEF Is
      <3> QED BY <2>2, <3>1 DEF FlagsOK
    <2> QED BY <1>1, <2>1, <2>3, <2>4 DEF IoType
  <1>8. PICK c : c = s[1]  OBVIOUS
  <1>9. /\ c \in Conn /\ s \in Ends(c) /\ \A t \in Ends(c) : t \in Sock /\ t[1] = c
    BY <1>7, <1>8, OtherEnd, EndsOfConn DEF Ends
  <1>10. ConnOK(c) /\ TunOK(c) /\ tun[c] = "CONNECTING"
    <2>1. tun[c] \in {"CONNECTING", "FORWARDING"}  BY <1>7, <1>8, FlaggedTun
    <2>2. ConnOK(c) /\ TunOK(c)  BY <1>9 DEF TunInv, ConnOK
    <2>3. tun[c] # "FORWARDING"
      <3>1. s = Src(c) \/ s = Dest(c)  BY <1>9 DEF Ends
      <3> QED BY <1>7, <2>2, <3>1 DEF TunOK
    <2> QED BY <2>1, <2>2, <2>3
  <1>11. PICK z, reason : z = 0 /\ reason = "TIMEOUT"  OBVIOUS
  <1>12. io' = m.w /\ calls' = <<Event(s, reason, z)>> \o r /\ signals' = signals
    <2>1. m.cb = <<reason, z>>  BY <1>6, <1>11 DEF TimedOut
    <2> QED BY <1>5, <1>11, <2>1, OutcomeCalls
  <1>13. PICK fl, bu : fl = {} /\ bu = <<>>  OBVIOUS
  <1>14. IoInv(io', {}) /\ Becomes(io', io, s, fl, bu, io.conn[s], io.inq[s], io.out[s])
    BY <1>6, <1>12, <1>13 DEF TimedOut
  <1>15. /\ io'.alive = io.alive /\ io'.flags[s] = {}
         /\ \A t \in Sock : /\ io'.conn[t] = io.conn[t] /\ io'.inq[t] = io.inq[t]
                            /\ io'.out[t] = io.out[t] /\ io'.buf[t] = io.buf[t]
                            /\ t # s => io'.flags[t] = io.flags[t]
    <2>1. /\ io'.alive = io.alive /\ io'.flags = [io.flags EXCEPT ![s] = fl]
          /\ io'.buf = [io.buf EXCEPT ![s] = bu]
          /\ io'.conn = [io.conn EXCEPT ![s] = io.conn[s]]
          /\ io'.inq = [io.inq EXCEPT ![s] = io.inq[s]]
          /\ io'.out = [io.out EXCEPT ![s] = io.out[s]]
      BY <1>14 DEF Becomes
    <2>2. /\ DOMAIN io.flags = Sock /\ DOMAIN io.buf = Sock /\ DOMAIN io.conn = Sock
          /\ DOMAIN io.inq = Sock /\ DOMAIN io.out = Sock
      BY <1>1 DEF IoType
    <2> QED BY <1>7, <1>13, <2>1, <2>2
  <1>16. r \in Rests(s)  BY <1>3 DEF Rests
  <1>17. Pending(calls', Event(s, reason, z), s, r) /\ z \in Nat
    BY <1>7, <1>11, <1>12, <1>16 DEF Pending
  <1>18. EventSays(calls', s, r, reason, z)  BY <1>17, EventDue
  <1>19. /\ \A d : ~ FailingIn(calls', d)
         /\ \A t \in Sock : HandOf(calls', t) = <<>>
         /\ Fails' = {}
    BY <1>11, <1>18 DEF EventSays, Fails
  <1>20. Finds(s, Event(s, reason, z))'
    BY <1>0, <1>7, <1>8, <1>10, <1>11, <1>15 DEF Finds
  <1>21. CallsOK' /\ DueFor(calls', c)
    BY <1>3, <1>7, <1>8, <1>17, <1>20, Pushed
  <1>22. \A d \in Conn : d # c => Still(d)
    BY <1>0, <1>1, <1>7, <1>8, <1>14, BecomesStill
  <1>23. \A d \in Conn : d # c => ConnOK(d)'
    BY <1>0, <1>1, <1>9, <1>21, <1>22, OthersOK
  <1>24. ConnOK(c)'
    <2>1. TunOK(c)'
      <3>1. \A t \in Ends(c) : io'.flags[t] \subseteq io.flags[t]
        BY <1>9, <1>15
      <3> QED BY <1>0, <1>9, <1>10, <1>15, <3>1, StillConnects
    <2>2. ASSUME NEW t \in Ends(c) PROVE Listened(t)' /\ Transit(t)'
      <3>1. t \in Sock /\ t[1] = c /\ Transit(t) /\ Other(t) \in Sock
        BY <1>9, <1>10, OtherEnd DEF ConnOK
      <3>2. Whole(io', calls', t) = Whole(io, calls, t)
        BY <1>1, <1>15, <1>19, <3>1 DEF Whole
      <3>3. Whole(io, calls, t) = Numbers(sent[Other(t)])
        BY <1>1, <1>10, <3>1 DEF Transit
      <3> QED BY <1>0, <1>10, <3>1, <3>2, <3>3 DEF Listened, Transit
    <2> QED BY <2>1, <2>2 DEF ConnOK
  <1>25. ReadyOK'
    <2>1. Shrinks  BY <1>0 DEF Shrinks, TunInv, ReadyOK
    <2> QED BY <1>0, <1>15, <2>1, ReadyKept
  <1>26. TunType' /\ CrashOK'
    BY <1>0, <1>12 DEF TunInv, TunType, CrashOK
  <1> QED BY <1>14, <1>19, <1>21, <1>23, <1>24, <1>25, <1>26 DEF TunInv

\* Unloading the module deletes all that it has, and takes lookups back by the name that is
\* configured now: those of another name stay.
LEMMA CleanupOK ==
  ASSUME TunInv, Cleanup
  PROVE  TunInv'
  <1>0. /\ status' = "unloaded" /\ status = "up" /\ calls = <<>> /\ ready = NothingReady
        /\ io' = [NoSockets EXCEPT !.out = io.out]
        /\ tun' = [c \in Conn |-> IF Src(c) \in io.alive THEN "deleted" ELSE tun[c]]
        /\ asked' = [c \in Conn |-> IF asked[c] = target THEN None ELSE asked[c]]
        /\ causes' = IF \A c \in Conn : asked[c] \in {None, target} THEN causes
                     ELSE causes \cup {"renamed"}
        /\ UNCHANGED <<target, calls, ready, sent, signals>>
    BY DEF Cleanup, InLoop, Between, CancelRequests
  <1>1. /\ io'.fd = [s \in Sock |-> -1] /\ io'.flags = [s \in Sock |-> {}]
        /\ io'.buf = [s \in Sock |-> <<>>] /\ io'.timer = {} /\ io'.alive = {}
        /\ io'.table = [f \in Fds |-> None] /\ io'.rset = {} /\ io'.wset = {}
        /\ io'.conn = [s \in Sock |-> "none"] /\ io'.inq = [s \in Sock |-> <<>>]
        /\ io'.eof = {} /\ io'.out = io.out /\ DOMAIN io' = Fields
    BY <1>0 DEF NoSockets, Fields
  <1>2. IoType(io')
    <2>1. <<>> \in Seq(Unit)  OBVIOUS
    <2>2. io.out \in [Sock -> Seq(Unit)]  BY IoFacts DEF IoType
    <2> QED BY <1>1, <2>1, <2>2 DEF IoType
  <1>3. Wiring(io') /\ Timed(io')  BY <1>1, SocketAssumption DEF Wiring, Timed
  <1>4. IoInv(io', Fails')  BY <1>1, <1>2, <1>3 DEF IoInv
  <1>5. TunType'  BY <1>0 DEF TunInv, TunType
  <1>6. CallsOK' /\ ReadyOK' /\ CrashOK'
    BY <1>0 DEF CallsOK, ReadyOK, NothingReady, CrashOK
  <1>7. ASSUME NEW c \in Conn PROVE ConnOK(c)'
    <2>0. /\ Src(c) \in Sock /\ Dest(c) \in Sock /\ ConnOK(c) /\ TunOK(c)
          /\ tun[c] \in {"new", "RESOLVING", "CONNECTING", "FORWARDING", "deleted"}
      BY EndsOfConn DEF TunInv, ConnOK, TunType
    <2>1. tun'[c] \in {"new", "deleted"} /\ (tun'[c] = "new" => tun[c] = "new")
      BY <1>0, <2>0 DEF TunOK
    <2>2. tun'[c] = "new" => Pristine(Src(c))' /\ Pristine(Dest(c))' /\ asked'[c] = None
      BY <1>0, <1>1, <2>0, <2>1 DEF TunOK, Pristine
    <2>3. asked'[c] # None => "renamed" \in causes'
      <3>1. asked'[c] # None => asked[c] \notin {None, target}  BY <1>0
      <3> QED BY <1>0, <3>1
    <2>4. TunOK(c)'  BY <1>0, <1>1, <2>1, <2>2, <2>3 DEF TunOK
    <2>5. ASSUME NEW s \in Ends(c) PROVE Listened(s)' /\ Transit(s)'
      <3>1. s \in Sock /\ s[1] = c /\ Other(s) \in Sock /\ Other(s) \in Ends(c)
        BY <2>0, <2>5, EndsOfConn DEF Ends
      <3>2. Listened(s)'  BY <2>1, <3>1 DEF Listened
      <3>3. Transit(s)'
        <4>1. CASE tun'[c] = "deleted"  BY <3>1, <4>1 DEF Transit
        <4>2. CASE tun'[c] = "new"
          <5>1. HandOf(calls', s) = <<>>  BY <1>0, <3>1, NothingDue DEF Uninvolved
          <5>2. io'.out[s] = <<>> /\ sent'[Other(s)] = 0
            BY <2>2, <3>1, <4>2 DEF Ends, Pristine
          <5>3. Whole(io', calls', s) = ((<<>> \o <<>>) \o <<>>) \o <<>>
            BY <1>1, <3>1, <5>1, <5>2 DEF Whole, Chain
          <5>4. ((<<>> \o <<>>) \o <<>>) \o <<>> = <<>>
            <6>1. <<>> \in Seq(Unit)  OBVIOUS
            <6>2. <<>> \o <<>> = <<>>  BY <6>1, ConcatEmptySeq
            <6> QED BY <6>2
          <5>5. Numbers(0) = <<>>
            <6>1. 0 \in Nat  OBVIOUS
            <6> QED BY <6>1, NumbersGrow
          <5> QED BY <5>2, <5>3, <5>4, <5>5 DEF Transit
        <4> QED BY <2>1, <4>1, <4>2
      <3> QED BY <3>2, <3>3
    <2> QED BY <2>4, <2>5 DEF ConnOK
  <1> QED BY <1>4, <1>5, <1>6, <1>7 DEF TunInv

\* Whatever happens next, the invariant holds.
LEMMA NextOK ==
  ASSUME TunInv, [Next]_vars
  PROVE  TunInv'
  <1>1. ASSUME NEW s \in Sock, Sends(s) PROVE TunInv'  BY <1>1, SendsOK
  <1>2. ASSUME NEW s \in Sock, PeerActs(s) PROVE TunInv'  BY <1>2, PeerActsOK
  <1>3. ASSUME NEW c \in Conn, Accept(c) PROVE TunInv'  BY <1>3, AcceptOK
  <1>4. ASSUME NEW c \in Conn, Resolved(c) PROVE TunInv'  BY <1>4, ResolvedOK
  <1>5. CASE Callback  BY <1>5, CallbackOK
  <1>6. CASE WaitEvents  BY <1>6, WaitEventsOK
  <1>7. CASE Dispatch  BY <1>7, DispatchOK
  <1>8. CASE CheckTimeouts  BY <1>8, CheckTimeoutsOK
  <1>9. CASE ReloadCfg  BY <1>9, ReloadCfgOK
  <1>10. CASE Cleanup  BY <1>10, CleanupOK
  <1>11. CASE LateAnswer  BY <1>11, LateAnswerOK
  <1>12. CASE UNCHANGED vars  BY <1>12, StutterOK
  <1> QED BY <1>1, <1>2, <1>3, <1>4, <1>5, <1>6, <1>7, <1>8, <1>9, <1>10, <1>11, <1>12
          DEF Next, Daemon

\* The invariant holds at every moment.
LEMMA TunInvHolds == Spec => []TunInv
  <1>1. Init => TunInv  BY InitInv
  <1>2. TunInv /\ [Next]_vars => TunInv'  BY NextOK
  <1> QED BY <1>1, <1>2, PTL DEF Spec

-----------------------------------------------------------------------------
\* Forward() and the sockets lose nothing, double nothing and change no order, however the
\* handlers nest: what is out, queued, in a callback's hands and unread is what was sent.
THEOREM NothingIsLostOrDoubled == Spec => []InTransit
  <1>1. TunInv => InTransit
    <2> SUFFICES ASSUME TunInv, NEW s \in Sock, Forwarding(s[1]), ~ Failing(s[1])
                 PROVE  io.out[s] \o io.buf[s] \o InHand(s) \o io.inq[Other(s)]
                            = [i \in 1..sent[Other(s)] |-> i]
      BY DEF InTransit
    <2>1. Transit(s)  BY WholeParts
    <2>2. tun[s[1]] # "deleted"  BY DEF Forwarding
    <2>3. ~ FailingIn(calls, s[1])  BY DEF Failing, FailingIn
    <2>4. HandOf(calls, s) = InHand(s)  BY DEF HandOf, InHand
    <2>5. Whole(io, calls, s) = Numbers(sent[Other(s)])  BY <2>1, <2>2, <2>3 DEF Transit
    <2> QED BY <2>4, <2>5 DEF Whole, Chain, Numbers
  <1> QED BY <1>1, TunInvHolds, PTL

\* Whenever the daemon sleeps in select() both ends of a connection that forwards are
\* registered with the dispatcher, unless a signal interrupted a recv(); and between any two
\* handlers what is registered is what is under way.
THEOREM BothEndsAreHeard == Spec => []NeverDeaf
  <1>1. TunInv => NeverDeaf
    <2> SUFFICES ASSUME TunInv, Between PROVE NeverDeaf
      BY DEF NeverDeaf, InLoop
    <2>0. calls = <<>>  BY DEF Between
    <2>1. /\ \A d : ~ FailingIn(calls, d)
          /\ \A t \in Sock : ~ DueIn(calls, t)
          /\ IoInv(io, {}) /\ IoType(io)
          /\ \A s \in io.alive : FlagsOK(io, s)
      BY <2>0, NothingIsDue
    <2>2. Registered(io)
      <3>1. Wiring(io)  BY <2>1 DEF IoInv
      <3> QED BY <2>1, <3>1 DEF Registered, Wiring, FlagsOK
    <2>3. ASSUME NEW c \in Conn, Forwarding(c)
          PROVE  \/ Is(io, Src(c), "RECVING") /\ Is(io, Dest(c), "RECVING")
                 \/ "EINTR" \in causes
      <3>1. ConnOK(c) /\ tun[c] = "FORWARDING"  BY <2>3 DEF TunInv, Forwarding
      <3>2. /\ Src(c) \in Sock /\ Dest(c) \in Sock /\ Src(c)[1] = c /\ Dest(c)[1] = c
            /\ Src(c) \in Ends(c) /\ Dest(c) \in Ends(c)
        BY EndsOfConn DEF Ends
      <3>3. Listened(Src(c)) /\ Listened(Dest(c))  BY <3>1, <3>2 DEF ConnOK
      <3> QED BY <2>1, <3>1, <3>2, <3>3 DEF Listened
    <2> QED BY <2>2, <2>3 DEF NeverDeaf
  <1> QED BY <1>1, TunInvHolds, PTL

\* The daemon uses nothing that it has deleted but in the two sequences that the property
\* names; a connection that is not up is taken for one that is only when Dispatch() handed
\* it the event of another.
THEOREM EventsReachTheirOwner == Spec => []EventsFindTheirOwner
  <1>1. TunInv => EventsFindTheirOwner
    <2> SUFFICES ASSUME TunInv PROVE EventsFindTheirOwner
      OBVIOUS
    <2>1. CrashOK /\ \A c \in Conn : TunOK(c)  BY DEF TunInv, ConnOK
    <2> QED BY <2>1 DEF EventsFindTheirOwner, CrashOK, TunOK, Forwarding
  <1> QED BY <1>1, TunInvHolds, PTL

-----------------------------------------------------------------------------
\* The steps of the tunnels as steps of pipes.

\* Nothing is sent, by the peers or to them, and what is closed stays so.
Quiet ==
    /\ io'.out = io.out /\ sent' = sent
    /\ \A c \in Conn : tun[c] = "deleted" => tun'[c] = "deleted"

\* Such a step closes the pipes of the connections that end in it.
LEMMA QuietCloses ==
  ASSUME Quiet
  PROVE  Relay!Next
  <1>1. PICK ending : ending = {s \in Sock : tun'[s[1]] = "deleted"}  OBVIOUS
  <1>2. ending \in SUBSET Sock  BY <1>1
  <1>3. {s \in Sock : tun'[s[1]] = "deleted"} =
           {s \in Sock : tun[s[1]] = "deleted"} \cup ending
    <2>1. \A s \in Sock : s[1] \in Conn  BY OtherEnd
    <2>2. \A s \in Sock : tun[s[1]] = "deleted" => s \in ending  BY <1>1, <2>1 DEF Quiet
    <2> QED BY <1>1, <2>2
  <1>4. /\ [s \in Sock |-> [i \in 1..sent'[s] |-> i]] = [s \in Sock |-> [i \in 1..sent[s] |-> i]]
        /\ [s \in Sock |-> io'.out[Other(s)]] = [s \in Sock |-> io.out[Other(s)]]
    BY DEF Quiet
  <1>5. Relay!Close(ending)  BY <1>3, <1>4 DEF Relay!Close
  <1> QED BY <1>2, <1>5 DEF Relay!Next

\* A unit that a peer sends is put into its pipe.
LEMMA SendsPuts ==
  ASSUME TunInv, NEW s \in Sock, Sends(s)
  PROVE  Relay!Next
  <1>0. IoType(io) /\ sent \in [Sock -> Nat]  BY IoFacts DEF TunInv, TunType
  <1>1. sent' = [sent EXCEPT ![s] = sent[s] + 1] /\ tun' = tun /\ io'.out = io.out
    BY <1>0 DEF Sends, IoType, Fields
  <1>2. \A t \in Sock : sent'[t] = IF t = s THEN sent[s] + 1 ELSE sent[t]
    BY <1>0, <1>1
  <1>3. sent[s] \in Nat  BY <1>0
  <1>4. Numbers(sent[s] + 1) = Append(Numbers(sent[s]), Len(Numbers(sent[s])) + 1)
    BY <1>3, NumbersGrow
  <1> DEFINE put == [t \in Sock |-> Numbers(sent[t])]
             more == [t \in Sock |-> Numbers(sent'[t])]
  <1>5. more = [put EXCEPT ![s] = Append(put[s], Len(put[s]) + 1)]
    <2>1. \A t \in Sock : more[t] = IF t = s THEN Numbers(sent[s] + 1) ELSE put[t]
      BY <1>2
    <2>2. more[s] = Append(put[s], Len(put[s]) + 1)  BY <1>4, <2>1
    <2> QED BY <2>1, <2>2
  <1>6. /\ put = [t \in Sock |-> [i \in 1..sent[t] |-> i]]
        /\ more = [t \in Sock |-> [i \in 1..sent'[t] |-> i]]
    BY DEF Numbers
  <1> HIDE DEF put, more
  <1>7. Relay!Put(s)  BY <1>1, <1>5, <1>6 DEF Relay!Put
  <1> QED BY <1>7 DEF Relay!Next

\* What Dispatch() sends is the next of the units that were put, out of the pipe that
\* begins at the other end.
LEMMA DispatchTakes ==
  ASSUME TunInv, TunInv', Dispatch
  PROVE  Relay!Next
  <1>0. calls = <<>> /\ tun' = tun /\ sent' = sent /\ IoType(io) /\ Wiring(io)
        /\ DOMAIN io = Fields
    BY IoFacts DEF Dispatch, Between, IoType
  <1> DEFINE reading == ready.r # {}
             set == IF reading THEN ready.r ELSE ready.x
             least == CHOOSE d \in set : \A g \in set : d[1] <= g[1]
  <1>a. PICK e : e = least  OBVIOUS
  <1>1. IF ~ (e[1] \in (IF reading THEN io.rset ELSE io.wset))
        THEN UNCHANGED <<io, calls, signals, causes>>
        ELSE /\ Result(io.table[e[1]],
                       IF reading THEN HandleRead(io, io.table[e[1]], signals > 0)
                       ELSE HandleWrite(io, io.table[e[1]]), <<>>)
             /\ causes' = IF io.table[e[1]] = e[2] THEN causes ELSE causes \cup {"stale"}
    BY <1>a DEF Dispatch
  <1>2. CASE io' = io
    BY <1>0, <1>2, QuietCloses DEF Quiet
  <1>3. CASE io' # io
    <2>1. PICK f, s : f = e[1] /\ s = io.table[f]  OBVIOUS
    <2>2. f \in Fds /\ s \in Sock /\ s \in io.alive
      <3>1. f \in io.rset \cup io.wset  BY <1>1, <1>3, <2>1
      <3>2. f \in Fds /\ io.table[f] # None /\ io.table[f] \in io.alive
        BY <1>0, <3>1 DEF IoType, Wiring
      <3> QED BY <1>0, <2>1, <3>2 DEF IoType
    <2>3. PICK r : r = <<>>  OBVIOUS
    <2>4. \E m \in IF reading THEN HandleRead(io, s, signals > 0) ELSE HandleWrite(io, s) :
             Outcome(s, m, r)
      BY <1>1, <1>3, <2>1, <2>3, ResultHas
    <2>5. PICK m \in IF reading THEN HandleRead(io, s, signals > 0) ELSE HandleWrite(io, s) :
             Outcome(s, m, r)
      BY <2>4
    <2>6. /\ io' = m.w
          /\ m.cb \in {<<>>, <<"WRITTEN", 0>>} => calls' = <<>>
      BY <2>3, <2>5, OutcomeCalls
    <2>7. CASE m.w.out = io.out
      BY <1>0, <2>6, <2>7, QuietCloses DEF Quiet
    <2>8. CASE m.w.out # io.out
      <3>1. SendsMore(m, io, s)
        <4>1. PICK sig : sig = (signals > 0)  OBVIOUS
        <4>2. KeepsOut(io, io)  BY <1>0 DEF KeepsOut
        <4>3. m \in HandleRead(io, s, sig) => KeepsOut(m.w, io)  BY <4>2, ReadsKeepOut
        <4>4. ~ reading /\ m \in HandleWrite(io, s)
          BY <2>5, <2>8, <4>1, <4>3 DEF KeepsOut
        <4> QED BY <1>0, <2>2, <2>8, <4>4, HandleWriteSends
      <3>2. PICK x \in Seq(Unit) : io'.out = [io.out EXCEPT ![s] = io.out[s] \o x]
        BY <2>6, <3>1 DEF SendsMore
      <3>3. calls' = <<>>  BY <2>6, <3>1 DEF SendsMore
      <3>4. /\ s[1] \in Conn /\ Other(s) \in Sock /\ Other(Other(s)) = s
            /\ Other(s)[1] = s[1] /\ s \in Ends(s[1])
            /\ \A t \in Sock : Other(t) = s <=> t = Other(s)
        BY <2>2, OtherEnd
      <3>5. tun[s[1]] # "deleted"
        <4>1. TunOK(s[1]) /\ (s = Src(s[1]) \/ s = Dest(s[1]))
          BY <2>2, <3>4, EndsOfConn DEF TunInv, ConnOK
        <4> QED BY <2>2, <4>1 DEF TunOK
      <3> DEFINE p == Other(s)
                 n == sent[p]
                 a == io.out[s]
                 b == a \o x
      <3>6. io.out \in [Sock -> Seq(Unit)] /\ a \in Seq(Unit) /\ n \in Nat /\ p \in Sock
        BY <1>0, <2>2, <3>4 DEF IoType, TunInv, TunType
      <3>7. io'.out[s] = b /\ \A t \in Sock : t # s => io'.out[t] = io.out[t]
        BY <2>2, <3>2, <3>6
      <3>8. Len(a) \in Nat /\ b \in Seq(Unit) /\ Len(a) <= Len(b)
        BY <3>6, ConcatProperties, LenProperties
      <3>9. Len(b) \in 0..n /\ b = SubSeq(Numbers(n), 1, Len(b))
        <4>1. Transit(s)'
          BY <3>4 DEF TunInv, ConnOK
        <4>2. ~ FailingIn(calls', s[1]) /\ HandOf(calls', s) = <<>>
          BY <3>3, <3>4, NothingDue DEF Uninvolved
        <4>3. Whole(io', calls', s) = Numbers(n)
          BY <1>0, <3>5, <4>1, <4>2 DEF Transit
        <4>4. /\ io'.buf[s] \in Seq(Unit) /\ io'.inq[p] \in Seq(Unit)
          <5>1. IoType(io')  BY DEF TunInv, IoInv
          <5> QED BY <2>2, <3>6, <5>1 DEF IoType
        <4>5. PICK y, q : y = io'.buf[s] /\ q = io'.inq[p]  OBVIOUS
        <4>6. ((b \o y) \o <<>>) \o q = Numbers(n)
          BY <3>7, <4>2, <4>3, <4>5 DEF Whole, Chain
        <4> HIDE DEF a, b, n, p
        <4>7. b \o (y \o q) = Numbers(n) /\ y \o q \in Seq(Unit)
          <5>1. b \in Seq(Unit) /\ y \in Seq(Unit) /\ q \in Seq(Unit)
            BY <3>8, <4>4, <4>5
          <5>2. b \o y \in Seq(Unit) /\ y \o q \in Seq(Unit)
            BY <5>1, ConcatProperties
          <5>3. (b \o y) \o <<>> = b \o y  BY <5>2, ConcatEmptySeq
          <5>4. (b \o y) \o q = b \o (y \o q)  BY <5>1, ConcatAssociative
          <5> QED BY <4>6, <5>2, <5>3, <5>4
        <4> QED BY <3>6, <3>8, <4>7, PrefixOfNumbers
      <3> DEFINE put == [t \in Sock |-> [i \in 1..sent[t] |-> i]]
                 taken == [t \in Sock |-> io.out[Other(t)]]
                 closed == {t \in Sock : tun[t[1]] = "deleted"}
      <3>10. p \notin closed  BY <3>4, <3>5
      <3>11. put[p] = Numbers(n) /\ Len(put[p]) = n
        BY <3>6, NumbersGrow DEF Numbers
      <3>12. taken[p] = a  BY <3>4, <3>6
      <3>13. [t \in Sock |-> io'.out[Other(t)]] = [taken EXCEPT ![p] = SubSeq(put[p], 1, Len(b))]
        <4>1. \A t \in Sock : Other(t) \in Sock  BY OtherEnd
        <4>2. \A t \in Sock : io'.out[Other(t)] = IF t = p THEN b ELSE taken[t]
          BY <3>4, <3>7, <4>1
        <4>3. b = SubSeq(put[p], 1, Len(b))  BY <3>9, <3>11
        <4> HIDE DEF b, p, taken, put
        <4>4. DOMAIN taken = Sock  BY DEF taken
        <4> QED BY <4>2, <4>3, <4>4
      <3>14. Len(b) \in Len(taken[p])..Len(put[p])
        BY <3>6, <3>8, <3>9, <3>11, <3>12
      <3>15. Relay!Take(p)
        BY <1>0, <3>10, <3>13, <3>14 DEF Relay!Take
      <3> QED BY <3>6, <3>15 DEF Relay!Next
    <2> QED BY <2>7, <2>8
  <1> QED BY <1>2, <1>3

\* What two deletions leave.
LEMMA DeleteBothQuiet ==
  ASSUME NEW c, IoType(io), io' = Delete(Delete(io, Src(c)), Dest(c))
  PROVE  io'.out = io.out
  <1>1. KeepsOut(io, io)  BY DEF KeepsOut, IoType
  <1>2. PICK w : w = Delete(io, Src(c))  OBVIOUS
  <1>3. KeepsOut(w, io)  BY <1>1, <1>2, MethodsKeepOut
  <1>4. KeepsOut(Delete(w, Dest(c)), io)  BY <1>3, MethodsKeepOut
  <1> QED BY <1>2, <1>4 DEF KeepsOut

\* Connections that are accepted and looked up.
LEMMA OpensQuiet ==
  ASSUME TunInv, NEW c \in Conn, Accept(c) \/ Resolved(c)
  PROVE  Quiet
  <1>0. IoType(io) /\ DOMAIN tun = Conn /\ sent' = sent
    BY IoFacts DEF TunInv, TunType, Accept, Resolved
  <1>1. KeepsOut(io, io)  BY <1>0 DEF KeepsOut, IoType
  <1>2. CASE Accept(c)
    <2>1. PICK conn : conn = "up"  OBVIOUS
    <2>2. PICK w : w = New(io, Src(c), conn)  OBVIOUS
    <2>3. KeepsOut(w, io)  BY <1>1, <2>2, MethodsKeepOut
    <2>4. /\ io' = w \/ io' = io
          /\ tun[c] = "new" /\ \A d \in Conn : d # c => tun'[d] = tun[d]
      BY <1>0, <1>2, <2>1, <2>2 DEF Accept
    <2> QED BY <1>0, <2>3, <2>4 DEF Quiet, KeepsOut
  <1>3. CASE Resolved(c)
    <2>1. PICK conn : conn = "none"  OBVIOUS
    <2>2. PICK w, o : o = Dest(c) /\ w = New(io, o, conn)  OBVIOUS
    <2>3. KeepsOut(w, io)  BY <1>1, <2>2, MethodsKeepOut
    <2>4. CASE DeleteBoth(c)
      <3>1. io'.out = io.out  BY <1>0, <2>4, DeleteBothQuiet DEF DeleteBoth
      <3>2. tun' = [tun EXCEPT ![c] = "deleted"]  BY <2>4 DEF DeleteBoth
      <3> QED BY <1>0, <3>1, <3>2 DEF Quiet
    <2>5. CASE Result(o, AsyncConnect(w, o), <<>>) /\ tun[c] = "RESOLVING"
               /\ tun' = [tun EXCEPT ![c] = "CONNECTING"]
      <3>1. PICK m \in AsyncConnect(w, o) : io' = m.w  BY <2>5 DEF Result
      <3>2. KeepsOut(m.w, io)  BY <2>3, <3>1, MethodsKeepOut
      <3> QED BY <1>0, <2>5, <3>1, <3>2 DEF Quiet, KeepsOut
    <2>6. CASE io' = io /\ tun' = tun
      BY <1>0, <2>6 DEF Quiet
    <2> QED BY <1>3, <2>1, <2>2, <2>4, <2>5, <2>6 DEF Resolved
  <1> QED BY <1>2, <1>3

\* What a callback does.
LEMMA CallbackQuiet ==
  ASSUME TunInv, Callback
  PROVE  Quiet
  <1>0. IoType(io) /\ DOMAIN tun = Conn /\ sent' = sent /\ status = "up" /\ calls # <<>>
    BY IoFacts DEF TunInv, TunType, Callback
  <1>1. KeepsOut(io, io)  BY <1>0 DEF KeepsOut, IoType
  <1>2. CASE Connected
    <2>1. PICK s \in Sock : Top[2] = s /\ tun[s[1]] = "CONNECTING"
      <3>. PICK s \in Sock : \E e, r : Pending(calls, e, s, r) /\ Finds(s, e) /\ Top = e
                                   /\ (e = RecvCall(s)
                                       \/ \E reason : \E data \in Nat : e = Event(s, reason, data))
        BY <1>0, TopFacts
      <3>1. PICK e, r : Pending(calls, e, s, r) /\ Finds(s, e) /\ Top = e
                        /\ (e = RecvCall(s)
                            \/ \E reason : \E data \in Nat : e = Event(s, reason, data))
        OBVIOUS
      <3>2. Top[1] = "event" /\ Top[3] = "CONNECTED"  BY <1>2 DEF Connected
      <3>3. e # RecvCall(s)  BY <3>1, <3>2 DEF RecvCall
      <3>4. PICK reason : \E data \in Nat : e = Event(s, reason, data)  BY <3>1, <3>3
      <3>5. PICK data \in Nat : e = Event(s, reason, data)  BY <3>4
      <3>6. e[2] = s /\ e[3] = reason  BY <3>5 DEF Event
      <3>7. reason = "CONNECTED"  BY <3>1, <3>2, <3>6
      <3>8. tun[s[1]] = "CONNECTING"  BY <3>1, <3>3, <3>6, <3>7 DEF Finds, Event
      <3> QED BY <3>1, <3>6, <3>8
    <2>2. io' = io /\ tun' = [tun EXCEPT ![s[1]] = "FORWARDING"]
      BY <1>2, <2>1 DEF Connected
    <2> QED BY <1>0, <2>1, <2>2 DEF Quiet
  <1>3. CASE Close
    <2>1. PICK c : c = Top[2][1] /\ DeleteBoth(c)  BY <1>3 DEF Close
    <2>2. io'.out = io.out  BY <1>0, <2>1, DeleteBothQuiet DEF DeleteBoth
    <2>3. tun' = [tun EXCEPT ![c] = "deleted"]  BY <2>1 DEF DeleteBoth
    <2> QED BY <1>0, <2>2, <2>3 DEF Quiet
  <1>4. CASE Forward
    <2>1. PICK s, unit : s = Other(Top[2]) /\ unit = Top[4]  OBVIOUS
    <2>2. KeepsOut(AsyncSend(io, s, unit), io)  BY <1>1, MethodsKeepOut
    <2>3. tun' = tun /\ (io' = io \/ io' = AsyncSend(io, s, unit))
      BY <1>4, <2>1 DEF Forward
    <2> QED BY <1>0, <2>2, <2>3 DEF Quiet, KeepsOut
  <1>5. CASE Recv
    <2>1. PICK s, sig : s = Top[2] /\ sig = (signals > 0)  OBVIOUS
    <2>2. tun' = tun /\ (io' = io \/ Result(s, AsyncRecv(io, s, sig), Rest))
      BY <1>5, <2>1 DEF Recv
    <2>3. CASE Result(s, AsyncRecv(io, s, sig), Rest)
      <3>1. PICK m \in AsyncRecv(io, s, sig) : io' = m.w  BY <2>3 DEF Result
      <3>2. KeepsOut(m.w, io)  BY <1>1, <3>1, ReadsKeepOut
      <3> QED BY <1>0, <2>2, <3>1, <3>2 DEF Quiet, KeepsOut
    <2> QED BY <1>0, <2>2, <2>3 DEF Quiet
  <1> QED BY <1>2, <1>3, <1>4, <1>5 DEF Callback

\* The rest of the main loop, and what happens around it.
LEMMA OthersQuiet ==
  ASSUME TunInv, WaitEvents \/ CheckTimeouts \/ ReloadCfg \/ Cleanup \/ LateAnswer
                 \/ (\E s \in Sock : PeerActs(s)) \/ UNCHANGED vars
  PROVE  Quiet
  <1>0. IoType(io) /\ DOMAIN tun = Conn  BY IoFacts DEF TunInv, TunType
  <1>1. KeepsOut(io, io)  BY <1>0 DEF KeepsOut, IoType
  <1>2. CASE WaitEvents \/ ReloadCfg \/ LateAnswer \/ UNCHANGED vars
    BY <1>2 DEF WaitEvents, ReloadCfg, LateAnswer, vars, Quiet
  <1>3. CASE CheckTimeouts
    <2>1. PICK s \in io.timer : Result(s, HandleTimeout(io, s), <<>>)
      BY <1>3 DEF CheckTimeouts
    <2>2. PICK m \in HandleTimeout(io, s) : io' = m.w  BY <2>1 DEF Result
    <2>3. KeepsOut(m.w, io)  BY <1>1, <2>2, MethodsKeepOut
    <2> QED BY <1>3, <2>2, <2>3 DEF Quiet, KeepsOut, CheckTimeouts
  <1>4. CASE Cleanup
    <2>1. /\ io' = [NoSockets EXCEPT !.out = io.out] /\ sent' = sent
          /\ tun' = [c \in Conn |-> IF Src(c) \in io.alive THEN "deleted" ELSE tun[c]]
      BY <1>4 DEF Cleanup
    <2>2. io'.out = io.out  BY <2>1 DEF NoSockets
    <2> QED BY <2>1, <2>2 DEF Quiet
  <1>5. ASSUME NEW s \in Sock, PeerActs(s) PROVE Quiet
    <2>1. io'.out = io.out  BY <1>0, <1>5 DEF PeerActs, IoType, Fields
    <2> QED BY <1>5, <2>1 DEF PeerActs, Quiet
  <1> QED BY <1>2, <1>3, <1>4, <1>5

\* However handlers nest, descriptors are used again and connections fail, a tunnel is a
\* pair of pipes: what comes out is what was put in, in order and once, until both are
\* closed together.
THEOREM TunnelsArePipes == Spec => PipesSpec
  <1>1. Init => Relay!Init
    <2> SUFFICES ASSUME Init PROVE Relay!Init
      OBVIOUS
    <2>1. \A s \in Sock : /\ io.out[Other(s)] = <<>> /\ [i \in 1..sent[s] |-> i] = <<>>
                          /\ tun[s[1]] = "new"
      <3> TAKE s \in Sock
      <3>1. Other(s) \in Sock /\ s[1] \in Conn  BY OtherEnd
      <3>2. io.out = [t \in Sock |-> <<>>]  BY DEF Init, NoSockets
      <3>3. sent[s] = 0 /\ 0 \in Nat  BY DEF Init
      <3>4. Numbers(sent[s]) = <<>>  BY <3>3, NumbersGrow
      <3> QED BY <3>1, <3>2, <3>4 DEF Init, Numbers
    <2> QED BY <2>1 DEF Relay!Init
  <1>2. TunInv /\ TunInv' /\ [Next]_vars => [Relay!Next]_(Relay!pipeVars)
    <2> SUFFICES ASSUME TunInv, TunInv', [Next]_vars PROVE Relay!Next
      OBVIOUS
    <2>1. ASSUME NEW s \in Sock, Sends(s) PROVE Relay!Next  BY <2>1, SendsPuts
    <2>2. CASE Dispatch  BY <2>2, DispatchTakes
    <2>3. ASSUME NEW c \in Conn, Accept(c) \/ Resolved(c) PROVE Relay!Next
      BY <2>3, OpensQuiet, QuietCloses
    <2>4. CASE Callback  BY <2>4, CallbackQuiet, QuietCloses
    <2>5. CASE WaitEvents \/ CheckTimeouts \/ ReloadCfg \/ Cleanup \/ LateAnswer
               \/ (\E s \in Sock : PeerActs(s)) \/ UNCHANGED vars
      BY <2>5, OthersQuiet, QuietCloses
    <2> QED BY <2>1, <2>2, <2>3, <2>4, <2>5 DEF Next, Daemon
  <1> QED BY <1>1, <1>2, TunInvHolds, PTL DEF Spec, PipesSpec, Relay!Spec
=============================================================================
