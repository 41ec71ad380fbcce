--------------------------- MODULE ProcPoolProofs ---------------------------
(***************************************************************************)
(* Theorems about ProcPool, for any numbers of children and of             *)
(* connections, whichever children crash.                                  *)
(***************************************************************************)
EXTENDS ProcPool, FiniteSetTheorems, TLAPS

(***************************************************************************)
(* The inductive invariant.                                                *)
(***************************************************************************)

\* The daemon's list of children.  Every process that is alive is in it and is RUNNING.
KidsInv ==
  /\ \A i, j \in DOMAIN kids : kids[i] = kids[j] => i = j
  /\ Len(kids) <= IF MinChildren > MaxChildren THEN MinChildren ELSE MaxChildren
  /\ \A i \in DOMAIN kids : proc[kids[i]] # "unborn"
  /\ running \subseteq Kids
  /\ \A c \in Child : proc[c] \in Alive => c \in running

\* Between the daemon and a child there is at most one of: a connection sent, a
\* connection served, an "idle" message; and while there is one, the child is BUSY.
OneTokenEach ==
  \A c \in Child :
    /\ user[c] # None <=> proc[c] = "serving"
    /\ inbox[c] # <<>> => user[c] = None /\ outbox[c] = 0 /\ proc[c] # "unborn"
    /\ user[c] # None => outbox[c] = 0
    /\ outbox[c] # 0 => proc[c] # "unborn"
    /\ c \notin busy => inbox[c] = <<>> /\ user[c] = None /\ outbox[c] = 0

\* A connection is sent once.  Who has it and is alive has it open, and an open one is
\* with somebody who is alive.
ConnInv ==
  /\ \A c, d \in Child, s \in Conn : HasConn(c, s) /\ HasConn(d, s) => c = d
  /\ \A c \in Child, s \in Conn : HasConn(c, s) => conn[s] # "new"
  /\ \A c \in Child, s \in Conn : HasConn(c, s) /\ proc[c] \in Alive => conn[s] = "open"
  /\ \A s \in Conn : conn[s] = "open" => \E c \in Child : proc[c] \in Alive /\ HasConn(c, s)

\* A descriptor that fork() copied is closed when the connection is received.
InheritedInv ==
  \A c \in Child :
    inherited[c] # None =>
      /\ proc[c] \in Alive
      /\ inbox[c] = <<<<inherited[c], inherited[c]>>>>

PoolInv == TypeOK /\ KidsInv /\ OneTokenEach /\ ConnInv /\ InheritedInv

(***************************************************************************)
(* The list of children, and what is sent to a child.                      *)
(***************************************************************************)

\* ProcessGroup::Flush(): the list of children without the i-th.
LEMMA WithoutIs ==
  ASSUME NEW S, NEW s \in Seq(S), NEW i \in DOMAIN s
  PROVE  /\ Without(s, i) \in Seq(S)
         /\ Len(Without(s, i)) = Len(s) - 1
         /\ \A j \in DOMAIN Without(s, i) : \E k \in DOMAIN s : k # i /\ Without(s, i)[j] = s[k]
         /\ \A k \in DOMAIN s : k # i => \E j \in DOMAIN Without(s, i) : Without(s, i)[j] = s[k]
         /\ (\A j, k \in DOMAIN s : s[j] = s[k] => j = k)
              => \A j, k \in DOMAIN Without(s, i) : Without(s, i)[j] = Without(s, i)[k] => j = k
<1> DEFINE a == SubSeq(s, 1, i - 1)
           b == SubSeq(s, i + 1, Len(s))
           t == Without(s, i)
           Old(j) == IF j < i THEN j ELSE j + 1
<1>1. i \in 1..Len(s) /\ Len(s) \in Nat /\ i \in Nat /\ DOMAIN s = 1..Len(s)
  OBVIOUS
<1>2. a \in Seq(S) /\ Len(a) = i - 1
  BY <1>1
<1>3. b \in Seq(S) /\ Len(b) = Len(s) - i
  BY <1>1
<1>4. \A j \in 1..(i - 1) : a[j] = s[j]
  BY <1>1
<1>5. \A j \in 1..(Len(s) - i) : b[j] = s[i + j]
  BY <1>1
<1>6. t = a \o b
  BY DEF Without
<1> HIDE DEF a, b, t
<1>7. t \in Seq(S) /\ Len(t) = Len(s) - 1 /\ DOMAIN t = 1..(Len(s) - 1)
  <2>1. a \o b \in Seq(S) /\ Len(a \o b) = Len(a) + Len(b)
    BY <1>2, <1>3 DEF a, b
  <2>2. Len(t) = Len(s) - 1
    BY <1>1, <1>2, <1>3, <1>6, <2>1
  <2>3. QED
    BY <1>6, <2>1, <2>2
<1>8. \A j \in 1..(Len(a) + Len(b)) : t[j] = IF j <= Len(a) THEN a[j] ELSE b[j - Len(a)]
  <2>1. \A j \in 1..(Len(a) + Len(b)) :
          (a \o b)[j] = IF j <= Len(a) THEN a[j] ELSE b[j - Len(a)]
    BY <1>2, <1>3, SMTT(30) DEF a, b
  <2>2. QED
    BY <1>6, <2>1
<1>9. ASSUME NEW j \in 1..(Len(s) - 1)
      PROVE  t[j] = s[Old(j)] /\ Old(j) \in DOMAIN s /\ Old(j) # i
  <2>1. CASE j < i
    <3>1. j \in 1..(Len(a) + Len(b)) /\ j <= Len(a) /\ j \in 1..(i - 1)
      BY <1>1, <1>2, <1>3, <2>1
    <3>2. QED
      BY <1>1, <1>4, <1>8, <2>1, <3>1
  <2>2. CASE ~(j < i)
    <3>1. /\ j - (i - 1) \in 1..(Len(s) - i) /\ i + (j - (i - 1)) = j + 1
          /\ j \in 1..(Len(a) + Len(b)) /\ ~(j <= Len(a)) /\ j + 1 \in 1..Len(s)
      BY <1>1, <1>2, <1>3, <2>2
    <3>2. t[j] = b[j - (i - 1)]
      BY <1>2, <1>8, <3>1
    <3>3. b[j - (i - 1)] = s[j + 1]
      BY <1>5, <3>1
    <3>4. j + 1 # i
      BY <1>1, <2>2
    <3>5. QED
      BY <1>1, <2>2, <3>1, <3>2, <3>3, <3>4
  <2>3. QED
    BY <2>1, <2>2
<1>10. \A j, k \in 1..(Len(s) - 1) : Old(j) = Old(k) => j = k
  BY <1>1
<1>11. ASSUME NEW k \in DOMAIN s, k # i
       PROVE  \E j \in 1..(Len(s) - 1) : Old(j) = k
  <2>1. CASE k < i
    BY <1>1, <2>1
  <2>2. CASE k > i
    <3>1. k - 1 \in 1..(Len(s) - 1) /\ ~(k - 1 < i) /\ (k - 1) + 1 = k
      BY <1>1, <2>2
    <3>2. QED
      BY <3>1
  <2>3. QED
    BY <1>1, <1>11, <2>1, <2>2
<1> HIDE DEF Old
<1>12. \A j \in DOMAIN t : \E k \in DOMAIN s : k # i /\ t[j] = s[k]
  BY <1>7, <1>9
<1>13. \A k \in DOMAIN s : k # i => \E j \in DOMAIN t : t[j] = s[k]
  BY <1>7, <1>9, <1>11
<1>14. ASSUME \A j, k \in DOMAIN s : s[j] = s[k] => j = k,
              NEW j \in DOMAIN t, NEW k \in DOMAIN t, t[j] = t[k]
       PROVE  j = k
  <2>1. Old(j) = Old(k)
    BY <1>7, <1>9, <1>14
  <2>2. QED
    BY <1>7, <1>10, <2>1
<1>15. QED
  BY <1>7, <1>12, <1>13, <1>14 DEF t

\* What is sent to a child and not received is one message at most.
LEMMA InboxIs ==
  ASSUME TypeOK, NEW c \in Child
  PROVE  /\ inbox[c] # <<>> =>
              /\ Head(inbox[c]) \in Conn \X (Conn \cup {None})
              /\ inbox[c] = <<Head(inbox[c])>>
              /\ Tail(inbox[c]) = <<>>
         /\ \A s : HasConn(c, s) <=>
              user[c] = s \/ (inbox[c] # <<>> /\ Head(inbox[c])[1] = s)
<1>1. CASE inbox[c] = <<>>
  BY <1>1 DEF HasConn
<1>2. CASE inbox[c] # <<>>
  <2>1. PICK m \in Conn \X (Conn \cup {None}) : inbox[c] = <<m>>
    BY <1>2 DEF TypeOK
  <2>2. Head(<<m>>) = m /\ Tail(<<m>>) = <<>> /\ DOMAIN <<m>> = {1} /\ <<m>>[1] = m
    OBVIOUS
  <2>3. QED
    BY <1>2, <2>1, <2>2 DEF HasConn
<1>3. QED
  BY <1>1, <1>2

(***************************************************************************)
(* The steps, by what they do.                                             *)
(***************************************************************************)

\* What the rest of the invariant says, when only processes that are alive and serve
\* nobody become others of that sort.
LEMMA AliveKeeps ==
  ASSUME PoolInv,
         module' \in {"loading", "up", "quitting", "gone"},
         listening' \in BOOLEAN,
         UNCHANGED <<kids, running, busy, recving, conn, up, inbox, user, inherited, outbox>>,
         proc' \in [Child -> Alive \cup {"unborn", "dead"}],
         \A c \in Child : \/ proc'[c] = proc[c]
                          \/ {proc[c], proc'[c]} \subseteq Alive \ {"serving"}
  PROVE  PoolInv'
<1>1. /\ "unborn" \notin Alive /\ "dead" \notin Alive /\ "serving" \in Alive
      /\ \A c \in Child : proc'[c] \in Alive <=> proc[c] \in Alive
      /\ \A c \in Child : proc'[c] = "serving" <=> proc[c] = "serving"
      /\ \A c \in Child : proc'[c] = "unborn" <=> proc[c] = "unborn"
  BY DEF Alive
<1>2. \A c \in Child, s \in Conn : HasConn(c, s)' <=> HasConn(c, s)
  BY DEF HasConn, PoolInv
<1>3. TypeOK'
  BY DEF PoolInv, TypeOK
<1>4. KidsInv'
  <2>1. \A i \in DOMAIN kids : kids[i] \in Child
    BY DEF PoolInv, TypeOK
  <2>2. QED
    BY <1>1, <2>1 DEF PoolInv, KidsInv, Kids
<1>5. OneTokenEach'
  BY <1>1 DEF PoolInv, OneTokenEach
<1>6. ConnInv'
  BY <1>1, <1>2 DEF PoolInv, ConnInv
<1>7. InheritedInv'
  BY <1>1 DEF PoolInv, InheritedInv
<1>8. QED
  BY <1>3, <1>4, <1>5, <1>6, <1>7 DEF PoolInv

\* SIGHUP.
LEMMA HangUpKeeps ==
  ASSUME PoolInv, HangUp,
         module' \in {"loading", "up", "quitting", "gone"},
         listening' \in BOOLEAN,
         UNCHANGED <<kids, running, busy, recving, conn, up, inbox, user, inherited, outbox>>
  PROVE  PoolInv'
<1>1. /\ proc' \in [Child -> Alive \cup {"unborn", "dead"}]
      /\ \A c \in Child : \/ proc'[c] = proc[c]
                          \/ {proc[c], proc'[c]} \subseteq Alive \ {"serving"}
  BY DEF HangUp, PoolInv, TypeOK, Alive
<1>2. QED
  BY <1>1, AliveKeeps

\* The end of processes: what they had is lost, and no other process had it.
LEMMA BuryKeeps ==
  ASSUME PoolInv, NEW S \in SUBSET Child, Bury(S), UNCHANGED <<busy, inbox, outbox>>
  PROVE  /\ proc' \in [Child -> Alive \cup {"unborn", "dead"}]
         /\ user' \in [Child -> Conn \cup {None}]
         /\ inherited' \in [Child -> Conn \cup {None}]
         /\ conn' \in [Conn -> {"new", "open", "served", "refused", "lost"}]
         /\ OneTokenEach' /\ ConnInv' /\ InheritedInv'
<1>1. /\ proc' \in [Child -> Alive \cup {"unborn", "dead"}]
      /\ user' \in [Child -> Conn \cup {None}]
      /\ inherited' \in [Child -> Conn \cup {None}]
      /\ conn' \in [Conn -> {"new", "open", "served", "refused", "lost"}]
  BY DEF Bury, PoolInv, TypeOK
<1>2. "unborn" \notin Alive /\ "dead" \notin Alive /\ "serving" \in Alive
  BY DEF Alive
<1>3. \A c \in Child :
        IF c \in S THEN proc'[c] = "dead" /\ user'[c] = None /\ inherited'[c] = None
        ELSE proc'[c] = proc[c] /\ user'[c] = user[c] /\ inherited'[c] = inherited[c]
  BY DEF Bury
<1>4. OneTokenEach'
  BY <1>2, <1>3 DEF PoolInv, OneTokenEach
<1>5. InheritedInv'
  BY <1>2, <1>3 DEF PoolInv, InheritedInv
<1>6. None \notin Conn
  BY ProcPoolAssumption
<1>7. \A c \in Child, s \in Conn : HasConn(c, s)' => HasConn(c, s)
  BY <1>3, <1>6 DEF HasConn
<1>8. \A c \in Child \ S, s \in Conn : HasConn(c, s)' <=> HasConn(c, s)
  BY <1>3 DEF HasConn
<1>9. \A s \in Conn : s \in HeldBy(S) <=> \E c \in S : HasConn(c, s)
  BY DEF HeldBy, HasConn
<1>10. \A s \in Conn : conn'[s] = IF s \in HeldBy(S) /\ conn[s] = "open" THEN "lost" ELSE conn[s]
  BY DEF Bury
<1>11. ConnInv'
  <2>1. \A c, d \in Child, s \in Conn : HasConn(c, s)' /\ HasConn(d, s)' => c = d
    BY <1>7 DEF PoolInv, ConnInv
  <2>2. \A c \in Child, s \in Conn : HasConn(c, s)' => conn'[s] # "new"
    BY <1>7, <1>10 DEF PoolInv, ConnInv
  <2>3. ASSUME NEW c \in Child, NEW s \in Conn, HasConn(c, s)', proc'[c] \in Alive
        PROVE  conn'[s] = "open"
    <3>1. c \notin S /\ HasConn(c, s) /\ conn[s] = "open"
      BY <1>2, <1>3, <1>7, <2>3 DEF PoolInv, ConnInv
    <3>2. s \notin HeldBy(S)
      BY <1>9, <3>1 DEF PoolInv, ConnInv
    <3>3. QED
      BY <1>10, <3>1, <3>2
  <2>4. ASSUME NEW s \in Conn, conn'[s] = "open"
        PROVE  \E c \in Child : proc'[c] \in Alive /\ HasConn(c, s)'
    <3>1. conn[s] = "open" /\ s \notin HeldBy(S)
      BY <1>10, <2>4
    <3>2. PICK c \in Child : proc[c] \in Alive /\ HasConn(c, s)
      BY <3>1 DEF PoolInv, ConnInv
    <3>3. c \notin S
      BY <1>9, <3>1, <3>2
    <3>4. QED
      BY <1>3, <1>8, <3>2, <3>3
  <2>5. QED
    BY <2>1, <2>2, <2>3, <2>4 DEF ConnInv
<1>12. QED
  BY <1>1, <1>4, <1>5, <1>11

\* fork(): the new process is in the list of children, and has nothing yet.
LEMMA SpawnKeeps ==
  ASSUME PoolInv, NEW s \in Conn \cup {None}, Spawn(s), NEW max \in Nat, Len(kids) < max,
         max <= IF MinChildren > MaxChildren THEN MinChildren ELSE MaxChildren
  PROVE  /\ NextPid \in Child /\ proc[NextPid] = "unborn"
         /\ inbox[NextPid] = <<>> /\ user[NextPid] = None /\ outbox[NextPid] = 0
         /\ kids' \in Seq(Child) /\ running' \in SUBSET Child
         /\ proc' \in [Child -> Alive \cup {"unborn", "dead"}]
         /\ inherited' \in [Child -> Conn \cup {None}]
         /\ KidsInv'
<1> DEFINE p == NextPid
<1>1. p \in Child /\ proc[p] = "unborn"
  <2>1. Unborn # {}
    BY DEF Spawn
  <2>2. NextPid \in Unborn
    BY <2>1 DEF NextPid
  <2>3. QED
    BY <2>2 DEF Unborn
<1>2. "unborn" \notin Alive /\ "forked" \in Alive /\ "forked" # "unborn"
  BY DEF Alive
<1>3. inbox[p] = <<>> /\ user[p] = None /\ outbox[p] = 0
  BY <1>1 DEF PoolInv, OneTokenEach
<1> HIDE DEF p
<1>4. /\ kids' = Append(kids, p) /\ running' = running \cup {p}
      /\ proc' = [proc EXCEPT ![p] = "forked"]
      /\ inherited' = [inherited EXCEPT ![p] = s]
  BY DEF Spawn, p
<1>5. kids \in Seq(Child) /\ Len(kids) \in Nat
  BY DEF PoolInv, TypeOK
<1>6. /\ kids' \in Seq(Child) /\ Len(kids') = Len(kids) + 1
      /\ DOMAIN kids = 1..Len(kids)
      /\ DOMAIN kids' = 1..(Len(kids) + 1)
      /\ kids'[Len(kids) + 1] = p
      /\ \A i \in 1..Len(kids) : kids'[i] = kids[i] /\ kids[i] \in Child
  BY <1>1, <1>4, <1>5
<1>7. /\ proc'[p] = "forked"
      /\ \A c \in Child : c # p => proc'[c] = proc[c]
      /\ running' \in SUBSET Child
      /\ proc' \in [Child -> Alive \cup {"unborn", "dead"}]
      /\ inherited' \in [Child -> Conn \cup {None}]
  BY <1>1, <1>2, <1>4 DEF PoolInv, TypeOK
<1>8. \A i \in 1..Len(kids) : kids[i] # p
  BY <1>1, <1>6 DEF PoolInv, KidsInv
<1>9. \A i, j \in DOMAIN kids' : kids'[i] = kids'[j] => i = j
  <2>1. \A i, j \in 1..Len(kids) : kids[i] = kids[j] => i = j
    BY <1>6 DEF PoolInv, KidsInv
  <2>2. \A i \in DOMAIN kids' : i \in 1..Len(kids) \/ i = Len(kids) + 1
    BY <1>5, <1>6
  <2>3. QED
    BY <1>6, <1>8, <2>1, <2>2
<1>10. Len(kids') <= IF MinChildren > MaxChildren THEN MinChildren ELSE MaxChildren
  BY <1>5, <1>6, ProcPoolAssumption
<1>11. \A i \in DOMAIN kids' : proc'[kids'[i]] # "unborn"
  <2>1. \A i \in 1..Len(kids) : proc[kids[i]] # "unborn"
    BY <1>6 DEF PoolInv, KidsInv
  <2>2. \A i \in DOMAIN kids' : i \in 1..Len(kids) \/ i = Len(kids) + 1
    BY <1>5, <1>6
  <2>3. QED
    BY <1>2, <1>6, <1>7, <1>8, <2>1, <2>2
<1>12. running' \subseteq Kids'
  <2>1. Kids' = Kids \cup {p}
    <3>1. \A i \in DOMAIN kids' : i \in 1..Len(kids) \/ i = Len(kids) + 1
      BY <1>5, <1>6
    <3>2. \A i \in 1..Len(kids) : i \in 1..(Len(kids) + 1)
      BY <1>5
    <3>3. Len(kids) + 1 \in DOMAIN kids'
      BY <1>5, <1>6
    <3>4. QED
      BY <1>6, <3>1, <3>2, <3>3 DEF Kids
  <2>2. QED
    BY <1>4, <2>1 DEF PoolInv, KidsInv
<1>13. \A c \in Child : proc'[c] \in Alive => c \in running'
  BY <1>4, <1>7 DEF PoolInv, KidsInv
<1>14. QED
  BY <1>1, <1>3, <1>6, <1>7, <1>9, <1>10, <1>11, <1>12, <1>13 DEF KidsInv, p

\* A connection is sent to a child that has none, and becomes open.
LEMMA ServeKeeps ==
  ASSUME PoolInv, NEW c \in Child, NEW s \in Conn, NEW num \in Conn \cup {None},
         Serve(c, s, num), conn[s] = "new", num \in {None, s},
         inbox[c] = <<>>, user[c] = None, outbox[c] = 0,
         proc'[c] \in Alive \ {"serving"},
         \A d \in Child : d # c => proc'[d] = proc[d],
         inherited' = [inherited EXCEPT ![c] = num],
         UNCHANGED <<user, outbox>>
  PROVE  /\ busy' \in SUBSET Child /\ recving' \in SUBSET Child
         /\ inbox' \in [Child -> {<<>>} \cup {<<m>> : m \in Conn \X (Conn \cup {None})}]
         /\ conn' \in [Conn -> {"new", "open", "served", "refused", "lost"}]
         /\ OneTokenEach' /\ ConnInv' /\ InheritedInv'
<1> DEFINE m == <<s, num>>
<1>1. Append(<<>>, m) = <<m>> /\ m \in Conn \X (Conn \cup {None}) /\ <<m>> # <<>>
  OBVIOUS
<1>2. /\ inbox'[c] = <<m>>
      /\ \A d \in Child : d # c => inbox'[d] = inbox[d]
      /\ inbox' \in [Child -> {<<>>} \cup {<<n>> : n \in Conn \X (Conn \cup {None})}]
  BY <1>1 DEF Serve, PoolInv, TypeOK
<1>3. /\ busy' = busy \cup {c} /\ busy' \in SUBSET Child /\ recving' \in SUBSET Child
      /\ conn'[s] = "open" /\ \A t \in Conn : t # s => conn'[t] = conn[t]
      /\ conn' \in [Conn -> {"new", "open", "served", "refused", "lost"}]
  BY DEF Serve, PoolInv, TypeOK
<1>4. "unborn" \notin Alive /\ proc'[c] # "unborn" /\ proc'[c] # "serving"
  BY DEF Alive
<1>5. OneTokenEach'
  BY <1>1, <1>2, <1>3, <1>4 DEF PoolInv, OneTokenEach
<1>6. InheritedInv'
  <2>1. inherited'[c] = num /\ \A d \in Child : d # c => inherited'[d] = inherited[d]
    BY DEF PoolInv, TypeOK
  <2>2. QED
    BY <1>2, <2>1 DEF PoolInv, InheritedInv
<1>7. \A t \in Conn : ~HasConn(c, t)
  BY ProcPoolAssumption DEF HasConn
<1>8. ASSUME NEW d \in Child, NEW t \in Conn
      PROVE  HasConn(d, t)' <=> (d = c /\ t = s) \/ HasConn(d, t)
  <2>1. CASE d = c
    <3>1. DOMAIN <<m>> = {1} /\ <<m>>[1][1] = s
      OBVIOUS
    <3>2. QED
      BY <1>2, <1>7, <2>1, <3>1, ProcPoolAssumption DEF HasConn
  <2>2. CASE d # c
    BY <1>2, <2>2 DEF HasConn
  <2>3. QED
    BY <2>1, <2>2
<1>9. \A d \in Child : ~HasConn(d, s)
  BY DEF PoolInv, ConnInv
<1>10. ConnInv'
  <2>1. \A d, e \in Child, t \in Conn : HasConn(d, t)' /\ HasConn(e, t)' => d = e
    BY <1>8, <1>9 DEF PoolInv, ConnInv
  <2>2. \A d \in Child, t \in Conn : HasConn(d, t)' => conn'[t] # "new"
    BY <1>3, <1>8 DEF PoolInv, ConnInv
  <2>3. \A d \in Child, t \in Conn : HasConn(d, t)' /\ proc'[d] \in Alive => conn'[t] = "open"
    BY <1>3, <1>7, <1>8 DEF PoolInv, ConnInv
  <2>4. ASSUME NEW t \in Conn, conn'[t] = "open"
        PROVE  \E d \in Child : proc'[d] \in Alive /\ HasConn(d, t)'
    <3>1. CASE t = s
      BY <1>8, <3>1
    <3>2. CASE t # s
      <4>1. PICK d \in Child : proc[d] \in Alive /\ HasConn(d, t)
        BY <1>3, <2>4, <3>2 DEF PoolInv, ConnInv
      <4>2. d # c
        BY <1>7, <4>1
      <4>3. QED
        BY <1>8, <4>1, <4>2
    <3>3. QED
      BY <3>1, <3>2
  <2>5. QED
    BY <2>1, <2>2, <2>3, <2>4 DEF ConnInv
<1>11. QED
  BY <1>2, <1>3, <1>5, <1>6, <1>10

(***************************************************************************)
(* The actions.                                                            *)
(***************************************************************************)

\* A child is in the list; the daemon takes it for idle; then it has nothing.
LEMMA IdleIs ==
  ASSUME PoolInv, NEW i \in DOMAIN kids, Idle(kids[i])
  PROVE  /\ kids[i] \in Child /\ kids[i] \in Kids
         /\ inbox[kids[i]] = <<>> /\ user[kids[i]] = None /\ outbox[kids[i]] = 0
         /\ inherited[kids[i]] = None
         /\ proc[kids[i]] # "serving" /\ proc[kids[i]] # "unborn"
         /\ \A s \in Conn : ~HasConn(kids[i], s)
<1>1. kids[i] \in Child /\ kids[i] \in Kids
  BY DEF PoolInv, TypeOK, Kids
<1>2. inbox[kids[i]] = <<>> /\ user[kids[i]] = None /\ outbox[kids[i]] = 0
  BY <1>1 DEF Idle, PoolInv, OneTokenEach
<1>3. \A n : <<>> # <<n>>
  OBVIOUS
<1>4. inherited[kids[i]] = None
  BY <1>1, <1>2, <1>3 DEF PoolInv, InheritedInv
<1>5. proc[kids[i]] # "serving" /\ proc[kids[i]] # "unborn"
  BY <1>1, <1>2 DEF PoolInv, OneTokenEach, KidsInv
<1>6. \A s \in Conn : ~HasConn(kids[i], s)
  BY <1>2, ProcPoolAssumption DEF HasConn
<1>7. QED
  BY <1>1, <1>2, <1>4, <1>5, <1>6

\* Setup() forks the first children.
LEMMA FillKeeps == ASSUME PoolInv, Fill PROVE PoolInv'
<1> DEFINE p == NextPid
<1>1. /\ Spawn(None) /\ Len(kids) < MinChildren
      /\ UNCHANGED <<module, listening, busy, recving, up, inbox, user, outbox, conn>>
  BY DEF Fill
<1>2. /\ MinChildren \in Nat
      /\ MinChildren <= IF MinChildren > MaxChildren THEN MinChildren ELSE MaxChildren
  BY ProcPoolAssumption
<1>3. /\ p \in Child /\ proc[p] = "unborn"
      /\ inbox[p] = <<>> /\ user[p] = None /\ outbox[p] = 0
      /\ kids' \in Seq(Child) /\ running' \in SUBSET Child
      /\ proc' \in [Child -> Alive \cup {"unborn", "dead"}]
      /\ inherited' \in [Child -> Conn \cup {None}]
      /\ KidsInv'
  BY <1>1, <1>2, SpawnKeeps
<1> HIDE DEF p
<1>4. /\ proc' = [proc EXCEPT ![p] = "forked"]
      /\ inherited' = [inherited EXCEPT ![p] = None]
  BY <1>1 DEF Spawn, p
<1>5. /\ \A c \in Child : c # p => proc'[c] = proc[c] /\ inherited'[c] = inherited[c]
      /\ proc'[p] = "forked" /\ inherited'[p] = None
  BY <1>3, <1>4 DEF PoolInv, TypeOK
<1>6. TypeOK'
  BY <1>1, <1>3 DEF PoolInv, TypeOK
<1>7. OneTokenEach'
  BY <1>1, <1>3, <1>5 DEF PoolInv, OneTokenEach
<1>8. ConnInv'
  <2>1. \A c \in Child, s \in Conn : HasConn(c, s)' <=> HasConn(c, s)
    BY <1>1 DEF HasConn
  <2>2. \A s \in Conn : ~HasConn(p, s)
    BY <1>3, ProcPoolAssumption DEF HasConn
  <2>3. \A s \in Conn : conn'[s] = "open" => \E c \in Child : proc'[c] \in Alive /\ HasConn(c, s)'
    BY <1>1, <1>5, <2>1, <2>2 DEF PoolInv, ConnInv
  <2>4. QED
    BY <1>1, <1>5, <2>1, <2>2, <2>3 DEF PoolInv, ConnInv
<1>9. InheritedInv'
  BY <1>1, <1>5 DEF PoolInv, InheritedInv
<1>10. QED
  BY <1>3, <1>6, <1>7, <1>8, <1>9 DEF PoolInv

\* A connection that was not sent is over, or nothing has become of it.
LEMMA UnsentKeeps ==
  ASSUME PoolInv, NEW s \in Conn, conn[s] = "new", NEW end \in {"refused", "lost"},
         conn' = [conn EXCEPT ![s] = end],
         UNCHANGED <<proc, inbox, user, inherited>>
  PROVE  /\ conn' \in [Conn -> {"new", "open", "served", "refused", "lost"}]
         /\ ConnInv' /\ InheritedInv'
<1>1. /\ conn' \in [Conn -> {"new", "open", "served", "refused", "lost"}]
      /\ conn'[s] = end /\ \A t \in Conn : t # s => conn'[t] = conn[t]
  BY DEF PoolInv, TypeOK
<1>2. \A c \in Child, t \in Conn : HasConn(c, t)' <=> HasConn(c, t)
  BY DEF HasConn
<1>3. \A c \in Child : ~HasConn(c, s)
  BY DEF PoolInv, ConnInv
<1>4. ConnInv'
  BY <1>1, <1>2, <1>3 DEF PoolInv, ConnInv
<1>5. InheritedInv'
  BY DEF PoolInv, InheritedInv
<1>6. QED
  BY <1>1, <1>4, <1>5

\* ServeClient() hands a connection to a child, or drops it.
LEMMA AcceptKeeps == ASSUME PoolInv, NEW s \in Conn, Accept(s) PROVE PoolInv'
<1>1. conn[s] = "new" /\ UNCHANGED <<module, listening, user, outbox>>
  BY DEF Accept
<1>2. CASE ServeIdle(s)
  <2>1. PICK i \in DOMAIN kids : /\ Idle(kids[i])
                                 /\ proc[kids[i]] # "dead"
                                 /\ Serve(kids[i], s, None)
                                 /\ UNCHANGED <<kids, running, proc, inherited, up>>
    BY <1>2 DEF ServeIdle, FirstIdle
  <2> DEFINE c == kids[i]
  <2>2. /\ c \in Child
        /\ inbox[c] = <<>> /\ user[c] = None /\ outbox[c] = 0 /\ inherited[c] = None
        /\ proc[c] # "serving" /\ proc[c] # "unborn"
    BY <2>1, IdleIs
  <2> HIDE DEF c
  <2>3. proc'[c] \in Alive \ {"serving"} /\ inherited' = [inherited EXCEPT ![c] = None]
    BY <2>1, <2>2 DEF PoolInv, TypeOK, c
  <2>4. /\ busy' \in SUBSET Child /\ recving' \in SUBSET Child
        /\ inbox' \in [Child -> {<<>>} \cup {<<m>> : m \in Conn \X (Conn \cup {None})}]
        /\ conn' \in [Conn -> {"new", "open", "served", "refused", "lost"}]
        /\ OneTokenEach' /\ ConnInv' /\ InheritedInv'
    <3>1. Serve(c, s, None) /\ \A d \in Child : d # c => proc'[d] = proc[d]
      BY <2>1 DEF c
    <3>2. QED
      BY <1>1, <2>2, <2>3, <3>1, ServeKeeps
  <2>5. KidsInv'
    BY <2>1 DEF PoolInv, KidsInv, Kids
  <2>6. TypeOK'
    BY <1>1, <2>1, <2>4 DEF PoolInv, TypeOK
  <2>7. QED
    BY <2>4, <2>5, <2>6 DEF PoolInv
<1>3. CASE ServeDead(s)
  <2>1. PICK i \in DOMAIN kids : /\ proc[kids[i]] = "dead"
                                 /\ running' = running \ {kids[i]}
                                 /\ conn' = [conn EXCEPT ![s] = "lost"]
                                 /\ UNCHANGED <<kids, busy, recving, inbox, proc, inherited, up>>
    BY <1>3 DEF ServeDead
  <2>2. /\ conn' \in [Conn -> {"new", "open", "served", "refused", "lost"}]
        /\ ConnInv' /\ InheritedInv'
    BY <1>1, <2>1, UnsentKeeps
  <2>3. KidsInv'
    <3>1. "dead" \notin Alive
      BY DEF Alive
    <3>2. QED
      BY <2>1, <3>1 DEF PoolInv, KidsInv, Kids
  <2>4. TypeOK' /\ OneTokenEach'
    BY <1>1, <2>1, <2>2 DEF PoolInv, TypeOK, OneTokenEach
  <2>5. QED
    BY <2>2, <2>3, <2>4 DEF PoolInv
<1>4. CASE ServeForked(s)
  <2> DEFINE p == NextPid
  <2>1. /\ Spawn(s) /\ Serve(p, s, s) /\ Len(kids) < MaxChildren /\ up' = up
    BY <1>4 DEF ServeForked, ToClose, MayFork
  <2>2. /\ MaxChildren \in Nat
        /\ MaxChildren <= IF MinChildren > MaxChildren THEN MinChildren ELSE MaxChildren
    BY ProcPoolAssumption
  <2>3. /\ p \in Child /\ proc[p] = "unborn"
        /\ inbox[p] = <<>> /\ user[p] = None /\ outbox[p] = 0
        /\ kids' \in Seq(Child) /\ running' \in SUBSET Child
        /\ proc' \in [Child -> Alive \cup {"unborn", "dead"}]
        /\ inherited' \in [Child -> Conn \cup {None}]
        /\ KidsInv'
    BY <2>1, <2>2, SpawnKeeps
  <2> HIDE DEF p
  <2>4. /\ proc' = [proc EXCEPT ![p] = "forked"]
        /\ inherited' = [inherited EXCEPT ![p] = s]
    BY <2>1 DEF Spawn, p
  <2>5. proc'[p] \in Alive \ {"serving"} /\ \A d \in Child : d # p => proc'[d] = proc[d]
    BY <2>3, <2>4 DEF PoolInv, TypeOK, Alive
  <2>6. /\ busy' \in SUBSET Child /\ recving' \in SUBSET Child
        /\ inbox' \in [Child -> {<<>>} \cup {<<m>> : m \in Conn \X (Conn \cup {None})}]
        /\ conn' \in [Conn -> {"new", "open", "served", "refused", "lost"}]
        /\ OneTokenEach' /\ ConnInv' /\ InheritedInv'
    BY <1>1, <2>1, <2>3, <2>4, <2>5, ServeKeeps
  <2>7. TypeOK'
    BY <1>1, <2>1, <2>3, <2>6 DEF PoolInv, TypeOK
  <2>8. QED
    BY <2>3, <2>6, <2>7 DEF PoolInv
<1>5. CASE Refuse(s)
  <2>1. /\ conn' = [conn EXCEPT ![s] = "refused"] /\ up' \in BOOLEAN
        /\ UNCHANGED <<kids, running, busy, recving, inbox, proc, inherited>>
    BY <1>5 DEF Refuse
  <2>2. /\ conn' \in [Conn -> {"new", "open", "served", "refused", "lost"}]
        /\ ConnInv' /\ InheritedInv'
    BY <1>1, <2>1, UnsentKeeps
  <2>3. TypeOK' /\ OneTokenEach' /\ KidsInv'
    BY <1>1, <2>1, <2>2 DEF PoolInv, TypeOK, OneTokenEach, KidsInv, Kids
  <2>4. QED
    BY <2>2, <2>3 DEF PoolInv
<1>6. QED
  BY <1>2, <1>3, <1>4, <1>5 DEF Accept

\* SocketEvent(): the answer of a child, or its end.
LEMMA SocketEventKeeps == ASSUME PoolInv, NEW c \in Child, SocketEvent(c) PROVE PoolInv'
<1>1. /\ recving' = recving \ {c}
      /\ UNCHANGED <<module, listening, kids, up, proc, inbox, user, inherited, conn>>
  BY DEF SocketEvent
<1>2. ConnInv' /\ InheritedInv'
  BY <1>1 DEF PoolInv, ConnInv, InheritedInv, HasConn
<1>3. CASE ReadIdle(c)
  <2>1. /\ outbox[c] # 0 /\ outbox' = [outbox EXCEPT ![c] = 0]
        /\ busy' = busy \ {c} /\ running' = running
    BY <1>3 DEF ReadIdle, PoolInv, TypeOK
  <2>2. outbox'[c] = 0 /\ \A d \in Child : d # c => outbox'[d] = outbox[d]
    BY <2>1 DEF PoolInv, TypeOK
  <2>3. inbox[c] = <<>> /\ user[c] = None
    BY <2>1 DEF PoolInv, OneTokenEach
  <2>4. OneTokenEach'
    BY <1>1, <2>1, <2>2, <2>3 DEF PoolInv, OneTokenEach
  <2>5. TypeOK' /\ KidsInv'
    BY <1>1, <2>1 DEF PoolInv, TypeOK, KidsInv, Kids
  <2>6. QED
    BY <1>2, <2>4, <2>5 DEF PoolInv
<1>4. CASE ReadEOF(c)
  <2>1. /\ outbox[c] = 0 /\ proc[c] = "dead" /\ inbox[c] = <<>>
        /\ running' = running \ {c} /\ busy' = busy \ {c} /\ outbox' = outbox
    BY <1>4 DEF ReadEOF, BusyCleared
  <2>2. user[c] = None /\ "dead" \notin Alive
    BY <2>1 DEF PoolInv, OneTokenEach, Alive
  <2>3. TypeOK' /\ OneTokenEach' /\ KidsInv'
    BY <1>1, <2>1, <2>2 DEF PoolInv, TypeOK, OneTokenEach, KidsInv, Kids
  <2>4. QED
    BY <1>2, <2>3 DEF PoolInv
<1>5. CASE ReadError(c)
  <2>1. UNCHANGED <<running, busy, outbox>>
    BY <1>5 DEF ReadError
  <2>2. TypeOK' /\ OneTokenEach' /\ KidsInv'
    BY <1>1, <2>1 DEF PoolInv, TypeOK, OneTokenEach, KidsInv, Kids
  <2>3. QED
    BY <1>2, <2>2 DEF PoolInv
<1>6. QED
  BY <1>3, <1>4, <1>5 DEF SocketEvent

\* Flush() ends idle children beyond the least number.
LEMMA FlushKeeps == ASSUME PoolInv, Flush PROVE PoolInv'
<1>1. PICK i \in DOMAIN kids : /\ Idle(kids[i])
                               /\ kids' = Without(kids, i)
                               /\ running' = running \ {kids[i]}
                               /\ Bury({kids[i]})
  BY DEF Flush, FirstIdle
<1>2. UNCHANGED <<module, listening, busy, recving, up, inbox, outbox>>
  BY DEF Flush
<1> DEFINE c == kids[i]
<1>3. c \in Child /\ kids \in Seq(Child)
  BY DEF PoolInv, TypeOK
<1>4. /\ proc' \in [Child -> Alive \cup {"unborn", "dead"}]
      /\ user' \in [Child -> Conn \cup {None}]
      /\ inherited' \in [Child -> Conn \cup {None}]
      /\ conn' \in [Conn -> {"new", "open", "served", "refused", "lost"}]
      /\ OneTokenEach' /\ ConnInv' /\ InheritedInv'
  <2>1. {c} \in SUBSET Child
    BY <1>3
  <2>2. QED
    BY <1>1, <1>2, <2>1, BuryKeeps
<1>5. /\ kids' \in Seq(Child)
      /\ Len(kids') = Len(kids) - 1
      /\ \A j \in DOMAIN kids' : \E k \in DOMAIN kids : k # i /\ kids'[j] = kids[k]
      /\ \A k \in DOMAIN kids : k # i => \E j \in DOMAIN kids' : kids'[j] = kids[k]
      /\ \A j, k \in DOMAIN kids' : kids'[j] = kids'[k] => j = k
  <2> DEFINE t == Without(kids, i)
  <2>1. \A j, k \in DOMAIN kids : kids[j] = kids[k] => j = k
    BY DEF PoolInv, KidsInv
  <2>2. /\ t \in Seq(Child)
        /\ Len(t) = Len(kids) - 1
        /\ \A j \in DOMAIN t : \E k \in DOMAIN kids : k # i /\ t[j] = kids[k]
        /\ \A k \in DOMAIN kids : k # i => \E j \in DOMAIN t : t[j] = kids[k]
        /\ \A j, k \in DOMAIN t : t[j] = t[k] => j = k
    BY <1>3, <2>1, WithoutIs
  <2> HIDE DEF t
  <2>3. kids' = t
    BY <1>1 DEF t
  <2>4. QED
    BY <2>2, <2>3
<1>6. TypeOK'
  BY <1>1, <1>2, <1>4, <1>5 DEF PoolInv, TypeOK
<1>7. KidsInv'
  <2>1. \A d \in Child : proc'[d] = IF d = c THEN "dead" ELSE proc[d]
    BY <1>1, <1>3 DEF Bury
  <2>2. Len(kids') <= IF MinChildren > MaxChildren THEN MinChildren ELSE MaxChildren
    <3>1. Len(kids) \in Nat /\ Len(kids) <= IF MinChildren > MaxChildren THEN MinChildren ELSE MaxChildren
      BY <1>3 DEF PoolInv, KidsInv
    <3>2. QED
      BY <1>5, <3>1, ProcPoolAssumption
  <2>3. \A j \in DOMAIN kids' : proc'[kids'[j]] # "unborn"
    <3>1. \A k \in DOMAIN kids : kids[k] \in Child /\ proc[kids[k]] # "unborn"
      BY <1>3 DEF PoolInv, KidsInv
    <3>2. QED
      BY <1>5, <2>1, <3>1
  <2>4. running' \subseteq Kids'
    <3>1. SUFFICES ASSUME NEW d \in running, d # c
                   PROVE  \E j \in DOMAIN kids' : kids'[j] = d
      BY <1>1 DEF Kids
    <3>2. PICK k \in DOMAIN kids : kids[k] = d
      BY <3>1 DEF PoolInv, KidsInv, Kids
    <3>3. QED
      BY <1>5, <3>1, <3>2
  <2>5. \A d \in Child : proc'[d] \in Alive => d \in running'
    BY <1>1, <2>1 DEF PoolInv, KidsInv, Alive
  <2>6. QED
    BY <1>5, <2>2, <2>3, <2>4, <2>5 DEF KidsInv
<1>8. QED
  BY <1>4, <1>6, <1>7 DEF PoolInv

\* Cleanup() ends the children when none is busy.
LEMMA CleanupKeeps == ASSUME PoolInv, Cleanup PROVE PoolInv'
<1>1. CASE /\ module' = "gone" /\ kids' = <<>> /\ running' = {} /\ recving' = {}
           /\ Bury(Kids \cap running) /\ listening' = FALSE /\ UNCHANGED <<busy, up, inbox, outbox>>
  <2>1. Kids \cap running \in SUBSET Child /\ running \subseteq Kids
    BY DEF PoolInv, TypeOK, KidsInv
  <2>2. /\ proc' \in [Child -> Alive \cup {"unborn", "dead"}]
        /\ user' \in [Child -> Conn \cup {None}]
        /\ inherited' \in [Child -> Conn \cup {None}]
        /\ conn' \in [Conn -> {"new", "open", "served", "refused", "lost"}]
        /\ OneTokenEach' /\ ConnInv' /\ InheritedInv'
    BY <1>1, <2>1, BuryKeeps
  <2>3. TypeOK'
    <3>1. <<>> \in Seq(Child)
      OBVIOUS
    <3>2. QED
      BY <1>1, <2>2, <3>1 DEF PoolInv, TypeOK
  <2>4. KidsInv'
    <3>1. \A c \in Child : proc'[c] \notin Alive
      BY <1>1, <2>1 DEF Bury, Alive, PoolInv, KidsInv
    <3>2. DOMAIN <<>> = {} /\ Len(<<>>) = 0
      OBVIOUS
    <3>3. QED
      BY <1>1, <3>1, <3>2, ProcPoolAssumption DEF KidsInv
  <2>5. QED
    BY <2>2, <2>3, <2>4 DEF PoolInv
<1>2. CASE /\ module' = "quitting" /\ listening' = FALSE
           /\ UNCHANGED <<kids, running, recving, proc, user, inherited, conn, busy, up, inbox, outbox>>
  <2>1. TypeOK'
    BY <1>2 DEF PoolInv, TypeOK
  <2>2. KidsInv' /\ OneTokenEach'
    BY <1>2 DEF PoolInv, KidsInv, Kids, OneTokenEach
  <2>3. ConnInv'
    <3>1. \A c \in Child, s \in Conn : HasConn(c, s)' <=> HasConn(c, s)
      BY <1>2 DEF HasConn
    <3>2. QED
      BY <1>2, <3>1 DEF PoolInv, ConnInv
  <2>4. InheritedInv'
    BY <1>2 DEF PoolInv, InheritedInv
  <2>5. QED
    BY <2>1, <2>2, <2>3, <2>4 DEF PoolInv
<1>3. QED
  BY <1>1, <1>2 DEF Cleanup

\* RecvFD(), and the close() of what was inherited.
LEMMA ChildReceiveKeeps == ASSUME PoolInv, NEW c \in Child, ChildReceive(c) PROVE PoolInv'
<1> DEFINE m == Head(inbox[c])
<1>1. /\ proc[c] = "select" /\ inbox[c] # <<>>
      /\ proc' = [proc EXCEPT ![c] = "serving"]
      /\ user' = [user EXCEPT ![c] = m[1]]
      /\ inherited' = [inherited EXCEPT ![c] = IF m[2] = None THEN @ ELSE None]
      /\ inbox' = [inbox EXCEPT ![c] = Tail(@)]
      /\ UNCHANGED <<module, listening, kids, running, busy, recving, up, outbox, conn>>
  BY DEF ChildReceive, daemon
<1>2. /\ m \in Conn \X (Conn \cup {None}) /\ inbox[c] = <<m>> /\ Tail(inbox[c]) = <<>>
      /\ \A s : HasConn(c, s) <=> user[c] = s \/ m[1] = s
  BY <1>1, InboxIs DEF PoolInv
<1>3. user[c] = None /\ outbox[c] = 0 /\ c \in busy
  BY <1>1 DEF PoolInv, OneTokenEach
<1>4. m[1] \in Conn /\ m[1] # None
  BY <1>2, ProcPoolAssumption
<1>5. inherited'[c] = None
  <2>1. CASE inherited[c] = None
    BY <1>1, <2>1 DEF PoolInv, TypeOK
  <2>2. CASE inherited[c] # None
    <3>1. <<m>> = <<<<inherited[c], inherited[c]>>>>
      BY <1>2, <2>2 DEF PoolInv, InheritedInv
    <3>2. m[2] = inherited[c]
      BY <3>1
    <3>3. QED
      BY <1>1, <2>2, <3>2 DEF PoolInv, TypeOK
  <2>3. QED
    BY <2>1, <2>2
<1> HIDE DEF m
<1>6. /\ proc'[c] = "serving" /\ user'[c] = m[1] /\ inbox'[c] = <<>>
      /\ \A d \in Child : d # c => /\ proc'[d] = proc[d] /\ user'[d] = user[d]
                                   /\ inbox'[d] = inbox[d] /\ inherited'[d] = inherited[d]
  BY <1>1, <1>2 DEF PoolInv, TypeOK
<1>7. TypeOK'
  <2>1. proc' \in [Child -> Alive \cup {"unborn", "dead"}]
    BY <1>1 DEF PoolInv, TypeOK, Alive
  <2>2. user' \in [Child -> Conn \cup {None}]
    BY <1>1, <1>4 DEF PoolInv, TypeOK
  <2>3. inherited' \in [Child -> Conn \cup {None}]
    BY <1>1 DEF PoolInv, TypeOK
  <2>4. inbox' \in [Child -> {<<>>} \cup {<<n>> : n \in Conn \X (Conn \cup {None})}]
    BY <1>1, <1>2 DEF PoolInv, TypeOK
  <2>5. QED
    BY <1>1, <2>1, <2>2, <2>3, <2>4 DEF PoolInv, TypeOK
<1>8. "select" \in Alive /\ "serving" \in Alive /\ "unborn" \notin Alive
  BY DEF Alive
<1>9. KidsInv'
  <2>1. \A i \in DOMAIN kids : kids[i] \in Child
    BY DEF PoolInv, TypeOK
  <2>2. QED
    BY <1>1, <1>6, <1>8, <2>1 DEF PoolInv, KidsInv, Kids
<1>10. OneTokenEach'
  BY <1>1, <1>3, <1>4, <1>6 DEF PoolInv, OneTokenEach
<1>11. \A d \in Child, s \in Conn : HasConn(d, s)' <=> HasConn(d, s)
  <2>1. \A s \in Conn : HasConn(c, s)' <=> HasConn(c, s)
    BY <1>2, <1>3, <1>4, <1>6, ProcPoolAssumption DEF HasConn
  <2>2. \A d \in Child, s \in Conn : d # c => (HasConn(d, s)' <=> HasConn(d, s))
    BY <1>6 DEF HasConn
  <2>3. QED
    BY <2>1, <2>2
<1>12. ConnInv'
  <2>1. \A d \in Child : proc'[d] \in Alive <=> proc[d] \in Alive
    BY <1>1, <1>6, <1>8
  <2>2. QED
    BY <1>1, <1>11, <2>1 DEF PoolInv, ConnInv
<1>13. InheritedInv'
  BY <1>5, <1>6 DEF PoolInv, InheritedInv
<1>14. QED
  BY <1>7, <1>9, <1>10, <1>12, <1>13 DEF PoolInv

\* A child that has served its client says so.
LEMMA ChildIdleKeeps == ASSUME PoolInv, NEW c \in Child, ChildIdle(c) PROVE PoolInv'
<1> DEFINE s == user[c]
<1>1. /\ proc[c] = "serving"
      /\ proc' = [proc EXCEPT ![c] = "awake"]
      /\ conn' = [conn EXCEPT ![s] = "served"]
      /\ user' = [user EXCEPT ![c] = None]
      /\ outbox' = [outbox EXCEPT ![c] = @ + 1]
      /\ UNCHANGED <<module, listening, kids, running, busy, recving, up, inbox, inherited>>
  BY DEF ChildIdle, daemon
<1>2. s \in Conn /\ s # None /\ outbox[c] = 0 /\ inbox[c] = <<>> /\ c \in busy
  BY <1>1 DEF PoolInv, OneTokenEach, TypeOK
<1> HIDE DEF s
<1>3. /\ proc'[c] = "awake" /\ user'[c] = None /\ outbox'[c] = 1 /\ conn'[s] = "served"
      /\ \A d \in Child : d # c => /\ proc'[d] = proc[d] /\ user'[d] = user[d]
                                   /\ outbox'[d] = outbox[d]
      /\ \A t \in Conn : t # s => conn'[t] = conn[t]
  BY <1>1, <1>2 DEF PoolInv, TypeOK
<1>4. "awake" \in Alive /\ "serving" \in Alive /\ "unborn" \notin Alive
  BY DEF Alive
<1>5. TypeOK'
  BY <1>1, <1>2, <1>4 DEF PoolInv, TypeOK
<1>6. KidsInv'
  <2>1. \A i \in DOMAIN kids : kids[i] \in Child
    BY DEF PoolInv, TypeOK
  <2>2. QED
    BY <1>1, <1>3, <1>4, <2>1 DEF PoolInv, KidsInv, Kids
<1>7. OneTokenEach'
  BY <1>1, <1>2, <1>3 DEF PoolInv, OneTokenEach
<1>8. HasConn(c, s) /\ \A t \in Conn : HasConn(c, t) => t = s
  BY <1>2 DEF HasConn, s
<1>9. ASSUME NEW d \in Child, NEW t \in Conn
      PROVE  HasConn(d, t)' <=> HasConn(d, t) /\ d # c
  BY <1>1, <1>2, <1>3, ProcPoolAssumption DEF HasConn
<1>10. ConnInv'
  <2>1. \A d, e \in Child, t \in Conn : HasConn(d, t)' /\ HasConn(e, t)' => d = e
    BY <1>9 DEF PoolInv, ConnInv
  <2>2. \A d \in Child, t \in Conn : HasConn(d, t)' => conn'[t] # "new" /\ t # s
    BY <1>2, <1>3, <1>8, <1>9 DEF PoolInv, ConnInv
  <2>3. \A d \in Child, t \in Conn : HasConn(d, t)' /\ proc'[d] \in Alive => conn'[t] = "open"
    BY <1>3, <1>9, <2>2 DEF PoolInv, ConnInv
  <2>4. ASSUME NEW t \in Conn, conn'[t] = "open"
        PROVE  \E d \in Child : proc'[d] \in Alive /\ HasConn(d, t)'
    <3>1. t # s /\ conn[t] = "open"
      BY <1>3, <2>4
    <3>2. PICK d \in Child : proc[d] \in Alive /\ HasConn(d, t)
      BY <3>1 DEF PoolInv, ConnInv
    <3>3. d # c
      BY <1>8, <3>1, <3>2
    <3>4. QED
      BY <1>3, <1>9, <3>2, <3>3
  <2>5. QED
    BY <2>1, <2>2, <2>3, <2>4 DEF ConnInv
<1>11. InheritedInv'
  BY <1>1, <1>3, <1>4 DEF PoolInv, InheritedInv
<1>12. QED
  BY <1>5, <1>6, <1>7, <1>10, <1>11 DEF PoolInv

\* A child dies, whatever it was doing.
LEMMA DieKeeps == ASSUME PoolInv, NEW c \in Child, Die(c) PROVE PoolInv'
<1>1. /\ proc[c] \in Alive /\ Bury({c})
      /\ UNCHANGED <<module, listening, kids, running, busy, recving, up, inbox, outbox>>
  BY DEF Die, daemon
<1>2. /\ proc' \in [Child -> Alive \cup {"unborn", "dead"}]
      /\ user' \in [Child -> Conn \cup {None}]
      /\ inherited' \in [Child -> Conn \cup {None}]
      /\ conn' \in [Conn -> {"new", "open", "served", "refused", "lost"}]
      /\ OneTokenEach' /\ ConnInv' /\ InheritedInv'
  <2>1. {c} \in SUBSET Child
    OBVIOUS
  <2>2. QED
    BY <1>1, <2>1, BuryKeeps
<1>3. TypeOK'
  BY <1>1, <1>2 DEF PoolInv, TypeOK
<1>4. KidsInv'
  <2>1. \A d \in Child : proc'[d] = IF d = c THEN "dead" ELSE proc[d]
    BY <1>1 DEF Bury
  <2>2. \A i \in DOMAIN kids : kids[i] \in Child
    BY DEF PoolInv, TypeOK
  <2>3. QED
    BY <1>1, <2>1, <2>2 DEF PoolInv, KidsInv, Kids, Alive
<1>5. QED
  BY <1>2, <1>3, <1>4 DEF PoolInv

\* At first there is the daemon alone.
LEMMA PoolInit == Init => PoolInv
<1> SUFFICES ASSUME Init
             PROVE  PoolInv
  OBVIOUS
<1>1. kids = <<>> /\ kids \in Seq(Child) /\ DOMAIN kids = {} /\ Len(kids) = 0
  <2>1. <<>> \in Seq(Child) /\ DOMAIN <<>> = {} /\ Len(<<>>) = 0
    OBVIOUS
  <2>2. QED
    BY <2>1 DEF Init
<1>2. TypeOK
  <2>1. inbox \in [Child -> {<<>>} \cup {<<m>> : m \in Conn \X (Conn \cup {None})}]
    <3>1. <<>> \in {<<>>} \cup {<<m>> : m \in Conn \X (Conn \cup {None})}
      OBVIOUS
    <3>2. QED
      BY <3>1 DEF Init
  <2>2. /\ proc \in [Child -> Alive \cup {"unborn", "dead"}]
        /\ conn \in [Conn -> {"new", "open", "served", "refused", "lost"}]
        /\ outbox \in [Child -> 0..1]
    BY DEF Init
  <2>3. QED
    BY <1>1, <2>1, <2>2 DEF Init, TypeOK
<1>3. KidsInv
  BY <1>1, ProcPoolAssumption DEF Init, KidsInv, Alive
<1>4. OneTokenEach /\ InheritedInv
  BY DEF Init, OneTokenEach, InheritedInv
<1>5. \A c \in Child, s \in Conn : ~HasConn(c, s)
  BY ProcPoolAssumption DEF Init, HasConn
<1>6. ConnInv
  BY <1>5 DEF Init, ConnInv
<1>7. QED
  BY <1>2, <1>3, <1>4, <1>6 DEF PoolInv

\* Every step of the daemon, of its children and of the users keeps the invariant.
LEMMA PoolStep == PoolInv /\ [Next]_vars => PoolInv'
<1> SUFFICES ASSUME PoolInv, [Next]_vars
             PROVE  PoolInv'
  OBVIOUS
<1>1. CASE Fill
  BY <1>1, FillKeeps
<1>2. CASE Loaded
  BY <1>2, HangUpKeeps DEF Loaded
<1>3. ASSUME NEW s \in Conn, Accept(s)
      PROVE  PoolInv'
  BY <1>3, AcceptKeeps
<1>4. CASE Flush
  BY <1>4, FlushKeeps
<1>5. CASE Unload \/ OnTimer
  BY <1>5, CleanupKeeps DEF Unload, OnTimer
<1>6. CASE CfgChanged
  BY <1>6, HangUpKeeps DEF CfgChanged, PoolInv, TypeOK
<1>7. ASSUME NEW c \in Child, SocketEvent(c)
      PROVE  PoolInv'
  BY <1>7, SocketEventKeeps
<1>8. ASSUME NEW c \in Child, ChildReady(c) \/ ChildSelect(c)
      PROVE  PoolInv'
  <2>1. /\ proc' \in [Child -> Alive \cup {"unborn", "dead"}]
        /\ \A d \in Child : \/ proc'[d] = proc[d]
                            \/ {proc[d], proc'[d]} \subseteq Alive \ {"serving"}
    BY <1>8 DEF ChildReady, ChildSelect, PoolInv, TypeOK, Alive
  <2>2. QED
    BY <1>8, <2>1, AliveKeeps DEF ChildReady, ChildSelect, daemon, PoolInv, TypeOK
<1>9. ASSUME NEW c \in Child, ChildReceive(c)
      PROVE  PoolInv'
  BY <1>9, ChildReceiveKeeps
<1>10. ASSUME NEW c \in Child, ChildIdle(c)
       PROVE  PoolInv'
  BY <1>10, ChildIdleKeeps
<1>11. ASSUME NEW c \in Child, Die(c)
       PROVE  PoolInv'
  BY <1>11, DieKeeps
<1>12. CASE UNCHANGED vars
  BY <1>12 DEF vars, daemon, children, PoolInv, TypeOK, KidsInv, Kids, OneTokenEach, ConnInv,
               HasConn, InheritedInv
<1>13. QED
  BY <1>1, <1>2, <1>3, <1>4, <1>5, <1>6, <1>7, <1>8, <1>9, <1>10, <1>11, <1>12 DEF Next

\* The invariant holds at every moment.
LEMMA PoolAlways == Spec => []PoolInv
BY PoolInit, PoolStep, PTL DEF Spec

(***************************************************************************)
(* What follows.                                                           *)
(***************************************************************************)

\* A process is alive only in the list of children.
LEMMA AliveAreKids ==
  ASSUME PoolInv, NEW c \in Child, proc[c] \in Alive
  PROVE  c \in Kids /\ c \in running
BY DEF PoolInv, KidsInv

\* A child has one connection at most.
LEMMA OneConnection ==
  ASSUME PoolInv, NEW c \in Child, NEW s \in Conn, NEW t \in Conn, HasConn(c, s), HasConn(c, t)
  PROVE  s = t
<1>1. /\ \A r : HasConn(c, r) <=>
                  user[c] = r \/ (inbox[c] # <<>> /\ Head(inbox[c])[1] = r)
      /\ inbox[c] # <<>> => user[c] = None
  BY InboxIs DEF PoolInv, OneTokenEach
<1>2. QED
  BY <1>1, ProcPoolAssumption

\* procpool.cpp, ServeClient(), client.cpp, Serve() and WaitRequest(): a client has one
\* process and a process one client, in the view of both sides of their socket; the child
\* that is chosen next has none, and no late "idle" of it is on its way.
THEOREM ClientsHaveTheirOwn == Spec => []OneClientEach
<1>1. ASSUME PoolInv
      PROVE  OneClientEach
  <2>1. IdleIsFree
    BY <1>1, IdleIs DEF IdleIsFree, Kids
  <2>2. ASSUME NEW s \in Conn, conn[s] = "open"
        PROVE  \E c \in Kids :
                 /\ proc[c] \in Alive
                 /\ HasConn(c, s)
                 /\ \A d \in Child, t \in Conn :
                      HasConn(d, t) /\ (d = c \/ t = s) => (d = c /\ t = s)
    <3>1. PICK c \in Child : proc[c] \in Alive /\ HasConn(c, s)
      BY <1>1, <2>2 DEF PoolInv, ConnInv
    <3>2. c \in Kids
      BY <1>1, <3>1, AliveAreKids
    <3>3. \A d \in Child, t \in Conn : HasConn(d, t) /\ (d = c \/ t = s) => (d = c /\ t = s)
      BY <1>1, <3>1, OneConnection DEF PoolInv, ConnInv
    <3>4. QED
      BY <3>1, <3>2, <3>3
  <2>3. QED
    BY <1>1, <2>1, <2>2 DEF OneClientEach, OpenIsServed, PoolInv
<1>2. QED
  BY <1>1, PoolAlways, PTL

\* mod_socks5.cpp, Accept(), and client.cpp, WaitRequest(): no process keeps a descriptor
\* of a connection that is over, whether it was sent or inherited by fork().
THEOREM NoDescriptorLeaks == Spec => []DescriptorsClosed
<1>1. ASSUME PoolInv
      PROVE  DescriptorsClosed
  <2>1. SUFFICES ASSUME NEW s \in Conn, NEW c \in Child,
                        conn[s] \in {"served", "refused", "lost"}
                 PROVE  user[c] # s /\ inherited[c] # s
    BY DEF DescriptorsClosed
  <2>2. s # None /\ conn[s] # "open" /\ "serving" \in Alive
    BY <2>1, ProcPoolAssumption DEF Alive
  <2>3. ASSUME user[c] = s
        PROVE  FALSE
    <3>1. proc[c] \in Alive /\ HasConn(c, s)
      BY <1>1, <2>2, <2>3 DEF PoolInv, OneTokenEach, HasConn
    <3>2. QED
      BY <1>1, <2>2, <3>1 DEF PoolInv, ConnInv
  <2>4. ASSUME inherited[c] = s
        PROVE  FALSE
    <3>1. proc[c] \in Alive /\ inbox[c] = <<<<s, s>>>>
      BY <1>1, <2>2, <2>4 DEF PoolInv, InheritedInv
    <3>2. inbox[c] # <<>> /\ Head(inbox[c])[1] = s
      BY <3>1
    <3>3. HasConn(c, s)
      BY <1>1, <3>2, InboxIs DEF PoolInv
    <3>4. QED
      BY <1>1, <2>2, <3>1, <3>3 DEF PoolInv, ConnInv
  <2>5. QED
    BY <2>3, <2>4
<1>2. QED
  BY <1>1, PoolAlways, PTL

\* mod_socks5.cpp, manifest, and procpool.cpp, ServeClient(): never more clients at once
\* than maxchildren (or minchildren, if that is more).
THEOREM ClientsAreLimited == Spec => []AtMostMaxChildren
<1>1. ASSUME PoolInv
      PROVE  AtMostMaxChildren
  <2> DEFINE open == {s \in Conn : conn[s] = "open"}
             n == Len(kids)
             Place(s) == CHOOSE i \in 1..n : HasConn(kids[i], s)
             f == [s \in open |-> Place(s)]
  <2>1. n \in Nat /\ DOMAIN kids = 1..n /\ \A i \in 1..n : kids[i] \in Child
    BY <1>1 DEF PoolInv, TypeOK
  <2>2. ASSUME NEW s \in open
        PROVE  Place(s) \in 1..n /\ HasConn(kids[Place(s)], s)
    <3>1. PICK c \in Child : proc[c] \in Alive /\ HasConn(c, s)
      BY <1>1 DEF PoolInv, ConnInv
    <3>2. \E i \in 1..n : HasConn(kids[i], s)
      BY <1>1, <2>1, <3>1, AliveAreKids DEF Kids
    <3>3. QED
      BY <3>2
  <2>3. f \in Injection(open, 1..n)
    <3>1. f \in [open -> 1..n]
      BY <2>2
    <3>2. \A s, t \in open : f[s] = f[t] => s = t
      BY <1>1, <2>1, <2>2, OneConnection
    <3>3. QED
      BY <3>1, <3>2 DEF Injection, IsInjective
  <2>4. IsFiniteSet(1..n) /\ Cardinality(1..n) = n
    <3>1. /\ IsFiniteSet(1..n)
          /\ Cardinality(1..n) = IF 1 > n THEN 0 ELSE n - 1 + 1
      BY <2>1, FS_Interval, SMTT(30)
    <3>2. QED
      BY <2>1, <3>1
  <2>5. IsFiniteSet(open) /\ Cardinality(open) <= n
    BY <2>3, <2>4, FS_Injection
  <2>6. n <= IF MinChildren > MaxChildren THEN MinChildren ELSE MaxChildren
    BY <1>1 DEF PoolInv, KidsInv
  <2>7. Cardinality(open) \in Nat
    BY <2>5, FS_CardinalityType
  <2>8. QED
    BY <2>1, <2>5, <2>6, <2>7, ProcPoolAssumption DEF AtMostMaxChildren
<1>2. QED
  BY <1>1, PoolAlways, PTL

\* mod_socks5.cpp, Cleanup(), and processgroup.cpp, Flush(): whatever the daemon does, it
\* cuts no client off; a connection is lost only when the child that has it ends.
THEOREM DaemonCutsNobodyOff == Spec => LossIsNotOurs
<1>1. ASSUME PoolInv, [Next]_vars, NEW s \in Conn, conn[s] = "open", conn'[s] = "lost"
      PROVE  UNCHANGED daemon
  <2>1. ASSUME NEW S \in SUBSET Child, Bury(S)
        PROVE  \E c \in S : HasConn(c, s)
    BY <1>1, <2>1 DEF Bury, HeldBy, HasConn
  <2>2. CASE conn' = conn
    BY <1>1, <2>2
  <2>3. ASSUME NEW t \in Conn, Accept(t)
        PROVE  FALSE
    <3>1. conn[t] = "new" /\ t # s
      BY <1>1, <2>3 DEF Accept
    <3>2. \E end : conn' = [conn EXCEPT ![t] = end]
      BY <2>3 DEF Accept, ServeIdle, ServeDead, ServeForked, Refuse, Serve
    <3>3. QED
      BY <1>1, <3>1, <3>2 DEF PoolInv, TypeOK
  <2>4. CASE Flush
    <3>1. PICK i \in DOMAIN kids : Idle(kids[i]) /\ Bury({kids[i]})
      BY <2>4 DEF Flush, FirstIdle
    <3>2. kids[i] \in Child /\ \A t \in Conn : ~HasConn(kids[i], t)
      BY <1>1, <3>1, IdleIs
    <3>3. QED
      BY <2>1, <3>1, <3>2
  <2>5. CASE Cleanup
    <3>1. CASE AreIdle /\ Bury(Kids \cap running)
      <4>1. Kids \cap running \in SUBSET Child
        BY <1>1 DEF PoolInv, TypeOK
      <4>2. PICK c \in Kids \cap running : HasConn(c, s)
        BY <2>1, <3>1, <4>1
      <4>3. c \in Child /\ c \notin busy
        BY <3>1, <4>1 DEF AreIdle
      <4>4. inbox[c] = <<>> /\ user[c] = None
        BY <1>1, <4>3 DEF PoolInv, OneTokenEach
      <4>5. QED
        BY <4>2, <4>4, ProcPoolAssumption DEF HasConn
    <3>2. QED
      BY <2>2, <2>5, <3>1 DEF Cleanup
  <2>6. ASSUME NEW c \in Child, ChildReady(c) \/ ChildSelect(c) \/ ChildReceive(c) \/ Die(c)
        PROVE  UNCHANGED daemon
    BY <2>6 DEF ChildReady, ChildSelect, ChildReceive, Die
  <2>7. ASSUME NEW c \in Child, ChildIdle(c)
        PROVE  UNCHANGED daemon
    BY <2>7 DEF ChildIdle
  <2>8. CASE Fill \/ Loaded \/ CfgChanged
    BY <2>2, <2>8 DEF Fill, Loaded, CfgChanged
  <2>9. ASSUME NEW c \in Child, SocketEvent(c)
        PROVE  UNCHANGED daemon
    BY <2>2, <2>9 DEF SocketEvent
  <2>10. CASE UNCHANGED vars
    BY <2>10 DEF vars
  <2>11. QED
    BY <1>1, <2>3, <2>4, <2>5, <2>6, <2>7, <2>8, <2>9, <2>10 DEF Next, Unload, OnTimer
<1>2. PoolInv /\ [Next]_vars
        => [\A s \in Conn : conn[s] = "open" /\ conn'[s] = "lost" => UNCHANGED daemon]_vars
  BY <1>1
<1>3. QED
  BY <1>2, PoolAlways, PTL DEF Spec, LossIsNotOurs
=============================================================================
