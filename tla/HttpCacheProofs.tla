-------------------------- MODULE HttpCacheProofs --------------------------
(***************************************************************************)
(* Proofs about HttpCache, for any clients, resources and limits.          *)
(***************************************************************************)
EXTENDS HttpCache, FiniteSetTheorems, SequenceTheorems, WellFoundedInduction, TLAPS

-----------------------------------------------------------------------------
(* The inductive invariant *)

\* No element comes twice.
Distinct(s) == \A j, k \in DOMAIN s : s[j] = s[k] => j = k

\* p is in the list s.
Has(s, p) == \E k \in DOMAIN s : s[k] = p

\* Who has the objects: H[o] is the set of the clients that have o.
Holders(cl) == [o \in Obj |-> {u \in Client : cl[u].obj = o}]

\* Acquire() and Release() count them.
Counted(obj, H) ==
  \A o \in Obj :
    /\ obj[o].ref = Cardinality(H[o])
    /\ H[o] # {} => obj[o].id # None
    /\ H[o] = {} => obj[o].fd = 0 /\ ~obj[o].deleted

\* What an object is: only with a file open is something in memory or received, and what
\* is deleted while it is received is not written any more.
Shut(x) ==
  /\ x.tag = 0 /\ x.avail = <<>> /\ x.out = 0 /\ x.off = 0 /\ x.lis = {}
  /\ ~x.reading /\ ~x.quiet

Formed(x) ==
  /\ x.fd = 0 => Shut(x)
  /\ x.reading => x.tag # 0
  /\ x.quiet => x.deleted
  /\ x.reading /\ x.deleted => x.quiet

AllFormed(obj) == \A o \in Obj : Formed(obj[o])

\* The hash has objects that are there, under their ids; it has only those that were not
\* deleted when no write failed (bad).
Hashed(obj, hash, bad) ==
  \A i \in Id :
    /\ hash[i] \in Obj => obj[hash[i]].id = i
    /\ hash[i] # None => bad \/ (hash[i] \in Obj /\ ~obj[hash[i]].deleted)

\* The list has every object once, and there are no more than downloads (n).
Held(obj) == {o \in Obj : obj[o].id # None}

Listed(obj, lru, n) ==
  /\ Distinct(lru)
  /\ \A o \in Obj : obj[o].id # None <=> Has(lru, o)
  /\ Cardinality(Held(obj)) <= n

\* The objects that are not deleted, and their size.
Kin(obj) == {o \in Obj : obj[o].id # None /\ ~obj[o].deleted}

Counts(obj) == SumFunctionOnSet([o \in Obj |-> obj[o].size], Kin(obj))

Sized(obj, size, bad) == size >= Counts(obj) /\ (bad \/ size = Counts(obj))

\* When nothing is to be written the index is right, and nothing is deleted.
Current(obj, modified, ind, bad) ==
  ~modified /\ ~bad =>
    /\ \A i \in Id : (\E k \in DOMAIN ind : ind[k].id = i) <=> \E o \in Obj : obj[o].id = i
    /\ \A o \in Obj : ~obj[o].deleted

\* What the client u has, r, agrees with the objects: u listens to what it receives, has got
\* what came of it, and has an object of the resource it asked for.
Receiving(r) == r.state \in {"down", "body", "orphan"}

Attuned(obj, r, u) ==
  /\ \A o \in Obj : u \in obj[o].lis <=> Receiving(r) /\ r.obj = o
  /\ Receiving(r) =>
       /\ r.obj \in Obj
       /\ obj[r.obj].reading
       /\ r.state # "orphan" => r.got = obj[r.obj].avail
  /\ r.state \in {"down", "orphan"} => obj[r.obj].id = r.id
  /\ r.state = "fetch" => r.id \in Id /\ (r.obj # None => obj[r.obj].id = r.id)
  /\ r.state = "closing" => r.obj # None

InTune(obj, cl) == \A u \in Client : Attuned(obj, cl[u], u)

\* The books of the cache c, when n downloads have begun.
BooksOK(c, n, ind, bad) ==
  /\ c \in Cache
  /\ AllFormed(c.obj)
  /\ Hashed(c.obj, c.hash, bad)
  /\ Listed(c.obj, c.lru, n)
  /\ Sized(c.obj, c.size, bad)
  /\ Current(c.obj, c.modified, ind, bad)

\* The books agree, and the objects count those that have them.
Valid(c, H, n, ind, bad) ==
  /\ BooksOK(c, n, ind, bad)
  /\ H \in [Obj -> SUBSET Client]
  /\ Counted(c.obj, H)

BooksInv ==
  /\ TypeOK
  /\ Valid(cache, Holders(client), down, index, failed)
  /\ Len(index) <= down
  /\ InTune(cache.obj, client)

-----------------------------------------------------------------------------
(* Induction: a set of counterexamples has a least one *)

\* Every set of natural numbers that is not empty has a least one.
LEMMA Least ==
  ASSUME NEW T, T \subseteq Nat, T # {}
  PROVE  \E n \in T : \A m \in T : n <= m
  <1>1. PICK R : R = OpToRel(<, Nat)
    OBVIOUS
  <1>2. IsWellFoundedOn(R, Nat)
    BY <1>1, NatLessThanWellFounded
  <1>3. PICK n \in T : \A m \in T : ~ (<<m, n>> \in R)
    BY <1>2, WFMin
  <1>4. \A j, k \in Nat : j < k => <<j, k>> \in R
    BY <1>1 DEF OpToRel
  <1>5. ASSUME NEW m \in T
        PROVE  n <= m
    <2>1. ~(m < n)  BY <1>3, <1>4
    <2> QED BY <2>1
  <1> QED BY <1>5

\* A set of natural numbers that has 0, and with a number the next one, has all.
LEMMA Every ==
  ASSUME NEW T, 0 \in T, \A n \in Nat : n \in T => n + 1 \in T
  PROVE  Nat \subseteq T
  <1>1. SUFFICES ASSUME Nat \ T # {}
                 PROVE  FALSE
    OBVIOUS
  <1>2. PICK n \in Nat \ T : \A m \in Nat \ T : n <= m
    BY <1>1, Least
  <1>3. n - 1 \in Nat
    BY <1>2
  <1>4. n - 1 \notin T
    BY <1>2, <1>3
  <1> QED BY <1>2, <1>3, <1>4

-----------------------------------------------------------------------------
(* Kept *)

KeptStep(s, S, q, n) == IF s[n] \in S THEN Append(q, s[n]) ELSE q

KeptUpTo(s, S, g, m) == g = [n \in 0..m |-> IF n = 0 THEN <<>> ELSE KeptStep(s, S, g[n - 1], n)]

\* The function that Kept() is defined by.
LEMMA KeptExists ==
  ASSUME NEW s, NEW S
  PROVE  \A m \in Nat : \E g : KeptUpTo(s, S, g, m)
  <1> DEFINE T == {m \in Nat : \E g : KeptUpTo(s, S, g, m)}
  <1>1. 0 \in T
    <2>1. PICK g : g = [n \in 0..0 |-> <<>>]  OBVIOUS
    <2>2. KeptUpTo(s, S, g, 0)  BY <2>1 DEF KeptUpTo
    <2> QED BY <2>2
  <1>2. ASSUME NEW m \in Nat, m \in T
        PROVE  m + 1 \in T
    <2>1. PICK g : KeptUpTo(s, S, g, m)  BY <1>2
    <2>2. PICK h : h = [n \in 0..(m + 1) |-> IF n = 0 THEN <<>> ELSE KeptStep(s, S, g[n - 1], n)]
      OBVIOUS
    <2>3. \A n \in 0..m : h[n] = g[n]  BY <2>1, <2>2 DEF KeptUpTo
    <2>4. KeptUpTo(s, S, h, m + 1)
      <3>1. \A n \in 0..(m + 1) : n # 0 => n - 1 \in 0..m  BY <1>2
      <3>2. \A n \in 0..(m + 1) : n # 0 => h[n - 1] = g[n - 1]  BY <2>3, <3>1
      <3> QED BY <2>2, <3>2 DEF KeptUpTo
    <2> QED BY <1>2, <2>4
  <1> HIDE DEF T
  <1>3. Nat \subseteq T  BY <1>1, <1>2, Every
  <1> QED BY <1>3 DEF T

\* Kept() goes through s from the first to the last.
LEMMA KeptIs ==
  ASSUME NEW s, NEW S, Len(s) \in Nat
  PROVE  \E g : KeptUpTo(s, S, g, Len(s)) /\ Kept(s, S) = g[Len(s)]
  <1>1. Kept(s, S) = (CHOOSE g : KeptUpTo(s, S, g, Len(s)))[Len(s)]
    BY DEF Kept, KeptUpTo, KeptStep
  <1> QED BY <1>1, KeptExists

\* The sequence q has what the first n elements of s have in S.
KeptIn(s, S, q, n, V) ==
  /\ q \in Seq(V)
  /\ Len(q) <= n
  /\ \A k \in DOMAIN q : q[k] \in S /\ \E j \in 1..n : s[j] = q[k]
  /\ \A j \in 1..n : s[j] \in S => \E k \in DOMAIN q : q[k] = s[j]
  /\ Distinct(s) => Distinct(q)

\* One more element is looked at.
LEMMA KeptStepIn ==
  ASSUME NEW V, NEW s \in Seq(V), NEW S, NEW q, NEW n \in Nat, n + 1 <= Len(s),
         KeptIn(s, S, q, n, V)
  PROVE  KeptIn(s, S, KeptStep(s, S, q, n + 1), n + 1, V)
  <1>0. n + 1 \in DOMAIN s /\ s[n + 1] \in V /\ q \in Seq(V) /\ Len(q) \in Nat
    BY DEF KeptIn
  <1>1. CASE s[n + 1] \notin S
    <2>1. KeptStep(s, S, q, n + 1) = q  BY <1>1 DEF KeptStep
    <2>2. \A j \in 1..(n + 1) : j \in 1..n \/ j = n + 1  OBVIOUS
    <2>3. \A j \in 1..n : j \in 1..(n + 1)  OBVIOUS
    <2> QED BY <1>0, <1>1, <2>1, <2>2, <2>3 DEF KeptIn
  <1>2. CASE s[n + 1] \in S
    <2>1. PICK r : r = Append(q, s[n + 1])  OBVIOUS
    <2>2. KeptStep(s, S, q, n + 1) = r  BY <1>2, <2>1 DEF KeptStep
    <2>3. /\ r \in Seq(V) /\ Len(r) = Len(q) + 1 /\ DOMAIN r = 1..(Len(q) + 1)
          /\ r[Len(q) + 1] = s[n + 1]
          /\ \A k \in 1..Len(q) : r[k] = q[k]
      BY <1>0, <2>1
    <2>4. DOMAIN q = 1..Len(q)  BY <1>0
    <2>5. \A k \in DOMAIN r : k \in DOMAIN q \/ k = Len(q) + 1  BY <2>3, <2>4
    <2>6. \A k \in DOMAIN q : k \in DOMAIN r /\ r[k] = q[k]  BY <2>3, <2>4
    <2>7. Len(r) <= n + 1  BY <1>0, <2>3 DEF KeptIn
    <2>8. \A k \in DOMAIN r : r[k] \in S /\ \E j \in 1..(n + 1) : s[j] = r[k]
      <3>1. \A k \in DOMAIN q : q[k] \in S /\ \E j \in 1..n : s[j] = q[k]  BY DEF KeptIn
      <3>2. \A j \in 1..n : j \in 1..(n + 1)  OBVIOUS
      <3>3. n + 1 \in 1..(n + 1)  OBVIOUS
      <3> QED BY <1>2, <2>3, <2>5, <2>6, <3>1, <3>2, <3>3
    <2>9. \A j \in 1..(n + 1) : s[j] \in S => \E k \in DOMAIN r : r[k] = s[j]
      <3>1. \A j \in 1..n : s[j] \in S => \E k \in DOMAIN q : q[k] = s[j]  BY DEF KeptIn
      <3>2. Len(q) + 1 \in DOMAIN r  BY <1>0, <2>3
      <3>3. \A j \in 1..(n + 1) : j \in 1..n \/ j = n + 1  OBVIOUS
      <3> QED BY <2>3, <2>6, <3>1, <3>2, <3>3
    <2>10. ASSUME Distinct(s)
           PROVE  Distinct(r)
      <3>1. Distinct(q)  BY <2>10 DEF KeptIn
      <3>2. \A k \in DOMAIN q : q[k] # s[n + 1]
        <4>1. ASSUME NEW k \in DOMAIN q, q[k] = s[n + 1]
              PROVE  FALSE
          <5>1. PICK j \in 1..n : s[j] = q[k]  BY DEF KeptIn
          <5>2. j \in DOMAIN s /\ j # n + 1  BY <1>0
          <5> QED BY <1>0, <2>10, <4>1, <5>1, <5>2 DEF Distinct
        <4> QED BY <4>1
      <3> QED BY <2>3, <2>5, <2>6, <3>1, <3>2 DEF Distinct
    <2> QED BY <2>2, <2>3, <2>7, <2>8, <2>9, <2>10 DEF KeptIn
  <1> QED BY <1>1, <1>2

\* Kept() has what s has in S, as often as s has it.
LEMMA KeptFacts ==
  ASSUME NEW V, NEW s \in Seq(V), NEW S
  PROVE  KeptIn(s, S, Kept(s, S), Len(s), V)
  <1>0. Len(s) \in Nat  OBVIOUS
  <1>1. PICK g : KeptUpTo(s, S, g, Len(s)) /\ Kept(s, S) = g[Len(s)]
    BY <1>0, KeptIs
  <1>2. /\ g[0] = <<>>
        /\ \A n \in Nat : n + 1 <= Len(s) => g[n + 1] = KeptStep(s, S, g[n], n + 1)
    BY <1>0, <1>1 DEF KeptUpTo
  <1> DEFINE T == {n \in Nat : n <= Len(s) => KeptIn(s, S, g[n], n, V)}
  <1>3. 0 \in T
    <2>1. PICK q : q = <<>>  OBVIOUS
    <2>2. q \in Seq(V) /\ Len(q) = 0 /\ DOMAIN q = {}  BY <2>1
    <2>3. \A j \in 1..0 : FALSE  OBVIOUS
    <2>4. KeptIn(s, S, q, 0, V)  BY <2>2, <2>3 DEF KeptIn, Distinct
    <2> QED BY <1>2, <2>1, <2>4
  <1>4. ASSUME NEW n \in Nat, n \in T
        PROVE  n + 1 \in T
    BY <1>2, <1>4, KeptStepIn
  <1> HIDE DEF T
  <1>5. Nat \subseteq T  BY <1>3, <1>4, Every
  <1>6. KeptIn(s, S, g[Len(s)], Len(s), V)  BY <1>0, <1>5 DEF T
  <1> QED BY <1>1, <1>6


-----------------------------------------------------------------------------
(* Sums *)

Chosen(S) == CHOOSE x \in S : TRUE

SumStep(f, q, S) == f[Chosen(S)] + q

\* g is the sum for the subsets of S that are in D.
SumIn(f, D, g) == g = [s \in D |-> IF s = {} THEN 0 ELSE SumStep(f, g[s \ {Chosen(s)}], s)]

UpTo(S, n) == {s \in SUBSET S : Cardinality(s) <= n}

\* A set without the element that is chosen is smaller by one.
LEMMA Smaller ==
  ASSUME NEW s, IsFiniteSet(s), s # {}
  PROVE  /\ Chosen(s) \in s
         /\ IsFiniteSet(s \ {Chosen(s)})
         /\ Cardinality(s \ {Chosen(s)}) = Cardinality(s) - 1
         /\ Cardinality(s) \in Nat \ {0}
  <1>1. Chosen(s) \in s  BY DEF Chosen
  <1>2. Cardinality(s) \in Nat  BY FS_CardinalityType
  <1>3. Cardinality(s) # 0  BY FS_EmptySet
  <1> QED BY <1>1, <1>2, <1>3, FS_RemoveElement

\* The function that SumFunctionOnSet() is defined by.
LEMMA SumExists ==
  ASSUME NEW S, IsFiniteSet(S), NEW f
  PROVE  \E g : SumIn(f, SUBSET S, g)
  <1>0. Cardinality(S) \in Nat  BY FS_CardinalityType
  <1>1. \A s \in SUBSET S : IsFiniteSet(s) /\ Cardinality(s) \in Nat /\ Cardinality(s) <= Cardinality(S)
    BY FS_Subset, FS_CardinalityType
  <1> DEFINE T == {n \in Nat : \E g : SumIn(f, UpTo(S, n), g)}
  <1>2. 0 \in T
    <2>1. PICK g : g = [s \in UpTo(S, 0) |-> 0]  OBVIOUS
    <2>2. \A s \in UpTo(S, 0) : s = {}
      <3>1. \A s \in UpTo(S, 0) : s \in SUBSET S /\ Cardinality(s) <= 0  BY DEF UpTo
      <3>2. \A s \in UpTo(S, 0) : IsFiniteSet(s) /\ Cardinality(s) = 0  BY <1>1, <3>1
      <3> QED BY <3>2, FS_EmptySet
    <2>3. SumIn(f, UpTo(S, 0), g)  BY <2>1, <2>2 DEF SumIn
    <2> QED BY <2>3
  <1>3. ASSUME NEW n \in Nat, n \in T
        PROVE  n + 1 \in T
    <2>1. PICK g : SumIn(f, UpTo(S, n), g)  BY <1>3
    <2>2. PICK h : h = [s \in UpTo(S, n + 1) |-> IF s = {} THEN 0 ELSE SumStep(f, g[s \ {Chosen(s)}], s)]
      OBVIOUS
    <2>3. UpTo(S, n) \subseteq UpTo(S, n + 1)  BY <1>1 DEF UpTo
    <2>4. \A s \in UpTo(S, n) : h[s] = g[s]  BY <2>1, <2>2, <2>3 DEF SumIn
    <2>5. \A s \in UpTo(S, n + 1) : s # {} => s \ {Chosen(s)} \in UpTo(S, n)
      <3>1. SUFFICES ASSUME NEW s \in UpTo(S, n + 1), s # {}
                     PROVE  s \ {Chosen(s)} \in UpTo(S, n)
        OBVIOUS
      <3>2. s \in SUBSET S /\ Cardinality(s) <= n + 1  BY DEF UpTo
      <3>3. Cardinality(s \ {Chosen(s)}) = Cardinality(s) - 1 /\ Cardinality(s) \in Nat
        BY <1>1, <3>1, <3>2, Smaller
      <3>4. Cardinality(s \ {Chosen(s)}) <= n  BY <1>3, <3>2, <3>3
      <3> QED BY <3>2, <3>4 DEF UpTo
    <2>6. SumIn(f, UpTo(S, n + 1), h)  BY <2>2, <2>4, <2>5 DEF SumIn
    <2> QED BY <1>3, <2>6
  <1> HIDE DEF T
  <1>4. Nat \subseteq T  BY <1>2, <1>3, Every
  <1>5. UpTo(S, Cardinality(S)) = SUBSET S  BY <1>1 DEF UpTo
  <1> QED BY <1>0, <1>4, <1>5 DEF T

\* The sum over s does not depend on what s is a subset of.
LEMMA SumAgrees ==
  ASSUME NEW f, NEW R, NEW S, NEW g, NEW h, SumIn(f, SUBSET R, g), SumIn(f, SUBSET S, h),
         NEW s, s \subseteq R, s \subseteq S, IsFiniteSet(s)
  PROVE  g[s] = h[s]
  <1> DEFINE T == {n \in Nat : \A t \in SUBSET s : Cardinality(t) <= n => g[t] = h[t]}
  <1>1. \A t \in SUBSET s : IsFiniteSet(t) /\ Cardinality(t) \in Nat /\ t \subseteq R /\ t \subseteq S
    BY FS_Subset, FS_CardinalityType
  <1>2. g[{}] = 0 /\ h[{}] = 0  BY DEF SumIn
  <1>3. 0 \in T
    <2>1. \A t \in SUBSET s : Cardinality(t) <= 0 => t = {}
      <3>1. \A t \in SUBSET s : Cardinality(t) <= 0 => Cardinality(t) = 0  BY <1>1
      <3> QED BY <1>1, <3>1, FS_EmptySet
    <2> QED BY <1>2, <2>1
  <1>4. ASSUME NEW n \in Nat, n \in T
        PROVE  n + 1 \in T
    <2>1. ASSUME NEW t \in SUBSET s, Cardinality(t) <= n + 1, t # {}
          PROVE  g[t] = h[t]
      <3>1. Cardinality(t \ {Chosen(t)}) = Cardinality(t) - 1 /\ Cardinality(t) \in Nat
        BY <1>1, <2>1, Smaller
      <3>2. Cardinality(t \ {Chosen(t)}) <= n  BY <2>1, <3>1
      <3>3. t \ {Chosen(t)} \in SUBSET s  OBVIOUS
      <3>4. g[t \ {Chosen(t)}] = h[t \ {Chosen(t)}]  BY <1>4, <3>2, <3>3
      <3>5. g[t] = SumStep(f, g[t \ {Chosen(t)}], t) /\ h[t] = SumStep(f, h[t \ {Chosen(t)}], t)
        BY <1>1, <2>1 DEF SumIn
      <3> QED BY <3>4, <3>5
    <2>2. \A t \in SUBSET s : Cardinality(t) <= n + 1 => g[t] = h[t]  BY <1>2, <2>1
    <2> QED BY <1>4, <2>2
  <1> HIDE DEF T
  <1>5. Nat \subseteq T  BY <1>3, <1>4, Every
  <1>6. Cardinality(s) \in T  BY <1>1, <1>5
  <1> QED BY <1>1, <1>6 DEF T

\* How SumFunctionOnSet() is computed.
LEMMA SumIs ==
  ASSUME NEW f, NEW S, IsFiniteSet(S)
  PROVE  /\ S = {} => SumFunctionOnSet(f, S) = 0
         /\ S # {} => SumFunctionOnSet(f, S) = f[Chosen(S)] + SumFunctionOnSet(f, S \ {Chosen(S)})
  <1>1. \A R : SumFunctionOnSet(f, R) = (CHOOSE g : SumIn(f, SUBSET R, g))[R]
    BY DEF SumFunctionOnSet, FoldFunctionOnSet, MapThenFoldSet, SumIn, SumStep, Chosen
  <1>2. PICK g : SumIn(f, SUBSET S, g) /\ SumFunctionOnSet(f, S) = g[S]
    BY <1>1, SumExists
  <1>3. S = {} => g[S] = 0  BY <1>2 DEF SumIn
  <1>4. ASSUME S # {}
        PROVE  g[S] = f[Chosen(S)] + SumFunctionOnSet(f, S \ {Chosen(S)})
    <2>1. IsFiniteSet(S \ {Chosen(S)})  BY <1>4, Smaller
    <2>2. PICK h : /\ SumIn(f, SUBSET (S \ {Chosen(S)}), h)
                   /\ SumFunctionOnSet(f, S \ {Chosen(S)}) = h[S \ {Chosen(S)}]
      BY <1>1, <2>1, SumExists
    <2>3. g[S \ {Chosen(S)}] = h[S \ {Chosen(S)}]
      <3>1. PICK t : t = S \ {Chosen(S)}  OBVIOUS
      <3>2. t \subseteq S /\ t \subseteq t /\ IsFiniteSet(t) /\ SumIn(f, SUBSET t, h)
        BY <2>1, <2>2, <3>1
      <3>3. g[t] = h[t]  BY <1>2, <3>2, SumAgrees
      <3> QED BY <3>1, <3>3
    <2>4. g[S] = SumStep(f, g[S \ {Chosen(S)}], S)  BY <1>2, <1>4 DEF SumIn
    <2> QED BY <2>2, <2>3, <2>4 DEF SumStep
  <1> QED BY <1>2, <1>3, <1>4

\* A sum of natural numbers is one.
LEMMA SumNat ==
  ASSUME NEW f, NEW S, IsFiniteSet(S), \A x \in S : f[x] \in Nat
  PROVE  SumFunctionOnSet(f, S) \in Nat
  <1> DEFINE T == {n \in Nat : \A t \in SUBSET S : Cardinality(t) <= n => SumFunctionOnSet(f, t) \in Nat}
  <1>1. \A t \in SUBSET S : IsFiniteSet(t) /\ Cardinality(t) \in Nat
    BY FS_Subset, FS_CardinalityType
  <1>2. 0 \in T
    <2>1. \A t \in SUBSET S : Cardinality(t) <= 0 => t = {}
      <3>1. \A t \in SUBSET S : Cardinality(t) <= 0 => Cardinality(t) = 0  BY <1>1
      <3> QED BY <1>1, <3>1, FS_EmptySet
    <2>2. SumFunctionOnSet(f, {}) = 0  BY FS_EmptySet, SumIs
    <2>3. \A t \in SUBSET S : Cardinality(t) <= 0 => SumFunctionOnSet(f, t) \in Nat
      BY <2>1, <2>2
    <2> QED BY <2>3
  <1>3. ASSUME NEW n \in Nat, n \in T
        PROVE  n + 1 \in T
    <2>1. ASSUME NEW t \in SUBSET S, Cardinality(t) <= n + 1, t # {}
          PROVE  SumFunctionOnSet(f, t) \in Nat
      <3>1. Cardinality(t \ {Chosen(t)}) = Cardinality(t) - 1 /\ Cardinality(t) \in Nat /\ Chosen(t) \in t
        BY <1>1, <2>1, Smaller
      <3>2. Cardinality(t \ {Chosen(t)}) <= n  BY <2>1, <3>1
      <3>3. t \ {Chosen(t)} \in SUBSET S  OBVIOUS
      <3>4. SumFunctionOnSet(f, t \ {Chosen(t)}) \in Nat  BY <1>3, <3>2, <3>3
      <3>5. SumFunctionOnSet(f, t) = f[Chosen(t)] + SumFunctionOnSet(f, t \ {Chosen(t)})
        BY <1>1, <2>1, SumIs
      <3>6. f[Chosen(t)] \in Nat  BY <3>1
      <3> QED BY <3>4, <3>5, <3>6
    <2>2. SumFunctionOnSet(f, {}) = 0  BY <1>1, SumIs
    <2>3. \A t \in SUBSET S : Cardinality(t) <= n + 1 => SumFunctionOnSet(f, t) \in Nat
      BY <2>1, <2>2
    <2> QED BY <1>3, <2>3
  <1> HIDE DEF T
  <1>4. Nat \subseteq T  BY <1>2, <1>3, Every
  <1>5. Cardinality(S) \in T  BY <1>1, <1>4
  <1> QED BY <1>1, <1>5 DEF T

\* The sum does not depend on the order: any element may be taken out.
LEMMA SumTake ==
  ASSUME NEW f, NEW S, IsFiniteSet(S), \A x \in S : f[x] \in Nat, NEW x \in S
  PROVE  SumFunctionOnSet(f, S) = f[x] + SumFunctionOnSet(f, S \ {x})
  <1> DEFINE T == {n \in Nat : \A t \in SUBSET S : \A y \in t : Cardinality(t) <= n =>
                     SumFunctionOnSet(f, t) = f[y] + SumFunctionOnSet(f, t \ {y})}
  <1>1. \A t \in SUBSET S : /\ IsFiniteSet(t) /\ Cardinality(t) \in Nat
                            /\ SumFunctionOnSet(f, t) \in Nat
    BY FS_Subset, FS_CardinalityType, SumNat
  <1>2. 0 \in T
    <2>1. \A t \in SUBSET S : Cardinality(t) <= 0 => t = {}
      <3>1. \A t \in SUBSET S : Cardinality(t) <= 0 => Cardinality(t) = 0  BY <1>1
      <3> QED BY <1>1, <3>1, FS_EmptySet
    <2> QED BY <2>1
  <1>3. ASSUME NEW n \in Nat, n \in T
        PROVE  n + 1 \in T
    <2>1. ASSUME NEW t \in SUBSET S, NEW y \in t, Cardinality(t) <= n + 1
          PROVE  SumFunctionOnSet(f, t) = f[y] + SumFunctionOnSet(f, t \ {y})
      <3>1. PICK a : a = Chosen(t)  OBVIOUS
      <3>2. /\ a \in t
            /\ Cardinality(t \ {a}) = Cardinality(t) - 1
            /\ Cardinality(t) \in Nat
        BY <1>1, <2>1, <3>1, Smaller
      <3>3. SumFunctionOnSet(f, t) = f[a] + SumFunctionOnSet(f, t \ {a})
        BY <1>1, <2>1, <3>1, SumIs
      <3>4. CASE y = a  BY <3>3, <3>4
      <3>5. CASE y # a
        <4>1. Cardinality(t \ {y}) = Cardinality(t) - 1  BY <1>1, FS_RemoveElement
        <4>2. Cardinality(t \ {a}) <= n /\ Cardinality(t \ {y}) <= n  BY <2>1, <3>2, <4>1
        <4>3. t \ {a} \in SUBSET S /\ t \ {y} \in SUBSET S /\ y \in t \ {a} /\ a \in t \ {y}
          BY <3>2, <3>5
        <4>4. SumFunctionOnSet(f, t \ {a}) = f[y] + SumFunctionOnSet(f, (t \ {a}) \ {y})
          BY <1>3, <4>2, <4>3
        <4>5. SumFunctionOnSet(f, t \ {y}) = f[a] + SumFunctionOnSet(f, (t \ {y}) \ {a})
          BY <1>3, <4>2, <4>3
        <4>6. (t \ {a}) \ {y} = (t \ {y}) \ {a}  OBVIOUS
        <4>7. PICK q : q = SumFunctionOnSet(f, (t \ {y}) \ {a})  OBVIOUS
        <4>8. (t \ {y}) \ {a} \in SUBSET S  OBVIOUS
        <4>9. q \in Nat /\ f[a] \in Nat /\ f[y] \in Nat  BY <1>1, <3>2, <4>7, <4>8
        <4>10. SumFunctionOnSet(f, t \ {a}) = f[y] + q  BY <4>4, <4>7, <4>6
        <4>11. SumFunctionOnSet(f, t \ {y}) = f[a] + q  BY <4>5, <4>7
        <4>12. f[a] + (f[y] + q) = f[y] + (f[a] + q)  BY <4>9
        <4>13. SumFunctionOnSet(f, t) = f[a] + (f[y] + q)  BY <3>3, <4>10
        <4> QED BY <4>11, <4>12, <4>13
      <3> QED BY <3>4, <3>5
    <2> QED BY <1>3, <2>1
  <1> HIDE DEF T
  <1>4. Nat \subseteq T  BY <1>2, <1>3, Every
  <1>5. Cardinality(S) \in T  BY <1>1, <1>4
  <1> QED BY <1>1, <1>5 DEF T

\* The sum depends only on what is added.
LEMMA SumSame ==
  ASSUME NEW f, NEW h, NEW S, IsFiniteSet(S), \A x \in S : f[x] = h[x]
  PROVE  SumFunctionOnSet(f, S) = SumFunctionOnSet(h, S)
  <1> DEFINE T == {n \in Nat : \A t \in SUBSET S : Cardinality(t) <= n =>
                                 SumFunctionOnSet(f, t) = SumFunctionOnSet(h, t)}
  <1>1. \A t \in SUBSET S : IsFiniteSet(t) /\ Cardinality(t) \in Nat
    BY FS_Subset, FS_CardinalityType
  <1>2. SumFunctionOnSet(f, {}) = SumFunctionOnSet(h, {})
    <2>1. SumFunctionOnSet(f, {}) = 0 /\ SumFunctionOnSet(h, {}) = 0  BY <1>1, SumIs
    <2> QED BY <2>1
  <1>3. 0 \in T
    <2>1. \A t \in SUBSET S : Cardinality(t) <= 0 => t = {}
      <3>1. \A t \in SUBSET S : Cardinality(t) <= 0 => Cardinality(t) = 0  BY <1>1
      <3> QED BY <1>1, <3>1, FS_EmptySet
    <2> QED BY <1>2, <2>1
  <1>4. ASSUME NEW n \in Nat, n \in T
        PROVE  n + 1 \in T
    <2>1. ASSUME NEW t \in SUBSET S, Cardinality(t) <= n + 1, t # {}
          PROVE  SumFunctionOnSet(f, t) = SumFunctionOnSet(h, t)
      <3>1. Cardinality(t \ {Chosen(t)}) = Cardinality(t) - 1 /\ Cardinality(t) \in Nat /\ Chosen(t) \in t
        BY <1>1, <2>1, Smaller
      <3>2. Cardinality(t \ {Chosen(t)}) <= n  BY <2>1, <3>1
      <3>3. t \ {Chosen(t)} \in SUBSET S  OBVIOUS
      <3>4. SumFunctionOnSet(f, t \ {Chosen(t)}) = SumFunctionOnSet(h, t \ {Chosen(t)})
        BY <1>4, <3>2, <3>3
      <3>5. /\ SumFunctionOnSet(f, t) = f[Chosen(t)] + SumFunctionOnSet(f, t \ {Chosen(t)})
            /\ SumFunctionOnSet(h, t) = h[Chosen(t)] + SumFunctionOnSet(h, t \ {Chosen(t)})
        BY <1>1, <2>1, SumIs
      <3>6. f[Chosen(t)] = h[Chosen(t)]  BY <3>1
      <3> QED BY <3>4, <3>5, <3>6
    <2>2. \A t \in SUBSET S : Cardinality(t) <= n + 1 => SumFunctionOnSet(f, t) = SumFunctionOnSet(h, t)
      BY <1>2, <2>1
    <2> QED BY <1>4, <2>2
  <1> HIDE DEF T
  <1>5. Nat \subseteq T  BY <1>3, <1>4, Every
  <1>6. Cardinality(S) \in T  BY <1>1, <1>5
  <1> QED BY <1>1, <1>6 DEF T

-----------------------------------------------------------------------------
(* Files *)

\* The greater of two numbers.
LEMMA MaxOfTwo ==
  ASSUME NEW a \in Nat, NEW b \in Nat
  PROVE  Max({a, b}) = IF a >= b THEN a ELSE b
  <1>1. PICK m : m = IF a >= b THEN a ELSE b  OBVIOUS
  <1>2. m \in {a, b} /\ \A x \in {a, b} : m >= x  BY <1>1
  <1>3. \A k \in {a, b} : (\A x \in {a, b} : k >= x) => k = m  BY <1>2
  <1>4. Max({a, b}) = m  BY <1>2, <1>3 DEF Max
  <1> QED BY <1>1, <1>4

\* A function from the first numbers is a sequence.
LEMMA FunctionIsSeq ==
  ASSUME NEW V, NEW m \in Nat, NEW t \in [1..m -> V]
  PROVE  t \in Seq(V) /\ Len(t) = m
  <1>1. t \in Seq(V)  BY SeqDef
  <1>2. Len(t) \in Nat /\ DOMAIN t = 1..Len(t)  BY <1>1, LenProperties
  <1> QED BY <1>1, <1>2

\* What a file is after it was written to.
LEMMA OverwriteIs ==
  ASSUME NEW s \in Content, NEW off \in Nat, NEW n \in Nat, NEW d \in 0..MaxDownloads
  PROVE  /\ Overwrite(s, off, n, d) \in Content
         /\ Len(Overwrite(s, off, n, d)) = IF Len(s) >= off + n THEN Len(s) ELSE off + n
  <1>0. Len(s) \in Nat /\ s \in [1..Len(s) -> 0..MaxDownloads]
    BY LenProperties DEF Content
  <1>1. PICK m : m = IF Len(s) >= off + n THEN Len(s) ELSE off + n
    OBVIOUS
  <1>2. m \in Nat /\ off + n \in Nat  BY <1>0, <1>1
  <1>2a. Max({Len(s), off + n}) = m  BY <1>0, <1>1, <1>2, MaxOfTwo
  <1>3. MaxDownloads \in Nat  BY HttpCacheAssumption
  <1>4. PICK t : t = [i \in 1..m |->
                        IF i > off /\ i <= off + n THEN d ELSE IF i <= Len(s) THEN s[i] ELSE 0]
    OBVIOUS
  <1>5. Overwrite(s, off, n, d) = t  BY <1>2a, <1>4 DEF Overwrite
  <1>6. t \in [1..m -> 0..MaxDownloads]  BY <1>0, <1>2, <1>3, <1>4
  <1>7. t \in Seq(0..MaxDownloads) /\ Len(t) = m  BY <1>2, <1>6, FunctionIsSeq
  <1> QED BY <1>1, <1>5, <1>7 DEF Content

-----------------------------------------------------------------------------
(* An object is changed *)

\* The fields of a cache.
LEMMA Fields ==
  ASSUME NEW c \in Cache
  PROVE  /\ c.obj \in [Obj -> CacheObj]
         /\ c.hash \in [Id -> Obj \cup {None, Freed}]
         /\ c.lru \in Seq(Obj)
         /\ c.size \in Nat
         /\ c.modified \in BOOLEAN
         /\ c.name \in [Id -> 0..MaxDownloads]
         /\ c.disk \in [Download -> Content]
  BY DEF Cache

\* Only the object o is not the same, it is x, and files.
Puts(c, d, o, x) ==
  /\ d.obj = [c.obj EXCEPT ![o] = x]
  /\ d.hash = c.hash
  /\ d.lru = c.lru
  /\ d.size = c.size
  /\ d.modified = c.modified
  /\ d.name = c.name

\* The file that x has open is written up to piece n.
Wrote(disk, x, n) ==
  IF x.fd = 0 \/ n <= x.out THEN disk
  ELSE [disk EXCEPT ![x.fd] = Overwrite(@, x.off, n - x.out, x.tag)]

Advanced(x, n) ==
  IF x.fd = 0 \/ n <= x.out THEN x
  ELSE [x EXCEPT !.out = n, !.off = @ + n - x.out]

\* WriteOut() changes only the object and its file.
LEMMA WriteOutIs ==
  ASSUME NEW c \in Cache, NEW o \in Obj, NEW n \in Nat
  PROVE  /\ WriteOut(c, o, n) \in Cache
         /\ Puts(c, WriteOut(c, o, n), o, Advanced(c.obj[o], n))
         /\ Advanced(c.obj[o], n) \in CacheObj
         /\ WriteOut(c, o, n).disk = Wrote(c.disk, c.obj[o], n)
  <1> DEFINE x == c.obj[o]
             d == WriteOut(c, o, n)
  <1>0. x \in CacheObj  BY DEF Cache
  <1>1. CASE x.fd = 0 \/ n <= x.out
    <2>1. d = c /\ Advanced(x, n) = x  BY <1>1 DEF WriteOut, Advanced
    <2>2. c.obj = [c.obj EXCEPT ![o] = x]  BY DEF Cache
    <2> QED BY <1>0, <1>1, <2>1, <2>2 DEF Puts, Wrote
  <1>2. CASE ~(x.fd = 0 \/ n <= x.out)
    <2>0. x.fd \in Download /\ x.out \in Nat /\ x.off \in Nat /\ x.tag \in 0..MaxDownloads
      BY <1>0, <1>2, HttpCacheAssumption DEF CacheObj, Download
    <2>1. n - x.out \in Nat  BY <1>2, <2>0
    <2>2. c.disk[x.fd] \in Content  BY <2>0 DEF Cache
    <2>3. PICK w : w = Overwrite(c.disk[x.fd], x.off, n - x.out, x.tag)  OBVIOUS
    <2>4. w \in Content  BY <2>0, <2>1, <2>2, <2>3, OverwriteIs
    <2>5. d = [c EXCEPT !.disk = [c.disk EXCEPT ![x.fd] = w],
                        !.obj = [c.obj EXCEPT ![o] = [x EXCEPT !.out = n, !.off = x.off + n - x.out]]]
      BY <1>2, <2>3, ZenonT(40) DEF WriteOut, Cache
    <2>6. Advanced(x, n) = [x EXCEPT !.out = n, !.off = x.off + n - x.out]
      BY <1>2 DEF Advanced
    <2>7. Advanced(x, n) \in CacheObj
      <3>1. x.off + n - x.out \in Nat  BY <2>0, <2>1
      <3> QED BY <1>0, <2>6, <3>1 DEF CacheObj
    <2>8. [c.disk EXCEPT ![x.fd] = w] \in [Download -> Content]  BY <2>0, <2>4 DEF Cache
    <2>9. d \in Cache
      <3>1. PICK p \in [Obj -> CacheObj] : p = [c.obj EXCEPT ![o] = Advanced(x, n)]
        BY <2>7, Fields
      <3>2. PICK k \in [Download -> Content] : k = [c.disk EXCEPT ![x.fd] = w]
        BY <2>8
      <3>3. d = [c EXCEPT !.disk = k, !.obj = p]  BY <2>5, <2>6, <3>1, <3>2
      <3> QED BY <3>3 DEF Cache
    <2>10. Wrote(c.disk, x, n) = [c.disk EXCEPT ![x.fd] = w]  BY <1>2, <2>3 DEF Wrote
    <2> QED BY <2>5, <2>6, <2>7, <2>9, <2>10 DEF Puts, Cache
  <1> QED BY <1>1, <1>2

\* How much of the object is written when its file is closed.
Ended(x) == IF x.tag = 0 THEN 0 ELSE x.size

\* CloseFile() leaves the object without a file.
LEMMA CloseFileIs ==
  ASSUME NEW c \in Cache, NEW o \in Obj
  PROVE  /\ CloseFile(c, o) \in Cache
         /\ Puts(c, CloseFile(c, o), o, Closed(c.obj[o]))
         /\ Closed(c.obj[o]) \in CacheObj
         /\ CloseFile(c, o).disk = Wrote(c.disk, c.obj[o], Ended(c.obj[o]))
  <1>0. c.obj[o] \in CacheObj  BY DEF Cache
  <1>1. PICK n \in Nat : n = Ended(c.obj[o])
    BY <1>0 DEF Ended, CacheObj
  <1>2. PICK e : e = WriteOut(c, o, n)  OBVIOUS
  <1>3. /\ e \in Cache
        /\ Puts(c, e, o, Advanced(c.obj[o], n))
        /\ e.disk = Wrote(c.disk, c.obj[o], n)
    BY <1>2, WriteOutIs
  <1>4. CloseFile(c, o) = [e EXCEPT !.obj[o] = Closed(@)]
    BY <1>1, <1>2 DEF CloseFile, Ended
  <1>5. e.obj[o] = Advanced(c.obj[o], n)  BY <1>3 DEF Puts, Cache
  <1>6. Closed(e.obj[o]) = Closed(c.obj[o])
    BY <1>0, <1>5 DEF Closed, Advanced, CacheObj
  <1>7. Closed(c.obj[o]) \in CacheObj
    <2>1. <<>> \in Content  BY DEF Content
    <2>2. 0 \in Nat /\ 0 \in 0..MaxDownloads  BY HttpCacheAssumption
    <2> QED BY <1>0, <2>1, <2>2 DEF Closed, Free, CacheObj
  <1>8. CloseFile(c, o) = [e EXCEPT !.obj = [e.obj EXCEPT ![o] = Closed(c.obj[o])]]
    BY <1>3, <1>4, <1>6 DEF Cache
  <1>9. CloseFile(c, o) \in Cache
    <2>1. PICK p \in [Obj -> CacheObj] : p = [e.obj EXCEPT ![o] = Closed(c.obj[o])]
      BY <1>3, <1>7, Fields
    <2> QED BY <1>3, <1>8, <2>1 DEF Cache
  <1>10. Puts(c, CloseFile(c, o), o, Closed(c.obj[o]))
    BY <1>3, <1>8 DEF Puts, Cache
  <1>11. CloseFile(c, o).disk = e.disk  BY <1>3, <1>8 DEF Cache
  <1> QED BY <1>1, <1>3, <1>7, <1>9, <1>10, <1>11

-----------------------------------------------------------------------------
(* The books *)

\* What an object adds to the size of the cache.
Weight(x) == IF x.id # None /\ ~x.deleted THEN x.size ELSE 0

Rest(obj, o) == SumFunctionOnSet([p \in Obj |-> obj[p].size], Kin(obj) \ {o})

\* The objects are finitely many.
LEMMA ObjFinite ==
  /\ IsFiniteSet(Obj)
  /\ Cardinality(Obj) = MaxDownloads
  /\ \A S \in SUBSET Obj : IsFiniteSet(S) /\ Cardinality(S) \in Nat
  <1>1. MaxDownloads \in Nat  BY HttpCacheAssumption
  <1>2. IsFiniteSet(1..MaxDownloads) /\ Cardinality(1..MaxDownloads) = MaxDownloads
    BY <1>1, FS_Interval
  <1>3. \A S \in SUBSET Obj : IsFiniteSet(S) /\ Cardinality(S) \in Nat
    BY <1>2, FS_Subset, FS_CardinalityType DEF Obj
  <1> QED BY <1>2, <1>3 DEF Obj

\* The size of the cache is that of an object, and that of the rest.
LEMMA CountsSplit ==
  ASSUME NEW obj \in [Obj -> CacheObj], NEW o \in Obj
  PROVE  /\ Rest(obj, o) \in Nat
         /\ Weight(obj[o]) \in Nat
         /\ Counts(obj) = Rest(obj, o) + Weight(obj[o])
  <1>1. PICK f : f = [p \in Obj |-> obj[p].size]  OBVIOUS
  <1>2. \A p \in Obj : f[p] \in Nat /\ f[p] = obj[p].size  BY <1>1 DEF CacheObj
  <1>3. IsFiniteSet(Kin(obj)) /\ IsFiniteSet(Kin(obj) \ {o})  BY ObjFinite DEF Kin
  <1>4. Counts(obj) = SumFunctionOnSet(f, Kin(obj)) /\ Rest(obj, o) = SumFunctionOnSet(f, Kin(obj) \ {o})
    BY <1>1 DEF Counts, Rest
  <1>5. \A p \in Kin(obj) : f[p] \in Nat  BY <1>2 DEF Kin
  <1>6. Rest(obj, o) \in Nat
    <2>1. PICK S : S = Kin(obj) \ {o}  OBVIOUS
    <2>2. SumFunctionOnSet(f, S) \in Nat  BY <1>3, <1>5, <2>1, SumNat
    <2> QED BY <1>4, <2>1, <2>2
  <1>7. CASE o \in Kin(obj)
    <2>1. Counts(obj) = f[o] + Rest(obj, o)  BY <1>3, <1>4, <1>5, <1>7, SumTake
    <2>2. Weight(obj[o]) = f[o]  BY <1>2, <1>7 DEF Weight, Kin
    <2> QED BY <1>2, <1>6, <2>1, <2>2
  <1>8. CASE o \notin Kin(obj)
    <2>1. Kin(obj) \ {o} = Kin(obj)  BY <1>8
    <2>2. Weight(obj[o]) = 0  BY <1>8 DEF Weight, Kin
    <2> QED BY <1>4, <1>6, <2>1, <2>2
  <1> QED BY <1>7, <1>8

\* The rest is the same when only an object changes.
LEMMA RestSame ==
  ASSUME NEW obj \in [Obj -> CacheObj], NEW o \in Obj, NEW x \in CacheObj
  PROVE  /\ Rest([obj EXCEPT ![o] = x], o) = Rest(obj, o)
         /\ [obj EXCEPT ![o] = x] \in [Obj -> CacheObj]
         /\ [obj EXCEPT ![o] = x][o] = x
         /\ \A p \in Obj \ {o} : [obj EXCEPT ![o] = x][p] = obj[p]
  <1>1. PICK q : q = [obj EXCEPT ![o] = x]  OBVIOUS
  <1>2. q \in [Obj -> CacheObj] /\ q[o] = x /\ \A p \in Obj \ {o} : q[p] = obj[p]
    BY <1>1
  <1>3. Kin(q) \ {o} = Kin(obj) \ {o}  BY <1>2 DEF Kin
  <1>4. PICK S : S = Kin(obj) \ {o}  OBVIOUS
  <1>5. PICK f : f = [p \in Obj |-> q[p].size]  OBVIOUS
  <1>6. PICK h : h = [p \in Obj |-> obj[p].size]  OBVIOUS
  <1>7. \A p \in S : f[p] = h[p]  BY <1>2, <1>4, <1>5, <1>6 DEF Kin
  <1>8. IsFiniteSet(S)  BY <1>4, ObjFinite DEF Kin
  <1>9. SumFunctionOnSet(f, S) = SumFunctionOnSet(h, S)  BY <1>7, <1>8, SumSame
  <1>10. Rest(q, o) = Rest(obj, o)  BY <1>3, <1>4, <1>5, <1>6, <1>9 DEF Rest
  <1> QED BY <1>1, <1>2, <1>10

\* Nothing that the books are about differs.
Same(x, y) == x.id = y.id /\ x.size = y.size /\ x.deleted = y.deleted

\* The books are kept by what does not concern them.
LEMMA Relabelled ==
  ASSUME NEW c, NEW n \in Nat, NEW ind, NEW bad, BooksOK(c, n, ind, bad),
         NEW d \in Cache, NEW o \in Obj, NEW x \in CacheObj,
         Puts(c, d, o, x), Same(c.obj[o], x), Formed(x)
  PROVE  BooksOK(d, n, ind, bad)
  <1>1. /\ c \in Cache /\ c.obj \in [Obj -> CacheObj] /\ d.obj \in [Obj -> CacheObj]
        /\ d.obj[o] = x
        /\ \A p \in Obj \ {o} : d.obj[p] = c.obj[p]
        /\ d.hash = c.hash /\ d.lru = c.lru /\ d.size = c.size /\ d.modified = c.modified
    BY Fields DEF BooksOK, Puts
  <1>2. \A p \in Obj : Same(c.obj[p], d.obj[p])  BY <1>1 DEF Same
  <1>3. AllFormed(d.obj)  BY <1>1 DEF AllFormed, BooksOK
  <1>4. Hashed(d.obj, d.hash, bad)  BY <1>1, <1>2 DEF Hashed, BooksOK, Same
  <1>5. Listed(d.obj, d.lru, n)
    <2>1. Held(d.obj) = Held(c.obj)  BY <1>2 DEF Held, Same
    <2> QED BY <1>1, <1>2, <2>1 DEF Listed, BooksOK, Same
  <1>6. Counts(d.obj) = Counts(c.obj)
    <2>1. Rest(d.obj, o) = Rest(c.obj, o)  BY <1>1, RestSame DEF Puts
    <2>2. Weight(d.obj[o]) = Weight(c.obj[o])  BY <1>2 DEF Weight, Same
    <2> QED BY <1>1, <2>1, <2>2, CountsSplit
  <1>7. Sized(d.obj, d.size, bad)  BY <1>1, <1>6 DEF Sized, BooksOK
  <1>8. Current(d.obj, d.modified, ind, bad)
    <2>1. Current(c.obj, c.modified, ind, bad)  BY DEF BooksOK
    <2> QED BY <1>1, <1>2, <2>1 DEF Current, Same
  <1> QED BY <1>3, <1>4, <1>5, <1>7, <1>8 DEF BooksOK

\* What is free.
LEMMA FreeIs == Free \in CacheObj /\ Formed(Free) /\ Weight(Free) = 0
  <1>1. Free \in CacheObj
    <2>1. <<>> \in Content  BY DEF Content
    <2>2. 0 \in Nat /\ 0 \in 0..MaxDownloads  BY HttpCacheAssumption
    <2>3. 0 \in 0..(Cardinality(Client) + 1)
      BY HttpCacheAssumption, FS_CardinalityType
    <2> QED BY <2>1, <2>2, <2>3 DEF Free, CacheObj
  <1>2. Formed(Free)
    <2>1. Shut(Free)  BY DEF Free, Shut
    <2> QED BY <2>1 DEF Formed, Free
  <1> QED BY <1>1, <1>2 DEF Weight, Free

\* The list without an object.
LEMMA WithoutIs ==
  ASSUME NEW s \in Seq(Obj), NEW o \in Obj
  PROVE  /\ Without(s, o) \in Seq(Obj)
         /\ Distinct(s) => Distinct(Without(s, o))
         /\ \A p \in Obj : Has(Without(s, o), p) <=> p # o /\ Has(s, p)
  <1>1. PICK S : S = Obj \ {o}  OBVIOUS
  <1>2. PICK w : w = Kept(s, S)  OBVIOUS
  <1>3. KeptIn(s, S, w, Len(s), Obj)  BY <1>2, KeptFacts
  <1>4. Without(s, o) = w  BY <1>1, <1>2 DEF Without
  <1>5. DOMAIN s = 1..Len(s)  OBVIOUS
  <1>6. /\ w \in Seq(Obj)
        /\ \A k \in DOMAIN w : w[k] \in S /\ \E j \in DOMAIN s : s[j] = w[k]
        /\ \A j \in DOMAIN s : s[j] \in S => \E k \in DOMAIN w : w[k] = s[j]
        /\ Distinct(s) => Distinct(w)
    BY <1>3, <1>5 DEF KeptIn
  <1> QED BY <1>1, <1>4, <1>6, SMTT(30) DEF Has

\* The object o is destroyed.
Drops(c, d, o) ==
  /\ d.obj = [c.obj EXCEPT ![o] = Free]
  /\ d.hash = [i \in Id |-> IF c.hash[i] = o THEN Freed ELSE c.hash[i]]
  /\ d.lru = Without(c.lru, o)
  /\ d.size = c.size
  /\ d.modified = c.modified
  /\ d.name = c.name

\* Destroy() destroys it.
LEMMA DestroyIs ==
  ASSUME NEW c \in Cache, NEW o \in Obj
  PROVE  /\ Destroy(c, o) \in Cache
         /\ Drops(c, Destroy(c, o), o)
         /\ Destroy(c, o).disk = c.disk
  <1>1. PICK p \in [Obj -> CacheObj] : p = [c.obj EXCEPT ![o] = Free]
    BY FreeIs, Fields
  <1>2. PICK w \in Seq(Obj) : w = Without(c.lru, o)
    BY WithoutIs, Fields
  <1>3. PICK h : h = [i \in Id |-> IF c.hash[i] = o THEN Freed ELSE c.hash[i]]
    OBVIOUS
  <1>4. h \in [Id -> Obj \cup {None, Freed}]  BY <1>3, Fields
  <1>5. Destroy(c, o) = [c EXCEPT !.obj = p, !.lru = w, !.hash = h]
    BY <1>1, <1>2, <1>3 DEF Destroy
  <1>6. Destroy(c, o) \in Cache  BY <1>4, <1>5 DEF Cache
  <1> QED BY <1>1, <1>2, <1>3, <1>5, <1>6 DEF Drops, Cache

\* None and Freed are no objects, and None is no resource.
LEMMA NoObjects == None \notin Obj /\ Freed \notin Obj /\ None \notin Id /\ None # Freed
  BY HttpCacheAssumption DEF Obj

\* The books are kept when an object is destroyed that was deleted.
LEMMA Destroyed ==
  ASSUME NEW c, NEW n \in Nat, NEW ind, NEW bad, BooksOK(c, n, ind, bad),
         NEW d \in Cache, NEW o \in Obj, Drops(c, d, o), c.obj[o].deleted
  PROVE  BooksOK(d, n, ind, bad)
  <1>1. /\ c \in Cache /\ c.obj \in [Obj -> CacheObj] /\ d.obj \in [Obj -> CacheObj]
        /\ d.obj[o] = Free
        /\ \A p \in Obj \ {o} : d.obj[p] = c.obj[p]
        /\ d.size = c.size /\ d.modified = c.modified
    BY Fields, FreeIs DEF BooksOK, Drops
  <1>2. AllFormed(d.obj)  BY <1>1, FreeIs DEF AllFormed, BooksOK
  <1>3. Hashed(d.obj, d.hash, bad)
    <2>1. \A i \in Id : d.hash[i] = IF c.hash[i] = o THEN Freed ELSE c.hash[i]
      BY DEF Drops
    <2>2. Hashed(c.obj, c.hash, bad)  BY DEF BooksOK
    <2>3. \A i \in Id : d.hash[i] \in Obj => d.hash[i] = c.hash[i] /\ d.hash[i] # o
      BY <2>1, NoObjects
    <2>4. \A i \in Id : c.hash[i] = o => bad  BY <2>2, NoObjects DEF Hashed
    <2> QED BY <1>1, <2>1, <2>2, <2>3, <2>4, NoObjects DEF Hashed
  <1>4. Listed(d.obj, d.lru, n)
    <2>1. Listed(c.obj, c.lru, n) /\ c.lru \in Seq(Obj)  BY <1>1, Fields DEF BooksOK
    <2>2. Distinct(d.lru)  BY <2>1, WithoutIs DEF Listed, Drops
    <2>3. \A p \in Obj : Has(d.lru, p) <=> p # o /\ Has(c.lru, p)
      BY <2>1, WithoutIs, SMTT(30) DEF Drops
    <2>4. \A p \in Obj : d.obj[p].id # None <=> p # o /\ c.obj[p].id # None
      BY <1>1 DEF Free
    <2>5. Held(d.obj) \subseteq Held(c.obj)  BY <2>4 DEF Held
    <2>6. IsFiniteSet(Held(c.obj)) /\ Cardinality(Held(c.obj)) \in Nat  BY ObjFinite DEF Held
    <2>7. Cardinality(Held(d.obj)) <= Cardinality(Held(c.obj)) /\ Cardinality(Held(d.obj)) \in Nat
      <3>1. PICK S : S = Held(d.obj)  OBVIOUS
      <3>2. PICK R : R = Held(c.obj)  OBVIOUS
      <3>3. S \in SUBSET R /\ IsFiniteSet(R)  BY <2>5, <2>6, <3>1, <3>2
      <3>4. IsFiniteSet(S) /\ Cardinality(S) <= Cardinality(R)  BY <3>3, FS_Subset
      <3> QED BY <3>1, <3>2, <3>4, FS_CardinalityType
    <2>8. Cardinality(Held(d.obj)) <= n  BY <2>1, <2>6, <2>7 DEF Listed
    <2> QED BY <2>1, <2>2, <2>3, <2>4, <2>8 DEF Listed
  <1>5. Counts(d.obj) = Counts(c.obj)
    <2>1. Rest(d.obj, o) = Rest(c.obj, o)  BY <1>1, FreeIs, RestSame DEF Drops
    <2>2. Weight(d.obj[o]) = 0 /\ Weight(c.obj[o]) = 0  BY <1>1, FreeIs DEF Weight
    <2> QED BY <1>1, <2>1, <2>2, CountsSplit
  <1>6. Sized(d.obj, d.size, bad)  BY <1>1, <1>5 DEF Sized, BooksOK
  <1>7. Current(d.obj, d.modified, ind, bad)  BY <1>1 DEF Current, BooksOK
  <1> QED BY <1>2, <1>3, <1>4, <1>6, <1>7 DEF BooksOK

\* The object x is deleted, and not written any more.
Gone(x) == [x EXCEPT !.deleted = TRUE, !.quiet = (@ \/ x.fd # 0)]

\* The object o is deleted, with its name.
Marks(c, d, o) ==
  /\ d.obj = [c.obj EXCEPT ![o] = Gone(c.obj[o])]
  /\ d.hash = [c.hash EXCEPT ![c.obj[o].id] = None]
  /\ d.lru = c.lru
  /\ d.size = c.size - c.obj[o].size
  /\ d.modified = TRUE
  /\ d.name = [c.name EXCEPT ![c.obj[o].id] = 0]

\* What is deleted is formed as it should be.
LEMMA GoneIs ==
  ASSUME NEW x \in CacheObj, Formed(x), x.id # None
  PROVE  /\ Gone(x) \in CacheObj /\ Formed(Gone(x)) /\ Weight(Gone(x)) = 0
         /\ Gone(x).id = x.id /\ Gone(x).size = x.size /\ Gone(x).ref = x.ref
         /\ Gone(x).deleted
  <1>1. PICK q \in BOOLEAN : q = (x.quiet \/ x.fd # 0)  OBVIOUS
  <1>2. Gone(x) = [x EXCEPT !.deleted = TRUE, !.quiet = q]
    BY <1>1 DEF Gone, CacheObj
  <1>3. Gone(x) \in CacheObj  BY <1>2 DEF CacheObj
  <1>4. Gone(x).fd = 0 => Shut(Gone(x))
    BY <1>1, <1>2, <1>3 DEF Shut, Formed, CacheObj
  <1>5. x.reading => x.fd # 0  BY DEF Formed, Shut
  <1>6. Formed(Gone(x))  BY <1>1, <1>2, <1>4, <1>5 DEF Formed, CacheObj
  <1> QED BY <1>2, <1>3, <1>6 DEF Weight, CacheObj

\* The books are kept when an object is deleted.
LEMMA Marked ==
  ASSUME NEW c, NEW n \in Nat, NEW ind, NEW bad, BooksOK(c, n, ind, bad),
         NEW d \in Cache, NEW o \in Obj, Marks(c, d, o), c.obj[o].id # None,
         ~c.obj[o].deleted
  PROVE  BooksOK(d, n, ind, bad)
  <1>1. /\ c \in Cache /\ c.obj \in [Obj -> CacheObj] /\ d.obj \in [Obj -> CacheObj]
        /\ c.obj[o] \in CacheObj /\ Formed(c.obj[o])
    BY Fields DEF BooksOK, AllFormed
  <1>2. PICK x : x = Gone(c.obj[o])  OBVIOUS
  <1>3. /\ x \in CacheObj /\ Formed(x) /\ Weight(x) = 0 /\ x.id = c.obj[o].id /\ x.deleted
    BY <1>1, <1>2, GoneIs
  <1>4. /\ d.obj[o] = x
        /\ \A p \in Obj \ {o} : d.obj[p] = c.obj[p]
        /\ d.size = c.size - c.obj[o].size /\ d.modified /\ d.lru = c.lru
        /\ d.obj = [c.obj EXCEPT ![o] = x]
    BY <1>1, <1>2 DEF Marks
  <1>5. AllFormed(d.obj)  BY <1>3, <1>4 DEF AllFormed, BooksOK
  <1>6. Hashed(d.obj, d.hash, bad)
    <2>1. Hashed(c.obj, c.hash, bad) /\ c.hash \in [Id -> Obj \cup {None, Freed}]
      BY <1>1, Fields DEF BooksOK
    <2>2. \A i \in Id : d.hash[i] = IF i = c.obj[o].id THEN None ELSE c.hash[i]
      BY <2>1 DEF Marks
    <2>3. \A i \in Id : d.hash[i] # None => d.hash[i] = c.hash[i] /\ i # c.obj[o].id
      BY <2>2
    <2>4. \A i \in Id : d.hash[i] \in Obj => d.hash[i] # o /\ d.hash[i] # None
      BY <2>1, <2>3, NoObjects DEF Hashed
    <2> QED BY <1>4, <2>1, <2>3, <2>4 DEF Hashed
  <1>7. Listed(d.obj, d.lru, n)
    <2>1. \A p \in Obj : d.obj[p].id = c.obj[p].id  BY <1>3, <1>4
    <2>2. Held(d.obj) = Held(c.obj)  BY <2>1 DEF Held
    <2> QED BY <1>4, <2>1, <2>2 DEF Listed, BooksOK
  <1>8. Counts(d.obj) + c.obj[o].size = Counts(c.obj) /\ Counts(d.obj) \in Nat
    <2>1. Rest(d.obj, o) = Rest(c.obj, o)  BY <1>1, <1>3, <1>4, RestSame
    <2>2. Weight(c.obj[o]) = c.obj[o].size  BY DEF Weight
    <2>3. Weight(d.obj[o]) = 0  BY <1>3, <1>4
    <2> QED BY <1>1, <2>1, <2>2, <2>3, CountsSplit
  <1>9. Sized(d.obj, d.size, bad)
    <2>1. c.size \in Nat /\ c.obj[o].size \in Nat  BY <1>1, Fields DEF CacheObj
    <2> QED BY <1>4, <1>8, <2>1 DEF Sized, BooksOK
  <1>10. Current(d.obj, d.modified, ind, bad)  BY <1>4 DEF Current
  <1> QED BY <1>5, <1>6, <1>7, <1>9, <1>10 DEF BooksOK

\* A write error deletes the object o, and leaves its name.
Spoils(c, d, o) ==
  /\ d.obj = [c.obj EXCEPT ![o] = Gone(c.obj[o])]
  /\ d.hash = c.hash
  /\ d.lru = c.lru
  /\ d.size = c.size + 1
  /\ d.modified = c.modified
  /\ d.name = c.name

\* The books are kept when a write fails.
LEMMA Spoiled ==
  ASSUME NEW c, NEW n \in Nat, NEW ind, NEW bad, BooksOK(c, n, ind, bad),
         NEW d \in Cache, NEW o \in Obj, Spoils(c, d, o), c.obj[o].id # None
  PROVE  BooksOK(d, n, ind, TRUE)
  <1>1. /\ c \in Cache /\ c.obj \in [Obj -> CacheObj] /\ d.obj \in [Obj -> CacheObj]
        /\ c.obj[o] \in CacheObj /\ Formed(c.obj[o])
    BY Fields DEF BooksOK, AllFormed
  <1>2. PICK x : x = Gone(c.obj[o])  OBVIOUS
  <1>3. /\ x \in CacheObj /\ Formed(x) /\ Weight(x) = 0 /\ x.id = c.obj[o].id
    BY <1>1, <1>2, GoneIs
  <1>4. /\ d.obj[o] = x
        /\ \A p \in Obj \ {o} : d.obj[p] = c.obj[p]
        /\ d.size = c.size + 1 /\ d.lru = c.lru /\ d.hash = c.hash
        /\ d.obj = [c.obj EXCEPT ![o] = x]
    BY <1>1, <1>2 DEF Spoils
  <1>5. AllFormed(d.obj)  BY <1>3, <1>4 DEF AllFormed, BooksOK
  <1>6. \A p \in Obj : d.obj[p].id = c.obj[p].id  BY <1>3, <1>4
  <1>7. Hashed(d.obj, d.hash, TRUE)  BY <1>4, <1>6 DEF Hashed, BooksOK
  <1>8. Listed(d.obj, d.lru, n)
    <2>1. Held(d.obj) = Held(c.obj)  BY <1>6 DEF Held
    <2> QED BY <1>4, <1>6, <2>1 DEF Listed, BooksOK
  <1>9. Counts(d.obj) <= Counts(c.obj) /\ Counts(d.obj) \in Nat /\ Counts(c.obj) \in Nat
    <2>1. Rest(d.obj, o) = Rest(c.obj, o)  BY <1>1, <1>3, <1>4, RestSame
    <2>2. Weight(d.obj[o]) = 0  BY <1>3, <1>4
    <2> QED BY <1>1, <2>1, <2>2, CountsSplit
  <1>10. Sized(d.obj, d.size, TRUE)
    <2>1. c.size \in Nat  BY <1>1, Fields
    <2> QED BY <1>4, <1>9, <2>1 DEF Sized, BooksOK
  <1>11. Current(d.obj, d.modified, ind, TRUE)  BY DEF Current
  <1> QED BY <1>5, <1>7, <1>8, <1>10, <1>11 DEF BooksOK

\* One more piece is accounted for.
Grows(c, d, o) ==
  /\ d.obj = [c.obj EXCEPT ![o].size = @ + 1]
  /\ d.hash = c.hash
  /\ d.lru = c.lru
  /\ d.size = c.size + 1
  /\ d.modified = c.modified
  /\ d.name = c.name

\* The books are kept when an object grows.
LEMMA Grown ==
  ASSUME NEW c, NEW n \in Nat, NEW ind, NEW bad, BooksOK(c, n, ind, bad),
         NEW d \in Cache, NEW o \in Obj, Grows(c, d, o), c.obj[o].id # None, ~c.obj[o].deleted
  PROVE  BooksOK(d, n, ind, bad)
  <1>1. /\ c \in Cache /\ c.obj \in [Obj -> CacheObj] /\ d.obj \in [Obj -> CacheObj]
        /\ c.obj[o] \in CacheObj /\ Formed(c.obj[o])
    BY Fields DEF BooksOK, AllFormed
  <1>2. PICK x : x = [c.obj[o] EXCEPT !.size = @ + 1]  OBVIOUS
  <1>3. /\ x \in CacheObj /\ x.id = c.obj[o].id /\ x.size = c.obj[o].size + 1
        /\ x.deleted = c.obj[o].deleted
    BY <1>1, <1>2 DEF CacheObj
  <1>4. Formed(x)  BY <1>1, <1>2 DEF Formed, Shut, CacheObj
  <1>5. /\ d.obj[o] = x
        /\ \A p \in Obj \ {o} : d.obj[p] = c.obj[p]
        /\ d.size = c.size + 1 /\ d.lru = c.lru /\ d.hash = c.hash /\ d.modified = c.modified
        /\ d.obj = [c.obj EXCEPT ![o] = x]
    BY <1>1, <1>2 DEF Grows
  <1>6. AllFormed(d.obj)  BY <1>4, <1>5 DEF AllFormed, BooksOK
  <1>7. \A p \in Obj : d.obj[p].id = c.obj[p].id /\ d.obj[p].deleted = c.obj[p].deleted
    BY <1>3, <1>5
  <1>8. Hashed(d.obj, d.hash, bad)  BY <1>5, <1>7 DEF Hashed, BooksOK
  <1>9. Listed(d.obj, d.lru, n)
    <2>1. Held(d.obj) = Held(c.obj)  BY <1>7 DEF Held
    <2> QED BY <1>5, <1>7, <2>1 DEF Listed, BooksOK
  <1>10. Counts(d.obj) = Counts(c.obj) + 1 /\ Counts(c.obj) \in Nat
    <2>1. Rest(d.obj, o) = Rest(c.obj, o)  BY <1>1, <1>3, <1>5, RestSame
    <2>2. Weight(d.obj[o]) = Weight(c.obj[o]) + 1  BY <1>3, <1>5 DEF Weight
    <2> QED BY <1>1, <2>1, <2>2, CountsSplit
  <1>11. Sized(d.obj, d.size, bad)
    <2>1. c.size \in Nat  BY <1>1, Fields
    <2> QED BY <1>5, <1>10, <2>1 DEF Sized, BooksOK
  <1>12. Current(d.obj, d.modified, ind, bad)
    <2>1. Current(c.obj, c.modified, ind, bad)  BY DEF BooksOK
    <2> QED BY <1>5, <1>7, <2>1 DEF Current
  <1> QED BY <1>6, <1>8, <1>9, <1>11, <1>12 DEF BooksOK

\* The new object o is x.
Adds(c, d, o, x) ==
  /\ d.obj = [c.obj EXCEPT ![o] = x]
  /\ d.hash = [c.hash EXCEPT ![x.id] = IF @ = None THEN o ELSE @]
  /\ d.lru = Append(c.lru, o)
  /\ d.size = c.size
  /\ d.modified = TRUE

\* An element is added to a list that has not got it.
LEMMA AppendIs ==
  ASSUME NEW s \in Seq(Obj), NEW o \in Obj
  PROVE  /\ Append(s, o) \in Seq(Obj)
         /\ ~Has(s, o) /\ Distinct(s) => Distinct(Append(s, o))
         /\ \A p \in Obj : Has(Append(s, o), p) <=> p = o \/ Has(s, p)
  <1>1. PICK t : t = Append(s, o)  OBVIOUS
  <1>2. /\ t \in Seq(Obj) /\ DOMAIN t = 1..(Len(s) + 1) /\ DOMAIN s = 1..Len(s)
        /\ Len(s) \in Nat
        /\ t[Len(s) + 1] = o
        /\ \A k \in 1..Len(s) : t[k] = s[k]
    BY <1>1
  <1>3. \A k \in DOMAIN t : k \in DOMAIN s \/ k = Len(s) + 1  BY <1>2
  <1>4. \A k \in DOMAIN s : k \in DOMAIN t /\ t[k] = s[k]  BY <1>2
  <1>5. Len(s) + 1 \in DOMAIN t  BY <1>2
  <1>6. ~Has(s, o) /\ Distinct(s) => Distinct(t)  BY <1>2, <1>3, <1>4 DEF Has, Distinct
  <1>7. \A p \in Obj : Has(t, p) <=> p = o \/ Has(s, p)
    BY <1>2, <1>3, <1>4, <1>5 DEF Has
  <1> QED BY <1>1, <1>2, <1>6, <1>7

\* The books are kept when an object is created.
LEMMA Created ==
  ASSUME NEW c, NEW n \in Nat, NEW ind, NEW bad, BooksOK(c, n, ind, bad),
         NEW d \in Cache, NEW o \in Obj, NEW x \in CacheObj, Adds(c, d, o, x),
         c.obj[o].id = None, x.id \in Id, x.size = 0, ~x.deleted, Formed(x)
  PROVE  BooksOK(d, n + 1, ind, bad)
  <1>1. /\ c \in Cache /\ c.obj \in [Obj -> CacheObj] /\ d.obj \in [Obj -> CacheObj]
        /\ c.hash \in [Id -> Obj \cup {None, Freed}] /\ c.lru \in Seq(Obj)
    BY Fields DEF BooksOK
  <1>2. /\ d.obj[o] = x
        /\ \A p \in Obj \ {o} : d.obj[p] = c.obj[p]
        /\ d.size = c.size /\ d.lru = Append(c.lru, o) /\ d.modified
    BY <1>1 DEF Adds
  <1>3. AllFormed(d.obj)  BY <1>2 DEF AllFormed, BooksOK
  <1>4. Hashed(d.obj, d.hash, bad)
    <2>1. Hashed(c.obj, c.hash, bad)  BY DEF BooksOK
    <2>2. \A i \in Id : d.hash[i] = IF i = x.id /\ c.hash[i] = None THEN o ELSE c.hash[i]
      BY <1>1 DEF Adds
    <2>3. \A i \in Id : c.hash[i] # o  BY <2>1, NoObjects DEF Hashed
    <2> QED BY <1>2, <2>1, <2>2, <2>3, NoObjects DEF Hashed
  <1>5. Listed(d.obj, d.lru, n + 1)
    <2>1. Listed(c.obj, c.lru, n)  BY DEF BooksOK
    <2>2. ~Has(c.lru, o)  BY <2>1 DEF Listed
    <2>3. Distinct(d.lru) /\ \A p \in Obj : Has(d.lru, p) <=> p = o \/ Has(c.lru, p)
      BY <1>1, <1>2, <2>1, <2>2, AppendIs DEF Listed
    <2>4. x.id # None  BY NoObjects
    <2>5. Held(d.obj) = Held(c.obj) \cup {o} /\ o \notin Held(c.obj)
      BY <1>2, <2>4 DEF Held
    <2>6. PICK S : S = Held(c.obj)  OBVIOUS
    <2>7. IsFiniteSet(S) /\ Cardinality(S) \in Nat  BY <2>6, ObjFinite DEF Held
    <2>8. Cardinality(S \cup {o}) = Cardinality(S) + 1
      BY <2>5, <2>6, <2>7, FS_AddElement
    <2>9. Cardinality(Held(d.obj)) <= n + 1  BY <2>1, <2>5, <2>6, <2>7, <2>8 DEF Listed
    <2>10. \A p \in Obj : d.obj[p].id # None <=> Has(d.lru, p)
      BY <1>2, <2>1, <2>3, <2>4 DEF Listed
    <2> QED BY <2>3, <2>9, <2>10 DEF Listed
  <1>6. Counts(d.obj) = Counts(c.obj)
    <2>1. Rest(d.obj, o) = Rest(c.obj, o)  BY <1>1, RestSame DEF Adds
    <2>2. Weight(d.obj[o]) = 0 /\ Weight(c.obj[o]) = 0  BY <1>2 DEF Weight
    <2> QED BY <1>1, <2>1, <2>2, CountsSplit
  <1>7. Sized(d.obj, d.size, bad)  BY <1>2, <1>6 DEF Sized, BooksOK
  <1>8. Current(d.obj, d.modified, ind, bad)  BY <1>2 DEF Current
  <1> QED BY <1>3, <1>4, <1>5, <1>7, <1>8 DEF BooksOK

-----------------------------------------------------------------------------
(* What the operations change *)

\* An object is replaced by another.
LEMMA PutIs ==
  ASSUME NEW c \in Cache, NEW o \in Obj, NEW x \in CacheObj
  PROVE  /\ [c EXCEPT !.obj = [c.obj EXCEPT ![o] = x]] \in Cache
         /\ Puts(c, [c EXCEPT !.obj = [c.obj EXCEPT ![o] = x]], o, x)
         /\ [c EXCEPT !.obj = [c.obj EXCEPT ![o] = x]].disk = c.disk
  <1>1. PICK p \in [Obj -> CacheObj] : p = [c.obj EXCEPT ![o] = x]  BY Fields
  <1>2. PICK d : d = [c EXCEPT !.obj = p]  OBVIOUS
  <1>3. d \in Cache  BY <1>2 DEF Cache
  <1>4. d.obj = p /\ d.hash = c.hash /\ d.lru = c.lru /\ d.size = c.size
        /\ d.modified = c.modified /\ d.name = c.name /\ d.disk = c.disk
    BY <1>2 DEF Cache
  <1> QED BY <1>1, <1>2, <1>3, <1>4 DEF Puts

\* m users fewer.
Fewer(x, m) == [x EXCEPT !.ref = @ - m]

\* What Release() does: the object keeps its users, is closed or is destroyed.
Releases(c, d, o, m) ==
  \/ /\ c.obj[o].ref > m
     /\ Puts(c, d, o, Fewer(c.obj[o], m))
     /\ d.disk = c.disk
  \/ /\ c.obj[o].ref = m
     /\ ~c.obj[o].deleted
     /\ Puts(c, d, o, Closed(Fewer(c.obj[o], m)))
     /\ d.disk = Wrote(c.disk, c.obj[o], Ended(c.obj[o]))
  \/ /\ c.obj[o].ref = m
     /\ c.obj[o].deleted
     /\ Drops(c, d, o)
     /\ d.disk = Wrote(c.disk, c.obj[o], Ended(c.obj[o]))

\* Release() does so.
LEMMA ReleaseIs ==
  ASSUME NEW c \in Cache, NEW o \in Obj, NEW m \in Nat, m <= c.obj[o].ref
  PROVE  Release(c, o, m) \in Cache /\ Releases(c, Release(c, o, m), o, m)
  <1>1. c.obj[o] \in CacheObj  BY Fields
  <1>2. PICK x : x = Fewer(c.obj[o], m)  OBVIOUS
  <1>3. c.obj[o].ref \in Nat /\ c.obj[o].ref - m \in 0..(Cardinality(Client) + 1)
    <2>1. PICK k \in Nat : k = Cardinality(Client) + 1
      BY FS_CardinalityType, HttpCacheAssumption
    <2>2. c.obj[o].ref \in 0..k  BY <1>1, <2>1 DEF CacheObj
    <2> QED BY <2>1, <2>2
  <1>4. x = [c.obj[o] EXCEPT !.ref = c.obj[o].ref - m]  BY <1>1, <1>2 DEF Fewer
  <1>5. x \in CacheObj /\ x.ref = c.obj[o].ref - m /\ x.deleted = c.obj[o].deleted
    BY <1>1, <1>3, <1>4 DEF CacheObj
  <1>6. PICK d : d = [c EXCEPT !.obj = [c.obj EXCEPT ![o] = x]]  OBVIOUS
  <1>7. d = [c EXCEPT !.obj[o].ref = @ - m]  BY <1>4, <1>6, Fields DEF Cache
  <1>8. d \in Cache /\ Puts(c, d, o, x) /\ d.disk = c.disk  BY <1>5, <1>6, PutIs
  <1>9. d.obj[o] = x  BY <1>8, Fields DEF Puts
  <1>10. CASE c.obj[o].ref > m
    <2>1. Release(c, o, m) = d  BY <1>3, <1>5, <1>7, <1>9, <1>10 DEF Release
    <2> QED BY <1>2, <1>8, <1>10, <2>1 DEF Releases
  <1>11. CASE c.obj[o].ref = m
    <2>1. PICK e : e = CloseFile(d, o)  OBVIOUS
    <2>2. e \in Cache /\ Puts(d, e, o, Closed(x)) /\ e.disk = Wrote(d.disk, x, Ended(x))
      BY <1>8, <1>9, <2>1, CloseFileIs
    <2>3. Wrote(d.disk, x, Ended(x)) = Wrote(c.disk, c.obj[o], Ended(c.obj[o]))
      <3>1. /\ x.fd = c.obj[o].fd /\ x.out = c.obj[o].out /\ x.off = c.obj[o].off
            /\ x.tag = c.obj[o].tag /\ x.size = c.obj[o].size
        BY <1>1, <1>4 DEF CacheObj
      <3> QED BY <1>8, <3>1 DEF Wrote, Ended
    <2>4. Puts(c, e, o, Closed(x))  BY <1>8, <2>2, Fields DEF Puts
    <2>5. CASE ~c.obj[o].deleted
      <3>1. Release(c, o, m) = e
        BY <1>3, <1>5, <1>7, <1>9, <1>11, <2>1, <2>5 DEF Release
      <3> QED BY <1>2, <1>11, <2>2, <2>3, <2>4, <2>5, <3>1 DEF Releases
    <2>6. CASE c.obj[o].deleted
      <3>1. Release(c, o, m) = Destroy(e, o)
        BY <1>3, <1>5, <1>7, <1>9, <1>11, <2>1, <2>6 DEF Release
      <3>2. PICK r : r = Destroy(e, o)  OBVIOUS
      <3>3. r \in Cache /\ Drops(e, r, o) /\ r.disk = e.disk
        BY <2>2, <3>2, DestroyIs
      <3>4. Drops(c, r, o)  BY <2>4, <3>3, Fields DEF Drops, Puts
      <3> QED BY <1>11, <2>2, <2>3, <2>6, <3>1, <3>2, <3>3, <3>4 DEF Releases
    <2> QED BY <2>5, <2>6
  <1> QED BY <1>1, <1>3, <1>10, <1>11

\* The object o is marked as deleted.
Mark(c, o) == [c EXCEPT !.obj = [c.obj EXCEPT ![o] = Gone(c.obj[o])]]

\* DeleteObj() marks the object, and destroys it if nobody has it.
LEMMA DeleteObjIs ==
  ASSUME NEW c \in Cache, NEW o \in Obj
  PROVE  DeleteObj(c, o) = IF c.obj[o].ref = 0 THEN Destroy(Mark(c, o), o) ELSE Mark(c, o)
  <1>1. c.obj \in [Obj -> CacheObj] /\ c.obj[o] \in CacheObj  BY Fields
  <1>2. [c EXCEPT !.obj[o].deleted = TRUE, !.obj[o].quiet = (@ \/ c.obj[o].fd # 0)]
           = [c EXCEPT !.obj = [c.obj EXCEPT ![o] = Gone(c.obj[o])]]
    BY <1>1 DEF Gone, Cache, CacheObj
  <1> QED BY <1>2 DEF DeleteObj, Mark

\* What Delete() does: nothing again, or the object is marked, and destroyed if nobody has it.
Deletes(c, d, o) ==
  \/ c.obj[o].deleted /\ d = c
  \/ /\ ~c.obj[o].deleted
     /\ c.obj[o].ref # 0
     /\ Marks(c, d, o)
     /\ d.disk = c.disk
  \/ /\ ~c.obj[o].deleted
     /\ c.obj[o].ref = 0
     /\ \E m \in Cache : Marks(c, m, o) /\ Drops(m, d, o) /\ m.disk = c.disk /\ d.disk = c.disk

\* Delete() does so, when the cache is no smaller than the object.
LEMMA DeleteIs ==
  ASSUME NEW c \in Cache, NEW o \in Obj, c.obj[o].id \in Id, Formed(c.obj[o]),
         ~c.obj[o].deleted => c.obj[o].size <= c.size
  PROVE  Delete(c, o) \in Cache /\ Deletes(c, Delete(c, o), o)
  <1>1. CASE c.obj[o].deleted
    <2>1. Delete(c, o) = c  BY <1>1 DEF Delete
    <2> QED BY <1>1, <2>1 DEF Deletes
  <1>2. CASE ~c.obj[o].deleted
    <2>1. PICK i \in Id : i = c.obj[o].id  OBVIOUS
    <2>2. c.obj[o] \in CacheObj /\ c.size \in Nat  BY Fields
    <2>3. PICK s \in Nat : s = c.size - c.obj[o].size
      <3>1. c.size - c.obj[o].size \in Nat  BY <1>2, <2>2 DEF CacheObj
      <3> QED BY <3>1
    <2>4. PICK h \in [Id -> Obj \cup {None, Freed}] : h = [c.hash EXCEPT ![i] = None]
      BY Fields
    <2>5. PICK f \in [Id -> 0..MaxDownloads] : f = [c.name EXCEPT ![i] = 0]
      <3>1. 0 \in 0..MaxDownloads  BY HttpCacheAssumption
      <3> QED BY <3>1, Fields
    <2>6. PICK e : e = [c EXCEPT !.name[c.obj[o].id] = 0, !.size = @ - c.obj[o].size,
                                 !.hash[c.obj[o].id] = None, !.modified = TRUE]
      OBVIOUS
    <2>7. e = [c EXCEPT !.name = f, !.size = s, !.hash = h, !.modified = TRUE]
      BY <2>1, <2>3, <2>4, <2>5, <2>6 DEF Cache
    <2>8. e \in Cache  BY <2>7 DEF Cache
    <2>9. e.obj = c.obj /\ e.lru = c.lru /\ e.disk = c.disk /\ e.hash = h /\ e.name = f
          /\ e.size = s /\ e.modified = TRUE
      BY <2>7 DEF Cache
    <2>10. Delete(c, o) = DeleteObj(e, o)  BY <1>2, <2>6 DEF Delete
    <2>11. Gone(c.obj[o]) \in CacheObj  BY <2>1, <2>2, NoObjects, GoneIs
    <2>12. PICK m : m = Mark(e, o)  OBVIOUS
    <2>13. m \in Cache /\ Puts(e, m, o, Gone(c.obj[o])) /\ m.disk = e.disk
      BY <2>8, <2>9, <2>11, <2>12, PutIs DEF Mark
    <2>14. DeleteObj(e, o) = IF e.obj[o].ref = 0 THEN Destroy(m, o) ELSE m
      BY <2>8, <2>12, DeleteObjIs
    <2>15. Marks(c, m, o)
      <3>1. m.obj = [c.obj EXCEPT ![o] = Gone(c.obj[o])]  BY <2>9, <2>13 DEF Puts
      <3>2. /\ m.hash = h /\ m.lru = c.lru /\ m.size = s /\ m.modified = TRUE /\ m.name = f
        BY <2>9, <2>13 DEF Puts
      <3> QED BY <2>1, <2>3, <2>4, <2>5, <3>1, <3>2 DEF Marks
    <2>16. CASE c.obj[o].ref # 0
      <3>1. DeleteObj(e, o) = m  BY <2>9, <2>14, <2>16
      <3> QED BY <1>2, <2>9, <2>10, <2>13, <2>15, <2>16, <3>1 DEF Deletes
    <2>17. CASE c.obj[o].ref = 0
      <3>1. DeleteObj(e, o) = Destroy(m, o)  BY <2>9, <2>14, <2>17
      <3>2. Destroy(m, o) \in Cache /\ Drops(m, Destroy(m, o), o) /\ Destroy(m, o).disk = m.disk
        BY <2>13, DestroyIs
      <3> QED BY <1>2, <2>9, <2>10, <2>13, <2>15, <2>17, <3>1, <3>2 DEF Deletes
    <2> QED BY <2>16, <2>17
  <1> QED BY <1>1, <1>2

\* One user more.
More(x) == [x EXCEPT !.ref = @ + 1]

\* What Acquire() does.
Acquires(c, d, o) ==
  /\ d.obj = [c.obj EXCEPT ![o] = More(c.obj[o])]
  /\ d.hash = c.hash
  /\ d.lru = Append(Without(c.lru, o), o)
  /\ d.size = c.size
  /\ d.modified = c.modified
  /\ d.name = c.name
  /\ d.disk = c.disk

\* Acquire() does so.
LEMMA AcquireIs ==
  ASSUME NEW c \in Cache, NEW o \in Obj, c.obj[o].ref <= Cardinality(Client)
  PROVE  /\ Acquire(c, o) \in Cache
         /\ Acquires(c, Acquire(c, o), o)
         /\ More(c.obj[o]) \in CacheObj
  <1>1. c.obj[o] \in CacheObj /\ c.lru \in Seq(Obj) /\ c.obj \in [Obj -> CacheObj]  BY Fields
  <1>2. PICK x : x = More(c.obj[o])  OBVIOUS
  <1>3. x \in CacheObj
    <2>1. PICK k \in Nat : k = Cardinality(Client)
      BY FS_CardinalityType, HttpCacheAssumption
    <2>2. c.obj[o].ref + 1 \in 0..(Cardinality(Client) + 1)  BY <1>1, <2>1 DEF CacheObj
    <2>3. PICK r \in 0..(Cardinality(Client) + 1) : r = c.obj[o].ref + 1  BY <2>2
    <2>4. x = [c.obj[o] EXCEPT !.ref = r]  BY <1>1, <1>2, <2>3 DEF CacheObj, More
    <2> QED BY <1>1, <2>4 DEF CacheObj
  <1>4. PICK p \in [Obj -> CacheObj] : p = [c.obj EXCEPT ![o] = x]  BY <1>1, <1>3
  <1>5. PICK w \in Seq(Obj) : w = Without(c.lru, o)  BY <1>1, WithoutIs
  <1>6. PICK l \in Seq(Obj) : l = Append(w, o)  BY AppendIs
  <1>7. Acquire(c, o) = [c EXCEPT !.obj = p, !.lru = l]
    BY <1>1, <1>2, <1>4, <1>5, <1>6 DEF Acquire, More, Cache
  <1>8. PICK d : d = [c EXCEPT !.obj = p, !.lru = l]  OBVIOUS
  <1>9. d.obj = p /\ d.hash = c.hash /\ d.lru = l /\ d.size = c.size
        /\ d.modified = c.modified /\ d.name = c.name /\ d.disk = c.disk
    BY <1>8 DEF Cache
  <1>9a. d \in Cache  BY <1>8 DEF Cache
  <1>10. Acquires(c, d, o)  BY <1>1, <1>2, <1>4, <1>5, <1>6, <1>9 DEF Acquires
  <1> QED BY <1>2, <1>3, <1>7, <1>8, <1>9a, <1>10

\* A set of numbers has its minimum.
LEMMA MinIs ==
  ASSUME NEW T, T \subseteq Nat, T # {}
  PROVE  Min(T) \in T /\ \A m \in T : Min(T) <= m
  <1>1. PICK n \in T : \A m \in T : n <= m  BY Least
  <1>2. \E x \in T : \A y \in T : x =< y  BY <1>1
  <1> QED BY <1>2 DEF Min

\* There is an object for the next download.
LEMMA FreshIs ==
  ASSUME NEW c, NEW n \in Nat, NEW ind, NEW bad, BooksOK(c, n, ind, bad), n < MaxDownloads
  PROVE  Fresh(c) \in Obj /\ c.obj[Fresh(c)].id = None
  <1>1. Cardinality(Held(c.obj)) <= n  BY DEF BooksOK, Listed
  <1>2. Held(c.obj) # Obj  BY <1>1, ObjFinite
  <1>3. PICK T : T = {o \in Obj : c.obj[o].id = None}  OBVIOUS
  <1>4. T \subseteq Nat /\ T # {}  BY <1>2, <1>3 DEF Held, Obj
  <1>5. Min(T) \in T  BY <1>4, MinIs
  <1> QED BY <1>3, <1>5 DEF Fresh

\* The file of resource i that download d is written to.
FileOf(c, i, d) == IF c.name[i] = 0 THEN d ELSE c.name[i]

\* The object of download d.
NewObj(c, i, d) ==
  [Free EXCEPT !.id = i, !.ref = 1, !.tag = d, !.fd = FileOf(c, i, d), !.reading = TRUE]

\* Create() adds it.
LEMMA CreateIs ==
  ASSUME NEW c \in Cache, NEW i \in Id, NEW d \in Download, Fresh(c) \in Obj
  PROVE  /\ Create(c, i, d) \in Cache
         /\ Adds(c, Create(c, i, d), Fresh(c), NewObj(c, i, d))
         /\ NewObj(c, i, d) \in CacheObj
         /\ Formed(NewObj(c, i, d))
         /\ Create(c, i, d).name = [c.name EXCEPT ![i] = FileOf(c, i, d)]
         /\ Create(c, i, d).disk = [c.disk EXCEPT ![FileOf(c, i, d)] = <<>>]
         /\ FileOf(c, i, d) \in Download
  <1>1. PICK o \in Obj : o = Fresh(c)  OBVIOUS
  <1>2. d \in 0..MaxDownloads /\ d # 0  BY HttpCacheAssumption DEF Download
  <1>3. c.name[i] \in 0..MaxDownloads  BY Fields
  <1>4. FileOf(c, i, d) \in Download /\ FileOf(c, i, d) \in 0..MaxDownloads
    BY <1>2, <1>3, HttpCacheAssumption DEF FileOf, Download
  <1>5. PICK f \in Download : f = FileOf(c, i, d)  BY <1>4
  <1>6. 1 \in 0..(Cardinality(Client) + 1)  BY FS_CardinalityType, HttpCacheAssumption
  <1>7. PICK x : x = NewObj(c, i, d)  OBVIOUS
  <1>8. x = [Free EXCEPT !.id = i, !.ref = 1, !.tag = d, !.fd = f, !.reading = TRUE]
    BY <1>5, <1>7 DEF NewObj
  <1>9. x \in CacheObj  BY <1>2, <1>4, <1>5, <1>6, <1>8, FreeIs DEF CacheObj
  <1>10. /\ x.id = i /\ x.fd = f /\ x.tag = d /\ x.reading /\ ~x.quiet /\ ~x.deleted
    BY <1>8, FreeIs DEF Free, CacheObj
  <1>11. f # 0  BY <1>5 DEF Download
  <1>12. Formed(x)  BY <1>2, <1>10, <1>11 DEF Formed
  <1>13. PICK p \in [Obj -> CacheObj] : p = [c.obj EXCEPT ![o] = x]  BY <1>9, Fields
  <1>14. PICK l \in Seq(Obj) : l = Append(c.lru, o)  BY AppendIs, Fields
  <1>15. PICK m \in [Id -> 0..MaxDownloads] : m = [c.name EXCEPT ![i] = f]
    BY <1>4, <1>5, Fields
  <1>16. PICK k \in [Download -> Content] : k = [c.disk EXCEPT ![f] = <<>>]
    <2>1. <<>> \in Content  BY DEF Content
    <2> QED BY <2>1, Fields
  <1>17. PICK h \in [Id -> Obj \cup {None, Freed}] :
           h = [c.hash EXCEPT ![i] = IF @ = None THEN o ELSE @]
    BY Fields
  <1>18. PICK e : e = [c EXCEPT !.obj = p, !.lru = l, !.modified = TRUE, !.name = m, !.disk = k]
    OBVIOUS
  <1>19. Create(c, i, d) = HashAdd(e, i, o)
    <2>1. Create(c, i, d) = HashAdd([c EXCEPT !.obj[o] = x, !.lru = Append(@, o), !.modified = TRUE,
                                             !.name[i] = f, !.disk[f] = <<>>], i, o)
      BY <1>1, <1>5, <1>8 DEF Create, FileOf
    <2>2. [c EXCEPT !.obj[o] = x, !.lru = Append(@, o), !.modified = TRUE,
                    !.name[i] = f, !.disk[f] = <<>>] = e
      BY <1>13, <1>14, <1>15, <1>16, <1>18 DEF Cache
    <2> QED BY <2>1, <2>2
  <1>20. e \in Cache /\ e.hash = c.hash  BY <1>18 DEF Cache
  <1>21. HashAdd(e, i, o) = [e EXCEPT !.hash = h]  BY <1>17, <1>20 DEF HashAdd, Cache
  <1>22. PICK r : r = [e EXCEPT !.hash = h]  OBVIOUS
  <1>23. r \in Cache  BY <1>20, <1>22 DEF Cache
  <1>24. /\ r.obj = p /\ r.lru = l /\ r.modified = TRUE /\ r.name = m /\ r.disk = k
         /\ r.hash = h /\ r.size = c.size
    BY <1>18, <1>22 DEF Cache
  <1>25. Adds(c, r, o, x)  BY <1>10, <1>13, <1>14, <1>17, <1>24 DEF Adds
  <1> QED BY <1>1, <1>4, <1>5, <1>7, <1>9, <1>12, <1>15, <1>16, <1>19, <1>21, <1>22, <1>23, <1>24, <1>25

\* The file f is open, and b is in memory.
Opened(x, f, b) == [x EXCEPT !.fd = f, !.avail = b]

\* Load() opens it.
LEMMA LoadIs ==
  ASSUME NEW c \in Cache, NEW o \in Obj, c.obj[o].id \in Id, c.name[c.obj[o].id] # 0,
         NEW f, f = c.name[c.obj[o].id]
  PROVE  /\ Load(c, o) \in Cache
         /\ Puts(c, Load(c, o), o, Opened(c.obj[o], f, c.disk[f]))
         /\ Opened(c.obj[o], f, c.disk[f]) \in CacheObj
         /\ Load(c, o).disk = c.disk
         /\ f \in Download
  <1>1. c.obj[o] \in CacheObj /\ c.obj \in [Obj -> CacheObj]  BY Fields
  <1>2. f \in 0..MaxDownloads /\ f \in Download
    BY Fields, HttpCacheAssumption DEF Download
  <1>3. PICK b \in Content : b = c.disk[f]  BY <1>2, Fields
  <1>4. PICK x : x = Opened(c.obj[o], f, b)  OBVIOUS
  <1>5. x \in CacheObj  BY <1>1, <1>2, <1>4 DEF Opened, CacheObj
  <1>6. Load(c, o) = [c EXCEPT !.obj = [c.obj EXCEPT ![o] = x]]
    <2>1. Load(c, o) = [c EXCEPT !.obj[o] = [@ EXCEPT !.fd = f, !.avail = b]]
      BY <1>3 DEF Load
    <2>2. x = [c.obj[o] EXCEPT !.fd = f, !.avail = b]  BY <1>4 DEF Opened
    <2>3. [c EXCEPT !.obj[o] = [@ EXCEPT !.fd = f, !.avail = b]] = [c EXCEPT !.obj[o] = x]
      BY <2>2
    <2> QED BY <1>1, <2>1, <2>3 DEF Cache
  <1>7. PICK d : d = [c EXCEPT !.obj = [c.obj EXCEPT ![o] = x]]  OBVIOUS
  <1>8. d \in Cache /\ Puts(c, d, o, x) /\ d.disk = c.disk  BY <1>5, <1>7, PutIs
  <1>9. x = Opened(c.obj[o], f, c.disk[f]) /\ Load(c, o) = d  BY <1>3, <1>4, <1>6, <1>7
  <1> QED BY <1>2, <1>5, <1>8, <1>9

-----------------------------------------------------------------------------
(* The operations keep the books *)

\* What is left of an object without a file.
LEMMA ClosedIs ==
  ASSUME NEW x
  PROVE  /\ Closed(x).id = x.id /\ Closed(x).ref = x.ref /\ Closed(x).size = x.size
         /\ Closed(x).deleted = x.deleted /\ Closed(x).fd = 0 /\ Shut(Closed(x))
  BY DEF Closed, Free, Shut

\* The clients are finitely many.
LEMMA ClientsFinite ==
  \A S \in SUBSET Client : /\ IsFiniteSet(S) /\ Cardinality(S) \in Nat
                           /\ Cardinality(S) <= Cardinality(Client)
                           /\ Cardinality(S) = 0 <=> S = {}
  <1>1. IsFiniteSet(Client)  BY HttpCacheAssumption
  <1> QED BY <1>1, FS_Subset, FS_CardinalityType, FS_EmptySet

\* Some of the clients go.
LEMMA Fewest ==
  ASSUME NEW S \in SUBSET Client, NEW K \in SUBSET S
  PROVE  /\ Cardinality(S \ K) = Cardinality(S) - Cardinality(K)
         /\ Cardinality(K) <= Cardinality(S)
         /\ Cardinality(K) \in Nat /\ Cardinality(S) \in Nat
         /\ Cardinality(S) = Cardinality(K) <=> S \ K = {}
  <1>1. IsFiniteSet(S) /\ Cardinality(S) \in Nat  BY ClientsFinite
  <1>2. S \cap K = K  OBVIOUS
  <1>3. Cardinality(S \ K) = Cardinality(S) - Cardinality(K)  BY <1>1, <1>2, FS_Difference
  <1>4. PICK R \in SUBSET Client : R = S \ K  OBVIOUS
  <1>5. Cardinality(R) \in Nat /\ (Cardinality(R) = 0 <=> R = {})  BY ClientsFinite
  <1>6. Cardinality(K) \in Nat  BY ClientsFinite
  <1> QED BY <1>1, <1>3, <1>4, <1>5, <1>6

\* An object is replaced, with those that have it.
LEMMA CountedPut ==
  ASSUME NEW obj \in [Obj -> CacheObj], NEW H \in [Obj -> SUBSET Client], Counted(obj, H),
         NEW o \in Obj, NEW x \in CacheObj, NEW h \in SUBSET Client,
         x.ref = Cardinality(h),
         h # {} => x.id # None,
         h = {} => x.fd = 0 /\ ~x.deleted
  PROVE  /\ [H EXCEPT ![o] = h] \in [Obj -> SUBSET Client]
         /\ Counted([obj EXCEPT ![o] = x], [H EXCEPT ![o] = h])
  BY DEF Counted

\* A client acquires an object.
LEMMA AcquireOK ==
  ASSUME NEW c, NEW H, NEW n \in Nat, NEW ind, NEW bad, Valid(c, H, n, ind, bad),
         NEW o \in Obj, c.obj[o].id # None, NEW u \in Client, u \notin H[o]
  PROVE  /\ Valid(Acquire(c, o), [H EXCEPT ![o] = @ \cup {u}], n, ind, bad)
         /\ Acquires(c, Acquire(c, o), o)
  <1>1. /\ BooksOK(c, n, ind, bad) /\ H \in [Obj -> SUBSET Client] /\ Counted(c.obj, H)
        /\ c \in Cache /\ c.obj \in [Obj -> CacheObj] /\ c.obj[o] \in CacheObj
        /\ c.lru \in Seq(Obj)
    BY Fields DEF Valid, BooksOK
  <1>2. PICK h : h = H[o] \cup {u}  OBVIOUS
  <1>3. h \in SUBSET Client /\ h # {} /\ H[o] \in SUBSET Client  BY <1>1, <1>2
  <1>4. Cardinality(h) = Cardinality(H[o]) + 1
    <2>1. IsFiniteSet(H[o])  BY <1>3, ClientsFinite
    <2> QED BY <1>2, <2>1, FS_AddElement
  <1>5. c.obj[o].ref = Cardinality(H[o])  BY <1>1 DEF Counted
  <1>6. c.obj[o].ref <= Cardinality(Client)  BY <1>3, <1>5, ClientsFinite
  <1>7. PICK x : x = More(c.obj[o])  OBVIOUS
  <1>8. PICK d : d = Acquire(c, o)  OBVIOUS
  <1>9. d \in Cache /\ Acquires(c, d, o) /\ x \in CacheObj  BY <1>1, <1>6, <1>7, <1>8, AcquireIs
  <1>10. x = [c.obj[o] EXCEPT !.ref = @ + 1]  BY <1>7 DEF More
  <1>11. Same(c.obj[o], x) /\ x.ref = c.obj[o].ref + 1 /\ x.fd = c.obj[o].fd
    BY <1>1, <1>10 DEF Same, CacheObj
  <1>12. Formed(x)
    <2>1. Formed(c.obj[o])  BY <1>1 DEF BooksOK, AllFormed
    <2> QED BY <1>1, <1>10, <2>1 DEF Formed, Shut, CacheObj
  <1>13. PICK e : e = [c EXCEPT !.obj = [c.obj EXCEPT ![o] = x]]  OBVIOUS
  <1>14. e \in Cache /\ Puts(c, e, o, x)  BY <1>1, <1>9, <1>13, PutIs
  <1>15. BooksOK(e, n, ind, bad)  BY <1>1, <1>9, <1>11, <1>12, <1>14, Relabelled
  <1>16. /\ d.obj = e.obj /\ d.hash = e.hash /\ d.size = e.size /\ d.modified = e.modified
         /\ e.lru = c.lru /\ d.lru = Append(Without(c.lru, o), o)
    BY <1>7, <1>9, <1>14 DEF Acquires, Puts
  <1>17. Listed(d.obj, d.lru, n)
    <2>1. Listed(e.obj, e.lru, n)  BY <1>15 DEF BooksOK
    <2>2. PICK w \in Seq(Obj) : w = Without(c.lru, o)  BY <1>1, WithoutIs
    <2>3. Distinct(w) /\ \A p \in Obj : Has(w, p) <=> p # o /\ Has(c.lru, p)
      BY <1>1, <1>16, <2>1, <2>2, WithoutIs DEF Listed
    <2>4. Distinct(d.lru) /\ \A p \in Obj : Has(d.lru, p) <=> p = o \/ Has(w, p)
      BY <1>16, <2>2, <2>3, AppendIs
    <2>5. Has(c.lru, o)
      <3>1. e.obj[o].id # None  BY <1>1, <1>11, <1>14 DEF Puts, Same
      <3> QED BY <1>16, <2>1, <3>1 DEF Listed
    <2> QED BY <1>16, <2>1, <2>3, <2>4, <2>5 DEF Listed
  <1>18. BooksOK(d, n, ind, bad)  BY <1>9, <1>15, <1>16, <1>17 DEF BooksOK
  <1>19. /\ [H EXCEPT ![o] = h] \in [Obj -> SUBSET Client]
         /\ Counted([c.obj EXCEPT ![o] = x], [H EXCEPT ![o] = h])
    <2>1. x.ref = Cardinality(h)  BY <1>4, <1>5, <1>11
    <2>2. x.id # None  BY <1>11 DEF Same
    <2> QED BY <1>1, <1>3, <1>9, <2>1, <2>2, CountedPut
  <1>20. Valid(d, [H EXCEPT ![o] = h], n, ind, bad)
    BY <1>7, <1>9, <1>18, <1>19 DEF Valid, Acquires
  <1>21. [H EXCEPT ![o] = h] = [H EXCEPT ![o] = @ \cup {u}]  BY <1>2
  <1> QED BY <1>8, <1>9, <1>20, <1>21

\* Clients release an object.
LEMMA ReleaseOK ==
  ASSUME NEW c, NEW H, NEW n \in Nat, NEW ind, NEW bad, Valid(c, H, n, ind, bad),
         NEW o \in Obj, NEW K \in SUBSET H[o], H[o] # {}, NEW m, m = Cardinality(K)
  PROVE  /\ Valid(Release(c, o, m), [H EXCEPT ![o] = @ \ K], n, ind, bad)
         /\ Releases(c, Release(c, o, m), o, m)
         /\ c.obj[o].ref = m <=> H[o] \ K = {}
  <1>1. /\ BooksOK(c, n, ind, bad) /\ H \in [Obj -> SUBSET Client] /\ Counted(c.obj, H)
        /\ c \in Cache /\ c.obj \in [Obj -> CacheObj] /\ c.obj[o] \in CacheObj
        /\ Formed(c.obj[o])
    BY Fields DEF Valid, BooksOK, AllFormed
  <1>2. PICK h : h = H[o] \ K  OBVIOUS
  <1>3. h \in SUBSET Client /\ H[o] \in SUBSET Client  BY <1>1, <1>2
  <1>4. /\ Cardinality(h) = Cardinality(H[o]) - m /\ m <= Cardinality(H[o])
        /\ m \in Nat /\ Cardinality(H[o]) \in Nat
        /\ Cardinality(H[o]) = m <=> h = {}
    BY <1>2, <1>3, Fewest
  <1>5. c.obj[o].ref = Cardinality(H[o]) /\ c.obj[o].id # None  BY <1>1 DEF Counted
  <1>6. PICK d : d = Release(c, o, m)  OBVIOUS
  <1>7. d \in Cache /\ Releases(c, d, o, m)  BY <1>1, <1>4, <1>5, <1>6, ReleaseIs
  <1>8. PICK x : x = Fewer(c.obj[o], m)  OBVIOUS
  <1>9. x = [c.obj[o] EXCEPT !.ref = @ - m]  BY <1>8 DEF Fewer
  <1>10. /\ Same(c.obj[o], x) /\ x.ref = c.obj[o].ref - m /\ x.fd = c.obj[o].fd
    BY <1>1, <1>9 DEF Same, CacheObj
  <1>11. Formed(x)  BY <1>1, <1>9 DEF Formed, Shut, CacheObj
  <1>12. x.ref = Cardinality(h)  BY <1>4, <1>5, <1>10
  <1>13. PICK G : G = [H EXCEPT ![o] = h]  OBVIOUS
  <1>14. ASSUME c.obj[o].ref > m /\ Puts(c, d, o, x)
         PROVE  Valid(d, G, n, ind, bad)
    <2>1. d.obj = [c.obj EXCEPT ![o] = x]  BY <1>14 DEF Puts
    <2>2. d.obj[o] = x /\ x \in CacheObj  BY <1>1, <1>7, <2>1, Fields
    <2>3. BooksOK(d, n, ind, bad)  BY <1>1, <1>7, <1>10, <1>11, <1>14, <2>2, Relabelled
    <2>4. h # {} /\ x.id # None  BY <1>4, <1>5, <1>10, <1>14 DEF Same
    <2>5. G \in [Obj -> SUBSET Client] /\ Counted(d.obj, G)
      <3>1. /\ [H EXCEPT ![o] = h] \in [Obj -> SUBSET Client]
            /\ Counted([c.obj EXCEPT ![o] = x], [H EXCEPT ![o] = h])
        BY <1>1, <1>3, <1>12, <2>2, <2>4, CountedPut
      <3> QED BY <1>13, <2>1, <3>1
    <2> QED BY <2>3, <2>5 DEF Valid
  <1>15. ASSUME c.obj[o].ref = m /\ ~c.obj[o].deleted /\ Puts(c, d, o, Closed(x))
         PROVE  Valid(d, G, n, ind, bad)
    <2>0. PICK y : y = Closed(x)  OBVIOUS
    <2>1. d.obj = [c.obj EXCEPT ![o] = y]  BY <1>15, <2>0 DEF Puts
    <2>2. d.obj[o] = y /\ y \in CacheObj  BY <1>1, <1>7, <2>1, Fields
    <2>3. /\ y.id = x.id /\ y.ref = x.ref /\ y.size = x.size /\ y.deleted = x.deleted
          /\ y.fd = 0 /\ Shut(y)
      BY <2>0, ClosedIs
    <2>4. Formed(y) /\ Same(c.obj[o], y)  BY <1>10, <2>3 DEF Formed, Shut, Same
    <2>5. BooksOK(d, n, ind, bad)  BY <1>1, <1>7, <1>15, <2>0, <2>2, <2>4, Relabelled
    <2>6. h = {} /\ y.fd = 0 /\ ~y.deleted /\ y.ref = Cardinality(h)
      BY <1>4, <1>5, <1>10, <1>12, <1>15, <2>3 DEF Same
    <2>7. G \in [Obj -> SUBSET Client] /\ Counted(d.obj, G)
      <3>1. /\ [H EXCEPT ![o] = h] \in [Obj -> SUBSET Client]
            /\ Counted([c.obj EXCEPT ![o] = y], [H EXCEPT ![o] = h])
        BY <1>1, <1>3, <2>2, <2>6, CountedPut
      <3> QED BY <1>13, <2>1, <3>1
    <2> QED BY <2>5, <2>7 DEF Valid
  <1>16. ASSUME c.obj[o].ref = m /\ c.obj[o].deleted /\ Drops(c, d, o)
         PROVE  Valid(d, G, n, ind, bad)
    <2>1. BooksOK(d, n, ind, bad)  BY <1>1, <1>7, <1>16, Destroyed
    <2>2. h = {} /\ Cardinality(h) = 0  BY <1>4, <1>5, <1>16
    <2>3. Free.ref = 0 /\ Free.fd = 0 /\ ~Free.deleted  BY DEF Free
    <2>4. /\ [H EXCEPT ![o] = h] \in [Obj -> SUBSET Client]
          /\ Counted([c.obj EXCEPT ![o] = Free], [H EXCEPT ![o] = h])
      BY <1>1, <1>3, <2>2, <2>3, FreeIs, CountedPut
    <2> QED BY <1>13, <1>16, <2>1, <2>4 DEF Valid, Drops
  <1>17. Valid(d, G, n, ind, bad)
    BY <1>7, <1>8, <1>14, <1>15, <1>16 DEF Releases
  <1>18. G = [H EXCEPT ![o] = @ \ K]  BY <1>2, <1>13
  <1> QED BY <1>2, <1>4, <1>5, <1>6, <1>7, <1>17, <1>18

\* An object is replaced by one with the same users.
LEMMA PutOK ==
  ASSUME NEW c, NEW H, NEW n \in Nat, NEW ind, NEW bad, Valid(c, H, n, ind, bad),
         NEW d \in Cache, NEW o \in Obj, NEW x \in CacheObj, Puts(c, d, o, x),
         Same(c.obj[o], x), Formed(x), x.ref = c.obj[o].ref, H[o] = {} => x.fd = 0
  PROVE  Valid(d, H, n, ind, bad)
  <1>1. /\ BooksOK(c, n, ind, bad) /\ H \in [Obj -> SUBSET Client] /\ Counted(c.obj, H)
        /\ c.obj \in [Obj -> CacheObj]
    BY Fields DEF Valid, BooksOK
  <1>2. BooksOK(d, n, ind, bad)  BY <1>1, Relabelled
  <1>3. d.obj[o] = x /\ \A p \in Obj \ {o} : d.obj[p] = c.obj[p]  BY <1>1 DEF Puts
  <1>4. Counted(d.obj, H)  BY <1>1, <1>3 DEF Counted, Same
  <1> QED BY <1>1, <1>2, <1>4 DEF Valid

\* The cache is no smaller than an object that is not deleted.
LEMMA NotSmaller ==
  ASSUME NEW c, NEW n, NEW ind, NEW bad, BooksOK(c, n, ind, bad),
         NEW o \in Obj, c.obj[o].id # None, ~c.obj[o].deleted
  PROVE  c.obj[o].size <= c.size
  <1>1. c \in Cache /\ c.obj \in [Obj -> CacheObj] /\ c.size \in Nat
    BY Fields DEF BooksOK
  <1>2. c.size >= Counts(c.obj)  BY DEF BooksOK, Sized
  <1>3. Weight(c.obj[o]) = c.obj[o].size  BY DEF Weight
  <1> QED BY <1>1, <1>2, <1>3, CountsSplit

\* An object is deleted.
LEMMA DeleteOK ==
  ASSUME NEW c, NEW H, NEW n \in Nat, NEW ind, NEW bad, Valid(c, H, n, ind, bad),
         NEW o \in Obj, c.obj[o].id # None
  PROVE  Valid(Delete(c, o), H, n, ind, bad) /\ Deletes(c, Delete(c, o), o)
  <1>1. /\ BooksOK(c, n, ind, bad) /\ H \in [Obj -> SUBSET Client] /\ Counted(c.obj, H)
        /\ c \in Cache /\ c.obj \in [Obj -> CacheObj] /\ c.obj[o] \in CacheObj
        /\ Formed(c.obj[o])
    BY Fields DEF Valid, BooksOK, AllFormed
  <1>2. c.obj[o].id \in Id  BY <1>1 DEF CacheObj
  <1>3. PICK d : d = Delete(c, o)  OBVIOUS
  <1>4. d \in Cache /\ Deletes(c, d, o)  BY <1>1, <1>2, <1>3, NotSmaller, DeleteIs
  <1>5. PICK x : x = Gone(c.obj[o])  OBVIOUS
  <1>6. x \in CacheObj /\ x.ref = c.obj[o].ref /\ x.id = c.obj[o].id /\ x.deleted
    BY <1>1, <1>5, GoneIs
  <1>7. ASSUME c.obj[o].deleted /\ d = c
        PROVE  Valid(d, H, n, ind, bad)
    BY <1>7
  <1>8. ASSUME ~c.obj[o].deleted, c.obj[o].ref # 0, Marks(c, d, o)
        PROVE  Valid(d, H, n, ind, bad)
    <2>1. BooksOK(d, n, ind, bad)  BY <1>1, <1>4, <1>8, Marked
    <2>2. d.obj[o] = x /\ \A p \in Obj \ {o} : d.obj[p] = c.obj[p]
      BY <1>1, <1>5, <1>8 DEF Marks
    <2>3. Cardinality(H[o]) # 0  BY <1>1, <1>8 DEF Counted
    <2>4. H[o] # {}  BY <2>3, FS_EmptySet
    <2>5. Counted(d.obj, H)  BY <1>1, <1>6, <2>2, <2>4 DEF Counted
    <2> QED BY <1>1, <2>1, <2>5 DEF Valid
  <1>9. ASSUME ~c.obj[o].deleted, c.obj[o].ref = 0, NEW m \in Cache, Marks(c, m, o), Drops(m, d, o)
        PROVE  Valid(d, H, n, ind, bad)
    <2>1. BooksOK(m, n, ind, bad)  BY <1>1, <1>9, Marked
    <2>2. m.obj[o] = x /\ \A p \in Obj \ {o} : m.obj[p] = c.obj[p]
      BY <1>1, <1>5, <1>9 DEF Marks
    <2>3. BooksOK(d, n, ind, bad)  BY <1>4, <1>6, <1>9, <2>1, <2>2, Destroyed
    <2>4. d.obj[o] = Free /\ \A p \in Obj \ {o} : d.obj[p] = c.obj[p]
      BY <1>9, <2>2, Fields DEF Drops
    <2>5. Cardinality(H[o]) = 0 /\ H[o] \in SUBSET Client  BY <1>1, <1>9 DEF Counted
    <2>6. H[o] = {}  BY <2>5, ClientsFinite
    <2>7. Free.ref = 0 /\ Free.fd = 0 /\ ~Free.deleted  BY DEF Free
    <2>8. Counted(d.obj, H)  BY <1>1, <2>4, <2>5, <2>6, <2>7 DEF Counted
    <2> QED BY <1>1, <2>3, <2>8 DEF Valid
  <1>10. Valid(d, H, n, ind, bad)  BY <1>4, <1>7, <1>8, <1>9 DEF Deletes
  <1> QED BY <1>3, <1>4, <1>10

\* A write error deletes an object that somebody has.
LEMMA WriteErrorOK ==
  ASSUME NEW c, NEW H, NEW n \in Nat, NEW ind, NEW bad, Valid(c, H, n, ind, bad),
         NEW o \in Obj, H[o] # {}
  PROVE  /\ Valid(WriteError(c, o), H, n, ind, TRUE)
         /\ Spoils(c, WriteError(c, o), o)
         /\ WriteError(c, o).disk = c.disk
  <1>1. /\ BooksOK(c, n, ind, bad) /\ H \in [Obj -> SUBSET Client] /\ Counted(c.obj, H)
        /\ c \in Cache /\ c.obj \in [Obj -> CacheObj] /\ c.obj[o] \in CacheObj
        /\ Formed(c.obj[o]) /\ c.size \in Nat
    BY Fields DEF Valid, BooksOK, AllFormed
  <1>2. c.obj[o].id # None /\ c.obj[o].ref # 0
    <2>1. H[o] \in SUBSET Client  BY <1>1
    <2>2. Cardinality(H[o]) # 0  BY <2>1, ClientsFinite
    <2> QED BY <1>1, <2>2 DEF Counted
  <1>3. PICK x : x = Gone(c.obj[o])  OBVIOUS
  <1>4. x \in CacheObj /\ x.ref = c.obj[o].ref /\ x.id = c.obj[o].id /\ x.deleted
    BY <1>1, <1>2, <1>3, GoneIs
  <1>5. PICK m : m = Mark(c, o)  OBVIOUS
  <1>6. m \in Cache /\ Puts(c, m, o, x) /\ m.disk = c.disk
    BY <1>1, <1>3, <1>4, <1>5, PutIs DEF Mark
  <1>7. DeleteObj(c, o) = m  BY <1>1, <1>2, <1>5, DeleteObjIs
  <1>8. PICK s \in Nat : s = c.size + 1  BY <1>1
  <1>9. PICK d : d = [m EXCEPT !.size = s]  OBVIOUS
  <1>10. m.size = c.size  BY <1>6 DEF Puts
  <1>11. WriteError(c, o) = d  BY <1>6, <1>7, <1>8, <1>9, <1>10 DEF WriteError, Cache
  <1>12. d \in Cache  BY <1>6, <1>9 DEF Cache
  <1>13. /\ d.obj = m.obj /\ d.hash = m.hash /\ d.lru = m.lru /\ d.modified = m.modified
         /\ d.name = m.name /\ d.size = s /\ d.disk = m.disk
    BY <1>6, <1>9 DEF Cache
  <1>14. Spoils(c, d, o)  BY <1>3, <1>6, <1>8, <1>13 DEF Spoils, Puts
  <1>15. BooksOK(d, n, ind, TRUE)  BY <1>1, <1>2, <1>12, <1>14, Spoiled
  <1>16. d.obj[o] = x /\ \A p \in Obj \ {o} : d.obj[p] = c.obj[p]
    BY <1>1, <1>3, <1>14 DEF Spoils
  <1>17. Counted(d.obj, H)  BY <1>1, <1>4, <1>16 DEF Counted
  <1> QED BY <1>1, <1>6, <1>11, <1>13, <1>14, <1>15, <1>17 DEF Valid

\* One more piece is accounted for in c.
Grow(c, o) == [c EXCEPT !.size = @ + 1, !.obj[o].size = @ + 1]

\* An object that somebody has grows.
LEMMA GrowOK ==
  ASSUME NEW c, NEW H, NEW n \in Nat, NEW ind, NEW bad, Valid(c, H, n, ind, bad),
         NEW o \in Obj, H[o] # {}, ~c.obj[o].deleted
  PROVE  /\ Valid(Grow(c, o), H, n, ind, bad)
         /\ Grows(c, Grow(c, o), o)
         /\ Grow(c, o).disk = c.disk
  <1>1. /\ BooksOK(c, n, ind, bad) /\ H \in [Obj -> SUBSET Client] /\ Counted(c.obj, H)
        /\ c \in Cache /\ c.obj \in [Obj -> CacheObj] /\ c.obj[o] \in CacheObj
        /\ c.size \in Nat
    BY Fields DEF Valid, BooksOK
  <1>2. c.obj[o].id # None  BY <1>1 DEF Counted
  <1>3. PICK x : x = [c.obj[o] EXCEPT !.size = @ + 1]  OBVIOUS
  <1>4. /\ x \in CacheObj /\ x.ref = c.obj[o].ref /\ x.id = c.obj[o].id /\ x.fd = c.obj[o].fd
        /\ x.deleted = c.obj[o].deleted
    BY <1>1, <1>3 DEF CacheObj
  <1>5. PICK p \in [Obj -> CacheObj] : p = [c.obj EXCEPT ![o] = x]  BY <1>1, <1>4
  <1>6. PICK s \in Nat : s = c.size + 1  BY <1>1
  <1>7. PICK d : d = [c EXCEPT !.size = s, !.obj = p]  OBVIOUS
  <1>8. Grow(c, o) = d  BY <1>1, <1>3, <1>5, <1>6, <1>7 DEF Grow, Cache
  <1>9. d \in Cache  BY <1>1, <1>7 DEF Cache
  <1>10. /\ d.obj = p /\ d.hash = c.hash /\ d.lru = c.lru /\ d.modified = c.modified
         /\ d.name = c.name /\ d.size = s /\ d.disk = c.disk
    BY <1>1, <1>7 DEF Cache
  <1>11. Grows(c, d, o)  BY <1>1, <1>3, <1>5, <1>6, <1>10 DEF Grows
  <1>12. BooksOK(d, n, ind, bad)  BY <1>1, <1>2, <1>9, <1>11, Grown
  <1>13. d.obj[o] = x /\ \A q \in Obj \ {o} : d.obj[q] = c.obj[q]
    BY <1>1, <1>5, <1>10
  <1>14. Counted(d.obj, H)  BY <1>1, <1>4, <1>13 DEF Counted
  <1> QED BY <1>1, <1>8, <1>10, <1>11, <1>12, <1>14 DEF Valid

\* A client creates an object.
LEMMA CreateOK ==
  ASSUME NEW c, NEW H, NEW n \in Nat, NEW ind, NEW bad, Valid(c, H, n, ind, bad),
         n < MaxDownloads, NEW i \in Id, NEW d \in Download, NEW u \in Client
  PROVE  /\ Valid(Create(c, i, d), [H EXCEPT ![Fresh(c)] = {u}], n + 1, ind, bad)
         /\ Adds(c, Create(c, i, d), Fresh(c), NewObj(c, i, d))
         /\ Fresh(c) \in Obj /\ H[Fresh(c)] = {} /\ c.obj[Fresh(c)].id = None
  <1>1. /\ BooksOK(c, n, ind, bad) /\ H \in [Obj -> SUBSET Client] /\ Counted(c.obj, H)
        /\ c \in Cache /\ c.obj \in [Obj -> CacheObj]
    BY Fields DEF Valid, BooksOK
  <1>2. PICK o : o = Fresh(c)  OBVIOUS
  <1>3. o \in Obj /\ c.obj[o].id = None  BY <1>1, <1>2, FreshIs
  <1>4. PICK x : x = NewObj(c, i, d)  OBVIOUS
  <1>5. PICK r : r = Create(c, i, d)  OBVIOUS
  <1>6. r \in Cache /\ Adds(c, r, o, x) /\ x \in CacheObj /\ Formed(x)
    BY <1>1, <1>2, <1>3, <1>4, <1>5, CreateIs
  <1>7. x.id = i /\ x.ref = 1 /\ x.size = 0 /\ ~x.deleted
    BY <1>4 DEF NewObj, Free
  <1>8. BooksOK(r, n + 1, ind, bad)  BY <1>1, <1>3, <1>6, <1>7, Created
  <1>9. Cardinality({u}) = 1 /\ {u} # {}  BY FS_Singleton
  <1>10. /\ [H EXCEPT ![o] = {u}] \in [Obj -> SUBSET Client]
         /\ Counted([c.obj EXCEPT ![o] = x], [H EXCEPT ![o] = {u}])
    <2>1. PICK h \in SUBSET Client : h = {u}  OBVIOUS
    <2>2. x.ref = Cardinality(h) /\ h # {} /\ x.id # None  BY <1>7, <1>9, <2>1, NoObjects
    <2>3. /\ [H EXCEPT ![o] = h] \in [Obj -> SUBSET Client]
          /\ Counted([c.obj EXCEPT ![o] = x], [H EXCEPT ![o] = h])
      BY <1>1, <1>3, <1>6, <2>2, CountedPut
    <2> QED BY <2>1, <2>3
  <1>11. Valid(r, [H EXCEPT ![o] = {u}], n + 1, ind, bad)
    BY <1>6, <1>8, <1>10 DEF Valid, Adds
  <1>12. H[o] = {}  BY <1>1, <1>3 DEF Counted
  <1> QED BY <1>2, <1>3, <1>4, <1>5, <1>6, <1>11, <1>12

\* One object of the list is looked at by Prune().
PruneStep(c, g, n) ==
  IF g.size > MaxSize /\ Prunable(c.obj[c.lru[n]]) THEN Delete(g, c.lru[n]) ELSE g

PruneUpTo(c, g, m) == g = [n \in 0..m |-> IF n = 0 THEN c ELSE PruneStep(c, g[n - 1], n)]

\* The function that Prune() is defined by.
LEMMA PruneExists ==
  ASSUME NEW c
  PROVE  \A m \in Nat : \E g : PruneUpTo(c, g, m)
  <1> DEFINE T == {m \in Nat : \E g : PruneUpTo(c, g, m)}
  <1>1. 0 \in T
    <2>1. PICK g : g = [n \in 0..0 |-> c]  OBVIOUS
    <2>2. PruneUpTo(c, g, 0)  BY <2>1 DEF PruneUpTo
    <2> QED BY <2>2
  <1>2. ASSUME NEW m \in Nat, m \in T
        PROVE  m + 1 \in T
    <2>1. PICK g : PruneUpTo(c, g, m)  BY <1>2
    <2>2. PICK h : h = [n \in 0..(m + 1) |-> IF n = 0 THEN c ELSE PruneStep(c, g[n - 1], n)]
      OBVIOUS
    <2>3. \A n \in 0..m : h[n] = g[n]  BY <2>1, <2>2 DEF PruneUpTo
    <2>4. PruneUpTo(c, h, m + 1)
      <3>1. \A n \in 0..(m + 1) : n # 0 => n - 1 \in 0..m  BY <1>2
      <3>2. \A n \in 0..(m + 1) : n # 0 => h[n - 1] = g[n - 1]  BY <2>3, <3>1
      <3> QED BY <2>2, <3>2 DEF PruneUpTo
    <2> QED BY <1>2, <2>4
  <1> HIDE DEF T
  <1>3. Nat \subseteq T  BY <1>1, <1>2, Every
  <1> QED BY <1>3 DEF T

\* Prune() goes through the list from the first to the last.
LEMMA PruneIs ==
  ASSUME NEW c, Len(c.lru) \in Nat
  PROVE  \E g : PruneUpTo(c, g, Len(c.lru)) /\ Prune(c) = g[Len(c.lru)]
  <1>1. Prune(c) = (CHOOSE g : PruneUpTo(c, g, Len(c.lru)))[Len(c.lru)]
    BY DEF Prune, PruneUpTo, PruneStep
  <1> QED BY <1>1, PruneExists

\* Of c only objects among the first k that nobody had are gone in d.
Pruned(c, d, k) ==
  \A p \in Obj :
    \/ d.obj[p] = c.obj[p]
    \/ \E j \in 1..k : c.lru[j] = p /\ Prunable(c.obj[p]) /\ d.obj[p] = Free

\* An object is pruned.
LEMMA PruneStepOK ==
  ASSUME NEW c, NEW H, NEW n \in Nat, NEW ind, NEW bad, Valid(c, H, n, ind, bad),
         NEW k \in Nat, k + 1 <= Len(c.lru), NEW d, Valid(d, H, n, ind, bad), Pruned(c, d, k)
  PROVE  /\ Valid(PruneStep(c, d, k + 1), H, n, ind, bad)
         /\ Pruned(c, PruneStep(c, d, k + 1), k + 1)
         /\ PruneStep(c, d, k + 1) # d =>
              /\ c.lru[k + 1] \in Obj
              /\ Prunable(d.obj[c.lru[k + 1]])
              /\ d.obj[c.lru[k + 1]].id # None
              /\ PruneStep(c, d, k + 1) = Delete(d, c.lru[k + 1])
  <1>1. /\ c \in Cache /\ d \in Cache /\ c.lru \in Seq(Obj) /\ Listed(c.obj, c.lru, n)
        /\ d.obj \in [Obj -> CacheObj]
    BY Fields DEF Valid, BooksOK
  <1>2. PICK r : r = PruneStep(c, d, k + 1)  OBVIOUS
  <1>3. CASE ~(d.size > MaxSize /\ Prunable(c.obj[c.lru[k + 1]]))
    <2>1. r = d  BY <1>2, <1>3 DEF PruneStep
    <2>2. Pruned(c, d, k + 1)
      <3>1. \A j \in 1..k : j \in 1..(k + 1)  OBVIOUS
      <3> QED BY <3>1 DEF Pruned
    <2> QED BY <1>2, <2>1, <2>2
  <1>4. CASE d.size > MaxSize /\ Prunable(c.obj[c.lru[k + 1]])
    <2>1. PICK o : o = c.lru[k + 1]  OBVIOUS
    <2>2. k + 1 \in DOMAIN c.lru /\ o \in Obj  BY <1>1, <2>1
    <2>3. c.obj[o].id # None
      <3>1. Has(c.lru, o)  BY <2>1, <2>2 DEF Has
      <3> QED BY <1>1, <2>2, <3>1 DEF Listed
    <2>4. d.obj[o] = c.obj[o]
      <3>1. \A j \in 1..k : c.lru[j] # o
        <4>1. \A j \in 1..k : j \in DOMAIN c.lru /\ j # k + 1  BY <1>1
        <4> QED BY <1>1, <2>1, <2>2, <4>1 DEF Listed, Distinct
      <3> QED BY <2>2, <3>1 DEF Pruned
    <2>5. r = Delete(d, o)  BY <1>2, <1>4, <2>1 DEF PruneStep
    <2>6. Valid(r, H, n, ind, bad) /\ Deletes(d, r, o)  BY <2>2, <2>3, <2>4, <2>5, DeleteOK
    <2>7. Prunable(d.obj[o])  BY <1>4, <2>1, <2>4
    <2>8. PICK m \in Cache : Marks(d, m, o) /\ Drops(m, r, o)
      BY <2>6, <2>7 DEF Deletes, Prunable
    <2>9. r.obj[o] = Free /\ \A p \in Obj \ {o} : r.obj[p] = d.obj[p]
      BY <1>1, <2>2, <2>8, Fields DEF Marks, Drops
    <2>10. Pruned(c, r, k + 1)
      <3>1. \A j \in 1..k : j \in 1..(k + 1)  OBVIOUS
      <3>2. k + 1 \in 1..(k + 1)  OBVIOUS
      <3> QED BY <1>4, <2>1, <2>9, <3>1, <3>2 DEF Pruned
    <2> QED BY <1>2, <2>1, <2>2, <2>3, <2>4, <2>5, <2>6, <2>7, <2>10
  <1> QED BY <1>3, <1>4

\* The cache is pruned.
LEMMA PruneOK ==
  ASSUME NEW c, NEW H, NEW n \in Nat, NEW ind, NEW bad, Valid(c, H, n, ind, bad)
  PROVE  /\ Valid(Prune(c), H, n, ind, bad)
         /\ \A p \in Obj : H[p] # {} => Prune(c).obj[p] = c.obj[p]
         /\ \E g :
              /\ g[0] = c /\ Prune(c) = g[Len(c.lru)]
              /\ \A k \in Nat : k <= Len(c.lru) => Valid(g[k], H, n, ind, bad) /\ Pruned(c, g[k], k)
              /\ \A k \in Nat : k + 1 <= Len(c.lru) => g[k + 1] = PruneStep(c, g[k], k + 1)
  <1>1. /\ c \in Cache /\ c.lru \in Seq(Obj) /\ H \in [Obj -> SUBSET Client] /\ Counted(c.obj, H)
        /\ Len(c.lru) \in Nat
    BY Fields DEF Valid, BooksOK
  <1>2. PICK g : PruneUpTo(c, g, Len(c.lru)) /\ Prune(c) = g[Len(c.lru)]  BY <1>1, PruneIs
  <1>3. /\ g[0] = c
        /\ \A k \in Nat : k + 1 <= Len(c.lru) => g[k + 1] = PruneStep(c, g[k], k + 1)
    BY <1>1, <1>2 DEF PruneUpTo
  <1> DEFINE T == {k \in Nat : k <= Len(c.lru) => Valid(g[k], H, n, ind, bad) /\ Pruned(c, g[k], k)}
  <1>4. 0 \in T  BY <1>3 DEF Pruned
  <1>5. ASSUME NEW k \in Nat, k \in T
        PROVE  k + 1 \in T
    BY <1>1, <1>3, <1>5, PruneStepOK
  <1> HIDE DEF T
  <1>6. Nat \subseteq T  BY <1>4, <1>5, Every
  <1>7. \A k \in Nat : k <= Len(c.lru) => Valid(g[k], H, n, ind, bad) /\ Pruned(c, g[k], k)
    BY <1>6 DEF T
  <1>8. Valid(Prune(c), H, n, ind, bad) /\ Pruned(c, Prune(c), Len(c.lru))
    BY <1>1, <1>2, <1>7
  <1>9. \A p \in Obj : H[p] # {} => ~Prunable(c.obj[p])
    <2>1. \A p \in Obj : H[p] # {} => Cardinality(H[p]) # 0  BY <1>1, ClientsFinite
    <2> QED BY <1>1, <2>1 DEF Counted, Prunable
  <1>10. \A p \in Obj : H[p] # {} => Prune(c).obj[p] = c.obj[p]
    BY <1>8, <1>9 DEF Pruned
  <1> QED BY <1>2, <1>3, <1>7, <1>8, <1>10

-----------------------------------------------------------------------------
(* The end of the daemon *)

\* The clients of an object release it.
CleanStep(g, n) == IF Users(n) = {} THEN g ELSE Release(g, n, Cardinality(Users(n)))

CleanUpTo(c, g, m) == g = [n \in 0..m |-> IF n = 0 THEN c ELSE CleanStep(g[n - 1], n)]

\* The function that Cleanup() is defined by.
LEMMA CleanExists ==
  ASSUME NEW c
  PROVE  \A m \in Nat : \E g : CleanUpTo(c, g, m)
  <1> DEFINE T == {m \in Nat : \E g : CleanUpTo(c, g, m)}
  <1>1. 0 \in T
    <2>1. PICK g : g = [n \in 0..0 |-> c]  OBVIOUS
    <2>2. CleanUpTo(c, g, 0)  BY <2>1 DEF CleanUpTo
    <2> QED BY <2>2
  <1>2. ASSUME NEW m \in Nat, m \in T
        PROVE  m + 1 \in T
    <2>1. PICK g : CleanUpTo(c, g, m)  BY <1>2
    <2>2. PICK h : h = [n \in 0..(m + 1) |-> IF n = 0 THEN c ELSE CleanStep(g[n - 1], n)]
      OBVIOUS
    <2>3. \A n \in 0..m : h[n] = g[n]  BY <2>1, <2>2 DEF CleanUpTo
    <2>4. CleanUpTo(c, h, m + 1)
      <3>1. \A n \in 0..(m + 1) : n # 0 => n - 1 \in 0..m  BY <1>2
      <3>2. \A n \in 0..(m + 1) : n # 0 => h[n - 1] = g[n - 1]  BY <2>3, <3>1
      <3> QED BY <2>2, <3>2 DEF CleanUpTo
    <2> QED BY <1>2, <2>4
  <1> HIDE DEF T
  <1>3. Nat \subseteq T  BY <1>1, <1>2, Every
  <1> QED BY <1>3 DEF T

\* Cleanup() goes through the objects from the first to the last.
LEMMA CleanupIs ==
  ASSUME NEW c
  PROVE  \E g : CleanUpTo(c, g, MaxDownloads) /\ Cleanup(c) = g[MaxDownloads]
  <1>1. Cleanup(c) = (CHOOSE g : CleanUpTo(c, g, MaxDownloads))[MaxDownloads]
    BY DEF Cleanup, CleanUpTo, CleanStep
  <1> QED BY <1>1, CleanExists, HttpCacheAssumption

\* Nobody has the first k objects any more.
Emptied(H, k) == [o \in Obj |-> IF o <= k THEN {} ELSE H[o]]

\* One object is given back.
LEMMA CleanStepOK ==
  ASSUME NEW H, H = Holders(client), NEW n \in Nat, NEW ind, NEW bad, NEW k \in Nat,
         k + 1 \in Obj, NEW d, Valid(d, Emptied(H, k), n, ind, bad)
  PROVE  /\ Valid(CleanStep(d, k + 1), Emptied(H, k + 1), n, ind, bad)
         /\ CleanStep(d, k + 1).modified = d.modified
         /\ \/ CleanStep(d, k + 1) = d /\ H[k + 1] = {}
            \/ /\ Releases(d, CleanStep(d, k + 1), k + 1, d.obj[k + 1].ref)
               /\ H[k + 1] # {}
  <1>1. PICK o \in Obj : o = k + 1  OBVIOUS
  <1>2. PICK r : r = CleanStep(d, o)  OBVIOUS
  <1>3. H[o] = Users(o) /\ H[o] \in SUBSET Client  BY DEF Holders, Users
  <1>4. PICK E : E = Emptied(H, k)  OBVIOUS
  <1>5. Valid(d, E, n, ind, bad) /\ E \in [Obj -> SUBSET Client]  BY <1>4 DEF Valid
  <1>6. E[o] = H[o]  BY <1>1, <1>4 DEF Emptied, Obj
  <1>7. \A p \in Obj : p <= o <=> p <= k \/ p = o  BY <1>1 DEF Obj
  <1>8. Emptied(H, o) = [E EXCEPT ![o] = {}]  BY <1>1, <1>4, <1>7 DEF Emptied, Obj
  <1>9. CASE Users(o) = {}
    <2>1. r = d  BY <1>2, <1>9 DEF CleanStep
    <2>2. Emptied(H, o) = E  BY <1>3, <1>5, <1>6, <1>8, <1>9
    <2> QED BY <1>1, <1>2, <1>3, <1>5, <1>9, <2>1, <2>2
  <1>10. CASE Users(o) # {}
    <2>1. PICK m : m = Cardinality(H[o])  OBVIOUS
    <2>2. r = Release(d, o, m)  BY <1>2, <1>3, <1>10, <2>1 DEF CleanStep
    <2>3. /\ Valid(r, [E EXCEPT ![o] = @ \ H[o]], n, ind, bad)
          /\ Releases(d, r, o, m)
      BY <1>3, <1>5, <1>6, <1>10, <2>1, <2>2, ReleaseOK
    <2>4. [E EXCEPT ![o] = @ \ H[o]] = [E EXCEPT ![o] = {}]  BY <1>6
    <2>5. d.obj[o].ref = m  BY <1>5, <1>6, <2>1 DEF Valid, Counted
    <2>6. r.modified = d.modified  BY <2>3 DEF Releases, Puts, Drops
    <2> QED BY <1>1, <1>2, <1>3, <1>8, <1>10, <2>3, <2>4, <2>5, <2>6
  <1> QED BY <1>9, <1>10

\* Everything is given back.
LEMMA CleanupOK ==
  ASSUME NEW c, NEW H, H = Holders(client), NEW n \in Nat, NEW ind, NEW bad,
         Valid(c, H, n, ind, bad)
  PROVE  /\ Valid(Cleanup(c), [o \in Obj |-> {}], n, ind, bad)
         /\ Cleanup(c).modified = c.modified
         /\ \E g :
              /\ g[0] = c /\ Cleanup(c) = g[MaxDownloads]
              /\ \A k \in Nat : k <= MaxDownloads => Valid(g[k], Emptied(H, k), n, ind, bad)
              /\ \A k \in Nat : k + 1 <= MaxDownloads => g[k + 1] = CleanStep(g[k], k + 1)
  <1>1. MaxDownloads \in Nat  BY HttpCacheAssumption
  <1>2. PICK g : CleanUpTo(c, g, MaxDownloads) /\ Cleanup(c) = g[MaxDownloads]  BY CleanupIs
  <1>3. /\ g[0] = c
        /\ \A k \in Nat : k + 1 <= MaxDownloads => g[k + 1] = CleanStep(g[k], k + 1)
    BY <1>1, <1>2 DEF CleanUpTo
  <1> DEFINE T == {k \in Nat : k <= MaxDownloads =>
                     Valid(g[k], Emptied(H, k), n, ind, bad) /\ g[k].modified = c.modified}
  <1>4. 0 \in T
    <2>1. H \in [Obj -> SUBSET Client]  BY DEF Holders
    <2>2. \A o \in Obj : ~(o <= 0)  BY DEF Obj
    <2>3. Emptied(H, 0) = H  BY <2>1, <2>2 DEF Emptied
    <2> QED BY <1>3, <2>3
  <1>5. ASSUME NEW k \in Nat, k \in T
        PROVE  k + 1 \in T
    <2>1. SUFFICES ASSUME k + 1 <= MaxDownloads
                   PROVE  /\ Valid(g[k + 1], Emptied(H, k + 1), n, ind, bad)
                          /\ g[k + 1].modified = c.modified
      BY <1>5
    <2>2. k + 1 \in Obj /\ k <= MaxDownloads  BY <1>1, <2>1 DEF Obj
    <2>3. Valid(g[k], Emptied(H, k), n, ind, bad) /\ g[k].modified = c.modified
      BY <1>5, <2>2
    <2>4. PICK d : d = g[k]  OBVIOUS
    <2>5. /\ Valid(CleanStep(d, k + 1), Emptied(H, k + 1), n, ind, bad)
          /\ CleanStep(d, k + 1).modified = d.modified
      BY <2>2, <2>3, <2>4, CleanStepOK
    <2> QED BY <1>3, <2>1, <2>3, <2>4, <2>5
  <1> HIDE DEF T
  <1>6. Nat \subseteq T  BY <1>4, <1>5, Every
  <1>7. \A k \in Nat : k <= MaxDownloads =>
          Valid(g[k], Emptied(H, k), n, ind, bad) /\ g[k].modified = c.modified
    BY <1>6 DEF T
  <1>8. Emptied(H, MaxDownloads) = [o \in Obj |-> {}]
    <2>1. \A o \in Obj : o <= MaxDownloads  BY <1>1 DEF Obj
    <2> QED BY <2>1 DEF Emptied
  <1>9. Valid(Cleanup(c), [o \in Obj |-> {}], n, ind, bad) /\ Cleanup(c).modified = c.modified
    BY <1>1, <1>2, <1>7, <1>8
  <1>10. \A k \in Nat : k <= MaxDownloads => Valid(g[k], Emptied(H, k), n, ind, bad)
    BY <1>7
  <1> QED BY <1>2, <1>3, <1>9, <1>10

\* A list has as many elements as it has places.
LEMMA DistinctLen ==
  ASSUME NEW s \in Seq(Obj), Distinct(s), NEW S, S = {p \in Obj : Has(s, p)}
  PROVE  Cardinality(S) = Len(s)
  <1>1. Len(s) \in Nat /\ DOMAIN s = 1..Len(s) /\ s \in [1..Len(s) -> Obj]
    BY LenProperties
  <1>2. s \in [1..Len(s) -> S]  BY <1>1 DEF Has
  <1>3. s \in Bijection(1..Len(s), S)
    <2>1. \A a, b \in 1..Len(s) : s[a] = s[b] => a = b  BY <1>1 DEF Distinct
    <2>2. \A p \in S : \E k \in 1..Len(s) : s[k] = p  BY <1>1 DEF Has
    <2> QED BY <1>2, <2>1, <2>2 DEF Bijection, Injection, Surjection, IsInjective
  <1>4. ExistsBijection(1..Len(s), S)  BY <1>3 DEF ExistsBijection
  <1> QED BY <1>1, <1>4, FS_CountingElements

Entry == [id : Id, size : Nat]

\* The objects that the index is to have.
LEMMA IndexedIs ==
  ASSUME NEW c, NEW n \in Nat, NEW ind, NEW bad, BooksOK(c, n, ind, bad)
  PROVE  /\ Indexed(c) \in Seq(Obj)
         /\ Distinct(Indexed(c))
         /\ \A p \in Obj : Has(Indexed(c), p) <=> p \in Kin(c.obj)
         /\ Len(Indexed(c)) <= n
         /\ Len(Indexed(c)) = Cardinality(Kin(c.obj))
         /\ Len(c.lru) = Cardinality(Held(c.obj))
         /\ Kin(c.obj) \subseteq Held(c.obj)
  <1>1. c.lru \in Seq(Obj) /\ Listed(c.obj, c.lru, n) /\ c \in Cache
    BY Fields DEF BooksOK
  <1>2. PICK S : S = {o \in Obj : IsComplete(c, o) /\ ~c.obj[o].deleted}  OBVIOUS
  <1>3. PICK w : w = Kept(c.lru, S)  OBVIOUS
  <1>4. Indexed(c) = w  BY <1>2, <1>3 DEF Indexed
  <1>5. KeptIn(c.lru, S, w, Len(c.lru), Obj)  BY <1>1, <1>3, KeptFacts
  <1>6. DOMAIN c.lru = 1..Len(c.lru)  BY <1>1
  <1>7. /\ w \in Seq(Obj) /\ Distinct(w)
        /\ \A k \in DOMAIN w : w[k] \in S /\ \E j \in DOMAIN c.lru : c.lru[j] = w[k]
        /\ \A j \in DOMAIN c.lru : c.lru[j] \in S => \E k \in DOMAIN w : w[k] = c.lru[j]
    BY <1>1, <1>5, <1>6 DEF KeptIn, Listed
  <1>8. \A p \in Obj : Has(w, p) <=> Has(c.lru, p) /\ p \in S
    BY <1>7 DEF Has
  <1>9. \A p \in Obj : Has(w, p) <=> p \in Kin(c.obj)
    BY <1>1, <1>2, <1>8 DEF Listed, Kin, IsComplete
  <1>10. Kin(c.obj) \subseteq Held(c.obj)  BY DEF Kin, Held
  <1>11. Kin(c.obj) = {p \in Obj : Has(w, p)}  BY <1>9 DEF Kin
  <1>12. Len(w) = Cardinality(Kin(c.obj))  BY <1>7, <1>11, DistinctLen
  <1>13. Held(c.obj) = {p \in Obj : Has(c.lru, p)}  BY <1>1 DEF Listed, Held
  <1>14. Len(c.lru) = Cardinality(Held(c.obj))  BY <1>1, <1>13, DistinctLen DEF Listed
  <1>15. Len(w) <= n
    <2>1. Cardinality(Held(c.obj)) <= n  BY <1>1 DEF Listed
    <2>2. IsFiniteSet(Held(c.obj))  BY ObjFinite DEF Held
    <2>3. Cardinality(Kin(c.obj)) <= Cardinality(Held(c.obj))
      BY <1>10, <2>2, FS_Subset
    <2>4. Len(w) \in Nat /\ Len(c.lru) \in Nat  BY <1>1, <1>7
    <2> QED BY <1>12, <1>14, <2>1, <2>3, <2>4
  <1> QED BY <1>4, <1>7, <1>9, <1>10, <1>12, <1>14, <1>15

\* The index has an entry for each of them.
LEMMA NewIndexIs ==
  ASSUME NEW c, NEW n \in Nat, NEW ind, NEW bad, BooksOK(c, n, ind, bad),
         index \in Seq(Entry), Len(index) <= n
  PROVE  /\ NewIndex(c) \in Seq(Entry)
         /\ Len(NewIndex(c)) <= n
         /\ ~c.modified => NewIndex(c) = index
         /\ c.modified =>
              /\ DOMAIN NewIndex(c) = DOMAIN Indexed(c)
              /\ \A k \in DOMAIN Indexed(c) :
                   /\ NewIndex(c)[k].id = c.obj[Indexed(c)[k]].id
                   /\ Indexed(c)[k] \in Kin(c.obj)
              /\ \A i \in Id : (\E k \in DOMAIN NewIndex(c) : NewIndex(c)[k].id = i) <=>
                                 \E o \in Kin(c.obj) : c.obj[o].id = i
  <1>1. c \in Cache /\ c.obj \in [Obj -> CacheObj]  BY Fields DEF BooksOK
  <1>2. CASE ~c.modified
    <2>1. NewIndex(c) = index  BY <1>2 DEF NewIndex
    <2> QED BY <1>2, <2>1
  <1>3. CASE c.modified
    <2>1. PICK w : w = Indexed(c)  OBVIOUS
    <2>2. /\ w \in Seq(Obj) /\ Len(w) <= n
          /\ \A p \in Obj : Has(w, p) <=> p \in Kin(c.obj)
      BY <2>1, IndexedIs
    <2>3. Len(w) \in Nat /\ DOMAIN w = 1..Len(w) /\ \A k \in DOMAIN w : w[k] \in Obj
      BY <2>2, LenProperties
    <2>4. PICK e : e = [k \in DOMAIN w |-> [id |-> c.obj[w[k]].id, size |-> c.obj[w[k]].size]]
      OBVIOUS
    <2>5. NewIndex(c) = e  BY <1>3, <2>1, <2>4 DEF NewIndex
    <2>6. \A k \in DOMAIN w : w[k] \in Kin(c.obj)  BY <2>2, <2>3 DEF Has
    <2>7. \A o \in Kin(c.obj) : c.obj[o].id \in Id /\ c.obj[o].size \in Nat
      BY <1>1 DEF Kin, CacheObj
    <2>8. e \in [1..Len(w) -> Entry]  BY <2>3, <2>4, <2>6, <2>7 DEF Entry
    <2>9. e \in Seq(Entry) /\ Len(e) = Len(w)  BY <2>3, <2>8, FunctionIsSeq
    <2>10. /\ DOMAIN e = DOMAIN w
           /\ \A k \in DOMAIN w : e[k].id = c.obj[w[k]].id
      BY <2>4
    <2>11. \A i \in Id : (\E k \in DOMAIN e : e[k].id = i) <=> \E o \in Kin(c.obj) : c.obj[o].id = i
      <3>1. \A o \in Kin(c.obj) : o \in Obj /\ \E k \in DOMAIN w : w[k] = o
        BY <2>2 DEF Has, Kin
      <3> QED BY <2>6, <2>10, <3>1
    <2> QED BY <1>3, <2>1, <2>2, <2>5, <2>6, <2>9, <2>10, <2>11
  <1> QED BY <1>2, <1>3

\* The object of an entry of the index.
Loaded(e, o) == IF o <= Len(e) THEN [Free EXCEPT !.id = e[o].id, !.size = e[o].size] ELSE Free

\* What LoadIndex() makes of an index.
LEMMA LoadIndexIs ==
  ASSUME NEW c \in Cache, NEW e \in Seq(Entry), Len(e) <= MaxDownloads
  PROVE  /\ LoadIndex(c, e) \in Cache
         /\ LoadIndex(c, e).obj = [o \in Obj |-> Loaded(e, o)]
         /\ LoadIndex(c, e).lru = [o \in 1..Len(e) |-> o]
         /\ \A i \in Id :
              \/ LoadIndex(c, e).hash[i] = None
              \/ /\ LoadIndex(c, e).hash[i] \in 1..Len(e)
                 /\ e[LoadIndex(c, e).hash[i]].id = i
         /\ LoadIndex(c, e).size
              = SumFunctionOnSet([k \in 1..Len(e) |-> e[k].size], 1..Len(e))
         /\ ~LoadIndex(c, e).modified
         /\ LoadIndex(c, e).name = c.name
         /\ LoadIndex(c, e).disk = c.disk
         /\ \A o \in Obj : Loaded(e, o) \in CacheObj
  <1>1. Len(e) \in Nat /\ \A k \in 1..Len(e) : e[k] \in Entry  BY LenProperties
  <1>2. PICK n \in Nat : n = Len(e)  BY <1>1
  <1>3. 1..n \subseteq Obj  BY <1>2, HttpCacheAssumption DEF Obj
  <1>4. PICK p : p = [o \in Obj |-> Loaded(e, o)]  OBVIOUS
  <1>5. \A o \in Obj : Loaded(e, o) \in CacheObj
    <2>1. SUFFICES ASSUME NEW o \in Obj
                   PROVE  Loaded(e, o) \in CacheObj
      OBVIOUS
    <2>2. CASE o <= Len(e)
      <3>1. e[o].id \in Id /\ e[o].size \in Nat  BY <1>1, <2>2 DEF Entry, Obj
      <3>2. Loaded(e, o) = [Free EXCEPT !.id = e[o].id, !.size = e[o].size]
        BY <2>2 DEF Loaded
      <3> QED BY <3>1, <3>2, FreeIs DEF CacheObj
    <2>3. CASE ~(o <= Len(e))
      BY <2>3, FreeIs DEF Loaded
    <2> QED BY <2>2, <2>3
  <1>6. p \in [Obj -> CacheObj]  BY <1>4, <1>5
  <1>7. PICK l : l = [o \in 1..n |-> o]  OBVIOUS
  <1>8. l \in [1..n -> Obj]  BY <1>3, <1>7
  <1>9. l \in Seq(Obj)  BY <1>8, FunctionIsSeq
  <1>10. PICK h : h = [i \in Id |-> IF {k \in 1..n : e[k].id = i} = {} THEN None
                                     ELSE Min({k \in 1..n : e[k].id = i})]
    OBVIOUS
  <1>11. ASSUME NEW i \in Id
         PROVE  h[i] = None \/ (h[i] \in 1..n /\ e[h[i]].id = i)
    <2>1. PICK T : T = {k \in 1..n : e[k].id = i}  OBVIOUS
    <2>2. h[i] = IF T = {} THEN None ELSE Min(T)  BY <1>10, <2>1
    <2>3. T \subseteq Nat  BY <2>1
    <2>4. CASE T # {}
      <3>1. Min(T) \in T  BY <2>3, <2>4, MinIs
      <3> QED BY <2>1, <2>2, <2>4, <3>1
    <2> QED BY <2>2, <2>4
  <1>12. h \in [Id -> Obj \cup {None, Freed}]
    <2>1. \A i \in Id : h[i] \in Obj \cup {None, Freed}  BY <1>3, <1>11
    <2> QED BY <1>10, <2>1
  <1>13. PICK s : s = SumFunctionOnSet([k \in 1..n |-> e[k].size], 1..n)  OBVIOUS
  <1>14. s \in Nat
    <2>1. PICK f : f = [k \in 1..n |-> e[k].size]  OBVIOUS
    <2>2. \A k \in 1..n : f[k] \in Nat  BY <1>1, <1>2, <2>1 DEF Entry
    <2>3. IsFiniteSet(1..n)  BY FS_Interval
    <2> QED BY <1>13, <2>1, <2>2, <2>3, SumNat
  <1>15. c.name \in [Id -> 0..MaxDownloads] /\ c.disk \in [Download -> Content]  BY Fields
  <1>16. PICK d : d = [obj |-> p, hash |-> h, lru |-> l, size |-> s, modified |-> FALSE,
                       name |-> c.name, disk |-> c.disk]
    OBVIOUS
  <1>17. LoadIndex(c, e) = d
    BY <1>2, <1>4, <1>7, <1>10, <1>13, <1>16 DEF LoadIndex, Loaded
  <1>18. d \in Cache  BY <1>6, <1>9, <1>12, <1>14, <1>15, <1>16 DEF Cache
  <1>19. /\ d.obj = p /\ d.hash = h /\ d.lru = l /\ d.size = s /\ d.modified = FALSE
         /\ d.name = c.name /\ d.disk = c.disk
    BY <1>16
  <1> QED BY <1>2, <1>4, <1>5, <1>7, <1>11, <1>13, <1>17, <1>18, <1>19

\* The books of a cache that was read from the index are right.
LEMMA LoadIndexOK ==
  ASSUME NEW c \in Cache, NEW n \in Nat, n <= MaxDownloads, NEW e \in Seq(Entry), Len(e) <= n
  PROVE  /\ Valid(LoadIndex(c, e), [o \in Obj |-> {}], n, e, FALSE)
         /\ \A o \in Obj : LoadIndex(c, e).obj[o] = Loaded(e, o) /\ Shut(Loaded(e, o))
  <1>1. Len(e) \in Nat /\ DOMAIN e = 1..Len(e) /\ \A k \in 1..Len(e) : e[k] \in Entry
    BY LenProperties
  <1>2. PICK m \in Nat : m = Len(e)  BY <1>1
  <1>3. PICK d : d = LoadIndex(c, e)  OBVIOUS
  <1>4. MaxDownloads \in Nat /\ m <= MaxDownloads  BY <1>2, HttpCacheAssumption
  <1>5. /\ d \in Cache /\ d.obj = [o \in Obj |-> Loaded(e, o)] /\ d.lru = [o \in 1..m |-> o]
        /\ \A i \in Id : d.hash[i] = None \/ (d.hash[i] \in 1..m /\ e[d.hash[i]].id = i)
        /\ d.size = SumFunctionOnSet([k \in 1..m |-> e[k].size], 1..m)
        /\ ~d.modified
        /\ \A o \in Obj : Loaded(e, o) \in CacheObj
    <2>1. /\ LoadIndex(c, e) \in Cache
          /\ LoadIndex(c, e).obj = [o \in Obj |-> Loaded(e, o)]
          /\ LoadIndex(c, e).lru = [o \in 1..Len(e) |-> o]
          /\ \A i \in Id :
               \/ LoadIndex(c, e).hash[i] = None
               \/ /\ LoadIndex(c, e).hash[i] \in 1..Len(e)
                  /\ e[LoadIndex(c, e).hash[i]].id = i
          /\ LoadIndex(c, e).size
               = SumFunctionOnSet([k \in 1..Len(e) |-> e[k].size], 1..Len(e))
          /\ ~LoadIndex(c, e).modified
          /\ \A o \in Obj : Loaded(e, o) \in CacheObj
      BY <1>2, <1>4, LoadIndexIs
    <2> QED BY <1>2, <1>3, <2>1
  <1>6. \A o \in Obj : d.obj[o] = Loaded(e, o) /\ (o <= m => o \in 1..m)  BY <1>5 DEF Obj
  <1>7. ASSUME NEW o \in Obj
        PROVE  /\ d.obj[o].ref = 0 /\ d.obj[o].fd = 0 /\ ~d.obj[o].deleted
               /\ Shut(d.obj[o])
               /\ o <= m => d.obj[o].id = e[o].id /\ d.obj[o].size = e[o].size
               /\ ~(o <= m) => d.obj[o].id = None
    <2>1. CASE o <= m
      <3>1. d.obj[o] = [Free EXCEPT !.id = e[o].id, !.size = e[o].size]
        BY <1>2, <1>6, <2>1 DEF Loaded
      <3> QED BY <2>1, <3>1 DEF Free, Shut
    <2>2. CASE ~(o <= m)
      <3>1. d.obj[o] = Free  BY <1>2, <1>6, <2>2 DEF Loaded
      <3> QED BY <2>2, <3>1 DEF Free, Shut
    <2> QED BY <2>1, <2>2
  <1>8. 1..m \subseteq Obj  BY <1>4 DEF Obj
  <1>9. \A k \in 1..m : d.obj[k].id = e[k].id /\ d.obj[k].size = e[k].size /\ e[k].id \in Id
    BY <1>1, <1>2, <1>7, <1>8 DEF Entry
  <1>10. \A o \in Obj : d.obj[o].id # None <=> o \in 1..m
    BY <1>6, <1>7, <1>9, NoObjects
  <1>11. AllFormed(d.obj)  BY <1>7 DEF AllFormed, Formed, Shut
  <1>12. Hashed(d.obj, d.hash, FALSE)
    <2>1. ASSUME NEW i \in Id
          PROVE  /\ d.hash[i] \in Obj => d.obj[d.hash[i]].id = i
                 /\ d.hash[i] # None => d.hash[i] \in Obj /\ ~d.obj[d.hash[i]].deleted
      <3>1. d.hash[i] = None \/ (d.hash[i] \in 1..m /\ e[d.hash[i]].id = i)  BY <1>5
      <3> QED BY <1>7, <1>8, <1>9, <3>1, NoObjects
    <2> QED BY <2>1 DEF Hashed
  <1>13. Listed(d.obj, d.lru, n)
    <2>1. DOMAIN d.lru = 1..m /\ \A k \in 1..m : d.lru[k] = k  BY <1>5
    <2>2. Distinct(d.lru) /\ \A p \in Obj : Has(d.lru, p) <=> p \in 1..m
      BY <2>1 DEF Distinct, Has
    <2>3. Held(d.obj) = 1..m  BY <1>8, <1>10 DEF Held
    <2>4. Cardinality(1..m) = m  BY FS_Interval
    <2> QED BY <1>2, <1>10, <2>2, <2>3, <2>4 DEF Listed
  <1>14. Sized(d.obj, d.size, FALSE)
    <2>1. Kin(d.obj) = 1..m  BY <1>7, <1>8, <1>10 DEF Kin
    <2>2. PICK f : f = [k \in 1..m |-> e[k].size]  OBVIOUS
    <2>3. PICK h : h = [o \in Obj |-> d.obj[o].size]  OBVIOUS
    <2>4. \A k \in 1..m : f[k] = h[k] /\ f[k] \in Nat
      BY <1>1, <1>2, <1>8, <1>9, <2>2, <2>3 DEF Entry
    <2>5. IsFiniteSet(1..m)  BY FS_Interval
    <2>6. SumFunctionOnSet(f, 1..m) = SumFunctionOnSet(h, 1..m)  BY <2>4, <2>5, SumSame
    <2>7. d.size = Counts(d.obj)  BY <1>5, <2>1, <2>2, <2>3, <2>6 DEF Counts
    <2>8. d.size \in Nat  BY <1>5, Fields
    <2> QED BY <2>7, <2>8 DEF Sized
  <1>15. Current(d.obj, d.modified, e, FALSE)
    <2>1. \A i \in Id : (\E k \in DOMAIN e : e[k].id = i) <=> \E o \in Obj : d.obj[o].id = i
      BY <1>1, <1>2, <1>8, <1>9, <1>10, NoObjects
    <2> QED BY <1>7, <2>1 DEF Current
  <1>16. PICK H : H = [o \in Obj |-> {}]  OBVIOUS
  <1>17. H \in [Obj -> SUBSET Client] /\ Counted(d.obj, H)
    BY <1>7, <1>16, FS_EmptySet DEF Counted
  <1>18. Valid(d, H, n, e, FALSE)
    BY <1>5, <1>11, <1>12, <1>13, <1>14, <1>15, <1>17 DEF Valid, BooksOK
  <1>19. \A o \in Obj : d.obj[o] = Loaded(e, o) /\ Shut(Loaded(e, o))  BY <1>6, <1>7
  <1> QED BY <1>3, <1>16, <1>18, <1>19

-----------------------------------------------------------------------------
(* The operations, and what the clients have *)

\* H has, with each object, those that have it according to the records R of the clients.
HasIn(R, H) == \A v \in Client, o \in Obj : R[v].obj = o => v \in H[o]

Sound(c, H, R, n, ind, bad) ==
  /\ Valid(c, H, n, ind, bad)
  /\ R \in [Client -> HTTPData]
  /\ InTune(c.obj, R)
  /\ HasIn(R, H)

\* A record stays in tune while what it depends on stays.
LEMMA AttunedKept ==
  ASSUME NEW a, NEW b, NEW r, NEW u, Attuned(a, r, u), r.obj \in Obj \cup {None},
         \A o \in Obj : u \in b[o].lis <=> u \in a[o].lis,
         r.obj \in Obj => b[r.obj].id = a[r.obj].id,
         Receiving(r) => b[r.obj].reading = a[r.obj].reading /\ b[r.obj].avail = a[r.obj].avail
  PROVE  Attuned(b, r, u)
  <1>1. r.state \in {"down", "orphan"} => Receiving(r)  BY DEF Receiving
  <1>2. Receiving(r) => r.obj \in Obj  BY DEF Attuned
  <1> QED BY <1>1, <1>2 DEF Attuned

\* A client's record is in tune.
LEMMA RecordIs ==
  ASSUME NEW c, NEW H, NEW R, NEW n, NEW ind, NEW bad, Sound(c, H, R, n, ind, bad),
         NEW v \in Client
  PROVE  /\ Attuned(c.obj, R[v], v)
         /\ R[v] \in HTTPData /\ R[v].obj \in Obj \cup {None}
  <1>1. Attuned(c.obj, R[v], v) /\ R[v] \in HTTPData  BY DEF Sound, InTune
  <1> QED BY <1>1 DEF HTTPData

\* Who listens to an object has it.
LEMMA ListenersHave ==
  ASSUME NEW c, NEW H, NEW R, NEW n, NEW ind, NEW bad, Sound(c, H, R, n, ind, bad),
         NEW v \in Client, NEW o \in Obj
  PROVE  /\ v \in c.obj[o].lis => R[v].obj = o /\ v \in H[o]
         /\ R[v].obj = o => v \in H[o] /\ H[o] # {} /\ c.obj[o].id # None
         /\ Attuned(c.obj, R[v], v)
         /\ R[v] \in HTTPData /\ R[v].obj \in Obj \cup {None}
  <1>1. Attuned(c.obj, R[v], v) /\ R[v] \in HTTPData  BY DEF Sound, InTune
  <1>2. R[v].obj \in Obj \cup {None}  BY <1>1 DEF HTTPData
  <1>3. v \in c.obj[o].lis => R[v].obj = o  BY <1>1 DEF Attuned
  <1>4. R[v].obj = o => v \in H[o]  BY DEF Sound, HasIn
  <1>5. v \in H[o] => c.obj[o].id # None  BY DEF Sound, Valid, Counted
  <1> QED BY <1>1, <1>2, <1>3, <1>4, <1>5

\* An object that somebody has is in the list of objects.
LEMMA SoundIs ==
  ASSUME NEW c, NEW H, NEW R, NEW n, NEW ind, NEW bad, Sound(c, H, R, n, ind, bad)
  PROVE  /\ Valid(c, H, n, ind, bad) /\ BooksOK(c, n, ind, bad)
         /\ c \in Cache /\ c.obj \in [Obj -> CacheObj]
         /\ H \in [Obj -> SUBSET Client] /\ Counted(c.obj, H)
         /\ R \in [Client -> HTTPData] /\ InTune(c.obj, R) /\ HasIn(R, H)
         /\ AllFormed(c.obj)
  BY Fields DEF Sound, Valid, BooksOK

\* One object is replaced by one that looks the same to its listeners.
LEMMA TunePut ==
  ASSUME NEW c, NEW H, NEW R, NEW n, NEW ind, NEW bad, Sound(c, H, R, n, ind, bad),
         NEW d, NEW o \in Obj, NEW x,
         d.obj = [c.obj EXCEPT ![o] = x],
         H[o] # {} => /\ x.id = c.obj[o].id /\ x.reading = c.obj[o].reading
                      /\ x.avail = c.obj[o].avail /\ x.lis = c.obj[o].lis,
         H[o] = {} => x.lis = {}
  PROVE  InTune(d.obj, R)
  <1>1. SUFFICES ASSUME NEW v \in Client
                 PROVE  Attuned(d.obj, R[v], v)
    BY DEF InTune
  <1>2. c.obj \in [Obj -> CacheObj]  BY SoundIs
  <1>3. d.obj[o] = x /\ \A p \in Obj : p # o => d.obj[p] = c.obj[p]  BY <1>2
  <1>4. Attuned(c.obj, R[v], v) /\ R[v].obj \in Obj \cup {None}  BY ListenersHave
  <1>5. R[v].obj = o => H[o] # {}  BY ListenersHave
  <1>6. \A p \in Obj : v \in d.obj[p].lis <=> v \in c.obj[p].lis
    <2>1. H[o] = {} => v \notin c.obj[o].lis  BY ListenersHave
    <2> QED BY <1>3, <2>1
  <1>7. R[v].obj \in Obj => /\ d.obj[R[v].obj].id = c.obj[R[v].obj].id
                            /\ d.obj[R[v].obj].reading = c.obj[R[v].obj].reading
                            /\ d.obj[R[v].obj].avail = c.obj[R[v].obj].avail
    BY <1>3, <1>5
  <1>8. Receiving(R[v]) => R[v].obj \in Obj  BY <1>4 DEF Attuned
  <1>9. PICK r : r = R[v]  OBVIOUS
  <1> QED BY <1>4, <1>6, <1>7, <1>8, <1>9, AttunedKept

\* A client acquires an object.
LEMMA AcquireSound ==
  ASSUME NEW c, NEW H, NEW R, NEW n \in Nat, NEW ind, NEW bad, Sound(c, H, R, n, ind, bad),
         NEW o \in Obj, c.obj[o].id # None, NEW u \in Client, u \notin H[o]
  PROVE  Sound(Acquire(c, o), [H EXCEPT ![o] = @ \cup {u}], R, n, ind, bad)
  <1>1. PICK d : d = Acquire(c, o)  OBVIOUS
  <1>2. Valid(d, [H EXCEPT ![o] = @ \cup {u}], n, ind, bad) /\ Acquires(c, d, o)
    BY <1>1, SoundIs, AcquireOK
  <1>3. PICK x : x = More(c.obj[o])  OBVIOUS
  <1>4. c.obj[o] \in CacheObj  BY SoundIs
  <1>5. /\ x.id = c.obj[o].id /\ x.reading = c.obj[o].reading
        /\ x.avail = c.obj[o].avail /\ x.lis = c.obj[o].lis
    BY <1>3, <1>4 DEF More, CacheObj
  <1>6. H[o] = {} => x.lis = {}
    <2>1. c.obj[o].lis \subseteq Client  BY <1>4 DEF CacheObj
    <2> QED BY <1>5, <2>1, ListenersHave
  <1>7. InTune(d.obj, R)  BY <1>2, <1>3, <1>5, <1>6, TunePut DEF Acquires
  <1>8. HasIn(R, [H EXCEPT ![o] = @ \cup {u}])  BY SoundIs DEF HasIn
  <1> QED BY <1>1, <1>2, <1>7, <1>8, SoundIs DEF Sound

\* Clients that have no object o any more release it.
LEMMA ReleaseSound ==
  ASSUME NEW c, NEW H, NEW R, NEW n \in Nat, NEW ind, NEW bad, Sound(c, H, R, n, ind, bad),
         NEW o \in Obj, NEW K \in SUBSET H[o], H[o] # {}, NEW m, m = Cardinality(K),
         \A v \in K : R[v].obj # o
  PROVE  Sound(Release(c, o, m), [H EXCEPT ![o] = @ \ K], R, n, ind, bad)
  <1>1. PICK d : d = Release(c, o, m)  OBVIOUS
  <1>2. PICK G : G = [H EXCEPT ![o] = @ \ K]  OBVIOUS
  <1>3. /\ Valid(d, G, n, ind, bad) /\ Releases(c, d, o, m)
        /\ c.obj[o].ref = m <=> H[o] \ K = {}
    <2>1. Valid(c, H, n, ind, bad)  BY SoundIs
    <2>2. K \in SUBSET H[o] /\ H[o] # {} /\ m = Cardinality(K)  OBVIOUS
    <2>3. /\ Valid(d, [H EXCEPT ![o] = @ \ K], n, ind, bad)
          /\ Releases(c, d, o, m)
      BY <1>1, <2>1, <2>2, ReleaseOK
    <2>4. c.obj[o].ref = m <=> H[o] \ K = {}
      <3>1. c.obj[o].ref = Cardinality(H[o]) /\ H[o] \in SUBSET Client
        BY SoundIs DEF Counted
      <3>2. PICK h : h = H[o] \ K  OBVIOUS
      <3>3. Cardinality(H[o]) = m <=> h = {}  BY <2>2, <3>1, <3>2, Fewest
      <3> QED BY <3>1, <3>2, <3>3
    <2> QED BY <1>2, <2>3, <2>4
  <1>4. c.obj[o] \in CacheObj /\ c.obj \in [Obj -> CacheObj] /\ K \subseteq Client
    BY SoundIs
  <1>5. \A v \in Client : R[v].obj = o => v \in H[o] \ K  BY ListenersHave
  <1>6. HasIn(R, G)  BY <1>2, <1>5, SoundIs DEF HasIn
  <1>7. ASSUME c.obj[o].ref > m, Puts(c, d, o, Fewer(c.obj[o], m))
        PROVE  InTune(d.obj, R)
    <2>1. PICK x : x = Fewer(c.obj[o], m)  OBVIOUS
    <2>2. /\ x.id = c.obj[o].id /\ x.reading = c.obj[o].reading
          /\ x.avail = c.obj[o].avail /\ x.lis = c.obj[o].lis
      BY <1>4, <2>1 DEF Fewer, CacheObj
    <2>3. d.obj = [c.obj EXCEPT ![o] = x]  BY <1>7, <2>1 DEF Puts
    <2> QED BY <2>2, <2>3, TunePut
  <1>8. ASSUME c.obj[o].ref = m, NEW x, d.obj = [c.obj EXCEPT ![o] = x], x.lis = {}
        PROVE  InTune(d.obj, R)
    <2>1. H[o] \ K = {}  BY <1>3, <1>8
    <2>2. \A v \in Client : R[v].obj # o  BY <1>5, <2>1
    <2>3. SUFFICES ASSUME NEW v \in Client
                   PROVE  Attuned(d.obj, R[v], v)
      BY DEF InTune
    <2>4. Attuned(c.obj, R[v], v) /\ R[v].obj \in Obj \cup {None} /\ R[v].obj # o
      BY <2>2, ListenersHave
    <2>5. d.obj[o] = x /\ \A p \in Obj : p # o => d.obj[p] = c.obj[p]  BY <1>4, <1>8
    <2>6. \A p \in Obj : v \in d.obj[p].lis <=> v \in c.obj[p].lis
      BY <1>8, <2>2, <2>5, ListenersHave
    <2>7. Receiving(R[v]) => R[v].obj \in Obj  BY <2>4 DEF Attuned
    <2>8. PICK r : r = R[v]  OBVIOUS
    <2> QED BY <2>4, <2>5, <2>6, <2>7, <2>8, AttunedKept
  <1>9. Closed(Fewer(c.obj[o], m)).lis = {} /\ Free.lis = {}
    BY ClosedIs DEF Shut, Free
  <1>10. InTune(d.obj, R)
    BY <1>3, <1>7, <1>8, <1>9 DEF Releases, Puts, Drops
  <1> QED BY <1>1, <1>2, <1>3, <1>6, <1>10, SoundIs DEF Sound

\* An object is deleted.
LEMMA DeleteSound ==
  ASSUME NEW c, NEW H, NEW R, NEW n \in Nat, NEW ind, NEW bad, Sound(c, H, R, n, ind, bad),
         NEW o \in Obj, c.obj[o].id # None
  PROVE  Sound(Delete(c, o), H, R, n, ind, bad) /\ Deletes(c, Delete(c, o), o)
  <1>1. PICK d : d = Delete(c, o)  OBVIOUS
  <1>2. Valid(d, H, n, ind, bad) /\ Deletes(c, d, o)  BY <1>1, SoundIs, DeleteOK
  <1>3. c.obj[o] \in CacheObj /\ c.obj \in [Obj -> CacheObj] /\ c \in Cache
    BY SoundIs
  <1>4. ASSUME Marks(c, d, o)
        PROVE  InTune(d.obj, R)
    <2>1. PICK x : x = Gone(c.obj[o])  OBVIOUS
    <2>2. /\ x.id = c.obj[o].id /\ x.reading = c.obj[o].reading
          /\ x.avail = c.obj[o].avail /\ x.lis = c.obj[o].lis
      BY <1>3, <2>1 DEF Gone, CacheObj
    <2>3. d.obj = [c.obj EXCEPT ![o] = x]  BY <1>4, <2>1 DEF Marks
    <2>4. H[o] = {} => x.lis = {}
      <3>1. c.obj[o].lis \subseteq Client  BY <1>3 DEF CacheObj
      <3> QED BY <2>2, <3>1, ListenersHave
    <2> QED BY <2>2, <2>3, <2>4, TunePut
  <1>5. ASSUME c.obj[o].ref = 0, NEW m \in Cache, Marks(c, m, o), Drops(m, d, o)
        PROVE  InTune(d.obj, R)
    <2>1. d.obj = [c.obj EXCEPT ![o] = Free]
      <3>1. m.obj = [c.obj EXCEPT ![o] = Gone(c.obj[o])] /\ d.obj = [m.obj EXCEPT ![o] = Free]
        BY <1>5 DEF Marks, Drops
      <3> QED BY <1>3, <3>1
    <2>2. H[o] = {}
      <3>1. H[o] \in SUBSET Client /\ Cardinality(H[o]) = 0  BY <1>5, SoundIs DEF Counted
      <3> QED BY <3>1, ClientsFinite
    <2>3. Free.lis = {}  BY DEF Free
    <2> QED BY <2>1, <2>2, <2>3, TunePut
  <1>6. InTune(d.obj, R)  BY <1>2, <1>4, <1>5, SoundIs DEF Deletes
  <1> QED BY <1>1, <1>2, <1>6, SoundIs DEF Sound

\* The cache is pruned.
LEMMA PruneSound ==
  ASSUME NEW c, NEW H, NEW R, NEW n \in Nat, NEW ind, NEW bad, Sound(c, H, R, n, ind, bad)
  PROVE  /\ Sound(Prune(c), H, R, n, ind, bad)
         /\ \A p \in Obj : H[p] # {} => Prune(c).obj[p] = c.obj[p]
  <1>1. PICK d : d = Prune(c)  OBVIOUS
  <1>2. Valid(c, H, n, ind, bad)  BY SoundIs
  <1>3. Valid(d, H, n, ind, bad) /\ \A p \in Obj : H[p] # {} => d.obj[p] = c.obj[p]
    <2>1. Valid(Prune(c), H, n, ind, bad)  BY <1>2, PruneOK
    <2>2. \A p \in Obj : H[p] # {} => Prune(c).obj[p] = c.obj[p]  BY <1>2, PruneOK
    <2> QED BY <1>1, <2>1, <2>2
  <1>4. \A p \in Obj : d.obj[p] = c.obj[p] \/ d.obj[p] = Free
    <2>1. PICK g : /\ Prune(c) = g[Len(c.lru)]
                   /\ \A k \in Nat : k <= Len(c.lru) => Pruned(c, g[k], k)
      BY <1>2, PruneOK
    <2>2. Len(c.lru) \in Nat  BY SoundIs, Fields
    <2>3. Pruned(c, d, Len(c.lru))  BY <1>1, <2>1, <2>2
    <2> QED BY <2>3 DEF Pruned
  <1>5. ASSUME NEW v \in Client
        PROVE  Attuned(d.obj, R[v], v)
    <2>1. Attuned(c.obj, R[v], v) /\ R[v].obj \in Obj \cup {None}  BY RecordIs
    <2>2. R[v].obj \in Obj => d.obj[R[v].obj] = c.obj[R[v].obj]  BY <1>3, ListenersHave
    <2>3. \A p \in Obj : v \in d.obj[p].lis <=> v \in c.obj[p].lis
      <3>1. Free.lis = {}  BY DEF Free
      <3>2. \A p \in Obj : v \in c.obj[p].lis => H[p] # {}  BY ListenersHave
      <3> QED BY <1>3, <1>4, <3>1, <3>2
    <2>4. Receiving(R[v]) => R[v].obj \in Obj  BY <2>1 DEF Attuned
    <2>5. PICK r : r = R[v]  OBVIOUS
    <2> QED BY <2>1, <2>2, <2>3, <2>4, <2>5, AttunedKept
  <1>6. Sound(d, H, R, n, ind, bad)  BY <1>3, <1>5, SoundIs DEF Sound, InTune
  <1> QED BY <1>1, <1>3, <1>6

\* An object is replaced by one that is the same for all that have it.
LEMMA PutSound ==
  ASSUME NEW c, NEW H, NEW R, NEW n \in Nat, NEW ind, NEW bad, Sound(c, H, R, n, ind, bad),
         NEW d \in Cache, NEW o \in Obj, NEW x \in CacheObj, Puts(c, d, o, x),
         Same(c.obj[o], x), Formed(x), x.ref = c.obj[o].ref, H[o] # {},
         x.reading = c.obj[o].reading, x.avail = c.obj[o].avail \/ ~x.reading,
         x.lis = c.obj[o].lis
  PROVE  Sound(d, H, R, n, ind, bad)
  <1>1. Valid(d, H, n, ind, bad)  BY SoundIs, PutOK
  <1>2. d.obj = [c.obj EXCEPT ![o] = x] /\ x.id = c.obj[o].id /\ c.obj \in [Obj -> CacheObj]
    BY SoundIs DEF Puts, Same
  <1>3. ASSUME NEW v \in Client
        PROVE  Attuned(d.obj, R[v], v)
    <2>1. Attuned(c.obj, R[v], v) /\ R[v].obj \in Obj \cup {None}  BY ListenersHave
    <2>2. d.obj[o] = x /\ \A p \in Obj : p # o => d.obj[p] = c.obj[p]  BY <1>2
    <2>3. Receiving(R[v]) =>
            /\ R[v].obj \in Obj
            /\ d.obj[R[v].obj].reading = c.obj[R[v].obj].reading
            /\ d.obj[R[v].obj].avail = c.obj[R[v].obj].avail
      BY <2>1, <2>2 DEF Attuned
    <2>4. PICK r : r = R[v]  OBVIOUS
    <2> QED BY <1>2, <2>1, <2>2, <2>3, <2>4, AttunedKept
  <1> QED BY <1>1, <1>3, SoundIs DEF Sound, InTune

\* A client has another record, and no other object than it has.
LEMMA SwapSound ==
  ASSUME NEW c, NEW H, NEW R, NEW n \in Nat, NEW ind, NEW bad, Sound(c, H, R, n, ind, bad),
         NEW u \in Client, NEW r \in HTTPData, Attuned(c.obj, r, u),
         r.obj # None => u \in H[r.obj]
  PROVE  Sound(c, H, [R EXCEPT ![u] = r], n, ind, bad)
  <1>1. PICK Q : Q = [R EXCEPT ![u] = r]  OBVIOUS
  <1>2. Q \in [Client -> HTTPData] /\ Q[u] = r /\ \A v \in Client : v # u => Q[v] = R[v]
    BY <1>1, SoundIs
  <1>3. InTune(c.obj, Q)  BY <1>2, SoundIs DEF InTune
  <1>4. HasIn(Q, H)  BY <1>2, NoObjects, SoundIs DEF HasIn
  <1> QED BY <1>1, <1>2, <1>3, <1>4, SoundIs DEF Sound

\* The state has what the clients have.
LEMMA SoundState ==
  ASSUME BooksInv
  PROVE  /\ Sound(cache, Holders(client), client, down, index, failed)
         /\ down \in Nat /\ down <= MaxDownloads
  <1>1. Valid(cache, Holders(client), down, index, failed)  BY DEF BooksInv
  <1>2. client \in [Client -> HTTPData] /\ InTune(cache.obj, client)  BY DEF BooksInv, TypeOK
  <1>3. HasIn(client, Holders(client))  BY DEF HasIn, Holders
  <1>4. down \in 0..MaxDownloads  BY DEF BooksInv, TypeOK
  <1> QED BY <1>1, <1>2, <1>3, <1>4, HttpCacheAssumption DEF Sound

\* Client u has not the object o any more; or has it too.
Lost(H, o, u) == [H EXCEPT ![o] = @ \ {u}]

Gained(H, o, u) == [H EXCEPT ![o] = @ \cup {u}]

\* A client has its object no more.
LEMMA HoldersDrop ==
  ASSUME NEW R, NEW Q, NEW u \in Client, NEW p \in Obj,
         \A v \in Client : v # u => Q[v].obj = R[v].obj,
         R[u].obj = p, Q[u].obj = None
  PROVE  Holders(Q) = Lost(Holders(R), p, u)
  <1>1. Holders(R) \in [Obj -> SUBSET Client] /\ Holders(Q) \in [Obj -> SUBSET Client]
    BY DEF Holders
  <1>2. \A o \in Obj, v \in Client :
          /\ v \in Holders(Q)[o] <=> Q[v].obj = o
          /\ v \in Holders(R)[o] <=> R[v].obj = o
    BY DEF Holders
  <1>3. PICK G : G = Lost(Holders(R), p, u)  OBVIOUS
  <1>4. G \in [Obj -> SUBSET Client]  BY <1>1, <1>3 DEF Lost
  <1>5. \A o \in Obj : G[o] = IF o = p THEN Holders(R)[o] \ {u} ELSE Holders(R)[o]
    BY <1>1, <1>3 DEF Lost
  <1>6. ASSUME NEW o \in Obj, NEW v \in Client
        PROVE  v \in Holders(Q)[o] <=> v \in G[o]
    <2>1. v \in Holders(Q)[o] <=> Q[v].obj = o  BY <1>2
    <2>2. v \in Holders(R)[o] <=> R[v].obj = o  BY <1>2
    <2>3. v \in G[o] <=> R[v].obj = o /\ ~(o = p /\ v = u)  BY <1>5, <2>2
    <2>4. CASE v = u  BY <2>1, <2>3, <2>4, NoObjects
    <2>5. CASE v # u  BY <2>1, <2>3, <2>5
    <2> QED BY <2>4, <2>5
  <1>7. \A o \in Obj : Holders(Q)[o] = G[o]  BY <1>1, <1>4, <1>6
  <1> QED BY <1>1, <1>3, <1>4, <1>7

\* A client has an object that it had not.
LEMMA HoldersTake ==
  ASSUME NEW R, NEW Q, NEW u \in Client, NEW p \in Obj,
         \A v \in Client : v # u => Q[v].obj = R[v].obj,
         R[u].obj \notin Obj, Q[u].obj = p
  PROVE  Holders(Q) = Gained(Holders(R), p, u)
  <1>1. Holders(R) \in [Obj -> SUBSET Client] /\ Holders(Q) \in [Obj -> SUBSET Client]
    BY DEF Holders
  <1>2. \A o \in Obj, v \in Client :
          /\ v \in Holders(Q)[o] <=> Q[v].obj = o
          /\ v \in Holders(R)[o] <=> R[v].obj = o
    BY DEF Holders
  <1>3. PICK G : G = Gained(Holders(R), p, u)  OBVIOUS
  <1>4. G \in [Obj -> SUBSET Client]  BY <1>1, <1>3 DEF Gained
  <1>5. \A o \in Obj : G[o] = IF o = p THEN Holders(R)[o] \cup {u} ELSE Holders(R)[o]
    BY <1>1, <1>3 DEF Gained
  <1>6. ASSUME NEW o \in Obj, NEW v \in Client
        PROVE  v \in Holders(Q)[o] <=> v \in G[o]
    <2>1. v \in Holders(Q)[o] <=> Q[v].obj = o  BY <1>2
    <2>2. v \in Holders(R)[o] <=> R[v].obj = o  BY <1>2
    <2>3. v \in G[o] <=> R[v].obj = o \/ (o = p /\ v = u)
      <3>1. CASE o = p
        <4>1. G[o] = Holders(R)[o] \cup {u}  BY <1>5, <3>1
        <4> QED BY <2>2, <3>1, <4>1
      <3>2. CASE o # p
        <4>1. v \in G[o] <=> v \in Holders(R)[o]  BY <1>5, <3>2
        <4> QED BY <2>2, <3>2, <4>1
      <3> QED BY <3>1, <3>2
    <2>4. CASE v = u  BY <2>1, <2>3, <2>4, NoObjects
    <2>5. CASE v # u  BY <2>1, <2>3, <2>5
    <2> QED BY <2>4, <2>5
  <1>7. \A o \in Obj : Holders(Q)[o] = G[o]  BY <1>1, <1>4, <1>6
  <1> QED BY <1>1, <1>3, <1>4, <1>7

\* The clients have what they had.
LEMMA HoldersSame ==
  ASSUME NEW R, NEW Q, NEW u \in Client,
         \A v \in Client : v # u => Q[v].obj = R[v].obj,
         R[u].obj = Q[u].obj \/ (R[u].obj \notin Obj /\ Q[u].obj \notin Obj)
  PROVE  Holders(Q) = Holders(R)
  <1>1. \A o \in Obj : Q[u].obj = o <=> R[u].obj = o
    <2>1. CASE R[u].obj = Q[u].obj  BY <2>1
    <2>2. CASE R[u].obj \notin Obj /\ Q[u].obj \notin Obj  BY <2>2
    <2> QED BY <2>1, <2>2
  <1>2. \A v \in Client, o \in Obj : Q[v].obj = o <=> R[v].obj = o  BY <1>1
  <1> QED BY <1>2 DEF Holders

\* The record of a client that has nothing.
LEMMA NoClientIs ==
  /\ NoClient \in HTTPData /\ NoClient.obj = None /\ NoClient.state = "idle"
  /\ NoClient.id = None
  /\ \A obj, u : (\A o \in Obj : u \notin obj[o].lis) => Attuned(obj, NoClient, u)
  <1>1. NoClient \in HTTPData  BY EmptySeq, NoObjects DEF NoClient, HTTPData, ClientState, Content
  <1> QED BY <1>1 DEF NoClient, Attuned, Receiving

\* An object that somebody has is loaded when its file is not open.
LEMMA LoadSound ==
  ASSUME NEW c, NEW H, NEW R, NEW n \in Nat, NEW ind, NEW bad, Sound(c, H, R, n, ind, bad),
         NEW o \in Obj, H[o] # {}, c.obj[o].fd = 0, c.name[c.obj[o].id] # 0
  PROVE  Sound(Load(c, o), H, R, n, ind, bad)
  <1>1. c \in Cache /\ c.obj[o] \in CacheObj /\ Formed(c.obj[o]) /\ c.obj[o].id # None
    BY SoundIs DEF AllFormed, Counted
  <1>2. c.obj[o].id \in Id  BY <1>1 DEF CacheObj
  <1>3. PICK f : f = c.name[c.obj[o].id]  OBVIOUS
  <1>4. PICK d : d = Load(c, o)  OBVIOUS
  <1>5. PICK b : b = c.disk[f]  OBVIOUS
  <1>6. PICK x : x = Opened(c.obj[o], f, b)  OBVIOUS
  <1>7. d \in Cache /\ Puts(c, d, o, x) /\ x \in CacheObj /\ f \in Download
    <2>1. /\ Load(c, o) \in Cache
          /\ Puts(c, Load(c, o), o, Opened(c.obj[o], f, c.disk[f]))
          /\ Opened(c.obj[o], f, c.disk[f]) \in CacheObj
          /\ f \in Download
      BY <1>1, <1>2, <1>3, LoadIs
    <2> QED BY <1>4, <1>5, <1>6, <2>1
  <1>8. x = [c.obj[o] EXCEPT !.fd = f, !.avail = b]  BY <1>6 DEF Opened
  <1>9. /\ x.id = c.obj[o].id /\ x.size = c.obj[o].size /\ x.deleted = c.obj[o].deleted
        /\ x.ref = c.obj[o].ref /\ x.lis = c.obj[o].lis /\ x.reading = c.obj[o].reading
        /\ x.quiet = c.obj[o].quiet /\ x.fd = f
    BY <1>1, <1>8 DEF CacheObj
  <1>10. ~c.obj[o].reading /\ ~c.obj[o].quiet  BY <1>1 DEF Formed, Shut
  <1>11. f # 0  BY <1>3
  <1>12. Formed(x)  BY <1>9, <1>10, <1>11 DEF Formed
  <1>13. Same(c.obj[o], x)  BY <1>9 DEF Same
  <1> QED BY <1>4, <1>7, <1>9, <1>10, <1>12, <1>13, PutSound

\* A client that has an object begins to listen to it.
LEMMA ListenSound ==
  ASSUME NEW c, NEW H, NEW R, NEW n \in Nat, NEW ind, NEW bad, Sound(c, H, R, n, ind, bad),
         NEW o \in Obj, NEW u \in Client, u \in H[o], ~Receiving(R[u]),
         c.obj[o].reading, NEW r \in HTTPData, r.state \in {"down", "body"}, r.obj = o,
         r.got = c.obj[o].avail, r.id = c.obj[o].id
  PROVE  Sound([c EXCEPT !.obj[o].lis = @ \cup {u}], H, [R EXCEPT ![u] = r], n, ind, bad)
  <1>1. c \in Cache /\ c.obj \in [Obj -> CacheObj] /\ c.obj[o] \in CacheObj /\ Formed(c.obj[o])
    BY SoundIs DEF AllFormed
  <1>2. PICK x : x = [c.obj[o] EXCEPT !.lis = @ \cup {u}]  OBVIOUS
  <1>3. x \in CacheObj  BY <1>1, <1>2 DEF CacheObj
  <1>4. /\ x.id = c.obj[o].id /\ x.size = c.obj[o].size /\ x.deleted = c.obj[o].deleted
        /\ x.ref = c.obj[o].ref /\ x.reading = c.obj[o].reading /\ x.quiet = c.obj[o].quiet
        /\ x.fd = c.obj[o].fd /\ x.avail = c.obj[o].avail /\ x.lis = c.obj[o].lis \cup {u}
        /\ x.tag = c.obj[o].tag
    BY <1>1, <1>2 DEF CacheObj
  <1>5. x.fd # 0 /\ Formed(x)  BY <1>1, <1>4 DEF Formed, Shut
  <1>6. PICK d : d = [c EXCEPT !.obj = [c.obj EXCEPT ![o] = x]]  OBVIOUS
  <1>7. d \in Cache /\ Puts(c, d, o, x)  BY <1>1, <1>3, <1>6, PutIs
  <1>8. d = [c EXCEPT !.obj[o].lis = @ \cup {u}]  BY <1>1, <1>2, <1>6 DEF Cache
  <1>9. Same(c.obj[o], x) /\ H[o] # {}  BY <1>4 DEF Same
  <1>10. Valid(d, H, n, ind, bad)  BY <1>3, <1>4, <1>5, <1>7, <1>9, SoundIs, PutOK
  <1>11. PICK Q : Q = [R EXCEPT ![u] = r]  OBVIOUS
  <1>12. Q \in [Client -> HTTPData] /\ Q[u] = r /\ \A v \in Client : v # u => Q[v] = R[v]
    BY <1>11, SoundIs
  <1>13. HasIn(Q, H)  BY <1>12, SoundIs DEF HasIn
  <1>14. d.obj[o] = x /\ \A p \in Obj : p # o => d.obj[p] = c.obj[p]  BY <1>1, <1>7 DEF Puts
  <1>15. ASSUME NEW v \in Client
         PROVE  Attuned(d.obj, Q[v], v)
    <2>1. CASE v = u
      <3>1. \A p \in Obj : u \notin c.obj[p].lis  BY RecordIs DEF Attuned
      <3>2. \A p \in Obj : u \in d.obj[p].lis <=> p = o  BY <1>4, <1>14, <3>1
      <3>3. Receiving(r)  BY DEF Receiving
      <3>4. Attuned(d.obj, r, u)  BY <1>4, <1>14, <3>2, <3>3 DEF Attuned
      <3> QED BY <1>12, <2>1, <3>4
    <2>2. CASE v # u
      <3>1. Attuned(c.obj, R[v], v) /\ R[v].obj \in Obj \cup {None}  BY RecordIs
      <3>2. \A p \in Obj : v \in d.obj[p].lis <=> v \in c.obj[p].lis  BY <1>4, <1>14, <2>2
      <3>3. R[v].obj \in Obj => /\ d.obj[R[v].obj].id = c.obj[R[v].obj].id
                                /\ d.obj[R[v].obj].reading = c.obj[R[v].obj].reading
                                /\ d.obj[R[v].obj].avail = c.obj[R[v].obj].avail
        BY <1>4, <1>14
      <3>4. Receiving(R[v]) => R[v].obj \in Obj  BY <3>1 DEF Attuned
      <3>5. PICK q : q = R[v]  OBVIOUS
      <3>6. Attuned(d.obj, q, v)  BY <3>1, <3>2, <3>3, <3>4, <3>5, AttunedKept
      <3> QED BY <1>12, <2>2, <3>5, <3>6
    <2> QED BY <2>1, <2>2
  <1>16. Sound(d, H, Q, n, ind, bad)  BY <1>10, <1>12, <1>13, <1>15 DEF Sound, InTune
  <1> QED BY <1>8, <1>11, <1>16

\* Only client u has the object o.
Alone(H, o, u) == [H EXCEPT ![o] = {u}]

\* A client creates an object.
LEMMA CreateSound ==
  ASSUME NEW c, NEW H, NEW R, NEW n \in Nat, NEW ind, NEW bad, Sound(c, H, R, n, ind, bad),
         n < MaxDownloads, NEW i \in Id, NEW k \in Download, NEW u \in Client
  PROVE  Sound(Create(c, i, k), Alone(H, Fresh(c), u), R, n + 1, ind, bad)
  <1>1. PICK d : d = Create(c, i, k)  OBVIOUS
  <1>2. PICK o : o = Fresh(c)  OBVIOUS
  <1>3. PICK x : x = NewObj(c, i, k)  OBVIOUS
  <1>4. Valid(c, H, n, ind, bad)  BY SoundIs
  <1>5. /\ Valid(d, [H EXCEPT ![o] = {u}], n + 1, ind, bad)
        /\ Adds(c, d, o, x)
        /\ o \in Obj /\ H[o] = {}
    BY <1>1, <1>2, <1>3, <1>4, CreateOK
  <1>6. c.obj \in [Obj -> CacheObj] /\ d.obj = [c.obj EXCEPT ![o] = x]
    BY <1>5, SoundIs DEF Adds
  <1>7. x.lis = {}  BY <1>3 DEF NewObj, Free
  <1>8. InTune(d.obj, R)
    <2>1. H[o] = {} /\ d.obj = [c.obj EXCEPT ![o] = x] /\ o \in Obj  BY <1>5, <1>6
    <2> QED BY <1>7, <2>1, TunePut
  <1>9. HasIn(R, [H EXCEPT ![o] = {u}])  BY <1>5, SoundIs DEF HasIn
  <1>10. Sound(d, [H EXCEPT ![o] = {u}], R, n + 1, ind, bad)
    BY <1>5, <1>8, <1>9, SoundIs DEF Sound
  <1> QED BY <1>1, <1>2, <1>10 DEF Alone

\* The object is new.
Novel(H, d, o, x) == o \in Obj /\ H[o] = {} /\ d.obj[o] = x

\* What it is.
LEMMA CreatedIs ==
  ASSUME NEW c, NEW H, NEW R, NEW n \in Nat, NEW ind, NEW bad, Sound(c, H, R, n, ind, bad),
         n < MaxDownloads, NEW i \in Id, NEW k \in Download
  PROVE  Novel(H, Create(c, i, k), Fresh(c), NewObj(c, i, k))
  <1>0. PICK d : d = Create(c, i, k)  OBVIOUS
  <1>1. Valid(c, H, n, ind, bad) /\ c \in Cache /\ c.obj \in [Obj -> CacheObj]
    BY SoundIs, Fields DEF Valid, BooksOK
  <1>2. BooksOK(c, n, ind, bad) /\ Counted(c.obj, H)  BY <1>1 DEF Valid
  <1>3. Fresh(c) \in Obj /\ c.obj[Fresh(c)].id = None  BY <1>2, FreshIs
  <1>4. H[Fresh(c)] = {}  BY <1>2, <1>3 DEF Counted
  <1>5. PICK x : x = NewObj(c, i, k)  OBVIOUS
  <1>6. Adds(c, d, Fresh(c), x)  BY <1>0, <1>1, <1>3, <1>5, CreateIs
  <1> QED BY <1>0, <1>1, <1>3, <1>4, <1>5, <1>6 DEF Adds, Novel

\* Who has what, when u has o too.
Joined(u, o) == Gained(Holders(client), o, u)

\* It is so when the record of u says so, and is not when it has nothing.
LEMMA JoinedIs ==
  ASSUME client \in [Client -> HTTPData], NEW u \in Client, NEW o \in Obj,
         client[u].obj \in {None, o},
         NEW Q, \A v \in Client : v # u => Q[v] = client[v]
  PROVE  /\ Q[u].obj = o => Holders(Q) = Joined(u, o)
         /\ Q[u].obj = None => Holders(Q) = Lost(Joined(u, o), o, u)
         /\ Joined(u, o) \in [Obj -> SUBSET Client] /\ u \in Joined(u, o)[o]
         /\ client[u].obj = o => Joined(u, o) = Holders(client)
  <1>1. \A v \in Client : v # u => Q[v].obj = client[v].obj  OBVIOUS
  <1>2. PICK B : B = Holders(client)  OBVIOUS
  <1>3. B \in [Obj -> SUBSET Client] /\ (u \in B[o] <=> client[u].obj = o)
    BY <1>2 DEF Holders
  <1>4. PICK G : G = Joined(u, o)  OBVIOUS
  <1>5. G = Gained(B, o, u)  BY <1>2, <1>4 DEF Joined
  <1>6. G \in [Obj -> SUBSET Client] /\ G[o] = B[o] \cup {u}  BY <1>3, <1>5 DEF Gained
  <1>7. ASSUME client[u].obj = o
        PROVE  G = B
    <2>1. B[o] \cup {u} = B[o]  BY <1>3, <1>7
    <2> QED BY <1>3, <1>5, <2>1 DEF Gained
  <1>8. ASSUME client[u].obj = None
        PROVE  Lost(G, o, u) = B
    <2>1. (B[o] \cup {u}) \ {u} = B[o]  BY <1>3, <1>8, NoObjects
    <2> QED BY <1>3, <1>5, <1>6, <2>1 DEF Gained, Lost
  <1>9. client[u].obj = None => client[u].obj \notin Obj  BY NoObjects
  <1>10. ASSUME Q[u].obj = o
         PROVE  Holders(Q) = G
    <2>1. CASE client[u].obj = o
      <3>1. Holders(Q) = Holders(client)  BY <1>1, <1>10, <2>1, HoldersSame
      <3> QED BY <1>2, <1>7, <2>1, <3>1
    <2>2. CASE client[u].obj = None
      <3>1. Holders(Q) = Gained(Holders(client), o, u)
        BY <1>1, <1>9, <1>10, <2>2, HoldersTake
      <3> QED BY <1>2, <1>5, <3>1
    <2> QED BY <2>1, <2>2
  <1>11. ASSUME Q[u].obj = None
         PROVE  Holders(Q) = Lost(G, o, u)
    <2>1. CASE client[u].obj = o
      <3>1. Holders(Q) = Lost(Holders(client), o, u)
        BY <1>1, <1>11, <2>1, HoldersDrop
      <3> QED BY <1>2, <1>7, <2>1, <3>1
    <2>2. CASE client[u].obj = None
      <3>1. Holders(Q) = Holders(client)  BY <1>1, <1>11, <2>2, NoObjects, HoldersSame
      <3> QED BY <1>2, <1>8, <2>2, <3>1
    <2> QED BY <2>1, <2>2
  <1> QED BY <1>2, <1>4, <1>6, <1>7, <1>10, <1>11

\* A client gives back its object.
LEMMA GiveBack ==
  ASSUME client \in [Client -> HTTPData], NEW u \in Client, NEW o \in Obj,
         client[u].obj \in {None, o}, NEW c, NEW n \in Nat, NEW ind, NEW bad,
         Sound(c, Joined(u, o), [client EXCEPT ![u] = NoClient], n, ind, bad)
  PROVE  Sound(Release(c, o, 1), Holders([client EXCEPT ![u] = NoClient]),
               [client EXCEPT ![u] = NoClient], n, ind, bad)
  <1>1. PICK G : G = Joined(u, o)  OBVIOUS
  <1>2. PICK R : R = [client EXCEPT ![u] = NoClient]  OBVIOUS
  <1>3. G \in [Obj -> SUBSET Client] /\ u \in G[o] /\ Holders(R) = Lost(G, o, u)
    <2>1. R[u].obj = None /\ \A v \in Client : v # u => R[v] = client[v]
      BY <1>2, NoClientIs
    <2> QED BY <1>1, <2>1, JoinedIs
  <1>4. PICK K : K = {u}  OBVIOUS
  <1>5. K \in SUBSET G[o] /\ G[o] # {} /\ 1 = Cardinality(K)  BY <1>3, <1>4, FS_Singleton
  <1>6. \A v \in K : R[v].obj # o  BY <1>2, <1>4, NoClientIs, NoObjects
  <1>7. Sound(c, G, R, n, ind, bad)  BY <1>1, <1>2
  <1>8. Sound(Release(c, o, 1), [G EXCEPT ![o] = @ \ K], R, n, ind, bad)
    BY <1>5, <1>6, <1>7, ReleaseSound
  <1> QED BY <1>2, <1>3, <1>4, <1>8 DEF Lost

-----------------------------------------------------------------------------
(* The steps of a client keep the books *)

\* The invariant is that the cache is sound, besides the types.
LEMMA StepBooks ==
  ASSUME Sound(cache', Holders(client'), client', down', index', failed'),
         index' \in Seq(Entry), Len(index') <= down', down' \in 0..MaxDownloads,
         length' \in [Download -> Nat \cup {None}], events' \in 0..MaxEvents,
         torn' \in SUBSET Id, forked' \in SUBSET Id, cut' \in SUBSET Id, failed' \in BOOLEAN
  PROVE  BooksInv'
  <1>1. Valid(cache', Holders(client'), down', index', failed')  BY DEF Sound
  <1>2. cache' \in Cache /\ client' \in [Client -> HTTPData] /\ InTune(cache'.obj, client')
    BY DEF Sound, Valid, BooksOK
  <1>3. TypeOK'  BY <1>2 DEF TypeOK, Entry
  <1> QED BY <1>1, <1>2, <1>3 DEF BooksInv

\* The types of the rest of the state.
LEMMA RestIs ==
  ASSUME BooksInv
  PROVE  /\ index \in Seq(Entry) /\ Len(index) <= down /\ down \in 0..MaxDownloads
         /\ length \in [Download -> Nat \cup {None}] /\ events \in 0..MaxEvents
         /\ torn \in SUBSET Id /\ forked \in SUBSET Id /\ cut \in SUBSET Id /\ failed \in BOOLEAN
         /\ client \in [Client -> HTTPData]
  BY DEF BooksInv, TypeOK, Entry

\* A step that is seen by the cache and the clients only.
LEMMA QuietBooks ==
  ASSUME BooksInv, Quiet, Sound(cache', Holders(client'), client', down, index, failed)
  PROVE  BooksInv'
  <1>1. Sound(cache', Holders(client'), client', down', index', failed')
    BY DEF Quiet, history
  <1> QED BY <1>1, RestIs, StepBooks DEF Quiet, history

\* Client u takes part in nothing.
Deaf(obj, u) == \A o \in Obj : u \notin obj[o].lis

\* Who does not receive anything takes part in nothing.
LEMMA NotReceiving ==
  ASSUME NEW c, NEW H, NEW R, NEW n, NEW ind, NEW bad, Sound(c, H, R, n, ind, bad),
         NEW u \in Client, ~Receiving(R[u])
  PROVE  Deaf(c.obj, u)
  BY RecordIs DEF Deaf, Attuned

\* A client that has an object goes, now or when all is written.
LEMMA FinishSound ==
  ASSUME client \in [Client -> HTTPData], NEW u \in Client, NEW o \in Obj,
         client[u].obj \in {None, o}, NEW c, NEW n \in Nat, NEW ind, NEW bad,
         Sound(c, Joined(u, o), client, n, ind, bad), ~Receiving(client[u]),
         Finish(c, u, o)
  PROVE  Sound(cache', Holders(client'), client', n, ind, bad)
  <1>1. Deaf(c.obj, u)  BY NotReceiving
  <1>2. CASE cache' = Release(c, o, 1) /\ client' = Leave(client, {u})
    <2>1. client' = [client EXCEPT ![u] = NoClient]  BY <1>2 DEF Leave
    <2>2. Attuned(c.obj, NoClient, u)  BY <1>1, NoClientIs DEF Deaf
    <2>3. Sound(c, Joined(u, o), [client EXCEPT ![u] = NoClient], n, ind, bad)
      BY <2>2, NoClientIs, SwapSound
    <2>4. Sound(Release(c, o, 1), Holders([client EXCEPT ![u] = NoClient]),
                [client EXCEPT ![u] = NoClient], n, ind, bad)
      BY <2>3, GiveBack
    <2> QED BY <1>2, <2>1, <2>4
  <1>3. ASSUME cache' = c,
               client' = [client EXCEPT ![u] = [NoClient EXCEPT !.state = "closing", !.obj = o]]
        PROVE  Sound(cache', Holders(client'), client', n, ind, bad)
    <2>1. PICK r : r = [NoClient EXCEPT !.state = "closing", !.obj = o]  OBVIOUS
    <2>2. r \in HTTPData /\ r.obj = o /\ r.state = "closing"
      BY <2>1, NoClientIs DEF HTTPData, ClientState
    <2>3. Attuned(c.obj, r, u)  BY <1>1, <2>2, NoObjects DEF Deaf, Attuned, Receiving
    <2>4. PICK Q : Q = [client EXCEPT ![u] = r]  OBVIOUS
    <2>5. Q[u] = r /\ \A v \in Client : v # u => Q[v] = client[v]  BY <2>4
    <2>6. u \in Joined(u, o)[o] /\ Holders(Q) = Joined(u, o)  BY <2>2, <2>5, JoinedIs
    <2>7. Sound(c, Joined(u, o), [client EXCEPT ![u] = r], n, ind, bad)
      BY <2>2, <2>3, <2>6, SwapSound
    <2> QED BY <1>3, <2>1, <2>4, <2>6, <2>7
  <1> QED BY <1>2, <1>3 DEF Finish

\* SendFromCache() for a client that has the object, but receives nothing yet.
LEMMA SendBooks ==
  ASSUME BooksInv, NEW u \in Client, NEW o \in Obj, client[u].obj \in {None, o}, NEW c,
         Sound(c, Joined(u, o), client, down, index, failed), ~Receiving(client[u]),
         NEW head \in BOOLEAN, SendFromCache(c, u, o, head)
  PROVE  BooksInv'
  <1>1. client \in [Client -> HTTPData] /\ down \in Nat  BY SoundState, RestIs
  <1>2. Joined(u, o) \in [Obj -> SUBSET Client] /\ u \in Joined(u, o)[o]  BY <1>1, JoinedIs
  <1>3. c \in Cache /\ c.obj[o] \in CacheObj /\ c.obj[o].id # None
    BY <1>2, SoundIs DEF Counted
  <1>4. PICK i \in Id : i = c.obj[o].id  BY <1>3 DEF CacheObj
  <1>5. PICK d : d = IF c.obj[o].fd = 0 /\ c.name[i] # 0 THEN Load(c, o) ELSE c  OBVIOUS
  <1>6. Sound(d, Joined(u, o), client, down, index, failed)
    <2>1. CASE c.obj[o].fd = 0 /\ c.name[i] # 0
      <3>1. Joined(u, o)[o] # {}  BY <1>2
      <3>2. Sound(Load(c, o), Joined(u, o), client, down, index, failed)
        BY <1>1, <1>4, <2>1, <3>1, LoadSound
      <3> QED BY <1>5, <2>1, <3>2
    <2>2. CASE ~(c.obj[o].fd = 0 /\ c.name[i] # 0)
      <3>1. d = c  BY <1>5, <2>2
      <3> QED BY <3>1
    <2> QED BY <2>1, <2>2
  <1>7. PICK x : x = d.obj[o]  OBVIOUS
  <1>9. \/ Finish(d, u, o) /\ Quiet
        \/ /\ x.reading
           /\ cache' = [d EXCEPT !.obj[o].lis = @ \cup {u}]
           /\ client' = [client EXCEPT ![u] = [state |-> "body", id |-> i, obj |-> o,
                                               got |-> x.avail]]
           /\ Quiet
        \/ /\ Finish(d, u, o)
           /\ torn' \in {torn, torn \cup {i}}
           /\ cut' \in {cut, cut \cup {i}}
           /\ UNCHANGED <<index, down, length, events, failed, forked>>
    <2>1. CASE x.fd = 0  BY <1>4, <1>5, <1>7, <2>1 DEF SendFromCache
    <2>2. CASE x.fd # 0 /\ x.reading /\ ~head  BY <1>4, <1>5, <1>7, <2>2 DEF SendFromCache
    <2>3. CASE x.fd # 0 /\ ~(x.reading /\ ~head)
      <3>1. torn' \in {torn, torn \cup {i}}  BY <1>4, <1>5, <1>7, <2>3 DEF SendFromCache
      <3>2. cut' \in {cut, cut \cup {i}}  BY <1>4, <1>5, <1>7, <2>3 DEF SendFromCache
      <3>3. Finish(d, u, o) /\ UNCHANGED <<index, down, length, events, failed, forked>>
        BY <1>4, <1>5, <1>7, <2>3 DEF SendFromCache
      <3> QED BY <3>1, <3>2, <3>3
    <2> QED BY <2>1, <2>2, <2>3
  <1>10. CASE Finish(d, u, o) /\ Quiet
    <2>1. Sound(cache', Holders(client'), client', down, index, failed)
      BY <1>1, <1>6, <1>10, FinishSound
    <2> QED BY <1>10, <2>1, QuietBooks
  <1>11. ASSUME x.reading, cache' = [d EXCEPT !.obj[o].lis = @ \cup {u}],
                client' = [client EXCEPT ![u] = [state |-> "body", id |-> i, obj |-> o,
                                                 got |-> x.avail]],
                Quiet
         PROVE  BooksInv'
    <2>1. PICK r : r = [state |-> "body", id |-> i, obj |-> o, got |-> x.avail]  OBVIOUS
    <2>2. x \in CacheObj /\ x.id = i
      <3>1. x \in CacheObj  BY <1>6, <1>7, SoundIs
      <3>2. CASE d = c  BY <1>4, <1>7, <3>1, <3>2
      <3>3. CASE d = Load(c, o)
        <4>1. c.obj \in [Obj -> CacheObj]  BY SoundIs
        <4>2. ~x.reading \/ d = c
          <5>1. CASE ~(c.obj[o].fd = 0 /\ c.name[i] # 0)  BY <1>5, <5>1
          <5>2. CASE c.obj[o].fd = 0 /\ c.name[i] # 0
            <6>1. PICK f : f = c.name[c.obj[o].id]  OBVIOUS
            <6>2. Puts(c, Load(c, o), o, Opened(c.obj[o], f, c.disk[f]))
              BY <1>3, <1>4, <5>2, <6>1, LoadIs
            <6>3. x = Opened(c.obj[o], f, c.disk[f])  BY <1>7, <3>3, <4>1, <6>2 DEF Puts
            <6>4. x.reading = c.obj[o].reading  BY <1>3, <6>3 DEF Opened, CacheObj
            <6>5. ~c.obj[o].reading  BY <5>2, SoundIs DEF AllFormed, Formed, Shut
            <6> QED BY <6>4, <6>5
          <5> QED BY <5>1, <5>2
        <4>3. d = c  BY <1>11, <4>2
        <4> QED BY <1>4, <1>7, <3>1, <4>3
      <3> QED BY <1>5, <3>1, <3>2, <3>3
    <2>3. /\ r \in HTTPData /\ r.state = "body" /\ r.obj = o /\ r.got = x.avail /\ r.id = i
      BY <2>1, <2>2 DEF HTTPData, ClientState, CacheObj
    <2>4. Sound([d EXCEPT !.obj[o].lis = @ \cup {u}], Joined(u, o),
                [client EXCEPT ![u] = r], down, index, failed)
      BY <1>1, <1>2, <1>6, <1>7, <1>11, <2>2, <2>3, ListenSound
    <2>5. PICK Q : Q = [client EXCEPT ![u] = r]  OBVIOUS
    <2>6. Q[u] = r /\ \A v \in Client : v # u => Q[v] = client[v]  BY <1>1, <2>5
    <2>7. Holders(Q) = Joined(u, o)  BY <1>1, <2>3, <2>6, JoinedIs
    <2>8. Sound(cache', Holders(client'), client', down, index, failed)
      BY <1>11, <2>1, <2>4, <2>5, <2>7
    <2> QED BY <1>11, <2>8, QuietBooks
  <1>12. ASSUME Finish(d, u, o), torn' \in {torn, torn \cup {i}}, cut' \in {cut, cut \cup {i}},
                UNCHANGED <<index, down, length, events, failed, forked>>
         PROVE  BooksInv'
    <2>1. Sound(cache', Holders(client'), client', down', index', failed')
      BY <1>1, <1>6, <1>12, FinishSound
    <2>2. torn' \in SUBSET Id /\ cut' \in SUBSET Id  BY <1>4, <1>12, RestIs
    <2> QED BY <1>12, <2>1, <2>2, RestIs, StepBooks
  <1> QED BY <1>9, <1>10, <1>11, <1>12

\* An object of the hash is acquired by a client that has none.
LEMMA FindSound ==
  ASSUME BooksInv, NEW u \in Client, client[u] = NoClient, NEW i \in Id, cache.hash[i] \in Obj,
         NEW o, o = cache.hash[i]
  PROVE  /\ Sound(Acquire(cache, o), Joined(u, o), client, down, index, failed)
         /\ Acquire(cache, o).obj[o].id = i
         /\ client[u].obj \in {None, o} /\ ~Receiving(client[u])
  <1>1. Sound(cache, Holders(client), client, down, index, failed) /\ down \in Nat
    BY SoundState
  <1>2. cache.obj[o].id = i /\ i # None
    <2>1. Hashed(cache.obj, cache.hash, failed)  BY <1>1, SoundIs DEF BooksOK
    <2> QED BY <2>1, NoObjects DEF Hashed
  <1>3. client[u].obj = None /\ ~Receiving(client[u])  BY NoClientIs DEF Receiving
  <1>4. u \notin Holders(client)[o]  BY <1>3, NoObjects DEF Holders
  <1>5. PICK B : B = Holders(client)  OBVIOUS
  <1>6. Sound(Acquire(cache, o), [B EXCEPT ![o] = @ \cup {u}], client, down, index, failed)
    BY <1>1, <1>2, <1>4, <1>5, AcquireSound
  <1>7. Joined(u, o) = [B EXCEPT ![o] = @ \cup {u}]  BY <1>5 DEF Joined, Gained
  <1>8. Acquire(cache, o).obj[o].id = i
    <2>1. Valid(cache, B, down, index, failed)  BY <1>1, <1>5, SoundIs
    <2>2. PICK d : d = Acquire(cache, o)  OBVIOUS
    <2>3. Acquires(cache, d, o)  BY <1>1, <1>2, <1>4, <1>5, <2>1, <2>2, AcquireOK
    <2>4. cache.obj \in [Obj -> CacheObj] /\ cache.obj[o] \in CacheObj  BY <1>1, SoundIs
    <2>5. d.obj[o] = More(cache.obj[o])  BY <2>3, <2>4 DEF Acquires
    <2>6. d.obj[o].id = i  BY <1>2, <2>4, <2>5 DEF More, CacheObj
    <2> QED BY <2>2, <2>6
  <1> QED BY <1>3, <1>6, <1>7, <1>8

\* A request is received.
LEMMA RequestBooks ==
  ASSUME BooksInv, NEW u \in Client, NEW i \in Id, Request(u, i)
  PROVE  BooksInv'
  <1>1. /\ Sound(cache, Holders(client), client, down, index, failed) /\ down \in Nat
        /\ client \in [Client -> HTTPData] /\ client[u] = NoClient
    BY SoundState, RestIs DEF Request
  <1>2. ~Receiving(client[u]) /\ Deaf(cache.obj, u)
    <2>1. ~Receiving(client[u])  BY <1>1, NoClientIs DEF Receiving
    <2> QED BY <1>1, <2>1, NotReceiving
  <1>3. ASSUME Miss(u, i)
        PROVE  BooksInv'
    <2>1. PICK r : r = [NoClient EXCEPT !.state = "fetch", !.id = i]  OBVIOUS
    <2>2. r \in HTTPData /\ r.obj = None /\ r.state = "fetch" /\ r.id = i
      BY <2>1, NoClientIs DEF HTTPData, ClientState
    <2>3. Attuned(cache.obj, r, u)  BY <1>2, <2>2 DEF Deaf, Attuned, Receiving
    <2>4. PICK Q : Q = [client EXCEPT ![u] = r]  OBVIOUS
    <2>5. Sound(cache, Holders(client), [client EXCEPT ![u] = r], down, index, failed)
      BY <1>1, <2>2, <2>3, SwapSound
    <2>6. Holders(Q) = Holders(client)
      <3>1. client[u].obj = None  BY <1>1, NoClientIs
      <3>2. Q[u].obj = None /\ \A v \in Client : v # u => Q[v].obj = client[v].obj
        BY <1>1, <2>2, <2>4
      <3> QED BY <3>1, <3>2, HoldersSame
    <2>7. cache' = cache /\ client' = Q /\ Quiet  BY <1>3, <2>1, <2>4 DEF Miss
    <2>8. Sound(cache', Holders(client'), client', down, index, failed)
      BY <2>4, <2>5, <2>6, <2>7
    <2> QED BY <2>7, <2>8, QuietBooks
  <1>4. ASSUME Stale(u, i)
        PROVE  BooksInv'
    <2>1. PICK o \in Obj : o = cache.hash[i]  BY <1>4 DEF Stale
    <2>2. PICK r : r = [NoClient EXCEPT !.state = "fetch", !.id = i, !.obj = o]  OBVIOUS
    <2>3. r \in HTTPData /\ r.obj = o /\ r.state = "fetch" /\ r.id = i
      BY <2>2, NoClientIs DEF HTTPData, ClientState
    <2>4. PICK c : c = Acquire(cache, o)  OBVIOUS
    <2>5. /\ Sound(c, Joined(u, o), client, down, index, failed)
          /\ c.obj[o].id = i /\ client[u].obj \in {None, o} /\ ~Receiving(client[u])
      BY <1>1, <2>1, <2>4, FindSound
    <2>6. Deaf(c.obj, u)  BY <2>5, NotReceiving
    <2>7. Attuned(c.obj, r, u)  BY <2>3, <2>5, <2>6 DEF Deaf, Attuned, Receiving
    <2>8. PICK Q : Q = [client EXCEPT ![u] = r]  OBVIOUS
    <2>9. Q[u] = r /\ \A v \in Client : v # u => Q[v] = client[v]  BY <1>1, <2>8
    <2>10. u \in Joined(u, o)[o] /\ Holders(Q) = Joined(u, o)
      BY <1>1, <2>3, <2>5, <2>9, JoinedIs
    <2>11. Sound(c, Joined(u, o), [client EXCEPT ![u] = r], down, index, failed)
      BY <1>1, <2>3, <2>5, <2>7, <2>10, SwapSound
    <2>12. cache' = c /\ client' = Q /\ Quiet  BY <1>4, <2>1, <2>2, <2>4, <2>8 DEF Stale
    <2>13. Sound(cache', Holders(client'), client', down, index, failed)
      BY <2>8, <2>10, <2>11, <2>12
    <2> QED BY <2>12, <2>13, QuietBooks
  <1>5. ASSUME Hit(u, i)
        PROVE  BooksInv'
    <2>1. PICK o \in Obj : o = cache.hash[i]  BY <1>5 DEF Hit
    <2>2. PICK head \in BOOLEAN : SendFromCache(Acquire(cache, o), u, o, head)
      BY <1>5, <2>1 DEF Hit
    <2>3. PICK c : c = Acquire(cache, o)  OBVIOUS
    <2>4. /\ Sound(c, Joined(u, o), client, down, index, failed)
          /\ client[u].obj \in {None, o} /\ ~Receiving(client[u])
      BY <1>1, <2>1, <2>3, FindSound
    <2>5. SendFromCache(c, u, o, head)  BY <2>2, <2>3
    <2> QED BY <2>4, <2>5, SendBooks
  <1>6. ASSUME NotModified(u, i)
        PROVE  BooksInv'
    <2>1. PICK o \in Obj : o = cache.hash[i]  BY <1>6 DEF NotModified
    <2>2. PICK c : c = Acquire(cache, o)  OBVIOUS
    <2>3. /\ Sound(c, Joined(u, o), client, down, index, failed)
          /\ client[u].obj \in {None, o} /\ ~Receiving(client[u])
      BY <1>1, <2>1, <2>2, FindSound
    <2>4. Finish(c, u, o) /\ Quiet  BY <1>6, <2>1, <2>2 DEF NotModified
    <2>5. Sound(cache', Holders(client'), client', down, index, failed)
      BY <1>1, <2>3, <2>4, FinishSound
    <2> QED BY <2>4, <2>5, QuietBooks
  <1> QED BY <1>3, <1>4, <1>5, <1>6 DEF Request

\* What a client that fetches has.
LEMMA FetchingIs ==
  ASSUME BooksInv, NEW u \in Client, Fetching(u)
  PROVE  /\ Sound(cache, Holders(client), client, down, index, failed) /\ down \in Nat
         /\ down <= MaxDownloads
         /\ client \in [Client -> HTTPData] /\ ~Receiving(client[u])
         /\ client[u].id \in Id /\ client[u].obj \in Obj \cup {None}
         /\ client[u].obj \in Obj => cache.obj[client[u].obj].id = client[u].id
         /\ Deaf(cache.obj, u)
  <1>1. /\ Sound(cache, Holders(client), client, down, index, failed) /\ down \in Nat
        /\ down <= MaxDownloads /\ client \in [Client -> HTTPData]
    BY SoundState, RestIs
  <1>2. ~Receiving(client[u])  BY DEF Fetching, Receiving
  <1>3. Attuned(cache.obj, client[u], u) /\ client[u].obj \in Obj \cup {None}  BY <1>1, RecordIs
  <1>4. Deaf(cache.obj, u)  BY <1>1, <1>2, NotReceiving
  <1> QED BY <1>1, <1>2, <1>3, <1>4, NoObjects DEF Attuned, Fetching

\* The object is still good.
LEMMA RevalidatedBooks ==
  ASSUME BooksInv, NEW u \in Client, Revalidated(u)
  PROVE  BooksInv'
  <1>1. Fetching(u) /\ client[u].obj # None  BY DEF Revalidated
  <1>2. /\ Sound(cache, Holders(client), client, down, index, failed)
        /\ client \in [Client -> HTTPData] /\ ~Receiving(client[u])
        /\ client[u].obj \in Obj \cup {None}
    BY <1>1, FetchingIs
  <1>3. PICK o \in Obj : o = client[u].obj  BY <1>1, <1>2
  <1>4. PICK head \in BOOLEAN : SendFromCache(cache, u, o, head)  BY <1>3 DEF Revalidated
  <1>5. Joined(u, o) = Holders(client)  BY <1>2, <1>3, JoinedIs
  <1>6. Sound(cache, Joined(u, o), client, down, index, failed)  BY <1>2, <1>5
  <1> QED BY <1>2, <1>3, <1>4, <1>6, SendBooks

\* A client that receives nothing has given back the object it has in c.
LEMMA GivenBack ==
  ASSUME client \in [Client -> HTTPData], NEW u \in Client, NEW o \in Obj, client[u].obj = o,
         ~Receiving(client[u]), NEW c, NEW n \in Nat, NEW ind, NEW bad,
         Sound(c, Holders(client), client, n, ind, bad), NEW R,
         R = [client EXCEPT ![u] = NoClient]
  PROVE  Sound(Release(c, o, 1), Holders(R), R, n, ind, bad)
  <1>1. Deaf(c.obj, u)  BY NotReceiving
  <1>2. Attuned(c.obj, NoClient, u)  BY <1>1, NoClientIs DEF Deaf
  <1>3. Sound(c, Holders(client), [client EXCEPT ![u] = NoClient], n, ind, bad)
    BY <1>2, NoClientIs, SwapSound
  <1>4. Joined(u, o) = Holders(client)  BY JoinedIs
  <1>5. Sound(c, Joined(u, o), [client EXCEPT ![u] = NoClient], n, ind, bad)  BY <1>3, <1>4
  <1>6. Sound(Release(c, o, 1), Holders([client EXCEPT ![u] = NoClient]),
              [client EXCEPT ![u] = NoClient], n, ind, bad)
    BY <1>5, GiveBack
  <1> QED BY <1>6

\* A client that has no object, and receives nothing, is as one that has nothing.
LEMMA NothingBack ==
  ASSUME client \in [Client -> HTTPData], NEW u \in Client, client[u].obj = None,
         ~Receiving(client[u]), NEW c, NEW n \in Nat, NEW ind, NEW bad,
         Sound(c, Holders(client), client, n, ind, bad), NEW R,
         R = [client EXCEPT ![u] = NoClient]
  PROVE  Sound(c, Holders(R), R, n, ind, bad)
  <1>1. Deaf(c.obj, u)  BY NotReceiving
  <1>2. Attuned(c.obj, NoClient, u)  BY <1>1, NoClientIs DEF Deaf
  <1>3. Sound(c, Holders(client), [client EXCEPT ![u] = NoClient], n, ind, bad)
    BY <1>2, NoClientIs, SwapSound
  <1>4. R[u].obj = None /\ \A v \in Client : v # u => R[v].obj = client[v].obj
    BY NoClientIs
  <1>5. Holders(R) = Holders(client)  BY <1>4, HoldersSame
  <1> QED BY <1>3, <1>5

\* The answer is forwarded.
LEMMA ForwardBooks ==
  ASSUME BooksInv, NEW u \in Client, Forward(u)
  PROVE  BooksInv'
  <1>1. Fetching(u)  BY DEF Forward
  <1>2. /\ Sound(cache, Holders(client), client, down, index, failed) /\ down \in Nat
        /\ client \in [Client -> HTTPData] /\ ~Receiving(client[u])
        /\ client[u].obj \in Obj \cup {None}
    BY <1>1, FetchingIs
  <1>3. PICK R : R = [client EXCEPT ![u] = NoClient]  OBVIOUS
  <1>4. client' = R  BY <1>2, <1>3 DEF Forward, Leave
  <1>5. CASE client[u].obj = None
    <2>1. Sound(cache, Holders(R), R, down, index, failed)  BY <1>2, <1>3, <1>5, NothingBack
    <2>2. cache' = cache /\ Quiet  BY <1>5 DEF Forward
    <2>3. Sound(cache', Holders(client'), client', down, index, failed)  BY <1>4, <2>1, <2>2
    <2> QED BY <2>2, <2>3, QuietBooks
  <1>6. CASE client[u].obj # None
    <2>1. PICK o \in Obj : o = client[u].obj  BY <1>2, <1>6
    <2>2. Sound(Release(cache, o, 1), Holders(R), R, down, index, failed)
      BY <1>2, <1>3, <2>1, GivenBack
    <2>3. cache' = Release(cache, o, 1) /\ Quiet  BY <1>6, <2>1 DEF Forward
    <2>4. Sound(cache', Holders(client'), client', down, index, failed)  BY <1>4, <2>2, <2>3
    <2> QED BY <2>3, <2>4, QuietBooks
  <1> QED BY <1>5, <1>6

\* The object that a download replaces is deleted, and given back.
LEMMA ReplacedSound ==
  ASSUME BooksInv, NEW u \in Client, Fetching(u), NEW R, R = [client EXCEPT ![u] = NoClient]
  PROVE  Sound(Replaced(cache, u), Holders(R), R, down, index, failed)
  <1>1. /\ Sound(cache, Holders(client), client, down, index, failed) /\ down \in Nat
        /\ client \in [Client -> HTTPData] /\ ~Receiving(client[u])
        /\ client[u].obj \in Obj \cup {None}
        /\ client[u].obj \in Obj => cache.obj[client[u].obj].id = client[u].id
        /\ client[u].id \in Id
    BY FetchingIs
  <1>2. CASE client[u].obj = None
    <2>1. Sound(cache, Holders(R), R, down, index, failed)  BY <1>1, <1>2, NothingBack
    <2> QED BY <1>2, <2>1 DEF Replaced
  <1>3. CASE client[u].obj # None
    <2>1. PICK o \in Obj : o = client[u].obj  BY <1>1, <1>3
    <2>2. cache.obj[o].id # None  BY <1>1, <2>1, NoObjects
    <2>3. PICK c : c = Delete(cache, o)  OBVIOUS
    <2>4. Sound(c, Holders(client), client, down, index, failed)
      BY <1>1, <2>2, <2>3, DeleteSound
    <2>5. Sound(Release(c, o, 1), Holders(R), R, down, index, failed)
      BY <1>1, <2>1, <2>4, GivenBack
    <2> QED BY <1>3, <2>1, <2>3, <2>5 DEF Replaced
  <1> QED BY <1>2, <1>3

\* A body that is not cacheable is downloaded.
LEMMA DownloadOnlyBooks ==
  ASSUME BooksInv, NEW u \in Client, DownloadOnly(u)
  PROVE  BooksInv'
  <1>1. Fetching(u) /\ cache' = Replaced(cache, u) /\ client' = Leave(client, {u}) /\ Quiet
    BY DEF DownloadOnly
  <1>2. client \in [Client -> HTTPData]  BY RestIs
  <1>3. PICK R : R = [client EXCEPT ![u] = NoClient]  OBVIOUS
  <1>4. client' = R  BY <1>1, <1>2, <1>3 DEF Leave
  <1>5. Sound(Replaced(cache, u), Holders(R), R, down, index, failed)
    BY <1>1, <1>3, ReplacedSound
  <1>6. Sound(cache', Holders(client'), client', down, index, failed)  BY <1>1, <1>4, <1>5
  <1> QED BY <1>1, <1>6, QuietBooks

\* The new object of a download, and its first listener.
LEMMA CreatedFor ==
  ASSUME NEW c, NEW R, NEW n \in Nat, NEW ind, NEW bad,
         Sound(c, Holders(R), R, n, ind, bad), n < MaxDownloads, NEW i \in Id,
         NEW k \in Download, NEW u \in Client, R[u] = NoClient, NEW o, o = Fresh(c),
         NEW r \in HTTPData, r.state = "down", r.id = i, r.obj = o, r.got = <<>>,
         NEW Q \in [Client -> HTTPData], Q[u] = r, \A v \in Client : v # u => Q[v] = R[v]
  PROVE  Sound([Create(c, i, k) EXCEPT !.obj[o].lis = {u}], Holders(Q), Q, n + 1, ind, bad)
  <1>1. PICK d : d = Create(c, i, k)  OBVIOUS
  <1>2. PICK G : G = [Holders(R) EXCEPT ![o] = {u}]  OBVIOUS
  <1>3. PICK x : x = NewObj(c, i, k)  OBVIOUS
  <1>4. /\ Sound(d, G, R, n + 1, ind, bad) /\ o \in Obj /\ Holders(R)[o] = {} /\ d.obj[o] = x
    <2>1. PICK B : B = Holders(R)  OBVIOUS
    <2>2. Sound(c, B, R, n, ind, bad)  BY <2>1
    <2>3. Sound(d, Alone(B, o, u), R, n + 1, ind, bad)  BY <1>1, <2>2, CreateSound
    <2>4. Novel(B, d, o, x)  BY <1>1, <1>3, <2>2, CreatedIs
    <2> QED BY <1>2, <2>1, <2>3, <2>4 DEF Alone, Novel
  <1>5. /\ x.id = i /\ x.avail = <<>> /\ x.reading /\ x.lis = {}
    BY <1>3 DEF NewObj, Free
  <1>6. Q = [R EXCEPT ![u] = r]
    <2>1. R \in [Client -> HTTPData]  BY <1>4, SoundIs
    <2> QED BY <2>1
  <1>7. ~Receiving(R[u])  BY NoClientIs DEF Receiving
  <1>8. Holders(R) \in [Obj -> SUBSET Client]  BY <1>4, SoundIs DEF Holders
  <1>9. u \in G[o]  BY <1>2, <1>4, <1>8
  <1>10. Sound([d EXCEPT !.obj[o].lis = @ \cup {u}], G, [R EXCEPT ![u] = r], n + 1, ind, bad)
    <2>1. r.got = d.obj[o].avail /\ r.id = d.obj[o].id /\ d.obj[o].reading
      BY <1>4, <1>5
    <2>2. PICK m \in Nat : m = n + 1  OBVIOUS
    <2>3. Sound(d, G, R, m, ind, bad)  BY <1>4, <2>2
    <2>4. Sound([d EXCEPT !.obj[o].lis = @ \cup {u}], G, [R EXCEPT ![u] = r], m, ind, bad)
      BY <1>4, <1>7, <1>9, <2>1, <2>3, ListenSound
    <2> QED BY <2>2, <2>4
  <1>11. [d EXCEPT !.obj[o].lis = @ \cup {u}] = [d EXCEPT !.obj[o].lis = {u}]
    <2>1. d.obj[o].lis \cup {u} = {u}  BY <1>4, <1>5
    <2> QED BY <2>1
  <1>12. Holders(Q) = G
    <2>2. Q[u].obj = o /\ \A v \in Client : v # u => Q[v].obj = R[v].obj  OBVIOUS
    <2>3. R[u].obj \notin Obj  BY NoClientIs, NoObjects
    <2>4. Holders(Q) = Gained(Holders(R), o, u)  BY <1>4, <2>2, <2>3, HoldersTake
    <2>5. Gained(Holders(R), o, u) = G
      <3>1. PICK B : B = Holders(R)  OBVIOUS
      <3>2. B[o] = {} /\ B \in [Obj -> SUBSET Client] /\ G = [B EXCEPT ![o] = {u}]
        BY <1>2, <1>4, <1>8, <3>1
      <3>3. B[o] \cup {u} = {u}  BY <3>2
      <3>4. Gained(B, o, u) = [B EXCEPT ![o] = {u}]  BY <3>2, <3>3 DEF Gained
      <3> QED BY <3>1, <3>2, <3>4
    <2> QED BY <2>4, <2>5
  <1> QED BY <1>1, <1>6, <1>10, <1>11, <1>12

\* A download begins.
LEMMA DownloadBooks ==
  ASSUME BooksInv, NEW u \in Client, DownloadAndCache(u)
  PROVE  BooksInv'
  <1>1. Fetching(u) /\ down < MaxDownloads  BY DEF DownloadAndCache
  <1>2. /\ client \in [Client -> HTTPData] /\ client[u].id \in Id /\ down \in Nat
    BY <1>1, FetchingIs
  <1>3. PICK R : R = [client EXCEPT ![u] = NoClient]  OBVIOUS
  <1>4. PICK c : c = Replaced(cache, u)  OBVIOUS
  <1>5. Sound(c, Holders(R), R, down, index, failed)  BY <1>1, <1>3, <1>4, ReplacedSound
  <1>6. PICK i \in Id : i = client[u].id  BY <1>2
  <1>7. PICK o : o = Fresh(c)  OBVIOUS
  <1>8. PICK r : r = [state |-> "down", id |-> i, obj |-> o, got |-> <<>>]  OBVIOUS
  <1>9. PICK Q : Q = [R EXCEPT ![u] = r]  OBVIOUS
  <1>10. PICK k \in Download : k = down + 1
    BY <1>1, <1>2, HttpCacheAssumption DEF Download
  <1>11. R[u] = NoClient  BY <1>2, <1>3
  <1>12. Sound([Create(c, i, k) EXCEPT !.obj[o].lis = {u}], Holders(Q), Q, down + 1, index, failed)
    <2>1. o \in Obj
      <3>1. Novel(Holders(R), Create(c, i, k), o, NewObj(c, i, k))
        BY <1>1, <1>2, <1>5, <1>7, CreatedIs
      <3> QED BY <3>1 DEF Novel
    <2>2. r \in HTTPData /\ r.state = "down" /\ r.id = i /\ r.obj = o /\ r.got = <<>>
      BY <1>8, <2>1, EmptySeq DEF HTTPData, ClientState, Content
    <2>3. R \in [Client -> HTTPData]  BY <1>2, <1>3, NoClientIs
    <2>4. /\ Q \in [Client -> HTTPData] /\ Q[u] = r
          /\ \A v \in Client : v # u => Q[v] = R[v]
      BY <1>9, <2>2, <2>3
    <2> QED BY <1>1, <1>2, <1>5, <1>7, <1>11, <2>2, <2>4, CreatedFor, SMTT(30)
  <1>13. /\ cache' = [Create(c, i, k) EXCEPT !.obj[o].lis = {u}]
         /\ client' = [client EXCEPT ![u] = r]
         /\ torn' \in {torn, torn \cup {i}}
         /\ down' = down + 1
         /\ UNCHANGED <<index, length, events, failed, forked, cut>>
    <2>1. /\ cache' = [Create(c, i, down + 1) EXCEPT !.obj[o].lis = {u}]
          /\ client' = [client EXCEPT ![u] = r]
          /\ down' = down + 1
          /\ UNCHANGED <<index, length, events, failed, forked, cut>>
      BY <1>4, <1>6, <1>7, <1>8 DEF DownloadAndCache
    <2>2. torn' \in {torn, torn \cup {i}}  BY <1>4, <1>6, <1>7 DEF DownloadAndCache
    <2> QED BY <1>10, <2>1, <2>2
  <1>14. client' = Q  BY <1>2, <1>3, <1>9, <1>13
  <1>15. Sound(cache', Holders(client'), client', down', index', failed')
    BY <1>12, <1>13, <1>14
  <1>16. torn' \in SUBSET Id /\ down' \in 0..MaxDownloads /\ Len(index') <= down'
    <2>1. Len(index) <= down /\ torn \in SUBSET Id /\ index \in Seq(Entry)  BY RestIs
    <2>2. Len(index) \in Nat  BY <2>1
    <2> QED BY <1>1, <1>2, <1>13, <2>1, <2>2, HttpCacheAssumption
  <1> QED BY <1>13, <1>15, <1>16, RestIs, StepBooks

\* A client of a download has the object, which is received.
LEMMA DownloadingIs ==
  ASSUME BooksInv, NEW u \in Client, Downloading(u), NEW o, o = client[u].obj
  PROVE  /\ Sound(cache, Holders(client), client, down, index, failed)
         /\ client \in [Client -> HTTPData] /\ down \in Nat /\ client[u].id \in Id
         /\ o \in Obj /\ Holders(client)[o] # {}
         /\ cache.obj[o] \in CacheObj /\ Formed(cache.obj[o])
         /\ cache.obj[o].reading /\ cache.obj[o].id = client[u].id /\ cache.obj[o].fd # 0
         /\ cache.obj[o].tag \in Download /\ u \in cache.obj[o].lis
         /\ client[u].state \in {"down", "orphan"}
  <1>1. /\ Sound(cache, Holders(client), client, down, index, failed) /\ down \in Nat
        /\ client \in [Client -> HTTPData]
    BY SoundState, RestIs
  <1>2. client[u].state \in {"down", "orphan"}  BY DEF Downloading
  <1>3. Receiving(client[u])  BY <1>2 DEF Receiving
  <1>4. Attuned(cache.obj, client[u], u)  BY <1>1, RecordIs
  <1>5. /\ o \in Obj /\ cache.obj[o].reading /\ cache.obj[o].id = client[u].id
        /\ u \in cache.obj[o].lis
    BY <1>2, <1>3, <1>4 DEF Attuned
  <1>6. Holders(client)[o] # {} /\ cache.obj[o].id # None  BY <1>1, <1>5, ListenersHave
  <1>7. cache.obj[o] \in CacheObj /\ Formed(cache.obj[o])  BY <1>1, <1>5, SoundIs DEF AllFormed
  <1>8. cache.obj[o].fd # 0 /\ cache.obj[o].tag # 0  BY <1>5, <1>7 DEF Formed, Shut
  <1>9. cache.obj[o].tag \in Download /\ client[u].id \in Id
    BY <1>5, <1>6, <1>7, <1>8, HttpCacheAssumption DEF CacheObj, Download
  <1> QED BY <1>1, <1>2, <1>5, <1>6, <1>7, <1>8, <1>9

\* A piece comes: it is appended, and sent to the listeners.
LEMMA SentSound ==
  ASSUME client \in [Client -> HTTPData], NEW n \in Nat, NEW ind, NEW bad,
         Sound(cache, Holders(client), client, n, ind, bad), NEW o \in Obj,
         Holders(client)[o] # {}, cache.obj[o].reading, NEW k \in Download,
         NEW e, e = [cache EXCEPT !.obj[o].avail = Append(@, k)],
         NEW Q, Q = Sent(cache.obj[o].lis, k)
  PROVE  /\ Sound(e, Holders(client), Q, n, ind, bad) /\ Holders(Q) = Holders(client)
         /\ e.obj[o].id = cache.obj[o].id
  <1>1. /\ cache \in Cache /\ cache.obj \in [Obj -> CacheObj] /\ cache.obj[o] \in CacheObj
        /\ Formed(cache.obj[o])
    BY SoundIs DEF AllFormed
  <1>2. PICK y : y = cache.obj[o]  OBVIOUS
  <1>3. PICK b : b = Append(y.avail, k)  OBVIOUS
  <1>4. b \in Content
    <2>1. y.avail \in Seq(0..MaxDownloads) /\ k \in 0..MaxDownloads
      BY <1>1, <1>2 DEF CacheObj, Content, Download
    <2> QED BY <1>3, <2>1 DEF Content
  <1>5. PICK x : x = [y EXCEPT !.avail = b]  OBVIOUS
  <1>6. x \in CacheObj  BY <1>1, <1>2, <1>4, <1>5 DEF CacheObj
  <1>7. /\ x.id = y.id /\ x.size = y.size /\ x.deleted = y.deleted
        /\ x.ref = y.ref /\ x.reading = y.reading /\ x.quiet = y.quiet
        /\ x.fd = y.fd /\ x.avail = b /\ x.lis = y.lis /\ x.tag = y.tag
    BY <1>1, <1>2, <1>5 DEF CacheObj
  <1>8. x.fd # 0 /\ Formed(x)  BY <1>1, <1>2, <1>7 DEF Formed, Shut
  <1>9. e = [cache EXCEPT !.obj = [cache.obj EXCEPT ![o] = x]]
    BY <1>1, <1>2, <1>3, <1>5 DEF Cache
  <1>10. e \in Cache /\ Puts(cache, e, o, x)  BY <1>1, <1>6, <1>9, PutIs, SMTT(30)
  <1>11. Same(cache.obj[o], x)  BY <1>2, <1>7 DEF Same
  <1>12. Valid(e, Holders(client), n, ind, bad)
    BY <1>2, <1>6, <1>7, <1>8, <1>10, <1>11, SoundIs, PutOK
  <1>13. e.obj[o] = x /\ \A p \in Obj : p # o => e.obj[p] = cache.obj[p]
    BY <1>1, <1>10 DEF Puts
  <1>14. ASSUME NEW v \in Client
         PROVE  Q[v] \in HTTPData /\ Q[v].obj = client[v].obj /\ Attuned(e.obj, Q[v], v)
    <2>1. PICK r : r = client[v]  OBVIOUS
    <2>2. Attuned(cache.obj, r, v) /\ r.obj \in Obj \cup {None} /\ r \in HTTPData
      BY <2>1, RecordIs
    <2>3. \A p \in Obj : v \in e.obj[p].lis <=> v \in cache.obj[p].lis
      BY <1>2, <1>7, <1>13
    <2>4. \A p \in Obj : v \in e.obj[p].lis <=> Receiving(r) /\ r.obj = p
      BY <2>2, <2>3 DEF Attuned
    <2>5. r.obj \in Obj => /\ e.obj[r.obj].id = cache.obj[r.obj].id
                           /\ e.obj[r.obj].reading = cache.obj[r.obj].reading
      BY <1>2, <1>7, <1>13
    <2>6. CASE v \in y.lis /\ r.state # "orphan"
      <3>1. PICK q : q = [r EXCEPT !.got = Append(@, k)]  OBVIOUS
      <3>2. Q[v] = q  BY <1>2, <2>1, <2>6, <3>1 DEF Sent
      <3>3. Receiving(r) /\ r.obj = o  BY <1>2, <2>2, <2>6 DEF Attuned
      <3>4. r.got = y.avail  BY <1>2, <2>2, <2>6, <3>3 DEF Attuned
      <3>5. q.got = b /\ q.state = r.state /\ q.obj = r.obj /\ q.id = r.id /\ q \in HTTPData
        BY <1>3, <1>4, <2>2, <3>1, <3>4 DEF HTTPData
      <3>6. \A p \in Obj : v \in e.obj[p].lis <=> Receiving(q) /\ q.obj = p
        BY <2>4, <3>5 DEF Receiving
      <3>7. e.obj[o].avail = b /\ e.obj[o].reading  BY <1>2, <1>7, <1>13
      <3>8. q.state \in {"down", "orphan"} => e.obj[q.obj].id = q.id
        BY <2>2, <2>5, <3>3, <3>5 DEF Attuned
      <3>9. q.state # "fetch" /\ q.state # "closing"  BY <3>3, <3>5 DEF Receiving
      <3>10. Attuned(e.obj, q, v)
        BY <3>3, <3>5, <3>6, <3>7, <3>8, <3>9 DEF Attuned
      <3> QED BY <2>1, <3>2, <3>5, <3>10
    <2>7. CASE ~(v \in y.lis /\ r.state # "orphan")
      <3>1. Q[v] = r  BY <1>2, <2>1, <2>7 DEF Sent
      <3>2. Receiving(r) /\ r.state # "orphan" => r.obj # o
        BY <1>2, <2>2, <2>7 DEF Attuned
      <3>3. Receiving(r) =>
              /\ r.obj \in Obj
              /\ e.obj[r.obj].reading
              /\ r.state # "orphan" => r.got = e.obj[r.obj].avail
        BY <1>13, <2>2, <2>5, <3>2 DEF Attuned
      <3>4. r.state \in {"down", "orphan"} => e.obj[r.obj].id = r.id
        BY <2>2, <2>5, <3>3 DEF Attuned, Receiving
      <3>5. /\ r.state = "fetch" => r.id \in Id /\ (r.obj # None => e.obj[r.obj].id = r.id)
            /\ r.state = "closing" => r.obj # None
        BY <2>2, <2>5 DEF Attuned
      <3>6. Attuned(e.obj, r, v)  BY <2>4, <3>3, <3>4, <3>5 DEF Attuned
      <3> QED BY <2>1, <2>2, <3>1, <3>6
    <2> QED BY <2>6, <2>7
  <1>15. Q \in [Client -> HTTPData]  BY <1>14 DEF Sent
  <1>16. HasIn(Q, Holders(client))  BY <1>14, SoundIs DEF HasIn
  <1>17. Holders(Q) = Holders(client)  BY <1>14 DEF Holders
  <1> QED BY <1>2, <1>7, <1>12, <1>13, <1>14, <1>15, <1>16, <1>17 DEF Sound, InTune

\* A piece is written.
LEMMA WrittenSound ==
  ASSUME NEW c, NEW H, NEW R, NEW n \in Nat, NEW ind, NEW bad, Sound(c, H, R, n, ind, bad),
         NEW o \in Obj, H[o] # {}, c.obj[o].reading, NEW k \in Nat
  PROVE  Sound(Written(c, o, k), H, R, n, ind, bad)
  <1>1. CASE c.obj[o].quiet
    BY <1>1 DEF Written
  <1>2. CASE ~c.obj[o].quiet
    <2>1. /\ c \in Cache /\ c.obj \in [Obj -> CacheObj] /\ c.obj[o] \in CacheObj
          /\ Formed(c.obj[o]) /\ Valid(c, H, n, ind, bad)
      BY SoundIs DEF AllFormed
    <2>2. ~c.obj[o].deleted  BY <1>2, <2>1 DEF Formed
    <2>3. PICK e : e = Grow(c, o)  OBVIOUS
    <2>4. Valid(e, H, n, ind, bad) /\ Grows(c, e, o)  BY <2>1, <2>2, <2>3, GrowOK
    <2>5. PICK x : x = [c.obj[o] EXCEPT !.size = @ + 1]  OBVIOUS
    <2>6. e.obj = [c.obj EXCEPT ![o] = x]  BY <2>1, <2>4, <2>5 DEF Grows
    <2>7. /\ x.id = c.obj[o].id /\ x.reading = c.obj[o].reading
          /\ x.avail = c.obj[o].avail /\ x.lis = c.obj[o].lis
      BY <2>1, <2>5 DEF CacheObj
    <2>8. InTune(e.obj, R)  BY <2>6, <2>7, TunePut
    <2>9. Sound(e, H, R, n, ind, bad)  BY <2>4, <2>8, SoundIs DEF Sound
    <2>10. PICK m \in Nat : m = c.obj[o].out + k  BY <2>1 DEF CacheObj
    <2>11. PICK d : d = WriteOut(e, o, m)  OBVIOUS
    <2>12. PICK y : y = Advanced(e.obj[o], m)  OBVIOUS
    <2>13. d \in Cache /\ Puts(e, d, o, y) /\ y \in CacheObj
      <3>1. e \in Cache  BY <2>9, SoundIs
      <3> QED BY <2>11, <2>12, <3>1, WriteOutIs
    <2>14. /\ e.obj[o] \in CacheObj /\ Formed(e.obj[o])
      BY <2>9, SoundIs DEF AllFormed
    <2>15. /\ y.id = e.obj[o].id /\ y.size = e.obj[o].size /\ y.deleted = e.obj[o].deleted
           /\ y.ref = e.obj[o].ref /\ y.reading = e.obj[o].reading
           /\ y.quiet = e.obj[o].quiet /\ y.avail = e.obj[o].avail /\ y.lis = e.obj[o].lis
           /\ y.fd = e.obj[o].fd /\ y.tag = e.obj[o].tag
           /\ e.obj[o].fd = 0 => y = e.obj[o]
      BY <2>12, <2>14 DEF Advanced, CacheObj
    <2>16. Formed(y)  BY <2>14, <2>15 DEF Formed, Shut
    <2>17. Same(e.obj[o], y)  BY <2>15 DEF Same
    <2>18. Sound(d, H, R, n, ind, bad)
      BY <2>9, <2>13, <2>15, <2>16, <2>17, PutSound
    <2>19. Written(c, o, k) = d  BY <1>2, <2>3, <2>10, <2>11 DEF Written, Grow
    <2> QED BY <2>18, <2>19
  <1> QED BY <1>1, <1>2

\* It cannot be written: the object deletes itself, and a write has failed.
LEMMA ErrorSound ==
  ASSUME NEW c, NEW H, NEW R, NEW n \in Nat, NEW ind, NEW bad, Sound(c, H, R, n, ind, bad),
         NEW o \in Obj, H[o] # {}
  PROVE  Sound(WriteError(c, o), H, R, n, ind, TRUE)
  <1>1. PICK d : d = WriteError(c, o)  OBVIOUS
  <1>2. Valid(d, H, n, ind, TRUE) /\ Spoils(c, d, o)
    <2>1. Valid(c, H, n, ind, bad)  BY SoundIs
    <2>2. Spoils(c, WriteError(c, o), o)  BY <2>1, WriteErrorOK
    <2>3. Valid(WriteError(c, o), H, n, ind, TRUE)  BY <2>1, WriteErrorOK
    <2> QED BY <1>1, <2>2, <2>3
  <1>3. PICK x : x = Gone(c.obj[o])  OBVIOUS
  <1>4. c.obj[o] \in CacheObj  BY SoundIs
  <1>5. /\ x.id = c.obj[o].id /\ x.reading = c.obj[o].reading
        /\ x.avail = c.obj[o].avail /\ x.lis = c.obj[o].lis
    BY <1>3, <1>4 DEF Gone, CacheObj
  <1>6. d.obj = [c.obj EXCEPT ![o] = x]  BY <1>2, <1>3 DEF Spoils
  <1>7. InTune(d.obj, R)  BY <1>5, <1>6, TunePut
  <1> QED BY <1>1, <1>2, <1>7, SoundIs DEF Sound

\* A piece of the body comes.
LEMMA ChunkBooks ==
  ASSUME BooksInv, NEW u \in Client, Chunk(u)
  PROVE  BooksInv'
  <1>1. Downloading(u)  BY Zenon DEF Chunk
  <1>2. PICK o : o = client[u].obj  OBVIOUS
  <1>3. /\ Sound(cache, Holders(client), client, down, index, failed)
        /\ client \in [Client -> HTTPData] /\ down \in Nat /\ client[u].id \in Id
        /\ o \in Obj /\ Holders(client)[o] # {}
        /\ cache.obj[o].reading /\ cache.obj[o].id = client[u].id
        /\ cache.obj[o].tag \in Download
        /\ client[u].state \in {"down", "orphan"}
    BY <1>1, <1>2, DownloadingIs
  <1>4. PICK k \in Download : k = cache.obj[o].tag  BY <1>3
  <1>5. PICK e : e = [cache EXCEPT !.obj[o].avail = Append(@, k)]  OBVIOUS
  <1>6. PICK Q : Q = Sent(cache.obj[o].lis, k)  OBVIOUS
  <1>7. PICK H : H = Holders(client)  OBVIOUS
  <1>8. Sound(e, H, Q, down, index, failed) /\ Holders(Q) = H /\ e.obj[o].id # None
    BY <1>3, <1>5, <1>6, <1>7, NoObjects, SentSound, SMTT(30)
  <1>9. PICK c : c = Notify(cache, o, k)  OBVIOUS
  <1>10. Sound(c, H, Q, down, index, failed)
    <2>1. c = e \/ c = Delete(e, o)  BY <1>5, <1>9 DEF Notify
    <2>2. Sound(Delete(e, o), H, Q, down, index, failed)  BY <1>3, <1>8, DeleteSound
    <2> QED BY <1>8, <2>1, <2>2
  <1>11. H[o] # {} /\ Q[u].obj = o /\ Q[u].state = client[u].state
    BY <1>2, <1>3, <1>6, <1>7 DEF Sent, HTTPData
  <1>12. \A d : Sound(d, H, Q, down, index, failed) => d.obj[o].reading
    <2>1. Receiving(Q[u])  BY <1>3, <1>11 DEF Receiving
    <2>2. ASSUME NEW d, Sound(d, H, Q, down, index, failed)
          PROVE  d.obj[o].reading
      BY <1>11, <2>1, <2>2, RecordIs DEF Attuned
    <2> QED BY <2>2
  <1>13. Sound(Prune(c), H, Q, down, index, failed)  BY <1>3, <1>10, PruneSound
  <1>14. PICK left : left = IF c.obj[o].quiet THEN 0 ELSE c.obj[o].size + 1 - c.obj[o].out
    OBVIOUS
  <1>15. left \in Int
    <2>1. c.obj[o] \in CacheObj  BY <1>3, <1>10, SoundIs
    <2> QED BY <1>14, <2>1 DEF CacheObj
  <1>16. /\ client' = Q
         /\ UNCHANGED <<index, down, length, events, forked, cut>>
         /\ \/ /\ \E m \in 0..left : cache' = Written(c, o, m)
               /\ UNCHANGED <<failed, torn>>
            \/ /\ left > 0
               /\ cache' = Written(Prune(c), o, left)
               /\ UNCHANGED <<failed, torn>>
            \/ /\ \E d \in {c, Prune(c)} : cache' = WriteError(d, o)
               /\ failed' = TRUE
               /\ torn' = torn \cup {client[u].id}
    BY <1>2, <1>4, <1>6, <1>9, <1>14, Zenon DEF Chunk
  <1>17. Sound(cache', H, Q, down, index, failed') /\ torn' \in SUBSET Id /\ failed' \in BOOLEAN
    <2>1. torn \in SUBSET Id /\ failed \in BOOLEAN  BY RestIs
    <2>2. ASSUME NEW m \in 0..left, cache' = Written(c, o, m), UNCHANGED <<failed, torn>>
          PROVE  Sound(cache', H, Q, down, index, failed') /\ torn' \in SUBSET Id
      <3>1. m \in Nat  BY <1>15, <2>2
      <3>2. c.obj[o].reading  BY <1>10, <1>12
      <3>3. Sound(Written(c, o, m), H, Q, down, index, failed)
        BY <1>3, <1>10, <1>11, <3>1, <3>2, WrittenSound
      <3> QED BY <2>1, <2>2, <3>3
    <2>3. ASSUME left > 0, cache' = Written(Prune(c), o, left), UNCHANGED <<failed, torn>>
          PROVE  Sound(cache', H, Q, down, index, failed') /\ torn' \in SUBSET Id
      <3>1. PICK m \in Nat : m = left  BY <1>15, <2>3
      <3>2. PICK p : p = Prune(c)  OBVIOUS
      <3>3. p.obj[o].reading  BY <1>12, <1>13, <3>2
      <3>4. Sound(Written(p, o, m), H, Q, down, index, failed)
        BY <1>3, <1>11, <1>13, <3>2, <3>3, WrittenSound
      <3> QED BY <2>1, <2>3, <3>1, <3>2, <3>4
    <2>4. ASSUME NEW d, d \in {c, Prune(c)}, cache' = WriteError(d, o), failed' = TRUE,
                 torn' = torn \cup {client[u].id}
          PROVE  Sound(cache', H, Q, down, index, failed') /\ torn' \in SUBSET Id
      <3>1. Sound(d, H, Q, down, index, failed)  BY <1>10, <1>13, <2>4
      <3>2. Sound(WriteError(d, o), H, Q, down, index, TRUE)
        BY <1>3, <1>11, <3>1, ErrorSound
      <3> QED BY <1>3, <2>1, <2>4, <3>2
    <2>5. failed' \in BOOLEAN  BY <1>16, <2>1
    <2> QED BY <1>16, <2>2, <2>3, <2>4, <2>5
  <1>18. Sound(cache', Holders(client'), client', down', index', failed')
    BY <1>8, <1>16, <1>17
  <1> QED BY <1>16, <1>17, <1>18, RestIs, StepBooks

\* A body has ended: of those that listen to it some go, and some (K) when all is written.
Silent(c, o) == [c EXCEPT !.obj[o].reading = FALSE, !.obj[o].lis = {}]

Left(L, K) == Linger(Leave(client, L), K)

Rid(H, o, L) == [H EXCEPT ![o] = @ \ L]

Gives(Q, H, o, L) ==
  /\ L \in SUBSET H[o]
  /\ \A v \in L : Q[v].obj # o
  /\ Holders(Q) = Rid(H, o, L)

LEMMA EndSound ==
  ASSUME client \in [Client -> HTTPData], NEW n \in Nat, NEW ind, NEW bad,
         Sound(cache, Holders(client), client, n, ind, bad), NEW o \in Obj,
         Holders(client)[o] # {}, cache.obj[o].reading,
         NEW K \in SUBSET {v \in cache.obj[o].lis : client[v].state # "orphan"},
         NEW L, L = cache.obj[o].lis \ K
  PROVE  /\ Sound(Silent(cache, o), Holders(client), Left(L, K), n, ind, bad)
         /\ Gives(Left(L, K), Holders(client), o, L)
  <1>1. /\ cache \in Cache /\ cache.obj \in [Obj -> CacheObj] /\ cache.obj[o] \in CacheObj
        /\ Formed(cache.obj[o])
    BY SoundIs DEF AllFormed
  <1>2. PICK y : y = cache.obj[o]  OBVIOUS
  <1>3. PICK x : x = [y EXCEPT !.reading = FALSE, !.lis = {}]  OBVIOUS
  <1>4. x \in CacheObj  BY <1>1, <1>2, <1>3 DEF CacheObj
  <1>5. /\ x.id = y.id /\ x.size = y.size /\ x.deleted = y.deleted
        /\ x.ref = y.ref /\ ~x.reading /\ x.quiet = y.quiet
        /\ x.fd = y.fd /\ x.avail = y.avail /\ x.lis = {} /\ x.tag = y.tag
    BY <1>1, <1>2, <1>3 DEF CacheObj
  <1>6. x.fd # 0 /\ Formed(x)  BY <1>1, <1>2, <1>5 DEF Formed, Shut
  <1>7. PICK c : c = Silent(cache, o)  OBVIOUS
  <1>8. c = [cache EXCEPT !.obj = [cache.obj EXCEPT ![o] = x]]
    BY <1>1, <1>2, <1>3, <1>7 DEF Cache, Silent
  <1>9. c \in Cache /\ Puts(cache, c, o, x)  BY <1>1, <1>4, <1>8, PutIs
  <1>10. Same(cache.obj[o], x)  BY <1>2, <1>5 DEF Same
  <1>11. Valid(c, Holders(client), n, ind, bad)
    BY <1>2, <1>4, <1>5, <1>6, <1>9, <1>10, SoundIs, PutOK
  <1>12. c.obj[o] = x /\ \A p \in Obj : p # o => c.obj[p] = cache.obj[p]
    BY <1>1, <1>9 DEF Puts
  <1>13. PICK Q : Q = Left(L, K)  OBVIOUS
  <1>14. y.lis \subseteq Client /\ K \subseteq y.lis /\ L \subseteq y.lis
    BY <1>1, <1>2 DEF CacheObj
  <1>22. PICK P : P = [v \in Client |-> IF v \in L THEN NoClient ELSE client[v]]  OBVIOUS
  <1>23. Q = [v \in Client |-> IF v \in K THEN [P[v] EXCEPT !.state = "closing", !.got = <<>>]
                               ELSE P[v]]
    BY <1>13, <1>22, Zenon DEF Left, Linger, Leave
  <1>24. \A v \in Client :
           /\ v \in K => Q[v] = [P[v] EXCEPT !.state = "closing", !.got = <<>>]
           /\ v \notin K => Q[v] = P[v]
           /\ v \in L => P[v] = NoClient
           /\ v \notin L => P[v] = client[v]
    BY <1>22, <1>23, Zenon
  <1>25. \A v : v \in K => v \notin L  OBVIOUS
  <1>15. ASSUME NEW v \in Client
         PROVE  /\ Q[v] \in HTTPData /\ Attuned(c.obj, Q[v], v)
                /\ v \in L => Q[v].obj = None /\ client[v].obj = o
                /\ v \notin L => Q[v].obj = client[v].obj
    <2>1. PICK r : r = client[v]  OBVIOUS
    <2>2. Attuned(cache.obj, r, v) /\ r.obj \in Obj \cup {None} /\ r \in HTTPData
      BY <2>1, RecordIs
    <2>3. v \in y.lis => Receiving(r) /\ r.obj = o  BY <1>2, <2>2 DEF Attuned
    <2>4. v \in y.lis => \A p \in Obj : v \notin c.obj[p].lis
      BY <1>5, <1>12, <2>2, <2>3 DEF Attuned
    <2>5. CASE v \in L
      <3>1. Q[v] = NoClient  BY <1>24, <1>25, <2>5, Zenon
      <3>2. Attuned(c.obj, NoClient, v)  BY <1>14, <2>4, <2>5, NoClientIs
      <3> QED BY <1>14, <2>1, <2>3, <2>5, <3>1, <3>2, NoClientIs
    <2>6. CASE v \in K
      <3>1. PICK q : q = [r EXCEPT !.state = "closing", !.got = <<>>]  OBVIOUS
      <3>2. Q[v] = q /\ v \notin L  BY <1>24, <1>25, <2>1, <2>6, <3>1, Zenon
      <3>3. q \in HTTPData /\ q.obj = r.obj /\ q.state = "closing"
        BY <2>2, <3>1, EmptySeq DEF HTTPData, ClientState, Content
      <3>4. q.obj # None  BY <1>14, <2>3, <2>6, <3>3, NoObjects
      <3>5. Attuned(c.obj, q, v)  BY <1>14, <2>4, <2>6, <3>3, <3>4 DEF Attuned, Receiving
      <3> QED BY <2>1, <3>2, <3>3, <3>5
    <2>7. CASE v \notin y.lis
      <3>0. v \notin K /\ v \notin L  BY <1>14, <2>7
      <3>1. Q[v] = r /\ v \notin L  BY <1>24, <2>1, <2>7, <3>0, Zenon
      <3>2. \A p \in Obj : v \in c.obj[p].lis <=> v \in cache.obj[p].lis
        BY <1>2, <1>5, <1>12, <2>7
      <3>3. Receiving(r) => r.obj \in Obj /\ r.obj # o  BY <1>2, <2>2, <2>7 DEF Attuned
      <3>4. Receiving(r) => c.obj[r.obj].reading = cache.obj[r.obj].reading
                            /\ c.obj[r.obj].avail = cache.obj[r.obj].avail
        BY <1>12, <3>3
      <3>5. r.obj \in Obj => c.obj[r.obj].id = cache.obj[r.obj].id
        BY <1>2, <1>5, <1>12
      <3>6. Attuned(c.obj, r, v)  BY <2>2, <3>2, <3>4, <3>5, AttunedKept
      <3> QED BY <2>1, <2>2, <3>1, <3>6
    <2> QED BY <1>2, <2>5, <2>6, <2>7
  <1>16. Q \in [Client -> HTTPData]
    <2>1. \A v \in Client : Q[v] \in HTTPData  BY <1>15
    <2>2. Q = [v \in Client |-> Q[v]]  BY <1>23, Zenon
    <2> QED BY <2>1, <2>2
  <1>17. HasIn(Q, Holders(client))
    <2>1. \A v \in Client, p \in Obj : Q[v].obj = p => client[v].obj = p
      BY <1>15, NoObjects
    <2> QED BY <2>1 DEF HasIn, Holders
  <1>18. Sound(c, Holders(client), Q, n, ind, bad)
    BY <1>11, <1>15, <1>16, <1>17 DEF Sound, InTune
  <1>19. L \subseteq Holders(client)[o]
    BY <1>14, <1>15 DEF Holders
  <1>20. \A v \in L : Q[v].obj # o  BY <1>14, <1>15, NoObjects
  <1>21. Holders(Q) = Rid(Holders(client), o, L)
    <2>1. PICK A : A = Holders(Q)  OBVIOUS
    <2>2. PICK B : B = Rid(Holders(client), o, L)  OBVIOUS
    <2>3. /\ A \in [Obj -> SUBSET Client]
          /\ \A p \in Obj, v \in Client : v \in A[p] <=> Q[v].obj = p
      BY <2>1 DEF Holders
    <2>4. /\ B \in [Obj -> SUBSET Client]
          /\ \A p \in Obj, v \in Client : v \in B[p] <=> client[v].obj = p /\ (p = o => v \notin L)
      BY <2>2 DEF Holders, Rid
    <2>5. \A p \in Obj, v \in Client : v \in A[p] <=> v \in B[p]
      BY <1>14, <1>15, <2>3, <2>4, NoObjects
    <2>6. ASSUME NEW p \in Obj
          PROVE  A[p] = B[p]
      <3>1. A[p] \subseteq Client /\ B[p] \subseteq Client  BY <2>3, <2>4
      <3> QED BY <2>5, <3>1
    <2>7. A = B  BY <2>3, <2>4, <2>6
    <2> QED BY <2>1, <2>2, <2>7
  <1> QED BY <1>2, <1>5, <1>7, <1>12, <1>13, <1>18, <1>19, <1>20, <1>21 DEF Gives

\* The object keeps its id.
LEMMA SilentIs ==
  ASSUME NEW c \in Cache, NEW o \in Obj
  PROVE  Silent(c, o).obj[o].id = c.obj[o].id
  BY DEF Silent, Cache, CacheObj

\* Some that had the object give it back.
LEMMA EndedSound ==
  ASSUME NEW c, NEW Q, NEW H, NEW n \in Nat, NEW ind, NEW bad, Sound(c, H, Q, n, ind, bad),
         NEW o \in Obj, H[o] # {}, NEW L, Gives(Q, H, o, L)
  PROVE  Sound(Release(c, o, Cardinality(L)), Holders(Q), Q, n, ind, bad)
  <1>1. PICK m : m = Cardinality(L)  OBVIOUS
  <1>2. L \in SUBSET H[o] /\ \A v \in L : Q[v].obj # o  BY DEF Gives
  <1>3. Sound(Release(c, o, m), [H EXCEPT ![o] = @ \ L], Q, n, ind, bad)
    BY <1>1, <1>2, ReleaseSound
  <1> QED BY <1>1, <1>3 DEF Rid, Gives

\* The whole body has come.
LEMMA BodyEndBooks ==
  ASSUME BooksInv, NEW u \in Client, BodyEnd(u)
  PROVE  BooksInv'
  <1>1. Downloading(u)  BY Zenon DEF BodyEnd
  <1>2. PICK o : o = client[u].obj  OBVIOUS
  <1>3. /\ Sound(cache, Holders(client), client, down, index, failed)
        /\ client \in [Client -> HTTPData] /\ down \in Nat
        /\ o \in Obj /\ Holders(client)[o] # {}
        /\ cache.obj[o].reading /\ cache.obj[o] \in CacheObj
        /\ cache.obj[o].tag \in Download
    BY <1>1, <1>2, DownloadingIs
  <1>4. PICK K \in SUBSET {v \in cache.obj[o].lis : client[v].state # "orphan"} :
          /\ cache' = Release([cache EXCEPT !.obj[o].reading = FALSE, !.obj[o].lis = {}], o,
                              Cardinality(cache.obj[o].lis \ K))
          /\ client' = Linger(Leave(client, cache.obj[o].lis \ K), K)
    BY <1>2, Zenon DEF BodyEnd
  <1>5. PICK L : L = cache.obj[o].lis \ K  OBVIOUS
  <1>6. cache' = Release(Silent(cache, o), o, Cardinality(L)) /\ client' = Left(L, K)
    BY <1>4, <1>5 DEF Silent, Left
  <1>7. PICK Q : Q = Left(L, K)  OBVIOUS
  <1>8. PICK c : c = Silent(cache, o)  OBVIOUS
  <1>9. /\ Sound(Silent(cache, o), Holders(client), Left(L, K), down, index, failed)
        /\ Gives(Left(L, K), Holders(client), o, L)
    BY <1>3, <1>5, EndSound
  <1>10. Sound(Release(c, o, Cardinality(L)), Holders(Q), Q, down, index, failed)
    BY <1>3, <1>7, <1>8, <1>9, EndedSound
  <1>11. /\ length' = [length EXCEPT ![cache.obj[o].tag] = Len(cache.obj[o].avail)]
         /\ UNCHANGED <<index, down, events, failed, torn, forked, cut>>
    BY <1>2, Zenon DEF BodyEnd
  <1>12. length' \in [Download -> Nat \cup {None}]
    <2>1. Len(cache.obj[o].avail) \in Nat  BY <1>3 DEF CacheObj, Content
    <2> QED BY <1>11, <2>1, RestIs
  <1>13. Sound(cache', Holders(client'), client', down', index', failed')
    BY <1>6, <1>7, <1>8, <1>10, <1>11
  <1> QED BY <1>11, <1>12, <1>13, RestIs, StepBooks

\* The body breaks off.
LEMMA BodyBadBooks ==
  ASSUME BooksInv, NEW u \in Client, BodyBad(u)
  PROVE  BooksInv'
  <1>1. Downloading(u) /\ Quiet  BY Zenon DEF BodyBad
  <1>2. PICK o : o = client[u].obj  OBVIOUS
  <1>3. /\ Sound(cache, Holders(client), client, down, index, failed)
        /\ client \in [Client -> HTTPData] /\ down \in Nat
        /\ o \in Obj /\ Holders(client)[o] # {}
        /\ cache.obj[o].reading /\ cache.obj[o].id = client[u].id /\ client[u].id \in Id
    BY <1>1, <1>2, DownloadingIs
  <1>4. PICK K \in SUBSET {v \in cache.obj[o].lis : client[v].state # "orphan"} :
          /\ cache' = Release(Delete([cache EXCEPT !.obj[o].reading = FALSE,
                                                   !.obj[o].lis = {}], o), o,
                              Cardinality(cache.obj[o].lis \ K))
          /\ client' = Linger(Leave(client, cache.obj[o].lis \ K), K)
    BY <1>2, Zenon DEF BodyBad
  <1>5. PICK L : L = cache.obj[o].lis \ K  OBVIOUS
  <1>6. cache' = Release(Delete(Silent(cache, o), o), o, Cardinality(L)) /\ client' = Left(L, K)
    BY <1>4, <1>5 DEF Silent, Left
  <1>7. PICK Q : Q = Left(L, K)  OBVIOUS
  <1>8. PICK c : c = Silent(cache, o)  OBVIOUS
  <1>9. /\ Sound(Silent(cache, o), Holders(client), Left(L, K), down, index, failed)
        /\ Gives(Left(L, K), Holders(client), o, L)
    BY <1>3, <1>5, EndSound
  <1>14. Silent(cache, o).obj[o].id # None
    BY <1>3, NoObjects, SoundIs, SilentIs
  <1>10. PICK d : d = Delete(c, o)  OBVIOUS
  <1>11. Sound(d, Holders(client), Q, down, index, failed)
    BY <1>3, <1>7, <1>8, <1>9, <1>10, <1>14, DeleteSound
  <1>12. Sound(Release(d, o, Cardinality(L)), Holders(Q), Q, down, index, failed)
    BY <1>3, <1>7, <1>9, <1>11, EndedSound
  <1>13. Sound(cache', Holders(client'), client', down, index, failed)
    BY <1>6, <1>7, <1>8, <1>10, <1>12
  <1> QED BY <1>1, <1>13, QuietBooks

\* The client of a download goes: its part of the download stays.
LEMMA OrphanBooks ==
  ASSUME BooksInv, NEW u \in Client, client[u].state = "down", Quiet, UNCHANGED cache,
         client' = [client EXCEPT ![u] = [@ EXCEPT !.state = "orphan", !.got = <<>>]]
  PROVE  BooksInv'
  <1>1. PICK o : o = client[u].obj  OBVIOUS
  <1>2. Downloading(u)  BY DEF Downloading
  <1>3. /\ Sound(cache, Holders(client), client, down, index, failed)
        /\ client \in [Client -> HTTPData] /\ down \in Nat /\ o \in Obj
        /\ cache.obj[o].reading
    BY <1>1, <1>2, DownloadingIs
  <1>4. PICK r : r = [client[u] EXCEPT !.state = "orphan", !.got = <<>>]  OBVIOUS
  <1>5. /\ r \in HTTPData /\ r.obj = o /\ r.id = client[u].id /\ r.state = "orphan"
    BY <1>1, <1>3, <1>4, EmptySeq DEF HTTPData, ClientState, Content
  <1>6. Attuned(cache.obj, r, u)
    <2>1. Attuned(cache.obj, client[u], u)  BY <1>3, RecordIs
    <2>2. Receiving(client[u]) /\ Receiving(r)  BY <1>5 DEF Receiving
    <2>3. \A p \in Obj : u \in cache.obj[p].lis <=> p = o  BY <1>1, <2>1, <2>2 DEF Attuned
    <2>4. cache.obj[o].id = r.id  BY <1>1, <1>5, <2>1 DEF Attuned
    <2> QED BY <1>3, <1>5, <2>2, <2>3, <2>4 DEF Attuned
  <1>7. r.obj # None => u \in Holders(client)[r.obj]  BY <1>1, <1>3, <1>5 DEF Holders
  <1>8. PICK Q : Q = [client EXCEPT ![u] = r]  OBVIOUS
  <1>9. Sound(cache, Holders(client), Q, down, index, failed)
    BY <1>3, <1>5, <1>6, <1>7, <1>8, SwapSound
  <1>10. Q[u].obj = client[u].obj /\ \A v \in Client : v # u => Q[v].obj = client[v].obj
    BY <1>1, <1>3, <1>5, <1>8
  <1>11. Holders(Q) = Holders(client)  BY <1>10, HoldersSame
  <1>12. Sound(cache', Holders(client'), client', down, index, failed)
    BY <1>4, <1>8, <1>9, <1>11
  <1> QED BY <1>12, QuietBooks

\* The object o without its listener u.
Unheard(c, o, u) == [c EXCEPT !.obj[o].lis = @ \ {u}]

\* One that has an object, and perhaps listens to it, goes.
LEMMA UnheardSound ==
  ASSUME client \in [Client -> HTTPData], NEW u \in Client, NEW o \in Obj, client[u].obj = o,
         NEW n \in Nat, NEW ind, NEW bad,
         Sound(cache, Holders(client), client, n, ind, bad),
         NEW Q, Q = [client EXCEPT ![u] = NoClient]
  PROVE  Sound(Unheard(cache, o, u), Holders(client), Q, n, ind, bad)
  <1>1. /\ cache \in Cache /\ cache.obj \in [Obj -> CacheObj] /\ cache.obj[o] \in CacheObj
        /\ Formed(cache.obj[o])
    BY SoundIs DEF AllFormed
  <1>2. PICK y : y = cache.obj[o]  OBVIOUS
  <1>3. PICK x : x = [y EXCEPT !.lis = @ \ {u}]  OBVIOUS
  <1>4. x \in CacheObj  BY <1>1, <1>2, <1>3 DEF CacheObj
  <1>5. /\ x.id = y.id /\ x.size = y.size /\ x.deleted = y.deleted
        /\ x.ref = y.ref /\ x.reading = y.reading /\ x.quiet = y.quiet
        /\ x.fd = y.fd /\ x.avail = y.avail /\ x.lis = y.lis \ {u} /\ x.tag = y.tag
        /\ x.out = y.out /\ x.off = y.off
    BY <1>1, <1>2, <1>3 DEF CacheObj
  <1>6. Formed(x)  BY <1>1, <1>2, <1>5 DEF Formed, Shut
  <1>7. PICK c : c = Unheard(cache, o, u)  OBVIOUS
  <1>8. c = [cache EXCEPT !.obj = [cache.obj EXCEPT ![o] = x]]
    BY <1>1, <1>2, <1>3, <1>7 DEF Cache, Unheard
  <1>9. c \in Cache /\ Puts(cache, c, o, x)  BY <1>1, <1>4, <1>8, PutIs
  <1>10. Same(cache.obj[o], x)  BY <1>2, <1>5 DEF Same
  <1>11. Holders(client)[o] # {}  BY DEF Holders
  <1>12. Valid(c, Holders(client), n, ind, bad)
    BY <1>2, <1>4, <1>5, <1>6, <1>9, <1>10, <1>11, SoundIs, PutOK
  <1>13. c.obj[o] = x /\ \A p \in Obj : p # o => c.obj[p] = cache.obj[p]
    BY <1>1, <1>9 DEF Puts
  <1>14. Q \in [Client -> HTTPData] /\ Q[u] = NoClient /\ \A v \in Client : v # u => Q[v] = client[v]
    BY NoClientIs
  <1>15. ASSUME NEW v \in Client
         PROVE  Attuned(c.obj, Q[v], v)
    <2>1. PICK r : r = client[v]  OBVIOUS
    <2>2. Attuned(cache.obj, r, v) /\ r.obj \in Obj \cup {None}  BY <2>1, RecordIs
    <2>3. CASE v = u
      <3>1. \A p \in Obj : u \in cache.obj[p].lis => p = o  BY <2>1, <2>2, <2>3 DEF Attuned
      <3>2. \A p \in Obj : u \notin c.obj[p].lis  BY <1>5, <1>13, <3>1
      <3>3. Attuned(c.obj, NoClient, u)  BY <3>2, NoClientIs
      <3> QED BY <1>14, <2>3, <3>3
    <2>4. CASE v # u
      <3>1. \A p \in Obj : v \in c.obj[p].lis <=> v \in cache.obj[p].lis
        BY <1>2, <1>5, <1>13, <2>4
      <3>2. r.obj \in Obj => /\ c.obj[r.obj].id = cache.obj[r.obj].id
                             /\ c.obj[r.obj].reading = cache.obj[r.obj].reading
                             /\ c.obj[r.obj].avail = cache.obj[r.obj].avail
        BY <1>2, <1>5, <1>13
      <3>3. Receiving(r) => r.obj \in Obj  BY <2>2 DEF Attuned
      <3>4. Attuned(c.obj, r, v)  BY <2>2, <3>1, <3>2, <3>3, AttunedKept
      <3> QED BY <1>14, <2>1, <2>4, <3>4
    <2> QED BY <2>3, <2>4
  <1>16. HasIn(Q, Holders(client))
    <2>1. \A v \in Client, p \in Obj : Q[v].obj = p => client[v].obj = p
      BY <1>14, NoClientIs, NoObjects
    <2> QED BY <2>1 DEF HasIn, Holders
  <1>17. Sound(c, Holders(client), Q, n, ind, bad)
    BY <1>12, <1>14, <1>15, <1>16 DEF Sound, InTune
  <1> QED BY <1>7, <1>17

\* Away(): the cache without a client.
LEMMA AwaySound ==
  ASSUME BooksInv, NEW u \in Client, client[u].state \in {"down", "body", "closing"}, Away(u)
  PROVE  Sound(cache', Holders(client'), client', down, index, failed)
  <1>1. /\ Sound(cache, Holders(client), client, down, index, failed) /\ down \in Nat
        /\ client \in [Client -> HTTPData]
    BY SoundState, RestIs
  <1>2. PICK o : o = client[u].obj  OBVIOUS
  <1>3. o \in Obj
    <2>1. Attuned(cache.obj, client[u], u) /\ o \in Obj \cup {None}  BY <1>1, <1>2, RecordIs
    <2> QED BY <1>2, <2>1 DEF Attuned, Receiving
  <1>4. PICK Q : Q = [client EXCEPT ![u] = NoClient]  OBVIOUS
  <1>5. client' = Q  BY <1>1, <1>4 DEF Away, Leave
  <1>6. PICK c : c = Unheard(cache, o, u)  OBVIOUS
  <1>7. cache' = Release(c, o, 1)  BY <1>2, <1>6 DEF Away, Unheard
  <1>8. Sound(c, Holders(client), Q, down, index, failed)
    BY <1>1, <1>2, <1>3, <1>4, <1>6, UnheardSound
  <1>9. Joined(u, o) = Holders(client)  BY <1>1, <1>2, <1>3, JoinedIs
  <1>10. Sound(c, Joined(u, o), [client EXCEPT ![u] = NoClient], down, index, failed)
    BY <1>4, <1>8, <1>9
  <1>11. Sound(Release(c, o, 1), Holders([client EXCEPT ![u] = NoClient]),
               [client EXCEPT ![u] = NoClient], down, index, failed)
    BY <1>1, <1>2, <1>3, <1>10, GiveBack
  <1> QED BY <1>4, <1>5, <1>7, <1>11

\* A client goes.
LEMMA GoneBooks ==
  ASSUME BooksInv, NEW u \in Client, ClientGone(u)
  PROVE  BooksInv'
  <1>1. CASE Orphaned(u)
    <2>1. client[u].state = "down" /\ Quiet /\ UNCHANGED cache  BY <1>1 DEF Orphaned
    <2>2. client' = [client EXCEPT ![u] = [@ EXCEPT !.state = "orphan", !.got = <<>>]]
      BY <1>1 DEF Orphaned
    <2> QED BY <2>1, <2>2, OrphanBooks, Zenon
  <1>2. CASE BrokenOff(u)
    <2>1. /\ client[u].state = "down" /\ Away(u)
          /\ torn' = torn \cup {client[u].id}
          /\ UNCHANGED <<index, down, length, events, failed, forked, cut>>
      BY <1>2 DEF BrokenOff
    <2>2. Sound(cache', Holders(client'), client', down', index', failed')
      BY <2>1, AwaySound
    <2>3. client[u].id \in Id
      <3>1. Downloading(u)  BY <2>1 DEF Downloading
      <3>2. PICK o : o = client[u].obj  OBVIOUS
      <3> QED BY <3>1, <3>2, DownloadingIs
    <2>4. torn' \in SUBSET Id  BY <2>1, <2>3, RestIs
    <2> QED BY <2>1, <2>2, <2>4, RestIs, StepBooks
  <1>3. CASE Departed(u)
    <2>1. client[u].state \in {"body", "closing"} /\ Away(u) /\ Quiet  BY <1>3 DEF Departed
    <2> QED BY <2>1, AwaySound, QuietBooks
  <1> QED BY <1>1, <1>2, <1>3 DEF ClientGone

\* The timer prunes the cache.
LEMMA PruneTimerBooks ==
  ASSUME BooksInv, PruneTimer
  PROVE  BooksInv'
  <1>1. Sound(cache, Holders(client), client, down, index, failed) /\ down \in Nat
    BY SoundState
  <1>2. Sound(Prune(cache), Holders(client), client, down, index, failed)
    BY <1>1, PruneSound
  <1>3. cache' = Prune(cache) /\ UNCHANGED <<client, index, down, history>>  BY DEF PruneTimer
  <1>4. Sound(cache', Holders(client'), client', down, index, failed)  BY <1>2, <1>3
  <1>5. Quiet  BY <1>3 DEF Quiet, history
  <1> QED BY <1>4, <1>5, QuietBooks

\* The index is written.
LEMMA WriteIndexBooks ==
  ASSUME BooksInv, WriteIndex
  PROVE  BooksInv'
  <1>1. /\ Sound(cache, Holders(client), client, down, index, failed) /\ down \in Nat
        /\ cache.modified /\ index' = NewIndex(cache)
        /\ cache' = [cache EXCEPT !.modified = ~AllSaved(cache)]
        /\ UNCHANGED <<client, down, history>>
    BY SoundState DEF WriteIndex
  <1>2. PICK H : H = Holders(client)  OBVIOUS
  <1>3. /\ cache \in Cache /\ BooksOK(cache, down, index, failed) /\ Counted(cache.obj, H)
        /\ H \in [Obj -> SUBSET Client] /\ InTune(cache.obj, client)
        /\ HasIn(client, H) /\ client \in [Client -> HTTPData]
        /\ index \in Seq(Entry) /\ Len(index) <= down
    BY <1>1, <1>2, SoundIs, RestIs
  <1>4. PICK e : e = NewIndex(cache)  OBVIOUS
  <1>5. e \in Seq(Entry) /\ Len(e) <= down  BY <1>1, <1>3, <1>4, NewIndexIs
  <1>6. \A i \in Id : (\E k \in DOMAIN e : e[k].id = i) <=> \E o \in Kin(cache.obj) : cache.obj[o].id = i
    <2>1. \A i \in Id : (\E k \in DOMAIN NewIndex(cache) : NewIndex(cache)[k].id = i) <=>
                           \E o \in Kin(cache.obj) : cache.obj[o].id = i
      BY <1>1, <1>3, NewIndexIs
    <2> QED BY <1>4, <2>1
  <1>7. PICK m \in BOOLEAN : m = ~AllSaved(cache)  OBVIOUS
  <1>8. PICK d : d = [cache EXCEPT !.modified = m]  OBVIOUS
  <1>9. /\ d \in Cache /\ d.obj = cache.obj /\ d.hash = cache.hash /\ d.lru = cache.lru
        /\ d.size = cache.size /\ d.modified = m
    BY <1>3, <1>8 DEF Cache
  <1>10. ASSUME ~m
         PROVE  \A o \in Obj : cache.obj[o].id # None => ~cache.obj[o].deleted
    <2>1. Len(Indexed(cache)) = Len(cache.lru)  BY <1>7, <1>10 DEF AllSaved
    <2>2. /\ Cardinality(Kin(cache.obj)) = Cardinality(Held(cache.obj))
          /\ Kin(cache.obj) \subseteq Held(cache.obj)
      BY <1>1, <1>3, <2>1, IndexedIs
    <2>3. IsFiniteSet(Held(cache.obj))  BY ObjFinite DEF Held
    <2>4. Kin(cache.obj) = Held(cache.obj)  BY <2>2, <2>3, FS_Subset
    <2> QED BY <2>4 DEF Kin, Held
  <1>11. Current(d.obj, d.modified, e, failed)
    <2>1. SUFFICES ASSUME ~m
                   PROVE  /\ \A i \in Id : (\E k \in DOMAIN e : e[k].id = i) <=>
                                              \E o \in Obj : cache.obj[o].id = i
                          /\ \A o \in Obj : ~cache.obj[o].deleted
      BY <1>9 DEF Current
    <2>2. \A o \in Obj : ~cache.obj[o].deleted
      BY <1>3, <1>10, <2>1 DEF Counted
    <2>3. \A i \in Id, o \in Obj : cache.obj[o].id = i <=> o \in Kin(cache.obj) /\ cache.obj[o].id = i
      BY <2>2, NoObjects DEF Kin
    <2>4. \A o \in Kin(cache.obj) : o \in Obj  BY DEF Kin
    <2> QED BY <1>6, <2>2, <2>3, <2>4
  <1>12. BooksOK(d, down, e, failed)  BY <1>3, <1>9, <1>11 DEF BooksOK
  <1>13. Sound(d, H, client, down, e, failed)  BY <1>3, <1>9, <1>12 DEF Sound, Valid
  <1>14. cache' = d /\ index' = e  BY <1>1, <1>4, <1>7, <1>8
  <1>15. UNCHANGED <<client, down, length, events, failed, torn, forked, cut>>
    BY <1>1 DEF history
  <1>16. Sound(cache', Holders(client'), client', down', index', failed')
    BY <1>2, <1>13, <1>14, <1>15
  <1> QED BY <1>5, <1>14, <1>15, <1>16, RestIs, StepBooks

\* No client has anything.
Nobody == [o \in Obj |-> {}]

\* What a daemon loads.
LEMMA LoadedSound ==
  ASSUME NEW c \in Cache, NEW n \in Nat, n <= MaxDownloads, NEW e \in Seq(Entry), Len(e) <= n,
         NEW Q, Q = [u \in Client |-> NoClient]
  PROVE  Sound(LoadIndex(c, e), Holders(Q), Q, n, e, FALSE)
  <1>1. PICK d : d = LoadIndex(c, e)  OBVIOUS
  <1>2. Valid(d, Nobody, n, e, FALSE)  BY <1>1, LoadIndexOK DEF Nobody
  <1>3. \A o \in Obj : d.obj[o].lis = {}
    <2>1. \A o \in Obj : LoadIndex(c, e).obj[o] = Loaded(e, o) /\ Shut(Loaded(e, o))
      BY LoadIndexOK
    <2> QED BY <1>1, <2>1 DEF Shut
  <1>4. Q \in [Client -> HTTPData] /\ \A u \in Client : Q[u] = NoClient  BY NoClientIs
  <1>5. \A u \in Client : Attuned(d.obj, NoClient, u)  BY <1>3, NoClientIs
  <1>6. Holders(Q) = Nobody  BY <1>4, NoClientIs, NoObjects DEF Holders, Nobody
  <1>7. HasIn(Q, Nobody)  BY <1>4, NoClientIs, NoObjects DEF HasIn
  <1> QED BY <1>1, <1>2, <1>4, <1>5, <1>6, <1>7 DEF Sound, InTune

\* The books of what Cleanup() leaves, and the index that is written then.
LEMMA CleanedUp ==
  ASSUME BooksInv
  PROVE  /\ Cleanup(cache) \in Cache
         /\ Cleanup(cache).modified = cache.modified
         /\ NewIndex(Cleanup(cache)) \in Seq(Entry) /\ Len(NewIndex(Cleanup(cache))) <= down
         /\ ~cache.modified => NewIndex(Cleanup(cache)) = index
  <1>1. Sound(cache, Holders(client), client, down, index, failed) /\ down \in Nat
    BY SoundState
  <1>2. PICK H : H = Holders(client)  OBVIOUS
  <1>3. Valid(cache, H, down, index, failed)  BY <1>1, <1>2, SoundIs
  <1>4. PICK c : c = Cleanup(cache)  OBVIOUS
  <1>5. Valid(c, [o \in Obj |-> {}], down, index, failed) /\ c.modified = cache.modified
    <2>1. Valid(Cleanup(cache), [o \in Obj |-> {}], down, index, failed)
      BY <1>1, <1>2, <1>3, CleanupOK
    <2>2. Cleanup(cache).modified = cache.modified  BY <1>1, <1>2, <1>3, CleanupOK
    <2> QED BY <1>4, <2>1, <2>2
  <1>6. BooksOK(c, down, index, failed) /\ c \in Cache  BY <1>5 DEF Valid, BooksOK
  <1>7. index \in Seq(Entry) /\ Len(index) <= down  BY RestIs
  <1>8. /\ NewIndex(c) \in Seq(Entry) /\ Len(NewIndex(c)) <= down
        /\ ~c.modified => NewIndex(c) = index
    BY <1>1, <1>6, <1>7, NewIndexIs
  <1> QED BY <1>4, <1>5, <1>6, <1>8

\* A part of an index.
LEMMA Shorter ==
  ASSUME NEW e \in Seq(Entry), NEW k \in 0..Len(e)
  PROVE  /\ SubSeq(e, 1, k) \in Seq(Entry) /\ Len(SubSeq(e, 1, k)) = k /\ k <= Len(e)
         /\ \A j \in DOMAIN SubSeq(e, 1, k) :
              j \in DOMAIN e /\ SubSeq(e, 1, k)[j] = e[j]
  <1>1. k \in Nat /\ k <= Len(e) /\ Len(e) \in Nat /\ DOMAIN e = 1..Len(e)  BY LenProperties
  <1>2. \A j \in 1..k : e[j] \in Entry  BY <1>1
  <1>3. SubSeq(e, 1, k) = [j \in 1..k |-> e[j]]  BY <1>1
  <1>4. SubSeq(e, 1, k) \in Seq(Entry)  BY <1>1, <1>2, <1>3, SeqDef
  <1>5. Len(SubSeq(e, 1, k)) = k  BY <1>1, <1>3
  <1> QED BY <1>1, <1>3, <1>4, <1>5

\* What the next daemon finds: of some objects an index, or the first part of it.
Found(c, e) ==
  \/ e = NewIndex(c)
  \/ \E k \in 0..Len(NewIndex(c)) : e = SubSeq(NewIndex(c), 1, k)

LEMMA RestartFinds ==
  ASSUME Restart
  PROVE  \/ index' = index /\ cache' = LoadIndex(cache, index)
         \/ Found(cache, index') /\ cache' = LoadIndex(cache, index')
         \/ Found(Cleanup(cache), index') /\ cache' = LoadIndex(Cleanup(cache), index')
  <1>1. CASE IndexCut(cache)
    <2>1. Found(cache, index') /\ cache' = LoadIndex(cache, index')
      BY <1>1, Zenon DEF IndexCut, Found
    <2> QED BY <2>1
  <1>2. CASE IndexCut(Cleanup(cache))
    <2>1. Found(Cleanup(cache), index') /\ cache' = LoadIndex(Cleanup(cache), index')
      BY <1>2, Zenon DEF IndexCut, Found
    <2> QED BY <2>1
  <1>3. CASE index' = NewIndex(Cleanup(cache)) /\ cache' = LoadIndex(Cleanup(cache), index')
    <2>1. Found(Cleanup(cache), index')  BY <1>3 DEF Found
    <2> QED BY <1>3, <2>1
  <1>4. CASE UNCHANGED index /\ cache' = LoadIndex(cache, index)
    BY <1>4
  <1> QED BY <1>1, <1>2, <1>3, <1>4, Zenon DEF Restart

\* Such a part is no longer than the index, and has what the index has.
LEMMA FoundIs ==
  ASSUME NEW c, NEW n \in Nat, NEW e, NewIndex(c) \in Seq(Entry), Len(NewIndex(c)) <= n,
         Found(c, e)
  PROVE  /\ e \in Seq(Entry) /\ Len(e) <= n
         /\ \A j \in DOMAIN e : j \in DOMAIN NewIndex(c) /\ e[j] = NewIndex(c)[j]
  <1>1. CASE e = NewIndex(c)
    BY <1>1
  <1>2. ASSUME NEW k \in 0..Len(NewIndex(c)), e = SubSeq(NewIndex(c), 1, k)
        PROVE  /\ e \in Seq(Entry) /\ Len(e) <= n
               /\ \A j \in DOMAIN e : j \in DOMAIN NewIndex(c) /\ e[j] = NewIndex(c)[j]
    <2>1. PICK f : f = NewIndex(c)  OBVIOUS
    <2>2. f \in Seq(Entry) /\ Len(f) <= n /\ k \in 0..Len(f)  BY <1>2, <2>1
    <2>3. /\ SubSeq(f, 1, k) \in Seq(Entry) /\ Len(SubSeq(f, 1, k)) = k /\ k <= Len(f)
          /\ \A j \in DOMAIN SubSeq(f, 1, k) : j \in DOMAIN f /\ SubSeq(f, 1, k)[j] = f[j]
      BY <2>2, Shorter
    <2>4. Len(f) \in Nat  BY <2>2, LenProperties
    <2>5. k <= n  BY <2>2, <2>3, <2>4
    <2> QED BY <1>2, <2>1, <2>3, <2>5
  <1> QED BY <1>1, <1>2 DEF Found

\* The daemon ends, and another starts.
LEMMA RestartBooks ==
  ASSUME BooksInv, Restart
  PROVE  BooksInv'
  <1>1. /\ Sound(cache, Holders(client), client, down, index, failed) /\ down \in Nat
        /\ down <= MaxDownloads /\ cache \in Cache
    BY SoundState, SoundIs
  <1>2. PICK Q : Q = [u \in Client |-> NoClient]  OBVIOUS
  <1>3. PICK e : /\ index' = e /\ e \in Seq(Entry) /\ Len(e) <= down
                 /\ \E c \in Cache : cache' = LoadIndex(c, e)
    <2>1. CASE Found(Cleanup(cache), index') /\ cache' = LoadIndex(Cleanup(cache), index')
      <3>1. index' \in Seq(Entry) /\ Len(index') <= down
        BY <1>1, <2>1, CleanedUp, FoundIs
      <3> QED BY <2>1, <3>1, CleanedUp
    <2>2. CASE index' = index /\ cache' = LoadIndex(cache, index)
      <3>1. index \in Seq(Entry) /\ Len(index) <= down  BY RestIs
      <3> QED BY <1>1, <2>2, <3>1
    <2>3. CASE Found(cache, index') /\ cache' = LoadIndex(cache, index')
      <3>1. index \in Seq(Entry) /\ Len(index) <= down  BY RestIs
      <3>2. BooksOK(cache, down, index, failed)  BY <1>1, SoundIs
      <3>3. NewIndex(cache) \in Seq(Entry) /\ Len(NewIndex(cache)) <= down
        BY <1>1, <3>1, <3>2, NewIndexIs
      <3>4. index' \in Seq(Entry) /\ Len(index') <= down
        BY <1>1, <2>3, <3>3, FoundIs
      <3> QED BY <1>1, <2>3, <3>4
    <2> QED BY <2>1, <2>2, <2>3, RestartFinds
  <1>4. PICK c \in Cache : cache' = LoadIndex(c, e)  BY <1>3
  <1>5. Sound(LoadIndex(c, e), Holders(Q), Q, down, e, FALSE)
    BY <1>1, <1>2, <1>3, LoadedSound
  <1>6. /\ client' = Q /\ failed' = FALSE
        /\ events < MaxEvents /\ events' = events + 1
        /\ torn' = torn \cup Unfinished
        /\ UNCHANGED <<down, length, forked, cut>>
    BY <1>2 DEF Restart
  <1>7. torn' \in SUBSET Id  BY <1>6, RestIs DEF Unfinished
  <1>8. events' \in 0..MaxEvents  BY <1>6, RestIs, HttpCacheAssumption
  <1>9. Sound(cache', Holders(client'), client', down', index', failed')
    BY <1>3, <1>4, <1>5, <1>6
  <1> QED BY <1>3, <1>6, <1>7, <1>8, <1>9, RestIs, StepBooks

\* What a fork leaves of an object: it is in another place of its file, perhaps.
Alike(x, y) ==
  /\ y.id = x.id /\ y.ref = x.ref /\ y.size = x.size /\ y.deleted = x.deleted
  /\ y.tag = x.tag /\ y.fd = x.fd /\ y.avail = x.avail /\ y.reading = x.reading
  /\ y.quiet = x.quiet /\ y.out = x.out /\ y.lis = x.lis
  /\ x.off # y.off => x.tag # 0

\* The books do not see it.
LEMMA AlikeSound ==
  ASSUME NEW c, NEW H, NEW R, NEW n \in Nat, NEW ind, NEW bad, Sound(c, H, R, n, ind, bad),
         NEW d \in Cache, \A o \in Obj : Alike(c.obj[o], d.obj[o]), d.hash = c.hash,
         d.lru = c.lru, d.size = c.size, d.modified = c.modified
  PROVE  Sound(d, H, R, n, ind, bad)
  <1>1. /\ BooksOK(c, n, ind, bad) /\ H \in [Obj -> SUBSET Client] /\ Counted(c.obj, H)
        /\ R \in [Client -> HTTPData] /\ InTune(c.obj, R) /\ HasIn(R, H)
        /\ AllFormed(c.obj)
    BY SoundIs
  <1>2. \A o \in Obj : /\ d.obj[o].id = c.obj[o].id /\ d.obj[o].ref = c.obj[o].ref
                       /\ d.obj[o].size = c.obj[o].size /\ d.obj[o].deleted = c.obj[o].deleted
                       /\ d.obj[o].fd = c.obj[o].fd /\ d.obj[o].lis = c.obj[o].lis
                       /\ d.obj[o].reading = c.obj[o].reading /\ d.obj[o].avail = c.obj[o].avail
    BY DEF Alike
  <1>3. AllFormed(d.obj)
    <2>1. ASSUME NEW o \in Obj
          PROVE  Formed(d.obj[o])
      <3>1. Formed(c.obj[o]) /\ Alike(c.obj[o], d.obj[o])  BY <1>1 DEF AllFormed
      <3> QED BY <3>1 DEF Formed, Alike, Shut
    <2> QED BY <2>1 DEF AllFormed
  <1>4. Hashed(d.obj, d.hash, bad)  BY <1>1, <1>2 DEF BooksOK, Hashed
  <1>5. Held(d.obj) = Held(c.obj) /\ Kin(d.obj) = Kin(c.obj)  BY <1>2 DEF Held, Kin
  <1>6. Listed(d.obj, d.lru, n)  BY <1>1, <1>2, <1>5 DEF BooksOK, Listed
  <1>7. [o \in Obj |-> d.obj[o].size] = [o \in Obj |-> c.obj[o].size]  BY <1>2
  <1>8. Counts(d.obj) = Counts(c.obj)  BY <1>5, <1>7 DEF Counts
  <1>9. Sized(d.obj, d.size, bad)  BY <1>1, <1>8 DEF BooksOK, Sized
  <1>10. Current(d.obj, d.modified, ind, bad)  BY <1>1, <1>2 DEF BooksOK, Current
  <1>11. BooksOK(d, n, ind, bad)  BY <1>3, <1>4, <1>6, <1>9, <1>10 DEF BooksOK
  <1>12. Counted(d.obj, H)  BY <1>1, <1>2 DEF Counted
  <1>13. ASSUME NEW v \in Client
         PROVE  Attuned(d.obj, R[v], v)
    <2>1. PICK r : r = R[v]  OBVIOUS
    <2>2. Attuned(c.obj, r, v) /\ r.obj \in Obj \cup {None}  BY <2>1, RecordIs
    <2>3. Receiving(r) => r.obj \in Obj  BY <2>2 DEF Attuned
    <2>4. Attuned(d.obj, r, v)  BY <1>2, <2>2, <2>3, AttunedKept
    <2> QED BY <2>1, <2>4
  <1> QED BY <1>1, <1>11, <1>12, <1>13 DEF Sound, Valid, InTune

\* Another part of the daemon forks.
LEMMA ForkBooks ==
  ASSUME BooksInv, Fork
  PROVE  BooksInv'
  <1>1. /\ Sound(cache, Holders(client), client, down, index, failed) /\ down \in Nat
        /\ cache \in Cache /\ cache.obj \in [Obj -> CacheObj]
    BY SoundState, SoundIs
  <1>2. PICK s : s = Cleanup(cache).disk  OBVIOUS
  <1>3. s \in [Download -> Content]  BY <1>2, CleanedUp DEF Cache
  <1>4. PICK e : e = NewIndex(Cleanup(cache))  OBVIOUS
  <1>5. e \in Seq(Entry) /\ Len(e) <= down /\ (~cache.modified => e = index)
    BY <1>4, CleanedUp
  <1>6. PICK f : f = [o \in Obj |->
                        IF ~Pending(o) THEN cache.obj[o]
                        ELSE [cache.obj[o] EXCEPT
                                !.off = @ + cache.obj[o].size - cache.obj[o].out]]
    BY Zenon
  <1>7. /\ events < MaxEvents /\ events' = events + 1 /\ index' = e
        /\ cache' = [cache EXCEPT !.disk = s, !.obj = f]
        /\ forked' = forked \cup {i \in Id : \E o \in Obj : cache.obj[o].id = i /\ Pending(o)}
        /\ UNCHANGED <<client, down, length, failed, torn, cut>>
    <2>1. cache' = [cache EXCEPT !.disk = Cleanup(cache).disk, !.obj = f]
      BY <1>6, Zenon DEF Fork
    <2>2. index' = NewIndex(Cleanup(cache))  BY Zenon DEF Fork
    <2>3. /\ events < MaxEvents /\ events' = events + 1
          /\ forked' = forked \cup {i \in Id : \E o \in Obj : cache.obj[o].id = i /\ Pending(o)}
          /\ UNCHANGED <<client, down, length, failed, torn, cut>>
      BY Zenon DEF Fork
    <2> QED BY <1>2, <1>4, <2>1, <2>2, <2>3
  <1>8. ASSUME NEW o \in Obj
        PROVE  f[o] \in CacheObj /\ Alike(cache.obj[o], f[o])
    <2>1. PICK x \in CacheObj : x = cache.obj[o]  BY <1>1
    <2>2. CASE Pending(o)
      <3>1. f[o] = [x EXCEPT !.off = @ + x.size - x.out]  BY <1>6, <2>1, <2>2
      <3>2. x.tag # 0 /\ x.out < x.size  BY <2>1, <2>2 DEF Pending
      <3>3. x.off + x.size - x.out \in Nat  BY <3>2 DEF CacheObj
      <3> QED BY <2>1, <3>1, <3>2, <3>3 DEF Alike, CacheObj
    <2>3. CASE ~Pending(o)
      <3>1. f[o] = x  BY <1>6, <2>1, <2>3
      <3> QED BY <2>1, <3>1 DEF Alike
    <2> QED BY <2>2, <2>3
  <1>9. PICK d : d = [cache EXCEPT !.disk = s, !.obj = f]  OBVIOUS
  <1>10. f \in [Obj -> CacheObj]  BY <1>6, <1>8
  <1>11. /\ d \in Cache /\ d.obj = f /\ d.hash = cache.hash /\ d.lru = cache.lru
         /\ d.size = cache.size /\ d.modified = cache.modified
    BY <1>1, <1>3, <1>9, <1>10 DEF Cache
  <1>12. \A o \in Obj : Alike(cache.obj[o], d.obj[o])  BY <1>8, <1>11
  <1>13. Sound(d, Holders(client), client, down, index, failed)
    BY <1>1, <1>11, <1>12, AlikeSound
  <1>14. Sound(d, Holders(client), client, down, e, failed)
    <2>1. Current(d.obj, d.modified, e, failed)
      <3>1. Current(d.obj, d.modified, index, failed)  BY <1>13, SoundIs DEF BooksOK
      <3> QED BY <1>5, <1>11, <3>1 DEF Current
    <2> QED BY <1>13, <2>1 DEF Sound, Valid, BooksOK
  <1>15. Sound(cache', Holders(client'), client', down', index', failed')
    BY <1>7, <1>9, <1>14
  <1>16. forked' \in SUBSET Id  BY <1>7, RestIs
  <1>17. events' \in 0..MaxEvents  BY <1>7, RestIs, HttpCacheAssumption
  <1> QED BY <1>5, <1>7, <1>15, <1>16, <1>17, RestIs, StepBooks

-----------------------------------------------------------------------------
(* The books *)

\* They agree at first.
LEMMA InitBooks ==
  ASSUME Init
  PROVE  BooksInv
  <1>1. PICK c : c = EmptyCache  OBVIOUS
  <1>2. MaxDownloads \in Nat /\ MaxEvents \in Nat  BY HttpCacheAssumption
  <1>3. /\ c.obj = [o \in Obj |-> Free] /\ c.hash = [i \in Id |-> None] /\ c.lru = <<>>
        /\ c.size = 0 /\ ~c.modified
    BY <1>1 DEF EmptyCache
  <1>4. c \in Cache
    <2>1. c.obj \in [Obj -> CacheObj]  BY <1>3, FreeIs
    <2>2. /\ <<>> \in Seq(Obj) /\ <<>> \in Content  BY EmptySeq DEF Content
    <2> QED BY <1>1, <1>2, <1>3, <2>1, <2>2 DEF Cache, EmptyCache
  <1>5. \A o \in Obj : c.obj[o] = Free  BY <1>3
  <1>6. \A o \in Obj : /\ c.obj[o].id = None /\ c.obj[o].ref = 0 /\ c.obj[o].fd = 0
                       /\ ~c.obj[o].deleted /\ c.obj[o].lis = {} /\ Formed(c.obj[o])
    BY <1>5, FreeIs DEF Free
  <1>7. Held(c.obj) = {} /\ Kin(c.obj) = {}  BY <1>6 DEF Held, Kin
  <1>8. Counts(c.obj) = 0  BY <1>7, SumIs, FS_EmptySet DEF Counts
  <1>9. Cardinality({}) = 0  BY FS_EmptySet
  <1>10. BooksOK(c, 0, <<>>, FALSE)
    <2>1. AllFormed(c.obj)  BY <1>6 DEF AllFormed
    <2>2. Hashed(c.obj, c.hash, FALSE)  BY <1>3, NoObjects DEF Hashed
    <2>3. Listed(c.obj, c.lru, 0)
      <3>1. PICK s : s = <<>>  OBVIOUS
      <3>2. DOMAIN s = {}  BY <3>1
      <3>3. Distinct(s) /\ \A o \in Obj : ~Has(s, o)  BY <3>2 DEF Distinct, Has
      <3>4. Cardinality(Held(c.obj)) = 0  BY <1>7, <1>9
      <3> QED BY <1>3, <1>6, <3>1, <3>3, <3>4 DEF Listed
    <2>4. Sized(c.obj, c.size, FALSE)  BY <1>3, <1>8 DEF Sized
    <2>5. Current(c.obj, c.modified, <<>>, FALSE)
      <3>1. PICK e : e = <<>>  OBVIOUS
      <3>2. DOMAIN e = {}  BY <3>1
      <3>3. \A i \in Id, o \in Obj : c.obj[o].id # i  BY <1>6, NoObjects
      <3>4. Current(c.obj, c.modified, e, FALSE)  BY <1>6, <3>2, <3>3 DEF Current
      <3> QED BY <3>1, <3>4
    <2> QED BY <1>4, <2>1, <2>2, <2>3, <2>4, <2>5 DEF BooksOK
  <1>11. /\ cache = c /\ client = [u \in Client |-> NoClient]
         /\ index = <<>> /\ down = 0 /\ ~failed
    BY <1>1 DEF Init
  <1>12. client \in [Client -> HTTPData] /\ \A u \in Client : client[u] = NoClient
    BY <1>11, NoClientIs
  <1>13. Holders(client) = Nobody
    BY <1>12, NoClientIs, NoObjects DEF Holders, Nobody
  <1>14. Counted(c.obj, Nobody) /\ Nobody \in [Obj -> SUBSET Client]
    BY <1>6, <1>9 DEF Counted, Nobody
  <1>15. Valid(cache, Holders(client), down, index, failed)
    <2>1. Valid(c, Nobody, 0, <<>>, FALSE)  BY <1>10, <1>14 DEF Valid
    <2>2. failed = FALSE  BY DEF Init
    <2> QED BY <1>11, <1>13, <2>1, <2>2
  <1>16. InTune(cache.obj, client)
    <2>1. \A u \in Client : Attuned(c.obj, NoClient, u)  BY <1>6, NoClientIs
    <2> QED BY <1>11, <1>12, <2>1 DEF InTune
  <1>17. index \in Seq([id : Id, size : Nat]) /\ Len(index) <= down  BY <1>11, EmptySeq
  <1>18. TypeOK
    <2>1. /\ length \in [Download -> Nat \cup {None}]
          /\ torn \in SUBSET Id /\ forked \in SUBSET Id /\ cut \in SUBSET Id /\ failed \in BOOLEAN
      BY DEF Init
    <2>3. down \in 0..MaxDownloads /\ events \in 0..MaxEvents  BY <1>2 DEF Init
    <2>2. cache \in Cache  BY <1>4, <1>11
    <2> QED BY <1>12, <1>17, <2>1, <2>2, <2>3 DEF TypeOK
  <1> QED BY <1>15, <1>16, <1>17, <1>18 DEF BooksInv

\* A step that changes nothing.
LEMMA StillBooks ==
  ASSUME BooksInv, UNCHANGED vars
  PROVE  BooksInv'
  <1>1. UNCHANGED <<cache, index, client, down, length, events, failed, torn, forked, cut>>
    BY DEF vars, history
  <1>2. Sound(cache, Holders(client), client, down, index, failed)  BY SoundState
  <1>3. Sound(cache', Holders(client'), client', down', index', failed')  BY <1>1, <1>2
  <1> QED BY <1>1, <1>3, RestIs, StepBooks

\* They always agree, whatever the clients, the timers and the processes do.
THEOREM BooksKept == Spec => []BooksInv
  <1>1. Init => BooksInv  BY InitBooks
  <1>2. BooksInv /\ [Next]_vars => BooksInv'
    <2>1. SUFFICES ASSUME BooksInv, [Next]_vars
                   PROVE  BooksInv'
      OBVIOUS
    <2>2. ASSUME NEW u \in Client, ClientSteps(u)
          PROVE  BooksInv'
      <3>1. ASSUME NEW i \in Id, Request(u, i)
            PROVE  BooksInv'
        BY <2>1, <3>1, RequestBooks
      <3>2. CASE Revalidated(u)       BY <2>1, <3>2, RevalidatedBooks
      <3>3. CASE Forward(u)           BY <2>1, <3>3, ForwardBooks
      <3>4. CASE DownloadAndCache(u)  BY <2>1, <3>4, DownloadBooks
      <3>5. CASE DownloadOnly(u)      BY <2>1, <3>5, DownloadOnlyBooks
      <3>6. CASE Chunk(u)             BY <2>1, <3>6, ChunkBooks
      <3>7. CASE BodyEnd(u)           BY <2>1, <3>7, BodyEndBooks
      <3>8. CASE BodyBad(u)           BY <2>1, <3>8, BodyBadBooks
      <3>9. CASE ClientGone(u)        BY <2>1, <3>9, GoneBooks
      <3> QED BY <2>2, <3>1, <3>2, <3>3, <3>4, <3>5, <3>6, <3>7, <3>8, <3>9 DEF ClientSteps
    <2>3. CASE PruneTimer      BY <2>1, <2>3, PruneTimerBooks
    <2>4. CASE WriteIndex      BY <2>1, <2>4, WriteIndexBooks
    <2>5. CASE Restart         BY <2>1, <2>5, RestartBooks
    <2>6. CASE Fork            BY <2>1, <2>6, ForkBooks
    <2>7. CASE UNCHANGED vars  BY <2>1, <2>7, StillBooks
    <2> QED BY <2>1, <2>2, <2>3, <2>4, <2>5, <2>6, <2>7 DEF Next
  <1> QED BY <1>1, <1>2, PTL DEF Spec

\* The clients that have an object are counted, and each that listens has what has come.
LEMMA SharedIs ==
  ASSUME BooksInv
  PROVE  SharedSound
  <1>1. /\ Sound(cache, Holders(client), client, down, index, failed)
        /\ Counted(cache.obj, Holders(client)) /\ cache.obj \in [Obj -> CacheObj]
    BY SoundState, SoundIs
  <1>2. \A o \in Obj : Users(o) = Holders(client)[o]  BY DEF Users, Holders
  <1>3. RefsAreUsers
    <2>1. ASSUME NEW u \in Client, client[u].obj # None
          PROVE  client[u].obj \in Live
      <3>1. PICK o : o = client[u].obj  OBVIOUS
      <3>2. o \in Obj  BY <1>1, <2>1, <3>1, RecordIs
      <3>3. cache.obj[o].id # None  BY <1>1, <3>1, <3>2, ListenersHave
      <3> QED BY <3>1, <3>2, <3>3 DEF Live
    <2>2. ASSUME NEW o \in Live
          PROVE  /\ cache.obj[o].ref = Cardinality(Users(o))
                 /\ Users(o) = {} => cache.obj[o].fd = 0 /\ ~cache.obj[o].deleted
      <3>1. o \in Obj  BY DEF Live
      <3> QED BY <1>1, <1>2, <3>1 DEF Counted
    <2> QED BY <2>1, <2>2 DEF RefsAreUsers
  <1>4. ListenersInStep
    <2>1. ASSUME NEW u \in Client, NEW has, has = {o \in Live : u \in cache.obj[o].lis}
          PROVE  IF client[u].state \in {"down", "body", "orphan"}
                 THEN /\ has = {client[u].obj}
                      /\ cache.obj[client[u].obj].reading
                      /\ client[u].state # "orphan" => client[u].got = cache.obj[client[u].obj].avail
                 ELSE has = {}
      <3>1. PICK r : r = client[u]  OBVIOUS
      <3>2. Attuned(cache.obj, r, u)  BY <1>1, <3>1, RecordIs
      <3>3. CASE Receiving(r)
        <4>1. r.obj \in Obj /\ u \in cache.obj[r.obj].lis  BY <3>2, <3>3 DEF Attuned
        <4>2. cache.obj[r.obj].id # None  BY <1>1, <3>1, <4>1, ListenersHave
        <4>3. r.obj \in has  BY <2>1, <4>1, <4>2 DEF Live
        <4>4. \A o \in has : o = r.obj  BY <2>1, <3>2 DEF Attuned, Live
        <4>5. has = {r.obj}  BY <4>3, <4>4
        <4> QED BY <3>1, <3>2, <3>3, <4>5 DEF Attuned, Receiving
      <3>4. CASE ~Receiving(r)
        <4>1. has = {}  BY <2>1, <3>2, <3>4 DEF Attuned, Live
        <4> QED BY <3>1, <3>4, <4>1 DEF Receiving
      <3> QED BY <3>3, <3>4
    <2> QED BY <2>1 DEF ListenersInStep
  <1>5. TypeOK  BY DEF BooksInv
  <1> QED BY <1>3, <1>4, <1>5 DEF SharedSound

\* An object that several clients use is there for each of them, as long and as far as each
\* of them needs, for any clients, resources and limits.
THEOREM SharedAlways == Spec => []SharedSound
  <1>1. BooksInv => SharedSound  BY SharedIs
  <1> QED BY <1>1, BooksKept, PTL

\* The hash, the list, the sizes and the index agree.
LEMMA BooksAre ==
  ASSUME BooksInv
  PROVE  BooksSound
  <1>1. /\ BooksOK(cache, down, index, failed) /\ down \in Nat
        /\ Counted(cache.obj, Holders(client)) /\ cache \in Cache
        /\ cache.lru \in Seq(Obj) /\ cache.hash \in [Id -> Obj \cup {None, Freed}]
    BY SoundState, SoundIs, Fields
  <1>2. Live = Held(cache.obj)  BY DEF Live, Held
  <1>3. /\ Hashed(cache.obj, cache.hash, failed) /\ Listed(cache.obj, cache.lru, down)
        /\ Sized(cache.obj, cache.size, failed)
        /\ Current(cache.obj, cache.modified, index, failed)
    BY <1>1 DEF BooksOK
  <1>4. HashSound
    <2>1. Len(cache.lru) = Cardinality(Live)  BY <1>1, <1>2, IndexedIs
    <2>2. ToSet(cache.lru) = Live
      <3>1. \A k \in DOMAIN cache.lru : cache.lru[k] \in Obj  BY <1>1
      <3>2. \A o \in Obj : o \in Live <=> Has(cache.lru, o)
        BY <1>3 DEF Live, Listed
      <3>3. \A o \in Live : o \in Obj  BY DEF Live
      <3> QED BY <3>1, <3>2, <3>3 DEF ToSet, Has
    <2>3. ASSUME NEW i \in Id, NEW o, o = cache.hash[i], o # None
          PROVE  \/ failed
                 \/ o \in Live /\ cache.obj[o].id = i /\ ~cache.obj[o].deleted
      BY <1>3, <2>3, NoObjects DEF Hashed, Live
    <2> QED BY <2>1, <2>2, <2>3 DEF HashSound
  <1>5. OnlyErrorsLeak
    <2>1. {o \in Live : ~cache.obj[o].deleted} = Kin(cache.obj)  BY DEF Live, Kin
    <2>2. Accounted = Counts(cache.obj)  BY <2>1 DEF Accounted, Counts
    <2> QED BY <1>3, <2>2 DEF OnlyErrorsLeak, SizesMatch, Sized
  <1>6. IndexCurrent
    <2>1. SUFFICES ASSUME ~cache.modified, ~failed
                   PROVE  {index[n].id : n \in DOMAIN index} = {cache.obj[o].id : o \in Live}
      BY DEF IndexCurrent
    <2>2. \A i \in Id : (\E k \in DOMAIN index : index[k].id = i) <=> \E o \in Obj : cache.obj[o].id = i
      BY <1>3, <2>1 DEF Current
    <2>3. \A k \in DOMAIN index : index[k].id \in Id
      <3>1. index \in Seq(Entry)  BY RestIs
      <3>2. \A k \in DOMAIN index : index[k] \in Entry  BY <3>1
      <3> QED BY <3>2 DEF Entry
    <2>4. \A o \in Live : cache.obj[o].id \in Id /\ o \in Obj
      BY <1>1, Fields DEF Live, CacheObj
    <2>5. \A i \in Id, o \in Obj : cache.obj[o].id = i => o \in Live
      BY NoObjects DEF Live
    <2> QED BY <2>2, <2>3, <2>4, <2>5
  <1> QED BY <1>4, <1>5, <1>6 DEF BooksSound

\* The cache's books agree, for any clients, resources and limits: the hash, the list, the
\* sizes and the index.
THEOREM BooksAlways == Spec => []BooksSound
  <1>1. BooksInv => BooksSound  BY BooksAre
  <1> QED BY <1>1, BooksKept, PTL

-----------------------------------------------------------------------------
(* The contents of objects and files *)

\* A file is of one resource, and of a download that was begun.
Owned(obj, name, n) ==
  /\ \A o \in Obj : obj[o].fd <= n
  /\ \A i \in Id : name[i] <= n
  /\ \A o, p \in Obj : obj[o].fd # 0 /\ obj[o].fd = obj[p].fd => obj[o].id = obj[p].id
  /\ \A o \in Obj, i \in Id : obj[o].fd # 0 /\ obj[o].fd = name[i] => obj[o].id = i
  /\ \A i, j \in Id : name[i] # 0 /\ name[i] = name[j] => i = j

\* Of a resource that nothing has happened to (S) there is one object that was not deleted,
\* with the file of its name, and no other has that file.
Apart(obj, name, S) ==
  \A o \in Obj :
    obj[o].id \in S =>
      /\ \A p \in Obj :
           obj[p].id = obj[o].id /\ p # o =>
             /\ obj[o].deleted \/ obj[p].deleted
             /\ obj[o].fd # 0 => obj[o].fd # obj[p].fd
      /\ obj[o].fd # 0 => (obj[o].deleted <=> name[obj[o].id] # obj[o].fd)

\* A download writes one object; its length is known when it has ended.
Tagged(obj, n, len) ==
  /\ \A o \in Obj : obj[o].tag <= n
  /\ \A o, p \in Obj : obj[o].tag # 0 /\ obj[o].tag = obj[p].tag => o = p
  /\ \A o \in Obj : obj[o].reading => len[obj[o].tag] = None
  /\ \A d \in Download : d > n => len[d] = None

\* n pieces of download d.
Pieces(n, d) == [k \in 1..n |-> d]

\* The whole of a download.
WholeOf(b, len) == \E d \in Download : len[d] # None /\ b = Pieces(len[d], d)

\* The object x is being written, or was: it has in memory and on disk, from the first piece
\* on, what has come of its download.
Filled(x, disk, len) ==
  /\ x.avail = Pieces(x.size, x.tag)
  /\ x.out <= x.size
  /\ x.off = x.out
  /\ disk[x.fd] = Pieces(x.out, x.tag)
  /\ x.reading \/ len[x.tag] = x.size

\* Of such a resource the object that was not deleted is whole, unless it is being written.
Contents(obj, disk, S, len) ==
  \A o \in Obj :
    obj[o].id \in S /\ ~obj[o].deleted =>
      /\ obj[o].tag # 0 => Filled(obj[o], disk, len)
      /\ obj[o].tag = 0 /\ obj[o].fd # 0 => WholeOf(obj[o].avail, len)

\* And so is its file.
Files(obj, name, disk, S, len) ==
  \A i \in S :
    \/ name[i] = 0
    \/ WholeOf(disk[name[i]], len)
    \/ \E o \in Obj : obj[o].id = i /\ ~obj[o].deleted /\ obj[o].tag # 0

\* What is in the objects and files.
FilesAre(obj, name, disk, n, S, len) ==
  /\ Owned(obj, name, n)
  /\ Apart(obj, name, S)
  /\ Tagged(obj, n, len)
  /\ Contents(obj, disk, S, len)
  /\ Files(obj, name, disk, S, len)

FilesOK(c, n, S, len) == FilesAre(c.obj, c.name, c.disk, n, S, len)

\* Of such a resource there is one entry in the index.
Entries(ind, S) ==
  \A j, k \in DOMAIN ind : ind[j].id = ind[k].id /\ ind[j].id \in S => j = k

\* Somebody receives what is received of such a resource.
Received(obj, cl, S) ==
  \A o \in Obj :
    obj[o].reading /\ obj[o].id \in S =>
      \E u \in Client : cl[u].state \in {"down", "orphan"} /\ cl[u].obj = o

\* What is received in b was received in a, and is of the same resource.
ReadsNoMore(a, b) == \A o \in Obj : b[o].reading => a[o].reading /\ b[o].id = a[o].id

\* The resources that nothing has happened to.
Clean == Id \ (torn \cup forked)

FilesInv ==
  /\ FilesOK(cache, down, Clean, length)
  /\ Entries(index, Clean)
  /\ Received(cache.obj, client, Clean)
  /\ cut \subseteq forked

\* Only the object o of a is another one in b.
Only(a, b, o) == \A p \in Obj \ {o} : b[p] = a[p]

\* The fields of an object.
LEMMA ObjFields ==
  ASSUME NEW x \in CacheObj
  PROVE  /\ x.id \in Id \cup {None} /\ x.ref \in Nat /\ x.size \in Nat
         /\ x.deleted \in BOOLEAN /\ x.tag \in 0..MaxDownloads /\ x.fd \in 0..MaxDownloads
         /\ x.avail \in Content /\ x.reading \in BOOLEAN /\ x.quiet \in BOOLEAN
         /\ x.out \in Nat /\ x.off \in Nat /\ x.lis \in SUBSET Client
  BY DEF CacheObj

\* What concerns fewer resources is true of them.
LEMMA FilesFewer ==
  ASSUME NEW obj, NEW name, NEW disk, NEW n, NEW S, NEW len,
         FilesAre(obj, name, disk, n, S, len), NEW T, T \subseteq S
  PROVE  FilesAre(obj, name, disk, n, T, len)
  BY DEF FilesAre, Apart, Contents, Files

\* Two objects that have the same in memory and on disk.
View(x, y) ==
  /\ y.id = x.id /\ y.deleted = x.deleted /\ y.fd = x.fd /\ y.tag = x.tag
  /\ y.reading = x.reading /\ y.avail = x.avail /\ y.size = x.size
  /\ y.out = x.out /\ y.off = x.off

\* Who has an object or listens to it does not matter.
LEMMA FilesSame ==
  ASSUME NEW a, NEW b, NEW name, NEW disk, NEW n, NEW S, NEW len,
         FilesAre(a, name, disk, n, S, len), \A o \in Obj : View(a[o], b[o])
  PROVE  FilesAre(b, name, disk, n, S, len)
  <1>1. Owned(b, name, n)  BY DEF FilesAre, Owned, View
  <1>2. Apart(b, name, S)  BY DEF FilesAre, Apart, View
  <1>3. Tagged(b, n, len)  BY DEF FilesAre, Tagged, View
  <1>4. Contents(b, disk, S, len)  BY DEF FilesAre, Contents, Filled, View
  <1>5. Files(b, name, disk, S, len)  BY DEF FilesAre, Files, View
  <1> QED BY <1>1, <1>2, <1>3, <1>4, <1>5 DEF FilesAre

\* An object that was deleted, or of a resource that something has happened to, may have
\* anything in it, in the same file.
LEMMA FilesElsewhere ==
  ASSUME NEW a, NEW b, NEW name, NEW disk, NEW n, NEW S, NEW len,
         FilesAre(a, name, disk, n, S, len), NEW o \in Obj, Only(a, b, o),
         b[o].id = a[o].id, b[o].fd = a[o].fd, b[o].tag = a[o].tag,
         b[o].reading => a[o].reading,
         a[o].id \notin S \/ (a[o].deleted /\ b[o].deleted)
  PROVE  FilesAre(b, name, disk, n, S, len)
  <1>1. \A p \in Obj : p # o => b[p] = a[p]  BY DEF Only
  <1>2. /\ \A p \in Obj : b[p].id = a[p].id /\ b[p].fd = a[p].fd /\ b[p].tag = a[p].tag
        /\ \A p \in Obj : b[p].reading => a[p].reading
        /\ \A p \in Obj : b[p].id \in S => (b[p].deleted <=> a[p].deleted)
    BY <1>1
  <1>3. Owned(b, name, n)  BY <1>2 DEF FilesAre, Owned
  <1>4. Apart(b, name, S)  BY <1>2 DEF FilesAre, Apart
  <1>5. Tagged(b, n, len)  BY <1>2 DEF FilesAre, Tagged
  <1>6. Contents(b, disk, S, len)  BY <1>1 DEF FilesAre, Contents
  <1>7. Files(b, name, disk, S, len)  BY <1>2 DEF FilesAre, Files
  <1> QED BY <1>3, <1>4, <1>5, <1>6, <1>7 DEF FilesAre

\* An object is deleted, with its name.
LEMMA FilesDeleted ==
  ASSUME NEW a, NEW b, NEW name, NEW disk, NEW n \in Nat, NEW S, NEW len,
         name \in [Id -> 0..MaxDownloads], S \subseteq Id,
         FilesAre(a, name, disk, n, S, len), NEW o \in Obj, Only(a, b, o),
         b[o].id = a[o].id, b[o].fd = a[o].fd, b[o].tag = a[o].tag,
         b[o].reading => a[o].reading, ~a[o].deleted, b[o].deleted, a[o].id \in Id,
         NEW to, to = [name EXCEPT ![a[o].id] = 0]
  PROVE  FilesAre(b, to, disk, n, S, len)
  <1>1. \A p \in Obj : p # o => b[p] = a[p]  BY DEF Only
  <1>2. /\ \A p \in Obj : b[p].id = a[p].id /\ b[p].fd = a[p].fd /\ b[p].tag = a[p].tag
        /\ \A p \in Obj : b[p].reading => a[p].reading
        /\ \A p \in Obj : a[p].deleted => b[p].deleted
    BY <1>1
  <1>3. to[a[o].id] = 0 /\ \A i \in Id : i # a[o].id => to[i] = name[i]  OBVIOUS
  <1>4. Owned(b, to, n)
    <2>1. \A i \in Id : to[i] # 0 => to[i] = name[i]  BY <1>3
    <2>2. \A i \in Id : to[i] <= n  BY <1>3 DEF FilesAre, Owned
    <2> QED BY <1>2, <2>1, <2>2 DEF FilesAre, Owned
  <1>5. Apart(b, to, S)
    <2> SUFFICES ASSUME NEW q \in Obj, b[q].id \in S
                 PROVE  /\ \A p \in Obj :
                             b[p].id = b[q].id /\ p # q =>
                               /\ b[q].deleted \/ b[p].deleted
                               /\ b[q].fd # 0 => b[q].fd # b[p].fd
                        /\ b[q].fd # 0 => (b[q].deleted <=> to[b[q].id] # b[q].fd)
      BY DEF Apart
    <2>1. \A p \in Obj :
            b[p].id = b[q].id /\ p # q =>
              /\ b[q].deleted \/ b[p].deleted
              /\ b[q].fd # 0 => b[q].fd # b[p].fd
      BY <1>2 DEF FilesAre, Apart
    <2>2. CASE b[q].id = a[o].id
      <3>1. b[q].deleted  BY <1>2, <2>2 DEF FilesAre, Apart
      <3> QED BY <1>3, <2>1, <2>2, <3>1
    <2>3. CASE b[q].id # a[o].id
      <3>1. q # o /\ b[q] = a[q] /\ to[b[q].id] = name[b[q].id]  BY <1>1, <1>2, <1>3, <2>3
      <3> QED BY <2>1, <3>1 DEF FilesAre, Apart
    <2> QED BY <2>2, <2>3
  <1>6. Tagged(b, n, len)  BY <1>2 DEF FilesAre, Tagged
  <1>7. Contents(b, disk, S, len)  BY <1>1 DEF FilesAre, Contents
  <1>8. Files(b, to, disk, S, len)
    <2> SUFFICES ASSUME NEW i \in S, to[i] # 0, ~WholeOf(disk[to[i]], len)
                 PROVE  \E p \in Obj : b[p].id = i /\ ~b[p].deleted /\ b[p].tag # 0
      BY DEF Files
    <2>1. i \in Id /\ i # a[o].id /\ to[i] = name[i]  BY <1>3
    <2>2. PICK p \in Obj : a[p].id = i /\ ~a[p].deleted /\ a[p].tag # 0
      BY <2>1 DEF FilesAre, Files
    <2>3. b[p] = a[p]  BY <1>1, <2>1, <2>2
    <2> QED BY <2>2, <2>3
  <1> QED BY <1>4, <1>5, <1>6, <1>7, <1>8 DEF FilesAre

\* A deleted object is destroyed.
LEMMA FilesFreed ==
  ASSUME NEW a, NEW b, NEW name, NEW disk, NEW n \in Nat, NEW S, NEW len, S \subseteq Id,
         FilesAre(a, name, disk, n, S, len), NEW o \in Obj, Only(a, b, o),
         b[o] = Free, a[o].deleted
  PROVE  FilesAre(b, name, disk, n, S, len)
  <1>1. \A p \in Obj : p # o => b[p] = a[p]  BY DEF Only
  <1>2. b[o].id \notin S /\ b[o].fd = 0 /\ b[o].tag = 0 /\ ~b[o].reading
    BY NoObjects DEF Free
  <1>3. Owned(b, name, n)
    <2>1. \A p \in Obj : b[p].fd # 0 => p # o /\ b[p] = a[p]  BY <1>1, <1>2
    <2>2. \A p \in Obj : b[p].fd <= n  BY <1>1, <1>2 DEF FilesAre, Owned
    <2> QED BY <2>1, <2>2 DEF FilesAre, Owned
  <1>4. Apart(b, name, S)
    <2>1. \A p \in Obj : b[p].id \in S => b[p] = a[p]  BY <1>1, <1>2
    <2> QED BY <2>1 DEF FilesAre, Apart
  <1>5. Tagged(b, n, len)
    <2>1. \A p \in Obj : b[p].tag # 0 => p # o /\ b[p] = a[p]  BY <1>1, <1>2
    <2>2. \A p \in Obj : b[p].tag <= n  BY <1>1, <1>2 DEF FilesAre, Tagged
    <2>3. \A p \in Obj : b[p].reading => b[p] = a[p]  BY <1>1, <1>2
    <2> QED BY <2>1, <2>2, <2>3 DEF FilesAre, Tagged
  <1>6. Contents(b, disk, S, len)  BY <1>1, <1>2 DEF FilesAre, Contents
  <1>7. Files(b, name, disk, S, len)
    <2>1. \A p \in Obj : ~a[p].deleted => b[p] = a[p]  BY <1>1
    <2> QED BY <2>1 DEF FilesAre, Files
  <1> QED BY <1>3, <1>4, <1>5, <1>6, <1>7 DEF FilesAre

\* The file of an object is closed, when it has what it should have.
LEMMA FilesClosed ==
  ASSUME NEW a, NEW b, NEW name, NEW disk, NEW n \in Nat, NEW S, NEW len, S \subseteq Id,
         FilesAre(a, name, disk, n, S, len), NEW o \in Obj, Only(a, b, o),
         b[o].id = a[o].id, b[o].deleted = a[o].deleted, b[o].fd = 0, b[o].tag = 0,
         ~b[o].reading,
         a[o].id \in S /\ ~a[o].deleted /\ a[o].tag # 0 =>
           a[o].fd # 0 /\ WholeOf(disk[a[o].fd], len)
  PROVE  FilesAre(b, name, disk, n, S, len)
  <1>1. \A p \in Obj : p # o => b[p] = a[p]  BY DEF Only
  <1>2. \A p \in Obj : b[p].id = a[p].id /\ (b[p].deleted <=> a[p].deleted)  BY <1>1
  <1>3. \A p \in Obj : b[p].fd # 0 => p # o /\ b[p] = a[p]  BY <1>1
  <1>4. Owned(b, name, n)
    <2>1. \A p \in Obj : b[p].fd <= n  BY <1>1 DEF FilesAre, Owned
    <2> QED BY <1>3, <2>1 DEF FilesAre, Owned
  <1>5. Apart(b, name, S)
    <2> SUFFICES ASSUME NEW q \in Obj, b[q].id \in S
                 PROVE  /\ \A p \in Obj :
                             b[p].id = b[q].id /\ p # q =>
                               /\ b[q].deleted \/ b[p].deleted
                               /\ b[q].fd # 0 => b[q].fd # b[p].fd
                        /\ b[q].fd # 0 => (b[q].deleted <=> name[b[q].id] # b[q].fd)
      BY DEF Apart
    <2>1. \A p \in Obj : b[p].id = b[q].id /\ p # q => b[q].deleted \/ b[p].deleted
      BY <1>2 DEF FilesAre, Apart
    <2>2. \A p \in Obj : b[p].id = b[q].id /\ p # q /\ b[q].fd # 0 => b[q].fd # b[p].fd
      BY <1>2, <1>3 DEF FilesAre, Apart
    <2>3. b[q].fd # 0 => (b[q].deleted <=> name[b[q].id] # b[q].fd)
      BY <1>3 DEF FilesAre, Apart
    <2> QED BY <2>1, <2>2, <2>3
  <1>6. Tagged(b, n, len)
    <2>1. \A p \in Obj : b[p].tag # 0 => p # o /\ b[p] = a[p]  BY <1>1
    <2>2. \A p \in Obj : b[p].tag <= n  BY <1>1 DEF FilesAre, Tagged
    <2>3. \A p \in Obj : b[p].reading => b[p] = a[p]  BY <1>1
    <2> QED BY <2>1, <2>2, <2>3 DEF FilesAre, Tagged
  <1>7. Contents(b, disk, S, len)  BY <1>1 DEF FilesAre, Contents
  <1>8. Files(b, name, disk, S, len)
    <2> SUFFICES ASSUME NEW i \in S, name[i] # 0, ~WholeOf(disk[name[i]], len)
                 PROVE  \E p \in Obj : b[p].id = i /\ ~b[p].deleted /\ b[p].tag # 0
      BY DEF Files
    <2>1. PICK p \in Obj : a[p].id = i /\ ~a[p].deleted /\ a[p].tag # 0
      BY DEF FilesAre, Files
    <2>2. p # o
      <3>1. p = o => a[o].fd # 0 /\ name[i] = a[o].fd  BY <2>1 DEF FilesAre, Apart
      <3> QED BY <2>1, <3>1
    <2> QED BY <1>1, <2>1, <2>2
  <1> QED BY <1>4, <1>5, <1>6, <1>7, <1>8 DEF FilesAre

\* What Prune() does to the objects and their names: those in D go.
Swept(a, D) == [p \in Obj |-> IF p \in D THEN Free ELSE a[p]]
Nameless(a, name, D) == [i \in Id |-> IF \E p \in D : a[p].id = i THEN 0 ELSE name[i]]

\* Objects that nobody uses are pruned.
LEMMA FilesSwept ==
  ASSUME NEW a, NEW name, NEW disk, NEW n \in Nat, NEW S, NEW len, S \subseteq Id,
         AllFormed(a), FilesAre(a, name, disk, n, S, len), NEW D \in SUBSET Obj,
         \A p \in D : a[p].fd = 0 /\ ~a[p].deleted,
         NEW b, b = Swept(a, D), NEW to, to = Nameless(a, name, D)
  PROVE  FilesAre(b, to, disk, n, S, len)
  <1>1. \A p \in Obj : p \notin D => b[p] = a[p]  BY DEF Swept
  <1>2. \A p \in D : b[p].id \notin S /\ b[p].fd = 0 /\ b[p].tag = 0 /\ ~b[p].reading
    BY NoObjects DEF Swept, Free
  <1>3. \A i \in Id : to[i] = 0 \/ to[i] = name[i]  BY DEF Nameless
  <1>4. Owned(b, to, n)
    <2>1. \A p \in Obj : b[p].fd # 0 => b[p] = a[p]  BY <1>1, <1>2
    <2>2. \A p \in Obj : b[p].fd <= n  BY <1>1, <1>2 DEF FilesAre, Owned
    <2>3. \A i \in Id : to[i] <= n  BY <1>3 DEF FilesAre, Owned
    <2>4. \A i \in Id : to[i] # 0 => to[i] = name[i]  BY <1>3
    <2>5. \A p, q \in Obj : b[p].fd # 0 /\ b[p].fd = b[q].fd => b[p].id = b[q].id
      BY <2>1 DEF FilesAre, Owned
    <2>6. \A p \in Obj, i \in Id : b[p].fd # 0 /\ b[p].fd = to[i] => b[p].id = i
      BY <2>1, <2>4 DEF FilesAre, Owned
    <2>7. \A i, j \in Id : to[i] # 0 /\ to[i] = to[j] => i = j
      BY <2>4 DEF FilesAre, Owned
    <2> QED BY <2>2, <2>3, <2>5, <2>6, <2>7 DEF Owned
  <1>5. Apart(b, to, S)
    <2>1. \A p \in Obj : b[p].id \in S => p \notin D /\ b[p] = a[p]  BY <1>1, <1>2
    <2>2. \A q \in Obj : b[q].id \in S =>
            \A p \in Obj :
              b[p].id = b[q].id /\ p # q =>
                /\ b[q].deleted \/ b[p].deleted
                /\ b[q].fd # 0 => b[q].fd # b[p].fd
      BY <2>1 DEF FilesAre, Apart
    <2>3. ASSUME NEW q \in Obj, b[q].id \in S, b[q].fd # 0
          PROVE  b[q].deleted <=> to[b[q].id] # b[q].fd
      <3>1. q \notin D /\ b[q] = a[q] /\ b[q].id \in Id  BY <2>1, <2>3
      <3>2. b[q].deleted <=> name[b[q].id] # b[q].fd  BY <2>3, <3>1 DEF FilesAre, Apart
      <3>3. CASE \E p \in D : a[p].id = b[q].id
        <4>1. to[b[q].id] = 0  BY <3>1, <3>3 DEF Nameless
        <4>2. b[q].deleted  BY <2>3, <3>1, <3>3 DEF FilesAre, Apart
        <4> QED BY <2>3, <4>1, <4>2
      <3>4. CASE ~ \E p \in D : a[p].id = b[q].id
        <4>1. to[b[q].id] = name[b[q].id]  BY <3>1, <3>4 DEF Nameless
        <4> QED BY <3>2, <4>1
      <3> QED BY <3>3, <3>4
    <2> QED BY <2>2, <2>3 DEF Apart
  <1>6. Tagged(b, n, len)
    <2>1. \A p \in Obj : b[p].tag # 0 => b[p] = a[p]  BY <1>1, <1>2
    <2>2. \A p \in Obj : b[p].tag <= n  BY <1>1, <1>2 DEF FilesAre, Tagged
    <2>3. \A p \in Obj : b[p].reading => b[p] = a[p]  BY <1>1, <1>2
    <2> QED BY <2>1, <2>2, <2>3 DEF FilesAre, Tagged
  <1>7. Contents(b, disk, S, len)
    <2>1. \A p \in Obj : b[p].id \in S => b[p] = a[p]  BY <1>1, <1>2
    <2> QED BY <2>1 DEF FilesAre, Contents
  <1>8. Files(b, to, disk, S, len)
    <2> SUFFICES ASSUME NEW i \in S, to[i] # 0, ~WholeOf(disk[to[i]], len)
                 PROVE  \E p \in Obj : b[p].id = i /\ ~b[p].deleted /\ b[p].tag # 0
      BY DEF Files
    <2>1. i \in Id /\ to[i] = name[i]  BY <1>3
    <2>2. PICK p \in Obj : a[p].id = i /\ ~a[p].deleted /\ a[p].tag # 0
      BY <2>1 DEF FilesAre, Files
    <2>3. a[p].fd # 0  BY <2>2 DEF AllFormed, Formed, Shut
    <2>4. b[p] = a[p]  BY <1>1, <2>3
    <2> QED BY <2>2, <2>4
  <1> QED BY <1>4, <1>5, <1>6, <1>7, <1>8 DEF FilesAre

\* The next pieces of a file are written where the others end.
LEMMA PiecesWritten ==
  ASSUME NEW m \in Nat, NEW k \in Nat, m < k, NEW d
  PROVE  Overwrite(Pieces(m, d), m, k - m, d) = Pieces(k, d)
  <1>1. Len(Pieces(m, d)) = m
    BY DEF Pieces
  <1>2. m + (k - m) = k  OBVIOUS
  <1>3. Max({m, k}) = k  BY MaxOfTwo
  <1>4. Overwrite(Pieces(m, d), m, k - m, d) =
          [i \in 1..k |-> IF i > m /\ i <= k THEN d
                          ELSE IF i <= m THEN Pieces(m, d)[i] ELSE 0]
    BY <1>1, <1>2, <1>3 DEF Overwrite
  <1>5. \A i \in 1..k : (IF i > m /\ i <= k THEN d
                         ELSE IF i <= m THEN Pieces(m, d)[i] ELSE 0) = d
    BY DEF Pieces
  <1> QED BY <1>4, <1>5 DEF Pieces

\* A piece more.
LEMMA PiecesMore ==
  ASSUME NEW m \in Nat, NEW d
  PROVE  Append(Pieces(m, d), d) = Pieces(m + 1, d)
  <1>1. Pieces(m, d) \in Seq({d}) /\ Len(Pieces(m, d)) = m
    <2>1. Pieces(m, d) \in [1..m -> {d}]  BY DEF Pieces
    <2> QED BY <2>1, FunctionIsSeq
  <1> QED BY <1>1 DEF Pieces

\* What has been written of an object when the next pieces are.
Onward(x, y, k) ==
  /\ y.id = x.id /\ y.deleted = x.deleted /\ y.fd = x.fd /\ y.tag = x.tag
  /\ y.reading = x.reading /\ y.avail = x.avail /\ y.size = x.size
  /\ y.out = k /\ y.off = x.off + k - x.out

\* Pieces of an object that is being written go to its file.
LEMMA FilesWritten ==
  ASSUME NEW a \in [Obj -> CacheObj], AllFormed(a), NEW b,
         NEW name \in [Id -> 0..MaxDownloads], NEW disk \in [Download -> Content],
         NEW n \in Nat, NEW S, NEW len, S \subseteq Id, FilesAre(a, name, disk, n, S, len),
         NEW o \in Obj, Only(a, b, o), a[o].fd # 0, a[o].tag # 0, NEW k \in Nat,
         a[o].out < k, a[o].id \in S /\ ~a[o].deleted => k <= a[o].size,
         Onward(a[o], b[o], k),
         NEW w, w = Overwrite(disk[a[o].fd], a[o].off, k - a[o].out, a[o].tag),
         NEW to, to = [disk EXCEPT ![a[o].fd] = w]
  PROVE  FilesAre(b, name, to, n, S, len)
  <1>1. \A p \in Obj : p # o => b[p] = a[p]  BY DEF Only
  <1>2. \A p \in Obj : /\ b[p].id = a[p].id /\ b[p].deleted = a[p].deleted
                       /\ b[p].fd = a[p].fd /\ b[p].tag = a[p].tag
                       /\ b[p].reading = a[p].reading /\ b[p].avail = a[p].avail
    BY <1>1 DEF Onward
  <1>3. /\ a[o].fd \in Download /\ a[o].out \in Nat /\ a[o].off \in Nat
        /\ a[o].size \in Nat
    <2>1. a[o] \in CacheObj  OBVIOUS
    <2> QED BY <2>1, ObjFields DEF Download
  <1>4. \A f \in Download : f # a[o].fd => to[f] = disk[f]  OBVIOUS
  <1>5. \A p \in Obj : b[p].fd # 0 => b[p].fd \in Download
    <2>1. \A p \in Obj : a[p] \in CacheObj  OBVIOUS
    <2> QED BY <1>2, <2>1, ObjFields DEF Download
  <1>6. Owned(b, name, n)  BY <1>2 DEF FilesAre, Owned
  <1>7. Apart(b, name, S)  BY <1>2 DEF FilesAre, Apart
  <1>8. Tagged(b, n, len)  BY <1>2 DEF FilesAre, Tagged
  <1>9. Contents(b, to, S, len)
    <2> SUFFICES ASSUME NEW p \in Obj, b[p].id \in S, ~b[p].deleted
                 PROVE  /\ b[p].tag # 0 => Filled(b[p], to, len)
                        /\ b[p].tag = 0 /\ b[p].fd # 0 => WholeOf(b[p].avail, len)
      BY DEF Contents
    <2>1. /\ a[p].tag # 0 => Filled(a[p], disk, len)
          /\ a[p].tag = 0 /\ a[p].fd # 0 => WholeOf(a[p].avail, len)
      BY <1>2 DEF FilesAre, Contents
    <2>2. b[p].tag = 0 /\ b[p].fd # 0 => WholeOf(b[p].avail, len)  BY <1>2, <2>1
    <2>3. CASE p = o
      <3>1. Filled(a[o], disk, len)  BY <2>1, <2>3
      <3>2. /\ a[o].off = a[o].out /\ disk[a[o].fd] = Pieces(a[o].out, a[o].tag)
            /\ a[o].avail = Pieces(a[o].size, a[o].tag)
            /\ a[o].reading \/ len[a[o].tag] = a[o].size
        BY <3>1 DEF Filled
      <3>3. to[a[o].fd] = Pieces(k, a[o].tag)
        <4>1. to[a[o].fd] = Overwrite(disk[a[o].fd], a[o].off, k - a[o].out, a[o].tag)
          BY <1>3
        <4>2. to[a[o].fd] = Overwrite(Pieces(a[o].out, a[o].tag), a[o].out, k - a[o].out, a[o].tag)
          BY <3>2, <4>1
        <4> QED BY <1>3, <4>2, PiecesWritten
      <3>4. k <= a[o].size  BY <1>2, <2>3
      <3>5. b[o].out = k /\ b[o].off = k /\ b[o].size = a[o].size
        BY <1>3, <3>2 DEF Onward
      <3>6. Filled(b[o], to, len)
        BY <1>2, <3>2, <3>3, <3>4, <3>5 DEF Filled
      <3> QED BY <2>2, <2>3, <3>6
    <2>4. CASE p # o
      <3>1. b[p] = a[p]  BY <1>1, <2>4
      <3>0. b[p].tag # 0 => b[p].fd # 0  BY <3>1 DEF AllFormed, Formed, Shut
      <3>2. b[p].tag # 0 => to[b[p].fd] = disk[b[p].fd]
        <4>1. CASE b[p].fd = a[o].fd
          <5>1. a[p].id = a[o].id  BY <3>1, <4>1 DEF FilesAre, Owned
          <5> QED BY <2>4, <3>1, <4>1, <5>1 DEF FilesAre, Apart
        <4>2. CASE b[p].fd # a[o].fd /\ b[p].fd \in Download  BY <1>4, <4>2
        <4> QED BY <1>5, <3>0, <4>1, <4>2
      <3> QED BY <2>1, <3>1, <3>2 DEF Filled
    <2> QED BY <2>3, <2>4
  <1>10. Files(b, name, to, S, len)
    <2> SUFFICES ASSUME NEW i \in S, name[i] # 0,
                        ~ \E p \in Obj : b[p].id = i /\ ~b[p].deleted /\ b[p].tag # 0
                 PROVE  WholeOf(to[name[i]], len)
      BY DEF Files
    <2>1. WholeOf(disk[name[i]], len)  BY <1>2 DEF FilesAre, Files
    <2>2. name[i] # a[o].fd
      <3>1. SUFFICES ASSUME name[i] = a[o].fd
                     PROVE  FALSE
        OBVIOUS
      <3>2. a[o].id = i  BY <3>1 DEF FilesAre, Owned
      <3>3. ~a[o].deleted  BY <3>1, <3>2 DEF FilesAre, Apart
      <3> QED BY <1>2, <3>2, <3>3
    <2>3. to[name[i]] = disk[name[i]]
      <3>1. name[i] \in Download  BY DEF Download
      <3> QED BY <1>4, <2>2, <3>1
    <2> QED BY <2>1, <2>3
  <1> QED BY <1>6, <1>7, <1>8, <1>9, <1>10 DEF FilesAre

\* A piece more is received of an object.
Extended(x, y) ==
  /\ y.id = x.id /\ y.deleted = x.deleted /\ y.fd = x.fd /\ y.tag = x.tag
  /\ y.reading = x.reading /\ y.avail = Append(x.avail, x.tag) /\ y.size = x.size + 1
  /\ y.out = x.out /\ y.off = x.off

\* It is there, and not yet in the file.
LEMMA FilesExtended ==
  ASSUME NEW a \in [Obj -> CacheObj], NEW b, NEW name, NEW disk, NEW n, NEW S, NEW len,
         FilesAre(a, name, disk, n, S, len), NEW o \in Obj, Only(a, b, o),
         a[o].reading, a[o].tag # 0, Extended(a[o], b[o])
  PROVE  FilesAre(b, name, disk, n, S, len)
  <1>1. \A p \in Obj : p # o => b[p] = a[p]  BY DEF Only
  <1>2. \A p \in Obj : /\ b[p].id = a[p].id /\ b[p].deleted = a[p].deleted
                       /\ b[p].fd = a[p].fd /\ b[p].tag = a[p].tag
                       /\ b[p].reading = a[p].reading
    BY <1>1 DEF Extended
  <1>3. Owned(b, name, n)  BY <1>2 DEF FilesAre, Owned
  <1>4. Apart(b, name, S)  BY <1>2 DEF FilesAre, Apart
  <1>5. Tagged(b, n, len)  BY <1>2 DEF FilesAre, Tagged
  <1>6. Files(b, name, disk, S, len)  BY <1>2 DEF FilesAre, Files
  <1>7. Contents(b, disk, S, len)
    <2>1. ASSUME a[o].id \in S, ~a[o].deleted
          PROVE  Filled(b[o], disk, len)
      <3>1. Filled(a[o], disk, len)  BY <2>1 DEF FilesAre, Contents
      <3>2. a[o] \in CacheObj  OBVIOUS
      <3>3. a[o].size \in Nat /\ a[o].out \in Nat  BY <3>2, ObjFields
      <3>4. PICK m \in Nat : m = a[o].size  BY <3>3
      <3>5. PICK d : d = a[o].tag  OBVIOUS
      <3>6. Append(Pieces(m, d), d) = Pieces(m + 1, d)  BY PiecesMore
      <3>7. b[o].avail = Pieces(b[o].size, b[o].tag)
        BY <3>1, <3>4, <3>5, <3>6 DEF Filled, Extended
      <3>8. b[o].out <= b[o].size  BY <3>1, <3>3 DEF Filled, Extended
      <3>9. /\ b[o].off = b[o].out /\ disk[b[o].fd] = Pieces(b[o].out, b[o].tag)
            /\ b[o].reading
        BY <3>1 DEF Filled, Extended
      <3> QED BY <3>7, <3>8, <3>9 DEF Filled
    <2>2. b[o].tag # 0 /\ b[o].id = a[o].id /\ b[o].deleted = a[o].deleted  BY <1>2
    <2> QED BY <1>1, <2>1, <2>2 DEF FilesAre, Contents
  <1> QED BY <1>3, <1>4, <1>5, <1>6, <1>7 DEF FilesAre

\* What a download creates: the object x, with an empty file.
Blank(x, i, d, f) ==
  /\ x.id = i /\ ~x.deleted /\ x.fd = f /\ x.tag = d /\ x.reading
  /\ x.avail = <<>> /\ x.size = 0 /\ x.out = 0 /\ x.off = 0

\* Download d of resource i goes to the file f, and what was in it is gone.
Truncates(name, disk, i, d, f, to, on) ==
  /\ f = IF name[i] = 0 THEN d ELSE name[i]
  /\ to = [name EXCEPT ![i] = f]
  /\ on = [disk EXCEPT ![f] = <<>>]

\* All objects of i were deleted.
Unshared(a, i) == \A p \in Obj : a[p].id = i => a[p].deleted

\* Nothing has happened to a resource that is downloaded when it has no other object.
LEMMA FilesCreated ==
  ASSUME NEW a \in [Obj -> CacheObj], NEW b, NEW name \in [Id -> 0..MaxDownloads],
         NEW disk \in [Download -> Content],
         NEW n \in Nat, n < MaxDownloads, NEW S, NEW len, S \subseteq Id,
         FilesAre(a, name, disk, n, S, len), AllFormed(a), NEW o \in Obj, Only(a, b, o),
         a[o].id = None,
         NEW i \in Id, NEW d, d = n + 1, NEW f, NEW to, NEW on,
         Truncates(name, disk, i, d, f, to, on),
         Blank(b[o], i, d, f),
         NEW T, T \subseteq S, i \in T => Unshared(a, i)
  PROVE  FilesAre(b, to, on, d, T, len)
  <1>1. \A p \in Obj : p # o => b[p] = a[p]  BY DEF Only
  <1>2. /\ b[o].id = i /\ ~b[o].deleted /\ b[o].fd = f /\ b[o].tag = d /\ b[o].reading
        /\ b[o].avail = <<>> /\ b[o].size = 0 /\ b[o].out = 0 /\ b[o].off = 0
    BY DEF Blank
  <1>0. /\ f = IF name[i] = 0 THEN d ELSE name[i]
        /\ to = [name EXCEPT ![i] = f] /\ on = [disk EXCEPT ![f] = <<>>]
        /\ i \in T => \A p \in Obj : a[p].id = i => a[p].deleted
    BY DEF Truncates, Unshared
  <1>3. /\ d \in Download /\ f \in Download /\ f <= n + 1 /\ d \in Nat /\ f \in Nat /\ f # 0
        /\ name[i] \in Nat
    <2>1. d \in Download  BY HttpCacheAssumption DEF Download
    <2>2. name[i] <= n /\ name[i] \in 0..MaxDownloads  BY DEF FilesAre, Owned
    <2> QED BY <1>0, <2>1, <2>2, HttpCacheAssumption DEF Download
  <1>4. to[i] = f /\ \A j \in Id : j # i => to[j] = name[j]  BY <1>0
  <1>5. on[f] = <<>> /\ \A g \in Download : g # f => on[g] = disk[g]  BY <1>0, <1>3
  <1>6. \A p \in Obj : /\ a[p].fd \in Nat /\ a[p].fd <= n /\ a[p].tag \in Nat /\ a[p].tag <= n
                       /\ a[p].fd # 0 => a[p].fd \in Download
    <2>1. \A p \in Obj : a[p] \in CacheObj  OBVIOUS
    <2>2. \A p \in Obj : a[p].fd \in 0..MaxDownloads /\ a[p].tag \in 0..MaxDownloads
      BY <2>1, ObjFields
    <2> QED BY <2>2, HttpCacheAssumption DEF FilesAre, Owned, Tagged, Download
  <1>7. \A j \in Id : name[j] \in Nat /\ name[j] <= n /\ (name[j] # 0 => name[j] \in Download)
    BY HttpCacheAssumption DEF FilesAre, Owned, Download
  <1>8. f = n + 1 \/ (f = name[i] /\ name[i] # 0)  BY <1>0
  <1>9. \A p \in Obj : a[p].fd = f => a[p].id = i
    <2>1. \A p \in Obj : a[p].fd # n + 1  BY <1>6
    <2> QED BY <1>3, <1>8, <2>1 DEF FilesAre, Owned
  <1>10. \A j \in Id : j # i => name[j] # f
    <2>1. \A j \in Id : name[j] # n + 1  BY <1>7
    <2> QED BY <1>3, <1>8, <2>1 DEF FilesAre, Owned
  <1>11. a[o].id \notin Id  BY NoObjects
  <1>12. Owned(b, to, n + 1)
    <2>1. \A p \in Obj : b[p].fd <= n + 1  BY <1>1, <1>2, <1>3, <1>6
    <2>2. \A j \in Id : to[j] <= n + 1  BY <1>3, <1>4, <1>7
    <2>3. \A p, q \in Obj : b[p].fd # 0 /\ b[p].fd = b[q].fd => b[p].id = b[q].id
      BY <1>1, <1>2, <1>9 DEF FilesAre, Owned
    <2>4. \A p \in Obj, j \in Id : b[p].fd # 0 /\ b[p].fd = to[j] => b[p].id = j
      BY <1>1, <1>2, <1>4, <1>9, <1>10 DEF FilesAre, Owned
    <2>5. \A j, k \in Id : to[j] # 0 /\ to[j] = to[k] => j = k
      BY <1>4, <1>10 DEF FilesAre, Owned
    <2> QED BY <2>1, <2>2, <2>3, <2>4, <2>5 DEF Owned
  <1>13. i \in T => \A p \in Obj : a[p].id = i => a[p].deleted /\ a[p].fd # f
    <2> SUFFICES ASSUME i \in T, NEW p \in Obj, a[p].id = i, a[p].fd = f
                 PROVE  FALSE
      BY <1>0
    <2>1. a[p].deleted /\ name[i] # a[p].fd  BY <1>0, <1>3 DEF FilesAre, Apart
    <2>2. a[p].fd # n + 1  BY <1>6
    <2> QED BY <1>8, <2>1, <2>2
  <1>14. Apart(b, to, T)
    <2> SUFFICES ASSUME NEW q \in Obj, b[q].id \in T
                 PROVE  /\ \A p \in Obj :
                             b[p].id = b[q].id /\ p # q =>
                               /\ b[q].deleted \/ b[p].deleted
                               /\ b[q].fd # 0 => b[q].fd # b[p].fd
                        /\ b[q].fd # 0 => (b[q].deleted <=> to[b[q].id] # b[q].fd)
      BY DEF Apart
    <2>1. CASE q = o
      <3>1. i \in T /\ b[q].id = i /\ b[q].fd = f  BY <1>2, <2>1
      <3>2. \A p \in Obj : b[p].id = i /\ p # q => b[p].deleted /\ b[p].fd # f
        BY <1>1, <1>13, <2>1, <3>1
      <3> QED BY <1>2, <1>4, <2>1, <3>1, <3>2
    <2>2. CASE q # o /\ b[q].id = i
      <3>1. b[q] = a[q] /\ a[q].id = i /\ i \in T /\ i \in S  BY <1>1, <2>2
      <3>2. a[q].deleted /\ a[q].fd # f  BY <1>13, <3>1
      <3>3. \A p \in Obj : b[p].id = i /\ p # q /\ b[q].fd # 0 => b[q].fd # b[p].fd
        BY <1>1, <1>2, <3>1, <3>2 DEF FilesAre, Apart
      <3> QED BY <1>4, <3>1, <3>2, <3>3
    <2>3. CASE q # o /\ b[q].id # i
      <3>1. /\ b[q] = a[q] /\ a[q].id \in S /\ a[q].id # i /\ a[q].id \in Id
            /\ to[a[q].id] = name[a[q].id]
        BY <1>1, <1>4, <2>3
      <3>2. \A p \in Obj : b[p].id = b[q].id => b[p] = a[p]  BY <1>1, <1>2, <2>3
      <3> QED BY <3>1, <3>2 DEF FilesAre, Apart
    <2> QED BY <2>1, <2>2, <2>3
  <1>15. Tagged(b, n + 1, len)
    <2>1. \A p \in Obj : b[p].tag <= n + 1  BY <1>1, <1>2, <1>6
    <2>2. \A p \in Obj : a[p].tag # d  BY <1>6
    <2>3. \A p, q \in Obj : b[p].tag # 0 /\ b[p].tag = b[q].tag => p = q
      BY <1>1, <1>2, <2>2 DEF FilesAre, Tagged
    <2>4. len[d] = None
      <3>1. d > n  OBVIOUS
      <3> QED BY <1>3, <3>1 DEF FilesAre, Tagged
    <2>5. \A p \in Obj : b[p].reading => len[b[p].tag] = None
      BY <1>1, <1>2, <2>4 DEF FilesAre, Tagged
    <2>6. \A g \in Download : g > n + 1 => len[g] = None
      <3>1. \A g \in Download : g > n + 1 => g > n  BY HttpCacheAssumption DEF Download
      <3> QED BY <3>1 DEF FilesAre, Tagged
    <2> QED BY <2>1, <2>3, <2>5, <2>6 DEF Tagged
  <1>16. Contents(b, on, T, len)
    <2> SUFFICES ASSUME NEW p \in Obj, b[p].id \in T, ~b[p].deleted
                 PROVE  /\ b[p].tag # 0 => Filled(b[p], on, len)
                        /\ b[p].tag = 0 /\ b[p].fd # 0 => WholeOf(b[p].avail, len)
      BY DEF Contents
    <2>1. CASE p = o
      <3>1. Pieces(0, d) = <<>>
        <4>1. 1..0 = {}  OBVIOUS
        <4> QED BY <4>1 DEF Pieces
      <3>2. Filled(b[o], on, len)  BY <1>2, <1>5, <3>1 DEF Filled
      <3> QED BY <1>2, <1>3, <2>1, <3>2
    <2>2. CASE p # o
      <3>1. b[p] = a[p] /\ a[p].id \in S  BY <1>1, <2>2
      <3>2. a[p].fd # f  BY <1>9, <1>13, <3>1
      <3>3. a[p].fd # 0 => on[a[p].fd] = disk[a[p].fd]  BY <1>5, <1>6, <3>2
      <3>4. a[p].tag # 0 => a[p].fd # 0  BY DEF AllFormed, Formed, Shut
      <3> QED BY <3>1, <3>3, <3>4 DEF FilesAre, Contents, Filled
    <2> QED BY <2>1, <2>2
  <1>17. Files(b, to, on, T, len)
    <2> SUFFICES ASSUME NEW j \in T, to[j] # 0, ~WholeOf(on[to[j]], len)
                 PROVE  \E p \in Obj : b[p].id = j /\ ~b[p].deleted /\ b[p].tag # 0
      BY DEF Files
    <2>1. CASE j = i  BY <1>2, <1>3, <2>1
    <2>2. CASE j # i
      <3>1. j \in Id /\ j \in S /\ to[j] = name[j] /\ name[j] # f /\ name[j] \in Download
        BY <1>4, <1>7, <1>10, <2>2
      <3>2. ~WholeOf(disk[name[j]], len)  BY <1>5, <3>1
      <3>3. PICK p \in Obj : a[p].id = j /\ ~a[p].deleted /\ a[p].tag # 0
        BY <3>1, <3>2 DEF FilesAre, Files
      <3>4. p # o  BY <1>11, <3>1, <3>3
      <3> QED BY <1>1, <3>3, <3>4
    <2> QED BY <2>1, <2>2
  <1>18. FilesAre(b, to, on, n + 1, T, len)
    BY <1>12, <1>14, <1>15, <1>16, <1>17 DEF FilesAre
  <1> QED BY <1>18

\* An object is loaded from the file of its name.
LEMMA FilesLoaded ==
  ASSUME NEW a \in [Obj -> CacheObj], AllFormed(a), NEW b,
         NEW name \in [Id -> 0..MaxDownloads], NEW disk,
         NEW n \in Nat, NEW S, NEW len, S \subseteq Id, FilesAre(a, name, disk, n, S, len),
         NEW o \in Obj, Only(a, b, o), NEW i \in Id, a[o].id = i, NEW f, f = name[i], f # 0,
         a[o].fd = 0, i \in S => ~a[o].deleted,
         b[o] = Opened(a[o], f, disk[f])
  PROVE  FilesAre(b, name, disk, n, S, len)
  <1>1. \A p \in Obj : p # o => b[p] = a[p]  BY DEF Only
  <1>2. a[o] \in CacheObj /\ a[o].tag = 0 /\ ~a[o].reading  BY DEF AllFormed, Formed, Shut
  <1>3. /\ b[o].id = i /\ b[o].deleted = a[o].deleted /\ b[o].fd = f /\ b[o].tag = 0
        /\ ~b[o].reading /\ b[o].avail = disk[f] /\ b[o].reading = a[o].reading
    <2>1. PICK c : c = disk[f]  OBVIOUS
    <2>2. PICK x \in CacheObj : x = a[o]  BY <1>2
    <2>3. b[o] = [x EXCEPT !.fd = f, !.avail = c]  BY <2>1, <2>2 DEF Opened
    <2>4. /\ b[o].fd = f /\ b[o].avail = c /\ b[o].id = x.id /\ b[o].deleted = x.deleted
          /\ b[o].tag = x.tag /\ b[o].reading = x.reading
      BY <2>3 DEF CacheObj
    <2> QED BY <1>2, <2>1, <2>2, <2>4
  <1>4. \A p \in Obj : b[p].id = a[p].id /\ b[p].deleted = a[p].deleted /\ b[p].tag = a[p].tag
                       /\ b[p].reading = a[p].reading
    BY <1>1, <1>2, <1>3
  <1>5. \A p \in Obj : b[p].fd = a[p].fd \/ (p = o /\ b[p].fd = name[i])  BY <1>1, <1>3
  <1>6. Owned(b, name, n)
    <2>1. \A p \in Obj : b[p].fd <= n  BY <1>5 DEF FilesAre, Owned
    <2>2. \A p, q \in Obj : b[p].fd # 0 /\ b[p].fd = b[q].fd => b[p].id = b[q].id
      BY <1>1, <1>3, <1>4 DEF FilesAre, Owned
    <2>3. \A p \in Obj, j \in Id : b[p].fd # 0 /\ b[p].fd = name[j] => b[p].id = j
      BY <1>1, <1>3 DEF FilesAre, Owned
    <2> QED BY <2>1, <2>2, <2>3 DEF FilesAre, Owned
  <1>7. Apart(b, name, S)
    <2> SUFFICES ASSUME NEW q \in Obj, b[q].id \in S
                 PROVE  /\ \A p \in Obj :
                             b[p].id = b[q].id /\ p # q =>
                               /\ b[q].deleted \/ b[p].deleted
                               /\ b[q].fd # 0 => b[q].fd # b[p].fd
                        /\ b[q].fd # 0 => (b[q].deleted <=> name[b[q].id] # b[q].fd)
      BY DEF Apart
    <2>1. \A p \in Obj : b[p].id = b[q].id /\ p # q => b[q].deleted \/ b[p].deleted
      BY <1>4 DEF FilesAre, Apart
    <2>2. CASE q = o
      <3>1. ~a[o].deleted  BY <1>3, <2>2
      <3>2. ASSUME NEW p \in Obj, b[p].id = i, p # o
            PROVE  b[p].fd # f
        <4>1. a[p] = b[p] /\ a[p].deleted  BY <1>1, <1>3, <2>1, <2>2, <3>1, <3>2
        <4> QED BY <2>2, <1>3, <3>2, <4>1 DEF FilesAre, Apart
      <3> QED BY <1>3, <2>1, <2>2, <3>1, <3>2
    <2>3. CASE q # o
      <3>1. b[q] = a[q]  BY <1>1, <2>3
      <3>2. ASSUME b[o].id = b[q].id, b[q].fd # 0
            PROVE  b[q].fd # b[o].fd
        <4>1. ~a[o].deleted /\ i \in S  BY <1>3, <3>2
        <4>2. a[q].deleted  BY <1>3, <2>3, <3>1, <3>2, <4>1 DEF FilesAre, Apart
        <4>3. name[i] # a[q].fd  BY <1>3, <3>1, <3>2, <4>1, <4>2 DEF FilesAre, Apart
        <4> QED BY <1>3, <3>1, <4>3
      <3>3. \A p \in Obj : b[p].id = b[q].id /\ p # q /\ b[q].fd # 0 => b[q].fd # b[p].fd
        BY <1>1, <3>1, <3>2 DEF FilesAre, Apart
      <3> QED BY <2>1, <3>1, <3>3 DEF FilesAre, Apart
    <2> QED BY <2>2, <2>3
  <1>8. Tagged(b, n, len)  BY <1>4 DEF FilesAre, Tagged
  <1>9. Contents(b, disk, S, len)
    <2>1. ASSUME i \in S
          PROVE  WholeOf(b[o].avail, len)
      <3>1. ~a[o].deleted  BY <2>1
      <3>2. ~ \E p \in Obj : a[p].id = i /\ ~a[p].deleted /\ a[p].tag # 0
        BY <1>2, <2>1, <3>1 DEF FilesAre, Apart
      <3> QED BY <1>3, <2>1, <3>2 DEF FilesAre, Files
    <2> QED BY <1>1, <1>3, <2>1 DEF FilesAre, Contents
  <1>10. Files(b, name, disk, S, len)  BY <1>4 DEF FilesAre, Files
  <1> QED BY <1>6, <1>7, <1>8, <1>9, <1>10 DEF FilesAre

\* All of a download has come.
LEMMA FilesEnded ==
  ASSUME NEW a \in [Obj -> CacheObj], AllFormed(a), NEW b, NEW name, NEW disk,
         NEW n \in Nat, NEW S, NEW len \in [Download -> Nat \cup {None}],
         FilesAre(a, name, disk, n, S, len), NEW o \in Obj, Only(a, b, o),
         a[o].reading, NEW d \in Download, a[o].tag = d,
         b[o].id = a[o].id, b[o].deleted = a[o].deleted, b[o].fd = a[o].fd, b[o].tag = d,
         ~b[o].reading, b[o].avail = a[o].avail, b[o].size = a[o].size, b[o].out = a[o].out,
         b[o].off = a[o].off,
         NEW to, to = [len EXCEPT ![d] = Len(a[o].avail)]
  PROVE  FilesAre(b, name, disk, n, S, to)
  <1>1. \A p \in Obj : p # o => b[p] = a[p]  BY DEF Only
  <1>2. \A p \in Obj : /\ b[p].id = a[p].id /\ b[p].deleted = a[p].deleted
                       /\ b[p].fd = a[p].fd /\ b[p].tag = a[p].tag
                       /\ b[p].avail = a[p].avail /\ b[p].size = a[p].size
                       /\ b[p].out = a[p].out /\ b[p].off = a[p].off
    BY <1>1
  <1>3. len[d] = None /\ d # 0
    BY DEF FilesAre, Tagged, Download
  <1>4. to[d] = Len(a[o].avail) /\ \A g \in Download : g # d => to[g] = len[g]  OBVIOUS
  <1>5. \A c : WholeOf(c, len) => WholeOf(c, to)
    BY <1>3, <1>4 DEF WholeOf
  <1>6. \A p \in Obj : p # o => a[p].tag # d  BY <1>3 DEF FilesAre, Tagged
  <1>7. Owned(b, name, n)  BY <1>2 DEF FilesAre, Owned
  <1>8. Apart(b, name, S)  BY <1>2 DEF FilesAre, Apart
  <1>9. \A p \in Obj : p # o /\ a[p].tag # 0 => to[a[p].tag] = len[a[p].tag]
    <2>1. \A p \in Obj : a[p] \in CacheObj  OBVIOUS
    <2>2. \A p \in Obj : a[p].tag # 0 => a[p].tag \in Download
      BY <2>1, ObjFields DEF Download
    <2> QED BY <1>4, <1>6, <2>2
  <1>10. Tagged(b, n, to)
    <2>1. \A p \in Obj : b[p].tag <= n  BY <1>2 DEF FilesAre, Tagged
    <2>2. \A p, q \in Obj : b[p].tag # 0 /\ b[p].tag = b[q].tag => p = q
      BY <1>2 DEF FilesAre, Tagged
    <2>3. \A p \in Obj : b[p].reading => p # o /\ a[p].reading /\ a[p].tag # 0
      BY <1>1 DEF AllFormed, Formed
    <2>4. \A p \in Obj : b[p].reading => to[b[p].tag] = None
      BY <1>2, <1>9, <2>3 DEF FilesAre, Tagged
    <2>5. \A g \in Download : g > n => g # d
      <3>1. \A p \in Obj : a[p].tag <= n  BY DEF FilesAre, Tagged
      <3>2. d <= n  BY <3>1
      <3> QED BY <3>2 DEF Download
    <2>6. \A g \in Download : g > n => to[g] = None
      BY <1>4, <2>5 DEF FilesAre, Tagged
    <2> QED BY <2>1, <2>2, <2>4, <2>6 DEF Tagged
  <1>11. Contents(b, disk, S, to)
    <2> SUFFICES ASSUME NEW p \in Obj, b[p].id \in S, ~b[p].deleted
                 PROVE  /\ b[p].tag # 0 => Filled(b[p], disk, to)
                        /\ b[p].tag = 0 /\ b[p].fd # 0 => WholeOf(b[p].avail, to)
      BY DEF Contents
    <2>1. /\ a[p].tag # 0 => Filled(a[p], disk, len)
          /\ a[p].tag = 0 /\ a[p].fd # 0 => WholeOf(a[p].avail, len)
      BY <1>2 DEF FilesAre, Contents
    <2>2. b[p].tag = 0 /\ b[p].fd # 0 => WholeOf(b[p].avail, to)  BY <1>2, <1>5, <2>1
    <2>3. CASE p # o
      <3>1. b[p] = a[p] /\ (a[p].tag # 0 => to[a[p].tag] = len[a[p].tag])
        BY <1>1, <1>9, <2>3
      <3>2. b[p].tag # 0 => Filled(b[p], disk, to)  BY <2>1, <3>1 DEF Filled
      <3> QED BY <2>2, <3>2
    <2>4. CASE p = o
      <3>1. Filled(a[o], disk, len)  BY <1>3, <2>1, <2>4
      <3>2. a[o].size \in Nat
        <4>1. a[o] \in CacheObj  OBVIOUS
        <4> QED BY <4>1, ObjFields
      <3>3. Len(a[o].avail) = a[o].size
        <4>1. PICK m \in Nat : m = a[o].size  BY <3>2
        <4>2. a[o].avail = Pieces(m, d)  BY <3>1, <4>1 DEF Filled
        <4>3. Len(Pieces(m, d)) = m  BY DEF Pieces
        <4> QED BY <4>1, <4>2, <4>3
      <3>4. Filled(b[o], disk, to)  BY <1>2, <1>4, <3>1, <3>3 DEF Filled
      <3> QED BY <2>2, <2>4, <3>4
    <2> QED BY <2>3, <2>4
  <1>12. Files(b, name, disk, S, to)
    <2> SUFFICES ASSUME NEW i \in S, name[i] # 0, ~WholeOf(disk[name[i]], to)
                 PROVE  \E p \in Obj : b[p].id = i /\ ~b[p].deleted /\ b[p].tag # 0
      BY DEF Files
    <2>1. ~WholeOf(disk[name[i]], len)  BY <1>5
    <2>2. PICK p \in Obj : a[p].id = i /\ ~a[p].deleted /\ a[p].tag # 0
      BY <2>1 DEF FilesAre, Files
    <2>3. b[p].id = i /\ ~b[p].deleted /\ b[p].tag # 0  BY <1>2, <2>2
    <2> QED BY <2>3
  <1> QED BY <1>7, <1>8, <1>10, <1>11, <1>12 DEF FilesAre

\* A child writes the files of resources that something has happened to, and goes on in them.
LEMMA FilesForked ==
  ASSUME NEW a \in [Obj -> CacheObj], AllFormed(a), NEW b,
         NEW name \in [Id -> 0..MaxDownloads], NEW disk, NEW on,
         NEW n, NEW S, NEW len, S \subseteq Id, FilesAre(a, name, disk, n, S, len),
         \A p \in Obj : Alike(a[p], b[p]) /\ (a[p].id \in S => b[p].off = a[p].off),
         \A g \in Download : on[g] = disk[g] \/ \E p \in Obj : a[p].fd = g /\ a[p].id \notin S
  PROVE  FilesAre(b, name, on, n, S, len)
  <1>1. \A p \in Obj : /\ b[p].id = a[p].id /\ b[p].deleted = a[p].deleted
                       /\ b[p].fd = a[p].fd /\ b[p].tag = a[p].tag
                       /\ b[p].reading = a[p].reading /\ b[p].avail = a[p].avail
                       /\ b[p].size = a[p].size /\ b[p].out = a[p].out
    BY DEF Alike
  <1>2. \A p \in Obj : a[p].fd # 0 => a[p].fd \in Download
    <2>1. \A p \in Obj : a[p] \in CacheObj  OBVIOUS
    <2> QED BY <2>1, ObjFields DEF Download
  <1>3. \A j \in Id : name[j] # 0 => name[j] \in Download  BY DEF Download
  <1>4. Owned(b, name, n)  BY <1>1 DEF FilesAre, Owned
  <1>5. Apart(b, name, S)  BY <1>1 DEF FilesAre, Apart
  <1>6. Tagged(b, n, len)  BY <1>1 DEF FilesAre, Tagged
  <1>7. Contents(b, on, S, len)
    <2> SUFFICES ASSUME NEW p \in Obj, b[p].id \in S, ~b[p].deleted
                 PROVE  /\ b[p].tag # 0 => Filled(b[p], on, len)
                        /\ b[p].tag = 0 /\ b[p].fd # 0 => WholeOf(b[p].avail, len)
      BY DEF Contents
    <2>1. /\ a[p].tag # 0 => Filled(a[p], disk, len)
          /\ a[p].tag = 0 /\ a[p].fd # 0 => WholeOf(a[p].avail, len)
      BY <1>1 DEF FilesAre, Contents
    <2>2. a[p].tag # 0 => a[p].fd # 0  BY DEF AllFormed, Formed, Shut
    <2>3. a[p].fd # 0 => on[a[p].fd] = disk[a[p].fd]
      <3>1. \A q \in Obj : a[p].fd # 0 /\ a[q].fd = a[p].fd => a[q].id = a[p].id
        BY DEF FilesAre, Owned
      <3> QED BY <1>1, <1>2, <3>1
    <2> QED BY <1>1, <2>1, <2>2, <2>3 DEF Filled
  <1>8. Files(b, name, on, S, len)
    <2>1. \A j \in S : name[j] # 0 => on[name[j]] = disk[name[j]]
      <3>1. \A q \in Obj, j \in Id : name[j] # 0 /\ a[q].fd = name[j] => a[q].id = j
        BY DEF FilesAre, Owned
      <3> QED BY <1>3, <3>1
    <2> QED BY <1>1, <2>1 DEF FilesAre, Files
  <1> QED BY <1>4, <1>5, <1>6, <1>7, <1>8 DEF FilesAre

\* The next daemon has the objects of the index, and the files of the last one.
LEMMA FilesIndexed ==
  ASSUME NEW a, NEW b, NEW name, NEW disk, NEW n \in Nat, NEW S, NEW len, S \subseteq Id,
         FilesAre(a, name, disk, n, S, len), NEW e, Entries(e, S),
         NEW m \in Nat, DOMAIN e = 1..m,
         \A p \in Obj : /\ b[p].fd = 0 /\ b[p].tag = 0 /\ ~b[p].reading
                        /\ b[p].id = IF p <= m THEN e[p].id ELSE None,
         \A i \in S : name[i] # 0 => WholeOf(disk[name[i]], len)
  PROVE  FilesAre(b, name, disk, n, S, len)
  <1>1. Owned(b, name, n)
    <2>1. \A p \in Obj : b[p].fd <= n  OBVIOUS
    <2> QED BY <2>1 DEF FilesAre, Owned
  <1>2. Apart(b, name, S)
    <2>1. ASSUME NEW p \in Obj, NEW q \in Obj, b[p].id = b[q].id, b[q].id \in S
          PROVE  p = q
      <3>1. p <= m /\ q <= m  BY <2>1, NoObjects
      <3>2. p \in DOMAIN e /\ q \in DOMAIN e /\ e[p].id = b[p].id /\ e[q].id = b[q].id
        BY <3>1 DEF Obj
      <3> QED BY <2>1, <3>2 DEF Entries
    <2> QED BY <2>1 DEF Apart
  <1>3. Tagged(b, n, len)
    <2>1. \A p \in Obj : b[p].tag <= n  OBVIOUS
    <2> QED BY <2>1 DEF FilesAre, Tagged
  <1>4. Contents(b, disk, S, len)  BY DEF Contents
  <1>5. Files(b, name, disk, S, len)  BY DEF Files
  <1> QED BY <1>1, <1>2, <1>3, <1>4, <1>5 DEF FilesAre

\* What has come of an object is written, up to piece k.
LEMMA WroteFiles ==
  ASSUME NEW a \in [Obj -> CacheObj], AllFormed(a),
         NEW name \in [Id -> 0..MaxDownloads], NEW disk \in [Download -> Content],
         NEW n \in Nat, NEW S, NEW len, S \subseteq Id, FilesAre(a, name, disk, n, S, len),
         NEW o \in Obj, NEW k \in Nat, k # 0 => a[o].tag # 0,
         a[o].id \in S /\ ~a[o].deleted => k <= a[o].size,
         NEW b, b = [a EXCEPT ![o] = Advanced(a[o], k)], NEW to, to = Wrote(disk, a[o], k)
  PROVE  FilesAre(b, name, to, n, S, len)
  <1>1. a[o] \in CacheObj /\ a[o].out \in Nat /\ a[o].off \in Nat
    <2>1. a[o] \in CacheObj  OBVIOUS
    <2> QED BY <2>1, ObjFields
  <1>2. CASE a[o].fd = 0 \/ k <= a[o].out
    <2>1. Advanced(a[o], k) = a[o] /\ to = disk  BY <1>2 DEF Advanced, Wrote
    <2>2. b = a  BY <2>1
    <2> QED BY <2>1, <2>2
  <1>3. CASE ~(a[o].fd = 0 \/ k <= a[o].out)
    <2>1. a[o].out < k /\ k # 0 /\ a[o].fd # 0 /\ a[o].tag # 0  BY <1>1, <1>3
    <2>2. Only(a, b, o) /\ b[o] = Advanced(a[o], k)  BY DEF Only
    <2>3. Onward(a[o], b[o], k)
      <3>1. PICK x \in CacheObj : x = a[o]  BY <1>1
      <3>2. PICK w \in Nat : w = a[o].off + k - a[o].out  BY <1>1, <2>1
      <3>3. b[o] = [x EXCEPT !.out = k, !.off = w]
        <4>1. Advanced(a[o], k) = [a[o] EXCEPT !.out = k, !.off = a[o].off + k - a[o].out]
          BY <1>3 DEF Advanced
        <4> QED BY <2>2, <3>1, <3>2, <4>1
      <3>4. /\ b[o].id = x.id /\ b[o].deleted = x.deleted /\ b[o].fd = x.fd /\ b[o].tag = x.tag
            /\ b[o].reading = x.reading /\ b[o].avail = x.avail /\ b[o].size = x.size
            /\ b[o].out = k /\ b[o].off = w
        BY <3>3 DEF CacheObj
      <3> QED BY <3>1, <3>2, <3>4 DEF Onward
    <2>4. PICK w : w = Overwrite(disk[a[o].fd], a[o].off, k - a[o].out, a[o].tag)  OBVIOUS
    <2>5. to = [disk EXCEPT ![a[o].fd] = w]  BY <1>3, <2>4 DEF Wrote
    <2>6. Only(a, b, o)  BY <2>2
    <2>7. /\ a \in [Obj -> CacheObj] /\ AllFormed(a) /\ name \in [Id -> 0..MaxDownloads]
          /\ disk \in [Download -> Content] /\ n \in Nat /\ S \subseteq Id
          /\ FilesAre(a, name, disk, n, S, len) /\ o \in Obj /\ k \in Nat
          /\ a[o].id \in S /\ ~a[o].deleted => k <= a[o].size
      OBVIOUS
    <2> QED BY ONLY <2>1, <2>3, <2>4, <2>5, <2>6, <2>7, FilesWritten
  <1> QED BY <1>2, <1>3

\* What Advanced() leaves alone.
LEMMA AdvancedIs ==
  ASSUME NEW x \in CacheObj, NEW k \in Nat, NEW y, y = Advanced(x, k)
  PROVE  /\ y.id = x.id /\ y.deleted = x.deleted /\ y.fd = x.fd /\ y.tag = x.tag
         /\ y.reading = x.reading /\ y.size = x.size
         /\ x.fd = 0 \/ k <= y.out
         /\ y.out = x.out \/ y.out = k
  <1>1. CASE x.fd = 0 \/ k <= x.out  BY <1>1 DEF Advanced
  <1>2. CASE ~(x.fd = 0 \/ k <= x.out)
    <2>1. PICK w : w = x.off + k - x.out  OBVIOUS
    <2>2. y = [x EXCEPT !.out = k, !.off = w]  BY <1>2, <2>1 DEF Advanced
    <2> QED BY <2>2 DEF CacheObj
  <1> QED BY <1>1, <1>2

\* An object is closed or destroyed when nobody has it any more, all of it being there.
LEMMA ReleaseFiles ==
  ASSUME NEW c \in Cache, AllFormed(c.obj), NEW d, NEW o \in Obj, NEW m \in Nat,
         Releases(c, d, o, m), NEW n \in Nat, NEW S, S \subseteq Id, NEW len,
         FilesOK(c, n, S, len), c.obj[o].ref = m /\ c.obj[o].id \in S => ~c.obj[o].reading
  PROVE  FilesOK(d, n, S, len)
  <1>1. PICK a \in [Obj -> CacheObj] : a = c.obj  BY Fields
  <1>2. PICK x \in CacheObj : x = a[o]  OBVIOUS
  <1>3. PICK k \in Nat : k = Ended(x)
    <2>1. x.size \in Nat  BY ObjFields
    <2> QED BY <2>1 DEF Ended
  <1>4. k # 0 => x.tag # 0  BY <1>3 DEF Ended
  <1>5. k <= x.size
    <2>1. x.size \in Nat  BY ObjFields
    <2> QED BY <1>3, <2>1 DEF Ended
  <1>6. PICK to : to = Wrote(c.disk, x, k)  OBVIOUS
  <1>7. PICK y : y = Advanced(x, k)  OBVIOUS
  <1>8. PICK b : b = [a EXCEPT ![o] = y]  OBVIOUS
  <1>9. FilesAre(a, c.name, c.disk, n, S, len)  BY <1>1 DEF FilesOK
  <1>10. FilesAre(b, c.name, to, n, S, len)
    <2>1. c.name \in [Id -> 0..MaxDownloads] /\ c.disk \in [Download -> Content]  BY Fields
    <2>2. AllFormed(a)  BY <1>1
    <2> QED BY <1>2, <1>4, <1>5, <1>6, <1>7, <1>8, <1>9, <2>1, <2>2, WroteFiles
  <1>11. b[o] = y /\ Only(a, b, o)  BY <1>8 DEF Only
  <1>12. /\ y.id = x.id /\ y.deleted = x.deleted /\ y.fd = x.fd /\ y.tag = x.tag
         /\ y.reading = x.reading /\ y.size = x.size
         /\ x.fd = 0 \/ k <= y.out
    BY <1>7, AdvancedIs
  <1>13. CASE x.ref > m
    <2>1. Puts(c, d, o, Fewer(x, m)) /\ d.disk = c.disk
      <3>1. x.ref \in Nat  BY ObjFields
      <3> QED BY <1>1, <1>2, <1>13, <3>1 DEF Releases
    <2>2. PICK r : r = x.ref - m  OBVIOUS
    <2>3. PICK z : z = [x EXCEPT !.ref = r]  OBVIOUS
    <2>4. View(x, z)  BY <2>3 DEF View, CacheObj
    <2>5. Fewer(x, m) = z  BY <2>2, <2>3 DEF Fewer
    <2>6. d.obj = [a EXCEPT ![o] = z] /\ d.name = c.name  BY <1>1, <2>1, <2>5 DEF Puts
    <2>7. \A p \in Obj : View(a[p], d.obj[p])
      <3>1. \A p \in Obj : p # o => d.obj[p] = a[p]  BY <2>6
      <3>2. d.obj[o] = z  BY <2>6
      <3> QED BY <1>2, <2>4, <3>1, <3>2 DEF View
    <2>8. FilesAre(d.obj, c.name, c.disk, n, S, len)  BY <1>9, <2>7, FilesSame
    <2> QED BY <2>1, <2>6, <2>8 DEF FilesOK
  <1>14. CASE x.ref = m /\ ~x.deleted
    <2>1. Puts(c, d, o, Closed(Fewer(x, m))) /\ d.disk = to
      <3>1. x.ref \in Nat  BY ObjFields
      <3> QED BY <1>1, <1>2, <1>3, <1>6, <1>14, <3>1 DEF Releases
    <2>2. PICK z : z = Closed(Fewer(x, m))  OBVIOUS
    <2>3. Fewer(x, m).id = x.id /\ Fewer(x, m).deleted = x.deleted  BY DEF Fewer, CacheObj
    <2>4. z.id = x.id /\ z.deleted = x.deleted /\ z.fd = 0 /\ z.tag = 0 /\ ~z.reading
      BY <2>2, <2>3, ClosedIs DEF Shut
    <2>5. d.obj = [a EXCEPT ![o] = z] /\ d.name = c.name  BY <1>1, <2>1, <2>2 DEF Puts
    <2>6. d.obj[o] = z /\ Only(b, d.obj, o)  BY <1>8, <2>5 DEF Only
    <2>7. ASSUME b[o].id \in S, ~b[o].deleted, b[o].tag # 0
          PROVE  b[o].fd # 0 /\ WholeOf(to[b[o].fd], len)
      <3>1. Filled(y, to, len)  BY <1>10, <1>11, <2>7 DEF FilesAre, Contents
      <3>2. x.tag # 0 /\ x.fd # 0 /\ k = x.size
        <4>1. x.tag # 0  BY <1>11, <1>12, <2>7
        <4>2. x.fd # 0  BY <1>1, <1>2, <4>1 DEF AllFormed, Formed, Shut
        <4> QED BY <1>3, <4>1, <4>2 DEF Ended
      <3>3. ~y.reading  BY <1>1, <1>2, <1>11, <1>12, <1>14, <2>7
      <3>4. y.out = x.size
        <4>1. y.out <= y.size /\ k <= y.out  BY <1>12, <3>1, <3>2 DEF Filled
        <4>2. x.size \in Nat /\ x.out \in Nat  BY ObjFields
        <4>3. y.out \in Nat
          <5>1. y.out = x.out \/ y.out = k  BY <1>7, AdvancedIs
          <5> QED BY <4>2, <5>1
        <4> QED BY <1>12, <3>2, <4>1, <4>2, <4>3
      <3>5. to[y.fd] = Pieces(x.size, x.tag) /\ len[x.tag] = x.size
        BY <1>12, <3>1, <3>3, <3>4 DEF Filled
      <3>6. x.tag \in Download /\ x.size # None
        <4>1. x.tag \in 0..MaxDownloads /\ x.size \in Nat  BY ObjFields
        <4> QED BY <3>2, <4>1, HttpCacheAssumption DEF Download
      <3>7. WholeOf(to[y.fd], len)  BY <3>5, <3>6 DEF WholeOf
      <3> QED BY <1>11, <1>12, <3>2, <3>7
    <2>8. FilesAre(d.obj, c.name, to, n, S, len)
      <3>1. /\ d.obj[o].id = b[o].id /\ d.obj[o].deleted = b[o].deleted /\ d.obj[o].fd = 0
            /\ d.obj[o].tag = 0 /\ ~d.obj[o].reading
        BY <1>11, <1>12, <2>4, <2>6
      <3>2. PICK e : e = d.obj  OBVIOUS
      <3> QED BY <1>10, <2>6, <2>7, <3>1, FilesClosed
    <2> QED BY <2>1, <2>5, <2>8 DEF FilesOK
  <1>15. CASE x.ref = m /\ x.deleted
    <2>1. Drops(c, d, o) /\ d.disk = to
      <3>1. x.ref \in Nat  BY ObjFields
      <3> QED BY <1>1, <1>2, <1>3, <1>6, <1>15, <3>1 DEF Releases
    <2>2. d.obj = [a EXCEPT ![o] = Free] /\ d.name = c.name  BY <1>1, <2>1 DEF Drops
    <2>3. d.obj[o] = Free /\ Only(b, d.obj, o) /\ b[o].deleted
      BY <1>8, <1>11, <1>12, <1>15, <2>2 DEF Only
    <2>4. FilesAre(d.obj, c.name, to, n, S, len)  BY <1>10, <2>3, FilesFreed
    <2> QED BY <2>1, <2>2, <2>4 DEF FilesOK
  <1> QED
    <2>1. x.ref > m \/ x.ref = m  BY <1>1, <1>2 DEF Releases
    <2> QED BY <1>13, <1>14, <1>15, <2>1

\* What Gone() leaves alone.
LEMMA GoneFields ==
  ASSUME NEW x \in CacheObj, NEW y, y = Gone(x)
  PROVE  /\ y.id = x.id /\ y.fd = x.fd /\ y.tag = x.tag /\ y.reading = x.reading
         /\ y.deleted
  <1>1. PICK q : q = (x.quiet \/ x.fd # 0)  OBVIOUS
  <1>2. y = [x EXCEPT !.deleted = TRUE, !.quiet = q]  BY <1>1 DEF Gone
  <1> QED BY <1>2 DEF CacheObj

\* An object is deleted.
LEMMA DeleteFiles ==
  ASSUME NEW c \in Cache, NEW d, NEW o \in Obj, c.obj[o].id \in Id, Deletes(c, d, o),
         NEW n \in Nat, NEW S, S \subseteq Id, NEW len, FilesOK(c, n, S, len)
  PROVE  FilesOK(d, n, S, len)
  <1>1. PICK a \in [Obj -> CacheObj] : a = c.obj  BY Fields
  <1>2. PICK x \in CacheObj : x = a[o]  OBVIOUS
  <1>3. PICK y : y = Gone(x)  OBVIOUS
  <1>4. y.id = x.id /\ y.fd = x.fd /\ y.tag = x.tag /\ y.reading = x.reading /\ y.deleted
    BY <1>3, GoneFields
  <1>5. PICK i \in Id : i = x.id  BY <1>1, <1>2
  <1>6. FilesAre(a, c.name, c.disk, n, S, len)  BY <1>1 DEF FilesOK
  <1>7. ASSUME NEW m, Marks(c, m, o), m.disk = c.disk, ~x.deleted
        PROVE  /\ FilesAre(m.obj, m.name, c.disk, n, S, len)
               /\ m.obj = [a EXCEPT ![o] = y]
    <2>1. PICK b : b = [a EXCEPT ![o] = y]  OBVIOUS
    <2>2. PICK to : to = [c.name EXCEPT ![i] = 0]  OBVIOUS
    <2>3. m.obj = b /\ m.name = to  BY <1>1, <1>2, <1>3, <1>5, <1>7, <2>1, <2>2 DEF Marks
    <2>4. b[o] = y /\ Only(a, b, o)  BY <2>1 DEF Only
    <2>5. c.name \in [Id -> 0..MaxDownloads]  BY Fields
    <2>6. FilesAre(b, to, c.disk, n, S, len)
      <3>1. to = [c.name EXCEPT ![a[o].id] = 0] /\ a[o].id \in Id  BY <1>2, <1>5, <2>2
      <3>2. /\ b[o].id = a[o].id /\ b[o].fd = a[o].fd /\ b[o].tag = a[o].tag
            /\ b[o].reading => a[o].reading /\ ~a[o].deleted /\ b[o].deleted
        BY <1>2, <1>4, <1>7, <2>4
      <3>3. b[o].reading => a[o].reading  BY <1>2, <1>4, <2>4
      <3>4. b[o].deleted /\ ~a[o].deleted  BY <1>2, <1>4, <1>7, <2>4
      <3> QED BY <1>6, <2>4, <2>5, <3>1, <3>2, <3>3, <3>4, FilesDeleted
    <2> QED BY <2>1, <2>3, <2>6
  <1>8. CASE d = c  BY <1>8
  <1>9. CASE ~x.deleted /\ Marks(c, d, o) /\ d.disk = c.disk
    BY <1>7, <1>9 DEF FilesOK
  <1>10. CASE ~x.deleted /\ \E m \in Cache : /\ Marks(c, m, o) /\ Drops(m, d, o)
                                             /\ m.disk = c.disk /\ d.disk = c.disk
    <2>1. PICK m \in Cache : Marks(c, m, o) /\ Drops(m, d, o) /\ m.disk = c.disk /\ d.disk = c.disk
      BY <1>10
    <2>2. FilesAre(m.obj, m.name, c.disk, n, S, len) /\ m.obj = [a EXCEPT ![o] = y]
      BY <1>7, <1>10, <2>1
    <2>3. PICK b : b = [a EXCEPT ![o] = y]  OBVIOUS
    <2>4. b[o].deleted /\ FilesAre(b, m.name, c.disk, n, S, len)  BY <1>4, <2>2, <2>3
    <2>5. d.obj = [b EXCEPT ![o] = Free] /\ d.name = m.name  BY <2>1, <2>2, <2>3 DEF Drops
    <2>6. d.obj[o] = Free /\ Only(b, d.obj, o)  BY <2>3, <2>5 DEF Only
    <2>7. FilesAre(d.obj, m.name, c.disk, n, S, len)  BY <2>4, <2>6, FilesFreed
    <2> QED BY <2>1, <2>5, <2>7 DEF FilesOK
  <1> QED BY <1>1, <1>2, <1>8, <1>9, <1>10 DEF Deletes

\* A client has an object more.
LEMMA AcquireFiles ==
  ASSUME NEW c \in Cache, NEW d, NEW o \in Obj, Acquires(c, d, o),
         NEW n, NEW S, NEW len, FilesOK(c, n, S, len)
  PROVE  FilesOK(d, n, S, len)
  <1>1. PICK a \in [Obj -> CacheObj] : a = c.obj  BY Fields
  <1>2. PICK x \in CacheObj : x = a[o]  OBVIOUS
  <1>3. PICK r : r = x.ref + 1  OBVIOUS
  <1>4. PICK z : z = [x EXCEPT !.ref = r]  OBVIOUS
  <1>5. View(x, z)  BY <1>4 DEF View, CacheObj
  <1>6. More(x) = z  BY <1>3, <1>4 DEF More
  <1>7. d.obj = [a EXCEPT ![o] = z] /\ d.name = c.name /\ d.disk = c.disk
    BY <1>1, <1>2, <1>6 DEF Acquires
  <1>8. \A p \in Obj : View(a[p], d.obj[p])
    <2>1. \A p \in Obj : p # o => d.obj[p] = a[p]  BY <1>7
    <2>2. d.obj[o] = z  BY <1>7
    <2> QED BY <1>2, <1>5, <2>1, <2>2 DEF View
  <1>9. FilesAre(a, c.name, c.disk, n, S, len)  BY <1>1 DEF FilesOK
  <1>10. FilesAre(d.obj, c.name, c.disk, n, S, len)  BY <1>8, <1>9, FilesSame
  <1> QED BY <1>7, <1>10 DEF FilesOK

-----------------------------------------------------------------------------
(* The steps of a client keep the contents *)

\* The contents are right, and what is received has somebody who receives it.
Filed(c, R, n, S, len) == FilesOK(c, n, S, len) /\ Received(c.obj, R, S)

\* Nothing is received that was not, and who was not downloading does not matter.
LEMMA ReceivedKept ==
  ASSUME NEW a, NEW b, NEW R, NEW Q, NEW u \in Client, NEW S, Received(a, R, S),
         ReadsNoMore(a, b),
         ~Receiving(R[u]), \A v \in Client : v # u => Q[v] = R[v]
  PROVE  Received(b, Q, S)
  <1>1. R[u].state \notin {"down", "orphan"}  BY DEF Receiving
  <1>2. ASSUME NEW p \in Obj, b[p].reading, b[p].id \in S
        PROVE  \E v \in Client : Q[v].state \in {"down", "orphan"} /\ Q[v].obj = p
    <2>1. PICK v \in Client : R[v].state \in {"down", "orphan"} /\ R[v].obj = p
      BY <1>2 DEF Received, ReadsNoMore
    <2>2. Q[v] = R[v]  BY <1>1, <2>1
    <2> QED BY <2>1, <2>2
  <1> QED BY <1>2 DEF Received

\* Nor when the clients are the same.
LEMMA ReceivedSame ==
  ASSUME NEW a, NEW b, NEW R, NEW S, Received(a, R, S), ReadsNoMore(a, b)
  PROVE  Received(b, R, S)
  BY DEF Received, ReadsNoMore

\* Release() and Delete() do not begin to receive anything.
LEMMA ReadingFewer ==
  ASSUME NEW c \in Cache, NEW d, NEW o \in Obj
  PROVE  /\ \A m \in Nat : Releases(c, d, o, m) =>
                             ReadsNoMore(c.obj, d.obj)
         /\ Deletes(c, d, o) => ReadsNoMore(c.obj, d.obj)
         /\ Acquires(c, d, o) => ReadsNoMore(c.obj, d.obj)
  <1>1. PICK a \in [Obj -> CacheObj] : a = c.obj  BY Fields
  <1>2. PICK x \in CacheObj : x = a[o]  OBVIOUS
  <1>3. \A y : d.obj = [a EXCEPT ![o] = y] /\ (y.reading => x.reading /\ y.id = x.id) =>
                 ReadsNoMore(a, d.obj)
    BY <1>2 DEF ReadsNoMore
  <1>4. ~Free.reading  BY DEF Free
  <1>5. ASSUME NEW m \in Nat, Releases(c, d, o, m)
        PROVE  ReadsNoMore(a, d.obj)
    <2>1. PICK y : y = Fewer(x, m)  OBVIOUS
    <2>2. y.reading = x.reading /\ y.id = x.id
      <3>1. PICK r : r = x.ref - m  OBVIOUS
      <3>2. y = [x EXCEPT !.ref = r]  BY <2>1, <3>1 DEF Fewer
      <3> QED BY <3>2 DEF CacheObj
    <2>3. PICK z : z = Closed(y)  OBVIOUS
    <2>4. ~z.reading  BY <2>3, ClosedIs DEF Shut
    <2>5. \/ d.obj = [a EXCEPT ![o] = y] \/ d.obj = [a EXCEPT ![o] = z]
          \/ d.obj = [a EXCEPT ![o] = Free]
      BY <1>1, <1>2, <1>5, <2>1, <2>3 DEF Releases, Puts, Drops
    <2> QED BY <1>3, <1>4, <2>2, <2>4, <2>5
  <1>6. ASSUME Deletes(c, d, o)
        PROVE  ReadsNoMore(a, d.obj)
    <2>1. PICK y : y = Gone(x)  OBVIOUS
    <2>2. y.reading = x.reading /\ y.id = x.id  BY <2>1, GoneFields
    <2>3. PICK b : b = [a EXCEPT ![o] = y]  OBVIOUS
    <2>4. d.obj = a \/ d.obj = b \/ d.obj = [b EXCEPT ![o] = Free]
      BY <1>1, <1>2, <1>6, <2>1, <2>3 DEF Deletes, Marks, Drops
    <2>5. [b EXCEPT ![o] = Free] = [a EXCEPT ![o] = Free]  BY <2>3
    <2>6. d.obj = a => ReadsNoMore(a, d.obj)  BY DEF ReadsNoMore
    <2> QED BY <1>3, <1>4, <2>2, <2>3, <2>4, <2>5, <2>6
  <1>7. ASSUME Acquires(c, d, o)
        PROVE  ReadsNoMore(a, d.obj)
    <2>1. PICK y : y = More(x)  OBVIOUS
    <2>2. y.reading = x.reading /\ y.id = x.id
      <3>1. PICK r : r = x.ref + 1  OBVIOUS
      <3>2. y = [x EXCEPT !.ref = r]  BY <2>1, <3>1 DEF More
      <3> QED BY <3>2 DEF CacheObj
    <2>3. d.obj = [a EXCEPT ![o] = y]  BY <1>1, <1>2, <1>7, <2>1 DEF Acquires
    <2> QED BY <1>3, <2>2, <2>3
  <1>8. \A m \in Nat : Releases(c, d, o, m) => ReadsNoMore(c.obj, d.obj)
    BY <1>1, <1>5
  <1>9. Deletes(c, d, o) => ReadsNoMore(c.obj, d.obj)
    BY <1>1, <1>6
  <1>10. Acquires(c, d, o) => ReadsNoMore(c.obj, d.obj)
    BY <1>1, <1>7
  <1> QED BY <1>8, <1>9, <1>10

\* Clients that have an object no more, and did not receive it, give it back.
LEMMA ReleaseFiled ==
  ASSUME NEW c, NEW H, NEW R, NEW n \in Nat, NEW ind, NEW bad, Sound(c, H, R, n, ind, bad),
         NEW o \in Obj, NEW K \in SUBSET H[o], H[o] # {}, NEW m, m = Cardinality(K),
         \A v \in K : R[v].obj # o,
         NEW S, S \subseteq Id, NEW len, Filed(c, R, n, S, len)
  PROVE  Filed(Release(c, o, m), R, n, S, len)
  <1>1. PICK d : d = Release(c, o, m)  OBVIOUS
  <1>2. Releases(c, d, o, m) /\ (c.obj[o].ref = m <=> H[o] \ K = {})
    <2>1. Valid(c, H, n, ind, bad)  BY SoundIs
    <2>2. PICK G : G = [H EXCEPT ![o] = @ \ K]  OBVIOUS
    <2>3. Valid(d, G, n, ind, bad) /\ Releases(c, d, o, m)  BY <1>1, <2>1, <2>2, ReleaseOK
    <2>4. c.obj[o].ref = Cardinality(H[o]) /\ H[o] \in SUBSET Client
      BY SoundIs DEF Counted
    <2>5. PICK h : h = H[o] \ K  OBVIOUS
    <2>6. Cardinality(H[o]) = m <=> h = {}  BY <2>4, <2>5, Fewest
    <2> QED BY <2>3, <2>4, <2>5, <2>6
  <1>3. m \in Nat
    <2>1. H \in [Obj -> SUBSET Client]  BY SoundIs
    <2>2. K \in SUBSET Client  BY <2>1
    <2> QED BY <2>2, ClientsFinite
  <1>4. c.obj[o].ref = m /\ c.obj[o].id \in S => ~c.obj[o].reading
    <2> SUFFICES ASSUME c.obj[o].reading, c.obj[o].id \in S
                 PROVE  H[o] \ K # {}
      BY <1>2
    <2>1. PICK v \in Client : R[v].obj = o  BY DEF Filed, Received
    <2>2. v \in H[o]  BY <2>1, SoundIs DEF HasIn
    <2> QED BY <2>1, <2>2
  <1>5. c \in Cache /\ AllFormed(c.obj)  BY SoundIs
  <1>6. FilesOK(d, n, S, len)  BY <1>2, <1>3, <1>4, <1>5, ReleaseFiles DEF Filed
  <1>7. ReadsNoMore(c.obj, d.obj)  BY <1>2, <1>3, <1>5, ReadingFewer
  <1>8. Received(d.obj, R, S)  BY <1>7, ReceivedSame DEF Filed
  <1> QED BY <1>1, <1>6, <1>8 DEF Filed

\* A client gives back its object.
LEMMA BackFiled ==
  ASSUME client \in [Client -> HTTPData], NEW u \in Client, NEW o \in Obj,
         client[u].obj \in {None, o}, NEW c, NEW n \in Nat, NEW ind, NEW bad,
         NEW R, R = [client EXCEPT ![u] = NoClient],
         Sound(c, Joined(u, o), R, n, ind, bad),
         NEW S, S \subseteq Id, NEW len, Filed(c, R, n, S, len)
  PROVE  Filed(Release(c, o, 1), R, n, S, len)
  <1>1. PICK G : G = Joined(u, o)  OBVIOUS
  <1>2. G \in [Obj -> SUBSET Client] /\ u \in G[o]
    <2>1. \A v \in Client : v # u => R[v] = client[v]  OBVIOUS
    <2> QED BY <1>1, <2>1, JoinedIs
  <1>3. PICK K : K = {u}  OBVIOUS
  <1>4. K \in SUBSET G[o] /\ G[o] # {} /\ 1 = Cardinality(K)  BY <1>2, <1>3, FS_Singleton
  <1>5. \A v \in K : R[v].obj # o  BY <1>3, NoClientIs, NoObjects
  <1>6. Sound(c, G, R, n, ind, bad)  BY <1>1
  <1> QED BY <1>4, <1>5, <1>6, ReleaseFiled

\* A client that has an object goes, now or when all is written.
LEMMA FinishFiled ==
  ASSUME client \in [Client -> HTTPData], NEW u \in Client, NEW o \in Obj,
         client[u].obj \in {None, o}, NEW c, NEW n \in Nat, NEW ind, NEW bad,
         Sound(c, Joined(u, o), client, n, ind, bad), ~Receiving(client[u]),
         Finish(c, u, o), NEW S, S \subseteq Id, NEW len, Filed(c, client, n, S, len)
  PROVE  Filed(cache', client', n, S, len)
  <1>1. Deaf(c.obj, u)  BY NotReceiving
  <1>2. CASE cache' = Release(c, o, 1) /\ client' = Leave(client, {u})
    <2>1. PICK R : R = [client EXCEPT ![u] = NoClient]  OBVIOUS
    <2>2. client' = R  BY <1>2, <2>1 DEF Leave
    <2>3. Attuned(c.obj, NoClient, u)  BY <1>1, NoClientIs DEF Deaf
    <2>4. Sound(c, Joined(u, o), R, n, ind, bad)  BY <2>1, <2>3, NoClientIs, SwapSound
    <2>5. \A v \in Client : v # u => R[v] = client[v]  BY <2>1
    <2>6. Received(c.obj, R, S)  BY <2>5, ReceivedKept DEF Filed, ReadsNoMore
    <2>7. Filed(c, R, n, S, len)  BY <2>6 DEF Filed
    <2>8. Filed(Release(c, o, 1), R, n, S, len)  BY <2>1, <2>4, <2>7, BackFiled
    <2> QED BY <1>2, <2>2, <2>8
  <1>3. ASSUME cache' = c,
               client' = [client EXCEPT ![u] = [NoClient EXCEPT !.state = "closing", !.obj = o]]
        PROVE  Filed(cache', client', n, S, len)
    <2>1. PICK Q : Q = client'  OBVIOUS
    <2>2. \A v \in Client : v # u => Q[v] = client[v]  BY <1>3, <2>1
    <2>3. Received(c.obj, Q, S)  BY <2>2, ReceivedKept DEF Filed, ReadsNoMore
    <2> QED BY <1>3, <2>1, <2>3 DEF Filed
  <1> QED BY <1>2, <1>3 DEF Finish

\* An object that somebody has is loaded.
LEMMA LoadFiled ==
  ASSUME NEW c, NEW H, NEW R, NEW n \in Nat, NEW ind, NEW bad, Sound(c, H, R, n, ind, bad),
         NEW o \in Obj, NEW i \in Id, c.obj[o].id = i, c.obj[o].fd = 0, c.name[i] # 0,
         NEW S, S \subseteq Id, NEW len, i \in S => ~c.obj[o].deleted,
         FilesOK(c, n, S, len), Received(c.obj, R, S)
  PROVE  /\ Filed(Load(c, o), R, n, S, len)
         /\ ~Load(c, o).obj[o].reading
         /\ Load(c, o).obj[o].deleted = c.obj[o].deleted
         /\ Load(c, o).obj[o].id = i
  <1>1. c \in Cache /\ AllFormed(c.obj)  BY SoundIs
  <1>2. PICK a \in [Obj -> CacheObj] : a = c.obj  BY <1>1, Fields
  <1>3. PICK x \in CacheObj : x = a[o]  OBVIOUS
  <1>4. PICK f : f = c.name[i]  OBVIOUS
  <1>5. PICK d : d = Load(c, o)  OBVIOUS
  <1>6. PICK w : w = c.disk[f]  OBVIOUS
  <1>7. PICK y : y = Opened(x, f, w)  OBVIOUS
  <1>8. Puts(c, d, o, y) /\ d.disk = c.disk
    <2>1. /\ Puts(c, Load(c, o), o, Opened(c.obj[o], f, c.disk[f]))
          /\ Load(c, o).disk = c.disk
      BY <1>1, <1>4, LoadIs
    <2> QED BY <1>2, <1>3, <1>5, <1>6, <1>7, <2>1
  <1>9. PICK b : b = d.obj  OBVIOUS
  <1>10. b = [a EXCEPT ![o] = y] /\ d.name = c.name  BY <1>2, <1>8, <1>9 DEF Puts
  <1>11. b[o] = y /\ Only(a, b, o)  BY <1>10 DEF Only
  <1>12. y = [x EXCEPT !.fd = f, !.avail = w]  BY <1>7 DEF Opened
  <1>13. y.id = x.id /\ y.deleted = x.deleted /\ y.reading = x.reading  BY <1>12 DEF CacheObj
  <1>14. ~x.reading  BY <1>1, <1>2, <1>3 DEF AllFormed, Formed, Shut
  <1>15. FilesAre(b, c.name, c.disk, n, S, len)
    <2>1. c.name \in [Id -> 0..MaxDownloads]  BY <1>1, Fields
    <2>2. AllFormed(a) /\ FilesAre(a, c.name, c.disk, n, S, len)  BY <1>1, <1>2 DEF FilesOK
    <2>3. a[o].id = i /\ f = c.name[i] /\ f # 0 /\ a[o].fd = 0 /\ (i \in S => ~a[o].deleted)
      BY <1>2, <1>4
    <2>4. b[o] = Opened(a[o], f, c.disk[f])  BY <1>3, <1>6, <1>7, <1>11
    <2>5. Only(a, b, o)  BY <1>11
    <2> QED BY <2>1, <2>2, <2>3, <2>4, <2>5, FilesLoaded
  <1>16. FilesOK(d, n, S, len)  BY <1>8, <1>9, <1>10, <1>15 DEF FilesOK
  <1>17. Received(b, R, S)
    <2>1. ReadsNoMore(a, b)  BY <1>3, <1>10, <1>13 DEF ReadsNoMore
    <2> QED BY <1>2, <2>1, ReceivedSame
  <1> QED BY <1>2, <1>3, <1>5, <1>9, <1>11, <1>13, <1>14, <1>16, <1>17 DEF Filed

\* The invariant is that the contents are right, for the resources nothing has happened to.
LEMMA StepFiles ==
  ASSUME NEW S, S = Id \ (torn' \cup forked'), Filed(cache', client', down', S, length'),
         Entries(index', S), cut' \subseteq forked'
  PROVE  FilesInv'
  <1>1. Clean' = S  BY DEF Clean
  <1> QED BY <1>1 DEF FilesInv, Filed

\* The resources that nothing has happened to, before a step and after it.
LEMMA FilesState ==
  ASSUME FilesInv
  PROVE  /\ Filed(cache, client, down, Clean, length) /\ Entries(index, Clean)
         /\ cut \subseteq forked /\ Clean \subseteq Id
  BY DEF FilesInv, Filed, Clean

\* A step that is seen by the cache and the clients only.
LEMMA QuietFiles ==
  ASSUME FilesInv, Quiet, Filed(cache', client', down, Clean, length)
  PROVE  FilesInv'
  <1>1. PICK S : S = Clean  OBVIOUS
  <1>2. S = Id \ (torn' \cup forked')  BY <1>1 DEF Clean, Quiet, history
  <1>3. Filed(cache', client', down', S, length')  BY <1>1 DEF Quiet, history
  <1>4. Entries(index', S) /\ cut' \subseteq forked'
    BY <1>1, FilesState DEF Quiet, history
  <1> QED BY <1>2, <1>3, <1>4, StepFiles

\* SendFromCache(): who is told the end of a body has all of it.
LEMMA SendFiles ==
  ASSUME BooksInv, FilesInv, NEW u \in Client, NEW o \in Obj, client[u].obj \in {None, o}, NEW c,
         Sound(c, Joined(u, o), client, down, index, failed), ~Receiving(client[u]),
         Filed(c, client, down, Clean, length),
         NEW head \in BOOLEAN, SendFromCache(c, u, o, head)
  PROVE  FilesInv'
  <1>1. client \in [Client -> HTTPData] /\ down \in Nat  BY SoundState, RestIs
  <1>2. Joined(u, o) \in [Obj -> SUBSET Client] /\ u \in Joined(u, o)[o]  BY <1>1, JoinedIs
  <1>3. c \in Cache /\ c.obj[o] \in CacheObj /\ c.obj[o].id # None /\ AllFormed(c.obj)
    BY <1>2, SoundIs DEF Counted
  <1>4. PICK i \in Id : i = c.obj[o].id  BY <1>3 DEF CacheObj
  <1>5. PICK d : d = IF c.obj[o].fd = 0 /\ c.name[i] # 0 THEN Load(c, o) ELSE c  OBVIOUS
  <1>6. PICK x : x = d.obj[o]  OBVIOUS
  <1>7. PICK T : T = IF c.obj[o].deleted THEN Clean \ {i} ELSE Clean  OBVIOUS
  <1>8. T \subseteq Clean /\ T \subseteq Id /\ (i \in T => ~c.obj[o].deleted)
    BY <1>7, FilesState
  <1>9. FilesOK(c, down, T, length) /\ Received(c.obj, client, T)
    <2>1. FilesOK(c, down, T, length)  BY <1>8, FilesFewer DEF Filed, FilesOK
    <2>2. Received(c.obj, client, T)  BY <1>8 DEF Filed, Received
    <2> QED BY <2>1, <2>2
  <1>10. Sound(d, Joined(u, o), client, down, index, failed)
    <2>1. CASE c.obj[o].fd = 0 /\ c.name[i] # 0
      <3>1. Joined(u, o)[o] # {}  BY <1>2
      <3>2. Sound(Load(c, o), Joined(u, o), client, down, index, failed)
        BY <1>1, <1>4, <2>1, <3>1, LoadSound
      <3> QED BY <1>5, <2>1, <3>2
    <2>2. CASE ~(c.obj[o].fd = 0 /\ c.name[i] # 0)
      <3>1. d = c  BY <1>5, <2>2
      <3> QED BY <3>1
    <2> QED BY <2>1, <2>2
  <1>11. /\ Filed(d, client, down, T, length)
         /\ x.deleted = c.obj[o].deleted /\ x.id = i
         /\ d = c \/ (x.fd # 0 /\ ~x.reading)
    <2>1. CASE c.obj[o].fd = 0 /\ c.name[i] # 0
      <3>1. PICK H : H = Joined(u, o)  OBVIOUS
      <3>2. Sound(c, H, client, down, index, failed)  BY <3>1
      <3>3. PICK e : e = Load(c, o)  OBVIOUS
      <3>4. /\ Filed(e, client, down, T, length) /\ ~e.obj[o].reading
            /\ e.obj[o].deleted = c.obj[o].deleted /\ e.obj[o].id = i
        BY <1>1, <1>4, <1>8, <1>9, <2>1, <3>2, <3>3, LoadFiled
      <3>5. e.obj[o].fd # 0
        <4>1. PICK f : f = c.name[i]  OBVIOUS
        <4>2. PICK w : w = c.disk[f]  OBVIOUS
        <4>3. PICK y : y = Opened(c.obj[o], f, w)  OBVIOUS
        <4>4. Puts(c, e, o, y)
          <5>1. Puts(c, Load(c, o), o, Opened(c.obj[o], f, c.disk[f]))
            BY <1>3, <1>4, <2>1, <4>1, LoadIs
          <5> QED BY <3>3, <4>2, <4>3, <5>1
        <4>5. c.obj \in [Obj -> CacheObj]  BY <1>3, Fields
        <4>6. e.obj[o] = y  BY <4>4, <4>5 DEF Puts
        <4>7. y.fd = f  BY <1>3, <4>3 DEF Opened, CacheObj
        <4> QED BY <2>1, <4>1, <4>6, <4>7
      <3>6. d = e  BY <1>5, <2>1, <3>3
      <3> QED BY <1>6, <3>4, <3>5, <3>6
    <2>2. CASE ~(c.obj[o].fd = 0 /\ c.name[i] # 0)
      <3>1. d = c  BY <1>5, <2>2
      <3> QED BY <1>4, <1>6, <1>9, <3>1 DEF Filed
    <2> QED BY <2>1, <2>2
  <1>12. PICK lost : lost = IF x.deleted THEN torn \cup {i} ELSE torn  OBVIOUS
  <1>13. T = Id \ (lost \cup forked)  BY <1>7, <1>11, <1>12 DEF Clean
  <1>14. \/ Finish(d, u, o) /\ Quiet /\ x.fd = 0
         \/ /\ x.reading
            /\ cache' = [d EXCEPT !.obj[o].lis = @ \cup {u}]
            /\ client' = [client EXCEPT ![u] = [state |-> "body", id |-> i, obj |-> o,
                                                got |-> x.avail]]
            /\ Quiet
         \/ /\ x.fd # 0 /\ ~(x.reading /\ ~head)
            /\ Finish(d, u, o)
            /\ torn' = lost
            /\ cut' = IF head \/ IsWhole(x.avail) \/ i \in lost THEN cut ELSE cut \cup {i}
            /\ UNCHANGED <<index, down, length, events, failed, forked>>
    <2>1. CASE x.fd = 0  BY <1>4, <1>5, <1>6, <2>1 DEF SendFromCache
    <2>2. CASE x.fd # 0 /\ x.reading /\ ~head  BY <1>4, <1>5, <1>6, <2>2 DEF SendFromCache
    <2>3. CASE x.fd # 0 /\ ~(x.reading /\ ~head)
      <3>1. torn' = lost  BY <1>4, <1>5, <1>6, <1>12, <2>3 DEF SendFromCache
      <3>2. cut' = IF head \/ IsWhole(x.avail) \/ i \in lost THEN cut ELSE cut \cup {i}
        BY <1>4, <1>5, <1>6, <1>12, <2>3 DEF SendFromCache
      <3>3. Finish(d, u, o) /\ UNCHANGED <<index, down, length, events, failed, forked>>
        BY <1>4, <1>5, <1>6, <2>3 DEF SendFromCache
      <3> QED BY <2>3, <3>1, <3>2, <3>3
    <2> QED BY <2>1, <2>2, <2>3
  <1>15. CASE Finish(d, u, o) /\ Quiet /\ x.fd = 0
    <2>1. d = c  BY <1>11, <1>15
    <2>2. Filed(d, client, down, Clean, length)  BY <2>1
    <2>3. Filed(cache', client', down, Clean, length)
      <3>1. PICK S : S = Clean  OBVIOUS
      <3>2. S \subseteq Id /\ Filed(d, client, down, S, length)  BY <2>2, <3>1, FilesState
      <3>3. Filed(cache', client', down, S, length)  BY <1>1, <1>10, <1>15, <3>2, FinishFiled
      <3> QED BY <3>1, <3>3
    <2> QED BY <1>15, <2>3, QuietFiles
  <1>16. ASSUME x.reading, cache' = [d EXCEPT !.obj[o].lis = @ \cup {u}],
                client' = [client EXCEPT ![u] = [state |-> "body", id |-> i, obj |-> o,
                                                 got |-> x.avail]],
                Quiet
         PROVE  FilesInv'
    <2>1. d = c  BY <1>11, <1>16
    <2>2. PICK a \in [Obj -> CacheObj] : a = d.obj  BY <1>3, <2>1, Fields
    <2>3. PICK l : l = x.lis \cup {u}  OBVIOUS
    <2>4. PICK y : y = [x EXCEPT !.lis = l]  OBVIOUS
    <2>5. x \in CacheObj /\ x = a[o]  BY <1>6, <2>2
    <2>6. View(x, y)  BY <2>4, <2>5 DEF View, CacheObj
    <2>7. PICK b : b = [a EXCEPT ![o] = y]  OBVIOUS
    <2>8. cache' = [d EXCEPT !.obj = b]
      <3>1. d \in Cache  BY <1>3, <2>1
      <3> QED BY <1>6, <1>16, <2>2, <2>3, <2>4, <2>7, <3>1 DEF Cache
    <2>9. cache'.obj = b /\ cache'.name = d.name /\ cache'.disk = d.disk
      <3>1. d \in Cache  BY <1>3, <2>1
      <3> QED BY <2>8, <3>1 DEF Cache
    <2>10. \A p \in Obj : View(a[p], b[p])
      <3>1. b[o] = y /\ \A p \in Obj : p # o => b[p] = a[p]  BY <2>7
      <3> QED BY <2>5, <2>6, <3>1 DEF View
    <2>11. FilesOK(cache', down, Clean, length)
      <3>1. FilesAre(a, d.name, d.disk, down, Clean, length)  BY <2>1, <2>2 DEF Filed, FilesOK
      <3>2. FilesAre(b, d.name, d.disk, down, Clean, length)  BY <2>10, <3>1, FilesSame
      <3> QED BY <2>9, <3>2 DEF FilesOK
    <2>12. PICK Q : Q = client'  OBVIOUS
    <2>13. \A v \in Client : v # u => Q[v] = client[v]  BY <1>1, <1>16, <2>12
    <2>14. Received(b, Q, Clean)
      <3>1. Received(a, client, Clean)  BY <2>1, <2>2 DEF Filed
      <3>2. ReadsNoMore(a, b)  BY <2>10 DEF View, ReadsNoMore
      <3> QED BY <2>13, <3>1, <3>2, ReceivedKept
    <2>15. Filed(cache', client', down, Clean, length)  BY <2>9, <2>11, <2>12, <2>14 DEF Filed
    <2> QED BY <1>16, <2>15, QuietFiles
  <1>17. ASSUME x.fd # 0, ~(x.reading /\ ~head), Finish(d, u, o), torn' = lost,
                cut' = IF head \/ IsWhole(x.avail) \/ i \in lost THEN cut ELSE cut \cup {i},
                UNCHANGED <<index, down, length, events, failed, forked>>
         PROVE  FilesInv'
    <2>1. Filed(cache', client', down, T, length)
      BY <1>1, <1>8, <1>10, <1>11, <1>17, FinishFiled
    <2>2. T = Id \ (torn' \cup forked')  BY <1>13, <1>17
    <2>3. Entries(index', T)  BY <1>8, <1>17, FilesState DEF Entries
    <2>4. cut' \subseteq forked'
      <3>1. ASSUME ~head, ~IsWhole(x.avail), i \notin lost
            PROVE  i \in forked
        <4> SUFFICES ASSUME i \notin forked
                     PROVE  FALSE
          OBVIOUS
        <4>1. i \in T  BY <1>13, <3>1
        <4>2. ~x.deleted /\ ~x.reading  BY <1>12, <1>17, <3>1
        <4>3. Contents(d.obj, d.disk, T, length)  BY <1>11 DEF Filed, FilesOK, FilesAre
        <4>4. /\ x.tag # 0 => Filled(x, d.disk, length)
              /\ x.tag = 0 /\ x.fd # 0 => WholeOf(x.avail, length)
          BY <1>6, <1>11, <4>1, <4>2, <4>3 DEF Contents
        <4>5. x.tag # 0 => WholeOf(x.avail, length)
          <5>1. x \in CacheObj
            <6>1. d.obj \in [Obj -> CacheObj]  BY <1>10, SoundIs
            <6> QED BY <1>6, <6>1
          <5>2. x.tag \in 0..MaxDownloads /\ x.size \in Nat  BY <5>1, ObjFields
          <5>3. x.size # None  BY <5>2, HttpCacheAssumption
          <5>4. x.tag # 0 => x.tag \in Download  BY <5>2, HttpCacheAssumption DEF Download
          <5>5. x.tag # 0 => length[x.tag] = x.size /\ x.avail = Pieces(x.size, x.tag)
            BY <4>2, <4>4 DEF Filled
          <5> QED BY <5>3, <5>4, <5>5 DEF WholeOf
        <4>6. WholeOf(x.avail, length)  BY <1>17, <4>4, <4>5
        <4>7. IsWhole(x.avail)  BY <4>6 DEF WholeOf, IsWhole, Pieces
        <4> QED BY <3>1, <4>7
      <3> QED BY <1>17, <3>1, FilesState
    <2> QED BY <1>17, <2>1, <2>2, <2>3, <2>4, StepFiles
  <1> QED BY <1>14, <1>15, <1>16, <1>17

\* A request is received.
LEMMA RequestFiles ==
  ASSUME BooksInv, FilesInv, NEW u \in Client, NEW i \in Id, Request(u, i)
  PROVE  FilesInv'
  <1>1. /\ Sound(cache, Holders(client), client, down, index, failed) /\ down \in Nat
        /\ client \in [Client -> HTTPData] /\ client[u] = NoClient
    BY SoundState, RestIs DEF Request
  <1>2. ~Receiving(client[u])  BY <1>1, NoClientIs DEF Receiving
  <1>3. ASSUME UNCHANGED cache, NEW r, client' = [client EXCEPT ![u] = r], Quiet
        PROVE  FilesInv'
    <2>1. PICK Q : Q = client'  OBVIOUS
    <2>2. \A v \in Client : v # u => Q[v] = client[v]  BY <1>1, <1>3, <2>1
    <2>3. Filed(cache, client, down, Clean, length)  BY FilesState
    <2>4. Received(cache.obj, Q, Clean)
      BY <1>2, <2>2, <2>3, ReceivedKept DEF Filed, ReadsNoMore
    <2>5. Filed(cache', client', down, Clean, length)  BY <1>3, <2>1, <2>3, <2>4 DEF Filed
    <2> QED BY <1>3, <2>5, QuietFiles
  <1>4. ASSUME NEW o \in Obj, o = cache.hash[i]
        PROVE  /\ Filed(Acquire(cache, o), client, down, Clean, length)
               /\ Sound(Acquire(cache, o), Joined(u, o), client, down, index, failed)
               /\ client[u].obj \in {None, o}
    <2>1. /\ Sound(Acquire(cache, o), Joined(u, o), client, down, index, failed)
          /\ client[u].obj \in {None, o}
      BY <1>1, <1>4, FindSound
    <2>2. cache.obj[o].id # None
      <3>1. Hashed(cache.obj, cache.hash, failed)  BY <1>1, SoundIs DEF BooksOK
      <3>2. cache.obj[o].id = i  BY <1>4, <3>1 DEF Hashed
      <3> QED BY <3>2, NoObjects
    <2>3. PICK d : d = Acquire(cache, o)  OBVIOUS
    <2>4. Acquires(cache, d, o)
      <3>1. PICK B : B = Holders(client)  OBVIOUS
      <3>2. Valid(cache, B, down, index, failed)  BY <1>1, <3>1, SoundIs
      <3>3. u \notin B[o]  BY <1>1, <3>1, NoClientIs, NoObjects DEF Holders
      <3> QED BY <1>1, <2>2, <2>3, <3>2, <3>3, AcquireOK
    <2>5. cache \in Cache  BY <1>1, SoundIs
    <2>6. PICK S : S = Clean  OBVIOUS
    <2>7. FilesOK(cache, down, S, length) /\ Received(cache.obj, client, S)
      BY <2>6, FilesState DEF Filed
    <2>8. FilesOK(d, down, S, length)  BY <2>4, <2>5, <2>7, AcquireFiles
    <2>9. ReadsNoMore(cache.obj, d.obj)  BY <2>4, <2>5, ReadingFewer
    <2>10. Received(d.obj, client, S)  BY <2>7, <2>9, ReceivedSame
    <2> QED BY <2>1, <2>3, <2>6, <2>8, <2>10 DEF Filed
  <1>5. CASE Miss(u, i)  BY <1>3, <1>5 DEF Miss
  <1>6. CASE Stale(u, i)
    <2>1. PICK o \in Obj : o = cache.hash[i]  BY <1>6 DEF Stale
    <2>2. PICK c : c = Acquire(cache, o)  OBVIOUS
    <2>3. PICK Q : Q = client'  OBVIOUS
    <2>4. cache' = c /\ Quiet /\ \A v \in Client : v # u => Q[v] = client[v]
      BY <1>1, <1>6, <2>1, <2>2, <2>3 DEF Stale
    <2>5. Filed(c, client, down, Clean, length)  BY <1>4, <2>1, <2>2
    <2>6. Received(c.obj, Q, Clean)
      <3>1. PICK a : a = c.obj  OBVIOUS
      <3>2. Received(a, client, Clean)  BY <2>5, <3>1 DEF Filed
      <3>3. ReadsNoMore(a, a)  BY DEF ReadsNoMore
      <3> QED BY <1>2, <2>4, <3>1, <3>2, <3>3, ReceivedKept
    <2>7. Filed(cache', client', down, Clean, length)  BY <2>3, <2>4, <2>5, <2>6 DEF Filed
    <2> QED BY <2>4, <2>7, QuietFiles
  <1>7. CASE Hit(u, i)
    <2>1. PICK o \in Obj : o = cache.hash[i]  BY <1>7 DEF Hit
    <2>2. PICK head \in BOOLEAN : SendFromCache(Acquire(cache, o), u, o, head)
      BY <1>7, <2>1 DEF Hit
    <2>3. PICK c : c = Acquire(cache, o)  OBVIOUS
    <2>4. /\ Sound(c, Joined(u, o), client, down, index, failed)
          /\ client[u].obj \in {None, o} /\ Filed(c, client, down, Clean, length)
      BY <1>4, <2>1, <2>3
    <2>5. SendFromCache(c, u, o, head)  BY <2>2, <2>3
    <2> QED BY <1>2, <2>4, <2>5, SendFiles
  <1>8. CASE NotModified(u, i)
    <2>1. PICK o \in Obj : o = cache.hash[i]  BY <1>8 DEF NotModified
    <2>2. PICK c : c = Acquire(cache, o)  OBVIOUS
    <2>3. PICK S : S = Clean  OBVIOUS
    <2>4. /\ Sound(c, Joined(u, o), client, down, index, failed)
          /\ client[u].obj \in {None, o} /\ Filed(c, client, down, S, length) /\ S \subseteq Id
      BY <1>4, <2>1, <2>2, <2>3, FilesState
    <2>5. Finish(c, u, o) /\ Quiet  BY <1>8, <2>1, <2>2 DEF NotModified
    <2>6. Filed(cache', client', down, S, length)  BY <1>1, <1>2, <2>4, <2>5, FinishFiled
    <2> QED BY <2>3, <2>5, <2>6, QuietFiles
  <1> QED BY <1>5, <1>6, <1>7, <1>8 DEF Request

\* The object is still good.
LEMMA RevalidatedFiles ==
  ASSUME BooksInv, FilesInv, NEW u \in Client, Revalidated(u)
  PROVE  FilesInv'
  <1>1. Fetching(u) /\ client[u].obj # None  BY DEF Revalidated
  <1>2. /\ Sound(cache, Holders(client), client, down, index, failed)
        /\ client \in [Client -> HTTPData] /\ ~Receiving(client[u])
        /\ client[u].obj \in Obj \cup {None}
    BY <1>1, FetchingIs
  <1>3. PICK o \in Obj : o = client[u].obj  BY <1>1, <1>2
  <1>4. PICK head \in BOOLEAN : SendFromCache(cache, u, o, head)  BY <1>3 DEF Revalidated
  <1>5. Joined(u, o) = Holders(client)  BY <1>2, <1>3, JoinedIs
  <1>6. Sound(cache, Joined(u, o), client, down, index, failed)  BY <1>2, <1>5
  <1>7. Filed(cache, client, down, Clean, length)  BY FilesState
  <1> QED BY <1>2, <1>3, <1>4, <1>6, <1>7, SendFiles

\* A client that receives nothing has given back the object it has in c.
LEMMA GivenFiled ==
  ASSUME client \in [Client -> HTTPData], NEW u \in Client, NEW o \in Obj, client[u].obj = o,
         ~Receiving(client[u]), NEW c, NEW n \in Nat, NEW ind, NEW bad,
         Sound(c, Holders(client), client, n, ind, bad), NEW R,
         R = [client EXCEPT ![u] = NoClient],
         NEW S, S \subseteq Id, NEW len, Filed(c, client, n, S, len)
  PROVE  Filed(Release(c, o, 1), R, n, S, len)
  <1>1. Deaf(c.obj, u)  BY NotReceiving
  <1>2. Attuned(c.obj, NoClient, u)  BY <1>1, NoClientIs DEF Deaf
  <1>3. Joined(u, o) = Holders(client)
    <2>1. \A v \in Client : v # u => R[v] = client[v]  OBVIOUS
    <2> QED BY <2>1, JoinedIs
  <1>4. Sound(c, Holders(client), R, n, ind, bad)  BY <1>2, NoClientIs, SwapSound
  <1>5. Sound(c, Joined(u, o), R, n, ind, bad)  BY <1>3, <1>4
  <1>6. Received(c.obj, R, S)
    <2>1. \A v \in Client : v # u => R[v] = client[v]  OBVIOUS
    <2>2. ReadsNoMore(c.obj, c.obj)  BY DEF ReadsNoMore
    <2> QED BY <2>1, <2>2, ReceivedKept, ZenonT(60) DEF Filed
  <1>7. Filed(c, R, n, S, len)  BY <1>6 DEF Filed
  <1> QED BY <1>5, <1>7, BackFiled

\* An object is deleted.
LEMMA DeleteFiled ==
  ASSUME NEW c, NEW H, NEW R, NEW n \in Nat, NEW ind, NEW bad, Sound(c, H, R, n, ind, bad),
         NEW o \in Obj, c.obj[o].id # None, NEW S, S \subseteq Id, NEW len, Filed(c, R, n, S, len)
  PROVE  Filed(Delete(c, o), R, n, S, len)
  <1>1. PICK d : d = Delete(c, o)  OBVIOUS
  <1>2. Deletes(c, d, o)  BY <1>1, DeleteSound
  <1>3. c \in Cache /\ c.obj[o] \in CacheObj  BY SoundIs
  <1>4. c.obj[o].id \in Id
    <2>1. PICK x \in CacheObj : x = c.obj[o]  BY <1>3
    <2> QED BY <2>1, ObjFields
  <1>5. FilesOK(d, n, S, len)  BY <1>2, <1>3, <1>4, DeleteFiles DEF Filed
  <1>6. ReadsNoMore(c.obj, d.obj)  BY <1>2, <1>3, ReadingFewer
  <1>7. Received(d.obj, R, S)  BY <1>6, ReceivedSame DEF Filed
  <1> QED BY <1>1, <1>5, <1>7 DEF Filed

\* The answer is forwarded.
LEMMA ForwardFiles ==
  ASSUME BooksInv, FilesInv, NEW u \in Client, Forward(u)
  PROVE  FilesInv'
  <1>1. Fetching(u)  BY DEF Forward
  <1>2. /\ Sound(cache, Holders(client), client, down, index, failed) /\ down \in Nat
        /\ client \in [Client -> HTTPData] /\ ~Receiving(client[u])
        /\ client[u].obj \in Obj \cup {None}
    BY <1>1, FetchingIs
  <1>3. PICK R : R = [client EXCEPT ![u] = NoClient]  OBVIOUS
  <1>4. client' = R  BY <1>2, <1>3 DEF Forward, Leave
  <1>5. PICK S : S = Clean  OBVIOUS
  <1>6. S \subseteq Id /\ Filed(cache, client, down, S, length)  BY <1>5, FilesState
  <1>7. CASE client[u].obj = None
    <2>1. cache' = cache /\ Quiet  BY <1>7 DEF Forward
    <2>2. \A v \in Client : v # u => R[v] = client[v]  BY <1>3
    <2>3. Received(cache.obj, R, S)
      BY <1>2, <1>6, <2>2, ReceivedKept DEF Filed, ReadsNoMore
    <2>4. Filed(cache', client', down, S, length)  BY <1>4, <1>6, <2>1, <2>3 DEF Filed
    <2> QED BY <1>5, <2>1, <2>4, QuietFiles
  <1>8. CASE client[u].obj # None
    <2>1. PICK o \in Obj : o = client[u].obj  BY <1>2, <1>8
    <2>2. Filed(Release(cache, o, 1), R, down, S, length)
      BY <1>2, <1>3, <1>6, <2>1, GivenFiled
    <2>3. cache' = Release(cache, o, 1) /\ Quiet  BY <1>8, <2>1 DEF Forward
    <2>4. Filed(cache', client', down, S, length)  BY <1>4, <2>2, <2>3
    <2> QED BY <1>5, <2>3, <2>4, QuietFiles
  <1> QED BY <1>7, <1>8

\* The object that a download replaces is deleted, and given back.
LEMMA ReplacedFiled ==
  ASSUME BooksInv, FilesInv, NEW u \in Client, Fetching(u),
         NEW R, R = [client EXCEPT ![u] = NoClient]
  PROVE  Filed(Replaced(cache, u), R, down, Clean, length)
  <1>1. /\ Sound(cache, Holders(client), client, down, index, failed) /\ down \in Nat
        /\ client \in [Client -> HTTPData] /\ ~Receiving(client[u])
        /\ client[u].obj \in Obj \cup {None}
        /\ client[u].obj \in Obj => cache.obj[client[u].obj].id = client[u].id
        /\ client[u].id \in Id
    BY FetchingIs
  <1>2. PICK S : S = Clean  OBVIOUS
  <1>3. S \subseteq Id /\ Filed(cache, client, down, S, length)  BY <1>2, FilesState
  <1>4. CASE client[u].obj = None
    <2>1. \A v \in Client : v # u => R[v] = client[v]  OBVIOUS
    <2>2. Received(cache.obj, client, S)  BY <1>3 DEF Filed
    <2>4. PICK a : a = cache.obj  OBVIOUS
    <2>5. PICK C : C = client  OBVIOUS
    <2>6. /\ Received(a, C, S) /\ ~Receiving(C[u])
          /\ ReadsNoMore(a, a)
          /\ \A v \in Client : v # u => R[v] = C[v]
      BY <1>1, <2>1, <2>2, <2>4, <2>5 DEF ReadsNoMore
    <2>7. Received(a, R, S)  BY ONLY <2>6, u \in Client, ReceivedKept
    <2>3. Replaced(cache, u) = cache  BY <1>4 DEF Replaced
    <2> QED BY <1>2, <1>3, <2>3, <2>4, <2>7 DEF Filed
  <1>5. CASE client[u].obj # None
    <2>1. PICK o \in Obj : o = client[u].obj  BY <1>1, <1>5
    <2>2. cache.obj[o].id # None  BY <1>1, <2>1, NoObjects
    <2>3. PICK c : c = Delete(cache, o)  OBVIOUS
    <2>4. PICK B : B = Holders(client)  OBVIOUS
    <2>5. Sound(cache, B, client, down, index, failed)  BY <1>1, <2>4
    <2>6. Sound(c, B, client, down, index, failed)
      BY <1>1, <2>2, <2>3, <2>5, DeleteSound
    <2>7. Filed(c, client, down, S, length)
      BY <1>1, <1>3, <2>2, <2>3, <2>5, DeleteFiled
    <2>8. Filed(Release(c, o, 1), R, down, S, length)
      BY <1>1, <1>3, <2>1, <2>4, <2>6, <2>7, GivenFiled
    <2>9. Replaced(cache, u) = Release(c, o, 1)  BY <1>5, <2>1, <2>3 DEF Replaced
    <2> QED BY <1>2, <2>8, <2>9
  <1> QED BY <1>4, <1>5

\* A body that is not cacheable is downloaded.
LEMMA DownloadOnlyFiles ==
  ASSUME BooksInv, FilesInv, NEW u \in Client, DownloadOnly(u)
  PROVE  FilesInv'
  <1>1. Fetching(u) /\ cache' = Replaced(cache, u) /\ client' = Leave(client, {u}) /\ Quiet
    BY DEF DownloadOnly
  <1>2. client \in [Client -> HTTPData]  BY RestIs
  <1>3. PICK R : R = [client EXCEPT ![u] = NoClient]  OBVIOUS
  <1>4. client' = R  BY <1>1, <1>2, <1>3 DEF Leave
  <1>5. Filed(Replaced(cache, u), R, down, Clean, length)  BY <1>1, <1>3, ReplacedFiled
  <1>6. Filed(cache', client', down, Clean, length)  BY <1>1, <1>4, <1>5
  <1> QED BY <1>1, <1>6, QuietFiles

\* What a new object has is the blank beginning of its download.
LEMMA CreatedFiled ==
  ASSUME NEW c, NEW R, NEW n \in Nat, NEW ind, NEW bad,
         Sound(c, Holders(R), R, n, ind, bad), n < MaxDownloads, NEW i \in Id,
         NEW k \in Download, k = n + 1, NEW u \in Client, R[u] = NoClient, NEW o, o = Fresh(c),
         NEW r, r.state = "down", r.obj = o,
         NEW Q, Q[u] = r, \A v \in Client : v # u => Q[v] = R[v],
         NEW S, S \subseteq Id, NEW T, T \subseteq S, i \in T => Sharers(c, i) = {},
         NEW len, Filed(c, R, n, S, len),
         NEW e, e = [Create(c, i, k) EXCEPT !.obj[o].lis = {u}]
  PROVE  Filed(e, Q, n + 1, T, len)
  <1>1. /\ c \in Cache /\ BooksOK(c, n, ind, bad) /\ AllFormed(c.obj)
    BY SoundIs
  <1>2. o \in Obj /\ c.obj[o].id = None  BY <1>1, FreshIs
  <1>3. PICK a \in [Obj -> CacheObj] : a = c.obj  BY <1>1, Fields
  <1>4. PICK f : f = FileOf(c, i, k)  OBVIOUS
  <1>5. PICK d : d = Create(c, i, k)  OBVIOUS
  <1>6. PICK x : x = NewObj(c, i, k)  OBVIOUS
  <1>7. /\ d \in Cache /\ Adds(c, d, o, x) /\ x \in CacheObj
        /\ d.name = [c.name EXCEPT ![i] = f] /\ d.disk = [c.disk EXCEPT ![f] = <<>>]
    BY <1>1, <1>2, <1>4, <1>5, <1>6, CreateIs
  <1>8. d.obj = [a EXCEPT ![o] = x]  BY <1>3, <1>7 DEF Adds
  <1>9. PICK y : y = [x EXCEPT !.lis = {u}]  OBVIOUS
  <1>10. PICK b : b = [a EXCEPT ![o] = y]  OBVIOUS
  <1>11. e.obj = b /\ e.name = d.name /\ e.disk = d.disk
    <2>1. d.obj[o] = x  BY <1>2, <1>8
    <2>2. e = [d EXCEPT !.obj = [d.obj EXCEPT ![o] = y]]  BY <1>5, <1>7, <1>9, <2>1 DEF Cache
    <2>3. [d.obj EXCEPT ![o] = y] = b  BY <1>2, <1>8, <1>10
    <2>4. PICK z : z = [d.obj EXCEPT ![o] = y]  OBVIOUS
    <2>5. e.obj = z /\ e.name = d.name /\ e.disk = d.disk  BY <1>7, <2>2, <2>4 DEF Cache
    <2> QED BY <2>3, <2>4, <2>5
  <1>12. Blank(y, i, k, f)
    <2>1. /\ x.id = i /\ ~x.deleted /\ x.fd = f /\ x.tag = k /\ x.reading
          /\ x.avail = <<>> /\ x.size = 0 /\ x.out = 0 /\ x.off = 0
      BY <1>4, <1>6 DEF NewObj, Free
    <2>2. /\ y.id = x.id /\ y.deleted = x.deleted /\ y.fd = x.fd /\ y.tag = x.tag
          /\ y.reading = x.reading /\ y.avail = x.avail /\ y.size = x.size
          /\ y.out = x.out /\ y.off = x.off
      BY <1>7, <1>9 DEF CacheObj
    <2> QED BY <2>1, <2>2 DEF Blank
  <1>13. FilesOK(e, n + 1, T, len)
    <2>1. PICK name \in [Id -> 0..MaxDownloads] : name = c.name  BY <1>1 DEF Cache
    <2>2. PICK disk \in [Download -> Content] : disk = c.disk  BY <1>1 DEF Cache
    <2>3. FilesAre(a, name, disk, n, S, len)  BY <1>3, <2>1, <2>2 DEF Filed, FilesOK
    <2>4. b[o] = y /\ Only(a, b, o) /\ a[o].id = None /\ AllFormed(a)
      BY <1>1, <1>2, <1>3, <1>10 DEF Only
    <2>5. f = IF name[i] = 0 THEN k ELSE name[i]  BY <1>4, <2>1 DEF FileOf
    <2>6. i \in T => Unshared(a, i)  BY <1>3 DEF Sharers, Unshared
    <2>7. PICK to : to = [name EXCEPT ![i] = f]  OBVIOUS
    <2>8. PICK on : on = [disk EXCEPT ![f] = <<>>]  OBVIOUS
    <2>9. Blank(b[o], i, k, f)  BY <1>12, <2>4
    <2>12. PICK h \in Obj : h = o  BY <1>2
    <2>13. /\ n < MaxDownloads /\ FilesAre(a, name, disk, n, S, len) /\ AllFormed(a)
           /\ Only(a, b, h) /\ a[h].id = None /\ k = n + 1
           /\ Blank(b[h], i, k, f) /\ S \subseteq Id /\ T \subseteq S
           /\ i \in T => Unshared(a, i)
           /\ Truncates(name, disk, i, k, f, to, on)
      BY <2>3, <2>4, <2>5, <2>6, <2>7, <2>8, <2>9, <2>12 DEF Truncates
    <2>14. FilesAre(b, to, on, k, T, len)
      BY ONLY n \in Nat, i \in Id, h \in Obj, a \in [Obj -> CacheObj],
              name \in [Id -> 0..MaxDownloads], disk \in [Download -> Content],
              <2>13, FilesCreated
    <2>10. FilesAre(b, to, on, n + 1, T, len)  BY <2>13, <2>14
    <2>11. e.name = to /\ e.disk = on  BY <1>7, <1>11, <2>1, <2>2, <2>7, <2>8
    <2> QED BY <1>11, <2>10, <2>11 DEF FilesOK
  <1>14. Received(e.obj, Q, T)
    <2>1. R[u].state # "down" /\ R[u].state # "orphan"  BY NoClientIs
    <2>2. ASSUME NEW p \in Obj, b[p].reading, b[p].id \in T
          PROVE  \E v \in Client : Q[v].state \in {"down", "orphan"} /\ Q[v].obj = p
      <3>1. CASE p = o
        BY <3>1
      <3>2. CASE p # o
        <4>1. c.obj[p].reading /\ c.obj[p].id \in S  BY <1>3, <1>10, <2>2, <3>2
        <4>2. PICK v \in Client : R[v].state \in {"down", "orphan"} /\ R[v].obj = p
          BY <4>1 DEF Filed, Received
        <4>3. Q[v] = R[v]  BY <2>1, <4>2
        <4> QED BY <4>2, <4>3
      <3> QED BY <3>1, <3>2
    <2> QED BY <1>11, <2>2 DEF Received
  <1> QED BY <1>13, <1>14 DEF Filed

\* A download begins.
LEMMA DownloadFiles ==
  ASSUME BooksInv, FilesInv, NEW u \in Client, DownloadAndCache(u)
  PROVE  FilesInv'
  <1>1. Fetching(u) /\ down < MaxDownloads  BY DEF DownloadAndCache
  <1>2. /\ client \in [Client -> HTTPData] /\ client[u].id \in Id /\ down \in Nat
    BY <1>1, FetchingIs
  <1>3. PICK R : R = [client EXCEPT ![u] = NoClient]  OBVIOUS
  <1>4. PICK c : c = Replaced(cache, u)  OBVIOUS
  <1>5. Sound(c, Holders(R), R, down, index, failed)  BY <1>1, <1>3, <1>4, ReplacedSound
  <1>6. PICK i \in Id : i = client[u].id  BY <1>2
  <1>7. PICK o : o = Fresh(c)  OBVIOUS
  <1>8. PICK r : r = [state |-> "down", id |-> i, obj |-> o, got |-> <<>>]  OBVIOUS
  <1>9. PICK Q : Q = [client EXCEPT ![u] = r]  OBVIOUS
  <1>10. PICK k \in Download : k = down + 1
    BY <1>1, <1>2, HttpCacheAssumption DEF Download
  <1>11. R[u] = NoClient  BY <1>2, <1>3
  <1>12. PICK e : e = [Create(c, i, k) EXCEPT !.obj[o].lis = {u}]  OBVIOUS
  <1>13. /\ cache' = e /\ client' = Q /\ down' = down + 1
         /\ torn' = IF Sharers(c, i) = {} THEN torn ELSE torn \cup {i}
         /\ UNCHANGED <<index, length, forked, cut>>
    <2>1. cache' = [Create(c, i, down + 1) EXCEPT !.obj[o].lis = {u}]
      BY <1>4, <1>6, <1>7 DEF DownloadAndCache
    <2>2. client' = [client EXCEPT ![u] = r]  BY <1>4, <1>6, <1>7, <1>8 DEF DownloadAndCache
    <2>3. torn' = IF Sharers(c, i) = {} THEN torn ELSE torn \cup {i}
      BY <1>4, <1>6 DEF DownloadAndCache
    <2>4. down' = down + 1 /\ UNCHANGED <<index, length, forked, cut>>
      BY DEF DownloadAndCache
    <2> QED BY <1>9, <1>10, <1>12, <2>1, <2>2, <2>3, <2>4
  <1>14. PICK S : S = Clean  OBVIOUS
  <1>15. PICK T : T = Id \ (torn' \cup forked')  OBVIOUS
  <1>16. T \subseteq S /\ S \subseteq Id /\ (i \in T => Sharers(c, i) = {})
    BY <1>13, <1>14, <1>15 DEF Clean
  <1>17. Filed(c, R, down, S, length)  BY <1>1, <1>3, <1>4, <1>14, ReplacedFiled
  <1>18. Filed(e, Q, down + 1, T, length)
    <2>1. r.state = "down" /\ r.obj = o  BY <1>8
    <2>2. Q[u] = r /\ \A v \in Client : v # u => Q[v] = R[v]  BY <1>2, <1>3, <1>9
    <2>3. PICK n \in Nat : n = down  BY <1>2
    <2>4. n < MaxDownloads /\ k = n + 1 /\ Sound(c, Holders(R), R, n, index, failed)
          /\ Filed(c, R, n, S, length)
      BY <1>1, <1>5, <1>10, <1>17, <2>3
    <2>5. Filed(e, Q, n + 1, T, length)
      BY ONLY <1>7, <1>11, <1>12, <1>16, <2>1, <2>2, <2>4, n \in Nat, i \in Id, k \in Download,
              u \in Client, CreatedFiled
    <2> QED BY <2>3, <2>5
  <1>19. Entries(index', T)
    <2>1. Entries(index, S)  BY <1>14, FilesState
    <2> QED BY <1>13, <1>16, <2>1 DEF Entries
  <1>20. cut' \subseteq forked'  BY <1>13, FilesState
  <1> QED BY <1>13, <1>15, <1>18, <1>19, <1>20, StepFiles

-----------------------------------------------------------------------------
(* Pieces come, and objects are pruned *)

\* Of c some objects are gone (D) that had no file open, with their files.
Sweeps(c, d, D) ==
  /\ d.obj = Swept(c.obj, D)
  /\ d.name = Nameless(c.obj, c.name, D)
  /\ d.disk = c.disk
  /\ \A p \in D : c.obj[p].fd = 0 /\ ~c.obj[p].deleted

\* No object is gone.
LEMMA NoneSwept ==
  ASSUME NEW c \in Cache
  PROVE  Sweeps(c, c, {})
  <1>1. c.obj \in [Obj -> CacheObj] /\ c.name \in [Id -> 0..MaxDownloads]
    BY Fields DEF Cache
  <1> QED BY <1>1 DEF Sweeps, Swept, Nameless

\* One more is.
LEMMA OneSwept ==
  ASSUME NEW c \in Cache, NEW d \in Cache, NEW r \in Cache, NEW D \in SUBSET Obj,
         Sweeps(c, d, D), NEW o \in Obj, o \notin D, c.obj[o].fd = 0, ~c.obj[o].deleted,
         NEW m \in Cache, Marks(d, m, o), Drops(m, r, o), m.disk = d.disk, r.disk = d.disk,
         c.obj[o].id \in Id
  PROVE  Sweeps(c, r, D \cup {o})
  <1>1. PICK a \in [Obj -> CacheObj] : a = c.obj  BY Fields
  <1>2. PICK b \in [Obj -> CacheObj] : b = d.obj  BY Fields
  <1>3. PICK name \in [Id -> 0..MaxDownloads] : name = c.name  BY DEF Cache
  <1>4. PICK to \in [Id -> 0..MaxDownloads] : to = d.name  BY DEF Cache
  <1>5. PICK E : E = D \cup {o}  OBVIOUS
  <1>6. b = Swept(a, D) /\ to = Nameless(a, name, D) /\ b[o] = a[o]
    BY <1>1, <1>2, <1>3, <1>4 DEF Sweeps, Swept
  <1>7. r.obj = Swept(a, E)
    <2>1. PICK z : z = Gone(b[o])  OBVIOUS
    <2>2. m.obj = [b EXCEPT ![o] = z]  BY <1>2, <2>1 DEF Marks
    <2>3. r.obj = [b EXCEPT ![o] = Free]  BY <2>2 DEF Drops
    <2>4. PICK f : f = Swept(a, E)  OBVIOUS
    <2>5. \A p \in Obj : f[p] = IF p \in E THEN Free ELSE a[p]  BY <2>4 DEF Swept
    <2>6. \A p \in Obj : b[p] = IF p \in D THEN Free ELSE a[p]  BY <1>6 DEF Swept
    <2>7. \A p \in Obj : r.obj[p] = f[p]  BY <1>5, <2>3, <2>5, <2>6
    <2>8. DOMAIN f = Obj /\ f = [p \in Obj |-> f[p]]  BY <2>4 DEF Swept
    <2>9. r.obj = [p \in Obj |-> r.obj[p]]  BY <2>3
    <2> QED BY <2>4, <2>7, <2>8, <2>9
  <1>8. r.name = Nameless(a, name, E)
    <2>1. PICK i \in Id : i = a[o].id  BY <1>1
    <2>2. r.name = [to EXCEPT ![i] = 0]  BY <1>2, <1>4, <1>6, <2>1 DEF Marks, Drops
    <2>3. PICK f : f = Nameless(a, name, E)  OBVIOUS
    <2>4. \A j \in Id : f[j] = IF \E p \in E : a[p].id = j THEN 0 ELSE name[j]
      BY <2>3 DEF Nameless
    <2>5. \A j \in Id : to[j] = IF \E p \in D : a[p].id = j THEN 0 ELSE name[j]
      BY <1>6 DEF Nameless
    <2>6. \A j \in Id : (\E p \in E : a[p].id = j) <=> (\E p \in D : a[p].id = j) \/ j = i
      BY <1>5, <2>1
    <2>7. \A j \in Id : r.name[j] = f[j]  BY <2>2, <2>4, <2>5, <2>6
    <2>8. f = [j \in Id |-> f[j]]  BY <2>3 DEF Nameless
    <2>9. r.name = [j \in Id |-> r.name[j]]  BY <2>2
    <2> QED BY <2>3, <2>7, <2>8, <2>9
  <1>9. r.disk = c.disk  BY DEF Sweeps
  <1>10. \A p \in E : c.obj[p].fd = 0 /\ ~c.obj[p].deleted  BY <1>5 DEF Sweeps
  <1> QED BY <1>1, <1>3, <1>5, <1>7, <1>8, <1>9, <1>10 DEF Sweeps

\* Prune() has objects that nobody has leave, with their files.
LEMMA PruneSweeps ==
  ASSUME NEW c, NEW H, NEW n \in Nat, NEW ind, NEW bad, Valid(c, H, n, ind, bad)
  PROVE  \E D \in SUBSET Obj : Sweeps(c, Prune(c), D) /\ \A p \in D : H[p] = {}
  <1>1. /\ c \in Cache /\ c.lru \in Seq(Obj) /\ H \in [Obj -> SUBSET Client] /\ Counted(c.obj, H)
        /\ Len(c.lru) \in Nat /\ c.obj \in [Obj -> CacheObj]
    BY Fields DEF Valid, BooksOK
  <1>2. PICK g :
              /\ g[0] = c /\ Prune(c) = g[Len(c.lru)]
              /\ \A k \in Nat : k <= Len(c.lru) => Valid(g[k], H, n, ind, bad) /\ Pruned(c, g[k], k)
              /\ \A k \in Nat : k + 1 <= Len(c.lru) => g[k + 1] = PruneStep(c, g[k], k + 1)
    BY PruneOK
  <1>3. \A p \in Obj : Prunable(c.obj[p]) => H[p] = {}
    <2>1. \A p \in Obj : Cardinality(H[p]) = 0 => H[p] = {}  BY <1>1, ClientsFinite
    <2> QED BY <1>1, <2>1 DEF Counted, Prunable
  <1> DEFINE Way(d) == \E D \in SUBSET Obj : Sweeps(c, d, D) /\ \A p \in D : H[p] = {}
             T == {k \in Nat : k <= Len(c.lru) => Way(g[k])}
  <1>4. 0 \in T
    <2>1. Sweeps(c, c, {})  BY <1>1, NoneSwept
    <2>2. Way(c)  BY <2>1
    <2> QED BY <1>2, <2>2
  <1>5. ASSUME NEW k \in Nat, k \in T
        PROVE  k + 1 \in T
    <2> SUFFICES ASSUME k + 1 <= Len(c.lru)
                 PROVE  Way(g[k + 1])
      OBVIOUS
    <2>1. PICK d : d = g[k]  OBVIOUS
    <2>2. PICK r : r = PruneStep(c, d, k + 1)  OBVIOUS
    <2>3. g[k + 1] = r  BY <1>2, <2>1, <2>2
    <2>4. k <= Len(c.lru)  BY <1>1
    <2>5. Valid(d, H, n, ind, bad) /\ Pruned(c, d, k)  BY <1>2, <2>1, <2>4
    <2>6. PICK D \in SUBSET Obj : Sweeps(c, d, D) /\ \A p \in D : H[p] = {}
      BY <1>5, <2>1, <2>4
    <2>7. CASE r = d
      BY <2>3, <2>6, <2>7
    <2>8. CASE r # d
      <3>1. PICK o \in Obj : o = c.lru[k + 1] /\ Prunable(d.obj[o]) /\ d.obj[o].id # None
                             /\ r = Delete(d, o)
        <4>2. /\ Valid(c, H, n, ind, bad) /\ Valid(d, H, n, ind, bad) /\ Pruned(c, d, k)
              /\ k + 1 <= Len(c.lru)
          BY <2>5
        <4>1. /\ Valid(PruneStep(c, d, k + 1), H, n, ind, bad)
              /\ Pruned(c, PruneStep(c, d, k + 1), k + 1)
              /\ PruneStep(c, d, k + 1) # d =>
                /\ c.lru[k + 1] \in Obj
                /\ Prunable(d.obj[c.lru[k + 1]])
                /\ d.obj[c.lru[k + 1]].id # None
                /\ PruneStep(c, d, k + 1) = Delete(d, c.lru[k + 1])
          BY ONLY <4>2, n \in Nat, k \in Nat, PruneStepOK
        <4> QED BY <2>2, <2>8, <4>1
      <3>2. Deletes(d, r, o) /\ Valid(r, H, n, ind, bad)  BY <2>5, <3>1, DeleteOK
      <3>3. d \in Cache /\ d.obj \in [Obj -> CacheObj] /\ r \in Cache
        BY <2>5, <3>2, Fields DEF Valid, BooksOK
      <3>4. PICK m \in Cache : Marks(d, m, o) /\ Drops(m, r, o) /\ m.disk = d.disk /\ r.disk = d.disk
        BY <3>1, <3>2 DEF Deletes, Prunable
      <3>5. d.obj = Swept(c.obj, D)  BY <2>6 DEF Sweeps
      <3>6. o \notin D
        <4>1. Free.id = None  BY DEF Free
        <4> QED BY <3>1, <3>5, <4>1 DEF Swept
      <3>7. d.obj[o] = c.obj[o]  BY <3>5, <3>6 DEF Swept
      <3>8. H[o] = {}  BY <1>3, <3>1, <3>7
      <3>9. c.obj[o].fd = 0 /\ ~c.obj[o].deleted  BY <1>1, <3>8 DEF Counted
      <3>10. c.obj[o].id \in Id
        BY <1>1, <3>1, <3>7, ObjFields
      <3>11. Sweeps(c, r, D \cup {o})
        BY <1>1, <2>6, <3>3, <3>4, <3>6, <3>9, <3>10, OneSwept
      <3>12. \A p \in D \cup {o} : H[p] = {}  BY <2>6, <3>8
      <3>13. D \cup {o} \in SUBSET Obj  OBVIOUS
      <3> QED BY <2>3, <3>11, <3>12, <3>13
    <2> QED BY <2>7, <2>8
  <1> HIDE DEF T
  <1>6. Nat \subseteq T  BY <1>4, <1>5, Every
  <1>7. \A k \in Nat : k <= Len(c.lru) => Way(g[k])  BY <1>6 DEF T
  <1>8. Way(g[Len(c.lru)])  BY <1>1, <1>7
  <1> QED BY <1>2, <1>8

\* What is received is received by the same clients.
LEMMA ReceivedAlike ==
  ASSUME NEW a, NEW b, NEW R, NEW Q, NEW S, NEW T, T \subseteq S, Received(a, R, S),
         ReadsNoMore(a, b),
         \A v \in Client : Q[v].state = R[v].state /\ Q[v].obj = R[v].obj
  PROVE  Received(b, Q, T)
  BY DEF Received, ReadsNoMore

\* A piece that came is in memory, and some of what was in the buffers is written.
LEMMA WrittenFiles ==
  ASSUME NEW a \in [Obj -> CacheObj], NEW n \in Nat, NEW S, S \subseteq Id, NEW len,
         NEW c, NEW H, NEW R, NEW ind, NEW bad, Sound(c, H, R, n, ind, bad),
         NEW o \in Obj, H[o] # {}, Only(a, c.obj, o), ~c.obj[o].quiet,
         FilesAre(a, c.name, c.disk, n, S, len), a[o].reading, a[o].tag # 0,
         NEW x, x = c.obj[o],
         x.id = a[o].id, x.deleted = a[o].deleted, x.fd = a[o].fd, x.tag = a[o].tag,
         x.reading = a[o].reading, x.avail = Append(a[o].avail, a[o].tag),
         x.size = a[o].size, x.out = a[o].out, x.off = a[o].off,
         NEW m \in Nat, x.out + m <= x.size + 1
  PROVE  /\ FilesOK(Written(c, o, m), n, S, len)
         /\ ReadsNoMore(a, Written(c, o, m).obj)
  <1>1. /\ c \in Cache /\ c.obj \in [Obj -> CacheObj] /\ x \in CacheObj
        /\ Formed(x) /\ Valid(c, H, n, ind, bad)
    BY SoundIs DEF AllFormed
  <1>2. ~x.deleted  BY <1>1 DEF Formed
  <1>3. PICK e : e = Grow(c, o)  OBVIOUS
  <1>4. Valid(e, H, n, ind, bad) /\ Grows(c, e, o) /\ e.disk = c.disk
    BY <1>1, <1>2, <1>3, GrowOK
  <1>5. e \in Cache /\ e.obj \in [Obj -> CacheObj] /\ AllFormed(e.obj)
    BY <1>4, Fields DEF Valid, BooksOK
  <1>6. PICK y : y = [x EXCEPT !.size = @ + 1]  OBVIOUS
  <1>7. e.obj = [c.obj EXCEPT ![o] = y] /\ e.name = c.name
    BY <1>1, <1>4, <1>6 DEF Grows
  <1>8. /\ y.id = x.id /\ y.deleted = x.deleted /\ y.fd = x.fd /\ y.tag = x.tag
        /\ y.reading = x.reading /\ y.avail = x.avail /\ y.size = x.size + 1
        /\ y.out = x.out /\ y.off = x.off
    BY <1>1, <1>6 DEF CacheObj
  <1>9. e.obj[o] = y /\ \A p \in Obj : p # o => e.obj[p] = a[p]
    BY <1>1, <1>7 DEF Only
  <1>10. FilesAre(e.obj, c.name, c.disk, n, S, len)
    <2>1. Only(a, e.obj, o)  BY <1>9 DEF Only
    <2>2. Extended(a[o], e.obj[o])  BY <1>8, <1>9 DEF Extended
    <2> QED BY <2>1, <2>2, FilesExtended
  <1>11. PICK k \in Nat : k = x.out + m  BY <1>1 DEF CacheObj
  <1>12. PICK d : d = WriteOut(e, o, k)  OBVIOUS
  <1>13. PICK z : z = Advanced(e.obj[o], k)  OBVIOUS
  <1>14. Puts(e, d, o, z) /\ d.disk = Wrote(e.disk, e.obj[o], k)
    BY <1>5, <1>12, <1>13, WriteOutIs
  <1>15. d.obj = [e.obj EXCEPT ![o] = z] /\ d.name = e.name  BY <1>14 DEF Puts
  <1>16. FilesAre(d.obj, d.name, d.disk, n, S, len)
    <2>1. PICK b \in [Obj -> CacheObj] : b = e.obj  BY <1>5
    <2>2. PICK name \in [Id -> 0..MaxDownloads] : name = e.name  BY <1>5 DEF Cache
    <2>3. PICK disk \in [Download -> Content] : disk = e.disk  BY <1>5 DEF Cache
    <2>4. b[o].id \in S /\ ~b[o].deleted => k <= b[o].size
      BY <1>1, <1>8, <1>9, <1>11, <2>1 DEF CacheObj
    <2>5. k # 0 => b[o].tag # 0  BY <1>8, <1>9, <2>1
    <2>6. PICK f : f = d.obj  OBVIOUS
    <2>7. PICK to : to = d.disk  OBVIOUS
    <2>8. /\ AllFormed(b) /\ S \subseteq Id /\ FilesAre(b, name, disk, n, S, len)
          /\ k # 0 => b[o].tag # 0
          /\ b[o].id \in S /\ ~b[o].deleted => k <= b[o].size
          /\ f = [b EXCEPT ![o] = Advanced(b[o], k)] /\ to = Wrote(disk, b[o], k)
      BY <1>4, <1>5, <1>7, <1>10, <1>13, <1>14, <1>15, <2>1, <2>2, <2>3, <2>4, <2>5, <2>6, <2>7
    <2>9. FilesAre(f, name, to, n, S, len)
      BY ONLY b \in [Obj -> CacheObj], name \in [Id -> 0..MaxDownloads],
              disk \in [Download -> Content], n \in Nat, k \in Nat, o \in Obj,
              <2>8, WroteFiles
    <2> QED BY <1>15, <2>2, <2>6, <2>7, <2>9
  <1>17. ReadsNoMore(a, d.obj)
    <2>1. z.reading = y.reading /\ z.id = y.id
      <3>1. e.obj[o] \in CacheObj  BY <1>5
      <3> QED BY <1>9, <1>11, <1>13, <3>1, AdvancedIs
    <2>2. \A p \in Obj : d.obj[p] = IF p = o THEN z ELSE a[p]
      BY <1>5, <1>9, <1>15
    <2> QED BY <1>8, <2>1, <2>2 DEF ReadsNoMore
  <1>18. Written(c, o, m) = d  BY <1>3, <1>11, <1>12 DEF Written, Grow
  <1> QED BY <1>16, <1>17, <1>18 DEF FilesOK

\* ReadsNoMore() is transitive.
LEMMA ReadsLess ==
  ASSUME NEW a, NEW b, NEW c, ReadsNoMore(a, b), ReadsNoMore(b, c)
  PROVE  ReadsNoMore(a, c)
  BY DEF ReadsNoMore

\* The object o is deleted, if it was not.
Stops(e, d, o) ==
  \/ e.obj[o].deleted /\ d = e
  \/ ~e.obj[o].deleted /\ Deletes(e, d, o)

\* What comes of a body that is not written any more is in memory only: the object has been
\* deleted, or is now that it is too large.
LEMMA UnwrittenFiles ==
  ASSUME NEW c \in Cache, NEW n \in Nat, NEW S, S \subseteq Id, NEW len, FilesOK(c, n, S, len),
         NEW o \in Obj, c.obj[o].id \in Id,
         NEW e \in Cache, NEW y, Puts(c, e, o, y), e.disk = c.disk,
         NEW x, x = c.obj[o],
         y.id = x.id, y.deleted = x.deleted, y.fd = x.fd, y.tag = x.tag,
         y.reading => x.reading, y.ref # 0,
         NEW d, Stops(e, d, o)
  PROVE  FilesOK(d, n, S, len) /\ ReadsNoMore(c.obj, d.obj)
  <1>1. PICK a \in [Obj -> CacheObj] : a = c.obj  BY Fields
  <1>2. PICK b \in [Obj -> CacheObj] : b = e.obj  BY Fields
  <1>3. PICK name \in [Id -> 0..MaxDownloads] : name = c.name  BY DEF Cache
  <1>4. FilesAre(a, name, c.disk, n, S, len)  BY <1>1, <1>3 DEF FilesOK
  <1>5. b = [a EXCEPT ![o] = y] /\ e.name = name /\ b[o] = y
    BY <1>1, <1>2, <1>3 DEF Puts
  <1>6. CASE x.deleted /\ d = e
    <2>1. Only(a, b, o)  BY <1>5 DEF Only
    <2>2. FilesAre(b, name, c.disk, n, S, len)
      BY <1>1, <1>4, <1>5, <1>6, <2>1, FilesElsewhere
    <2>3. ReadsNoMore(a, b)  BY <1>1, <1>5 DEF ReadsNoMore
    <2> QED BY <1>1, <1>2, <1>5, <1>6, <2>2, <2>3 DEF FilesOK
  <1>7. CASE ~x.deleted /\ Deletes(e, d, o)
    <2>1. Marks(e, d, o) /\ d.disk = c.disk  BY <1>2, <1>5, <1>7 DEF Deletes
    <2>2. PICK z : z = Gone(y)  OBVIOUS
    <2>3. y \in CacheObj  BY <1>5
    <2>4. z.id = y.id /\ z.fd = y.fd /\ z.tag = y.tag /\ z.reading = y.reading /\ z.deleted
      BY <2>2, <2>3, GoneFields
    <2>5. PICK f : f = d.obj  OBVIOUS
    <2>12. f = [b EXCEPT ![o] = z]  BY <1>2, <1>5, <2>1, <2>2, <2>5 DEF Marks
    <2>6. f = [a EXCEPT ![o] = z]  BY <1>5, <2>12
    <2>7. PICK to : to = [name EXCEPT ![a[o].id] = 0]  OBVIOUS
    <2>13. d.name = [name EXCEPT ![b[o].id] = 0]  BY <1>2, <1>5, <2>1 DEF Marks
    <2>8. d.name = to  BY <1>1, <1>5, <2>7, <2>13
    <2>9. f[o] = z /\ Only(a, f, o)  BY <2>6 DEF Only
    <2>10. FilesAre(f, to, c.disk, n, S, len)
      BY <1>1, <1>4, <1>7, <2>4, <2>7, <2>9, FilesDeleted, ZenonT(60)
    <2>11. ReadsNoMore(a, f)  BY <1>1, <2>4, <2>6 DEF ReadsNoMore
    <2> QED BY <1>1, <2>1, <2>5, <2>8, <2>10, <2>11 DEF FilesOK
  <1>8. e.obj[o].deleted = x.deleted  BY <1>2, <1>5
  <1> QED BY <1>6, <1>7, <1>8 DEF Stops

\* A write fails: of the resource nothing more is known.
LEMMA ErrorFiles ==
  ASSUME NEW a \in [Obj -> CacheObj], NEW n, NEW S, S \subseteq Id, NEW len,
         NEW c \in Cache, NEW H, NEW ind, NEW bad, Valid(c, H, n, ind, bad), n \in Nat,
         NEW o \in Obj, H[o] # {}, Only(a, c.obj, o),
         FilesAre(a, c.name, c.disk, n, S, len),
         NEW x, x = c.obj[o],
         x.id = a[o].id, x.fd = a[o].fd, x.tag = a[o].tag, x.reading = a[o].reading,
         NEW T, T \subseteq S, a[o].id \notin T
  PROVE  /\ FilesOK(WriteError(c, o), n, T, len)
         /\ ReadsNoMore(a, WriteError(c, o).obj)
  <1>1. PICK d : d = WriteError(c, o)  OBVIOUS
  <1>2. Spoils(c, d, o) /\ d.disk = c.disk  BY <1>1, WriteErrorOK
  <1>3. c.obj \in [Obj -> CacheObj] /\ x \in CacheObj  BY Fields
  <1>4. PICK z : z = Gone(x)  OBVIOUS
  <1>5. z.id = x.id /\ z.fd = x.fd /\ z.tag = x.tag /\ z.reading = x.reading
    BY <1>3, <1>4, GoneFields
  <1>6. PICK b : b = d.obj  OBVIOUS
  <1>7. b = [c.obj EXCEPT ![o] = z] /\ d.name = c.name  BY <1>2, <1>4, <1>6 DEF Spoils
  <1>8. b[o] = z /\ Only(a, b, o)  BY <1>3, <1>7 DEF Only
  <1>9. FilesAre(a, c.name, c.disk, n, T, len)  BY FilesFewer
  <1>10. FilesAre(b, c.name, c.disk, n, T, len)
    BY <1>5, <1>8, <1>9, FilesElsewhere
  <1>11. ReadsNoMore(a, b)  BY <1>5, <1>8 DEF Only, ReadsNoMore
  <1> QED BY <1>1, <1>2, <1>6, <1>7, <1>10, <1>11 DEF FilesOK

\* Others are pruned while a piece of o comes.
LEMMA SweptAround ==
  ASSUME NEW c \in Cache, AllFormed(c.obj), NEW n \in Nat, NEW S, S \subseteq Id, NEW len,
         FilesOK(c, n, S, len), NEW o \in Obj, NEW e \in Cache, NEW y, Puts(c, e, o, y),
         e.disk = c.disk, y.id = c.obj[o].id,
         NEW p \in Cache, NEW D \in SUBSET Obj, Sweeps(e, p, D), o \notin D
  PROVE  \E a \in [Obj -> CacheObj] :
           /\ FilesAre(a, p.name, p.disk, n, S, len) /\ Only(a, p.obj, o)
           /\ p.obj[o] = y /\ a[o] = c.obj[o]
           /\ ReadsNoMore(c.obj, a)
  <1>1. PICK b \in [Obj -> CacheObj] : b = c.obj  BY Fields
  <1>2. PICK f \in [Obj -> CacheObj] : f = e.obj  BY Fields
  <1>3. PICK name \in [Id -> 0..MaxDownloads] : name = c.name  BY DEF Cache
  <1>4. f = [b EXCEPT ![o] = y] /\ e.name = name
    BY <1>1, <1>2, <1>3 DEF Puts
  <1>5. PICK a : a = Swept(b, D)  OBVIOUS
  <1>6. \A q \in Obj : a[q] = IF q \in D THEN Free ELSE b[q]  BY <1>5 DEF Swept
  <1>7. a \in [Obj -> CacheObj]
    <2>1. PICK s \in [Obj -> CacheObj] : s = p.obj  BY Fields
    <2>2. s = Swept(f, D)  BY <1>2, <2>1 DEF Sweeps
    <2>3. \A q \in Obj : s[q] = IF q \in D THEN Free ELSE f[q]  BY <2>2 DEF Swept
    <2>4. \A q \in Obj : a[q] \in CacheObj
      <3>1. \A q \in Obj : q \in D => a[q] = s[q]  BY <1>6, <2>3
      <3>2. \A q \in Obj : q \notin D => a[q] = b[q]  BY <1>6
      <3> QED BY <3>1, <3>2
    <2>5. DOMAIN a = Obj /\ a = [q \in Obj |-> a[q]]  BY <1>5 DEF Swept
    <2> QED BY <2>4, <2>5
  <1>8. PICK to : to = Nameless(b, name, D)  OBVIOUS
  <1>9. p.name = to
    <2>1. p.name = Nameless(f, name, D)  BY <1>2, <1>4 DEF Sweeps
    <2>2. \A q \in D : f[q].id = b[q].id  BY <1>4
    <2> QED BY <1>8, <2>1, <2>2 DEF Nameless
  <1>10. p.disk = c.disk  BY DEF Sweeps
  <1>11. \A q \in D : b[q].fd = 0 /\ ~b[q].deleted
    <2>1. \A q \in D : f[q].fd = 0 /\ ~f[q].deleted  BY <1>2 DEF Sweeps
    <2>2. \A q \in D : f[q] = b[q]  BY <1>4
    <2> QED BY <2>1, <2>2
  <1>12. FilesAre(a, to, c.disk, n, S, len)
    <2>1. FilesAre(b, name, c.disk, n, S, len) /\ AllFormed(b)  BY <1>1, <1>3 DEF FilesOK
    <2> QED BY <1>5, <1>8, <1>11, <2>1, FilesSwept
  <1>13. p.obj[o] = y /\ Only(a, p.obj, o) /\ a[o] = b[o]
    <2>1. \A q \in Obj : p.obj[q] = IF q \in D THEN Free ELSE f[q]  BY <1>2 DEF Sweeps, Swept
    <2> QED BY <1>4, <1>6, <2>1 DEF Only
  <1>14. ReadsNoMore(b, a)
    <2>1. ~Free.reading  BY DEF Free
    <2> QED BY <1>6, <2>1 DEF ReadsNoMore
  <1> QED BY <1>1, <1>7, <1>9, <1>10, <1>12, <1>13, <1>14

\* What a piece does to the cache, before it is written.
Notified(e, c, o) ==
  /\ e.obj[o].deleted => c = e
  /\ c = e \/ Deletes(e, c, o)
  /\ c.obj[o].quiet => Stops(e, c, o)
  /\ ~c.obj[o].quiet => c = e /\ ~e.obj[o].deleted
  /\ e.obj[o].ref # 0

LEMMA NotifyIs ==
  ASSUME NEW y, NEW H, NEW Q, NEW n \in Nat, NEW ind, NEW bad,
         NEW o \in Obj, NEW e, Sound(e, H, Q, n, ind, bad), H[o] # {},
         NEW c, c \in {e, Delete(e, o)}, e.obj[o] = y, y.reading, y.id # None
  PROVE  Notified(e, c, o)
  <1>1. e \in Cache /\ y \in CacheObj /\ Formed(y) /\ e.obj \in [Obj -> CacheObj]
    BY SoundIs DEF AllFormed
  <1>2. e.obj[o].ref # 0
    <2>1. Counted(e.obj, H) /\ H \in [Obj -> SUBSET Client]  BY SoundIs
    <2>2. Cardinality(H[o]) # 0  BY <2>1, ClientsFinite
    <2> QED BY <2>1, <2>2 DEF Counted
  <1>3. c = e \/ c = Delete(e, o)  OBVIOUS
  <1>4. Deletes(e, Delete(e, o), o)  BY DeleteSound
  <1>5. y.deleted => Delete(e, o) = e  BY <1>1, <1>4 DEF Deletes
  <1>6. ASSUME ~y.deleted, c = Delete(e, o)
        PROVE  c.obj[o].quiet
    <2>1. Marks(e, c, o)  BY <1>2, <1>4, <1>6 DEF Deletes
    <2>2. PICK z : z = Gone(y)  OBVIOUS
    <2>3. c.obj[o] = z  BY <1>1, <2>1, <2>2 DEF Marks
    <2>4. y.fd # 0  BY <1>1 DEF Formed, Shut
    <2>5. z.quiet  BY <1>1, <2>2, <2>4 DEF Gone, CacheObj
    <2> QED BY <2>3, <2>5
  <1>7. y.deleted => y.quiet  BY <1>1 DEF Formed
  <1>8. ~y.deleted => ~y.quiet  BY <1>1 DEF Formed
  <1>9. y.deleted => c = e  BY <1>3, <1>5
  <1>10. c = e \/ Deletes(e, c, o)  BY <1>3, <1>4
  <1>11. c.obj[o].quiet /\ ~y.deleted => Deletes(e, c, o)  BY <1>8, <1>10
  <1>12. ~c.obj[o].quiet => c = e /\ ~y.deleted  BY <1>3, <1>6, <1>7, <1>9
  <1>13. c.obj[o].quiet => Stops(e, c, o)  BY <1>9, <1>11 DEF Stops
  <1> QED BY <1>2, <1>9, <1>10, <1>12, <1>13 DEF Notified

\* A piece of the body comes.
LEMMA ChunkFiles ==
  ASSUME BooksInv, FilesInv, NEW u \in Client, Chunk(u)
  PROVE  FilesInv'
  <1>1. Downloading(u)  BY Zenon DEF Chunk
  <1>2. PICK o : o = client[u].obj  OBVIOUS
  <1>3. /\ Sound(cache, Holders(client), client, down, index, failed)
        /\ client \in [Client -> HTTPData] /\ down \in Nat /\ client[u].id \in Id
        /\ o \in Obj /\ Holders(client)[o] # {}
        /\ cache.obj[o].reading /\ cache.obj[o].id = client[u].id
        /\ cache.obj[o].tag \in Download
        /\ client[u].state \in {"down", "orphan"}
    BY <1>1, <1>2, DownloadingIs
  <1>4. PICK k \in Download : k = cache.obj[o].tag  BY <1>3
  <1>5. PICK e : e = [cache EXCEPT !.obj[o].avail = Append(@, k)]  OBVIOUS
  <1>6. PICK Q : Q = Sent(cache.obj[o].lis, k)  OBVIOUS
  <1>7. PICK H : H = Holders(client)  OBVIOUS
  <1>8. PICK n \in Nat : n = down  BY <1>3
  <1>9. Sound(cache, H, client, n, index, failed) /\ H[o] # {}  BY <1>3, <1>7, <1>8
  <1>10. Sound(e, H, Q, n, index, failed) /\ e.obj[o].id # None
    BY <1>3, <1>5, <1>6, <1>7, <1>8, NoObjects, SentSound, SMTT(30)
  <1>11. PICK c : c = Notify(cache, o, k)  OBVIOUS
  <1>12. /\ cache \in Cache /\ cache.obj \in [Obj -> CacheObj] /\ AllFormed(cache.obj)
         /\ e \in Cache
    BY <1>9, <1>10, SoundIs
  <1>13. PICK x \in CacheObj : x = cache.obj[o]  BY <1>3, <1>12
  <1>14. PICK b : b = Append(x.avail, k)  OBVIOUS
  <1>15. PICK y : y = [x EXCEPT !.avail = b]  OBVIOUS
  <1>16. /\ y.id = x.id /\ y.size = x.size /\ y.deleted = x.deleted /\ y.ref = x.ref
         /\ y.reading = x.reading /\ y.quiet = x.quiet /\ y.fd = x.fd /\ y.avail = b
         /\ y.tag = x.tag /\ y.out = x.out /\ y.off = x.off
    BY <1>15 DEF CacheObj
  <1>17. Puts(cache, e, o, y) /\ e.disk = cache.disk /\ e.obj[o] = y
    <2>1. e = [cache EXCEPT !.obj = [cache.obj EXCEPT ![o] = y]]
      BY <1>5, <1>12, <1>13, <1>14, <1>15 DEF Cache
    <2>2. e.obj = [cache.obj EXCEPT ![o] = y]  BY <1>12, <2>1 DEF Cache
    <2>3. y \in CacheObj
      <3>1. e.obj[o] = y  BY <1>3, <1>12, <2>2
      <3> QED BY <1>3, <1>12, <3>1, Fields
    <2> QED BY <1>3, <1>12, <2>1, <2>2, <2>3, PutIs, SMTT(30)
  <1>18. y.reading /\ y.id # None  BY <1>3, <1>10, <1>13, <1>16, <1>17
  <1>19. /\ y.deleted => c = e
         /\ c = e \/ Deletes(e, c, o)
         /\ c.obj[o].quiet => Stops(e, c, o)
         /\ ~c.obj[o].quiet => c = e /\ ~y.deleted
         /\ e.obj[o].ref # 0
    <2>1. c \in {e, Delete(e, o)}  BY <1>5, <1>11 DEF Notify
    <2>2. /\ Sound(e, H, Q, n, index, failed) /\ o \in Obj /\ H[o] # {}
          /\ c \in {e, Delete(e, o)} /\ e.obj[o] = y /\ y.reading /\ y.id # None
      BY <1>3, <1>9, <1>10, <1>17, <1>18, <2>1
    <2>3. Notified(e, c, o)  BY ONLY <2>2, n \in Nat, NotifyIs
    <2> QED BY <1>17, <2>3 DEF Notified
  <1>20. PICK left : left = IF c.obj[o].quiet THEN 0 ELSE c.obj[o].size + 1 - c.obj[o].out
    OBVIOUS
  <1>21. /\ client' = Q
         /\ UNCHANGED <<index, down, length, forked, cut>>
         /\ \/ /\ \E m \in 0..left : cache' = Written(c, o, m)
               /\ UNCHANGED torn
            \/ /\ left > 0
               /\ cache' = Written(Prune(c), o, left)
               /\ UNCHANGED torn
            \/ /\ left > 0
               /\ \E d \in {c, Prune(c)} : cache' = WriteError(d, o)
               /\ torn' = torn \cup {client[u].id}
    BY <1>2, <1>4, <1>6, <1>11, <1>20, Zenon DEF Chunk
  <1>22. PICK S : S = Clean  OBVIOUS
  <1>23. PICK T : T = Id \ (torn' \cup forked')  OBVIOUS
  <1>24. /\ S \subseteq Id /\ T \subseteq S /\ (UNCHANGED torn => T = S)
         /\ torn' = torn \cup {client[u].id} => x.id \notin T
    BY <1>3, <1>13, <1>21, <1>22, <1>23 DEF Clean
  <1>25. /\ FilesOK(cache, n, S, length) /\ Received(cache.obj, client, S)
         /\ Entries(index, S) /\ cut \subseteq forked
    BY <1>8, <1>22, FilesState DEF Filed
  <1>26. SUFFICES /\ FilesOK(cache', n, T, length)
                  /\ ReadsNoMore(cache.obj, cache'.obj)
    <2>1. SUFFICES ASSUME FilesOK(cache', n, T, length),
                          ReadsNoMore(cache.obj, cache'.obj)
                   PROVE  FilesInv'
      OBVIOUS
    <2>2. \A v \in Client : Q[v].state = client[v].state /\ Q[v].obj = client[v].obj
      BY <1>3, <1>6 DEF Sent, HTTPData
    <2>3. Received(cache'.obj, Q, T)
      <3>1. PICK a : a = cache.obj  OBVIOUS
      <3>2. PICK f : f = cache'.obj  OBVIOUS
      <3>3. PICK R : R = client  OBVIOUS
      <3>4. /\ Received(a, R, S) /\ ReadsNoMore(a, f) /\ T \subseteq S
            /\ \A v \in Client : Q[v].state = R[v].state /\ Q[v].obj = R[v].obj
        BY <1>24, <1>25, <2>1, <2>2, <3>1, <3>2, <3>3
      <3>5. Received(f, Q, T)  BY ONLY <3>4, ReceivedAlike
      <3> QED BY <3>2, <3>5
    <2>4. Entries(index', T)  BY <1>21, <1>24, <1>25 DEF Entries
    <2>5. Filed(cache', client', down', T, length')
      BY <1>8, <1>21, <2>1, <2>3 DEF Filed
    <2>6. cut' \subseteq forked'  BY <1>21, <1>25
    <2> QED BY <1>23, <2>4, <2>5, <2>6, StepFiles
  <1>27. CASE c.obj[o].quiet
    <2>1. left = 0  BY <1>20, <1>27
    <2>2. \E m \in 0..left : cache' = Written(c, o, m)  BY <1>21, <2>1
    <2>3. cache' = c  BY <1>27, <2>2 DEF Written
    <2>4. UNCHANGED torn  BY <1>21, <2>1
    <2>5. Stops(e, c, o)  BY <1>19, <1>27
    <2>6. x.ref # 0  BY <1>16, <1>17, <1>19
    <2>7. FilesOK(c, n, S, length) /\ ReadsNoMore(cache.obj, c.obj)
      <3>1. PICK d : d = cache  OBVIOUS
      <3>2. PICK l : l = length  OBVIOUS
      <3>3. /\ d \in Cache /\ S \subseteq Id /\ FilesOK(d, n, S, l) /\ o \in Obj
            /\ d.obj[o].id \in Id /\ e \in Cache
            /\ Puts(d, e, o, y) /\ e.disk = d.disk /\ x = d.obj[o]
            /\ y.id = x.id /\ y.deleted = x.deleted /\ y.fd = x.fd /\ y.tag = x.tag
            /\ (y.reading => x.reading) /\ y.ref # 0
            /\ Stops(e, c, o)
        BY <1>3, <1>12, <1>13, <1>16, <1>17, <1>24, <1>25, <2>5, <2>6, <3>1, <3>2
      <3>4. FilesOK(c, n, S, l)  BY ONLY <3>3, n \in Nat, UnwrittenFiles
      <3>5. ReadsNoMore(d.obj, c.obj)  BY ONLY <3>3, <3>4, n \in Nat, UnwrittenFiles
      <3> QED BY <3>1, <3>2, <3>4, <3>5
    <2> QED BY <1>24, <2>3, <2>4, <2>7
  <1>28. CASE ~c.obj[o].quiet
    <2>1. c = e /\ ~x.deleted  BY <1>16, <1>19, <1>28
    <2>2. left = y.size + 1 - y.out  BY <1>17, <1>20, <1>28, <2>1
    <2>3. ASSUME NEW p, p \in {c, Prune(c)}
          PROVE  /\ Sound(p, H, Q, n, index, failed)
                 /\ \E a \in [Obj -> CacheObj] :
                      /\ FilesAre(a, p.name, p.disk, n, S, length) /\ Only(a, p.obj, o)
                      /\ p.obj[o] = y /\ a[o] = x
                      /\ ReadsNoMore(cache.obj, a)
      <3>1. Sound(p, H, Q, n, index, failed)  BY <1>10, <2>1, <2>3, PruneSound
      <3>2. p \in Cache  BY <3>1, SoundIs
      <3>3. PICK D \in SUBSET Obj : Sweeps(e, p, D) /\ o \notin D
        <4>1. CASE p = e
          BY <1>12, <4>1, NoneSwept
        <4>2. CASE p = Prune(e)
          <5>1. Valid(e, H, n, index, failed)  BY <1>10, SoundIs
          <5>2. PICK D \in SUBSET Obj : Sweeps(e, Prune(e), D) /\ \A q \in D : H[q] = {}
            BY <5>1, PruneSweeps
          <5> QED BY <1>9, <4>2, <5>2
        <4> QED BY <2>1, <2>3, <4>1, <4>2
      <3>4. \E a \in [Obj -> CacheObj] :
              /\ FilesAre(a, p.name, p.disk, n, S, length) /\ Only(a, p.obj, o)
              /\ p.obj[o] = y /\ a[o] = cache.obj[o]
              /\ ReadsNoMore(cache.obj, a)
        BY <1>3, <1>12, <1>13, <1>16, <1>17, <1>24, <1>25, <3>2, <3>3, SweptAround
      <3> QED BY <1>13, <3>1, <3>4
    <2>4. x.reading /\ x.tag = k /\ k # 0 /\ k \in Nat
      BY <1>3, <1>4, <1>13, HttpCacheAssumption DEF Download
    <2>5. ASSUME NEW p, p \in {c, Prune(c)}, NEW m \in 0..left, cache' = Written(p, o, m),
                 UNCHANGED torn
          PROVE  /\ FilesOK(cache', n, T, length)
                 /\ ReadsNoMore(cache.obj, cache'.obj)
      <3>1. Sound(p, H, Q, n, index, failed)  BY <2>3, <2>5
      <3>2. PICK a \in [Obj -> CacheObj] :
              /\ FilesAre(a, p.name, p.disk, n, S, length) /\ Only(a, p.obj, o)
              /\ p.obj[o] = y /\ a[o] = x
              /\ ReadsNoMore(cache.obj, a)
        BY <2>3, <2>5
      <3>3. left \in Int /\ y.size \in Nat /\ y.out \in Nat  BY <1>16, <2>2 DEF CacheObj
      <3>4. PICK j \in Nat : j = m  BY <2>5, <3>3
      <3>5. y.out + j <= y.size + 1  BY <2>2, <2>5, <3>3, <3>4
      <3>6. ~p.obj[o].quiet  BY <1>17, <1>28, <2>1, <3>2
      <3>7. /\ Only(a, p.obj, o) /\ ~p.obj[o].quiet /\ S \subseteq Id
            /\ FilesAre(a, p.name, p.disk, n, S, length) /\ a[o].reading /\ a[o].tag # 0
            /\ y = p.obj[o]
            /\ y.id = a[o].id /\ y.deleted = a[o].deleted /\ y.fd = a[o].fd /\ y.tag = a[o].tag
            /\ y.reading = a[o].reading /\ y.avail = Append(a[o].avail, a[o].tag)
            /\ y.size = a[o].size /\ y.out = a[o].out /\ y.off = a[o].off
            /\ y.out + j <= y.size + 1
        BY <1>14, <1>16, <1>24, <2>4, <3>2, <3>5, <3>6
      <3>8. PICK l : l = length  OBVIOUS
      <3>9. /\ FilesOK(Written(p, o, j), n, S, l)
            /\ ReadsNoMore(a, Written(p, o, j).obj)
        BY <1>3, <1>9, <3>1, <3>7, <3>8, WrittenFiles
      <3>10. ReadsNoMore(cache.obj, Written(p, o, j).obj)
        BY <3>2, <3>9, ReadsLess
      <3> QED BY <1>24, <2>5, <3>4, <3>8, <3>9, <3>10
    <2>6. ASSUME NEW p, p \in {c, Prune(c)}, cache' = WriteError(p, o),
                 torn' = torn \cup {client[u].id}
          PROVE  /\ FilesOK(cache', n, T, length)
                 /\ ReadsNoMore(cache.obj, cache'.obj)
      <3>1. Sound(p, H, Q, n, index, failed)  BY <2>3, <2>6
      <3>2. PICK a \in [Obj -> CacheObj] :
              /\ FilesAre(a, p.name, p.disk, n, S, length) /\ Only(a, p.obj, o)
              /\ p.obj[o] = y /\ a[o] = x
              /\ ReadsNoMore(cache.obj, a)
        BY <2>3, <2>6
      <3>3. p \in Cache /\ Valid(p, H, n, index, failed)  BY <3>1, SoundIs
      <3>4. a[o].id \notin T  BY <1>24, <2>6, <3>2
      <3>5. /\ FilesOK(WriteError(p, o), n, T, length)
            /\ ReadsNoMore(a, WriteError(p, o).obj)
        BY <1>3, <1>9, <1>16, <1>24, <3>2, <3>3, <3>4, ErrorFiles, ZenonT(60)
      <3>6. ReadsNoMore(cache.obj, WriteError(p, o).obj)  BY <3>2, <3>5, ReadsLess
      <3> QED BY <2>6, <3>5, <3>6
    <2>7. left \in Int  BY <1>16, <2>2 DEF CacheObj
    <2>8. left > 0 => left \in 0..left  BY <2>7
    <2>9. c \in {c, Prune(c)} /\ Prune(c) \in {c, Prune(c)}  OBVIOUS
    <2>10. CASE (\E m \in 0..left : cache' = Written(c, o, m)) /\ UNCHANGED torn
      BY <2>5, <2>9, <2>10
    <2>11. CASE left > 0 /\ cache' = Written(Prune(c), o, left) /\ UNCHANGED torn
      BY <2>5, <2>8, <2>9, <2>11
    <2>12. CASE (\E d \in {c, Prune(c)} : cache' = WriteError(d, o))
                /\ torn' = torn \cup {client[u].id}
      BY <2>6, <2>12
    <2> QED BY <1>21, <2>10, <2>11, <2>12
  <1> QED BY <1>27, <1>28

-----------------------------------------------------------------------------
(* A body ends *)

\* Nothing of the object o is received any more.
LEMMA SilentFiles ==
  ASSUME NEW c \in Cache, NEW o \in Obj, NEW e, e = Silent(c, o), NEW x, x = c.obj[o],
         NEW y, y = e.obj[o]
  PROVE  /\ e \in Cache /\ Puts(c, e, o, y) /\ e.disk = c.disk
         /\ y.id = x.id /\ y.deleted = x.deleted /\ y.fd = x.fd /\ y.tag = x.tag
         /\ ~y.reading /\ y.avail = x.avail /\ y.size = x.size /\ y.out = x.out
         /\ y.off = x.off /\ y.ref = x.ref
  <1>1. c.obj \in [Obj -> CacheObj] /\ x \in CacheObj  BY Fields
  <1>2. PICK z : z = [x EXCEPT !.reading = FALSE, !.lis = {}]  OBVIOUS
  <1>3. z \in CacheObj  BY <1>1, <1>2 DEF CacheObj
  <1>4. /\ z.id = x.id /\ z.deleted = x.deleted /\ z.fd = x.fd /\ z.tag = x.tag
        /\ ~z.reading /\ z.avail = x.avail /\ z.size = x.size /\ z.out = x.out
        /\ z.off = x.off /\ z.ref = x.ref
    BY <1>1, <1>2 DEF CacheObj
  <1>5. e = [c EXCEPT !.obj = [c.obj EXCEPT ![o] = z]]
    BY <1>1, <1>2 DEF Cache, Silent
  <1>6. e \in Cache /\ Puts(c, e, o, z) /\ e.disk = c.disk  BY <1>3, <1>5, PutIs
  <1>7. y = z  BY <1>1, <1>6 DEF Puts
  <1> QED BY <1>4, <1>6, <1>7

\* Of the object o nothing is received, and only its listeners leave.
LEMMA LeftReceived ==
  ASSUME client \in [Client -> HTTPData], NEW n, NEW ind, NEW bad,
         Sound(cache, Holders(client), client, n, ind, bad), NEW S,
         Received(cache.obj, client, S), NEW o \in Obj, NEW K \in SUBSET cache.obj[o].lis, NEW L, L = cache.obj[o].lis \ K,
         NEW b, ReadsNoMore(cache.obj, b), ~b[o].reading
  PROVE  Received(b, Left(L, K), S)
  <1>1. PICK Q : Q = Left(L, K)  OBVIOUS
  <1>2. PICK P : P = [v \in Client |-> IF v \in L THEN NoClient ELSE client[v]]  OBVIOUS
  <1>3. Q = [v \in Client |-> IF v \in K THEN [P[v] EXCEPT !.state = "closing", !.got = <<>>]
                              ELSE P[v]]
    BY <1>1, <1>2, Zenon DEF Left, Linger, Leave
  <1>4. \A v \in Client : v \notin K /\ v \notin L => Q[v] = client[v]
    BY <1>2, <1>3, Zenon
  <1>5. ASSUME NEW p \in Obj, b[p].reading, b[p].id \in S
        PROVE  \E v \in Client : Q[v].state \in {"down", "orphan"} /\ Q[v].obj = p
    <2>1. PICK v \in Client : client[v].state \in {"down", "orphan"} /\ client[v].obj = p
      BY <1>5 DEF Received, ReadsNoMore
    <2>2. p # o  BY <1>5
    <2>3. v \notin cache.obj[o].lis  BY <2>1, <2>2, ListenersHave
    <2>4. Q[v] = client[v]  BY <1>4, <2>3
    <2> QED BY <2>1, <2>4
  <1> QED BY <1>1, <1>5 DEF Received

\* The whole body has come.
LEMMA BodyEndFiles ==
  ASSUME BooksInv, FilesInv, NEW u \in Client, BodyEnd(u)
  PROVE  FilesInv'
  <1>1. Downloading(u)  BY Zenon DEF BodyEnd
  <1>2. PICK o : o = client[u].obj  OBVIOUS
  <1>3. PICK n : n = down  OBVIOUS
  <1>4. PICK H : H = Holders(client)  OBVIOUS
  <1>5. /\ Sound(cache, H, client, n, index, failed)
        /\ client \in [Client -> HTTPData] /\ n \in Nat
        /\ o \in Obj /\ H[o] # {}
        /\ cache.obj[o].reading /\ cache.obj[o] \in CacheObj
        /\ cache.obj[o].tag \in Download
    BY <1>1, <1>2, <1>3, <1>4, DownloadingIs
  <1>6. PICK x : x = cache.obj[o]  OBVIOUS
  <1>7. PICK K \in SUBSET {v \in x.lis : client[v].state # "orphan"} :
          /\ cache' = Release(Silent(cache, o), o, Cardinality(x.lis \ K))
          /\ client' = Left(x.lis \ K, K)
    BY <1>2, <1>6, Zenon DEF BodyEnd, Silent, Left
  <1>8. PICK L : L = cache.obj[o].lis \ K  OBVIOUS
  <1>9. PICK e : e = Silent(cache, o)  OBVIOUS
  <1>10. PICK Q : Q = Left(L, K)  OBVIOUS
  <1>11. Sound(e, H, Q, n, index, failed) /\ Gives(Q, H, o, L)
    <2>1. /\ Sound(Silent(cache, o), Holders(client), Left(L, K), n, index, failed)
          /\ Gives(Left(L, K), Holders(client), o, L)
      BY <1>4, <1>5, <1>6, <1>7, <1>8, EndSound
    <2> QED BY <1>4, <1>9, <1>10, <2>1
  <1>12. PICK d \in Download : d = x.tag  BY <1>5, <1>6
  <1>13. /\ length' = [length EXCEPT ![d] = Len(x.avail)]
         /\ UNCHANGED <<index, down, events, failed, torn, forked, cut>>
    BY <1>2, <1>6, <1>12, Zenon DEF BodyEnd
  <1>14. PICK S : S = Clean  OBVIOUS
  <1>15. /\ FilesOK(cache, n, S, length) /\ Received(cache.obj, client, S)
         /\ Entries(index, S) /\ cut \subseteq forked /\ S \subseteq Id
    BY <1>3, <1>14, FilesState DEF Filed
  <1>16. PICK a \in [Obj -> CacheObj] : a = cache.obj  BY <1>5, SoundIs
  <1>17. PICK b \in [Obj -> CacheObj] : b = e.obj  BY <1>11, SoundIs
  <1>18. PICK y : y = b[o]  OBVIOUS
  <1>19. cache \in Cache /\ AllFormed(a)  BY <1>5, <1>16, SoundIs
  <1>20. /\ Puts(cache, e, o, y) /\ e.disk = cache.disk
         /\ y.id = x.id /\ y.deleted = x.deleted /\ y.fd = x.fd /\ y.tag = x.tag
         /\ ~y.reading /\ y.avail = x.avail /\ y.size = x.size /\ y.out = x.out
         /\ y.off = x.off
    BY <1>5, <1>6, <1>9, <1>17, <1>18, <1>19, SilentFiles
  <1>21. b = [a EXCEPT ![o] = y] /\ e.name = cache.name
    BY <1>16, <1>17, <1>20 DEF Puts
  <1>22. PICK len : len = length'  OBVIOUS
  <1>23. FilesOK(e, n, S, len)
    <2>1. PICK l \in [Download -> Nat \cup {None}] : l = length  BY RestIs
    <2>2. Only(a, b, o)  BY <1>21 DEF Only
    <2>3. PICK name : name = cache.name  OBVIOUS
    <2>4. PICK disk : disk = cache.disk  OBVIOUS
    <2>5. FilesAre(a, name, disk, n, S, l)  BY <1>15, <1>16, <2>1, <2>3, <2>4 DEF FilesOK
    <2>6. PICK w : w = a[o]  OBVIOUS
    <2>7. w = x /\ b[o] = y  BY <1>6, <1>16, <1>18, <2>6
    <2>10. a[o].reading /\ a[o].tag = d /\ len = [l EXCEPT ![d] = Len(a[o].avail)]
      BY <1>5, <1>6, <1>12, <1>13, <1>22, <2>1, <2>6, <2>7
    <2>11. /\ b[o].id = a[o].id /\ b[o].deleted = a[o].deleted /\ b[o].fd = a[o].fd
           /\ b[o].tag = d /\ ~b[o].reading /\ b[o].avail = a[o].avail
           /\ b[o].size = a[o].size /\ b[o].out = a[o].out /\ b[o].off = a[o].off
      BY <1>12, <1>20, <2>6, <2>7
    <2>8. /\ AllFormed(a) /\ FilesAre(a, name, disk, n, S, l) /\ Only(a, b, o)
          /\ a[o].reading /\ a[o].tag = d
          /\ b[o].id = a[o].id /\ b[o].deleted = a[o].deleted /\ b[o].fd = a[o].fd
          /\ b[o].tag = d /\ ~b[o].reading /\ b[o].avail = a[o].avail
          /\ b[o].size = a[o].size /\ b[o].out = a[o].out /\ b[o].off = a[o].off
          /\ len = [l EXCEPT ![d] = Len(a[o].avail)]
      BY <1>19, <2>2, <2>5, <2>10, <2>11
    <2>12. n \in Nat /\ o \in Obj  BY <1>5
    <2>9. FilesAre(b, name, disk, n, S, len)
      BY ONLY <2>8, <2>12, a \in [Obj -> CacheObj], d \in Download,
              l \in [Download -> Nat \cup {None}], FilesEnded
    <2> QED BY <1>17, <1>20, <1>21, <2>3, <2>4, <2>9 DEF FilesOK
  <1>24. Received(e.obj, Q, S)
    <2>1. ReadsNoMore(cache.obj, b) /\ ~b[o].reading
      BY <1>16, <1>18, <1>20, <1>21 DEF ReadsNoMore
    <2>2. K \in SUBSET cache.obj[o].lis  BY <1>6, <1>7
    <2>3. Sound(cache, Holders(client), client, n, index, failed)  BY <1>4, <1>5
    <2> QED BY <1>5, <1>8, <1>10, <1>15, <1>17, <2>1, <2>2, <2>3, LeftReceived
  <1>25. PICK f : f = Release(e, o, Cardinality(L))  OBVIOUS
  <1>26. Filed(f, Q, n, S, len)
    <2>1. L \in SUBSET H[o] /\ \A v \in L : Q[v].obj # o  BY <1>11 DEF Gives
    <2>2. Filed(e, Q, n, S, len)  BY <1>23, <1>24 DEF Filed
    <2> QED BY <1>5, <1>11, <1>15, <1>25, <2>1, <2>2, ReleaseFiled
  <1>27. cache' = f /\ client' = Q  BY <1>6, <1>7, <1>8, <1>9, <1>10, <1>25
  <1>28. Filed(cache', client', down', S, length')
    BY <1>3, <1>13, <1>22, <1>26, <1>27
  <1>29. S = Id \ (torn' \cup forked')  BY <1>13, <1>14 DEF Clean
  <1>30. Entries(index', S) /\ cut' \subseteq forked'  BY <1>13, <1>15
  <1> QED BY <1>28, <1>29, <1>30, StepFiles

\* The body breaks off.
LEMMA BodyBadFiles ==
  ASSUME BooksInv, FilesInv, NEW u \in Client, BodyBad(u)
  PROVE  FilesInv'
  <1>1. Downloading(u) /\ Quiet  BY Zenon DEF BodyBad
  <1>2. PICK o : o = client[u].obj  OBVIOUS
  <1>3. PICK n : n = down  OBVIOUS
  <1>4. PICK H : H = Holders(client)  OBVIOUS
  <1>5. /\ Sound(cache, H, client, n, index, failed)
        /\ client \in [Client -> HTTPData] /\ n \in Nat
        /\ o \in Obj /\ H[o] # {}
        /\ cache.obj[o].reading /\ cache.obj[o] \in CacheObj
        /\ cache.obj[o].id = client[u].id /\ client[u].id \in Id
    BY <1>1, <1>2, <1>3, <1>4, DownloadingIs
  <1>6. PICK x : x = cache.obj[o]  OBVIOUS
  <1>7. PICK K \in SUBSET {v \in x.lis : client[v].state # "orphan"} :
          /\ cache' = Release(Delete(Silent(cache, o), o), o, Cardinality(x.lis \ K))
          /\ client' = Left(x.lis \ K, K)
    BY <1>2, <1>6, Zenon DEF BodyBad, Silent, Left
  <1>8. PICK L : L = cache.obj[o].lis \ K  OBVIOUS
  <1>9. PICK e : e = Silent(cache, o)  OBVIOUS
  <1>10. PICK Q : Q = Left(L, K)  OBVIOUS
  <1>11. Sound(e, H, Q, n, index, failed) /\ Gives(Q, H, o, L)
    <2>1. /\ Sound(Silent(cache, o), Holders(client), Left(L, K), n, index, failed)
          /\ Gives(Left(L, K), Holders(client), o, L)
      BY <1>4, <1>5, <1>6, <1>7, <1>8, EndSound
    <2> QED BY <1>4, <1>9, <1>10, <2>1
  <1>12. PICK S : S = Clean  OBVIOUS
  <1>13. PICK l : l = length  OBVIOUS
  <1>14. /\ FilesOK(cache, n, S, l) /\ Received(cache.obj, client, S) /\ S \subseteq Id
    BY <1>3, <1>12, <1>13, FilesState DEF Filed
  <1>15. PICK c \in Cache : c = cache  BY <1>5, SoundIs
  <1>16. PICK b \in [Obj -> CacheObj] : b = e.obj  BY <1>11, SoundIs
  <1>17. PICK y : y = b[o]  OBVIOUS
  <1>18. /\ e \in Cache /\ Puts(c, e, o, y) /\ e.disk = c.disk
         /\ y.id = x.id /\ y.deleted = x.deleted /\ y.fd = x.fd /\ y.tag = x.tag
         /\ ~y.reading /\ y.ref = x.ref
    BY <1>5, <1>6, <1>9, <1>15, <1>16, <1>17, SilentFiles
  <1>19. y.ref # 0
    BY <1>5, <1>6, <1>18, ClientsFinite, SoundIs DEF Counted
  <1>20. PICK d : d = Delete(e, o)  OBVIOUS
  <1>21. e.obj[o].id # None  BY <1>5, <1>6, <1>16, <1>17, <1>18, NoObjects
  <1>22. Sound(d, H, Q, n, index, failed)
    BY <1>5, <1>11, <1>20, <1>21, DeleteSound
  <1>23. Deletes(e, d, o)
    <2>1. Valid(e, H, n, index, failed)  BY <1>11, SoundIs
    <2> QED BY <1>5, <1>20, <1>21, <2>1, DeleteOK
  <1>24. Stops(e, d, o)
    <2>1. Deletes(e, d, o) => \/ e.obj[o].deleted /\ d = e
                              \/ ~e.obj[o].deleted
      BY DEF Deletes
    <2> QED BY <1>23, <2>1 DEF Stops
  <1>25. /\ S \subseteq Id /\ FilesOK(c, n, S, l) /\ o \in Obj /\ c.obj[o].id \in Id
         /\ e \in Cache /\ Puts(c, e, o, y) /\ e.disk = c.disk /\ x = c.obj[o]
         /\ y.id = x.id /\ y.deleted = x.deleted /\ y.fd = x.fd /\ y.tag = x.tag
         /\ (y.reading => x.reading) /\ y.ref # 0 /\ n \in Nat
         /\ Stops(e, d, o)
    BY <1>5, <1>6, <1>14, <1>15, <1>18, <1>19, <1>24
  <1>26. FilesOK(d, n, S, l)  BY ONLY <1>25, c \in Cache, UnwrittenFiles
  <1>27. Received(d.obj, Q, S)
    <2>1. ReadsNoMore(b, d.obj)
      BY <1>5, <1>16, <1>18, <1>23, ReadingFewer
    <2>2. b = [c.obj EXCEPT ![o] = y]  BY <1>16, <1>18 DEF Puts
    <2>3. c.obj \in [Obj -> CacheObj]  BY Fields
    <2>4. ReadsNoMore(cache.obj, d.obj) /\ ~d.obj[o].reading
      BY <1>5, <1>15, <1>17, <1>18, <2>1, <2>2, <2>3 DEF ReadsNoMore
    <2>5. K \in SUBSET cache.obj[o].lis  BY <1>6, <1>7
    <2>6. Sound(cache, Holders(client), client, n, index, failed)  BY <1>4, <1>5
    <2> QED BY <1>5, <1>8, <1>10, <1>14, <2>4, <2>5, <2>6, LeftReceived
  <1>28. PICK f : f = Release(d, o, Cardinality(L))  OBVIOUS
  <1>29. Filed(f, Q, n, S, l)
    <2>1. L \in SUBSET H[o] /\ \A v \in L : Q[v].obj # o  BY <1>11 DEF Gives
    <2>2. Filed(d, Q, n, S, l)  BY <1>26, <1>27 DEF Filed
    <2> QED BY <1>5, <1>14, <1>22, <1>28, <2>1, <2>2, ReleaseFiled
  <1>30. cache' = f /\ client' = Q  BY <1>6, <1>7, <1>8, <1>9, <1>10, <1>20, <1>28
  <1>31. Filed(cache', client', down, Clean, length)
    BY <1>3, <1>12, <1>13, <1>29, <1>30
  <1> QED BY <1>1, <1>31, QuietFiles

\* Away(): a client gives back what it has, and nobody but it received what it downloaded.
LEMMA AwayFiled ==
  ASSUME BooksInv, FilesInv, NEW u \in Client, Away(u),
         client[u].state \in {"down", "body", "closing"},
         NEW S, S \subseteq Clean, client[u].state = "down" => client[u].id \notin S
  PROVE  Filed(cache', client', down, S, length)
  <1>1. /\ Sound(cache, Holders(client), client, down, index, failed) /\ down \in Nat
        /\ client \in [Client -> HTTPData]
    BY SoundState, RestIs
  <1>2. /\ FilesOK(cache, down, S, length) /\ Received(cache.obj, client, S) /\ S \subseteq Id
    <2>1. FilesOK(cache, down, Clean, length) /\ Clean \subseteq Id
      BY FilesState DEF Filed
    <2>2. FilesOK(cache, down, S, length)  BY <2>1, FilesFewer DEF FilesOK
    <2>3. Received(cache.obj, client, S)  BY FilesState DEF Filed, Received
    <2> QED BY <2>1, <2>2, <2>3
  <1>3. PICK o : o = client[u].obj  OBVIOUS
  <1>4. o \in Obj /\ (client[u].state = "down" => cache.obj[o].id = client[u].id)
    <2>1. Attuned(cache.obj, client[u], u) /\ o \in Obj \cup {None}  BY <1>1, <1>3, RecordIs
    <2> QED BY <1>3, <2>1 DEF Attuned, Receiving
  <1>5. PICK Q : Q = [client EXCEPT ![u] = NoClient]  OBVIOUS
  <1>6. client' = Q  BY <1>1, <1>5 DEF Away, Leave
  <1>7. PICK c : c = Unheard(cache, o, u)  OBVIOUS
  <1>8. cache' = Release(c, o, 1)  BY <1>3, <1>7 DEF Away, Unheard
  <1>9. Sound(c, Holders(client), Q, down, index, failed)
    BY <1>1, <1>3, <1>4, <1>5, <1>7, UnheardSound
  <1>10. Joined(u, o) = Holders(client)  BY <1>1, <1>3, <1>4, JoinedIs
  <1>11. Sound(c, Joined(u, o), Q, down, index, failed)  BY <1>9, <1>10
  <1>12. PICK a \in [Obj -> CacheObj] : a = cache.obj  BY <1>1, SoundIs
  <1>13. PICK y : y = [a[o] EXCEPT !.lis = @ \ {u}]  OBVIOUS
  <1>14. PICK b : b = [a EXCEPT ![o] = y]  OBVIOUS
  <1>15. a[o] \in CacheObj /\ View(a[o], y)
    <2>1. PICK x \in CacheObj : x = a[o]  BY <1>4
    <2>2. View(x, y)  BY <1>13, <2>1 DEF View, CacheObj
    <2> QED BY <2>1, <2>2
  <1>16. c.obj = b /\ c.name = cache.name /\ c.disk = cache.disk
    <2>1. cache \in Cache  BY <1>1, SoundIs
    <2>2. c = [cache EXCEPT !.obj = b]
      BY <1>7, <1>12, <1>13, <1>14, <2>1 DEF Cache, Unheard
    <2> QED BY <2>1, <2>2 DEF Cache
  <1>17. \A p \in Obj : View(a[p], b[p])
    <2>1. b[o] = y /\ \A p \in Obj : p # o => b[p] = a[p]  BY <1>4, <1>14
    <2> QED BY <1>15, <2>1 DEF View
  <1>18. FilesOK(c, down, S, length)
    <2>1. FilesAre(a, cache.name, cache.disk, down, S, length)  BY <1>2, <1>12 DEF FilesOK
    <2>2. FilesAre(b, cache.name, cache.disk, down, S, length)  BY <1>17, <2>1, FilesSame
    <2> QED BY <1>16, <2>2 DEF FilesOK
  <1>19. \A v \in Client : v # u => Q[v] = client[v]  BY <1>1, <1>5
  <1>20. Received(b, Q, S)
    <2>1. SUFFICES ASSUME NEW p \in Obj, b[p].reading, b[p].id \in S
                   PROVE  \E v \in Client : Q[v].state \in {"down", "orphan"} /\ Q[v].obj = p
      BY DEF Received
    <2>2. a[p].reading /\ a[p].id \in S  BY <1>17, <2>1 DEF View
    <2>3. PICK v \in Client : client[v].state \in {"down", "orphan"} /\ client[v].obj = p
      BY <1>2, <1>12, <2>2 DEF Received
    <2>4. v # u  BY <1>3, <1>4, <1>12, <2>2, <2>3
    <2> QED BY <1>19, <2>3, <2>4
  <1>21. Filed(c, Q, down, S, length)  BY <1>16, <1>18, <1>20 DEF Filed
  <1>22. PICK n : n = down  OBVIOUS
  <1>23. PICK l : l = length  OBVIOUS
  <1>24. Filed(Release(c, o, 1), Q, n, S, l)
    BY <1>1, <1>2, <1>3, <1>4, <1>5, <1>11, <1>21, <1>22, <1>23, BackFiled
  <1> QED BY <1>6, <1>8, <1>22, <1>23, <1>24

\* A client goes: that of a download leaves its part, or breaks it off, which is noted, and
\* others give back what they have.
LEMMA GoneFiles ==
  ASSUME BooksInv, FilesInv, NEW u \in Client, ClientGone(u)
  PROVE  FilesInv'
  <1>1. client \in [Client -> HTTPData]  BY RestIs
  <1>2. CASE Orphaned(u)
    <2>1. PICK r : r = [client[u] EXCEPT !.state = "orphan", !.got = <<>>]  OBVIOUS
    <2>2. r.state = "orphan" /\ r.obj = client[u].obj  BY <1>1, <2>1 DEF HTTPData
    <2>3. PICK Q : Q = [client EXCEPT ![u] = r]  OBVIOUS
    <2>4. client' = Q /\ cache' = cache /\ Quiet  BY <1>2, <2>1, <2>3 DEF Orphaned
    <2>5. Q[u] = r /\ \A v \in Client : v # u => Q[v] = client[v]  BY <1>1, <2>3
    <2>6. FilesOK(cache, down, Clean, length) /\ Received(cache.obj, client, Clean)
      BY FilesState DEF Filed
    <2>7. Received(cache.obj, Q, Clean)
      <3>1. SUFFICES ASSUME NEW o \in Obj, cache.obj[o].reading, cache.obj[o].id \in Clean
                     PROVE  \E v \in Client : Q[v].state \in {"down", "orphan"} /\ Q[v].obj = o
        BY DEF Received
      <3>2. PICK v \in Client : client[v].state \in {"down", "orphan"} /\ client[v].obj = o
        BY <2>6, <3>1 DEF Received
      <3>3. Q[v].state \in {"down", "orphan"} /\ Q[v].obj = o  BY <2>2, <2>5, <3>2
      <3> QED BY <3>3
    <2>8. Filed(cache', client', down, Clean, length)  BY <2>4, <2>6, <2>7 DEF Filed
    <2> QED BY <2>4, <2>8, QuietFiles
  <1>3. CASE BrokenOff(u)
    <2>1. /\ client[u].state = "down" /\ Away(u)
          /\ torn' = torn \cup {client[u].id}
          /\ UNCHANGED <<index, down, length, events, failed, forked, cut>>
      BY <1>3 DEF BrokenOff
    <2>2. PICK S : S = Clean \ {client[u].id}  OBVIOUS
    <2>3. S = Id \ (torn' \cup forked')  BY <2>1, <2>2 DEF Clean
    <2>4. Filed(cache', client', down', S, length')  BY <2>1, <2>2, AwayFiled
    <2>5. Entries(index', S) /\ cut' \subseteq forked'
      BY <2>1, <2>2, FilesState DEF Entries
    <2> QED BY <2>3, <2>4, <2>5, StepFiles
  <1>4. CASE Departed(u)
    <2>1. client[u].state \in {"body", "closing"} /\ Away(u) /\ Quiet  BY <1>4 DEF Departed
    <2>2. PICK S : S = Clean  OBVIOUS
    <2>3. Filed(cache', client', down, S, length)  BY <2>1, <2>2, AwayFiled
    <2> QED BY <2>1, <2>2, <2>3, QuietFiles
  <1> QED BY <1>2, <1>3, <1>4 DEF ClientGone

-----------------------------------------------------------------------------
(* Timers *)

\* The timer prunes the cache.
LEMMA PruneTimerFiles ==
  ASSUME BooksInv, FilesInv, PruneTimer
  PROVE  FilesInv'
  <1>1. PICK n \in Nat : n = down  BY SoundState
  <1>2. PICK c : c = cache  OBVIOUS
  <1>3. Sound(c, Holders(client), client, n, index, failed)  BY <1>1, <1>2, SoundState
  <1>4. /\ Valid(c, Holders(client), n, index, failed)
        /\ c \in Cache /\ c.obj \in [Obj -> CacheObj] /\ AllFormed(c.obj)
    BY <1>3, SoundIs
  <1>5. PICK d : d = Prune(c)  OBVIOUS
  <1>6. PICK D \in SUBSET Obj : Sweeps(c, d, D)
    <2>1. \E D \in SUBSET Obj : Sweeps(c, Prune(c), D) /\ \A p \in D : Holders(client)[p] = {}
      BY <1>4, PruneSweeps
    <2> QED BY <1>5, <2>1
  <1>7. PICK S : S = Clean  OBVIOUS
  <1>8. FilesOK(c, n, S, length) /\ Received(c.obj, client, S) /\ S \subseteq Id
    BY <1>1, <1>2, <1>7, FilesState DEF Filed
  <1>9. PICK a : a = c.obj  OBVIOUS
  <1>10. PICK b : b = Swept(a, D)  OBVIOUS
  <1>11. PICK name : name = c.name  OBVIOUS
  <1>12. PICK to : to = Nameless(a, name, D)  OBVIOUS
  <1>13. PICK disk : disk = c.disk  OBVIOUS
  <1>14. d.obj = b /\ d.name = to /\ d.disk = disk
    BY <1>6, <1>9, <1>10, <1>11, <1>12, <1>13 DEF Sweeps
  <1>15. FilesAre(b, to, disk, n, S, length)
    <2>1. FilesAre(a, name, disk, n, S, length)
      BY <1>8, <1>9, <1>11, <1>13 DEF FilesOK
    <2>2. AllFormed(a) /\ \A p \in D : a[p].fd = 0 /\ ~a[p].deleted
      BY <1>4, <1>6, <1>9 DEF Sweeps
    <2> QED BY <1>8, <1>10, <1>12, <2>1, <2>2, FilesSwept
  <1>16. ReadsNoMore(a, b)
    <2>1. \A p \in Obj : b[p] = a[p] \/ b[p] = Free  BY <1>10 DEF Swept
    <2>2. ~Free.reading  BY DEF Free
    <2> QED BY <2>1, <2>2 DEF ReadsNoMore
  <1>17. PICK R : R = client  OBVIOUS
  <1>18. Received(b, R, S)
    <2>1. Received(a, R, S)  BY <1>8, <1>9, <1>17
    <2> QED BY <1>16, <2>1, ReceivedSame
  <1>19. cache' = d /\ client' = R /\ Quiet
    BY <1>2, <1>5, <1>17 DEF PruneTimer, Quiet, history
  <1>20. Filed(cache', client', down, Clean, length)
    BY <1>1, <1>7, <1>14, <1>15, <1>18, <1>19 DEF Filed, FilesOK
  <1> QED BY <1>19, <1>20, QuietFiles

\* Of such a resource there is one object that was not deleted.
Single(obj, S) ==
  \A o, p \in Obj :
    obj[o].id \in S /\ obj[p].id = obj[o].id /\ p # o => obj[o].deleted \/ obj[p].deleted

\* Of a resource that nothing has happened to there is one entry in the index that is written.
LEMMA EntriesWritten ==
  ASSUME NEW c, NEW n \in Nat, NEW ind, NEW bad, BooksOK(c, n, ind, bad),
         index \in Seq(Entry), Len(index) <= n,
         NEW S, Single(c.obj, S), Entries(index, S)
  PROVE  Entries(NewIndex(c), S)
  <1>1. CASE ~c.modified
    BY <1>1, NewIndexIs
  <1>2. CASE c.modified
    <2>1. PICK w : w = Indexed(c)  OBVIOUS
    <2>2. PICK e : e = NewIndex(c)  OBVIOUS
    <2>3. /\ DOMAIN e = DOMAIN w
          /\ \A k \in DOMAIN w : e[k].id = c.obj[w[k]].id /\ w[k] \in Kin(c.obj)
      BY <1>2, <2>1, <2>2, NewIndexIs
    <2>4. w \in Seq(Obj) /\ Distinct(w)  BY <2>1, IndexedIs
    <2>6. ASSUME NEW j \in DOMAIN e, NEW k \in DOMAIN e, e[j].id = e[k].id, e[j].id \in S
          PROVE  j = k
      <3>1. PICK o \in Obj : o = w[j]  BY <2>3, <2>6 DEF Kin
      <3>2. PICK p \in Obj : p = w[k]  BY <2>3, <2>6 DEF Kin
      <3>3. /\ c.obj[o].id = c.obj[p].id /\ c.obj[o].id \in S
            /\ ~c.obj[o].deleted /\ ~c.obj[p].deleted
        BY <2>3, <2>6, <3>1, <3>2 DEF Kin
      <3>4. o = p  BY <3>3 DEF Single
      <3> QED BY <2>3, <2>4, <2>6, <3>1, <3>2, <3>4 DEF Distinct
    <2>7. Entries(e, S)  BY <2>6 DEF Entries
    <2> QED BY <2>2, <2>7
  <1> QED BY <1>1, <1>2

\* And so there is in a part of it.
LEMMA EntriesFound ==
  ASSUME NEW c, NEW e, NEW S, Entries(NewIndex(c), S),
         \A j \in DOMAIN e : j \in DOMAIN NewIndex(c) /\ e[j] = NewIndex(c)[j]
  PROVE  Entries(e, S)
  <1>1. PICK f : f = NewIndex(c)  OBVIOUS
  <1>2. Entries(f, S)  BY <1>1
  <1>3. \A j \in DOMAIN e : j \in DOMAIN f /\ e[j] = f[j]  BY <1>1
  <1> QED BY <1>2, <1>3 DEF Entries

\* The index is written.
LEMMA WriteIndexFiles ==
  ASSUME BooksInv, FilesInv, WriteIndex
  PROVE  FilesInv'
  <1>1. PICK n \in Nat : n = down  BY SoundState
  <1>2. /\ Sound(cache, Holders(client), client, n, index, failed)
        /\ index' = NewIndex(cache)
        /\ cache' = [cache EXCEPT !.modified = ~AllSaved(cache)]
        /\ UNCHANGED <<client, down, history>>
    BY <1>1, SoundState DEF WriteIndex
  <1>3. PICK S : S = Clean  OBVIOUS
  <1>4. /\ FilesOK(cache, n, S, length) /\ Received(cache.obj, client, S) /\ S \subseteq Id
        /\ Entries(index, S) /\ cut \subseteq forked
    BY <1>1, <1>3, FilesState DEF Filed
  <1>5. Entries(index', S)
    <2>1. BooksOK(cache, n, index, failed)  BY <1>2, SoundIs
    <2>2. index \in Seq(Entry) /\ Len(index) <= n  BY <1>1, RestIs
    <2>3. Single(cache.obj, S)  BY <1>4 DEF FilesOK, FilesAre, Apart, Single
    <2> QED BY <1>2, <1>4, <2>1, <2>2, <2>3, EntriesWritten
  <1>6. cache'.obj = cache.obj /\ cache'.name = cache.name /\ cache'.disk = cache.disk
    <2>1. PICK m : m = ~AllSaved(cache)  OBVIOUS
    <2>2. cache \in Cache  BY <1>2, SoundIs
    <2> QED BY <1>2, <2>1, <2>2 DEF Cache
  <1>7. /\ UNCHANGED <<client, down, length, torn, forked, cut>>
    BY <1>2 DEF history
  <1>8. Filed(cache', client', down', S, length')
    BY <1>1, <1>4, <1>6, <1>7 DEF Filed, FilesOK
  <1>9. S = Id \ (torn' \cup forked')  BY <1>3, <1>7 DEF Clean
  <1>10. cut' \subseteq forked'  BY <1>4, <1>7
  <1> QED BY <1>5, <1>8, <1>9, <1>10, StepFiles

-----------------------------------------------------------------------------
(* The daemon ends, or forks *)

\* Some pieces of x are still in its write buffers.
Unwritten(x) == x.tag # 0 /\ x.out < x.size

\* What is left of an object when it is given back, if it is not destroyed.
Remains(x, y) == y.id = None \/ (y.id = x.id /\ y.deleted = x.deleted)

\* The first k objects of a have been given back: of a file only what was still in the
\* buffers of an object has been written.
Cleaned(a, name, disk, g, k) ==
  /\ g.name = name
  /\ \A p \in Obj : p <= k \/ g.obj[p] = a[p]
  /\ \A p \in Obj : Remains(a[p], g.obj[p])
  /\ \A f \in Download : g.disk[f] = disk[f] \/ \E o \in Obj : a[o].fd = f /\ Unwritten(a[o])

\* One more is.
LEMMA CleanedMore ==
  ASSUME NEW a, NEW name, NEW disk, NEW d \in Cache, NEW r, NEW k \in Nat,
         Cleaned(a, name, disk, d, k), NEW o \in Obj, o = k + 1,
         r = d \/ Releases(d, r, o, d.obj[o].ref)
  PROVE  Cleaned(a, name, disk, r, o)
  <1>1. \A p \in Obj : p <= k => p <= o  BY DEF Obj
  <1>2. CASE r = d
    BY <1>1, <1>2 DEF Cleaned
  <1>3. CASE Releases(d, r, o, d.obj[o].ref)
    <2>1. PICK b \in [Obj -> CacheObj] : b = d.obj  BY Fields
    <2>2. PICK x \in CacheObj : x = b[o]  OBVIOUS
    <2>3. x = a[o]
      <3>1. ~(o <= k)  BY DEF Obj
      <3> QED BY <2>1, <2>2, <3>1 DEF Cleaned
    <2>4. x.ref \in Nat  BY DEF CacheObj
    <2>5. PICK m : m = Ended(x)  OBVIOUS
    <2>6. /\ \E y : /\ r.obj = [b EXCEPT ![o] = y]
                    /\ y.id = None \/ (y.id = x.id /\ y.deleted = x.deleted)
          /\ r.name = d.name
          /\ r.disk = Wrote(d.disk, x, m)
      <3>1. CASE /\ ~x.deleted
                 /\ Puts(d, r, o, Closed(Fewer(x, x.ref)))
                 /\ r.disk = Wrote(d.disk, x, m)
        <4>1. PICK z : z = Fewer(x, x.ref)  OBVIOUS
        <4>2. z.id = x.id /\ z.deleted = x.deleted  BY <4>1 DEF Fewer, CacheObj
        <4>3. PICK y : y = Closed(z)  OBVIOUS
        <4>4. y.id = x.id /\ y.deleted = x.deleted  BY <4>2, <4>3, ClosedIs
        <4>5. r.obj = [b EXCEPT ![o] = y] /\ r.name = d.name
          BY <2>1, <3>1, <4>1, <4>3 DEF Puts
        <4> QED BY <3>1, <4>4, <4>5
      <3>2. CASE x.deleted /\ Drops(d, r, o) /\ r.disk = Wrote(d.disk, x, m)
        <4>1. r.obj = [b EXCEPT ![o] = Free] /\ r.name = d.name  BY <2>1, <3>2 DEF Drops
        <4>2. Free.id = None  BY DEF Free
        <4> QED BY <3>2, <4>1, <4>2
      <3>3. ~(x.ref > x.ref)  BY <2>4
      <3> QED BY <1>3, <2>1, <2>2, <2>5, <3>1, <3>2, <3>3 DEF Releases
    <2>7. PICK y : /\ r.obj = [b EXCEPT ![o] = y]
                   /\ y.id = None \/ (y.id = x.id /\ y.deleted = x.deleted)
      BY <2>6
    <2>8. r.obj[o] = y /\ \A p \in Obj : p # o => r.obj[p] = b[p]  BY <2>7
    <2>9. \A p \in Obj : p <= o \/ r.obj[p] = a[p]
      <3>1. \A p \in Obj : ~(p <= o) => ~(p <= k) /\ p # o  BY DEF Obj
      <3> QED BY <2>1, <2>8, <3>1 DEF Cleaned
    <2>10. \A p \in Obj : Remains(a[p], r.obj[p])
      BY <2>1, <2>3, <2>7, <2>8 DEF Cleaned, Remains
    <2>11. \A f \in Download : r.disk[f] = disk[f] \/ \E p \in Obj : a[p].fd = f /\ Unwritten(a[p])
      <3>1. PICK s \in [Download -> Content] : s = d.disk  BY Fields
      <3>2. r.disk = Wrote(s, x, m)  BY <2>6, <3>1
      <3>3. ASSUME NEW f \in Download
            PROVE  r.disk[f] = s[f] \/ (x.fd = f /\ Unwritten(x))
        <4>1. CASE x.fd = 0 \/ m <= x.out
          <5>1. r.disk = s  BY <3>2, <4>1 DEF Wrote
          <5> QED BY <5>1
        <4>2. CASE ~(x.fd = 0 \/ m <= x.out)
          <5>1. PICK w : w = Overwrite(s[x.fd], x.off, m - x.out, x.tag)  OBVIOUS
          <5>2. r.disk = [s EXCEPT ![x.fd] = w]  BY <3>2, <4>2, <5>1 DEF Wrote
          <5>3. Unwritten(x)
            <6>1. x.out \in Nat /\ x.size \in Nat  BY DEF CacheObj
            <6> QED BY <2>5, <4>2, <6>1 DEF Ended, Unwritten
          <5>4. f # x.fd => r.disk[f] = s[f]  BY <5>2
          <5> QED BY <5>3, <5>4
        <4> QED BY <4>1, <4>2
      <3>4. \A f \in Download : s[f] = disk[f] \/ \E p \in Obj : a[p].fd = f /\ Unwritten(a[p])
        BY <3>1 DEF Cleaned
      <3> QED BY <2>3, <3>3, <3>4
    <2>12. r.name = name  BY <2>6 DEF Cleaned
    <2> QED BY <2>9, <2>10, <2>11, <2>12 DEF Cleaned
  <1> QED BY <1>2, <1>3

\* Cleanup() gives everything back.
LEMMA CleanupFiles ==
  ASSUME NEW c, NEW n \in Nat, NEW ind, NEW bad, Valid(c, Holders(client), n, ind, bad)
  PROVE  Cleaned(c.obj, c.name, c.disk, Cleanup(c), MaxDownloads)
  <1>1. MaxDownloads \in Nat  BY HttpCacheAssumption
  <1>2. PICK H : H = Holders(client)  OBVIOUS
  <1>3. Valid(c, H, n, ind, bad)  BY <1>2
  <1>4. PICK g :
              /\ g[0] = c /\ Cleanup(c) = g[MaxDownloads]
              /\ \A k \in Nat : k <= MaxDownloads => Valid(g[k], Emptied(H, k), n, ind, bad)
              /\ \A k \in Nat : k + 1 <= MaxDownloads => g[k + 1] = CleanStep(g[k], k + 1)
    BY <1>2, <1>3, CleanupOK
  <1>5. PICK a : a = c.obj  OBVIOUS
  <1>6. PICK name : name = c.name  OBVIOUS
  <1>7. PICK disk : disk = c.disk  OBVIOUS
  <1> DEFINE T == {k \in Nat : k <= MaxDownloads => Cleaned(a, name, disk, g[k], k)}
  <1>8. 0 \in T
    <2>1. PICK d : d = g[0]  OBVIOUS
    <2>2. d.name = name /\ d.obj = a /\ d.disk = disk  BY <1>4, <1>5, <1>6, <1>7, <2>1
    <2>3. Cleaned(a, name, disk, d, 0)  BY <2>2 DEF Cleaned, Remains
    <2> QED BY <2>1, <2>3
  <1>9. ASSUME NEW k \in Nat, k \in T
        PROVE  k + 1 \in T
    <2>1. SUFFICES ASSUME k + 1 <= MaxDownloads
                   PROVE  Cleaned(a, name, disk, g[k + 1], k + 1)
      BY <1>9
    <2>2. PICK o \in Obj : o = k + 1  BY <1>1, <2>1 DEF Obj
    <2>3. k <= MaxDownloads  BY <1>1, <2>1
    <2>4. PICK d : d = g[k]  OBVIOUS
    <2>5. Valid(d, Emptied(H, k), n, ind, bad) /\ Cleaned(a, name, disk, d, k)
      BY <1>4, <1>9, <2>3, <2>4
    <2>6. PICK r : r = CleanStep(d, k + 1)  OBVIOUS
    <2>7. g[k + 1] = r  BY <1>4, <2>1, <2>4, <2>6
    <2>8. r = d \/ Releases(d, r, o, d.obj[o].ref)
      <3>1. k + 1 \in Obj  BY <2>2
      <3>2. \/ CleanStep(d, k + 1) = d /\ H[k + 1] = {}
            \/ /\ Releases(d, CleanStep(d, k + 1), k + 1, d.obj[k + 1].ref)
               /\ H[k + 1] # {}
        BY <1>2, <2>5, <3>1, CleanStepOK
      <3> QED BY <2>2, <2>6, <3>2
    <2>9. d \in Cache  BY <2>5 DEF Valid, BooksOK
    <2>10. Cleaned(a, name, disk, r, o)  BY <2>2, <2>5, <2>8, <2>9, CleanedMore
    <2> QED BY <2>2, <2>7, <2>10
  <1> HIDE DEF T
  <1>10. Nat \subseteq T  BY <1>8, <1>9, Every
  <1>11. MaxDownloads <= MaxDownloads  BY <1>1
  <1>12. Cleaned(a, name, disk, g[MaxDownloads], MaxDownloads)
    <2>1. \A k \in Nat : k <= MaxDownloads => Cleaned(a, name, disk, g[k], k)
      BY <1>10 DEF T
    <2> QED BY <1>1, <1>11, <2>1
  <1> QED BY <1>4, <1>5, <1>6, <1>7, <1>12

\* Of resources that are neither received nor in a buffer the files are whole.
LEMMA WholeThen ==
  ASSUME NEW a, AllFormed(a), NEW name, NEW disk, NEW n, NEW S, NEW len,
         a \in [Obj -> CacheObj], FilesAre(a, name, disk, n, S, len),
         \A o \in Obj : a[o].id \in S => ~a[o].reading /\ ~Unwritten(a[o])
  PROVE  \A i \in S : name[i] # 0 => WholeOf(disk[name[i]], len)
  <1>1. SUFFICES ASSUME NEW i \in S, name[i] # 0, ~WholeOf(disk[name[i]], len)
                 PROVE  FALSE
    OBVIOUS
  <1>2. PICK o \in Obj : a[o].id = i /\ ~a[o].deleted /\ a[o].tag # 0
    BY <1>1 DEF FilesAre, Files
  <1>3. PICK x \in CacheObj : x = a[o]  OBVIOUS
  <1>4. Filled(x, disk, len)  BY <1>2, <1>3 DEF FilesAre, Contents
  <1>5. x.fd # 0  BY <1>2, <1>3 DEF AllFormed, Formed, Shut
  <1>6. name[i] = x.fd  BY <1>2, <1>3, <1>5 DEF FilesAre, Apart
  <1>7. ~x.reading /\ ~Unwritten(x)  BY <1>2, <1>3
  <1>8. x.out \in Nat /\ x.size \in Nat /\ x.tag \in 0..MaxDownloads  BY ObjFields
  <1>9. x.out = x.size
    <2>1. ~(x.out < x.size) /\ x.out <= x.size
      BY <1>2, <1>3, <1>4, <1>7 DEF Unwritten, Filled
    <2> QED BY <1>8, <2>1
  <1>10. disk[x.fd] = Pieces(x.size, x.tag) /\ len[x.tag] = x.size
    BY <1>4, <1>7, <1>9 DEF Filled
  <1>11. x.tag \in Download  BY <1>2, <1>3, <1>8, HttpCacheAssumption DEF Download
  <1>12. x.size # None  BY <1>8, HttpCacheAssumption
  <1>13. WholeOf(disk[x.fd], len)  BY <1>10, <1>11, <1>12 DEF WholeOf
  <1> QED BY <1>1, <1>6, <1>13

\* Objects that are given back are as single as they were.
LEMMA CleanedSingle ==
  ASSUME NEW a, NEW name, NEW disk, NEW g, NEW k, Cleaned(a, name, disk, g, k),
         NEW S, S \subseteq Id, Single(a, S)
  PROVE  Single(g.obj, S)
  <1>1. \A p \in Obj : \/ g.obj[p].id = None
                       \/ g.obj[p].id = a[p].id /\ g.obj[p].deleted = a[p].deleted
    BY DEF Cleaned, Remains
  <1>2. None \notin S  BY NoObjects
  <1> QED BY <1>1, <1>2 DEF Single

\* The daemon ends, and another starts.
LEMMA RestartFiles ==
  ASSUME BooksInv, FilesInv, Restart
  PROVE  FilesInv'
  <1>1. PICK n \in Nat : n = down  BY SoundState
  <1>2. /\ Sound(cache, Holders(client), client, n, index, failed)
        /\ n <= MaxDownloads /\ cache \in Cache
    BY <1>1, SoundState, SoundIs
  <1>3. PICK a \in [Obj -> CacheObj] : a = cache.obj  BY <1>2, SoundIs
  <1>4. PICK S : S = Clean \ Unfinished  OBVIOUS
  <1>5. /\ torn' = torn \cup Unfinished /\ failed' = FALSE
        /\ client' = [u \in Client |-> NoClient]
        /\ UNCHANGED <<down, length, forked, cut>>
    BY DEF Restart
  <1>6. S = Id \ (torn' \cup forked')  BY <1>4, <1>5 DEF Clean
  <1>7. PICK l : l = length  OBVIOUS
  <1>8. PICK name \in [Id -> 0..MaxDownloads] : name = cache.name  BY <1>2 DEF Cache
  <1>9. PICK disk : disk = cache.disk  OBVIOUS
  <1>10. /\ FilesAre(a, name, disk, n, S, l) /\ S \subseteq Id
         /\ Entries(index, S) /\ cut \subseteq forked
    <2>1. /\ FilesOK(cache, n, Clean, l) /\ Entries(index, Clean) /\ cut \subseteq forked
          /\ Clean \subseteq Id /\ S \subseteq Clean
      BY <1>1, <1>4, <1>7, FilesState DEF Filed
    <2>2. FilesAre(a, name, disk, n, Clean, l)  BY <1>3, <1>8, <1>9, <2>1 DEF FilesOK
    <2>3. FilesAre(a, name, disk, n, S, l)  BY <2>1, <2>2, FilesFewer
    <2>4. Entries(index, S)  BY <2>1 DEF Entries
    <2> QED BY <2>1, <2>3, <2>4
  <1>11. \A o \in Obj : a[o].id \in S => ~a[o].reading /\ ~Unwritten(a[o])
    BY <1>3, <1>4, <1>10 DEF Unfinished, Pending, Unwritten
  <1>12. AllFormed(a)  BY <1>2, <1>3, SoundIs
  <1>13. PICK c \in Cache, e \in Seq(Entry) :
           /\ index' = e /\ Len(e) <= n /\ cache' = LoadIndex(c, e) /\ Entries(e, S)
           /\ c.name = name /\ FilesAre(a, name, c.disk, n, S, l)
    <2>1. CASE Found(Cleanup(cache), index') /\ cache' = LoadIndex(Cleanup(cache), index')
      <3>1. PICK c : c = Cleanup(cache)  OBVIOUS
      <3>2. PICK e : e = index'  OBVIOUS
      <3>3. /\ NewIndex(c) \in Seq(Entry) /\ Len(NewIndex(c)) <= n /\ c \in Cache
            /\ Found(c, e) /\ cache' = LoadIndex(c, e)
        BY <1>1, <2>1, <3>1, <3>2, CleanedUp
      <3>4. /\ e \in Seq(Entry) /\ Len(e) <= n
            /\ \A j \in DOMAIN e : j \in DOMAIN NewIndex(c) /\ e[j] = NewIndex(c)[j]
        BY <3>3, FoundIs
      <3>5. Valid(cache, Holders(client), n, index, failed)  BY <1>2, SoundIs
      <3>6. Cleaned(a, name, disk, c, MaxDownloads)
        BY <1>3, <1>8, <1>9, <3>1, <3>5, CleanupFiles
      <3>7. Single(c.obj, S)
        <4>1. Single(a, S)  BY <1>10 DEF FilesAre, Apart, Single
        <4> QED BY <1>10, <3>6, <4>1, CleanedSingle
      <3>8. BooksOK(c, n, index, failed)
        <4>1. PICK H : H = Holders(client)  OBVIOUS
        <4>2. Valid(cache, H, n, index, failed)  BY <3>5, <4>1
        <4>3. Valid(Cleanup(cache), [o \in Obj |-> {}], n, index, failed)
          BY <4>1, <4>2, CleanupOK
        <4> QED BY <3>1, <4>3 DEF Valid
      <3>9. Entries(e, S)
        <4>1. index \in Seq(Entry) /\ Len(index) <= n  BY <1>1, RestIs
        <4>2. Entries(NewIndex(c), S)
          BY <1>10, <3>7, <3>8, <4>1, EntriesWritten
        <4> QED BY <3>4, <4>2, EntriesFound
      <3>10. PICK on : on = c.disk  OBVIOUS
      <3>11. \A g \in Download : on[g] = disk[g] \/ \E p \in Obj : a[p].fd = g /\ a[p].id \notin S
        BY <1>11, <3>6, <3>10 DEF Cleaned
      <3>12. \A p \in Obj : Alike(a[p], a[p]) /\ (a[p].id \in S => a[p].off = a[p].off)
        BY DEF Alike
      <3>13. FilesAre(a, name, on, n, S, l)
        BY <1>10, <1>12, <3>11, <3>12, FilesForked
      <3>14. c.name = name  BY <3>6 DEF Cleaned
      <3> QED BY <3>2, <3>3, <3>4, <3>9, <3>10, <3>13, <3>14
    <2>2. CASE index' = index /\ cache' = LoadIndex(cache, index)
      <3>1. index \in Seq(Entry) /\ Len(index) <= n  BY <1>1, RestIs
      <3> QED BY <1>2, <1>8, <1>9, <1>10, <2>2, <3>1
    <2>3. CASE Found(cache, index') /\ cache' = LoadIndex(cache, index')
      <3>1. index \in Seq(Entry) /\ Len(index) <= n  BY <1>1, RestIs
      <3>2. BooksOK(cache, n, index, failed)  BY <1>2, SoundIs
      <3>3. Single(cache.obj, S)  BY <1>3, <1>10 DEF FilesAre, Apart, Single
      <3>4. Entries(NewIndex(cache), S)
        BY <1>10, <3>1, <3>2, <3>3, EntriesWritten
      <3>5. NewIndex(cache) \in Seq(Entry) /\ Len(NewIndex(cache)) <= n
        BY <3>1, <3>2, NewIndexIs
      <3>6. PICK e : e = index'  OBVIOUS
      <3>7. Found(cache, e) /\ cache' = LoadIndex(cache, e)  BY <2>3, <3>6
      <3>8. /\ e \in Seq(Entry) /\ Len(e) <= n
            /\ \A j \in DOMAIN e : j \in DOMAIN NewIndex(cache) /\ e[j] = NewIndex(cache)[j]
        BY <3>5, <3>7, FoundIs
      <3>9. Entries(e, S)  BY <3>4, <3>8, EntriesFound
      <3> QED BY <1>2, <1>8, <1>9, <1>10, <3>6, <3>7, <3>8, <3>9
    <2> QED BY <2>1, <2>2, <2>3, RestartFinds
  <1>14. PICK on : on = c.disk  OBVIOUS
  <1>15. PICK m \in Nat : m = Len(e) /\ DOMAIN e = 1..m
    BY LenProperties
  <1>16. m <= MaxDownloads /\ m <= n  BY <1>2, <1>13, <1>15, HttpCacheAssumption
  <1>17. PICK b : b = [o \in Obj |-> Loaded(e, o)]  OBVIOUS
  <1>18. cache'.obj = b /\ cache'.name = name /\ cache'.disk = on
    <2>1. Len(e) <= MaxDownloads  BY <1>15, <1>16
    <2>2. /\ LoadIndex(c, e).obj = [o \in Obj |-> Loaded(e, o)]
          /\ LoadIndex(c, e).name = c.name
          /\ LoadIndex(c, e).disk = c.disk
      BY <2>1, LoadIndexIs
    <2> QED BY <1>13, <1>14, <1>17, <2>2
  <1>19. ASSUME NEW p \in Obj
         PROVE  /\ b[p].fd = 0 /\ b[p].tag = 0 /\ ~b[p].reading
                /\ b[p].id = IF p <= m THEN e[p].id ELSE None
    <2>1. b[p] = Loaded(e, p)  BY <1>17
    <2>2. CASE p <= m
      <3>1. b[p] = [Free EXCEPT !.id = e[p].id, !.size = e[p].size]
        BY <1>15, <2>1, <2>2 DEF Loaded
      <3> QED BY <2>2, <3>1 DEF Free
    <2>3. CASE ~(p <= m)
      <3>1. b[p] = Free  BY <1>15, <2>1, <2>3 DEF Loaded
      <3> QED BY <2>3, <3>1 DEF Free
    <2> QED BY <2>2, <2>3
  <1>20. \A i \in S : name[i] # 0 => WholeOf(on[name[i]], l)
    <2>1. FilesAre(a, name, on, n, S, l)  BY <1>13, <1>14
    <2> QED BY <1>11, <1>12, <2>1, WholeThen
  <1>21. FilesAre(b, name, on, n, S, l)
    <2>1. /\ S \subseteq Id /\ FilesAre(a, name, on, n, S, l) /\ Entries(e, S)
          /\ DOMAIN e = 1..m
      BY <1>10, <1>13, <1>14, <1>15
    <2>2. \A p \in Obj : /\ b[p].fd = 0 /\ b[p].tag = 0 /\ ~b[p].reading
                         /\ b[p].id = IF p <= m THEN e[p].id ELSE None
      BY <1>19
    <2> QED BY <1>20, <2>1, <2>2, FilesIndexed
  <1>22. \A p \in Obj : ~b[p].reading  BY <1>19
  <1>23. Filed(cache', client', down', S, length')
    BY <1>1, <1>5, <1>7, <1>18, <1>21, <1>22 DEF Filed, FilesOK, Received
  <1>24. Entries(index', S) /\ cut' \subseteq forked'  BY <1>5, <1>10, <1>13
  <1> QED BY <1>6, <1>23, <1>24, StepFiles

\* Another part of the daemon forks.
LEMMA ForkFiles ==
  ASSUME BooksInv, FilesInv, Fork
  PROVE  FilesInv'
  <1>1. PICK n \in Nat : n = down  BY SoundState
  <1>2. /\ Sound(cache, Holders(client), client, n, index, failed) /\ cache \in Cache
    BY <1>1, SoundState, SoundIs
  <1>3. PICK a \in [Obj -> CacheObj] : a = cache.obj  BY <1>2, SoundIs
  <1>4. PICK c : c = Cleanup(cache)  OBVIOUS
  <1>5. PICK on : on = c.disk  OBVIOUS
  <1>6. PICK e : e = NewIndex(c)  OBVIOUS
  <1>7. PICK b : b = [o \in Obj |->
                        IF ~Pending(o) THEN cache.obj[o]
                        ELSE [cache.obj[o] EXCEPT
                                !.off = @ + cache.obj[o].size - cache.obj[o].out]]
    BY Zenon
  <1>8. PICK P : P = {i \in Id : \E o \in Obj : cache.obj[o].id = i /\ Pending(o)}  OBVIOUS
  <1>9. /\ index' = e
        /\ cache' = [cache EXCEPT !.disk = on, !.obj = b]
        /\ forked' = forked \cup P
        /\ UNCHANGED <<client, down, length, failed, torn, cut>>
    <2>1. cache' = [cache EXCEPT !.disk = Cleanup(cache).disk, !.obj = b]
      BY <1>7, Zenon DEF Fork
    <2>2. index' = NewIndex(Cleanup(cache))  BY Zenon DEF Fork
    <2>3. /\ forked' = forked \cup P
          /\ UNCHANGED <<client, down, length, failed, torn, cut>>
      BY <1>8, Zenon DEF Fork
    <2> QED BY <1>4, <1>5, <1>6, <2>1, <2>2, <2>3
  <1>10. cache'.obj = b /\ cache'.name = cache.name /\ cache'.disk = on
    BY <1>2, <1>9 DEF Cache
  <1>11. PICK S : S = Clean \ P  OBVIOUS
  <1>12. S = Id \ (torn' \cup forked')  BY <1>9, <1>11 DEF Clean
  <1>13. PICK l : l = length  OBVIOUS
  <1>14. PICK name \in [Id -> 0..MaxDownloads] : name = cache.name  BY <1>2 DEF Cache
  <1>15. PICK disk : disk = cache.disk  OBVIOUS
  <1>16. /\ FilesAre(a, name, disk, n, S, l) /\ S \subseteq Id
         /\ Entries(index, S) /\ cut \subseteq forked /\ Received(a, client, S)
    <2>1. /\ FilesOK(cache, n, Clean, l) /\ Entries(index, Clean) /\ cut \subseteq forked
          /\ Clean \subseteq Id /\ S \subseteq Clean /\ Received(a, client, Clean)
      BY <1>1, <1>3, <1>11, <1>13, FilesState DEF Filed
    <2>2. FilesAre(a, name, disk, n, Clean, l)  BY <1>3, <1>14, <1>15, <2>1 DEF FilesOK
    <2>3. FilesAre(a, name, disk, n, S, l)  BY <2>1, <2>2, FilesFewer
    <2>4. Entries(index, S)  BY <2>1 DEF Entries
    <2>5. Received(a, client, S)  BY <2>1 DEF Received
    <2> QED BY <2>1, <2>3, <2>4, <2>5
  <1>17. AllFormed(a)  BY <1>2, <1>3, SoundIs
  <1>18. \A o \in Obj : a[o].id \in S => ~Unwritten(a[o]) /\ ~Pending(o)
    BY <1>3, <1>8, <1>11, <1>16 DEF Pending, Unwritten
  <1>19. Valid(cache, Holders(client), n, index, failed)  BY <1>2, SoundIs
  <1>20. Cleaned(a, name, disk, c, MaxDownloads)
    BY <1>3, <1>4, <1>14, <1>15, <1>19, CleanupFiles
  <1>21. Entries(e, S)
    <2>1. Single(a, S)  BY <1>16 DEF FilesAre, Apart, Single
    <2>2. Single(c.obj, S)  BY <1>16, <1>20, <2>1, CleanedSingle
    <2>3. BooksOK(c, n, index, failed)
      <3>1. PICK H : H = Holders(client)  OBVIOUS
      <3>2. Valid(cache, H, n, index, failed)  BY <1>19, <3>1
      <3>3. Valid(Cleanup(cache), [o \in Obj |-> {}], n, index, failed)
        BY <3>1, <3>2, CleanupOK
      <3> QED BY <1>4, <3>3 DEF Valid
    <2>4. index \in Seq(Entry) /\ Len(index) <= n  BY <1>1, RestIs
    <2> QED BY <1>6, <1>16, <2>2, <2>3, <2>4, EntriesWritten
  <1>22. \A g \in Download : on[g] = disk[g] \/ \E p \in Obj : a[p].fd = g /\ a[p].id \notin S
    BY <1>5, <1>18, <1>20 DEF Cleaned
  <1>23. ASSUME NEW o \in Obj
         PROVE  Alike(a[o], b[o]) /\ (a[o].id \in S => b[o].off = a[o].off)
    <2>1. PICK x \in CacheObj : x = a[o]  OBVIOUS
    <2>2. CASE Pending(o)
      <3>1. b[o] = [x EXCEPT !.off = @ + x.size - x.out]  BY <1>3, <1>7, <2>1, <2>2
      <3>2. x.tag # 0  BY <1>3, <2>1, <2>2 DEF Pending
      <3>3. Alike(x, b[o])  BY <3>1, <3>2 DEF Alike, CacheObj
      <3> QED BY <1>18, <2>1, <2>2, <3>3
    <2>3. CASE ~Pending(o)
      <3>1. b[o] = x  BY <1>3, <1>7, <2>1, <2>3
      <3> QED BY <2>1, <3>1 DEF Alike
    <2> QED BY <2>2, <2>3
  <1>24. FilesAre(b, name, on, n, S, l)
    BY <1>16, <1>17, <1>22, <1>23, FilesForked
  <1>25. Received(b, client, S)
    <2>1. ReadsNoMore(a, b)  BY <1>23 DEF Alike, ReadsNoMore
    <2> QED BY <1>16, <2>1, ReceivedSame
  <1>26. Filed(cache', client', down', S, length')
    BY <1>1, <1>9, <1>10, <1>13, <1>14, <1>24, <1>25 DEF Filed, FilesOK
  <1>27. Entries(index', S) /\ cut' \subseteq forked'  BY <1>9, <1>16, <1>21
  <1> QED BY <1>12, <1>26, <1>27, StepFiles

-----------------------------------------------------------------------------
(* The contents, always *)

\* There is nothing at first.
LEMMA InitFiles ==
  ASSUME Init
  PROVE  FilesInv
  <1>1. PICK a : a = [o \in Obj |-> Free]  OBVIOUS
  <1>2. PICK name : name = [i \in Id |-> 0]  OBVIOUS
  <1>3. PICK disk : disk = [d \in Download |-> <<>>]  OBVIOUS
  <1>4. cache.obj = a /\ cache.name = name /\ cache.disk = disk
    BY <1>1, <1>2, <1>3 DEF Init, EmptyCache
  <1>5. \A o \in Obj : /\ a[o].id = None /\ a[o].fd = 0 /\ a[o].tag = 0 /\ ~a[o].reading
    BY <1>1 DEF Free
  <1>6. \A i \in Id : name[i] = 0  BY <1>2
  <1>7. PICK S : S = Clean  OBVIOUS
  <1>8. S \subseteq Id  BY <1>7 DEF Clean
  <1>9. None \notin S  BY <1>8, NoObjects
  <1>10. PICK len : len = length  OBVIOUS
  <1>11. \A d \in Download : len[d] = None  BY <1>10 DEF Init
  <1>12. Owned(a, name, 0)  BY <1>5, <1>6 DEF Owned
  <1>13. Apart(a, name, S)  BY <1>5, <1>9 DEF Apart
  <1>14. Tagged(a, 0, len)  BY <1>5, <1>11 DEF Tagged
  <1>15. Contents(a, disk, S, len)  BY <1>5 DEF Contents
  <1>16. Files(a, name, disk, S, len)  BY <1>6, <1>8 DEF Files
  <1>17. FilesAre(a, name, disk, 0, S, len)
    BY <1>12, <1>13, <1>14, <1>15, <1>16 DEF FilesAre
  <1>18. FilesOK(cache, down, Clean, length)
    <2>1. down = 0  BY DEF Init
    <2> QED BY <1>4, <1>7, <1>10, <1>17, <2>1 DEF FilesOK
  <1>19. Received(cache.obj, client, Clean)  BY <1>4, <1>5 DEF Received
  <1>20. Entries(index, Clean)
    <2>1. PICK e : e = index  OBVIOUS
    <2>2. DOMAIN e = {}
      <3>1. e = <<>>  BY <2>1 DEF Init
      <3> QED BY <3>1
    <2>3. Entries(e, Clean)  BY <2>2 DEF Entries
    <2> QED BY <2>1, <2>3
  <1>21. cut \subseteq forked  BY DEF Init
  <1> QED BY <1>18, <1>19, <1>20, <1>21 DEF FilesInv

\* A step that changes nothing.
LEMMA StillFiles ==
  ASSUME FilesInv, UNCHANGED vars
  PROVE  FilesInv'
  <1>1. cache' = cache /\ client' = client /\ Quiet  BY DEF vars, Quiet, history
  <1>2. Filed(cache', client', down, Clean, length)  BY <1>1, FilesState
  <1> QED BY <1>1, <1>2, QuietFiles

\* What is in the objects and files stays right, whatever the clients, the timers and the
\* processes do.
THEOREM FilesKept == Spec => []FilesInv
  <1>1. Init => FilesInv  BY InitFiles
  <1>2. BooksInv /\ FilesInv /\ [Next]_vars => FilesInv'
    <2>1. SUFFICES ASSUME BooksInv, FilesInv, [Next]_vars
                   PROVE  FilesInv'
      OBVIOUS
    <2>2. ASSUME NEW u \in Client, ClientSteps(u)
          PROVE  FilesInv'
      <3>1. ASSUME NEW i \in Id, Request(u, i)
            PROVE  FilesInv'
        BY <2>1, <3>1, RequestFiles
      <3>2. CASE Revalidated(u)       BY <2>1, <3>2, RevalidatedFiles
      <3>3. CASE Forward(u)           BY <2>1, <3>3, ForwardFiles
      <3>4. CASE DownloadAndCache(u)  BY <2>1, <3>4, DownloadFiles
      <3>5. CASE DownloadOnly(u)      BY <2>1, <3>5, DownloadOnlyFiles
      <3>6. CASE Chunk(u)             BY <2>1, <3>6, ChunkFiles
      <3>7. CASE BodyEnd(u)           BY <2>1, <3>7, BodyEndFiles
      <3>8. CASE BodyBad(u)           BY <2>1, <3>8, BodyBadFiles
      <3>9. CASE ClientGone(u)        BY <2>1, <3>9, GoneFiles
      <3> QED BY <2>2, <3>1, <3>2, <3>3, <3>4, <3>5, <3>6, <3>7, <3>8, <3>9 DEF ClientSteps
    <2>3. CASE PruneTimer      BY <2>1, <2>3, PruneTimerFiles
    <2>4. CASE WriteIndex      BY <2>1, <2>4, WriteIndexFiles
    <2>5. CASE Restart         BY <2>1, <2>5, RestartFiles
    <2>6. CASE Fork            BY <2>1, <2>6, ForkFiles
    <2>7. CASE UNCHANGED vars  BY <2>1, <2>7, StillFiles
    <2> QED BY <2>1, <2>2, <2>3, <2>4, <2>5, <2>6, <2>7 DEF Next
  <1> QED BY <1>1, <1>2, BooksKept, PTL DEF Spec

\* storeobj.cpp and mod_http.cpp: a client that is told it has all of a body has all of it, and
\* of one body, for any clients, resources and limits, but for resources that something has
\* happened to: the daemon ended or forked, or a write failed, while they were downloaded, or
\* two clients downloaded them at a time, or they were deleted while they were validated.
THEOREM ServedAlways == Spec => []ServedWhole
  <1>1. FilesInv => ServedWhole  BY DEF FilesInv, ServedWhole
  <1> QED BY <1>1, FilesKept, PTL
=============================================================================
