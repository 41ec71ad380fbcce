--------------------------- MODULE DNSCacheProofs ---------------------------
(***************************************************************************)
(* Theorems about DNSCache, for any hosts, callers, requests and sizes of  *)
(* the ring.                                                               *)
(***************************************************************************)
EXTENDS DNSCache, FiniteSetTheorems, WellFoundedInduction, TLAPS

(***************************************************************************)
(* Chains of callers.                                                      *)
(***************************************************************************)

\* A chain without callers.
LEMMA EmptyChain == \A u : Once(u, <<>>) /\ ~IsIn(u, <<>>)
BY DEF Once, IsIn, PlacesOf

\* Where a caller is there is a first place.
LEMMA FirstPlace ==
  ASSUME NEW T, T \subseteq Nat, T # {}
  PROVE  \E n \in T : \A m \in T : n <= m
<1>1. PICK R : R = OpToRel(<, Nat)
  OBVIOUS
<1>2. PICK n \in T : \A m \in T : <<m, n>> \notin R
  BY <1>1, NatLessThanWellFounded, WFMin
<1>3. \A m \in T : ~(m < n)
  BY <1>1, <1>2 DEF OpToRel
<1>4. QED
  BY <1>3

\* dnscache.cpp, CancelRequest(): "pred->Next = req->Next".
LEMMA WithoutPlaceIs ==
  ASSUME NEW S, NEW s \in Seq(S), NEW i \in DOMAIN s
  PROVE  /\ WithoutPlace(s, i) \in Seq(S)
         /\ DOMAIN WithoutPlace(s, i) = 1..(Len(s) - 1)
         /\ \A j \in 1..(Len(s) - 1) :
              WithoutPlace(s, i)[j] = IF j < i THEN s[j] ELSE s[j + 1]
<1>1. i \in 1..Len(s) /\ Len(s) \in Nat /\ i \in Nat
  OBVIOUS
<1>2. SubSeq(s, 1, i - 1) \in Seq(S) /\ Len(SubSeq(s, 1, i - 1)) = i - 1
  BY <1>1
<1>3. /\ SubSeq(s, i + 1, Len(s)) \in Seq(S)
      /\ Len(SubSeq(s, i + 1, Len(s))) = Len(s) - i
  BY <1>1
<1> DEFINE a == SubSeq(s, 1, i - 1)
           b == SubSeq(s, i + 1, Len(s))
<1>4. \A j \in 1..(i - 1) : a[j] = s[j]
  BY <1>1
<1>5. \A j \in 1..(Len(s) - i) : b[j] = s[i + j]
  BY <1>1
<1> HIDE DEF a, b
<1>6. a \o b \in Seq(S) /\ Len(a \o b) = Len(a) + Len(b)
  BY <1>2, <1>3 DEF a, b
<1>7. \A j \in 1..(Len(a) + Len(b)) : (a \o b)[j] = IF j <= Len(a) THEN a[j] ELSE b[j - Len(a)]
  BY <1>2, <1>3, SMTT(30) DEF a, b
<1>8. Len(a) = i - 1 /\ Len(b) = Len(s) - i
  BY <1>2, <1>3 DEF a, b
<1>9. ASSUME NEW j \in 1..(Len(s) - 1)
      PROVE  (a \o b)[j] = IF j < i THEN s[j] ELSE s[j + 1]
  <2>1. CASE j < i
    BY <1>1, <1>4, <1>7, <1>8, <2>1
  <2>2. CASE ~(j < i)
    <3>1. j - (i - 1) \in 1..(Len(s) - i) /\ i + (j - (i - 1)) = j + 1
      BY <1>1, <2>2
    <3>2. (a \o b)[j] = b[j - (i - 1)]
      <4>1. j \in 1..(Len(a) + Len(b)) /\ ~(j <= Len(a))
        BY <1>1, <1>8, <2>2
      <4>2. QED
        BY <1>7, <1>8, <4>1
    <3>3. QED
      BY <1>5, <2>2, <3>1, <3>2
  <2>3. QED
    BY <2>1, <2>2
<1>10. Len(a \o b) = Len(s) - 1
  BY <1>1, <1>6, <1>8
<1>11. QED
  <2>1. WithoutPlace(s, i) = a \o b
    BY DEF WithoutPlace, a, b
  <2>2. DOMAIN (a \o b) = 1..(Len(s) - 1)
    BY <1>6, <1>10
  <2>3. QED
    BY <1>6, <1>9, <2>1, <2>2

\* CancelRequest() takes a caller out of a chain that it is in once, and no other.
LEMMA UnlinkIs ==
  ASSUME NEW S, NEW s \in Seq(S), NEW u
  PROVE  /\ Unlink(u, s) \in Seq(S)
         /\ Once(u, s) => ~IsIn(u, Unlink(u, s))
         /\ \A v : v # u => (IsIn(v, Unlink(u, s)) <=> IsIn(v, s))
         /\ \A v : v # u => (Once(v, s) => Once(v, Unlink(u, s)))
<1>1. CASE PlacesOf(u, s) = {}
  BY <1>1 DEF Unlink, IsIn
<1>2. CASE PlacesOf(u, s) # {}
  <2> DEFINE i == CHOOSE i \in PlacesOf(u, s) : \A j \in PlacesOf(u, s) : i <= j
             t == WithoutPlace(s, i)
  <2>1. i \in DOMAIN s /\ s[i] = u
    <3>1. PlacesOf(u, s) \subseteq Nat
      BY DEF PlacesOf
    <3>2. \E k \in PlacesOf(u, s) : \A j \in PlacesOf(u, s) : k <= j
      BY <1>2, <3>1, FirstPlace
    <3>3. i \in PlacesOf(u, s)
      BY <3>2
    <3>4. QED
      BY <3>3 DEF PlacesOf
  <2>2. Unlink(u, s) = t
    BY <1>2 DEF Unlink
  <2> HIDE DEF i
  <2>3. /\ t \in Seq(S)
        /\ DOMAIN t = 1..(Len(s) - 1)
        /\ \A j \in 1..(Len(s) - 1) : t[j] = IF j < i THEN s[j] ELSE s[j + 1]
    BY <2>1, WithoutPlaceIs
  <2> HIDE DEF t
  <2>4. i \in 1..Len(s) /\ Len(s) \in Nat /\ DOMAIN s = 1..Len(s)
    BY <2>1
  <2>5. ASSUME NEW j \in DOMAIN t
        PROVE  \E k \in DOMAIN s : k # i /\ t[j] = s[k] /\ k = IF j < i THEN j ELSE j + 1
    BY <2>3, <2>4
  <2>6. ASSUME NEW k \in DOMAIN s, k # i
        PROVE  \E j \in DOMAIN t : t[j] = s[k]
    <3>1. CASE k < i
      BY <2>3, <2>4, <3>1
    <3>2. CASE k > i
      <4>1. k - 1 \in DOMAIN t /\ ~(k - 1 < i) /\ (k - 1) + 1 = k
        BY <2>3, <2>4, <3>2
      <4>2. QED
        BY <2>3, <4>1
    <3>3. QED
      BY <2>4, <2>6, <3>1, <3>2
  <2>7. Once(u, s) => ~IsIn(u, t)
    BY <2>1, <2>5 DEF Once, IsIn, PlacesOf
  <2>8. ASSUME NEW v, v # u
        PROVE  IsIn(v, t) <=> IsIn(v, s)
    BY <2>1, <2>5, <2>6, <2>8 DEF IsIn, PlacesOf
  <2>9. ASSUME NEW v, Once(v, s)
        PROVE  Once(v, t)
    <3>1. SUFFICES ASSUME NEW j \in DOMAIN t, NEW l \in DOMAIN t, t[j] = v, t[l] = v
                   PROVE  j = l
      BY DEF Once, PlacesOf
    <3>2. PICK k \in DOMAIN s : t[j] = s[k] /\ k = IF j < i THEN j ELSE j + 1
      BY <2>5
    <3>3. PICK m \in DOMAIN s : t[l] = s[m] /\ m = IF l < i THEN l ELSE l + 1
      BY <2>5
    <3>4. k = m
      BY <2>9, <3>1, <3>2, <3>3 DEF Once, PlacesOf
    <3>5. j \in Nat /\ l \in Nat /\ i \in Nat
      BY <2>3, <2>4
    <3>6. QED
      BY <3>2, <3>3, <3>4, <3>5
  <2>10. QED
    BY <2>2, <2>3, <2>7, <2>8, <2>9
<1>3. QED
  BY <1>1, <1>2

\* AddPendingRequest(): the caller is the new head.
LEMMA LinkIs ==
  ASSUME NEW S, NEW s \in Seq(S), NEW u \in S
  PROVE  /\ <<u>> \o s \in Seq(S)
         /\ <<u>> \o s # <<>>
         /\ ~IsIn(u, s) => Once(u, <<u>> \o s)
         /\ \A v : v # u /\ Once(v, s) => Once(v, <<u>> \o s)
         /\ \A v : IsIn(v, <<u>> \o s) <=> v = u \/ IsIn(v, s)
<1> DEFINE t == <<u>> \o s
<1>1. /\ t \in Seq(S) /\ Len(s) \in Nat /\ DOMAIN s = 1..Len(s)
      /\ DOMAIN t = 1..(Len(s) + 1)
      /\ t[1] = u
      /\ \A i \in 1..Len(s) : t[i + 1] = s[i]
  OBVIOUS
<1> HIDE DEF t
<1>2. t # <<>>
  BY <1>1
<1>3. \A i \in DOMAIN t : i = 1 \/ (i - 1 \in DOMAIN s /\ t[i] = s[i - 1])
  <2>1. SUFFICES ASSUME NEW i \in DOMAIN t, i # 1
                 PROVE  i - 1 \in DOMAIN s /\ t[i] = s[i - 1]
    OBVIOUS
  <2>2. i - 1 \in 1..Len(s) /\ (i - 1) + 1 = i
    BY <1>1, <2>1
  <2>3. QED
    BY <1>1, <2>2
<1>4. ASSUME NEW v
      PROVE  IsIn(v, t) <=> v = u \/ IsIn(v, s)
  <2>1. IsIn(v, t) => v = u \/ IsIn(v, s)
    BY <1>1, <1>3 DEF IsIn, PlacesOf
  <2>2. v = u => IsIn(v, t)
    BY <1>1 DEF IsIn, PlacesOf
  <2>3. ASSUME NEW i \in DOMAIN s, s[i] = v
        PROVE  IsIn(v, t)
    <3>1. i + 1 \in DOMAIN t /\ t[i + 1] = v
      BY <1>1, <2>3
    <3>2. QED
      BY <3>1 DEF IsIn, PlacesOf
  <2>4. QED
    BY <2>1, <2>2, <2>3 DEF IsIn, PlacesOf
<1>5. ASSUME ~IsIn(u, s)
      PROVE  Once(u, t)
  <2>1. \A k \in DOMAIN s : s[k] # u
    BY <1>5 DEF IsIn, PlacesOf
  <2>2. \A i \in DOMAIN t : t[i] = u => i = 1
    BY <1>3, <2>1
  <2>3. QED
    BY <2>2 DEF Once, PlacesOf
<1>6. ASSUME NEW v, v # u, Once(v, s)
      PROVE  Once(v, t)
  <2>1. SUFFICES ASSUME NEW i \in DOMAIN t, NEW j \in DOMAIN t, t[i] = v, t[j] = v
                 PROVE  i = j
    BY DEF Once, PlacesOf
  <2>2. i # 1 /\ j # 1
    BY <1>1, <1>6, <2>1
  <2>3. /\ i - 1 \in DOMAIN s /\ t[i] = s[i - 1]
        /\ j - 1 \in DOMAIN s /\ t[j] = s[j - 1]
    BY <1>3, <2>2
  <2>4. i - 1 = j - 1
    BY <1>6, <2>1, <2>3 DEF Once, PlacesOf
  <2>5. i \in Int /\ j \in Int
    BY <1>1
  <2>6. QED
    BY <2>4, <2>5
<1>7. QED
  BY <1>1, <1>2, <1>4, <1>5, <1>6 DEF t

\* IPCAnswer() goes through a chain: a caller that is in it once and is called is not among
\* the others.
LEMMA TailIs ==
  ASSUME NEW S, NEW s \in Seq(S), s # <<>>
  PROVE  /\ Head(s) \in S
         /\ Tail(s) \in Seq(S)
         /\ \A v : IsIn(v, s) <=> v = Head(s) \/ IsIn(v, Tail(s))
         /\ \A v : Once(v, s) => Once(v, Tail(s))
         /\ Once(Head(s), s) => ~IsIn(Head(s), Tail(s))
<1>1. /\ Head(s) \in S /\ Tail(s) \in Seq(S) /\ Len(s) \in Nat \ {0}
      /\ DOMAIN s = 1..Len(s)
      /\ s[1] = Head(s)
      /\ DOMAIN Tail(s) = 1..(Len(s) - 1)
      /\ \A i \in 1..(Len(s) - 1) : Tail(s)[i] = s[i + 1]
  OBVIOUS
<1>2. \A i \in DOMAIN s : i # 1 => i - 1 \in DOMAIN Tail(s) /\ s[i] = Tail(s)[i - 1]
  <2>1. SUFFICES ASSUME NEW i \in DOMAIN s, i # 1
                 PROVE  i - 1 \in DOMAIN Tail(s) /\ s[i] = Tail(s)[i - 1]
    OBVIOUS
  <2>2. i - 1 \in 1..(Len(s) - 1) /\ (i - 1) + 1 = i
    BY <1>1, <2>1
  <2>3. QED
    BY <1>1, <2>2
<1>3. ASSUME NEW v
      PROVE  IsIn(v, s) <=> v = Head(s) \/ IsIn(v, Tail(s))
  <2>1. ASSUME NEW i \in DOMAIN s, s[i] = v
        PROVE  v = Head(s) \/ IsIn(v, Tail(s))
    <3>1. i = 1 \/ (i - 1 \in DOMAIN Tail(s) /\ Tail(s)[i - 1] = v)
      BY <1>2, <2>1
    <3>2. QED
      BY <1>1, <2>1, <3>1 DEF IsIn, PlacesOf
  <2>2. v = Head(s) => IsIn(v, s)
    BY <1>1 DEF IsIn, PlacesOf
  <2>3. ASSUME NEW i \in DOMAIN Tail(s), Tail(s)[i] = v
        PROVE  IsIn(v, s)
    <3>1. i + 1 \in DOMAIN s /\ s[i + 1] = v
      BY <1>1, <2>3
    <3>2. QED
      BY <3>1 DEF IsIn, PlacesOf
  <2>4. QED
    BY <2>1, <2>2, <2>3 DEF IsIn, PlacesOf
<1>4. \A i \in 1..(Len(s) - 1) : i \in Nat /\ i + 1 \in DOMAIN s /\ i + 1 # 1
  BY <1>1
<1>5. ASSUME NEW v, Once(v, s)
      PROVE  Once(v, Tail(s))
  <2>1. SUFFICES ASSUME NEW i \in 1..(Len(s) - 1), NEW j \in 1..(Len(s) - 1),
                        Tail(s)[i] = v, Tail(s)[j] = v
                 PROVE  i = j
    BY <1>1 DEF Once, PlacesOf
  <2>2. i + 1 = j + 1
    BY <1>1, <1>4, <1>5, <2>1 DEF Once, PlacesOf
  <2>3. QED
    BY <1>4, <2>2
<1>6. ASSUME Once(Head(s), s)
      PROVE  ~IsIn(Head(s), Tail(s))
  <2>1. SUFFICES ASSUME NEW i \in 1..(Len(s) - 1), Tail(s)[i] = Head(s)
                 PROVE  FALSE
    BY <1>1 DEF IsIn, PlacesOf
  <2>2. 1 \in DOMAIN s /\ s[i + 1] = s[1] /\ i + 1 \in DOMAIN s
    BY <1>1, <1>4, <2>1
  <2>3. i + 1 = 1
    BY <1>1, <1>6, <2>2 DEF Once, PlacesOf
  <2>4. QED
    BY <1>4, <2>3
<1>7. QED
  BY <1>1, <1>3, <1>5, <1>6

(***************************************************************************)
(* The calls under way.                                                    *)
(***************************************************************************)

\* A call more.
LEMMA PushIs ==
  ASSUME NEW S, NEW s \in Seq(S), NEW f \in S
  PROVE  /\ Append(s, f) \in Seq(S)
         /\ DOMAIN Append(s, f) = 1..(Len(s) + 1)
         /\ Append(s, f)[Len(s) + 1] = f
         /\ \A k \in DOMAIN s : k \in 1..Len(s) /\ Append(s, f)[k] = s[k]
         /\ \A k \in 1..(Len(s) + 1) : k \in DOMAIN s \/ k = Len(s) + 1
OBVIOUS

\* The call on top returns.
LEMMA PopIs ==
  ASSUME NEW S, NEW s \in Seq(S), s # <<>>
  PROVE  /\ SubSeq(s, 1, Len(s) - 1) \in Seq(S)
         /\ DOMAIN SubSeq(s, 1, Len(s) - 1) = 1..(Len(s) - 1)
         /\ \A k \in 1..(Len(s) - 1) : SubSeq(s, 1, Len(s) - 1)[k] = s[k] /\ k \in DOMAIN s
         /\ \A k \in DOMAIN s : k \in 1..(Len(s) - 1) \/ k = Len(s)
         /\ Len(s) \in DOMAIN s /\ s[Len(s)] \in S
<1>1. Len(s) \in Nat /\ Len(s) # 0 /\ DOMAIN s = 1..Len(s)
  OBVIOUS
<1>2. SubSeq(s, 1, Len(s) - 1) = [k \in 1..(Len(s) - 1) |-> s[k]]
  BY <1>1
<1>3. \A k \in 1..(Len(s) - 1) : k \in DOMAIN s /\ s[k] \in S
  BY <1>1
<1>4. Len(s) - 1 \in Nat
  BY <1>1
<1>5. SubSeq(s, 1, Len(s) - 1) \in Seq(S)
  BY <1>2, <1>3, <1>4
<1>6. QED
  BY <1>1, <1>2, <1>3, <1>5

\* The call on top goes on.
LEMMA ChangeIs ==
  ASSUME NEW S, NEW s \in Seq(S), s # <<>>, NEW f \in S
  PROVE  /\ [s EXCEPT ![Len(s)] = f] \in Seq(S)
         /\ DOMAIN [s EXCEPT ![Len(s)] = f] = DOMAIN s
         /\ [s EXCEPT ![Len(s)] = f][Len(s)] = f
         /\ \A k \in DOMAIN s : k # Len(s) => [s EXCEPT ![Len(s)] = f][k] = s[k]
OBVIOUS

(***************************************************************************)
(* The ring after a change of its size.                                    *)
(***************************************************************************)

\* ReloadCfg(): the used slots of a prefix of the ring are numbered from 0 in their order.
LEMMA NewSlotIs ==
  ASSUME TypeOK, NEW k \in Nat
  PROVE  /\ IsFiniteSet(Used(k))
         /\ Cardinality(Used(k)) \in Nat
         /\ Cardinality(Used(k)) <= k
         /\ \A i \in Used(k) : NewSlot(k, i) \in 0..(Cardinality(Used(k)) - 1)
         /\ \A i, j \in Used(k) : NewSlot(k, i) = NewSlot(k, j) => i = j
         /\ \A n \in 0..(Cardinality(Used(k)) - 1) : \E i \in Used(k) : NewSlot(k, i) = n
<1> DEFINE U == Used(k)
           Below(i) == {j \in U : j < i}
           count == Cardinality(U)
<1>1. U \subseteq 0..(k - 1) /\ U \subseteq Nat
  BY DNSCacheAssumption DEF Used, TypeOK
<1>2. IsFiniteSet(0..(k - 1)) /\ Cardinality(0..(k - 1)) = k
  <2>1. 0 \in Int /\ k - 1 \in Int
    OBVIOUS
  <2>2. /\ IsFiniteSet(0..(k - 1))
        /\ Cardinality(0..(k - 1)) = IF 0 > k - 1 THEN 0 ELSE k - 1 - 0 + 1
    BY <2>1, FS_Interval
  <2>3. QED
    BY <2>2
<1>3. IsFiniteSet(U) /\ count \in Nat /\ count <= k
  BY <1>1, <1>2, FS_Subset, FS_CardinalityType
<1> HIDE DEF U
<1>4. ASSUME NEW i
      PROVE  IsFiniteSet(Below(i)) /\ Cardinality(Below(i)) \in Nat
  <2>1. Below(i) \in SUBSET U
    OBVIOUS
  <2>2. QED
    BY <1>3, <2>1, FS_Subset, FS_CardinalityType
<1>5. ASSUME NEW i \in U
      PROVE  Cardinality(Below(i)) < count
  <2>1. Below(i) \in SUBSET U /\ Below(i) # U
    BY <1>1, <1>5
  <2>2. Cardinality(Below(i)) <= count /\ (count = Cardinality(Below(i)) => U = Below(i))
    BY <1>3, <2>1, FS_Subset
  <2>3. QED
    BY <1>3, <1>4, <2>1, <2>2
<1>6. ASSUME NEW i \in U, NEW j \in U, i < j
      PROVE  Cardinality(Below(i)) < Cardinality(Below(j))
  <2>1. Below(i) \in SUBSET Below(j) /\ i \in Below(j) /\ i \notin Below(i)
    <3>1. \A l \in U : l \in Nat
      BY <1>1
    <3>2. ~(i < i) /\ \A l \in U : l < i => l < j
      BY <1>6, <3>1
    <3>3. QED
      BY <1>6, <3>2
  <2>2. /\ Cardinality(Below(i)) <= Cardinality(Below(j))
        /\ Cardinality(Below(j)) = Cardinality(Below(i)) => Below(j) = Below(i)
    BY <1>4, <2>1, FS_Subset
  <2>3. QED
    BY <1>4, <2>1, <2>2
<1>7. \A i \in U : NewSlot(k, i) = Cardinality(Below(i))
  BY DEF NewSlot, U
<1>8. \A i, j \in U : NewSlot(k, i) = NewSlot(k, j) => i = j
  <2>1. SUFFICES ASSUME NEW i \in U, NEW j \in U,
                        Cardinality(Below(i)) = Cardinality(Below(j)), i # j
                 PROVE  FALSE
    BY <1>7
  <2>2. i < j \/ j < i
    BY <1>1, <2>1
  <2>3. QED
    BY <1>4, <1>6, <2>1, <2>2
<1>9. ASSUME NEW i \in U
      PROVE  NewSlot(k, i) \in 0..(count - 1)
  <2>1. NewSlot(k, i) < count /\ NewSlot(k, i) \in Nat
    BY <1>4, <1>5, <1>7
  <2>2. QED
    BY <1>3, <2>1
<1>10. ASSUME NEW n \in 0..(count - 1)
       PROVE  \E i \in U : NewSlot(k, i) = n
  <2> DEFINE f == [i \in U |-> NewSlot(k, i)]
  <2>1. f \in Injection(U, 0..(count - 1))
    <3>1. f \in [U -> 0..(count - 1)]
      BY <1>9
    <3>2. \A i, j \in U : f[i] = f[j] => i = j
      BY <1>8
    <3>3. QED
      BY <3>1, <3>2 DEF Injection, IsInjective
  <2>2. IsFiniteSet(0..(count - 1)) /\ Cardinality(0..(count - 1)) = count
    <3>1. 0 \in Int /\ count - 1 \in Int
      BY <1>3
    <3>2. /\ IsFiniteSet(0..(count - 1))
          /\ Cardinality(0..(count - 1)) = IF 0 > count - 1 THEN 0 ELSE count - 1 - 0 + 1
      BY <3>1, FS_Interval
    <3>3. QED
      BY <1>3, <3>2
  <2>3. f \in Surjection(U, 0..(count - 1))
    BY <1>3, <2>1, <2>2, FS_Injection
  <2>4. \E i \in U : f[i] = n
    BY <2>3 DEF Surjection
  <2>5. QED
    BY <2>4
<1>11. QED
  BY <1>3, <1>8, <1>9, <1>10 DEF U

(***************************************************************************)
(* Type correctness.                                                       *)
(***************************************************************************)

\* A request that was made is for a host.
RequestsHaveHosts == \A r \in Request : outcome[r] # "new" => reqHost[r] \in Host

TypeInv == TypeOK /\ RequestsHaveHosts

\* What the pool does with a request keeps the type of "outcome".
LEMMA OutcomeTyped ==
  ASSUME TypeInv, NEW r \in Request, NEW how,
         Broker!Submit(r) \/ Broker!Finish(r, how)
  PROVE  /\ outcome' \in [Request -> Broker!Outcomes]
         /\ outcome'[r] # "new"
         /\ \A q \in Request : q # r => outcome'[q] = outcome[q]
BY DEF TypeInv, TypeOK, Broker!Outcomes, Broker!Final, Broker!Submit, Broker!Finish

\* DNSCache::Cache() stores an item of the right type in the slot it takes.
LEMMA CacheTyped ==
  ASSUME TypeOK, NEW h \in Host, Cache(h)
  PROVE  /\ slots' = slots
         /\ items' \in [0..(slots - 1) -> Host \cup {None}]
         /\ freeSlot' \in 0..(slots - 1)
         /\ hash' \in [Host -> Nat \cup {None}]
<1>1. slots \in Nat \ {0} /\ freeSlot \in Nat
  BY DNSCacheAssumption DEF TypeOK
<1>2. freeSlot' \in 0..(slots - 1)
  BY <1>1 DEF Cache, NextSlot
<1>3. HashWithout({freeSlot}) \in [Host -> Nat \cup {None}]
  BY DEF HashWithout, TypeOK
<1>4. hash' \in [Host -> Nat \cup {None}]
  BY <1>1, <1>3 DEF Cache
<1>5. QED
  BY <1>2, <1>4 DEF Cache, TypeOK

\* A ring of another size is again a ring.
LEMMA ReloadTyped ==
  ASSUME TypeOK, NEW n \in SlotCounts, ReloadCfg(n)
  PROVE  TypeOK'
<1> DEFINE k == IF n > slots THEN slots ELSE n
           count == Cardinality(Used(k))
<1>1. n \in Nat \ {0} /\ slots \in Nat \ {0} /\ k \in Nat
  BY DNSCacheAssumption DEF TypeOK
<1>2. /\ count \in Nat
      /\ \A i \in Used(k) : NewSlot(k, i) \in 0..(count - 1)
      /\ \A m \in 0..(count - 1) : \E i \in Used(k) : NewSlot(k, i) = m
  BY <1>1, NewSlotIs
<1>3. /\ slots' = n
      /\ items' = [i \in 0..(n - 1) |->
                     IF i < count
                     THEN items[CHOOSE j \in Used(k) : NewSlot(k, j) = i]
                     ELSE None]
      /\ hash' = Rehash(k)
      /\ freeSlot' = IF count >= n THEN 0 ELSE count
      /\ UNCHANGED <<pending, reqHost, outcome, walks, want, told, addr, late, stale, up>>
  BY DEF ReloadCfg, callers
<1> HIDE DEF k, count
<1>4. freeSlot' \in 0..(n - 1)
  BY <1>1, <1>2, <1>3
<1>5. items' \in [0..(n - 1) -> Host \cup {None}]
  <2>1. ASSUME NEW i \in 0..(n - 1), i < count
        PROVE  items[CHOOSE j \in Used(k) : NewSlot(k, j) = i] \in Host
    <3>1. i \in 0..(count - 1)
      BY <1>1, <1>2, <2>1
    <3>2. (CHOOSE j \in Used(k) : NewSlot(k, j) = i) \in Used(k)
      BY <1>2, <3>1
    <3>3. \A j \in Used(k) : items[j] \in Host
      BY DEF Used, TypeOK
    <3>4. QED
      BY <3>2, <3>3
  <2>2. QED
    BY <1>3, <2>1
<1>6. hash' \in [Host -> Nat \cup {None}]
  <2>1. HashWithout(DOMAIN items) \in [Host -> Nat \cup {None}]
    BY DEF HashWithout, TypeOK
  <2>2. ASSUME NEW h \in Host, \E i \in Used(k) : items[i] = h
        PROVE  NewSlot(k, CHOOSE i \in Used(k) : items[i] = h) \in Nat
    <3>1. (CHOOSE i \in Used(k) : items[i] = h) \in Used(k)
      BY <2>2
    <3>2. QED
      BY <1>2, <3>1
  <2>3. QED
    BY <1>3, <2>1, <2>2 DEF Rehash
<1>7. QED
  BY <1>3, <1>4, <1>5, <1>6 DEF TypeOK

\* The calls under way are of the right type.
LEMMA WalksAre ==
  ASSUME TypeOK
  PROVE  /\ Sending \in Walk
         /\ walks # <<>> => /\ Top \in Walk /\ Len(walks) \in DOMAIN walks
                           /\ Top.host \in Host \cup {None} /\ Top.rest \in Seq(Client)
                           /\ Top.in \in Client \cup {None}
                           /\ Return \in Seq(Walk)
<1>1. Sending \in Walk
  BY DEF Sending, Walk
<1>2. ASSUME walks # <<>>
      PROVE  Top \in Walk /\ Len(walks) \in DOMAIN walks /\ Return \in Seq(Walk)
  BY <1>2, PopIs DEF TypeOK, Top, Return
<1>3. \A f \in Walk : f.host \in Host \cup {None} /\ f.rest \in Seq(Client) /\ f.in \in Client \cup {None}
  BY DEF Walk
<1>4. QED
  BY <1>1, <1>2, <1>3

\* The empty cache is of the right type.
LEMMA TypeInit == Init => TypeInv
<1> SUFFICES ASSUME Init
             PROVE  TypeInv
  OBVIOUS
<1>1. slots \in Nat \ {0} /\ freeSlot \in 0..(slots - 1)
  BY DNSCacheAssumption DEF Init
<1>2. pending \in [Host -> Seq(Client)] /\ walks \in Seq(Walk)
  BY DEF Init
<1>3. outcome \in [Request -> Broker!Outcomes] /\ RequestsHaveHosts
  BY DEF Init, Broker!Init, Broker!Outcomes, RequestsHaveHosts
<1>4. QED
  BY <1>1, <1>2, <1>3 DEF Init, TypeInv, TypeOK, Address

\* The steps of a caller.
LEMMA CallTyped ==
  ASSUME TypeInv, RingMatchesHash, HashInRing,
         NEW u \in Client, AsyncResolve(u) \/ CancelRequest(u)
  PROVE  TypeInv'
<1>1. CASE ResolveEmpty(u)
  BY <1>1 DEF ResolveEmpty, TypeInv, TypeOK, RequestsHaveHosts, Address, cache
<1>2. ASSUME NEW h \in Host, ResolveCached(u, h)
      PROVE  TypeInv'
  <2>1. items[hash[h]] = h
    BY <1>2 DEF ResolveCached, RingMatchesHash, HashInRing
  <2>2. /\ told' = [told EXCEPT ![u] = h]
        /\ addr' = [addr EXCEPT ![u] = h]
        /\ UNCHANGED <<slots, items, freeSlot, hash, pending, reqHost, outcome, walks,
                       want, late, stale, up>>
    BY <1>2, <2>1 DEF ResolveCached, CallBack, cache
  <2>3. addr' \in [Client -> Address]
    BY <2>2 DEF TypeInv, TypeOK, Address
  <2>4. QED
    BY <2>2, <2>3 DEF TypeInv, TypeOK, RequestsHaveHosts
<1>3. ASSUME NEW h \in Host, ResolvePending(u, h)
      PROVE  TypeInv'
  <2>1. pending' = [pending EXCEPT ![h] = <<u>> \o @] /\ <<u>> \o pending[h] \in Seq(Client)
    BY <1>3, LinkIs DEF ResolvePending, Link, TypeInv, TypeOK
  <2>2. pending' \in [Host -> Seq(Client)]
    BY <2>1 DEF TypeInv, TypeOK
  <2>3. /\ want' = [want EXCEPT ![u] = h]
        /\ told' = [told EXCEPT ![u] = None]
        /\ UNCHANGED <<slots, items, freeSlot, hash, addr, late, stale, up>>
    BY <1>3 DEF ResolvePending, cache
  <2>4. /\ outcome' \in [Request -> Broker!Outcomes]
        /\ reqHost' \in [Request -> Host \cup {None}]
        /\ RequestsHaveHosts'
        /\ walks' \in Seq(Walk)
    <3>1. CASE UNCHANGED <<reqHost, outcome, walks>>
      BY <3>1 DEF TypeInv, TypeOK, RequestsHaveHosts
    <3>2. ASSUME NEW r \in Request, Broker!Submit(r),
                 reqHost' = [reqHost EXCEPT ![r] = h], walks' = Append(walks, Sending)
          PROVE  /\ outcome' \in [Request -> Broker!Outcomes]
                 /\ reqHost' \in [Request -> Host \cup {None}]
                 /\ RequestsHaveHosts'
                 /\ walks' \in Seq(Walk)
      <4>1. /\ outcome' \in [Request -> Broker!Outcomes]
            /\ \A q \in Request : q # r => outcome'[q] = outcome[q]
        BY <3>2, OutcomeTyped
      <4>2. walks' \in Seq(Walk)
        BY <3>2, WalksAre, PushIs DEF TypeInv, TypeOK
      <4>3. QED
        BY <3>2, <4>1, <4>2 DEF TypeInv, TypeOK, RequestsHaveHosts
    <3>3. QED
      BY <1>3, <3>1, <3>2 DEF ResolvePending
  <2>5. QED
    BY <2>2, <2>3, <2>4 DEF TypeInv, TypeOK
<1>4. CASE CancelRequest(u)
  <2>1. /\ want[u] \in Host
        /\ pending' = [pending EXCEPT ![want[u]] = Unlink(u, @)]
        /\ want' = [want EXCEPT ![u] = None]
        /\ late' = late \cup ({u} \cap ToCall)
        /\ UNCHANGED <<slots, items, freeSlot, hash, reqHost, outcome, walks, told, addr,
                       stale, up>>
    BY <1>4 DEF CancelRequest, TypeInv, TypeOK, cache
  <2>2. pending[want[u]] \in Seq(Client)
    BY <2>1 DEF TypeInv, TypeOK
  <2>3. Unlink(u, pending[want[u]]) \in Seq(Client)
    BY <2>2, UnlinkIs
  <2>4. pending' \in [Host -> Seq(Client)]
    BY <2>1, <2>3 DEF TypeInv, TypeOK
  <2>5. QED
    BY <2>1, <2>4 DEF TypeInv, TypeOK, RequestsHaveHosts
<1>5. QED
  BY <1>1, <1>2, <1>3, <1>4 DEF AsyncResolve

\* The steps of the pool, and the callbacks.
LEMMA AnswerTyped ==
  ASSUME TypeInv, NEW r \in Request, IPCAnswer(r)
  PROVE  TypeInv'
<1> DEFINE h == reqHost[r]
<1>1. Broker!Finish(r, "answered")
  BY DEF IPCAnswer
<1>2. /\ outcome' \in [Request -> Broker!Outcomes]
      /\ \A q \in Request : q # r => outcome'[q] = outcome[q]
  BY <1>1, OutcomeTyped
<1>3. h \in Host
  BY <1>1 DEF Broker!Finish, TypeInv, RequestsHaveHosts
<1>4. UNCHANGED <<reqHost, want, told, late, stale, up>>
  BY DEF IPCAnswer
<1>5. RequestsHaveHosts'
  BY <1>2, <1>3, <1>4 DEF TypeInv, RequestsHaveHosts
<1>6. CASE UNCHANGED <<cache, pending, walks, addr>>
  BY <1>2, <1>4, <1>5, <1>6 DEF TypeInv, TypeOK, cache
<1>7. CASE /\ pending[h] # <<>>
           /\ pending' = Forget(h)
           /\ walks' = Append(walks, [host |-> h, rest |-> pending[h], in |-> None])
           /\ \/ /\ addr' = [addr EXCEPT ![Head(pending[h])] = h]
                 /\ Cache(h)
              \/ /\ addr' = [addr EXCEPT ![Head(pending[h])] = "bad"]
                 /\ UNCHANGED cache
  <2>1. walks' \in Seq(Walk) /\ Head(pending[h]) \in Client
    <3>1. pending[h] \in Seq(Client)
      BY <1>3 DEF TypeInv, TypeOK
    <3>2. [host |-> h, rest |-> pending[h], in |-> None] \in Walk
      BY <1>3, <3>1 DEF Walk
    <3>3. walks' \in Seq(Walk)
      BY <1>7, <3>2, PushIs DEF TypeInv, TypeOK
    <3>4. QED
      BY <1>7, <3>1, <3>3, TailIs
  <2>2. pending' \in [Host -> Seq(Client)]
    BY <1>3, <1>7 DEF Forget, TypeInv, TypeOK
  <2>3. addr' \in [Client -> Address]
    BY <1>3, <1>7, <2>1 DEF Address, TypeInv, TypeOK
  <2>4. /\ slots' = slots
        /\ items' \in [0..(slots - 1) -> Host \cup {None}]
        /\ freeSlot' \in 0..(slots - 1)
        /\ hash' \in [Host -> Nat \cup {None}]
    BY <1>3, <1>7, CacheTyped DEF TypeInv, TypeOK, cache
  <2>5. QED
    BY <1>2, <1>4, <1>5, <2>1, <2>2, <2>3, <2>4 DEF TypeInv, TypeOK
<1>8. QED
  BY <1>6, <1>7 DEF IPCAnswer

\* Every operation of the cache keeps its type.
LEMMA TypeStep == TypeInv /\ RingMatchesHash /\ HashInRing /\ [Next]_vars => TypeInv'
<1> SUFFICES ASSUME TypeInv, RingMatchesHash, HashInRing, [Next]_vars
             PROVE  TypeInv'
  OBVIOUS
<1>1. ASSUME NEW u \in Client, AsyncResolve(u) \/ CancelRequest(u)
      PROVE  TypeInv'
  BY <1>1, CallTyped
<1>2. ASSUME NEW r \in Request, IPCAnswer(r)
      PROVE  TypeInv'
  BY <1>2, AnswerTyped
<1>3. ASSUME NEW r \in Request, RequestLost(r) \/ RequestFailed(r)
      PROVE  TypeInv'
  <2>1. Broker!Finish(r, "lost") \/ Broker!Finish(r, "failed")
    BY <1>3 DEF RequestLost, RequestFailed
  <2>2. /\ outcome' \in [Request -> Broker!Outcomes]
        /\ outcome[r] # "new"
        /\ \A q \in Request : q # r => outcome'[q] = outcome[q]
    BY <2>1, OutcomeTyped DEF Broker!Finish
  <2>3. QED
    BY <1>3, <2>2 DEF RequestLost, RequestFailed, TypeInv, TypeOK, RequestsHaveHosts, cache,
                      callers
<1>4. CASE NextCallback
  <2> DEFINE u == Head(Top.rest)
             f == [host |-> Top.host, rest |-> RestOfChain, in |-> u]
  <2>1. /\ walks # <<>> /\ Top.rest # <<>>
        /\ walks' = [walks EXCEPT ![Len(walks)] = f]
        /\ stale' = stale \cup (IF want[u] = Top.host THEN {} ELSE {u})
        /\ want' = [want EXCEPT ![u] = None]
        /\ told' = [told EXCEPT ![u] = Top.host]
        /\ UNCHANGED <<cache, pending, reqHost, outcome, addr, late, up>>
    BY <1>4 DEF NextCallback
  <2>2. Top.host \in Host \cup {None} /\ Top.rest \in Seq(Client)
    BY <2>1, WalksAre DEF TypeInv
  <2>3. u \in Client /\ RestOfChain \in Seq(Client)
    BY <2>1, <2>2, TailIs DEF RestOfChain
  <2>4. f \in Walk
    BY <2>2, <2>3 DEF Walk
  <2> HIDE DEF f, u
  <2>5. walks' \in Seq(Walk)
    BY <2>1, <2>4, ChangeIs DEF TypeInv, TypeOK
  <2>6. QED
    BY <2>1, <2>2, <2>3, <2>5 DEF TypeInv, TypeOK, RequestsHaveHosts, cache
<1>5. CASE CallbackReturn \/ SendReturn
  <2>1. walks # <<>> /\ UNCHANGED <<cache, pending, reqHost, outcome, callers, up>>
    BY <1>5 DEF CallbackReturn, SendReturn
  <2>2. walks' \in Seq(Walk)
    <3>1. Return \in Seq(Walk)
      BY <2>1, WalksAre DEF TypeInv
    <3>2. [Top EXCEPT !.in = None] \in Walk
      BY <2>1, WalksAre DEF TypeInv, Walk
    <3>3. [walks EXCEPT ![Len(walks)] = [Top EXCEPT !.in = None]] \in Seq(Walk)
      BY <2>1, <3>2, ChangeIs DEF TypeInv, TypeOK
    <3>4. QED
      BY <1>5, <3>1, <3>3 DEF CallbackReturn, SendReturn
  <2>3. QED
    BY <2>1, <2>2 DEF TypeInv, TypeOK, RequestsHaveHosts, cache, callers
<1>6. ASSUME NEW S \in SUBSET DOMAIN items, Flush(S)
      PROVE  TypeInv'
  BY <1>6 DEF Flush, HashWithout, TypeInv, TypeOK, RequestsHaveHosts, callers
<1>7. ASSUME NEW n \in SlotCounts, ReloadCfg(n)
      PROVE  TypeInv'
  BY <1>7, ReloadTyped DEF ReloadCfg, TypeInv, RequestsHaveHosts
<1>8. CASE UNCHANGED vars
  BY <1>8 DEF vars, cache, callers, TypeInv, TypeOK, RequestsHaveHosts
<1>9. QED
  BY <1>1, <1>2, <1>3, <1>4, <1>5, <1>6, <1>7, <1>8 DEF Next

(***************************************************************************)
(* The ring and the hash.                                                  *)
(***************************************************************************)

RingInv == RingMatchesHash /\ HashInRing /\ NoWaitForCached

\* Cache() of a host that is not cached: the hash loses the host that was in the slot and
\* gains this one.
LEMMA CacheKeepsRing ==
  ASSUME TypeOK, RingMatchesHash, HashInRing, NEW h \in Host, hash[h] = None, Cache(h)
  PROVE  /\ RingMatchesHash' /\ HashInRing'
         /\ \A g \in Host : g # h /\ hash'[g] # None => hash[g] # None
<1>1. /\ freeSlot \in DOMAIN items /\ DOMAIN items = 0..(slots - 1)
      /\ None \notin Host /\ None \notin DOMAIN items
  BY DNSCacheAssumption DEF TypeOK
<1>2. /\ DOMAIN items' = DOMAIN items
      /\ items'[freeSlot] = h
      /\ \A i \in DOMAIN items : i # freeSlot => items'[i] = items[i]
  BY <1>1 DEF Cache, TypeOK
<1>3. hash'[h] = freeSlot
  BY <1>1 DEF Cache, HashWithout
<1>4. \A g \in Host : g # h => hash'[g] = IF items[freeSlot] = g THEN None ELSE hash[g]
  BY DEF Cache, HashWithout
<1>5. ASSUME NEW g \in Host, NEW i \in DOMAIN items
      PROVE  hash'[g] = i <=> items'[i] = g
  <2>1. hash[g] = i <=> items[i] = g
    BY DEF RingMatchesHash
  <2>2. hash[g] = freeSlot <=> items[freeSlot] = g
    BY <1>1 DEF RingMatchesHash
  <2>3. hash[h] = i <=> items[i] = h
    BY DEF RingMatchesHash
  <2>4. QED
    BY <1>1, <1>2, <1>3, <1>4, <2>1, <2>2, <2>3
<1>6. \A g \in Host : hash'[g] # None => hash'[g] \in DOMAIN items'
  BY <1>1, <1>2, <1>3, <1>4 DEF HashInRing
<1>7. QED
  BY <1>2, <1>4, <1>5, <1>6 DEF RingMatchesHash, HashInRing

\* Flush(): expired slots leave ring and hash together.
LEMMA FlushKeepsRing ==
  ASSUME TypeOK, RingMatchesHash, HashInRing, NEW S \in SUBSET DOMAIN items, Flush(S)
  PROVE  /\ RingMatchesHash' /\ HashInRing'
         /\ \A g \in Host : hash'[g] # None => hash[g] # None
<1>1. None \notin Host /\ None \notin DOMAIN items
  BY DNSCacheAssumption DEF TypeOK
<1>2. /\ hash' = [h \in Host |-> IF \E i \in S : items[i] = h THEN None ELSE hash[h]]
      /\ items' = [i \in DOMAIN items |-> IF i \in S THEN None ELSE items[i]]
  BY DEF Flush, HashWithout
<1>3. ASSUME NEW g \in Host, NEW i \in DOMAIN items
      PROVE  hash'[g] = i <=> items'[i] = g
  <2>1. \A j \in DOMAIN items : hash[g] = j <=> items[j] = g
    BY DEF RingMatchesHash
  <2>2. QED
    BY <1>1, <1>2, <2>1
<1>4. QED
  BY <1>1, <1>2, <1>3 DEF RingMatchesHash, HashInRing

\* ReloadCfg(): what both sizes have is moved in ring and hash to the same slots.
LEMMA ReloadKeepsRing ==
  ASSUME TypeOK, RingMatchesHash, HashInRing, NEW n \in SlotCounts, ReloadCfg(n)
  PROVE  /\ RingMatchesHash' /\ HashInRing'
         /\ \A g \in Host : hash'[g] # None => hash[g] # None
<1> DEFINE k == IF n > slots THEN slots ELSE n
           count == Cardinality(Used(k))
           New(i) == NewSlot(k, i)
           Old(i) == CHOOSE j \in Used(k) : New(j) = i
           Place(h) == CHOOSE i \in Used(k) : items[i] = h
<1>1. n \in Nat \ {0} /\ slots \in Nat \ {0} /\ k \in Nat /\ k <= n
  BY DNSCacheAssumption DEF TypeOK
<1>2. /\ count \in Nat /\ count <= k
      /\ \A i \in Used(k) : New(i) \in 0..(count - 1)
      /\ \A i, j \in Used(k) : New(i) = New(j) => i = j
      /\ \A m \in 0..(count - 1) : \E i \in Used(k) : New(i) = m
  BY <1>1, NewSlotIs
<1>3. /\ items' = [i \in 0..(n - 1) |-> IF i < count THEN items[Old(i)] ELSE None]
      /\ hash' = Rehash(k)
  BY DEF ReloadCfg
<1>4. \A i \in Used(k) : i \in DOMAIN items /\ items[i] \in Host
  BY DEF Used, TypeOK
<1>5. \A h \in Host : HashWithout(DOMAIN items)[h] = None
  <2>1. SUFFICES ASSUME NEW h \in Host, \A i \in DOMAIN items : items[i] # h
                 PROVE  hash[h] = None
    BY DEF HashWithout
  <2>2. QED
    BY <2>1 DEF RingMatchesHash, HashInRing
<1>6. \A h \in Host : hash'[h] = IF \E i \in Used(k) : items[i] = h THEN New(Place(h)) ELSE None
  BY <1>3, <1>5 DEF Rehash
<1> HIDE DEF k, count, New
<1>7. \A i, j \in Used(k) : items[i] = items[j] => i = j
  BY <1>4 DEF RingMatchesHash
<1>8. \A i \in Used(k) : Place(items[i]) = i
  BY <1>7
<1>9. \A i \in Used(k) : hash'[items[i]] = New(i)
  BY <1>4, <1>6, <1>8
<1>10. \A i \in Used(k) : Old(New(i)) = i
  BY <1>2
<1>11. None \notin Host /\ None \notin Nat
  BY DNSCacheAssumption
<1>12. ASSUME NEW h \in Host, hash'[h] # None
       PROVE  \E i \in Used(k) : items[i] = h /\ hash'[h] = New(i)
  BY <1>6, <1>9, <1>12
<1>13. DOMAIN items' = 0..(n - 1)
  BY <1>3
<1>14. \A m \in 0..(count - 1) : m \in 0..(n - 1) /\ m < count
  BY <1>1, <1>2
<1>15. ASSUME NEW h \in Host, NEW m \in 0..(n - 1), hash'[h] = m
       PROVE  items'[m] = h
  <2>1. PICK i \in Used(k) : items[i] = h /\ hash'[h] = New(i)
    BY <1>11, <1>12, <1>15
  <2>2. m \in 0..(count - 1) /\ Old(m) = i
    BY <1>2, <1>10, <1>15, <2>1
  <2>3. QED
    BY <1>3, <1>14, <2>1, <2>2
<1>16. ASSUME NEW h \in Host, NEW m \in 0..(n - 1), items'[m] = h
       PROVE  hash'[h] = m
  <2>1. m < count /\ items[Old(m)] = h
    BY <1>3, <1>11, <1>16
  <2>2. m \in 0..(count - 1)
    BY <1>2, <2>1
  <2>3. PICK i \in Used(k) : New(i) = m
    BY <1>2, <2>2
  <2>4. Old(m) = i
    BY <1>10, <2>3
  <2>5. QED
    BY <1>9, <2>1, <2>3, <2>4
<1>17. \A h \in Host : hash'[h] # None => hash'[h] \in DOMAIN items'
  BY <1>2, <1>12, <1>13, <1>14
<1>18. \A h \in Host : hash'[h] # None => hash[h] # None
  <2>1. SUFFICES ASSUME NEW h \in Host, hash'[h] # None
                 PROVE  hash[h] # None
    OBVIOUS
  <2>2. PICK i \in Used(k) : items[i] = h
    BY <1>12, <2>1
  <2>3. hash[h] = i /\ i \in Nat
    BY <1>4, <2>2 DEF RingMatchesHash, TypeOK
  <2>4. QED
    BY <1>11, <2>3
<1>19. QED
  BY <1>13, <1>15, <1>16, <1>17, <1>18 DEF RingMatchesHash, HashInRing

\* Every step keeps ring and hash in agreement, and nobody waits for what is cached.
LEMMA RingStep == TypeInv /\ RingInv /\ [Next]_vars => RingInv'
<1> SUFFICES ASSUME TypeInv, RingInv, [Next]_vars
             PROVE  RingInv'
  OBVIOUS
<1> USE DEF RingInv
<1>1. CASE UNCHANGED <<cache, pending>>
  BY <1>1 DEF cache, RingMatchesHash, HashInRing, NoWaitForCached
<1>2. ASSUME NEW u \in Client, NEW h \in Host, ResolvePending(u, h)
      PROVE  RingInv'
  <2>1. /\ hash[h] = None
        /\ pending' = [pending EXCEPT ![h] = <<u>> \o @]
        /\ UNCHANGED <<slots, items, freeSlot, hash>>
    BY <1>2 DEF ResolvePending, Link, cache
  <2>2. \A g \in Host : pending'[g] # <<>> => pending[g] # <<>> \/ g = h
    BY <2>1 DEF TypeInv, TypeOK
  <2>3. QED
    BY <2>1, <2>2 DEF RingMatchesHash, HashInRing, NoWaitForCached
<1>3. ASSUME NEW u \in Client, CancelRequest(u)
      PROVE  RingInv'
  <2>1. /\ want[u] \in Host
        /\ pending' = [pending EXCEPT ![want[u]] = Unlink(u, @)]
        /\ UNCHANGED <<slots, items, freeSlot, hash>>
    BY <1>3 DEF CancelRequest, TypeInv, TypeOK, cache
  <2>2. Unlink(u, <<>>) = <<>>
    BY DEF Unlink, PlacesOf
  <2>3. \A g \in Host : pending'[g] # <<>> => pending[g] # <<>>
    BY <2>1, <2>2 DEF TypeInv, TypeOK
  <2>4. QED
    BY <2>1, <2>3 DEF RingMatchesHash, HashInRing, NoWaitForCached
<1>4. ASSUME NEW r \in Request, IPCAnswer(r)
      PROVE  RingInv'
  <2> DEFINE h == reqHost[r]
  <2>1. h \in Host
    BY <1>4 DEF IPCAnswer, Broker!Finish, TypeInv, RequestsHaveHosts
  <2>2. CASE UNCHANGED <<cache, pending>>
    BY <1>1, <2>2
  <2>3. CASE pending[h] # <<>> /\ pending' = Forget(h) /\ (Cache(h) \/ UNCHANGED cache)
    <3>1. hash[h] = None
      BY <2>1, <2>3 DEF NoWaitForCached
    <3>2. pending'[h] = <<>> /\ \A g \in Host : g # h => pending'[g] = pending[g]
      BY <2>1, <2>3 DEF Forget, TypeInv, TypeOK
    <3>3. /\ RingMatchesHash' /\ HashInRing'
          /\ \A g \in Host : g # h /\ hash'[g] # None => hash[g] # None
      <4>1. CASE Cache(h)
        BY <2>1, <3>1, <4>1, CacheKeepsRing DEF TypeInv
      <4>2. CASE UNCHANGED cache
        BY <4>2 DEF cache, RingMatchesHash, HashInRing
      <4>3. QED
        BY <2>3, <4>1, <4>2
    <3>4. NoWaitForCached'
      BY <2>1, <3>2, <3>3 DEF NoWaitForCached
    <3>5. QED
      BY <3>3, <3>4
  <2>4. QED
    BY <1>4, <2>2, <2>3 DEF IPCAnswer
<1>5. ASSUME NEW S \in SUBSET DOMAIN items, Flush(S)
      PROVE  RingInv'
  <2>1. /\ RingMatchesHash' /\ HashInRing'
        /\ \A g \in Host : hash'[g] # None => hash[g] # None
    BY <1>5, FlushKeepsRing DEF TypeInv
  <2>2. pending' = pending
    BY <1>5 DEF Flush
  <2>3. QED
    BY <2>1, <2>2 DEF NoWaitForCached
<1>6. ASSUME NEW n \in SlotCounts, ReloadCfg(n)
      PROVE  RingInv'
  <2>1. /\ RingMatchesHash' /\ HashInRing'
        /\ \A g \in Host : hash'[g] # None => hash[g] # None
    BY <1>6, ReloadKeepsRing DEF TypeInv
  <2>2. pending' = pending
    BY <1>6 DEF ReloadCfg
  <2>3. QED
    BY <2>1, <2>2 DEF NoWaitForCached
<1>7. ASSUME NEW u \in Client, AsyncResolve(u)
      PROVE  RingInv'
  <2>1. CASE ResolveEmpty(u)
    BY <1>1, <2>1 DEF ResolveEmpty
  <2>2. ASSUME NEW h \in Host, ResolveCached(u, h)
        PROVE  RingInv'
    BY <1>1, <2>2 DEF ResolveCached
  <2>3. QED
    BY <1>2, <1>7, <2>1, <2>2 DEF AsyncResolve
<1>8. ASSUME NEW r \in Request, RequestLost(r) \/ RequestFailed(r)
      PROVE  RingInv'
  BY <1>1, <1>8 DEF RequestLost, RequestFailed
<1>9. CASE NextCallback \/ CallbackReturn \/ SendReturn
  BY <1>1, <1>9 DEF NextCallback, CallbackReturn, SendReturn
<1>10. CASE UNCHANGED vars
  BY <1>1, <1>10 DEF vars
<1>11. QED
  BY <1>3, <1>4, <1>5, <1>6, <1>7, <1>8, <1>9, <1>10 DEF Next

\* The empty ring and the empty hash agree.
LEMMA RingAtInit == Init => RingInv
BY DNSCacheAssumption DEF Init, RingInv, RingMatchesHash, HashInRing, NoWaitForCached

\* The part of the inductive invariant that is about the ring, and the types.
LEMMA RingAlways == Spec => [](TypeInv /\ RingInv)
<1>1. Init => TypeInv /\ RingInv
  BY TypeInit, RingAtInit
<1>2. TypeInv /\ RingInv /\ [Next]_vars => (TypeInv /\ RingInv)'
  <2>1. TypeInv /\ RingInv /\ [Next]_vars => TypeInv'
    BY TypeStep DEF RingInv
  <2>2. TypeInv /\ RingInv /\ [Next]_vars => RingInv'
    BY RingStep
  <2>3. QED
    BY <2>1, <2>2
<1>3. QED
  BY <1>1, <1>2, PTL DEF Spec

\* dnscache.cpp, Cache(), Remove(), Flush() and ReloadCfg(): whatever is cached, expires
\* and is moved when the configuration changes, the hash points to the slot a host is in,
\* and no host is in two slots.
THEOREM RingIsSound == Spec => []RingSound
<1>1. TypeInv /\ RingInv => RingSound
  BY DEF TypeInv, RingInv, RingSound
<1>2. QED
  BY <1>1, RingAlways, PTL

(***************************************************************************)
(* The callers that wait.                                                  *)
(***************************************************************************)

ChainInv == WaitersLinked /\ NoStaleCallback

\* Some call of IPCAnswer() has u still to call.
Called(u, s) == \E k \in DOMAIN s : IsIn(u, s[k].rest)

\* The caller u that wants w, in the chains p and the calls s.
LinkedIn(u, w, p, s) ==
  /\ \A h \in Host : Once(u, p[h]) /\ (IsIn(u, p[h]) => w = h /\ ~Called(u, s))
  /\ \A k \in DOMAIN s :
       /\ Once(u, s[k].rest)
       /\ IsIn(u, s[k].rest) => w # None /\ w = s[k].host
       /\ \A l \in DOMAIN s : IsIn(u, s[k].rest) /\ IsIn(u, s[l].rest) => k = l
  /\ w # None => Called(u, s) \/ IsIn(u, p[w])

LEMMA LinkedIs ==
  /\ \A u \in Client : (u \in ToCall <=> Called(u, walks)) /\ (u \in ToCall' <=> Called(u, walks'))
  /\ WaitersLinked <=> \A u \in Client \ late : LinkedIn(u, want[u], pending, walks)
  /\ WaitersLinked' <=> \A u \in Client \ late' : LinkedIn(u, want'[u], pending', walks')
<1>1. \A u \in Client : (u \in ToCall <=> Called(u, walks)) /\ (u \in ToCall' <=> Called(u, walks'))
  BY DEF ToCall, Called, IsIn
<1>2. \A u \in Client : Linked(u) <=> LinkedIn(u, want[u], pending, walks)
  BY <1>1 DEF Linked, LinkedIn
<1>3. ASSUME NEW u \in Client
      PROVE  Linked(u)' <=> LinkedIn(u, want'[u], pending', walks')
  BY <1>1 DEF Linked, LinkedIn, Once, IsIn, PlacesOf
<1>4. QED
  BY <1>1, <1>2, <1>3 DEF WaitersLinked

\* The calls b have v where the calls a have it.
SameCalls(v, a, b) ==
  /\ \A k \in DOMAIN a : IsIn(v, a[k].rest) => k \in DOMAIN b /\ IsIn(v, b[k].rest)
  /\ \A k \in DOMAIN b :
       /\ Once(v, b[k].rest)
       /\ IsIn(v, b[k].rest) =>
            k \in DOMAIN a /\ IsIn(v, a[k].rest) /\ b[k].host = a[k].host

\* The chains q have v where the chains p have it.
SameChains(v, p, q) ==
  \A h \in Host : (Once(v, p[h]) => Once(v, q[h])) /\ (IsIn(v, q[h]) <=> IsIn(v, p[h]))

LEMMA LinkedSame ==
  ASSUME NEW v, NEW w \in Host \cup {None}, NEW p, NEW q, NEW a, NEW b,
         LinkedIn(v, w, p, a), SameCalls(v, a, b), SameChains(v, p, q)
  PROVE  LinkedIn(v, w, q, b)
<1>1. Called(v, b) <=> Called(v, a)
  BY DEF Called, SameCalls
<1>2. \A h \in Host : Once(v, q[h]) /\ (IsIn(v, q[h]) => w = h /\ ~Called(v, b))
  BY <1>1 DEF LinkedIn, SameChains
<1>3. \A k \in DOMAIN b :
        /\ Once(v, b[k].rest)
        /\ IsIn(v, b[k].rest) => w # None /\ w = b[k].host
        /\ \A l \in DOMAIN b : IsIn(v, b[k].rest) /\ IsIn(v, b[l].rest) => k = l
  BY DEF LinkedIn, SameCalls
<1>4. w # None => Called(v, b) \/ IsIn(v, q[w])
  BY <1>1 DEF LinkedIn, SameChains
<1>5. QED
  BY <1>2, <1>3, <1>4 DEF LinkedIn

\* Who waits for nothing is in no chain.
LEMMA LinkedNowhere ==
  ASSUME NEW v, NEW p, NEW s, LinkedIn(v, None, p, s)
  PROVE  ~Called(v, s) /\ \A h \in Host : ~IsIn(v, p[h])
BY DNSCacheAssumption DEF LinkedIn, Called

\* A call of SendRequest() more, and a call less that has nobody to call, are nothing to v.
LEMMA PushSame ==
  ASSUME TypeOK, NEW v, NEW w, NEW p, LinkedIn(v, w, p, walks)
  PROVE  /\ SameCalls(v, walks, walks)
         /\ SameCalls(v, walks, Append(walks, Sending))
         /\ walks # <<>> /\ Top.rest = <<>> => SameCalls(v, walks, Return)
         /\ walks # <<>> =>
              SameCalls(v, walks, [walks EXCEPT ![Len(walks)] = [Top EXCEPT !.in = None]])
<1>1. \A k \in DOMAIN walks : Once(v, walks[k].rest)
  BY DEF LinkedIn
<1>2. walks \in Seq(Walk) /\ Sending \in Walk /\ Sending.rest = <<>>
  BY WalksAre DEF TypeOK, Sending
<1>3. SameCalls(v, walks, Append(walks, Sending))
  <2>1. /\ DOMAIN Append(walks, Sending) = 1..(Len(walks) + 1)
        /\ Append(walks, Sending)[Len(walks) + 1] = Sending
        /\ \A k \in DOMAIN walks : k \in 1..Len(walks) /\ Append(walks, Sending)[k] = walks[k]
        /\ \A k \in 1..(Len(walks) + 1) : k \in DOMAIN walks \/ k = Len(walks) + 1
    BY <1>2, PushIs
  <2>2. \A k \in DOMAIN walks : k \in DOMAIN Append(walks, Sending)
    BY <1>2, <2>1
  <2>3. Once(v, <<>>) /\ ~IsIn(v, <<>>)
    BY EmptyChain
  <2> DEFINE b == Append(walks, Sending)
  <2>4. \A k \in DOMAIN b : (k \in DOMAIN walks /\ b[k] = walks[k]) \/ b[k].rest = <<>>
    BY <1>2, <2>1
  <2> HIDE DEF b
  <2>5. SameCalls(v, walks, b)
    <3>1. \A k \in DOMAIN walks : k \in DOMAIN b /\ b[k] = walks[k]
      BY <2>1, <2>2 DEF b
    <3>2. QED
      BY <1>1, <2>3, <2>4, <3>1 DEF SameCalls
  <2>6. QED
    BY <2>5 DEF b
<1>4. ASSUME walks # <<>>, Top.rest = <<>>
      PROVE  SameCalls(v, walks, Return)
  <2>1. /\ DOMAIN Return = 1..(Len(walks) - 1)
        /\ \A k \in 1..(Len(walks) - 1) : Return[k] = walks[k] /\ k \in DOMAIN walks
        /\ \A k \in DOMAIN walks : k \in 1..(Len(walks) - 1) \/ k = Len(walks)
    BY <1>2, <1>4, PopIs DEF Return
  <2>2. ~IsIn(v, walks[Len(walks)].rest)
    BY <1>4, EmptyChain DEF Top
  <2>3. QED
    BY <1>1, <2>1, <2>2 DEF SameCalls
<1>5. ASSUME walks # <<>>
      PROVE  SameCalls(v, walks, [walks EXCEPT ![Len(walks)] = [Top EXCEPT !.in = None]])
  <2> DEFINE f == [Top EXCEPT !.in = None]
             b == [walks EXCEPT ![Len(walks)] = f]
  <2>1. Top \in Walk /\ Len(walks) \in DOMAIN walks
    BY <1>5, WalksAre
  <2>2. f \in Walk /\ f.rest = Top.rest /\ f.host = Top.host
    BY <2>1 DEF Walk
  <2> HIDE DEF f
  <2>3. /\ DOMAIN b = DOMAIN walks /\ b[Len(walks)] = f
        /\ \A k \in DOMAIN walks : k # Len(walks) => b[k] = walks[k]
    BY <1>2, <1>5, <2>2, ChangeIs
  <2> HIDE DEF b
  <2>4. \A k \in DOMAIN walks : b[k].rest = walks[k].rest /\ b[k].host = walks[k].host
    BY <2>1, <2>2, <2>3 DEF Top
  <2>5. SameCalls(v, walks, b)
    BY <1>1, <2>3, <2>4 DEF SameCalls
  <2>6. QED
    BY <2>5 DEF b, f
<1>6. SameCalls(v, walks, walks)
  BY <1>1 DEF SameCalls
<1>7. QED
  BY <1>3, <1>4, <1>5, <1>6

\* Steps that change nothing for anybody.
LEMMA QuietKeepsChains ==
  ASSUME TypeInv, ChainInv, UNCHANGED <<pending, want, late, stale>>,
         \/ UNCHANGED walks
         \/ walks # <<>> /\ Top.rest = <<>> /\ walks' = Return
         \/ walks # <<>> /\ walks' = [walks EXCEPT ![Len(walks)] = [Top EXCEPT !.in = None]]
  PROVE  ChainInv'
<1>1. ASSUME NEW v \in Client \ late
      PROVE  LinkedIn(v, want'[v], pending', walks')
  <2>1. LinkedIn(v, want[v], pending, walks) /\ want[v] \in Host \cup {None}
    BY <1>1, LinkedIs DEF ChainInv, TypeInv, TypeOK
  <2>2. SameCalls(v, walks, walks')
    BY <2>1, PushSame DEF TypeInv
  <2>3. SameChains(v, pending, pending)
    BY DEF SameChains
  <2>4. LinkedIn(v, want[v], pending, walks')
    BY <2>1, <2>2, <2>3, LinkedSame
  <2>5. QED
    BY <2>4
<1>2. WaitersLinked'
  BY <1>1, LinkedIs
<1>3. QED
  BY <1>2 DEF ChainInv, NoStaleCallback

\* AsyncResolve() of a host that is not cached: a caller that waits for nothing is in no
\* chain, and becomes the head of that of the host.
LEMMA LinkKeepsChains ==
  ASSUME TypeInv, ChainInv, NEW u \in Client, NEW h \in Host, ResolvePending(u, h)
  PROVE  ChainInv'
<1>1. /\ want[u] = None /\ None \notin Host
      /\ want' = [want EXCEPT ![u] = h]
      /\ pending' = [pending EXCEPT ![h] = <<u>> \o @]
      /\ UNCHANGED walks \/ walks' = Append(walks, Sending)
      /\ UNCHANGED <<late, stale>>
  BY DNSCacheAssumption DEF ResolvePending, Link
<1>2. /\ pending'[h] = <<u>> \o pending[h] /\ pending[h] \in Seq(Client)
      /\ \A g \in Host : g # h => pending'[g] = pending[g]
  BY <1>1 DEF TypeInv, TypeOK
<1>3. \A v \in Client \ late :
        /\ LinkedIn(v, want[v], pending, walks) /\ want[v] \in Host \cup {None}
        /\ SameCalls(v, walks, walks')
  <2>1. SUFFICES ASSUME NEW v \in Client \ late
                 PROVE  /\ LinkedIn(v, want[v], pending, walks) /\ want[v] \in Host \cup {None}
                        /\ SameCalls(v, walks, walks')
    OBVIOUS
  <2>2. LinkedIn(v, want[v], pending, walks) /\ want[v] \in Host \cup {None}
    BY LinkedIs DEF ChainInv, TypeInv, TypeOK
  <2>3. QED
    BY <1>1, <2>2, PushSame DEF TypeInv
<1>4. ASSUME NEW v \in Client \ late, v # u
      PROVE  LinkedIn(v, want'[v], pending', walks')
  <2>1. SameChains(v, pending, pending')
    <3>1. /\ IsIn(v, pending'[h]) <=> IsIn(v, pending[h])
          /\ Once(v, pending[h]) => Once(v, pending'[h])
      BY <1>2, <1>4, LinkIs
    <3>2. QED
      BY <1>2, <3>1 DEF SameChains
  <2>2. LinkedIn(v, want[v], pending', walks')
    BY <1>3, <2>1, LinkedSame
  <2>3. want'[v] = want[v]
    BY <1>1, <1>4 DEF TypeInv, TypeOK
  <2>4. QED
    BY <2>2, <2>3
<1>5. ASSUME u \notin late
      PROVE  LinkedIn(u, want'[u], pending', walks')
  <2>1. ~Called(u, walks) /\ \A g \in Host : ~IsIn(u, pending[g])
    <3>1. LinkedIn(u, None, pending, walks)
      BY <1>1, <1>3, <1>5
    <3>2. QED
      BY <3>1, LinkedNowhere
  <2>2. Once(u, pending'[h]) /\ IsIn(u, pending'[h])
    BY <1>2, <2>1, LinkIs
  <2>3. ~Called(u, walks')
    BY <1>3, <1>5, <2>1 DEF SameCalls, Called
  <2>4. \A k \in DOMAIN walks' : Once(u, walks'[k].rest) /\ ~IsIn(u, walks'[k].rest)
    BY <1>3, <1>5, <2>3 DEF SameCalls, Called
  <2>5. \A g \in Host : Once(u, pending[g])
    BY <1>3, <1>5 DEF LinkedIn
  <2>6. want'[u] = h
    BY <1>1 DEF TypeInv, TypeOK
  <2>7. \A g \in Host : Once(u, pending'[g]) /\ (IsIn(u, pending'[g]) => g = h)
    BY <1>2, <2>1, <2>2, <2>5
  <2>8. QED
    BY <2>2, <2>3, <2>4, <2>6, <2>7 DEF LinkedIn
<1>6. WaitersLinked'
  BY <1>1, <1>4, <1>5, LinkedIs
<1>7. QED
  BY <1>1, <1>6 DEF ChainInv, NoStaleCallback

\* CancelRequest(): the caller leaves the chain it is in, or is late.
LEMMA CancelKeepsChains ==
  ASSUME TypeInv, ChainInv, NEW u \in Client, CancelRequest(u)
  PROVE  ChainInv'
<1> DEFINE g == want[u]
<1>1. /\ g \in Host
      /\ want' = [want EXCEPT ![u] = None]
      /\ pending' = [pending EXCEPT ![g] = Unlink(u, @)]
      /\ late' = late \cup ({u} \cap ToCall)
      /\ UNCHANGED <<walks, stale>>
  BY DEF CancelRequest, TypeInv, TypeOK
<1>2. /\ pending'[g] = Unlink(u, pending[g]) /\ pending[g] \in Seq(Client)
      /\ \A h \in Host : h # g => pending'[h] = pending[h]
  BY <1>1 DEF TypeInv, TypeOK
<1>3. \A v \in Client \ late :
        LinkedIn(v, want[v], pending, walks) /\ want[v] \in Host \cup {None}
  BY LinkedIs DEF ChainInv, TypeInv, TypeOK
<1>4. ASSUME NEW v \in Client \ late, v # u
      PROVE  LinkedIn(v, want'[v], pending', walks')
  <2>1. SameChains(v, pending, pending')
    <3>1. (IsIn(v, pending'[g]) <=> IsIn(v, pending[g])) /\ (Once(v, pending[g]) => Once(v, pending'[g]))
      <4>1. /\ IsIn(v, Unlink(u, pending[g])) <=> IsIn(v, pending[g])
            /\ Once(v, pending[g]) => Once(v, Unlink(u, pending[g]))
        BY <1>2, <1>4, UnlinkIs
      <4>2. QED
        BY <1>2, <4>1
    <3>2. QED
      BY <1>2, <3>1 DEF SameChains
  <2>2. SameCalls(v, walks, walks)
    BY <1>3, PushSame DEF TypeInv
  <2>3. LinkedIn(v, want[v], pending', walks)
    BY <1>3, <2>1, <2>2, LinkedSame
  <2>4. want'[v] = want[v]
    BY <1>1, <1>4 DEF TypeInv, TypeOK
  <2>5. QED
    BY <1>1, <2>3, <2>4
<1>5. ASSUME u \notin late'
      PROVE  LinkedIn(u, want'[u], pending', walks')
  <2>1. LinkedIn(u, g, pending, walks) /\ ~Called(u, walks)
    BY <1>1, <1>3, <1>5, LinkedIs
  <2>2. \A h \in Host : Once(u, pending[h]) /\ (IsIn(u, pending[h]) => h = g)
    BY <2>1 DEF LinkedIn
  <2>3. Once(u, pending[g])
    BY <1>1, <2>2
  <2>4. ~IsIn(u, pending'[g])
    BY <1>2, <2>3, UnlinkIs
  <2>5. \A h \in Host : ~IsIn(u, pending'[h])
    BY <1>2, <2>2, <2>4
  <2>6. \A h \in Host : Once(u, pending'[h])
    BY <2>5 DEF Once, IsIn
  <2>7. \A k \in DOMAIN walks : Once(u, walks[k].rest) /\ ~IsIn(u, walks[k].rest)
    BY <2>1 DEF LinkedIn, Called
  <2>8. want'[u] = None
    BY <1>1 DEF TypeInv, TypeOK
  <2>9. QED
    BY <1>1, <2>5, <2>6, <2>7, <2>8 DEF LinkedIn
<1>6. WaitersLinked'
  BY <1>1, <1>4, <1>5, LinkedIs
<1>7. QED
  BY <1>1, <1>6 DEF ChainInv, NoStaleCallback

\* IPCAnswer(): the chain of the host becomes that of the call, as it is.
LEMMA AnswerKeepsChains ==
  ASSUME TypeInv, ChainInv, NEW r \in Request, IPCAnswer(r)
  PROVE  ChainInv'
<1>1. PICK h \in Host : h = reqHost[r]
  BY DEF IPCAnswer, Broker!Finish, TypeInv, RequestsHaveHosts
<1>2. UNCHANGED <<want, late, stale>>
  BY DEF IPCAnswer
<1>3. CASE UNCHANGED <<pending, walks>>
  BY <1>2, <1>3, QuietKeepsChains
<1>4. ASSUME pending' = Forget(h),
             walks' = Append(walks, [host |-> h, rest |-> pending[h], in |-> None])
      PROVE  ChainInv'
  <2> DEFINE f == [host |-> h, rest |-> pending[h], in |-> None]
             n == Len(walks) + 1
  <2>1. /\ pending'[h] = <<>> /\ pending[h] \in Seq(Client)
        /\ \A g \in Host : g # h => pending'[g] = pending[g]
    BY <1>1, <1>4 DEF Forget, TypeInv, TypeOK
  <2>2. f \in Walk /\ f.rest = pending[h] /\ f.host = h
    BY <2>1 DEF Walk
  <2> HIDE DEF f
  <2>3. /\ DOMAIN walks' = 1..n
        /\ walks'[n] = f
        /\ \A k \in DOMAIN walks : k \in 1..Len(walks) /\ walks'[k] = walks[k]
        /\ \A k \in 1..n : k \in DOMAIN walks \/ k = n
        /\ Len(walks) \in Nat
    <3>1. walks' = Append(walks, f) /\ walks \in Seq(Walk)
      BY <1>4 DEF f, TypeInv, TypeOK
    <3>2. Len(walks) \in Nat
      BY <3>1
    <3>3. QED
      BY <2>2, <3>1, <3>2, PushIs
  <2>4. \A k \in DOMAIN walks : k \in DOMAIN walks' /\ k # n
    BY <2>3
  <2>5. n \in DOMAIN walks'
    BY <2>3
  <2> HIDE DEF n
  <2>6. ASSUME NEW v \in Client \ late
        PROVE  LinkedIn(v, want[v], pending', walks')
    <3>1. LinkedIn(v, want[v], pending, walks) /\ want[v] \in Host \cup {None}
      BY LinkedIs DEF ChainInv, TypeInv, TypeOK
    <3>2. \A g \in Host : Once(v, pending'[g]) /\ (IsIn(v, pending'[g]) => g # h /\ IsIn(v, pending[g]))
      BY <2>1, <3>1, EmptyChain DEF LinkedIn
    <3>3. Called(v, walks') <=> Called(v, walks) \/ IsIn(v, pending[h])
      BY <2>2, <2>3, <2>4, <2>5 DEF Called
    <3>4. \A g \in Host : IsIn(v, pending'[g]) => want[v] = g /\ ~Called(v, walks')
      BY <3>1, <3>2, <3>3 DEF LinkedIn
    <3>5. ASSUME NEW k \in DOMAIN walks'
          PROVE  /\ Once(v, walks'[k].rest)
                 /\ IsIn(v, walks'[k].rest) => want[v] # None /\ want[v] = walks'[k].host
      <4>1. CASE k \in DOMAIN walks
        BY <2>3, <3>1, <4>1 DEF LinkedIn
      <4>2. CASE k = n
        BY <2>2, <2>3, <3>1, <4>2, DNSCacheAssumption DEF LinkedIn
      <4>3. QED
        BY <2>3, <4>1, <4>2
    <3>6. ASSUME NEW k \in DOMAIN walks', NEW l \in DOMAIN walks',
                 IsIn(v, walks'[k].rest), IsIn(v, walks'[l].rest)
          PROVE  k = l
      <4>1. CASE k \in DOMAIN walks /\ l \in DOMAIN walks
        BY <2>3, <3>1, <3>6, <4>1 DEF LinkedIn
      <4>2. CASE k = n /\ l \in DOMAIN walks
        <5>1. IsIn(v, pending[h]) /\ Called(v, walks)
          BY <2>2, <2>3, <3>6, <4>2 DEF Called
        <5>2. QED
          BY <3>1, <5>1 DEF LinkedIn
      <4>3. CASE l = n /\ k \in DOMAIN walks
        <5>1. IsIn(v, pending[h]) /\ Called(v, walks)
          BY <2>2, <2>3, <3>6, <4>3 DEF Called
        <5>2. QED
          BY <3>1, <5>1 DEF LinkedIn
      <4>4. QED
        BY <2>3, <4>1, <4>2, <4>3
    <3>7. want[v] # None => Called(v, walks') \/ IsIn(v, pending'[want[v]])
      <4>1. CASE want[v] = h
        BY <3>1, <3>3, <4>1 DEF LinkedIn
      <4>2. CASE want[v] # h /\ want[v] # None
        BY <2>1, <3>1, <3>3, <4>2 DEF LinkedIn
      <4>3. QED
        BY <4>1, <4>2
    <3>8. QED
      BY <3>2, <3>4, <3>5, <3>6, <3>7 DEF LinkedIn
  <2>7. WaitersLinked'
    BY <1>2, <2>6, LinkedIs
  <2>8. QED
    BY <1>2, <2>7 DEF ChainInv, NoStaleCallback
<1>5. QED
  BY <1>1, <1>3, <1>4 DEF IPCAnswer

\* The loop of IPCAnswer(): the caller that is called back waits, and no longer does.
LEMMA CallbackKeepsChains ==
  ASSUME TypeInv, ChainInv, NextCallback
  PROVE  ChainInv'
<1>1. PICK s \in Seq(Client) : s = Top.rest /\ s # <<>> /\ walks # <<>>
  BY WalksAre DEF NextCallback, TypeInv
<1>2. PICK u \in Client : u = Head(s)
  BY <1>1, TailIs
<1>3. PICK n \in DOMAIN walks : n = Len(walks) /\ Top = walks[n]
  BY <1>1, WalksAre DEF TypeInv, Top
<1>4. PICK f : f = [host |-> Top.host, rest |-> Tail(s), in |-> u]
  OBVIOUS
<1>5. f \in Walk /\ f.rest = Tail(s) /\ f.host = walks[n].host
  <2>1. Top.host \in Host \cup {None} /\ Tail(s) \in Seq(Client)
    BY <1>1, WalksAre, TailIs DEF TypeInv
  <2>2. QED
    BY <1>3, <1>4, <2>1 DEF Walk
<1>6. /\ walks' = [walks EXCEPT ![n] = f]
      /\ stale' = stale \cup (IF want[u] = walks[n].host THEN {} ELSE {u})
      /\ want' = [want EXCEPT ![u] = None]
      /\ UNCHANGED <<pending, late>>
  BY <1>1, <1>2, <1>3, <1>4 DEF NextCallback, RestOfChain
<1>7. /\ DOMAIN walks' = DOMAIN walks /\ walks'[n] = f
      /\ \A k \in DOMAIN walks : k # n => walks'[k] = walks[k]
  BY <1>1, <1>3, <1>5, <1>6, ChangeIs DEF TypeInv, TypeOK
<1>8. /\ \A v : IsIn(v, s) <=> v = u \/ IsIn(v, Tail(s))
      /\ \A v : Once(v, s) => Once(v, Tail(s))
      /\ Once(u, s) => ~IsIn(u, Tail(s))
  BY <1>1, <1>2, TailIs
<1>9. walks[n].rest = s
  BY <1>1, <1>3
<1>10. \A v \in Client \ late :
         LinkedIn(v, want[v], pending, walks) /\ want[v] \in Host \cup {None}
  BY LinkedIs DEF ChainInv, TypeInv, TypeOK
<1>11. ASSUME NEW v \in Client \ late, v # u
       PROVE  LinkedIn(v, want'[v], pending', walks')
  <2>1. \A k \in DOMAIN walks :
          /\ IsIn(v, walks'[k].rest) <=> IsIn(v, walks[k].rest)
          /\ Once(v, walks[k].rest) => Once(v, walks'[k].rest)
          /\ walks'[k].host = walks[k].host
    BY <1>5, <1>7, <1>8, <1>9, <1>11
  <2>2. \A k \in DOMAIN walks : Once(v, walks[k].rest)
    BY <1>10 DEF LinkedIn
  <2>3. SameCalls(v, walks, walks')
    BY <1>7, <2>1, <2>2 DEF SameCalls
  <2>4. SameChains(v, pending, pending)
    BY DEF SameChains
  <2>5. LinkedIn(v, want[v], pending, walks')
    BY <1>10, <2>3, <2>4, LinkedSame
  <2>6. want'[v] = want[v]
    BY <1>6, <1>11 DEF TypeInv, TypeOK
  <2>7. QED
    BY <1>6, <2>5, <2>6
<1>12. ASSUME u \notin late
       PROVE  /\ LinkedIn(u, want'[u], pending', walks')
              /\ want[u] = walks[n].host
  <2>1. LinkedIn(u, want[u], pending, walks) /\ IsIn(u, walks[n].rest)
    BY <1>8, <1>9, <1>10, <1>12
  <2>2. /\ want[u] = walks[n].host /\ Called(u, walks) /\ Once(u, s)
        /\ \A k \in DOMAIN walks : k # n => ~IsIn(u, walks[k].rest)
        /\ \A k \in DOMAIN walks : Once(u, walks[k].rest)
    BY <1>9, <2>1 DEF LinkedIn, Called
  <2>3. \A h \in Host : Once(u, pending[h]) /\ ~IsIn(u, pending[h])
    BY <2>1, <2>2 DEF LinkedIn
  <2>4. \A k \in DOMAIN walks' : Once(u, walks'[k].rest) /\ ~IsIn(u, walks'[k].rest)
    BY <1>5, <1>7, <1>8, <2>2
  <2>5. want'[u] = None
    BY <1>6 DEF TypeInv, TypeOK
  <2>6. LinkedIn(u, None, pending', walks')
    BY <1>6, <2>3, <2>4 DEF LinkedIn
  <2>7. QED
    BY <2>2, <2>5, <2>6
<1>13. WaitersLinked'
  BY <1>6, <1>11, <1>12, LinkedIs
<1>14. NoStaleCallback'
  BY <1>6, <1>12 DEF ChainInv, NoStaleCallback
<1>15. QED
  BY <1>13, <1>14 DEF ChainInv

\* No lookups are under way at first, and no chains.
LEMMA ChainAtInit == Init => ChainInv
<1> SUFFICES ASSUME Init
             PROVE  ChainInv
  OBVIOUS
<1>1. /\ walks = <<>> /\ \A h \in Host : pending[h] = <<>>
      /\ \A u \in Client : want[u] = None
      /\ stale = {}
  BY DEF Init
<1>2. \A u \in Client : LinkedIn(u, want[u], pending, walks)
  BY <1>1, EmptyChain DEF LinkedIn
<1>3. QED
  BY <1>1, <1>2, LinkedIs DEF ChainInv, NoStaleCallback

\* Every operation keeps the chains of waiting users whole.
LEMMA ChainStep == TypeInv /\ ChainInv /\ [Next]_vars => ChainInv'
<1> SUFFICES ASSUME TypeInv, ChainInv, [Next]_vars
             PROVE  ChainInv'
  OBVIOUS
<1>1. CASE UNCHANGED <<pending, walks, want, late, stale>>
  BY <1>1, QuietKeepsChains
<1>2. ASSUME NEW u \in Client, AsyncResolve(u) \/ CancelRequest(u)
      PROVE  ChainInv'
  <2>1. CASE ResolveEmpty(u)
    BY <1>1, <2>1 DEF ResolveEmpty
  <2>2. ASSUME NEW h \in Host, ResolveCached(u, h)
        PROVE  ChainInv'
    BY <1>1, <2>2 DEF ResolveCached
  <2>3. ASSUME NEW h \in Host, ResolvePending(u, h)
        PROVE  ChainInv'
    BY <2>3, LinkKeepsChains
  <2>4. CASE CancelRequest(u)
    BY <2>4, CancelKeepsChains
  <2>5. QED
    BY <1>2, <2>1, <2>2, <2>3, <2>4 DEF AsyncResolve
<1>3. ASSUME NEW r \in Request, IPCAnswer(r)
      PROVE  ChainInv'
  BY <1>3, AnswerKeepsChains
<1>4. ASSUME NEW r \in Request, RequestLost(r) \/ RequestFailed(r)
      PROVE  ChainInv'
  BY <1>1, <1>4 DEF RequestLost, RequestFailed, callers
<1>5. CASE NextCallback
  BY <1>5, CallbackKeepsChains
<1>6. CASE CallbackReturn
  <2>1. /\ UNCHANGED <<pending, want, late, stale>> /\ walks # <<>>
        /\ walks' = IF Top.rest = <<>> THEN Return
                    ELSE [walks EXCEPT ![Len(walks)] = [Top EXCEPT !.in = None]]
    BY <1>6 DEF CallbackReturn, callers
  <2>2. CASE Top.rest = <<>>
    BY <2>1, <2>2, QuietKeepsChains
  <2>3. CASE Top.rest # <<>>
    BY <2>1, <2>3, QuietKeepsChains
  <2>4. QED
    BY <2>2, <2>3
<1>7. CASE SendReturn
  <2>1. UNCHANGED <<pending, want, late, stale>> /\ walks # <<>> /\ walks' = Return
    BY <1>7 DEF SendReturn, callers
  <2>2. Top.rest = <<>>
    BY <1>7 DEF SendReturn, Sending
  <2>3. QED
    BY <2>1, <2>2, QuietKeepsChains
<1>8. ASSUME NEW S \in SUBSET DOMAIN items, Flush(S)
      PROVE  ChainInv'
  BY <1>1, <1>8 DEF Flush, callers
<1>9. ASSUME NEW n \in SlotCounts, ReloadCfg(n)
      PROVE  ChainInv'
  BY <1>1, <1>9 DEF ReloadCfg, callers
<1>10. CASE UNCHANGED vars
  BY <1>1, <1>10 DEF vars, callers
<1>11. QED
  BY <1>2, <1>3, <1>4, <1>5, <1>6, <1>7, <1>8, <1>9, <1>10 DEF Next

\* dnscache.cpp, AddPendingRequest(), CancelRequest() and IPCAnswer(): whatever order
\* answers, cancellations and calls from callbacks come in, and however they are nested, a
\* caller that waits is in one chain, once, and one that cancelled or was called back already
\* is not called; but for a caller that cancels while its chain is being called back.
THEOREM CallersAreToldOnce == Spec => []ChainSound
<1>1. Init => ChainInv
  BY ChainAtInit
<1>2. TypeInv /\ RingInv /\ ChainInv /\ [Next]_vars => ChainInv'
  BY ChainStep
<1>3. Spec => []ChainInv
  BY <1>1, <1>2, RingAlways, PTL DEF Spec
<1>4. ChainInv => ChainSound
  BY DEF ChainInv, ChainSound
<1>5. QED
  BY <1>3, <1>4, PTL

(***************************************************************************)
(* The requests of those that wait.                                        *)
(***************************************************************************)

\* Every operation keeps a request under way for whoever waits.
LEMMA WaitStep == TypeInv /\ WaitHasRequest /\ [Next]_vars => WaitHasRequest'
<1> SUFFICES ASSUME TypeInv, WaitHasRequest, [Next]_vars
             PROVE  WaitHasRequest'
  OBVIOUS
<1>1. CASE UNCHANGED <<pending, reqHost, outcome>>
  BY <1>1 DEF WaitHasRequest
<1>2. ASSUME NEW u \in Client, NEW h \in Host, ResolvePending(u, h)
      PROVE  WaitHasRequest'
  <2>1. pending' = [pending EXCEPT ![h] = <<u>> \o @]
    BY <1>2 DEF ResolvePending, Link
  <2>2. \A g \in Host : g # h => pending'[g] = pending[g]
    BY <2>1 DEF TypeInv, TypeOK
  <2>3. CASE pending[h] # <<>> /\ UNCHANGED <<reqHost, outcome>>
    BY <2>2, <2>3 DEF WaitHasRequest
  <2>4. ASSUME NEW r \in Request, Broker!Submit(r),
               reqHost' = [reqHost EXCEPT ![r] = h]
        PROVE  WaitHasRequest'
    <3>1. /\ reqHost'[r] = h /\ outcome[r] = "new" /\ outcome'[r] = "pending"
          /\ \A q \in Request : q # r => reqHost'[q] = reqHost[q] /\ outcome'[q] = outcome[q]
      BY <2>4 DEF Broker!Submit, TypeInv, TypeOK
    <3>2. SUFFICES ASSUME NEW g \in Host, pending'[g] # <<>>, g # h
                   PROVE  \E q \in Request :
                            reqHost'[q] = g /\ outcome'[q] \in {"pending", "lost", "failed"}
      BY <3>1 DEF WaitHasRequest
    <3>3. PICK q \in Request : reqHost[q] = g /\ outcome[q] \in {"pending", "lost", "failed"}
      BY <2>2, <3>2 DEF WaitHasRequest
    <3>4. QED
      BY <3>1, <3>3
  <2>5. QED
    BY <1>2, <2>3, <2>4 DEF ResolvePending, MustAsk
<1>3. ASSUME NEW u \in Client, CancelRequest(u)
      PROVE  WaitHasRequest'
  <2>1. /\ want[u] \in Host
        /\ pending' = [pending EXCEPT ![want[u]] = Unlink(u, @)]
        /\ UNCHANGED <<reqHost, outcome>>
    BY <1>3 DEF CancelRequest, TypeInv, TypeOK
  <2>2. Unlink(u, <<>>) = <<>>
    BY DEF Unlink, PlacesOf
  <2>3. \A g \in Host : pending'[g] # <<>> => pending[g] # <<>>
    BY <2>1, <2>2 DEF TypeInv, TypeOK
  <2>4. QED
    BY <2>1, <2>3 DEF WaitHasRequest
<1>4. ASSUME NEW r \in Request, Broker!Finish(r, "lost") \/ Broker!Finish(r, "failed"),
             UNCHANGED <<pending, reqHost>>
      PROVE  WaitHasRequest'
  <2>1. /\ outcome'[r] \in {"lost", "failed"}
        /\ \A q \in Request : q # r => outcome'[q] = outcome[q]
    BY <1>4 DEF Broker!Finish, TypeInv, TypeOK
  <2>2. QED
    BY <1>4, <2>1 DEF WaitHasRequest
<1>5. ASSUME NEW r \in Request, IPCAnswer(r)
      PROVE  WaitHasRequest'
  <2> DEFINE h == reqHost[r]
  <2>1. /\ h \in Host /\ reqHost' = reqHost
        /\ \A q \in Request : q # r => outcome'[q] = outcome[q]
    BY <1>5 DEF IPCAnswer, Broker!Finish, TypeInv, TypeOK, RequestsHaveHosts
  <2>2. pending'[h] = <<>> /\ \A g \in Host : g # h => pending'[g] = pending[g]
    <3>1. CASE pending[h] = <<>> /\ pending' = pending
      BY <3>1
    <3>2. CASE pending' = Forget(h)
      BY <2>1, <3>2 DEF Forget, TypeInv, TypeOK
    <3>3. QED
      BY <1>5, <3>1, <3>2 DEF IPCAnswer
  <2>3. SUFFICES ASSUME NEW g \in Host, pending'[g] # <<>>
                 PROVE  \E q \in Request :
                          reqHost'[q] = g /\ outcome'[q] \in {"pending", "lost", "failed"}
    BY DEF WaitHasRequest
  <2>4. g # h /\ pending[g] # <<>>
    BY <2>2, <2>3
  <2>5. PICK q \in Request : reqHost[q] = g /\ outcome[q] \in {"pending", "lost", "failed"}
    BY <2>4 DEF WaitHasRequest
  <2>6. QED
    BY <2>1, <2>4, <2>5
<1>6. ASSUME NEW u \in Client, AsyncResolve(u)
      PROVE  WaitHasRequest'
  <2>1. CASE ResolveEmpty(u)
    BY <1>1, <2>1 DEF ResolveEmpty
  <2>2. ASSUME NEW h \in Host, ResolveCached(u, h)
        PROVE  WaitHasRequest'
    BY <1>1, <2>2 DEF ResolveCached
  <2>3. QED
    BY <1>2, <1>6, <2>1, <2>2 DEF AsyncResolve
<1>7. ASSUME NEW r \in Request, RequestLost(r) \/ RequestFailed(r)
      PROVE  WaitHasRequest'
  BY <1>4, <1>7 DEF RequestLost, RequestFailed
<1>8. CASE NextCallback \/ CallbackReturn \/ SendReturn
  BY <1>1, <1>8 DEF NextCallback, CallbackReturn, SendReturn
<1>9. ASSUME NEW S \in SUBSET DOMAIN items, Flush(S)
      PROVE  WaitHasRequest'
  BY <1>1, <1>9 DEF Flush
<1>10. ASSUME NEW n \in SlotCounts, ReloadCfg(n)
       PROVE  WaitHasRequest'
  BY <1>1, <1>10 DEF ReloadCfg
<1>11. CASE UNCHANGED vars
  BY <1>1, <1>11 DEF vars
<1>12. QED
  BY <1>3, <1>5, <1>6, <1>7, <1>8, <1>9, <1>10, <1>11 DEF Next

\* dnscache.cpp, AsyncResolve() and IPCAnswer(): whoever waits for a host has a request for
\* it under way, or one that a resolver process took with it, and nobody waits for a host
\* that is cached.
THEOREM WaitsAreFounded == Spec => []WaitSound
<1>1. Init => WaitHasRequest
  BY DEF Init, WaitHasRequest
<1>2. TypeInv /\ RingInv /\ WaitHasRequest /\ [Next]_vars => WaitHasRequest'
  BY WaitStep
<1>3. Spec => []WaitHasRequest
  BY <1>1, <1>2, RingAlways, PTL DEF Spec
<1>4. RingInv /\ WaitHasRequest => WaitSound
  BY DEF RingInv, WaitSound
<1>5. QED
  BY <1>3, <1>4, RingAlways, PTL

\* resolver.cpp, Resolver::Resolve(): the cache uses the pool of resolvers as the broker
\* allows: it submits a request once, and a request is over once.
THEOREM CacheUsesBroker == Spec => Broker!Spec
<1>1. Init => Broker!Init
  BY DEF Init
<1>2. TypeInv /\ [Next]_vars => [Broker!Next]_outcome
  <2> SUFFICES ASSUME TypeInv, [Next]_vars
               PROVE  Broker!Next \/ UNCHANGED outcome
    OBVIOUS
  <2>1. ASSUME NEW u \in Client, AsyncResolve(u)
        PROVE  Broker!Next \/ UNCHANGED outcome
    BY <2>1 DEF AsyncResolve, ResolveEmpty, ResolveCached, ResolvePending, Broker!Next
  <2>2. ASSUME NEW u \in Client, CancelRequest(u)
        PROVE  UNCHANGED outcome
    BY <2>2 DEF CancelRequest
  <2>3. ASSUME NEW r \in Request, NEW how \in {"answered", "lost", "failed"},
               Broker!Finish(r, how)
        PROVE  Broker!Next
    BY <2>3 DEF Broker!Next, Broker!Final
  <2>4. ASSUME NEW r \in Request, IPCAnswer(r) \/ RequestLost(r) \/ RequestFailed(r)
        PROVE  Broker!Next
    BY <2>3, <2>4 DEF IPCAnswer, RequestLost, RequestFailed
  <2>5. CASE NextCallback \/ CallbackReturn \/ SendReturn
    BY <2>5 DEF NextCallback, CallbackReturn, SendReturn
  <2>6. ASSUME NEW S \in SUBSET DOMAIN items, Flush(S)
        PROVE  UNCHANGED outcome
    BY <2>6 DEF Flush
  <2>7. ASSUME NEW n \in SlotCounts, ReloadCfg(n)
        PROVE  UNCHANGED outcome
    BY <2>7 DEF ReloadCfg
  <2>8. CASE UNCHANGED vars
    BY <2>8 DEF vars
  <2>9. QED
    BY <2>1, <2>2, <2>4, <2>5, <2>6, <2>7, <2>8 DEF Next
<1>3. QED
  BY <1>1, <1>2, RingAlways, PTL DEF Spec, Broker!Spec
=============================================================================
