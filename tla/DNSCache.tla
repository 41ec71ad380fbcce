------------------------------ MODULE DNSCache ------------------------------
(***************************************************************************)
(* The host name cache, prometeo/dnscache.cpp, over the pool of resolver   *)
(* processes (prometeo/resolver.cpp), which is a RequestBroker here:       *)
(* ProcessGroup implements it.                                             *)
(*                                                                         *)
(* AsyncResolve() calls the caller back at once for a host it has cached,  *)
(* and otherwise links the caller into the chain of those that wait for    *)
(* the host; only the first of a chain makes a request.  The answer to the *)
(* request is copied to the head of the chain, cached, and the whole chain *)
(* is called back, one caller after the other.  A callback may call        *)
(* AsyncResolve() and CancelRequest(), for its caller and for others, and  *)
(* the pool may have an answer before its SendRequest() returns, so that   *)
(* one IPCAnswer() runs inside another.  CancelRequest() unlinks a caller, *)
(* and with the last one the host is forgotten while the request is still  *)
(* under way, so that the same host can be asked for twice; it does not    *)
(* find a caller whose chain is being called back.                         *)
(*                                                                         *)
(* The cache proper is a ring of slots, overwritten in turn, and a hash    *)
(* from hosts to the slots they are in.                                    *)
(*                                                                         *)
(* Addresses: the address of a host is the host itself.  Time: an entry    *)
(* may have expired whenever the timer runs.  A lookup that fails is       *)
(* answered with the full length too and the address INADDR_NONE (the      *)
(* build without IPv6); it is "bad" here.                                  *)
(***************************************************************************)
EXTENDS Naturals, Sequences, FiniteSets

CONSTANTS
  Host,        \* host names
  Client,      \* the callers, each with one Prom_Addr buffer and userdata
  Request,     \* the requests to the pool, in order: bounds the behaviours
  SlotCounts,  \* the numbers of slots the configuration may ask for
  CanFail,     \* whether a lookup can fail
  CanLose,     \* whether a resolver process can die
  None         \* no host, no slot, no client

ASSUME DNSCacheAssumption ==
  /\ Request \subseteq Nat
  /\ SlotCounts \subseteq Nat \ {0}
  /\ CanFail \in BOOLEAN
  /\ CanLose \in BOOLEAN
  /\ None \notin Host \cup Client \cup Nat

VARIABLES
  slots,     \* Slots
  items,     \* Items: the host in each slot, None if free
  freeSlot,  \* FreeSlot
  hash,      \* Hash: the slot each host is in, None if not cached
  pending,   \* Pending: for each host the callers that wait, newest first
  reqHost,   \* the host a request asks for
  outcome,   \* the requests, as the pool sees them (RequestBroker)
  walks,     \* the calls of IPCAnswer() and of SendRequest() under way, the last on top
  want,      \* want[u]: the host caller u waits for, None if it waits for none
  told,      \* told[u]: the host of u's last callback, None if there was none
  addr,      \* addr[u]: the contents of u's buffer
  late,      \* the callers that cancelled while their chain was being called back
  stale,     \* the callers that were called back for a host they did not wait for
  up         \* the daemon has not crashed

cache   == <<slots, items, freeSlot, hash>>
callers == <<want, told, addr, late, stale>>
vars    == <<cache, pending, reqHost, outcome, walks, callers, up>>

Broker == INSTANCE RequestBroker

Address == Host \cup {"unset", "any", "bad"}

\* A call of IPCAnswer(): the host it tells of, the callers it has still to call back, and
\* the one whose callback is executing.
Walk == [host : Host \cup {None}, rest : Seq(Client), in : Client \cup {None}]

\* A call of SendRequest() by AsyncResolve().
Sending == [host |-> None, rest |-> <<>>, in |-> None]

TypeOK ==
  /\ slots \in SlotCounts
  /\ items \in [0..(slots - 1) -> Host \cup {None}]
  /\ freeSlot \in 0..(slots - 1)
  /\ hash \in [Host -> Nat \cup {None}]
  /\ pending \in [Host -> Seq(Client)]
  /\ reqHost \in [Request -> Host \cup {None}]
  /\ outcome \in [Request -> Broker!Outcomes]
  /\ walks \in Seq(Walk)
  /\ want \in [Client -> Host \cup {None}]
  /\ told \in [Client -> Host \cup {None}]
  /\ addr \in [Client -> Address]
  /\ late \in SUBSET Client
  /\ stale \in SUBSET Client
  /\ up \in BOOLEAN

Init ==
  /\ slots \in SlotCounts
  /\ items = [i \in 0..(slots - 1) |-> None]
  /\ freeSlot = 0
  /\ hash = [h \in Host |-> None]
  /\ pending = [h \in Host |-> <<>>]
  /\ reqHost = [r \in Request |-> None]
  /\ Broker!Init
  /\ walks = <<>>
  /\ want = [u \in Client |-> None]
  /\ told = [u \in Client |-> None]
  /\ addr = [u \in Client |-> "unset"]
  /\ late = {}
  /\ stale = {}
  /\ up = TRUE

-----------------------------------------------------------------------------
(* The ring and the hash *)

\* Remove(): the hash without the hosts of the slots S.
HashWithout(S) ==
  [h \in Host |-> IF \E i \in S : items[i] = h THEN None ELSE hash[h]]

\* "if( ++FreeSlot >= Slots ) FreeSlot = 0"
NextSlot == (freeSlot + 1) % slots

\* Cache(): the next slot of the ring is freed and takes the host.  Hash.Add()
\* leaves the entry of a host that already has one.
Cache(h) ==
  LET rest == HashWithout({freeSlot})
  IN /\ items' = [items EXCEPT ![freeSlot] = h]
     /\ hash' = [rest EXCEPT ![h] = IF @ = None THEN freeSlot ELSE @]
     /\ freeSlot' = NextSlot
     /\ UNCHANGED slots

\* No call is under way: the main loop is between two events.
AtRest == up /\ walks = <<>>

\* Flush(): the timer finds the slots S expired.
Flush(S) ==
  /\ AtRest
  /\ S # {}
  /\ S \subseteq {i \in DOMAIN items : items[i] # None}
  /\ hash' = HashWithout(S)
  /\ items' = [i \in DOMAIN items |-> IF i \in S THEN None ELSE items[i]]
  /\ UNCHANGED <<slots, freeSlot, pending, reqHost, outcome, walks, callers, up>>

\* The used ones of the first k slots.
Used(k) == {i \in DOMAIN items : i < k /\ items[i] # None}

\* Where slot i goes when those of the first k slots are moved together.
NewSlot(k, i) == Cardinality({j \in Used(k) : j < i})

\* Wrong: the hash keeps pointing to the slots of before.
RehashForgotten(k) == HashWithout(DOMAIN items \ Used(k))

\* Hash.Replace() for the entries that are kept, Remove() for the others.
Rehash(k) ==
  [h \in Host |->
    IF \E i \in Used(k) : items[i] = h
    THEN NewSlot(k, CHOOSE i \in Used(k) : items[i] = h)
    ELSE HashWithout(DOMAIN items)[h]]

\* ReloadCfg() with a new number of slots: the entries of the slots that both
\* sizes have are moved to the start of the new ring, the others are dropped.
ReloadCfg(n) ==
  LET k == IF n > slots THEN slots ELSE n
      count == Cardinality(Used(k))
  IN /\ AtRest
     /\ n # slots
     /\ slots' = n
     /\ items' = [i \in 0..(n - 1) |->
                    IF i < count
                    THEN items[CHOOSE j \in Used(k) : NewSlot(k, j) = i]
                    ELSE None]
     /\ hash' = Rehash(k)
     /\ freeSlot' = IF count >= n THEN 0 ELSE count
     /\ UNCHANGED <<pending, reqHost, outcome, walks, callers, up>>

-----------------------------------------------------------------------------
(* The callers *)

\* The callback of u, for host h, finds address a in u's buffer.
CallBack(u, h, a) ==
  /\ told' = [told EXCEPT ![u] = h]
  /\ addr' = [addr EXCEPT ![u] = a]

\* The call that is executing.
Top == walks[Len(walks)]

\* The callers' code executes: an event of theirs, or a callback.
MayCall == up /\ (walks # <<>> => Top.in # None)

\* The pool may look at the resolvers: select() found them, or SendRequest() does.
MayAnswer == up /\ (walks # <<>> => Top = Sending)

\* AddPendingRequest(): u becomes the head of the chain of h.
Link(u, h) == [pending EXCEPT ![h] = <<u>> \o @]

\* AsyncResolve() of a host that is cached: FindCached() copies the address.
ResolveCached(u, h) ==
  /\ MayCall
  /\ want[u] = None
  /\ hash[h] # None
  /\ CallBack(u, h, items[hash[h]])
  /\ UNCHANGED <<cache, pending, reqHost, outcome, walks, want, late, stale, up>>

\* AsyncResolve() of an empty name: the unspecified address.
ResolveEmpty(u) ==
  /\ MayCall
  /\ want[u] = None
  /\ addr[u] # "any"
  /\ addr' = [addr EXCEPT ![u] = "any"]
  /\ told' = [told EXCEPT ![u] = None]
  /\ UNCHANGED <<cache, pending, reqHost, outcome, walks, want, late, stale, up>>

\* AddPendingRequest() tells to make a request: no one waits for h yet.
MustAsk(h) == pending[h] = <<>>

\* AsyncResolve() of a host that is not cached.  SendRequest() goes on until it returns
\* (SendReturn): the pool looks for an answer of the resolver at once.
ResolvePending(u, h) ==
  /\ MayCall
  /\ want[u] = None
  /\ hash[h] = None
  /\ want' = [want EXCEPT ![u] = h]
  /\ told' = [told EXCEPT ![u] = None]
  /\ pending' = Link(u, h)
  /\ \/ /\ ~MustAsk(h)
        /\ UNCHANGED <<reqHost, outcome, walks>>
     \/ /\ MustAsk(h)
        /\ \E r \in Request :
             /\ \A q \in Request : q < r => outcome[q] # "new"
             /\ Broker!Submit(r)
             /\ reqHost' = [reqHost EXCEPT ![r] = h]
        /\ walks' = Append(walks, Sending)
  /\ UNCHANGED <<cache, addr, late, stale, up>>

AsyncResolve(u) ==
  \/ ResolveEmpty(u)
  \/ \E h \in Host : ResolveCached(u, h) \/ ResolvePending(u, h)

\* The last call is over.
Return == SubSeq(walks, 1, Len(walks) - 1)

SendReturn ==
  /\ up
  /\ walks # <<>>
  /\ Top = Sending
  /\ walks' = Return
  /\ UNCHANGED <<cache, pending, reqHost, outcome, callers, up>>

\* The places of the chain s where u is.
PlacesOf(u, s) == {i \in DOMAIN s : s[i] = u}

\* The chain s without its i-th place.
WithoutPlace(s, i) == SubSeq(s, 1, i - 1) \o SubSeq(s, i + 1, Len(s))

\* Wrong: the head of a chain is not unlinked.
UnlinkNotHead(u, s) ==
  IF PlacesOf(u, Tail(s)) = {} THEN s
  ELSE <<Head(s)>> \o WithoutPlace(Tail(s), CHOOSE i \in PlacesOf(u, Tail(s)) : TRUE)

\* The chain s without the caller u, at the first of its places.
Unlink(u, s) ==
  IF PlacesOf(u, s) = {} THEN s
  ELSE WithoutPlace(s, CHOOSE i \in PlacesOf(u, s) : \A j \in PlacesOf(u, s) : i <= j)

\* The callers that an IPCAnswer() under way has still to call.
ToCall == {u \in Client : \E k \in DOMAIN walks : PlacesOf(u, walks[k].rest) # {}}

\* CancelRequest(): u is unlinked; the request made for the host is not recalled.  Of a chain
\* that is being called back Pending knows nothing: u is not found, and will be called.
CancelRequest(u) ==
  /\ MayCall
  /\ want[u] # None
  /\ pending' = [pending EXCEPT ![want[u]] = Unlink(u, @)]
  /\ want' = [want EXCEPT ![u] = None]
  /\ late' = late \cup ({u} \cap ToCall)
  /\ UNCHANGED <<cache, reqHost, outcome, walks, told, addr, stale, up>>

-----------------------------------------------------------------------------
(* The answers *)

\* Wrong: the chain stays in Pending while it is called back.
ForgetNothing(h) == pending

\* Pending.Remove(): the chain of h is taken out before its callbacks run.
Forget(h) == [pending EXCEPT ![h] = <<>>]

\* IPCAnswer(): the answer goes to the head of the chain and into the cache.  The
\* callbacks follow one by one (NextCallback).
IPCAnswer(r) ==
  LET h == reqHost[r]
  IN /\ MayAnswer
     /\ Broker!Finish(r, "answered")
     /\ \/ /\ pending[h] = <<>>               \* "unexpected message from child"
           /\ UNCHANGED <<cache, pending, walks, addr>>
        \/ /\ pending[h] # <<>>
           /\ pending' = Forget(h)
           /\ walks' = Append(walks, [host |-> h, rest |-> pending[h], in |-> None])
           /\ \/ /\ addr' = [addr EXCEPT ![Head(pending[h])] = h]
                 /\ Cache(h)
              \/ /\ CanFail
                 /\ addr' = [addr EXCEPT ![Head(pending[h])] = "bad"]
                 /\ UNCHANGED cache
     /\ UNCHANGED <<reqHost, want, told, late, stale, up>>

\* Wrong: only the head of the chain is called.
RestForgotten == <<>>

\* "req = next"
RestOfChain == Tail(Top.rest)

\* The loop of IPCAnswer() calls the next caller of the chain.
NextCallback ==
  /\ up
  /\ walks # <<>>
  /\ Top.in = None
  /\ Top.rest # <<>>
  /\ LET u == Head(Top.rest)
     IN /\ walks' = [walks EXCEPT ![Len(walks)] =
                       [host |-> Top.host, rest |-> RestOfChain, in |-> u]]
        /\ stale' = stale \cup (IF want[u] = Top.host THEN {} ELSE {u})
        /\ want' = [want EXCEPT ![u] = None]
        /\ told' = [told EXCEPT ![u] = Top.host]
  /\ UNCHANGED <<cache, pending, reqHost, outcome, addr, late, up>>

\* The callback returns, and the last one of a chain IPCAnswer() with it.
CallbackReturn ==
  /\ up
  /\ walks # <<>>
  /\ Top.in # None
  /\ walks' = IF Top.rest = <<>> THEN Return
              ELSE [walks EXCEPT ![Len(walks)] = [Top EXCEPT !.in = None]]
  /\ UNCHANGED <<cache, pending, reqHost, outcome, callers, up>>

\* The resolver dies with the request in its hands: no callback (ProcessGroup's
\* ReadEOF).
RequestLost(r) ==
  /\ MayAnswer
  /\ CanLose
  /\ Broker!Finish(r, "lost")
  /\ UNCHANGED <<cache, pending, reqHost, walks, callers, up>>

\* The resolver dies before it reads the request: IPCCallback() is called with a
\* NULL answer (ProcessGroup's ReadError) and IPCAnswer() follows it.
RequestFailed(r) ==
  /\ MayAnswer
  /\ CanLose
  /\ Broker!Finish(r, "failed")
  /\ up' = FALSE
  /\ UNCHANGED <<cache, pending, reqHost, walks, callers>>

-----------------------------------------------------------------------------

Next ==
  \/ \E u \in Client : AsyncResolve(u) \/ CancelRequest(u)
  \/ \E r \in Request : IPCAnswer(r) \/ RequestLost(r) \/ RequestFailed(r)
  \/ SendReturn
  \/ NextCallback
  \/ CallbackReturn
  \/ \E S \in SUBSET DOMAIN items : Flush(S)
  \/ \E n \in SlotCounts : ReloadCfg(n)

Spec == Init /\ [][Next]_vars

\* A resolver that lives answers, and the calls run to their end.
Fairness ==
  /\ WF_vars(SendReturn)
  /\ WF_vars(NextCallback)
  /\ WF_vars(CallbackReturn)
  /\ \A r \in Request : WF_vars(IPCAnswer(r) \/ RequestLost(r) \/ RequestFailed(r))

FairSpec == Spec /\ Fairness

-----------------------------------------------------------------------------
(* Safety *)

\* dnscache.cpp, Cache(), Remove() and ReloadCfg(): the hash and the ring say the
\* same, so that no host is in two slots, no entry of the hash points to a slot
\* that was reused, dropped or moved by a change of the configuration.
RingMatchesHash ==
  \A h \in Host, i \in DOMAIN items : hash[h] = i <=> items[i] = h

\* A hash entry is a slot of the ring as it is now.
HashInRing == \A h \in Host : hash[h] # None => hash[h] \in DOMAIN items

\* The variables are well typed, and ring and hash agree.
RingSound == TypeOK /\ RingMatchesHash /\ HashInRing

\* AsyncResolve() and IPCAnswer(): nobody waits for a host that is cached, however
\* cancelled, repeated and late requests for it cross.
NoWaitForCached == \A h \in Host : pending[h] # <<>> => hash[h] = None

\* u is in the chain s once at most.
Once(u, s) == \A i, j \in PlacesOf(u, s) : i = j

IsIn(u, s) == PlacesOf(u, s) # {}

\* A caller waits in one chain, once: that of the host it wants, or one for that host that is
\* being called back; and only callers that wait are in a chain.
Linked(u) ==
  /\ \A h \in Host : /\ Once(u, pending[h])
                     /\ IsIn(u, pending[h]) => want[u] = h /\ u \notin ToCall
  /\ \A k \in DOMAIN walks :
       /\ Once(u, walks[k].rest)
       /\ IsIn(u, walks[k].rest) => want[u] # None /\ want[u] = walks[k].host
       /\ \A l \in DOMAIN walks :
            IsIn(u, walks[k].rest) /\ IsIn(u, walks[l].rest) => k = l
  /\ want[u] # None => u \in ToCall \/ IsIn(u, pending[want[u]])

WaitersLinked == \A u \in Client \ late : Linked(u)

\* CancelRequest() and IPCAnswer(): no callback goes to a caller that cancelled,
\* whose userdata is gone, or that was called back already, unless it cancelled while the
\* chain it was in was being called back.
NoStaleCallback == stale \subseteq late

\* Whatever order answers, cancellations and nested calls come in, a caller that waits is
\* called back once, and no other is, but for those that cancelled too late.
ChainSound == WaitersLinked /\ NoStaleCallback

\* Somebody waits for a host only while a request for it is under way, or was lost
\* with a resolver.
WaitHasRequest ==
  \A h \in Host :
    pending[h] # <<>> =>
      \E r \in Request : reqHost[r] = h /\ outcome[r] \in {"pending", "lost", "failed"}

\* There is something to wait for, and it has not come yet.
WaitSound == NoWaitForCached /\ WaitHasRequest

\* dnscache.cpp, AddPendingRequest(): "there's no need to ask again, just wait for
\* the answer".  A caller told that its host was resolved has that host's address.
ToldTheAddress ==
  \A u \in Client : told[u] # None => addr[u] = told[u]

(* Liveness *)

\* Every caller that waits is called back or cancels, unless a resolver died.
EventuallyCalledBack ==
  \A u \in Client :
    want[u] # None ~>
      \/ want[u] = None
      \/ \E r \in Request : outcome[r] \in {"lost", "failed"}
=============================================================================
