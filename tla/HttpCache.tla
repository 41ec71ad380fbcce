------------------------------ MODULE HttpCache ------------------------------
(***************************************************************************)
(* The disk cache of the HTTP proxy: Cache and CacheObj (mod_http/cache.cpp*)
(* and cacheobj.cpp) over the storage (prometeo/storage.cpp, storeobj.cpp  *)
(* and file.cpp), with the clients of mod_http/mod_http.cpp that use them. *)
(*                                                                         *)
(* A client whose request misses the cache downloads the body into a new   *)
(* object; others that ask for the same resource meanwhile listen to it.   *)
(* Every piece is appended to the object in memory, sent to the listeners  *)
(* and written to a file; an object without users keeps only its file, and *)
(* is loaded from it when it is wanted again.  Objects that nobody uses    *)
(* are pruned, the least recently used first, when the cache is too large. *)
(* An index is written from time to time, and read by the next daemon.     *)
(*                                                                         *)
(* The daemon has one thread and nothing here blocks: what a socket, a     *)
(* timer or a signal sets off is one action, with every nested call it     *)
(* makes.  The pieces of a body are of length 1, and carry the number of   *)
(* the download they belong to.                                            *)
(***************************************************************************)
EXTENDS Naturals, Sequences, FiniteSets, FiniteSetsExt, SequencesExt

CONSTANTS
  Id,             \* what HTTP::GetEntityID() returns
  Client,         \* the HTTPData of the clients
  MaxDownloads,   \* bounds the objects created
  MaxLength,      \* bounds the pieces of a body
  MaxSize,        \* Cache::MaxSize
  MaxObjectSize,  \* HTTPProxy::MaxObjectSize
  MaxEvents,      \* bounds the ends of the daemon and its forks, together
  None,           \* no id, no object
  Freed           \* an object that was destroyed

ASSUME HttpCacheAssumption ==
  /\ IsFiniteSet(Client)
  /\ {MaxDownloads, MaxLength, MaxSize, MaxObjectSize, MaxEvents} \subseteq Nat
  /\ {None, Freed} \cap (Id \cup Client \cup Nat) = {}
  /\ None # Freed

Obj      == 1..MaxDownloads
Download == 1..MaxDownloads

\* The contents of a file: for each piece the download it is of, 0 in a hole.
Content == Seq(0..MaxDownloads)

VARIABLES
  cache,     \* the objects, their files and the accounts: a record, see below
  index,     \* the entries of cache.idx
  client,    \* the HTTPData: a record for each client, see below
  down,      \* downloads so far
  length,    \* length[d]: the length of the whole body of d, None if it failed
  events,    \* how often the daemon ended, or another part of it forked
  failed,    \* a write has failed
  torn,      \* ids whose object or file may be incomplete, and why is known
  forked,    \* ids that had something to write when the daemon forked
  cut        \* other ids of which a client was told the end of an incomplete body

history == <<length, events, failed, torn, forked, cut>>
vars    == <<cache, index, client, down, history>>

\* A CacheObj, with the StoreObj of its ObjFile.
CacheObj ==
  [ id      : Id \cup {None},     \* ID, and so FileName; None when it is free
    ref     : 0..(Cardinality(Client) + 1),
    size    : Nat,                \* Size
    deleted : BOOLEAN,            \* PROM_CACHEOBJF_DELETE
    tag     : 0..MaxDownloads,    \* the download that writes it
    fd      : 0..MaxDownloads,    \* the file ObjFile has open, 0 if ObjFile is NULL
    avail   : Content,            \* Data and AvailSize
    reading : BOOLEAN,            \* PROM_STOREF_READING
    quiet   : BOOLEAN,            \* PROM_STOREF_DONT_WRITE
    out     : Nat,                \* pieces that have left the write buffers
    off     : Nat,                \* the offset of its open file
    lis     : SUBSET Client ]     \* Listeners

Free == [id |-> None, ref |-> 0, size |-> 0, deleted |-> FALSE, tag |-> 0, fd |-> 0,
         avail |-> <<>>, reading |-> FALSE, quiet |-> FALSE, out |-> 0, off |-> 0,
         lis |-> {}]

NoClient == [state |-> "idle", id |-> None, obj |-> None, got |-> <<>>]

ClientState == {"idle", "fetch", "down", "orphan", "body", "closing"}

Cache ==
  [ obj      : [Obj -> CacheObj],
    hash     : [Id -> Obj \cup {None, Freed}],   \* Hash
    lru      : Seq(Obj),                           \* Objects
    size     : Nat,                                \* Storage::Size
    modified : BOOLEAN,                            \* Modified
    name     : [Id -> 0..MaxDownloads],            \* the file with that name
    disk     : [Download -> Content] ]             \* the contents of files

HTTPData ==
  [ state : ClientState,
    id    : Id \cup {None},
    obj   : Obj \cup {None},   \* Cached
    got   : Content ]         \* what was sent of the body

TypeOK ==
  /\ cache \in Cache
  /\ index \in Seq([id : Id, size : Nat])
  /\ client \in [Client -> HTTPData]
  /\ down \in 0..MaxDownloads
  /\ length \in [Download -> Nat \cup {None}]
  /\ events \in 0..MaxEvents
  /\ torn \in SUBSET Id
  /\ forked \in SUBSET Id
  /\ cut \in SUBSET Id
  /\ failed \in BOOLEAN

EmptyCache ==
  [ obj      |-> [o \in Obj |-> Free],
    hash     |-> [i \in Id |-> None],
    lru      |-> <<>>,
    size     |-> 0,
    modified |-> FALSE,
    name     |-> [i \in Id |-> 0],
    disk     |-> [d \in Download |-> <<>>] ]

Init ==
  /\ cache = EmptyCache
  /\ index = <<>>
  /\ client = [u \in Client |-> NoClient]
  /\ down = 0
  /\ length = [d \in Download |-> None]
  /\ events = 0
  /\ failed = FALSE
  /\ torn = {}
  /\ forked = {}
  /\ cut = {}

-----------------------------------------------------------------------------
(* Files *)

\* n pieces of download d are written to file s at an offset.
Overwrite(s, off, n, d) ==
  [i \in 1..Max({Len(s), off + n}) |->
     IF i > off /\ i <= off + n THEN d ELSE IF i <= Len(s) THEN s[i] ELSE 0]

\* File::HandleWrite(): the buffers of o up to piece n are written.
WriteOut(c, o, n) ==
  LET x == c.obj[o]
  IN IF x.fd = 0 \/ n <= x.out THEN c
     ELSE [c EXCEPT !.disk[x.fd] = Overwrite(@, x.off, n - x.out, x.tag),
                    !.obj[o].out = n,
                    !.obj[o].off = @ + n - x.out]

\* What is left of an object whose file is closed: nothing is in memory.
Closed(x) == [Free EXCEPT !.id = x.id, !.ref = x.ref, !.size = x.size, !.deleted = x.deleted]

\* Wrong: what is still in the buffers is discarded, as in ~File().
CloseDiscards(c, o) == [c EXCEPT !.obj[o] = Closed(@)]

\* StoreObj::Release() and Storage::Close(): the buffers are written, the file is closed.
CloseFile(c, o) ==
  [WriteOut(c, o, IF c.obj[o].tag = 0 THEN 0 ELSE c.obj[o].size) EXCEPT !.obj[o] = Closed(@)]

\* Storage::Open() and StoreObj::Load(), when the file exists.
Load(c, o) ==
  LET f == c.name[c.obj[o].id]
  IN [c EXCEPT !.obj[o] = [@ EXCEPT !.fd = f, !.avail = c.disk[f]]]

-----------------------------------------------------------------------------
(* Objects *)

\* The sequence s without what is not in S.
Kept(s, S) ==
  LET upTo[n \in 0..Len(s)] ==
        IF n = 0 THEN <<>>
        ELSE IF s[n] \in S THEN Append(upTo[n - 1], s[n]) ELSE upTo[n - 1]
  IN upTo[Len(s)]

Without(s, o) == Kept(s, Obj \ {o})

\* "delete this": the object leaves the list of objects, not the hash.
Destroy(c, o) ==
  [c EXCEPT !.obj[o] = Free,
            !.lru = Without(@, o),
            !.hash = [i \in Id |-> IF c.hash[i] = o THEN Freed ELSE c.hash[i]]]

\* Wrong: a deleted object that nobody uses any more is kept.
ReleaseKeeps(c, o, n) ==
  LET d == [c EXCEPT !.obj[o].ref = @ - n]
  IN IF d.obj[o].ref > 0 THEN d ELSE CloseFile(d, o)

\* CacheObj::Release(), n times.
Release(c, o, n) ==
  LET d == [c EXCEPT !.obj[o].ref = @ - n]
      e == CloseFile(d, o)
  IN IF d.obj[o].ref > 0 THEN d
     ELSE IF d.obj[o].deleted THEN Destroy(e, o) ELSE e

\* CacheObj::Delete(): an object nobody uses is destroyed at once.
DeleteObj(c, o) ==
  LET d == [c EXCEPT !.obj[o].deleted = TRUE,
                     !.obj[o].quiet = (@ \/ c.obj[o].fd # 0)]
  IN IF c.obj[o].ref = 0 THEN Destroy(d, o) ELSE d

\* Wrong: the hash is left alone.
DeleteKeepsHash(c, o) ==
  LET d == [c EXCEPT !.name[c.obj[o].id] = 0,
                     !.size = @ - c.obj[o].size,
                     !.modified = TRUE]
  IN IF c.obj[o].deleted THEN c ELSE DeleteObj(d, o)

\* Cache::Delete()
Delete(c, o) ==
  LET i == c.obj[o].id
      d == [c EXCEPT !.name[i] = 0,
                     !.size = @ - c.obj[o].size,
                     !.hash[i] = None,
                     !.modified = TRUE]
  IN IF c.obj[o].deleted THEN c ELSE DeleteObj(d, o)

\* The object that Create() and LoadIndex() allocate.
Fresh(c) == Min({o \in Obj : c.obj[o].id = None})

\* StrHash::Add() does nothing when the id is there.
HashAdd(c, i, o) == [c EXCEPT !.hash[i] = IF @ = None THEN o ELSE @]

\* Cache::Create() for download d.  A file that has the name already is truncated;
\* whoever has it open goes on with the same file.
Create(c, i, d) ==
  LET o == Fresh(c)
      f == IF c.name[i] = 0 THEN d ELSE c.name[i]
      x == [Free EXCEPT !.id = i, !.ref = 1, !.tag = d, !.fd = f, !.reading = TRUE]
  IN HashAdd([c EXCEPT !.obj[o] = x,
                       !.lru = Append(@, o),
                       !.modified = TRUE,
                       !.name[i] = f,
                       !.disk[f] = <<>>], i, o)

\* Cache::Find() acquires the object and makes it the last of the list.
Acquire(c, o) ==
  [c EXCEPT !.obj[o].ref = @ + 1,
            !.lru = Append(Without(@, o), o)]

\* IsInUse() and IsDeleted() are false.
Prunable(x) == x.ref = 0 /\ ~x.deleted

\* Cache::Prune(): from the least recently used on, while the cache is too large.
Prune(c) ==
  LET upTo[n \in 0..Len(c.lru)] ==
        IF n = 0 THEN c
        ELSE IF upTo[n - 1].size > MaxSize /\ Prunable(c.obj[c.lru[n]])
        THEN Delete(upTo[n - 1], c.lru[n]) ELSE upTo[n - 1]
  IN upTo[Len(c.lru)]

-----------------------------------------------------------------------------
(* The clients *)

\* Nobody will notice what happens to a client from here on but in "client".
Quiet == UNCHANGED <<index, down, history>>

\* What was sent is the body of one download, from its first piece to its last.
IsWhole(b) ==
  \E d \in Download : length[d] # None /\ b = [i \in 1..length[d] |-> d]

\* "Cached" is given back, and the HTTPData freed or ready for another request.
Leave(cl, S) == [u \in Client |-> IF u \in S THEN NoClient ELSE cl[u]]

\* The client has what it asked for and goes when all is written: Cached is kept.
Linger(cl, S) ==
  [u \in Client |-> IF u \in S THEN [cl[u] EXCEPT !.state = "closing", !.got = <<>>] ELSE cl[u]]

\* ResetConnection() for client u with object o, now or when all is written.
Finish(c, u, o) ==
  \/ /\ cache' = Release(c, o, 1)
     /\ client' = Leave(client, {u})
  \/ /\ cache' = c
     /\ client' = [client EXCEPT ![u] = [NoClient EXCEPT !.state = "closing", !.obj = o]]

\* SendFromCache(): the object is loaded if it is only on disk; what there is of it
\* is sent, and the end too unless it is still being received.  A client that kept an
\* object others have deleted may send a broken body, or load the file of a new one.
SendFromCache(c, u, o, head) ==
  LET i == c.obj[o].id
      d == IF c.obj[o].fd = 0 /\ c.name[i] # 0 THEN Load(c, o) ELSE c
      x == d.obj[o]
      lost == IF x.deleted THEN torn \cup {i} ELSE torn
  IN IF x.fd = 0
     THEN Finish(d, u, o) /\ Quiet
     ELSE IF x.reading /\ ~head
     THEN /\ cache' = [d EXCEPT !.obj[o].lis = @ \cup {u}]
          /\ client' = [client EXCEPT ![u] = [state |-> "body", id |-> i, obj |-> o,
                                              got |-> x.avail]]
          /\ Quiet
     ELSE /\ Finish(d, u, o)
          /\ torn' = lost
          /\ cut' = IF head \/ IsWhole(x.avail) \/ i \in lost THEN cut ELSE cut \cup {i}
          /\ UNCHANGED <<index, down, length, events, failed, forked>>

\* Handle_GET_HEAD() finds nothing and asks the server.
Miss(u, i) ==
  /\ cache.hash[i] = None
  /\ client' = [client EXCEPT ![u] = [NoClient EXCEPT !.state = "fetch", !.id = i]]
  /\ UNCHANGED cache
  /\ Quiet

\* It finds an object that is stale, or that the client wants validated.
Stale(u, i) ==
  /\ cache.hash[i] \in Obj
  /\ cache' = Acquire(cache, cache.hash[i])
  /\ client' = [client EXCEPT ![u] = [NoClient EXCEPT !.state = "fetch", !.id = i,
                                                      !.obj = cache.hash[i]]]
  /\ Quiet

\* It finds a fresh one, and sends it.
Hit(u, i) ==
  /\ cache.hash[i] \in Obj
  /\ \E head \in BOOLEAN :
       SendFromCache(Acquire(cache, cache.hash[i]), u, cache.hash[i], head)

\* It finds a fresh one, but the client has it already, or has a condition it fails.
NotModified(u, i) ==
  /\ cache.hash[i] \in Obj
  /\ Finish(Acquire(cache, cache.hash[i]), u, cache.hash[i])
  /\ Quiet

\* Handle_GET_HEAD() acquires what the hash has.  When it has an object that was destroyed,
\* the daemon ends by accident, if it does not go on with what the memory has become.
Request(u, i) ==
  /\ client[u] = NoClient
  /\ Miss(u, i) \/ Stale(u, i) \/ Hit(u, i) \/ NotModified(u, i)

Fetching(u) == client[u].state = "fetch"

\* The server says 304, or closes the connection before it says anything.
Revalidated(u) ==
  /\ Fetching(u)
  /\ client[u].obj # None
  /\ \E head \in BOOLEAN : SendFromCache(cache, u, client[u].obj, head)

\* ForwardResponse(), SendError(), or the client goes: the object is given back.
Forward(u) ==
  /\ Fetching(u)
  /\ cache' = IF client[u].obj = None THEN cache ELSE Release(cache, client[u].obj, 1)
  /\ client' = Leave(client, {u})
  /\ Quiet

\* DownloadAndCache() deletes the object that the new one replaces.
Replaced(c, u) ==
  IF client[u].obj = None THEN c
  ELSE Release(Delete(c, client[u].obj), client[u].obj, 1)

\* The objects that share id i and its file.
Sharers(c, i) == {o \in Obj : c.obj[o].id = i /\ ~c.obj[o].deleted}

\* DownloadAndCache() of a cacheable body.
DownloadAndCache(u) ==
  /\ Fetching(u)
  /\ down < MaxDownloads
  /\ LET i == client[u].id
         c == Replaced(cache, u)
         o == Fresh(c)
     IN /\ cache' = [Create(c, i, down + 1) EXCEPT !.obj[o].lis = {u}]
        /\ client' = [client EXCEPT ![u] = [state |-> "down", id |-> i, obj |-> o, got |-> <<>>]]
        /\ torn' = IF Sharers(c, i) = {} THEN torn ELSE torn \cup {i}
  /\ down' = down + 1
  /\ UNCHANGED <<index, length, events, failed, forked, cut>>

\* DownloadAndCache() of a body that is not.
DownloadOnly(u) ==
  /\ Fetching(u)
  /\ client[u].obj # None
  /\ cache' = Replaced(cache, u)
  /\ client' = Leave(client, {u})
  /\ Quiet

Downloading(u) == client[u].state \in {"down", "orphan"}

\* StoreObj::Write(): the listeners are notified, and the first that finds the object
\* too large deletes it.
Notify(c, o, d) ==
  LET e == [c EXCEPT !.obj[o].avail = Append(@, d)]
  IN IF c.obj[o].size > MaxObjectSize THEN Delete(e, o) ELSE e

\* SendBodyData() to the listeners whose clients are there.
Sent(S, d) ==
  [u \in Client |-> IF u \in S /\ client[u].state # "orphan"
                    THEN [client[u] EXCEPT !.got = Append(@, d)] ELSE client[u]]

\* The rest of CacheObj::Write(), with n more pieces written to disk.
Written(c, o, n) ==
  LET x == c.obj[o]
      e == [c EXCEPT !.size = @ + 1, !.obj[o].size = @ + 1]
  IN IF x.quiet THEN c ELSE WriteOut(e, o, x.out + n)

\* WriteError(): without success from Prune() the object is deleted, yet not from
\* the hash, nor its size from that of the cache.
WriteError(c, o) == [DeleteObj(c, o) EXCEPT !.size = @ + 1]

\* HandleBody(), len > 0.
Chunk(u) ==
  LET o == client[u].obj
      d == cache.obj[o].tag
      c == Notify(cache, o, d)
      left == IF c.obj[o].quiet THEN 0 ELSE c.obj[o].size + 1 - c.obj[o].out
  IN /\ Downloading(u)
     /\ Len(cache.obj[o].avail) < MaxLength
     /\ client' = Sent(cache.obj[o].lis, d)
     /\ \/ /\ \E n \in 0..left : cache' = Written(c, o, n)
           /\ UNCHANGED <<failed, torn>>
        \/ /\ left > 0                          \* the disk is full: Prune() helps
           /\ Prune(c) # c
           /\ cache' = Written(Prune(c), o, left)
           /\ UNCHANGED <<failed, torn>>
        \/ /\ left > 0                          \* or not
           /\ \E e \in {c, Prune(c)} : cache' = WriteError(e, o)
           /\ failed' = TRUE
           /\ torn' = torn \cup {client[u].id}
     /\ UNCHANGED <<index, down, length, events, forked, cut>>

\* StoreObj::WriteComplete( true ): the listeners have all of the body.  The object
\* goes when each has gone, at once or (K) when all is written.
BodyEnd(u) ==
  LET o == client[u].obj
      x == cache.obj[o]
      c == [cache EXCEPT !.obj[o].reading = FALSE, !.obj[o].lis = {}]
  IN /\ Downloading(u)
     /\ \E K \in SUBSET {v \in x.lis : client[v].state # "orphan"} :
          /\ cache' = Release(c, o, Cardinality(x.lis \ K))
          /\ client' = Linger(Leave(client, x.lis \ K), K)
     /\ length' = [length EXCEPT ![x.tag] = Len(x.avail)]
     /\ UNCHANGED <<index, down, events, failed, torn, forked, cut>>

\* StoreObj::WriteComplete( false ): the listeners delete the object and break off.
BodyBad(u) ==
  LET o == client[u].obj
      x == cache.obj[o]
      c == [cache EXCEPT !.obj[o].reading = FALSE, !.obj[o].lis = {}]
  IN /\ Downloading(u)
     /\ \E K \in SUBSET {v \in x.lis : client[v].state # "orphan"} :
          /\ cache' = Release(Delete(c, o), o, Cardinality(x.lis \ K))
          /\ client' = Linger(Leave(client, x.lis \ K), K)
     /\ Quiet

\* CloseClientSocket() and FreeHTTPData(): the client listens no more, and gives back "Cached".
\* Nothing of its socket waits to be sent: it has failed, or all has been written.
Away(u) ==
  LET o == client[u].obj
  IN /\ cache' = Release([cache EXCEPT !.obj[o].lis = @ \ {u}], o, 1)
     /\ client' = Leave(client, {u})

\* The client of a download goes, and IsCacheable() is true: only its part of it ends.
Orphaned(u) ==
  /\ client[u].state = "down"
  /\ client' = [client EXCEPT ![u] = [@ EXCEPT !.state = "orphan", !.got = <<>>]]
  /\ UNCHANGED cache
  /\ Quiet

\* IsCacheable() is false by now, for the size of a chunk has become that of the body, or the
\* filters or MaxObjectSize were changed: the server's socket is closed without a word to the
\* object, which stays in the hash as far as it came.  Its other listeners wait.
BrokenOff(u) ==
  /\ client[u].state = "down"
  /\ Away(u)
  /\ torn' = torn \cup {client[u].id}
  /\ UNCHANGED <<index, down, length, events, failed, forked, cut>>

\* One that is sent an object, or waits for the rest to be written, goes.
Departed(u) ==
  /\ client[u].state \in {"body", "closing"}
  /\ Away(u)
  /\ Quiet

\* The client's connection fails, times out or is done with.
ClientGone(u) == Orphaned(u) \/ BrokenOff(u) \/ Departed(u)

-----------------------------------------------------------------------------
(* Timers, and the end of the daemon *)

\* OnTimer(), INTERVAL_PRUNE
PruneTimer ==
  /\ Prune(cache) # cache
  /\ cache' = Prune(cache)
  /\ UNCHANGED <<client, index, down, history>>

\* CacheObj::IsComplete() looks for the object by a name that no open file has.
IsComplete(c, o) == TRUE

Indexed(c) == Kept(c.lru, {o \in Obj : IsComplete(c, o) /\ ~c.obj[o].deleted})

\* The index that WriteIndex() writes, when something was modified.
NewIndex(c) ==
  IF ~c.modified THEN index
  ELSE [n \in DOMAIN Indexed(c) |->
          [id |-> c.obj[Indexed(c)[n]].id, size |-> c.obj[Indexed(c)[n]].size]]

\* "allsaved"
AllSaved(c) == Len(Indexed(c)) = Len(c.lru)

\* OnTimer(), INTERVAL_INDEX
WriteIndex ==
  /\ cache.modified
  /\ index' = NewIndex(cache)
  /\ cache' = [cache EXCEPT !.modified = ~AllSaved(cache)]
  /\ UNCHANGED <<client, down, history>>

Users(o) == {u \in Client : client[u].obj = o}

\* Cleanup() gives back what every client has.
Cleanup(c) ==
  LET upTo[n \in 0..MaxDownloads] ==
        IF n = 0 THEN c
        ELSE IF Users(n) = {} THEN upTo[n - 1]
        ELSE Release(upTo[n - 1], n, Cardinality(Users(n)))
  IN upTo[MaxDownloads]

\* LoadIndex(), with the files as the last daemon left them.
LoadIndex(c, entries) ==
  LET n == Len(entries)
      first(i) == {k \in 1..n : entries[k].id = i}
  IN [ obj      |-> [o \in Obj |-> IF o <= n THEN [Free EXCEPT !.id = entries[o].id,
                                                               !.size = entries[o].size]
                                   ELSE Free],
       hash     |-> [i \in Id |-> IF first(i) = {} THEN None ELSE Min(first(i))],
       lru      |-> [o \in 1..n |-> o],
       size     |-> SumFunctionOnSet([k \in 1..n |-> entries[k].size], 1..n),
       modified |-> FALSE,
       name     |-> c.name,
       disk     |-> c.disk ]

\* Some pieces of o are still in its write buffers.
Pending(o) == cache.obj[o].tag # 0 /\ cache.obj[o].out < cache.obj[o].size

\* The ids whose files miss a part when the daemon ends.
Unfinished ==
  {i \in Id : \E o \in Obj : /\ cache.obj[o].id = i
                            /\ (cache.obj[o].reading \/ Pending(o))}

\* The daemon ends while it writes the index, which Open() has truncated: of the objects only
\* the first are in it.  What LoadIndex() makes of the missing ones nobody asks for.
IndexCut(c) ==
  /\ c.modified
  /\ \E n \in 0..Len(NewIndex(c)) :
       /\ index' = SubSeq(NewIndex(c), 1, n)
       /\ cache' = LoadIndex(c, index')

\* The daemon ends, by Cleanup() or by accident, and another starts.  One accident is that
\* the last buffers of an object cannot be written when it is closed: WriteError() has the
\* object delete itself and its file, which Storage::Close() and Release() go on with.
Restart ==
  /\ events < MaxEvents
  /\ events' = events + 1
  /\ torn' = torn \cup Unfinished
  /\ client' = [u \in Client |-> NoClient]
  /\ \/ /\ index' = NewIndex(Cleanup(cache))
        /\ cache' = LoadIndex(Cleanup(cache), index')
     \/ /\ UNCHANGED index
        /\ cache' = LoadIndex(cache, index)
     \/ IndexCut(cache)                        \* by WriteIndex()
     \/ IndexCut(Cleanup(cache))
  /\ failed' = FALSE
  /\ UNCHANGED <<down, length, forked, cut>>

\* OnFork(), in the child: what Cleanup() gives back there is closed, and written, there.
\* The parent has the same buffers, and the same offset in the same files.
Fork ==
  /\ events < MaxEvents
  /\ events' = events + 1
  /\ LET child == Cleanup(cache)
     IN /\ index' = NewIndex(child)
        /\ cache' = [cache EXCEPT
             !.disk = child.disk,
             !.obj = [o \in Obj |->
                        IF ~Pending(o) THEN cache.obj[o]
                        ELSE [cache.obj[o] EXCEPT !.off = @ + cache.obj[o].size - cache.obj[o].out]]]
  /\ forked' = forked \cup {i \in Id : \E o \in Obj : cache.obj[o].id = i /\ Pending(o)}
  /\ UNCHANGED <<client, down, length, failed, torn, cut>>

-----------------------------------------------------------------------------

ClientSteps(u) ==
  \/ \E i \in Id : Request(u, i)
  \/ Revalidated(u)
  \/ Forward(u)
  \/ DownloadAndCache(u)
  \/ DownloadOnly(u)
  \/ Chunk(u)
  \/ BodyEnd(u)
  \/ BodyBad(u)
  \/ ClientGone(u)

Next ==
  \/ \E u \in Client : ClientSteps(u)
  \/ PruneTimer
  \/ WriteIndex
  \/ Restart
  \/ Fork

Spec == Init /\ [][Next]_vars

-----------------------------------------------------------------------------
(* Safety *)

Live == {o \in Obj : cache.obj[o].id # None}

\* cacheobj.cpp, Acquire() and Release(): an object counts exactly the clients that
\* have it, so that none uses one that was destroyed, and one that nobody uses has
\* no file open and is not kept once deleted.
RefsAreUsers ==
  /\ \A u \in Client : client[u].obj # None => client[u].obj \in Live
  /\ \A o \in Live :
       /\ cache.obj[o].ref = Cardinality(Users(o))
       /\ Users(o) = {} => cache.obj[o].fd = 0 /\ ~cache.obj[o].deleted

\* storeobj.cpp, Write() and NotifyListeners(): whoever joins a download half-way
\* has, at any time, exactly what has arrived of the body, no piece twice or never.
ListenersInStep ==
  \A u \in Client :
    LET has == {o \in Live : u \in cache.obj[o].lis}
    IN IF client[u].state \in {"down", "body", "orphan"}
       THEN /\ has = {client[u].obj}
            /\ cache.obj[client[u].obj].reading
            /\ client[u].state # "orphan" => client[u].got = cache.obj[client[u].obj].avail
       ELSE has = {}

\* An object that several clients use is there for each of them, as long and as far as
\* each of them needs.
SharedSound == TypeOK /\ RefsAreUsers /\ ListenersInStep

\* cache.cpp, Create() and Delete(): the hash has no object that was deleted, and the
\* list has every object once, unless a write failed.
HashSound ==
  /\ ToSet(cache.lru) = Live /\ Len(cache.lru) = Cardinality(Live)
  /\ \A i \in Id :
       LET o == cache.hash[i]
       IN o # None => \/ failed
                      \/ o \in Live /\ cache.obj[o].id = i /\ ~cache.obj[o].deleted

\* The sizes of the objects that are not deleted.
Accounted ==
  SumFunctionOnSet([o \in Obj |-> cache.obj[o].size], {o \in Live : ~cache.obj[o].deleted})

\* cache.cpp, Prune() of the debugging build: "size mismatch".
SizesMatch == cache.size = Accounted

\* The size of the cache never falls short of its objects, so that the limit holds,
\* and matches them unless a write failed.
OnlyErrorsLeak == cache.size >= Accounted /\ (failed \/ SizesMatch)

\* cache.cpp, WriteIndex(): when nothing is to be written, the index names the objects
\* there are, unless a write failed.
IndexCurrent ==
  (~cache.modified /\ ~failed) =>
    {index[n].id : n \in DOMAIN index} = {cache.obj[o].id : o \in Live}

\* The cache's books agree: the hash, the list, the sizes and the index.
BooksSound == HashSound /\ OnlyErrorsLeak /\ IndexCurrent

\* A client that is told it has all of a body has all of it, and of one body, but for
\* resources that two clients downloaded at a time, or that were being downloaded when the
\* daemon ended, a write failed or a process was forked, or their client went and they were
\* not cacheable any more, or that were deleted while they were validated.
ServedWhole == cut \subseteq forked

\* api.h, OnFork: in the child the module frees resources.  So a fork does not change what
\* the clients of the parent are told.
ForkFrees == cut = {}
=============================================================================
