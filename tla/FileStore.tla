----------------------------- MODULE FileStore -----------------------------
(***************************************************************************)
(* prometeo/storage.cpp, storeobj.cpp and file.cpp under the objects of    *)
(* mod_http/cacheobj.cpp: what is written goes to blocks of BufSize in     *)
(* memory, full blocks go to the disk, and a file that is closed with      *)
(* blocks left stays at the head of OpenObjs until Flush() is rid of them. *)
(*                                                                         *)
(* The file of the cache's index has no CacheObj; it is written at once    *)
(* and flushed by FlushWriteBuffers() before it is closed.                 *)
(*                                                                         *)
(* All blocks but the last are full: they are one sequence of units, the   *)
(* numbers 1, 2, ..., and "done" says how many units of the first block    *)
(* were written before.  A write may fail after any of its units.          *)
(***************************************************************************)
EXTENDS Integers, Sequences, FiniteSets, SequencesExt

CONSTANTS Cached,      \* files of objects of the cache
          Index,       \* files of the cache's index
          BufSize,     \* PROM_BUF_SIZE
          MaxOpened,   \* bounds the files that are opened
          MaxWritten,  \* bounds what is written to a file
          MaxFaults    \* bounds the writes that fail

FileStoreAssumption ==
    /\ Cached \cap Index = {}
    /\ BufSize \in Nat \ {0} /\ MaxOpened \in Nat /\ MaxWritten \in Nat /\ MaxFaults \in Nat

VARIABLE fs

File == Cached \cup Index

\* "cobj" is the CacheObj that ErrorCallback is given: it is used by the client
\* that writes, by one that reads it from the disk again, by none, or destroyed.
NoFile == [state |-> "none", pend |-> <<>>, done |-> 0, disk |-> <<>>, written |-> 0,
           writing |-> FALSE, flush |-> FALSE, quiet |-> FALSE,
           cobj |-> "none", deleted |-> FALSE, broken |-> FALSE]

Init == fs = [file |-> [o \in File |-> NoFile], open |-> <<>>,
              faults |-> 0, failed |-> FALSE, crash |-> FALSE]

Prefix(n) == [i \in 1..n |-> i]
Rest(s, n) == SubSeq(s, n + 1, Len(s))

Blocks(n) == (n + BufSize - 1) \div BufSize

-----------------------------------------------------------------------------
\* The cache's side.

\* CacheObj::Delete(): Acquire() and Release() destroy an object nobody uses.
DeleteObj(v, o) ==
    [v EXCEPT !.file[o].deleted = TRUE,
              !.file[o].quiet = @ \/ v.file[o].cobj = "writer",
              !.file[o].cobj = IF @ = "unused" THEN "gone" ELSE @]

\* Cache::Prune(): objects nobody uses go, which and how many is up to their sizes.
Prune(v) ==
    LET unused == {o \in Cached : v.file[o].cobj = "unused"}
    IN {[v EXCEPT !.file = [o \in File |-> IF o \in S THEN [@[o] EXCEPT !.cobj = "gone"] ELSE @[o]]]
        : S \in SUBSET unused \ {{}}}

-----------------------------------------------------------------------------
\* Files.

\* What HandleWrite() may write: full blocks, or all of them.
Writable(x) ==
    IF x.flush THEN Len(x.pend)
    ELSE LET n == ((x.done + Len(x.pend)) \div BufSize) * BufSize - x.done
         IN IF n > 0 THEN n ELSE 0

Wrote(x, n) ==
    [x EXCEPT !.disk = @ \o SubSeq(x.pend, 1, n), !.pend = Rest(@, n),
              !.done = IF n = Len(x.pend) THEN 0 ELSE (@ + n) % BufSize,
              !.writing = FALSE]

RECURSIVE HandleWrite(_, _, _)

\* CacheObj::WriteError(), by way of StoreObj::Callback().  While Release() gives
\* the file back, the object is not in use but still has it: what it destroys or
\* closes is used again.
WriteError(v, o, full, releasing) ==
    LET w == [v EXCEPT !.failed = TRUE]
        mine(u) == u.file[o].cobj = "gone"
        wrecked == [DeleteObj(w, o) EXCEPT !.crash = releasing]
    IN IF o \in Index THEN {w}
       ELSE IF v.file[o].cobj = "gone" THEN {[w EXCEPT !.crash = TRUE]}
       ELSE (IF full
             THEN UNION {IF releasing /\ mine(u) THEN {[u EXCEPT !.crash = TRUE]}
                         ELSE HandleWrite(u, o, releasing) : u \in Prune(w)}
             ELSE {}) \cup {wrecked}

\* Wrong: what was written before the write failed is still in the block.
HandleWriteAgain(v, o, releasing) ==
    LET x == v.file[o]
        n == Writable(x)
    IN {[v EXCEPT !.file[o] = Wrote(x, n)]}
       \cup {[v EXCEPT !.file[o] = [x EXCEPT !.writing = TRUE, !.disk = @ \o SubSeq(x.pend, 1, k)],
                       !.faults = @ + 1]
             : k \in IF v.faults < MaxFaults THEN 0..(n - 1) ELSE {}}

\* All that may be written is, or some of it until write() fails: EAGAIN has the
\* dispatcher call again.
HandleWrite(v, o, releasing) ==
    LET x == v.file[o]
        n == Writable(x)
        some(k) == [v EXCEPT !.file[o] = Wrote(x, k), !.faults = @ + 1]
    IN {[v EXCEPT !.file[o] = Wrote(x, n)]}
       \cup UNION {{[some(k) EXCEPT !.file[o].writing = TRUE]}
                   \cup WriteError(some(k), o, TRUE, releasing)
                   \cup WriteError(some(k), o, FALSE, releasing)
                   : k \in IF v.faults < MaxFaults THEN 0..(n - 1) ELSE {}}

\* EnqueueData(): is there a block more than before?
Crossed(x, n) == x.done + Len(x.pend) + n > BufSize * Blocks(IF x.pend = <<>> THEN 1 ELSE x.done + Len(x.pend))

\* File::Write()
FileWrite(v, o, n) ==
    LET x == v.file[o]
        w == [v EXCEPT !.file[o].pend = @ \o [i \in 1..n |-> x.written + i],
                       !.file[o].written = @ + n]
    IN IF Crossed(x, n) /\ ~x.writing THEN HandleWrite(w, o, FALSE) ELSE {w}

\* FlushWriteBuffers( true ): the last block first, whatever write() says.
Reversed(x) ==
    LET first == BufSize - x.done
        n     == Blocks(x.done + Len(x.pend))
        at(b) == IF b = 1 THEN 0 ELSE first + BufSize * (b - 2)
        block(b) == SubSeq(x.pend, at(b) + 1,
                           IF at(b + 1) < Len(x.pend) THEN at(b + 1) ELSE Len(x.pend))
    IN FlattenSeq([b \in 1..n |-> block(n + 1 - b)])

FlushWriteBuffers(v, o) ==
    LET x == v.file[o]
        all == Reversed(x)
        flushed(n) == [v EXCEPT !.file[o].disk = @ \o SubSeq(all, 1, n),
                                !.file[o].pend = <<>>, !.file[o].done = 0]
    IN {[flushed(Len(all)) EXCEPT !.file[o].broken = Blocks(x.done + Len(x.pend)) > 1]}
       \cup {[flushed(n) EXCEPT !.file[o].broken = TRUE, !.faults = @ + 1]
             : n \in IF v.faults < MaxFaults THEN 0..(Len(all) - 1) ELSE {}}

Gone(v, o) == [v EXCEPT !.file[o].state = "closed", !.file[o].writing = FALSE,
                        !.open = SelectSeq(@, LAMBDA p : p # o)]

\* File::Close() of a file with blocks left, which writes them, unless the
\* dispatcher is going to.
Flushing(v, o, releasing) ==
    LET w == [v EXCEPT !.file[o].flush = TRUE]
    IN IF w.file[o].writing THEN {w} ELSE HandleWrite(w, o, releasing)

\* Storage::Close(): a file with blocks left, even if it writes them here, waits
\* at the head of the list.
Close(v, o) ==
    IF v.file[o].pend = <<>> THEN {Gone(v, o)}
    ELSE {IF w.crash THEN w
          ELSE [w EXCEPT !.file[o].state = "closing",
                         !.open = <<o>> \o SelectSeq(@, LAMBDA p : p # o)]
          : w \in Flushing(v, o, TRUE)}

-----------------------------------------------------------------------------
\* The steps of the daemon.

\* Cache::Create(), or WriteIndex().
Create(o) ==
    /\ fs.file[o].state = "none"
    /\ Cardinality({p \in File : fs.file[p].state # "none"}) < MaxOpened
    /\ fs' = [fs EXCEPT !.file[o] = [NoFile EXCEPT !.state = "open",
                                                   !.cobj = IF o \in Cached THEN "writer" ELSE "none"],
                        !.open = Append(@, o)]

\* StoreObj::Write()
Write(o, n) ==
    /\ fs.file[o].state = "open" /\ ~fs.file[o].quiet
    /\ fs.file[o].written + n <= MaxWritten
    /\ fs' \in FileWrite(fs, o, n)

\* WriteIndex() when all is written.
CloseIndex(o) ==
    /\ o \in Index /\ fs.file[o].state = "open"
    /\ fs' \in UNION {Close(v, o) : v \in FlushWriteBuffers(fs, o)}

\* CacheObj::Release() by the last client that uses the object.
Release(o) ==
    /\ fs.file[o].cobj = "writer"
    /\ LET v == [fs EXCEPT !.file[o].cobj = IF fs.file[o].deleted THEN "gone" ELSE "unused"]
       IN fs' \in IF fs.file[o].deleted
                  THEN UNION {Close(w, o) : w \in FlushWriteBuffers(v, o)}
                  ELSE Close(v, o)

\* GetStoreObj(): Storage::Find() never finds a file, Open() reads what is on disk.
Hit(o) ==
    /\ fs.file[o].cobj = "unused"
    /\ fs' = [fs EXCEPT !.file[o].cobj = "reader"]

Leave(o) ==
    /\ fs.file[o].cobj = "reader"
    /\ fs' = [fs EXCEPT !.file[o].cobj = IF fs.file[o].deleted THEN "gone" ELSE "unused"]

PruneTimer == fs' \in Prune(fs)

\* The dispatcher finds the file writable.
WriteReady(o) ==
    /\ fs.file[o].writing
    /\ fs' \in HandleWrite(fs, o, FALSE)

IsClosing(v, o) == v.file[o].state = "closing"

\* The closing files, up to the first that is not.
ClosingPrefix(v) ==
    LET n == SelectInSeq(v.open, LAMBDA o : ~IsClosing(v, o))
    IN IF n = 0 THEN v.open ELSE SubSeq(v.open, 1, n - 1)

\* Storage::Flush(), OnTimer().
Flush ==
    /\ ClosingPrefix(fs) # <<>>
    /\ fs' \in FoldLeft(LAMBDA S, o : UNION {IF v.crash THEN {v}
                                            ELSE IF v.file[o].pend = <<>> THEN {Gone(v, o)}
                                            ELSE Flushing(v, o, FALSE) : v \in S},
                        {fs}, ClosingPrefix(fs))

Next ==
    /\ ~fs.crash
    /\ \/ \E o \in File : \/ Create(o) \/ (\E n \in 1..MaxWritten : Write(o, n))
                          \/ CloseIndex(o) \/ Release(o)
                          \/ Hit(o) \/ Leave(o) \/ WriteReady(o)
       \/ PruneTimer \/ Flush

\* The timer runs, and the dispatcher calls.
Working == ~fs.crash /\ (Flush \/ \E o \in File : WriteReady(o))

-----------------------------------------------------------------------------
\* file.cpp, HandleWrite() and Close(): a file has what was written to it, in
\* order and up to some point, and all of it when it is closed; but one flushed
\* by FlushWriteBuffers() after a write has failed has its blocks in reverse.
FilesExact ==
    \A o \in File :
        LET x == fs.file[o]
        IN x.broken \/ /\ x.disk = Prefix(Len(x.disk))
                       /\ x.disk \o x.pend = Prefix(x.written)
                       /\ x.state = "closed" => x.pend = <<>>

\* cacheobj.cpp, GetStoreObj(): an object that is read from the disk again has all
\* that was written, but while its file is closing.
ReadWhole ==
    \A o \in Cached : LET x == fs.file[o]
                      IN x.cobj = "reader" => x.state = "closing" \/ x.disk = Prefix(x.written)

\* storage.cpp, Flush(): no closing file is behind one that is open.
ClosingFirst ==
    /\ ToSet(fs.open) = {o \in File : fs.file[o].state \in {"open", "closing"}}
    /\ ToSet(ClosingPrefix(fs)) = {o \in File : IsClosing(fs, o)}

\* cacheobj.cpp, WriteError(): without an error of the disk, no file calls an
\* object that was destroyed.
CrashCaused == fs.crash => fs.failed

FilesRight == FilesExact /\ ReadWhole /\ (fs.crash \/ ClosingFirst) /\ CrashCaused

NoneClosing == fs.crash \/ \A o \in File : ~IsClosing(fs, o)
=============================================================================
