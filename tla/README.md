# TLA+ models of Prometeo

Prometeo is a modular proxy daemon (HTTP, SOCKS5, FTP, POP3, SSL, plain tunnels)
in C++: one single-threaded, event driven process that runs on `select()`, a set
of helper processes it forks, and plugins it loads with libltdl. This directory
holds TLA+ specifications of its parts, TLC configurations that check them on
small instances, and proofs that TLAPS checks. Paths below are relative to
`src/src/` of the repository.

1. [The system](#1-the-system): inventory
2. [Plan](#2-plan): modules, runs, theorems, in order
3. [The modules](#3-the-modules): what is modelled, and how it maps to the code
4. [What is checked](#4-what-is-checked): runs, bounds, fairness
5. [What is proved](#5-what-is-proved)
6. [Findings](#6-findings)
7. [What is not modelled](#7-what-is-not-modelled)

## 1. The system

### The daemon and its processes

| Part | State | Operations | Interacts with |
|---|---|---|---|
| main loop and signals: `prometeo/core.cpp` | `Running`, `LastSig`, signal masks, the registries of sockets, modules, DNS cache | `MainLoop`, `Fork`, `Wait`, `WakeUpParent`, `CfgReload`, handlers of SIGHUP, SIGTERM, SIGCHLD, SIGUSR1 | calls everything: I/O events, once a second `DNSCache::Flush`, `IODispatcher::CheckTimeouts`, `Loader::OnTimer` |
| one child: `prometeo/process.cpp` | `Flags` (RUNNING, BUSY), `ChildPid`, `Data`, `DataLen`, `Callback` | `Spawn`, `SendRequest`, `SocketEvent`, `ReadAnswer`, `Terminate`, `ReloadCfg`, `WaitRequest` (in the child) | `Core::Fork`, its socket pair, its `ProcessGroup` |
| pool: `prometeo/processgroup.cpp` | `Children`, the FIFO `Requests` | `SendRequest`, `RunQueue`, `FindIdleProcess`, `AddChild`, `Flush`, `ReloadCfg` | callbacks into DNS cache and modules, which call it again |
| DNS cache: `prometeo/dnscache.cpp`, resolver process: `prometeo/resolver.cpp` | ring `Items`/`FreeSlot`, hash of hosts, `Pending` chains of callers | `AsyncResolve`, `CancelRequest`, `IPCAnswer`, `Cache`, `Flush`, `ReloadCfg` | pool below, callers (HTTP, tunnel, SOCKS5...) above |
| loader: `prometeo/loader.cpp` | list of modules, which are quitting | `Load`, `Unload`, `OnTimer`, `CfgChanged` | the modules' `Init`, `Cleanup`, `CfgChanged`, `OnTimer` |
| registry: `prometeo/registry.cpp`, `regkey.cpp` | a tree of keys and values, the stack of open keys, what expat has open | `OpenKey`, `CloseKey`, `DeleteKey`, `GetString`, `SetString`..., `Load`, `Save` | every `ReloadCfg`, `mod_cfg`, access control |
| control: `prometeo/ctrlipc.cpp`, `prometeoctl/` | one client at a time, read with blocking calls | one command per line: lsmod, load, unload, stop, help | loader, core |
| access control: `prometeo/acl.cpp`; logger, process titles, MD5 | none of their own: permissions are keys of the registry | `UserPermission`, `SetUserPermission`, `AuthenticateUser`; `Log` | modules, PAM |

### libprom

| Part | State | Operations | Interacts with |
|---|---|---|---|
| sockets: `libprom/socket.cpp`, `tcpsocket.cpp`, `unixsocket.cpp` | descriptor, one-shot flags LISTENING, CONNECTING, SENDING, RECVING, NOTIFY_DISCONN, time-out, buffers | `AsyncConnect`, `AsyncSend`, `AsyncRecv`, `Listen`, `SendFD`, `RecvFD`, the handlers the dispatcher calls | dispatcher below, callbacks above (which may delete the socket) |
| I/O dispatcher: `libprom/iodispatcher.cpp` | two descriptor sets, the map from descriptors to sockets, a list of time-outs | `AddFD`, `RemFD`, `WaitEvents`, `CheckTimeouts` | sockets, files |
| containers: `list`, `strhash`, `linkedlist`, `stringlist`, `buffer` | | | used everywhere |

### Modules

| Part | State | Operations | Interacts with |
|---|---|---|---|
| process pools of `mod_socks5`, `mod_ftp`, `mod_pop3`, `mod_ssl` (four copies of one text) | listening socket, `ProcPool` | `Accept`, `ServeClient`, `AreIdle`, `Flush`, `Cleanup`, `ReloadCfg`; in the child `WaitRequest` | loader, `ProcessGroup`, `Core::Fork`, descriptors passed to children |
| their protocols: `client.cpp` | the state of one connection, blocking I/O | handshake, commands, forwarding | client and server |
| HTTP proxy: `mod_http/mod_http.cpp` | per client `HTTPData` with `State` and `ServerState` | accept, read headers, cache look-up, connect, forward, chunk and length accounting, CONNECT | DNS cache, sockets, connection manager, cache, filters |
| connection manager: `mod_http/connectionmgr.cpp` | per server five slots `Sockets`, `Busy` | `FindConnection`, `GetSocket`, `AddSocket`, `RemSocket` | HTTP proxy |
| HTTP cache: `mod_http/cache.cpp`, `cacheobj.cpp` | hash of ids, LRU list, size, index file | `Find`, `Create`, `Delete`, `Prune`, `LoadIndex`, `WriteIndex` | storage |
| storage: `prometeo/storage.cpp`, `storeobj.cpp`, `file.cpp` | open and closing objects, reference counts, listeners, write buffers | `Open`, `Release`, `Write`, `WriteComplete`, `Flush`, `Close` | dispatcher |
| tunnels: `mod_tunnel/mod_tunnel.cpp` | pairs of sockets | accept, resolve, connect, forward | DNS cache, sockets |
| HTTP filters: `mod_http/filter*.cpp`, `streamfilter.cpp`, `gzipcodec.cpp`, `hostmapper.cpp` | lists of patterns; what of a page is held back; zlib's state; the map of hosts | choose what happens to a request; change pages on their way | HTTP proxy, registry |
| configuration editor: `mod_cfg/` | one `CfgData` per browser: `ReqBuf`, `State`, `Body` | reads a request, does what its form says, answers with a page | registry, loader, core, access control |

### What is hard here

* **One thread, yet not atomic.** A callback runs in the middle of the operation
  that calls it, and calls back into it: `Process::SocketEvent()` calls the
  request's callback before it clears BUSY and runs the queue; the callback
  submits the next request. `AsyncRecv()` may call its callback before it returns.
* **Other processes.** Children die while idle (nobody notices), while they
  serve (end of file), before they read (an error, handled in another branch).
* **Signals.** `Fork()` sleeps until SIGUSR1, `Terminate()` until the child is
  dead, and SIGCHLD reaps children behind the back of both.
* **What crosses.** Cancelled lookups whose answers are still on their way,
  answers that come twice, a reload of the configuration in between.
* **Limits.** Slots of the ring, children of the pool, five connections a server,
  the size of the cache.

What makes each part correct, in one line each:

* pool: no request is lost but with the child that held it, none waits while a
  child is idle, none is answered twice, with another's answer or out of turn;
* one child: the daemon always wakes up after `Fork()`, and never loses track of a process;
* DNS cache: ring and hash agree, every waiting caller is called back once,
  with the address, and none that cancelled is;
* process pools: one client, one process; no descriptor left open; unloading cuts nobody off and ends;
* sockets: each asynchronous operation ends in one callback, to a socket that still exists;
* HTTP: a request's bytes and its answer's are each passed on once, and a
  connection is reused only when the answer before is complete;
* cache and storage: an object is served only whole, the index names only
  whole objects, the accounted size is the size of the objects;
* tunnels and the other relays: what goes in comes out, in order and once, while both ends are up;
* protocols of the children: a user gets one reply for each command, and what it says is true;
* registry and editor: settings are what was written, and a form changes what it shows;
* loader and control: one daemon, with one instance of each module that is enabled.

`PROJECT.json` lists the places where each of these could go wrong (`hazards`).

## 2. Plan

Built in this order: `ProcessGroup` over `RequestBroker` with its proofs, `DNSCache`
over `RequestBroker`, `ProcessLife`, `ProcPool`, `HttpCache`; then the protocols of the
children, `Socket` and `Tunnel` over `Pipes`, the HTTP proxy part by part, and the
daemon's settings and control.

Then the proofs of the others, in the order of the ladders of section 5: `DNSCache`,
`ProcPool`, `ProcessLife`, `Tunnel` over `Pipes` on lemmas about `Socket`, `HttpCache`, and
the sessions of the children.

`ServedWhole` (which bytes a file has) came after the books of the cache, and the clients
and kept connections of the HTTP proxy (`HttpClients`) and the daemon's control
(`Admin`, over `Daemon`) after those, and how `mod_cfg` reads a request (`CfgRequest`, over
`Daemon`) last.

The compositions `MCHttpProxy` and `MCDaemon` reach recursive operators, so that no theorem
can be about them: what is proved about their parts is proved in `HttpClients` and `Daemon`,
below them. Left: the settings and the forms (`Registry`, `CfgForms`) and the decoders of
the HTTP proxy, whose recursions would have to go first.

## 3. The modules

### `RequestBroker`

What a pool promises: each request that is submitted is over at most once,
answered, failed or lost. `ProcessGroup` is shown to implement it, and `DNSCache`
is built on its actions (`Broker!Submit`, `Broker!Finish`), so that the cache need
not know of children. It is also in the second that the failure modes of the first
bite: "lost" means that no callback comes.

### `ProcessGroup` (`MCProcessGroup`, proofs in `ProcessGroupProofs`)

| Model | Code |
|---|---|
| `kids`, `queue` | `ProcessGroup::Children`, `Requests` |
| `running`, `busy`, `recving`, `cur`, `data` | flags, outstanding `AsyncRecv()`, `CallbackData`, `Data` of each `Process` |
| `cbs`, `rq`, `fresh` | where the parent's thread is: the callbacks it is in, the innermost last, each with its child, whether it has an answer, and the `rq` of what it interrupted; in the loop of `RunQueue()`; before the look that `AsyncRecv()` takes at the socket of a child |
| `proc`, `inbox`, `job`, `outbox` | the child processes and the two directions of their sockets |
| `outcome` | what callers saw (history) |
| `SendRequest`, `RunQueue`, `RunQueueEnd`, `AddChild`, `Flush` | the methods of the same name |
| `SocketEvent` | `Process::SocketEvent()`: a chunk of an answer, end of file, error |
| `Blocks` | `AsyncRecv()` finds nothing and registers the socket |
| `CallbackReturn` | the rest of it once the callback returns: BUSY cleared, `RunQueue()` |
| `WaitRequest`, `Dispatch`, `Die` | the loop of a child, and its death |

Answers have a length and are read in chunks cut anywhere. `SendRequest` is
enabled inside a callback, which is how nesting arises. It ends in an `AsyncRecv()` that
looks at the socket at once: what it finds, an answer or the end of a child that died idle and
is still running for its parent, runs `SocketEvent()`, a callback and `RunQueue()`
on the spot, also inside the loop of another `RunQueue()`.

### `DNSCache` (`MCDNSCache`, proofs in `DNSCacheProofs`)

| Model | Code |
|---|---|
| `slots`, `items`, `freeSlot`, `hash` | the ring `Items`, `Slots`, `FreeSlot` and `Hash` |
| `pending` | `Pending`: chain of `PendingReq`, newest first |
| `walks` | the calls of `IPCAnswer()` and of `SendRequest()` under way, the last on top: the loop over a chain that is unlinked, with the callers still to be called, and the callback it is in |
| `want`, `told`, `addr`, `stale` | the callers: what they asked for, were told, their buffers, and whether one that does not wait was called |
| `late` | those that cancelled while their chain was being called back |
| `outcome`, `reqHost` | the requests, as the broker sees them |
| `AsyncResolve`, `CancelRequest`, `SendReturn`, `IPCAnswer`, `NextCallback`, `CallbackReturn`, `Flush`, `ReloadCfg` | the methods; `SendReturn` is the end of a `SendRequest()`, `NextCallback` and `CallbackReturn` split `IPCAnswer` at its callbacks |

The address of a host is the host itself; an entry may have expired whenever the
timer runs. The build is the one without IPv6, in which a lookup that fails is
answered with the address INADDR_NONE and the full length. `RequestFailed` clears
`up`: `IPCAnswer()` follows the NULL answer it is given. An answer may come before
`SendRequest()` returns, in the middle of `AsyncResolve()` and of the loop of another
`IPCAnswer()`. `CancelRequest()` may be called at any time, by any callback: it looks in `pending`
only, and so does not find a caller whose chain `IPCAnswer()` has unlinked, which is called back all
the same (`late`); `ChainSound` excepts it.

### `ProcPool` (`MCProcPool`, proofs in `ProcPoolProofs`)

The pool of `mod_socks5` with its listener, the part of the loader that
unloads and reconfigures it, and the loop of the children. `module` follows the
loader (loading, up, quitting, gone), `conn` each client's connection. A
descriptor is passed with its number in the daemon, which a child forked for that
client has inherited and must close (`inherited`). SIGHUP ends a child that sleeps
in `select()`: the loop of `WaitRequest()` ends when `select()` is interrupted. `up` is FALSE after `ServeClient()` and `Accept()`
have both deleted one socket: what follows is undefined and not explored.

### `ProcessLife` (proofs in `DaemonProofs`)

One child after the other, at the grain of signals: `Fork()` with `InitWait()` and
`Wait()` as separate steps (`pc`), the pending and blocked SIGUSR1, `Terminate()`
with `kill()` and `waitpid()`, SIGCHLD's handler that may reap first, SIGTERM to
the daemon and to the child, crashes of the child at any point.

### `HttpCache` (`MCHttpCache`, proofs in `HttpCacheProofs`)

The cache with its storage and files, and with the clients of the HTTP proxy as
far as they use it.

| Model | Code |
|---|---|
| `cache.obj` | the `CacheObj`s, each with the `StoreObj` it has open: users, `Size`, deletion, what is in memory (`avail`), in the write buffers (`out`), the file's offset, listeners |
| `cache.hash`, `lru`, `size`, `modified` | `Hash`, `Objects`, `Store`'s size, `Modified` |
| `cache.name`, `cache.disk`, `index` | directory entries, contents of files, `cache.idx` |
| `client` | the `HTTPData`s: asking a server, receiving, listening to another's download, gone while the download goes on, waiting for the last bytes to be sent |
| `Request` (`Miss`, `Stale`, `Hit`, `NotModified`) | `Handle_GET_HEAD()` |
| `Revalidated`, `Forward`, `DownloadAndCache`, `DownloadOnly` | the server's answer |
| `Chunk`, `BodyEnd`, `BodyBad` | `HandleBody()`, down to the write buffers, with pruning and write errors |
| `ClientGone` (`Orphaned`, `BrokenOff`, `Departed`) | `SocketClosed()` and `Error()`: the download goes on, is given up as it is because `IsCacheable()` says so now, or was another's |
| `PruneTimer`, `WriteIndex`, `Restart`, `IndexCut`, `Fork` | `OnTimer()`, `Cleanup()` and `LoadIndex()`, or a crash, also between two entries of the index; `OnFork()` in a child |

A body is a sequence of pieces that carry the number of their download, so a
file that mixes two, has one twice or stops early is told from a whole one. What a server calls
fresh, cacheable or not modified is a choice. `torn`, `forked` and `cut` remember
why a file may not be whole and that a client was given such a one: an entry of
the cache is whole *except* in the situations named at `ServedWhole`, each of which the code
does not handle:

* two clients that miss at the same time open, and truncate, one file, and the hash has only the first object;
* the index is written while objects are received: `Storage::Find()` is given a relative name,
  `Storage::Open()` files objects under the full one, so `IsComplete()` never finds any
  and is always true; a restart or a crash makes what there is of them a whole object;
* a write that fails leaves a partial file, a hash entry and a size (`HashSound` and `OnlyErrorsLeak` except it);
* a client goes while it downloads, and what `IsCacheable()` asks has changed since: the
  server is closed without `WriteComplete()`, the object stays in the hash as far as it came, and who
  listens to it waits for ever;
* a client that validates an object another one deletes is sent whatever is left;
* a fork (finding 4).

A hash entry that points to a destroyed object, or buffers that cannot be
written when the file is closed (the object is destroyed twice), end the daemon: `Restart` by accident.
`Open()` truncates the index before `WriteIndex()` writes it, so that a crash in between (`IndexCut`)
leaves its first entries: the files of the others are there, and nobody asks for them.

### `Socket`, `Tunnel`, `Pipes` (`MCTunnel`, proofs in `TunnelProofs`)

`Socket` holds sockets, dispatcher and kernel in one record `w`; its operators are the
methods of `socket.cpp` and `iodispatcher.cpp`. A method that calls back does so last,
and so yields a record and the call that is due; `Tunnel` keeps the due calls in
`calls`, the innermost first, which is how handlers nest.

| Model | Code |
|---|---|
| `fd`, `flags`, `buf`, `timer` | `FD`, `Flags`, `Data` from `WriteOffset` on, `Timeout` |
| `table`, `rset`, `wset` | `FDTable[].FD`, `ReadSet`, `WriteSet` |
| `ready` | what `select()` found and `Dispatch()` has not come to; descriptors are few, so that a number is soon given again |
| `tun`, `asked`, `target` | `State` of each `TunnelData`, the look-ups under way and the name each asked for, `TargetHost` |
| `Accept`, `Resolved`, `Connected`, `Forward`, `Close`, `CheckTimeouts`, `ReloadCfg`, `Cleanup`, `LateAnswer` | the methods |
| `causes` | what befell the daemon that excuses it: a signal in `recv()`, a name changed while it was looked up, an event of an old descriptor |

`Pipes` is what a relay promises: what comes out of a pipe is what was put in, in
order, up to some point, and nothing after it is closed. `PipesSpec` maps a tunnel
to two of them: `put` is what a peer has sent, `taken` what the other was sent.

### Sessions of the children (`MCSessions`, proofs in `SessionsProofs`)

The children that serve users of `mod_socks5`, `mod_ftp`, `mod_pop3` and `mod_ssl` are
single threads with blocking calls. They share nothing, so that one run checks them, each
behaviour the sessions of one of them.

* `Socks5Client`: the greeting and the request arrive in pieces of any size; a stream is a
  number of bytes written and read, so that a byte taken for the wrong part shows. The lengths in
  them are signed chars (`Char`): one that is negative makes the child read whatever there is, into the
  payload (`Swallows`) or over the end of its buffer (mode "overrun").
* `FtpClient`: handlers are operators from a session to the set of those it can lead to.
  `stack` holds the calls of `WaitEvents()`, which nest when the child waits for a data
  connection; `owed` are the replies of the server that are not read, `due` those that
  the user has not had, `claim` what the last "226" was worth. `AUTH` is answered with 234, and with
  550 as well when the handshake fails (cause "handshake").
* `Pop3Client`: where each reply ends, the dots of a filtered message, and spamd or a
  command as filters. A line that is longer than the buffer of `RecvLine()` comes in pieces (cause
  "long"). `CmdFilter`: the two pipes to that command.
* `SslClient`: the records of which OpenSSL keeps a part that `select()` does not see.

`Socks5Client` and `SslClient` forward with sends that block: what does not fit the socket is with the
child (`toPeer`, `toUser`, `toTarget`, `hand`), which does nothing else until its other end reads, and
may stay there for ever. Their liveness excepts an end that does not read. The
transfers of FTP data block in the code too; there the model reads and sends at once, and
`GoneUserEnds` claims nothing of an end that does not read. Replies fit their sockets' buffers.

`causes` names the ways in which a session may leave the protocol, and the
properties except these: for instance in `InStep` an FTP server that says nothing, the
commands `ABOR` and `EPSV` whose reply is left unread, a second command in the middle
of a transfer. Each cause is set where the code does the deed, so that a step that puts
replies out of step without it violates the property.

### The HTTP proxy (`MCHttpProxy`; proofs about `HttpClients` in `HttpClientsProofs`)

Parts that meet through calls which the others abstract from; each behaviour is one of
them.

| Module | Code | What it abstracts from the others |
|---|---|---|
| `HttpSession` | `HTTPData` and the events of `HTTPProxy` (`mod_http.cpp`): `State`, `ServerState`, both sockets, pipelined requests, tunnels, when the data is freed | the cache is what it answers; a body is a number of units |
| `ConnectionMgr` | the slots of one server (`connectionmgr.cpp`) | - |
| `HttpClients` | the two above, which meet in `FindConnection()` | all the others |
| `HttpDecoder` | `http.cpp`: header, length, chunks, footer, in pieces that end anywhere | a line is a token and its end |
| `BodySender` | `SendBodyData()`, the page filters and the compressor (`http.cpp`, `streamfilter.cpp`, `popupblocker.cpp`, `resizeblocker.cpp`) | words are short; zlib gives out what it has when it likes |
| `GzipCodec` | `gzipcodec.cpp`: headers and what is not gzipped collected in `TmpBuf` without a bound, the length of the extra field in two signed chars, members, trailers, damaged data | inflated data are units |
| `FileStore` | `storage.cpp`, `storeobj.cpp`, `file.cpp`: blocks, partial and failing writes, files that close over several events, `Flush()` | bytes are numbers |
| `HttpRouting` with `Url`, `StrHash` | URL and "Host" header, filters, ports of CONNECT, the map of hosts, the name of a page in the cache, reloads | a pattern is found where its letters are |
| `NetDate` | `netdate.cpp`: three forms of dates, read and written | `strtok()` on words and marks |

`RoutedRight` compares what the proxy does with a definition of its own
(`Expected`, `Server`, `Named`), written from what the settings mean.

### The daemon (`Daemon` in `MCDaemon`, proofs in `DaemonProofs`)

`ProcessLife`, and the parts that an administrator touches, each behaviour one of them.
`Daemon` holds the three that theorems are about, `ProcessLife`, `Admin` and `CfgRequest`, and
`MCDaemon` adds the others:

* `Registry`: the tree that expat's callbacks build from a file that is read in blocks,
  the keys that are opened by the beginning of their names, the stack of those open before,
  deletion, saving, and a SIGHUP between any two calls, which makes pointers dangle (`gen`).
* `Admin`: daemons that start (`CheckPid`, `CreatePid`, `Open`, `LoadModules`), share pid
  file, control socket and ports, and are told by prometeoctl, by `mod_cfg` and by signals
  to load, unload, delete, reload and stop. A SIGHUP inside `LoadModules()`
  cuts it short.
* `CfgRequest`: `CfgData` reads a request cut anywhere into `ReqBuf`, which starts with
  whatever was in memory (`Junk`). The loop over the lines is a function of how often it goes
  round, which is no more often than `ReqBuf` has places.
* `CfgForms`, over `Registry`: the pages of a list of items, of users and of modules. A
  form is what a button sends; it is made from a page that may be old, and another
  administrator or a SIGHUP changes the list meanwhile. `FormsRight` says that what its
  button says (`does`) happens to the entry it is about, and nothing else, but for four causes.

### Abstractions that hold throughout

* SIGHUP is handled between two events of the main loop. In the code its handler
  runs `CfgReload()` in the middle of anything; only `Admin` (while modules are loaded) and
  `Registry` (between two calls) have it there.
* The bytes of a message are its identity and length.
* Parts that share a run are disjoint: `part` says which one a behaviour is of, and the
  variables of the others stay as they are.
* A counter is bounded by a constant: requests (`NReq`, `Request`), processes
  (`MaxPid`, `MaxForks`), connections (`Conn`), downloads (`MaxDownloads`), pieces
  of a body (`MaxLength`), restarts and forks (`MaxEvents`), commands (`MaxCmds`),
  units sent (`MaxSent`, `MaxPayload`, `MaxUnits`), nested calls (`MaxDepth`), calls of the
  registry and loads of a file (`MaxOps`, `MaxLoads`), starts and modules (`MaxStarts`,
  `MaxInstances`), forms (`MaxForms`), faults of the disk (`MaxFaults`).

## 4. What is checked

| Run | Instance | States | Shows |
|---|---|---|---|
| `processgroup` | 3 children (2 mortal), 3 requests, answers of 2 pieces | 150 839 | type, work conservation, no overtaking, none forgotten, right answers, a loss has its death; implements `RequestBroker`; every request ends |
| `dnscache` | 2 hosts, 2 callers, 2 requests, rings of 1 to 3 slots | 157 464 | ring and hash agree (`RingSound`); waiters linked once, no callback to who does not wait, but for who cancels late (`ChainSound`); nobody waits for a cached host or without a request (`WaitSound`); callers are called back |
| `dnscache_chain` | the same, 2 slots, nothing fails | - | finding 1 |
| `procpool` | 5 processes (2 mortal), 4 connections, 1 to 2 children, forks fail | 157 587 | one client each, descriptors closed, limit kept, unloading cuts nobody off and ends |
| `procpool_quitting` | 2 processes, 2 connections | - | finding 2 |
| `daemon` | 3 children one after the other, crashes; 3 nested calls of the registry, 2 loads; 2 daemons of 2 modules, up to 3 instances; 13 requests, buffers of 12 units; lists of up to 2 items, 2 forms | 241 689 | `LifeSound`: handshake, no lost wake-up, no process left behind; `ConfigRight`: files, requests and forms are read and done as they were meant; `AdminSound`: one daemon, one instance, all of the modules, no order forgotten but an early one; forks return |
| `processlife_killed` | 1 child, no crash | - | finding 3 |
| `httpcache` | 2 resources, 2 clients, 2 downloads of up to 2 pieces, room for 1 piece, 1 restart, crash or fork | 1 151 988 | objects count their users, listeners miss nothing (`SharedSound`), hash, list, size and index agree (`BooksSound`), and what is served is whole, with the exceptions above |
| `httpcache_fork` | 1 resource, 1 client, 1 download, 1 fork | - | finding 4 |
| `sessions` | requests of all address types, lengths of 1, 2, 4, 6 and 7 in a char of at most 3, sockets that hold 1 unit; 14 FTP commands, 4 a session, 2 nested waits; 7 POP3 commands, 4 a session, 4 messages; pipes of 2 and messages of 7 units; records of 3 units | 602 487 | relays exact, answers in step, what is reported is true, crashes only from the causes named, sessions end |
| `tunnel` | 2 tunnels, 3 descriptors, 2 units one way and 1 the other, 1 signal, reload, unload | 339 946 | nothing lost or doubled in transit, both ends listened to, events find their owner; implements `Pipes`; all that is sent comes out |
| `httpproxy` | 8 parts: 1 or 2 requests of 7 kinds; 5 sockets in 3 slots; answers of 1 or 2 chunks with trailers; pages of 2 words; all kinds of gzip headers, short, long and damaged; 2 cached files and the index, 2 faults; 4 settings, 3 reloads; both sides of each field of a date | 108 132 | `SessionSafe`: freed once, after the last use; `AnswersRight`: one answer each, from where it should come, well-formed; `BytesExact`: bodies, gzip streams and files are what was written; `PoolSound`; everything ends |

A run takes from half a minute to four minutes. Runs of several parts check, for each
part, the properties of its module: `ConfigRight`, say, is `RegistrySound`, `RequestRight`
and `FormsSound`, each a conjunction of named properties with a comment.

**Why the bounds are enough.** The pool: with three requests and three children
there is one to be served, one in the callback and one that waits, and both the
first and the next child tried can be dead; two pieces make an answer that is cut
and one that is not. The DNS cache: two requests are a lookup and its repetition after
a cancellation, or one for another host, both under way or one nested in the other; two callers of
one chain are the one in its callback and the one still to be called; one, two and three slots let
the ring wrap, grow and shrink while full. The process pool: two children at once
and five over time cover death, reuse, decay and a fork beyond the limit. The
children of `ProcessLife` succeed each other, and the third starts with the masks
that the failures of the first two left. In the HTTP cache two downloads are one and
its replacement, two of one resource at a time, or two resources of which one is
pruned for the other; two pieces are a body that is cut, joined half-way, or too
large to be kept (`MaxObjectSize` is compared before a piece is added, so that
the second is too much for 0). A behaviour ends (`OneCaught`) when both resources are caught by
situations that `ServedWhole` names; with one that is, all three invariants go on being checked.
Two tunnels over three descriptors fight for a number; two
units show an order. Four commands of FTP are USER, PASS, the data connection and the
transfer, or three and one in the middle of another; five were tried once (2.6 million
states) and show nothing else. Three slots of a connection manager have one that is
busy, one idle and one emptied; a third reload is the first that walks behind
the hash of hosts. Names are none, a letter, and one that begins with that letter,
which is what the registry confuses. Two forms are one of another administrator and one that
is sent from the page before.

**Fairness.** The main loop gets to every event that stays there, so handlers,
callbacks and the queue are weakly fair; children that are alive are running
processes, so each of their steps is; signals are delivered. `Dispatch()` of a proxy's
child ends because the forwarding loop gives up after `TIMEOUT_IDLE`. The
timer's call to `Loader::OnTimer()` is fair, for it is what ends a quitting module.
Nothing is assumed of callers, deaths, SIGHUPs, the cache's expiry or of
`Flush()` of the pool. The liveness properties name what the code does not
provide for: a pool without a child that can serve (none is forked again), a
resolver that died (its host stays pending for ever), a child that died before it
read its client (it stays BUSY).

`WaitEvents()` calls a handler for every descriptor that is ready, so forwarding and
callbacks of sockets are fair, in the daemon and in children; a process behind a pipe
that is not told to stop runs. In the HTTP proxy connections, servers and files have
time-outs or a timer (`Working`), which the code's main loop calls once a second; clients
that are alive read what they are sent. Nothing is assumed of prometeoctl. A user of
`Socks5Client` or `FtpClient` may stay silent for ever, and no end of a relay of `Socks5Client` or
`SslClient` has to read.

**Deadlock** is not checked: all these systems stop when their bounded inputs
are used up.

Every property has a mutant in `PROJECT.json`: a plausible slip in a mapped
definition (the operators whose comment starts with "Wrong:") that violates it.

## 5. What is proved

Each theorem holds for every value of the constants that the named assumption of its module
allows (`ProcessGroupAssumption`, `DNSCacheAssumption` and so on: sets of children, clients,
resources and descriptors of any size, any limits, any number of requests, downloads,
commands, bytes); nothing else is assumed. Where a run checks a property of the same name, the
theorem is about that definition, with its exceptions.

| Module | Theorem | States |
|---|---|---|
| `ProcessGroupProofs` | `TypeCorrect` | `[]TypeOK` |
| | `PoolIsWorkConserving` | `[]WorkConserving` |
| | `PoolIsFair` | `[]NoOvertaking` |
| | `PoolForgetsNothing` | `[]PendingIsHeld` |
| | `DeathCostsOneRequest` | `[]LossHasItsDeath` |
| | `AnswersAreRight` | `[]RightAnswer` |
| | `PoolImplementsBroker` | `BrokerSpec`: the pool implements `RequestBroker` |
| `DNSCacheProofs` | `RingIsSound` | `[]RingSound` |
| | `CallersAreToldOnce` | `[]ChainSound` |
| | `WaitsAreFounded` | `[]WaitSound` |
| | `CacheUsesBroker` | each step is one of the broker's, or touches no request |
| `ProcPoolProofs` | `ClientsHaveTheirOwn` | `[]OneClientEach` |
| | `NoDescriptorLeaks` | `[]DescriptorsClosed` |
| | `ClientsAreLimited` | `[]AtMostMaxChildren` |
| | `DaemonCutsNobodyOff` | `LossIsNotOurs`, an action property |
| `DaemonProofs` | `NoProcessIsForgotten` | `[]LifeSound` |
| | `DaemonsAreSound` | `[]AdminSound` |
| | `RequestsAreRead` | `[]RequestSound`: `RequestRight`, a part of `ConfigRight` |
| `TunnelProofs` | `NothingIsLostOrDoubled` | `[]InTransit` |
| | `BothEndsAreHeard` | `[]NeverDeaf` |
| | `EventsReachTheirOwner` | `[]EventsFindTheirOwner` |
| | `TunnelsArePipes` | `PipesSpec`: a tunnel implements two `Pipes` |
| `HttpCacheProofs` | `BooksKept` | `[]BooksInv`, the inductive invariant |
| | `SharedAlways`, `BooksAlways` | `[]SharedSound`, `[]BooksSound` |
| | `FilesKept` | `[]FilesInv`, the inductive invariant of the files, over `BooksInv` |
| | `ServedAlways` | `[]ServedWhole` |
| `HttpClientsProofs` | `ClientsAreFreedOnce` | `[]SessionSafe` |
| | `EachRequestIsAnsweredOnce` | as many answers as requests, for a client that waits |
| | `KeptConnectionsAreFound` | `[]PoolSound` |
| `SessionsProofs` | `RelaysAreExact` | `[]RelaysExact` |
| | `AnswersAreInStep` | `[]AnswersInStep` |
| | `DataIsHonest` | `[]DataHonest` |
| | `ChildrenAreSafe` | `[]ChildrenSafe` |

None of the invariants is inductive alone. What each proof adds to them:

**`ProcessGroup`** climbs a ladder:

1. the type invariant, needed by every other step;
2. `WorkConserving`, with the control state (`NoneWaits`): a child may be idle while requests are
   queued only before the loop of `RunQueue()` looks; what is queued then goes to that child, and
   a callback called out of the loop finds none idle. It rests on `OneCall`, one callback for a
   child, and on lemmas about the stack of callbacks (`Pushed`, `Popped`);
3. `Ordered`: the queue ascends and everything in it, and every `cur`, is below
   `next`; from it `NoOvertaking`, given work conservation, for a direct
   `SendRequest()` bypasses the queue only when it is empty or nobody is idle;
4. `Held`: pending requests are exactly those of the queue and of children with
   an outstanding `AsyncRecv()`, each once;
5. `Doomed`/`LossIsLast`: a child that has lost a request is dead, and either no longer running
   or stuck BUSY, so that it is never given another and `cur` keeps the loss;
6. `Phases`: where the pieces of an answer are. Each child is idle, asked,
   serving, done or in its callback, and in each phase `job`, `inbox`, `outbox`
   and `data` are tied to `cur` and their lengths add up to `Pieces`.

The refinement of `RequestBroker` then needs only `Held`: a step that ends a request ends
one that is pending.

**`DNSCache`**: `TypeInv` (a request under way has a host); `RingInv` (the hash points into the
ring and the ring back, and no cached host has callers that wait), for which inserting over
the oldest entry, expiring one and rebuilding the ring at another size each have a
lemma; `ChainInv` (a caller is in the chain of the host it asked for, or still to be called by one
of the `walks`, in one of them once, unless it cancelled late). Each rests on the one before.

**`ProcPool`**, `PoolInv`: the list of children has every process that is alive, each once
(`KidsInv`); between the daemon and a child there is *one* of a connection sent, a connection
served and an "idle" message, and while there is one the child is BUSY (`OneTokenEach`); a
connection that is open is with somebody who is alive, and with one only (`ConnInv`); a
descriptor that `fork()` copied is that of the connection which the child is about to receive
(`InheritedInv`). The limit of clients counts the children with a connection, an injection
into the list.

**`ProcessLife`**: `Handshake` says where the daemon is while SIGUSR1 is due, is pending or
has come; `OneRequest` that a request is in the socket, with the child or answered.

**`Admin`**, `HostOk`, says of each process (`ProcessOk`) that it has modules only once it loads
them (`Blank`), that those are of keys which `LoadModules()` has passed and, unless a SIGHUP cut it
short, all that are enabled among them (`Filled`). This is why the port of a module that is
about to be loaded is free, and why nothing is `missing` when `MainLoop()` begins.
A daemon that was told to quit and is in `MainLoop()` all the same was told before it
(`NoneForgotten`). Unless two daemons raced for the pid file, one that is up excludes any other that is up or has found no
file, and has the names (`Named`); and unless prometeoctl loaded a module twice, names of
modules differ, and each listens until it quits (`Proper`). Each method of
`Loader` and `Core` has a lemma, "from `HostOk` to `HostOk`", which the commands chain;
`OnTimer()`, a recursive function of how many modules it has come past, never runs past the
list it shortens (`TimedHas`).

**`CfgRequest`**, `ReadOk`, says what an exchange knows of the request while its header is `Good`,
that is in one piece, or in pieces that end where lines do. Before the first line `ReqBuf` is the
beginning of what was sent (`Fills`); between lines it holds no end of a line, and method, length
and authorisation are those of the *k* lines that have come (`Empties`, `Taken`); in the body, what
came and what is unread together are the body that was sent (`Lasts`); then the answer
is the one expected (`Answered`). That a header which is not `Good` is read differently is
why `RequestRight` excepts it. A lemma follows the loop of `AddHeaderData()` line by line over the text
of the request, where line *k* begins at unit 3*k*.

**`Tunnel`**, `TunInv`. The operators of `Socket` are proved first (what each
method does to the sockets, the sets and the table of the dispatcher, and that it keeps `IoInv`
while its callback is due). `CallsOK` says which calls can be due, innermost first, and in
which state each finds its socket, which is what the nesting of handlers comes to; `ReadyOK`
what is left of an earlier `select()`; `Transit` that the units which are out, queued, in a
callback and unread are, put one after the other, those that were sent. `TunnelsArePipes` maps
initial states to initial states and every step to one of a pipe or a stutter: a queue that
becomes shorter at one end of that concatenation does so because `out` became longer.

**`HttpCache`**, `BooksInv`. Objects, hash, list, sizes and index are put as one predicate
(`Valid`) of the record `cache` and of who holds which object, so that every method (`Create`,
`Delete`, `Release`, `Prune`, `Load`...) has a lemma of its own, "from `Valid` to `Valid`", which
the handlers then chain. `Prune()`, `Cleanup()` and `Closed()` are recursive functions; what
holds of them for all arguments is shown by the least number for which it would
not (`Least`, from `WFMin`), which needs no induction theorem with an operator. `InTune`
ties the clients to the objects they receive.

**The files of `HttpCache`**, `FilesInv`, is what `ServedWhole` adds to `BooksInv`. It says what
is in memory and in files, for the resources that nothing has happened to (`Clean`: neither
torn nor forked):

* `Owned`: a file is the file of one resource, whether an object has it open or a directory
  entry names it;
* `Apart`: one object of a resource is not deleted, and only it has the file that the name leads to;
* `Tagged`: a download is received by one object, and how long it is going to be is known
  only when it is over;
* `Contents`: an object that is downloaded has pieces 1 to `size` of its download in memory, those
  before `out` on disk, and is being received or complete (`Filled`); another that is open is
  whole in memory;
* `Files`: a name leads to nothing, to a whole file, or to the file of an object that is
  being downloaded;
* the index has one entry for such a resource (`Entries`), and whatever is received has
  a client that receives it (`Received`), because one that goes while the object cannot be kept
  takes the resource out of `Clean`.

None of these is kept without the others: `DownloadAndCache` truncates the file of a name,
which is harmless because of `Apart`; a `Restart` reads a file back as an object, which is whole
because of `Files` and of `Entries`, and `LoadIndex()` of an index that was cut finds some of those
(`Found`, `Shorter`). What `Prune()` may do to contents is `Sweeps`, what
`Cleanup()` may do is `Cleaned` (only what was still in buffers is written, at the offset of its
object), again by the least number for which it would not be so.

**`HttpClients`**. `SessionOk`: between two events a client is freed, has crashed for
a named cause, or is in one of eight modes (asking, looking up, connecting, receiving, reading what
another receives, leaving, alone with its server, tunneling). A mode ties `State` and
`ServerState` to the sockets there are, to what `Recv()` is outstanding, to the object of the cache, and
to whether the last request has been answered; `SessionSafe` is the part of this that can be seen
from outside. Each method has a lemma that says from which mode it leads to which; the
handlers chain them, for scripts of any length. `PoolOk`: the slots of a `Connection` are counted
exactly, no socket is in two, and a socket is in a slot if it is kept, and only if whoever
holds it may use it. `FindConnection()`, a recursive function of the number of slots, drops one
socket after the other (`TurnsOk`), and leaves busy slots that are empty.

**Sessions**. One invariant for each protocol (`SocksInv`, `FtpInv`, `PopInv`, `FilterInv`,
`SslInv`), which the steps of the others leave alone. `SocksInv`: the bytes read
are those of the part of the request that `CmdLen` says, what was read behind them is with
the peer, in a `Send()`, or lost with the peer (`Framed`), as what the peer wrote is with the
user (`GivenBack`), and what has been replied goes with the state. `SslInv`: records, what OpenSSL holds of one and what a `Send()` has still to give
out account for every byte (`Flow`), and the target misses none while it is there (`Missing`).
`FilterInv`: what was written, taken by the command, made and read bound each other, and why it ended. `PopInv`: what the
user has of a message is what `SendMessage()` makes of it; `Stuff` and `Unstuff` are shown to be
inverse for all messages. `FtpInv`: a session that is served is in one of four *phases*, at rest,
waiting for the server's or for the user's data connection, or in a transfer, and in each the
replies owed and due, the data connections and the stack of `WaitEvents()` are known,
unless commands have overlapped (`FtpOverlap`). The handlers of FTP are operators from a session
to a set of sessions; lemmas state which fields each changes and from which phase it leads to which.

What stays with TLC, and why:

* liveness (`EventuallyResolved`, `EventuallyCalledBack`, `EventuallyUnloaded`, `ForkReturns`,
  `EventuallyForwarded`, `SessionsEnd`, `SessionsFinish`): TLAPS handles neither
  fairness nor ENABLED;
* `AnswersRight` and `BytesExact` of `MCHttpProxy`, and of `ConfigRight` of `MCDaemon` the
  settings and the forms (its requests are proved, `RequestsAreRead`): what a decoder, a
  filter, a codec or a form computes is a recursive operator there. tlapm has no SMT backend in a
  module that reaches one, and what a recursion computes for every
  input needs an induction that the provers cannot instantiate.

## 6. Findings

1. **Only the head of a chain gets the address** (`dnscache_chain`,
   `prometeo/dnscache.cpp:268`). Two callers ask for one host before it is
   answered; `IPCAnswer()` copies the address into the buffer of the one that
   asked last and calls both back with the full length.
2. **A quitting module listens again** (`procpool_quitting`,
   `prometeo/loader.cpp:186`). A reload calls `CfgChanged()` of modules that are
   quitting, whose `Setup()` opens the listening socket; `include/api.h:97-98`
   says a module should not accept new jobs after the first `Cleanup()`.
3. **A SIGTERM the child does not notice** (`processlife_killed`,
   `prometeo/process.cpp:126`). Children inherit a handler that clears a flag only
   the daemon reads. One that is not asleep in `select()` forgets the signal, and
   `Terminate()` waits for it for ever.
4. **A fork writes to the cache** (`httpcache_fork`, `mod_http/mod_http.cpp:384`).
   `OnFork()` runs `Cleanup()` in the child. Its copies of the write buffers go to files whose
   descriptors and offsets it shares with the daemon, which writes the same
   buffers once more behind them; the object is whole in memory and
   wrong on disk. `include/api.h:105-107` says `OnFork` releases resources the child does not need.

The runs that pass except further flaws of the code by name, as a cause or a situation in
the property's comment: without the exception TLC finds each of them. Among them are a caller of the
DNS cache that cancels and is called, an object of the cache served in part, a download kept as far as
it came when its client left, lengths of SOCKS5 that are negative, sends that block a child, two replies
to `AUTH`, lines of POP3 that are too long, headers of gzip that overrun their buffer,
replies of FTP and POP3 out of step, a socket left in the dispatcher
after `AUTH`, a record of SSL that stalls, `open` windows and `</html>` replaced twice, a
map of hosts that ends the daemon at its third load, a file of settings with an error that
is half loaded, a request of a browser that is read wrong when it is cut within a line, and a
"Delete" button that deletes another item.

## 7. What is not modelled

* Third-party code: libltdl, OpenSSL, zlib, expat, Sablotron, PAM. Where the code depends on
  them, their answers are a choice (`Compress`, `SSLInitSession`).
* The text of pages, logs, headers, error pages and answers of prometeoctl; manifests of
  modules. MD5, process titles and the logger have no state that another part reads.
* Passwords (`Acl::AuthenticateUser()`): the system's answer.
* The text of headers and the set-up of the listening socket in `mod_http`; the look-up of hosts
  in `mod_ftp`; the dialogue with spamd; sockets of UDP.
* Builds with IPv6.
* The system library's name resolution and the other end of every connection are
  nondeterministic.

Hazards of this code that were seen and that no property is about, for the models end where
they bite: `IPCAnswer()` follows the NULL answer of a resolver that died with the request unread
(`dnscache.cpp:252`; `DNSCache` stops, `up`); `ServeClient()` and `Accept()` both delete a socket
when every child is busy (`mod_socks5.cpp:204`; `ProcPool` stops, `up`); a child whose
daemon is gone spins on a `Recv()` that returns 0 (`process.cpp:249`). `CtrlIPC`
lists a command "mod" in its help (`ctrlipc.cpp:341`) that it does not dispatch (150-185):
nothing to model.
