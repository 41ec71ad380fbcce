------------------------------ MODULE ProcPool ------------------------------
(***************************************************************************)
(* A proxy module that serves each client in a process of its own, with    *)
(* the loader that loads, reconfigures and unloads it: mod_socks5, and in  *)
(* the same words mod_ftp, mod_pop3 and mod_ssl.                           *)
(*                                                                         *)
(* The daemon accepts a connection and passes its descriptor to an idle    *)
(* child, or forks one while there are less than MaxChildren; the child    *)
(* says when it is idle again.  A change of the configuration sends SIGHUP *)
(* to the children.  A module that is unloaded closes its listening socket *)
(* and goes when its children are idle; until then the loader keeps it, as *)
(* "quitting", and tries again at every tick.                              *)
(*                                                                         *)
(* The daemon is one thread: each of its events is one action here.  A     *)
(* child is a process of its own, with the daemon's socket as its only     *)
(* link: "inbox" and "outbox".                                             *)
(***************************************************************************)
EXTENDS Naturals, Sequences, FiniteSets

CONSTANTS
  MaxPid,       \* the processes are 1..MaxPid; fork() fails when they are used up
  Mortal,       \* those that may crash by themselves
  Conn,         \* the connections clients may open
  MinChildren,
  MaxChildren,
  CanForkFail,  \* whether fork() may fail at any time
  None          \* no connection

ASSUME ProcPoolAssumption ==
  /\ MaxPid \in Nat
  /\ MinChildren \in Nat
  /\ MaxChildren \in Nat
  /\ MinChildren <= MaxPid
  /\ Mortal \subseteq 1..MaxPid
  /\ CanForkFail \in BOOLEAN
  /\ None \notin Conn

Child == 1..MaxPid

VARIABLES
  module,     \* the module, as the loader and its own constructor see it
  listening,  \* ListeningSocket is open
  kids,       \* ProcessGroup::Children
  running,    \* the children with PROM_PROCF_RUNNING
  busy,       \* the children with PROM_PROCF_BUSY
  recving,    \* the children whose socket has an AsyncRecv() outstanding
  conn,       \* what has become of each connection
  up,         \* the daemon has survived what it deleted twice
  proc,       \* the child processes
  inbox,      \* inbox[c]: descriptors sent and not received yet: <<connection, num>>
  user,       \* user[c]: the connection that c serves, Client::User
  inherited,  \* inherited[c]: the descriptor c got from the daemon by fork()
  outbox      \* outbox[c]: "idle" messages that the daemon has not read

daemon   == <<module, listening, kids, running, busy, recving, up>>
children == <<proc, inbox, user, inherited, outbox>>
vars     == <<daemon, children, conn>>

Alive == {"forked", "awake", "select", "serving", "exiting"}

TypeOK ==
  /\ module \in {"loading", "up", "quitting", "gone"}
  /\ listening \in BOOLEAN
  /\ kids \in Seq(Child)
  /\ running \in SUBSET Child
  /\ busy \in SUBSET Child
  /\ recving \in SUBSET Child
  /\ conn \in [Conn -> {"new", "open", "served", "refused", "lost"}]
  /\ up \in BOOLEAN
  /\ proc \in [Child -> Alive \cup {"unborn", "dead"}]
  /\ inbox \in [Child -> {<<>>} \cup {<<m>> : m \in Conn \X (Conn \cup {None})}]
  /\ user \in [Child -> Conn \cup {None}]
  /\ inherited \in [Child -> Conn \cup {None}]
  /\ outbox \in [Child -> 0..1]

\* The constructor of ProcPool runs first of all.
Init ==
  /\ module = "loading"
  /\ listening = FALSE
  /\ kids = <<>>
  /\ running = {}
  /\ busy = {}
  /\ recving = {}
  /\ conn = [s \in Conn |-> "new"]
  /\ up = TRUE
  /\ proc = [c \in Child |-> "unborn"]
  /\ inbox = [c \in Child |-> <<>>]
  /\ user = [c \in Child |-> None]
  /\ inherited = [c \in Child |-> None]
  /\ outbox = [c \in Child |-> 0]

Kids == {kids[i] : i \in DOMAIN kids}

-----------------------------------------------------------------------------
(* The end of child processes *)

\* The connections that end when the processes S do.
HeldBy(S) ==
  {s \in Conn : \E c \in S :
     user[c] = s \/ \E i \in DOMAIN inbox[c] : inbox[c][i][1] = s}

\* The processes S are dead: the system closes what they had open.  What a dead
\* child left unread stays in "inbox": the daemon's end then has an error.
Bury(S) ==
  /\ proc' = [c \in Child |-> IF c \in S THEN "dead" ELSE proc[c]]
  /\ user' = [c \in Child |-> IF c \in S THEN None ELSE user[c]]
  /\ inherited' = [c \in Child |-> IF c \in S THEN None ELSE inherited[c]]
  /\ conn' = [s \in Conn |-> IF s \in HeldBy(S) /\ conn[s] = "open" THEN "lost" ELSE conn[s]]

\* ReloadCfg(), SIGHUP to every running child.  One that sleeps in select() with
\* nothing to read is interrupted, its loop ends and it exits; one that has not
\* set its handler yet ignores the signal; any other reads the configuration.
HangUp ==
  proc' = [c \in Child |->
             IF c \in Kids \cap running /\ proc[c] = "select" /\ inbox[c] = <<>>
             THEN "exiting" ELSE proc[c]]

-----------------------------------------------------------------------------
(* Loading *)

Unborn == {c \in Child : proc[c] = "unborn"}

\* The process that fork() makes.
NextPid == CHOOSE c \in Unborn : TRUE

\* Spawn() and AddChild(), for connection s or for None: the new process has a
\* descriptor of the connection that is open in the daemon.  OnFork() frees its
\* copies of the siblings and of the listening socket, and terminates nobody.
Spawn(s) ==
  /\ Unborn # {}
  /\ kids' = Append(kids, NextPid)
  /\ running' = running \cup {NextPid}
  /\ proc' = [proc EXCEPT ![NextPid] = "forked"]
  /\ inherited' = [inherited EXCEPT ![NextPid] = s]

\* ProcPool::Setup(): children are forked until there are MinChildren.  A fork()
\* that fails is tried again, for ever.
Fill ==
  /\ module = "loading"
  /\ Len(kids) < MinChildren
  /\ Spawn(None)
  /\ UNCHANGED <<module, listening, busy, recving, up, inbox, user, outbox, conn>>

\* The constructor of Proxy ends with ReloadCfg(): the socket listens, and the
\* children that were just forked get a SIGHUP.
Loaded ==
  /\ module = "loading"
  /\ Len(kids) >= MinChildren
  /\ module' = "up"
  /\ listening' = TRUE
  /\ HangUp
  /\ UNCHANGED <<kids, running, busy, recving, up, inbox, user, inherited, outbox, conn>>

-----------------------------------------------------------------------------
(* Accept() and ProcPool::ServeClient() *)

Idle(c) == c \in running /\ c \notin busy

NoneIdle == \A c \in Kids : ~Idle(c)

\* FindIdleProcess() finds the i-th child.
FirstIdle(i) ==
  /\ Idle(kids[i])
  /\ \A j \in 1..(i - 1) : ~Idle(kids[j])

\* Wrong: one child too many.
RoomForOneMore == Len(kids) <= MaxChildren

\* There are less than MaxChildren, those that are dead included.
MayFork == Len(kids) < MaxChildren

\* Wrong: the child is not told of the descriptor it has inherited.
NotToClose(s) == None

\* Serve(sock, forked = true): the number of the inherited descriptor is sent too.
ToClose(s) == s

\* Client::Serve() to child c that is there: the descriptor is sent.  Accept()
\* deletes the daemon's own afterwards.
Serve(c, s, num) ==
  /\ busy' = busy \cup {c}
  /\ recving' = recving \cup {c}
  /\ inbox' = [inbox EXCEPT ![c] = Append(@, <<s, num>>)]
  /\ conn' = [conn EXCEPT ![s] = "open"]

\* An idle child serves the connection.
ServeIdle(s) ==
  \E i \in DOMAIN kids :
    /\ FirstIdle(i)
    /\ proc[kids[i]] # "dead"
    /\ Serve(kids[i], s, None)
    /\ UNCHANGED <<kids, running, proc, inherited, up>>

\* The child is dead and AsyncRecv() finds the end of file at once: the child is
\* no longer RUNNING, and the connection is closed with Accept()'s own descriptor.
ServeDead(s) ==
  \E i \in DOMAIN kids :
    /\ FirstIdle(i)
    /\ proc[kids[i]] = "dead"
    /\ running' = running \ {kids[i]}
    /\ conn' = [conn EXCEPT ![s] = "lost"]
    /\ UNCHANGED <<kids, busy, recving, inbox, proc, inherited, up>>

\* A child is forked for the connection.
ServeForked(s) ==
  /\ NoneIdle
  /\ MayFork
  /\ Spawn(s)
  /\ Serve(NextPid, s, ToClose(s))
  /\ UNCHANGED up

\* Nobody can serve the connection: ServeClient() deletes the socket, and then
\* Accept() does, which the daemon may or may not survive.
Refuse(s) ==
  /\ NoneIdle
  /\ ~MayFork \/ CanForkFail \/ Unborn = {}
  /\ conn' = [conn EXCEPT ![s] = "refused"]
  /\ up' \in BOOLEAN
  /\ UNCHANGED <<kids, running, busy, recving, inbox, proc, inherited>>

Accept(s) ==
  /\ up
  /\ listening
  /\ conn[s] = "new"
  /\ ServeIdle(s) \/ ServeDead(s) \/ ServeForked(s) \/ Refuse(s)
  /\ UNCHANGED <<module, listening, user, outbox>>

-----------------------------------------------------------------------------
(* Process::SocketEvent() *)

\* The child is idle again.
ReadIdle(c) ==
  /\ outbox[c] > 0
  /\ outbox' = [outbox EXCEPT ![c] = 0]
  /\ busy' = busy \ {c}
  /\ UNCHANGED running

\* Wrong: a child that has gone stays BUSY.
BusyKept(c) == UNCHANGED busy

\* PROM_PROCF_BUSY is cleared at the end of SocketEvent().
BusyCleared(c) == busy' = busy \ {c}

\* End of file: the child is dead, with nothing unread.
ReadEOF(c) ==
  /\ outbox[c] = 0
  /\ proc[c] = "dead"
  /\ inbox[c] = <<>>
  /\ running' = running \ {c}
  /\ BusyCleared(c)
  /\ UNCHANGED outbox

\* An error: the child is dead and has not received what was sent.  There is no
\* Callback to call, and the child stays BUSY and RUNNING.
ReadError(c) ==
  /\ outbox[c] = 0
  /\ proc[c] = "dead"
  /\ inbox[c] # <<>>
  /\ UNCHANGED <<running, busy, outbox>>

SocketEvent(c) ==
  /\ up
  /\ c \in recving
  /\ ReadIdle(c) \/ ReadEOF(c) \/ ReadError(c)
  /\ recving' = recving \ {c}
  /\ UNCHANGED <<module, listening, kids, up, proc, inbox, user, inherited, conn>>

-----------------------------------------------------------------------------
(* The timer, the configuration, unloading *)

\* The list s without its i-th child.
Without(s, i) == SubSeq(s, 1, i - 1) \o SubSeq(s, i + 1, Len(s))

\* OnTimer() of a module that is up: Flush() terminates the first idle child, when
\* it is old enough.
Flush ==
  /\ up
  /\ module = "up"
  /\ Len(kids) > MinChildren
  /\ \E i \in DOMAIN kids :
       /\ FirstIdle(i)
       /\ kids' = Without(kids, i)
       /\ running' = running \ {kids[i]}
       /\ Bury({kids[i]})
  /\ UNCHANGED <<module, listening, busy, recving, up, inbox, outbox>>

\* Wrong: the first child answers for all of them.
FirstIsIdle == kids # <<>> => kids[1] \notin busy

AreIdle == Kids \cap busy = {}

\* Loader::Unload(), and Loader::OnTimer() for a module that is quitting: Cleanup()
\* closes the socket; the pool is deleted, its children terminated, when AreIdle().
Cleanup ==
  /\ up
  /\ listening' = FALSE
  /\ \/ /\ AreIdle
        /\ module' = "gone"
        /\ kids' = <<>>
        /\ running' = {}
        /\ recving' = {}
        /\ Bury(Kids \cap running)
     \/ /\ ~AreIdle
        /\ module' = "quitting"
        /\ UNCHANGED <<kids, running, recving, proc, user, inherited, conn>>
  /\ UNCHANGED <<busy, up, inbox, outbox>>

Unload == module = "up" /\ Cleanup

OnTimer == module = "quitting" /\ Cleanup

\* Loader::CfgChanged(), Proxy::ReloadCfg(): every module of the loader is told, one
\* that is quitting too.  Setup() listens (again).
CfgChanged ==
  /\ up
  /\ module \in {"up", "quitting"}
  /\ listening' = TRUE
  /\ HangUp
  /\ UNCHANGED <<module, kids, running, busy, recving, up, inbox, user, inherited,
                 outbox, conn>>

-----------------------------------------------------------------------------
(* A child process: Client::WaitRequest() *)

\* SIGHUP has its handler and the configuration was read.
ChildReady(c) ==
  /\ proc[c] = "forked"
  /\ proc' = [proc EXCEPT ![c] = "awake"]
  /\ UNCHANGED <<daemon, inbox, user, inherited, outbox, conn>>

ChildSelect(c) ==
  /\ proc[c] = "awake"
  /\ proc' = [proc EXCEPT ![c] = "select"]
  /\ UNCHANGED <<daemon, inbox, user, inherited, outbox, conn>>

\* RecvFD(), and the inherited descriptor is closed.
ChildReceive(c) ==
  /\ proc[c] = "select"
  /\ inbox[c] # <<>>
  /\ proc' = [proc EXCEPT ![c] = "serving"]
  /\ user' = [user EXCEPT ![c] = Head(inbox[c])[1]]
  /\ inherited' = [inherited EXCEPT ![c] = IF Head(inbox[c])[2] = None THEN @ ELSE None]
  /\ inbox' = [inbox EXCEPT ![c] = Tail(@)]
  /\ UNCHANGED <<daemon, outbox, conn>>

\* Wrong: the child says it is idle and goes on with the client.
IdleTooEarly(c) ==
  /\ proc[c] = "serving"
  /\ outbox[c] = 0
  /\ outbox' = [outbox EXCEPT ![c] = 1]
  /\ UNCHANGED <<daemon, proc, inbox, user, inherited, conn>>

\* Dispatch() ends: the connection is closed, and the daemon is told.
ChildIdle(c) ==
  /\ proc[c] = "serving"
  /\ proc' = [proc EXCEPT ![c] = "awake"]
  /\ conn' = [conn EXCEPT ![user[c]] = "served"]
  /\ user' = [user EXCEPT ![c] = None]
  /\ outbox' = [outbox EXCEPT ![c] = @ + 1]
  /\ UNCHANGED <<daemon, inbox, inherited>>

\* The loop of WaitRequest() has ended, or the child crashes.
Die(c) ==
  /\ proc[c] \in Alive
  /\ proc[c] = "exiting" \/ c \in Mortal
  /\ Bury({c})
  /\ UNCHANGED <<daemon, inbox, outbox>>

-----------------------------------------------------------------------------

Next ==
  \/ Fill
  \/ Loaded
  \/ \E s \in Conn : Accept(s)
  \/ Flush
  \/ Unload
  \/ OnTimer
  \/ CfgChanged
  \/ \E c \in Child :
       \/ SocketEvent(c)
       \/ ChildReady(c)
       \/ ChildSelect(c)
       \/ ChildReceive(c)
       \/ ChildIdle(c)
       \/ Die(c)

Spec == Init /\ [][Next]_vars

\* The daemon handles its sockets' events and its timer ticks, and each child that
\* is alive makes its way.  Dispatch() ends: the client goes, or is idle for too long.
Fairness ==
  /\ WF_vars(OnTimer)
  /\ \A c \in Child :
       /\ WF_vars(SocketEvent(c))
       /\ WF_vars(ChildReady(c))
       /\ WF_vars(ChildSelect(c))
       /\ WF_vars(ChildReceive(c))
       /\ WF_vars(ChildIdle(c))
       /\ WF_vars(proc[c] = "exiting" /\ Die(c))

FairSpec == Spec /\ Fairness

-----------------------------------------------------------------------------
(* Safety *)

\* The connections that child c has, or is about to receive.
HasConn(c, s) == user[c] = s \/ \E i \in DOMAIN inbox[c] : inbox[c][i][1] = s

\* A child that the daemon would choose next has no client and no late "idle" message
\* on its way.
IdleIsFree ==
  \A c \in Kids : Idle(c) => (outbox[c] = 0 /\ \A s \in Conn : ~HasConn(c, s))

\* An open connection is with one living child, which has no other.
OpenIsServed ==
  \A s \in Conn :
    conn[s] = "open" =>
      \E c \in Kids :
        /\ proc[c] \in Alive
        /\ HasConn(c, s)
        /\ \A d \in Child, t \in Conn :
             HasConn(d, t) /\ (d = c \/ t = s) => (d = c /\ t = s)

\* procpool.cpp, ServeClient() and client.cpp, WaitRequest(): a client has one process
\* and a process one client, in the view of both sides of their socket.
OneClientEach == TypeOK /\ IdleIsFree /\ OpenIsServed

\* Accept(), Serve() and WaitRequest(): when a connection is over no process still
\* has a descriptor of it, sent or inherited, so that the client sees it closed.
DescriptorsClosed ==
  \A s \in Conn :
    conn[s] \in {"served", "refused", "lost"} =>
      \A c \in Child : user[c] # s /\ inherited[c] # s

\* mod_socks5.cpp, manifest: maxchildren is "the maximum number of clients that can
\* be served at once", whatever children die, are flushed or are forked.
AtMostMaxChildren ==
  Cardinality({s \in Conn : conn[s] = "open"}) <=
    IF MinChildren > MaxChildren THEN MinChildren ELSE MaxChildren

\* mod_socks5.cpp, Cleanup(): "we must wait until all the clients have been
\* satisfied".  No step of the daemon cuts a client off, whether it unloads the
\* module, flushes idle children or forks: a connection is lost only when the child
\* that has it ends by itself, or exits after a SIGHUP.
LossIsNotOurs ==
  [][\A s \in Conn : conn[s] = "open" /\ conn'[s] = "lost" => UNCHANGED daemon]_vars

\* api.h, Cleanup: "It shouldn't accept new jobs after the first Cleanup() call
\* anyway."
NoJobsAfterCleanup ==
  [][\A s \in Conn :
       module \in {"quitting", "gone"} /\ conn[s] = "new" => conn'[s] = "new"]_vars

(* Liveness *)

\* The child has died before it received what it was sent: the daemon sees, or saw,
\* an error on its socket.
Unread(c) == proc[c] = "dead" /\ inbox[c] # <<>>

\* loader.cpp: a module that is quitting is unloaded in the end, unless one of its
\* children died with a connection unread, and stays BUSY for ever.
EventuallyUnloaded ==
  module = "quitting" ~> (module = "gone" \/ ~up \/ \E c \in Kids : Unread(c))
=============================================================================
