-------------------------- MODULE DaemonProofs --------------------------
(***************************************************************************)
(* Theorems about Daemon: about ProcessLife, for any number of children,   *)
(* one after the other, whenever signals come and children crash; about    *)
(* Admin, for any daemons, modules, configurations and commands; and about *)
(* CfgRequest, for any requests, however they are cut on their way.        *)
(***************************************************************************)
EXTENDS Daemon, SequenceTheorems, FiniteSetTheorems, WellFoundedInduction, TLAPS

\* The daemon is in Wait().
Waiting == pc \in {"test", "sleep", "suspend"}

\* core.cpp, InitWait() and Wait(): SIGUSR1 is sent once for each child, while the daemon
\* is in Wait(), and until it has come there is nothing that ends the loop.
Handshake ==
  /\ proc = "starting" => Waiting /\ ~lastSig
  /\ usr1 => Waiting /\ ~lastSig /\ proc # "starting"
  /\ pc = "fork" => proc \in {"none", "reaped"} /\ ~lastSig /\ forks < MaxForks
  /\ running => pc \in {"main", "waitpid"}
  /\ pc = "waitpid" => running

\* process.cpp, SendRequest(), and the loop of WaitRequest(): a request is in the socket,
\* or with the child, or its answer is in the socket, and while it is the child is BUSY.
OneRequest ==
  /\ request => busy /\ ~answer /\ proc \notin {"none", "starting", "dispatch"}
  /\ proc = "dispatch" => busy /\ ~answer
  /\ answer => busy

LifeInv == LifeSound /\ Handshake /\ OneRequest

\* Before the first fork() the invariant holds.
LEMMA LifeInit == Init => LifeInv
<1> SUFFICES ASSUME Init
             PROVE  LifeInv
  OBVIOUS
<1>1. TypeOK
  <2>1. {lastSig, blocked, oldMask, usr1, quit, running, busy, request, answer} \subseteq BOOLEAN
    BY DEF Init
  <2>2. forks \in 0..MaxForks
    BY ProcessLifeAssumption DEF Init
  <2>3. QED
    BY <2>1, <2>2 DEF Init, TypeOK
<1>2. ForkHandshake /\ NotRunningIsDead /\ Handshake /\ OneRequest
  BY DEF Init, ForkHandshake, NotRunningIsDead, Handshake, Waiting, OneRequest
<1>3. QED
  BY <1>1, <1>2 DEF LifeInv, LifeSound

\* Every step of the parent, of the child and of a signal keeps it.
LEMMA LifeStep == LifeInv /\ [Next]_vars => LifeInv'
<1> SUFFICES ASSUME LifeInv, [Next]_vars
             PROVE  LifeInv'
  OBVIOUS
<1> USE ProcessLifeAssumption
    DEF LifeInv, LifeSound, TypeOK, Alive, Ended, ForkHandshake, NotRunningIsDead,
        Handshake, Waiting, OneRequest, daemon
<1>1. CASE InitWait
  <2>1. oldMask' = blocked /\ blocked' = TRUE /\ lastSig' = FALSE
    BY <1>1 DEF InitWait, BlockUsr1
  <2>2. TypeOK'
    <3>1. {oldMask', blocked', lastSig'} \subseteq BOOLEAN
      BY <2>1
    <3>2. QED
      BY <1>1, <3>1 DEF InitWait
  <2>3. ForkHandshake' /\ NotRunningIsDead' /\ Handshake' /\ OneRequest'
    BY <1>1, <2>1 DEF InitWait
  <2>4. QED
    BY <2>2, <2>3
<1>2. CASE Fork
  <2>1. busy' = FALSE /\ request' = FALSE /\ answer' = FALSE
    BY <1>2 DEF Fork
  <2>2. TypeOK'
    <3>1. {busy', request', answer'} \subseteq BOOLEAN
      BY <2>1
    <3>2. QED
      BY <1>2, <2>1, <3>1 DEF Fork
  <2>3. ForkHandshake' /\ NotRunningIsDead' /\ Handshake' /\ OneRequest'
    BY <1>2, <2>1 DEF Fork
  <2>4. QED
    BY <2>2, <2>3
<1>3. CASE ForkFails
  BY <1>3 DEF ForkFails
<1>4. CASE WaitSleeps
  BY <1>4 DEF WaitSleeps
<1>5. CASE WaitReturns
  BY <1>5 DEF WaitReturns, Woken
<1>6. CASE SigUsr1
  BY <1>6 DEF SigUsr1, Interrupted
<1>7. CASE SigChld
  BY <1>7 DEF SigChld, Interrupted
<1>8. CASE SigTerm
  BY <1>8 DEF SigTerm, Interrupted
<1>9. CASE SendRequest
  BY <1>9 DEF SendRequest, SetBusy
<1>10. CASE ReadAnswer
  BY <1>10 DEF ReadAnswer
<1>11. CASE ChildGone
  BY <1>11 DEF ChildGone
<1>12. CASE Kill
  BY <1>12 DEF Kill, MayTerminate
<1>13. CASE KillFails
  BY <1>13 DEF KillFails, MayTerminate
<1>14. CASE Terminated
  BY <1>14 DEF Terminated, WaitpidReturns
<1>15. CASE Exit
  BY <1>15 DEF Exit
<1>16. CASE WakeUpParent
  BY <1>16 DEF WakeUpParent
<1>17. CASE Select
  BY <1>17 DEF Select
<1>18. CASE WaitRequest
  BY <1>18 DEF WaitRequest
<1>19. CASE Dispatch
  BY <1>19 DEF Dispatch
<1>20. CASE Crash
  BY <1>20 DEF Crash
<1>21. CASE UNCHANGED vars
  BY <1>21 DEF vars
<1>22. QED
  BY <1>1, <1>2, <1>3, <1>4, <1>5, <1>6, <1>7, <1>8, <1>9, <1>10, <1>11, <1>12, <1>13, <1>14,
     <1>15, <1>16, <1>17, <1>18, <1>19, <1>20, <1>21
     DEF Next, ForkSteps, Signals, IPC, TerminateSteps, ChildSteps

\* core.cpp, Fork(), and process.cpp, Terminate() and SocketEvent(): a child that is in use
\* has let go of the daemon's sockets, and when the daemon takes one for gone its process
\* has ended, whoever has reaped it.
THEOREM NoProcessIsForgotten == Spec => []LifeSound
<1>1. Spec => []LifeInv
  BY LifeInit, LifeStep, PTL DEF Spec
<1>2. LifeInv => LifeSound
  BY DEF LifeInv
<1>3. QED
  BY <1>1, <1>2, PTL

-----------------------------------------------------------------------------
(* How daemons are started, told what to do and stopped *)

Names    == Control!Names
Kinds    == {"absent", "off", "on"}
Phases   == {"off", "forked", "alone", "created", "loading", "main", "dead"}
Instance == [name : Names, listening : BOOLEAN, busy : BOOLEAN, quitting : BOOLEAN]
Process  == [phase : Phases, run : BOOLEAN, cfg : [Names -> Kinds], next : Nat,
             mods : Seq(Instance), cut : BOOLEAN, missing : SUBSET Names, silent : BOOLEAN,
             told : BOOLEAN, early : BOOLEAN, twice : BOOLEAN, reloaded : BOOLEAN]
Host     == [pid : BOOLEAN, sock : SUBSET Daemons, d : [Daemons -> Process],
             file : [Names -> Kinds], starts : Nat, ops : Nat, raced : BOOLEAN,
             left : BOOLEAN, torn : SUBSET Names]

\* core.cpp: what tells a process to quit finds it running, or its modules being loaded.
Heeds(p) ==
  /\ p.phase \in {"forked", "alone", "created"} => ~p.told
  /\ p.told /\ (p.phase = "loading" \/ p.run) => p.early

\* loader.cpp: it has modules only once it loads them, each from a key it has come to, and if
\* nothing cuts it short all that are enabled up to there.
Loads(p) == p.phase \in {"loading", "main"}
Blank(p) == ~Loads(p) => p.mods = <<>> /\ p.next = 1
Keys(p)  == {Modules[k] : k \in {l \in DOMAIN Modules : l < p.next}}
Runs(p, name) == \E i \in DOMAIN p.mods : p.mods[i].name = name
Filled(p) ==
  p.phase = "loading" =>
    /\ p.next \in 1..(Len(Modules) + 1)
    /\ \A i \in DOMAIN p.mods : p.mods[i].name \in Keys(p)
    /\ ~p.cut => \A n \in Keys(p) : p.cfg[n] = "on" => Runs(p, n)
Missed(p)    == (p.missing # {} => p.cut) /\ Heeds(p)
ProcessOk(p) == p \in Process /\ Blank(p) /\ Filled(p) /\ Missed(p)

\* The modules of a process that is alone.
Proper(mods, reloaded) ==
  \A i \in DOMAIN mods :
    /\ \A j \in DOMAIN mods : mods[j].name = mods[i].name => j = i
    /\ mods[i].listening \/ mods[i].quitting
    /\ mods[i].quitting /\ mods[i].listening => reloaded
Sole(p) == p.twice \/ Proper(p.mods, p.reloaded)

\* core.cpp: while a daemon is up no other is, nor is about to be, and it has the names; when
\* none is, they are there only if one ended without a word.
Up(p) == p.phase \in {"created", "loading", "main"}
Named(v) ==
  /\ \A d, e \in Daemons :
       Up(v.d[d]) /\ (Up(v.d[e]) \/ v.d[e].phase = "alone") => d = e
  /\ \A d \in Daemons : Up(v.d[d]) => v.pid /\ (Loads(v.d[d]) => v.sock = {d})
  /\ v.pid /\ (\A d \in Daemons : ~Up(v.d[d])) => v.left

HostOk(v) ==
  /\ v \in Host
  /\ \A d \in Daemons : ProcessOk(v.d[d])
  /\ v.torn \subseteq {"mod_cfg"}
  /\ ~v.raced => Named(v) /\ \A d \in Daemons : Sole(v.d[d])

\* What the constants are.
LEMMA Configured ==
  /\ Len(Modules) \in Nat /\ DOMAIN Modules = 1..Len(Modules)
  /\ Names = {Modules[k] : k \in DOMAIN Modules}
  /\ \A k, l \in DOMAIN Modules : Modules[k] = Modules[l] => k = l
  /\ Configs \subseteq [Names -> Kinds]
  <1>1. Modules \in Seq(STRING)  BY DaemonAssumption DEF Control!AdminAssumption
  <1>2. Control!IsInjective(Modules)  BY DaemonAssumption DEF Control!AdminAssumption
  <1>3. \A k, l \in DOMAIN Modules : Modules[k] = Modules[l] => k = l
    BY <1>2 DEF Control!IsInjective
  <1>4. Names = {Modules[k] : k \in DOMAIN Modules}  BY DEF Names, Control!Names, Control!ToSet
  <1>5. Configs \subseteq [Names -> Kinds]
    BY DaemonAssumption DEF Control!AdminAssumption, Names, Kinds
  <1>6. Len(Modules) \in Nat /\ DOMAIN Modules = 1..Len(Modules)  BY <1>1
  <1> QED BY <1>3, <1>4, <1>5, <1>6

\* A process of the daemon and what there is besides.
LEMMA PutIs ==
  ASSUME NEW v, HostOk(v), NEW d \in Daemons, NEW q, ProcessOk(q)
  PROVE  LET w == [v EXCEPT !.d[d] = q]
         IN /\ w \in Host
            /\ \A e \in Daemons : ProcessOk(w.d[e])
            /\ w.d[d] = q /\ \A e \in Daemons : e # d => w.d[e] = v.d[e]
            /\ w.pid = v.pid /\ w.sock = v.sock /\ w.file = v.file /\ w.ops = v.ops
            /\ w.raced = v.raced /\ w.left = v.left /\ w.torn = v.torn
  <1>1. PICK w : w = [v EXCEPT !.d[d] = q]  OBVIOUS
  <1>2. v \in Host /\ v.d \in [Daemons -> Process]  BY DEF HostOk, Host
  <1>3. q \in Process  BY DEF ProcessOk
  <1>4. w \in Host  BY <1>1, <1>2, <1>3 DEF Host
  <1>5. w.d[d] = q /\ \A e \in Daemons : e # d => w.d[e] = v.d[e]  BY <1>1, <1>2 DEF Host
  <1>6. /\ w.pid = v.pid /\ w.sock = v.sock /\ w.file = v.file /\ w.ops = v.ops
        /\ w.raced = v.raced /\ w.left = v.left /\ w.torn = v.torn
    BY <1>1, <1>2 DEF Host
  <1>7. \A e \in Daemons : ProcessOk(w.d[e])  BY <1>5 DEF HostOk
  <1> QED BY <1>1, <1>4, <1>5, <1>6, <1>7

\* What became of the others.
Moved(v, w, d, q) ==
  /\ w \in Host
  /\ \A e \in Daemons : ProcessOk(w.d[e])
  /\ w.d[d] = q /\ \A e \in Daemons : e # d => w.d[e] = v.d[e]
  /\ w.torn = v.torn

\* A process that becomes q, where nothing else changes, has moved.
LEMMA MovedIs ==
  ASSUME NEW v, HostOk(v), NEW d \in Daemons, NEW q, ProcessOk(q), NEW u,
         u = [v EXCEPT !.d[d] = q]
  PROVE  /\ Moved(v, u, d, q)
         /\ u.pid = v.pid /\ u.sock = v.sock /\ u.left = v.left /\ u.raced = v.raced
  <1>1. /\ u \in Host
        /\ \A e \in Daemons : ProcessOk(u.d[e])
        /\ u.d[d] = q /\ \A e \in Daemons : e # d => u.d[e] = v.d[e]
        /\ u.pid = v.pid /\ u.sock = v.sock
        /\ u.raced = v.raced /\ u.left = v.left /\ u.torn = v.torn
    BY ONLY HostOk(v), d \in Daemons, ProcessOk(q), u = [v EXCEPT !.d[d] = q], PutIs
  <1> QED BY <1>1 DEF Moved

\* One of them does something, and stays what it is.
LEMMA PutOk ==
  ASSUME NEW v, HostOk(v), NEW d \in Daemons, NEW q, ProcessOk(q), v.raced \/ Sole(q),
         q.phase = v.d[d].phase \/ (Loads(q) /\ Loads(v.d[d]))
  PROVE  HostOk([v EXCEPT !.d[d] = q])
  <1>1. PICK w : w = [v EXCEPT !.d[d] = q]  OBVIOUS
  <1>2. /\ w \in Host
        /\ \A e \in Daemons : ProcessOk(w.d[e])
        /\ w.d[d] = q /\ \A e \in Daemons : e # d => w.d[e] = v.d[e]
        /\ w.pid = v.pid /\ w.sock = v.sock
        /\ w.raced = v.raced /\ w.left = v.left /\ w.torn = v.torn
    BY <1>1, PutIs
  <1>3. \A e \in Daemons :
          /\ Up(w.d[e]) <=> Up(v.d[e])
          /\ Loads(w.d[e]) <=> Loads(v.d[e])
          /\ w.d[e].phase = "alone" <=> v.d[e].phase = "alone"
    BY <1>2 DEF Up, Loads
  <1>4. ASSUME ~w.raced
        PROVE  Named(w) /\ \A e \in Daemons : Sole(w.d[e])
    <2>1. Named(v) /\ \A e \in Daemons : Sole(v.d[e])  BY <1>2, <1>4 DEF HostOk
    <2>2. Named(w)  BY <1>2, <1>3, <2>1 DEF Named
    <2> QED BY <1>2, <1>4, <2>1, <2>2
  <1> QED BY <1>1, <1>2, <1>4 DEF HostOk

\* The bounds and the file of settings have nothing to do with it.
LEMMA OpsOk ==
  ASSUME NEW v, HostOk(v), NEW n \in Nat
  PROVE  HostOk([v EXCEPT !.ops = n])
  <1>1. PICK w : w = [v EXCEPT !.ops = n]  OBVIOUS
  <1>2. w \in Host  BY <1>1 DEF HostOk, Host
  <1>3. /\ w.d = v.d /\ w.pid = v.pid /\ w.sock = v.sock
        /\ w.raced = v.raced /\ w.left = v.left /\ w.torn = v.torn
    BY <1>1 DEF HostOk, Host
  <1>4. Named(v) => Named(w)  BY <1>3 DEF Named
  <1> QED BY <1>1, <1>2, <1>3, <1>4 DEF HostOk

\* Nor has the file of settings that is saved.
LEMMA FileOk ==
  ASSUME NEW v, HostOk(v), NEW f \in [Names -> Kinds]
  PROVE  HostOk([v EXCEPT !.file = f])
  <1>1. PICK w : w = [v EXCEPT !.file = f]  OBVIOUS
  <1>2. w \in Host  BY <1>1 DEF HostOk, Host
  <1>3. /\ w.d = v.d /\ w.pid = v.pid /\ w.sock = v.sock
        /\ w.raced = v.raced /\ w.left = v.left /\ w.torn = v.torn
    BY <1>1 DEF HostOk, Host
  <1>4. Named(v) => Named(w)  BY <1>3 DEF Named
  <1> QED BY <1>1, <1>2, <1>3, <1>4 DEF HostOk

\* A module was told to go while a request was in it.
LEMMA TornOk ==
  ASSUME NEW v, HostOk(v), NEW S, S \subseteq {"mod_cfg"} \cap Names
  PROVE  HostOk([v EXCEPT !.torn = @ \cup S])
  <1>1. PICK w : w = [v EXCEPT !.torn = @ \cup S]  OBVIOUS
  <1>2. w \in Host  BY <1>1 DEF HostOk, Host
  <1>3. /\ w.d = v.d /\ w.pid = v.pid /\ w.sock = v.sock
        /\ w.raced = v.raced /\ w.left = v.left /\ w.torn = v.torn \cup S
    BY <1>1 DEF HostOk, Host
  <1>4. Named(v) => Named(w)  BY <1>3 DEF Named
  <1> QED BY <1>1, <1>2, <1>3, <1>4 DEF HostOk

-----------------------------------------------------------------------------
(* Modules *)

\* With other modules a process is what it was, once it has loaded them.
LEMMA ModsOk ==
  ASSUME NEW p, ProcessOk(p), p.phase = "main", NEW m \in Seq(Instance)
  PROVE  LET q == [p EXCEPT !.mods = m]
         IN /\ ProcessOk(q) /\ q.phase = p.phase /\ q.mods = m
            /\ q.twice = p.twice /\ q.reloaded = p.reloaded
  <1>1. PICK q : q = [p EXCEPT !.mods = m]  OBVIOUS
  <1>2. p \in Process  BY DEF ProcessOk
  <1>3. q \in Process  BY <1>1, <1>2 DEF Process
  <1>4. /\ q.phase = p.phase /\ q.mods = m /\ q.missing = p.missing /\ q.cut = p.cut
        /\ q.twice = p.twice /\ q.reloaded = p.reloaded
        /\ q.told = p.told /\ q.run = p.run /\ q.early = p.early
    BY <1>1, <1>2 DEF Process
  <1>5. Blank(q) /\ Filled(q)  BY <1>4 DEF Blank, Filled, Loads
  <1>6. Missed(q)  BY <1>4 DEF Missed, Heeds, ProcessOk
  <1> QED BY <1>1, <1>3, <1>4, <1>5, <1>6 DEF ProcessOk

\* The port of a module that no process runs is free.
LEMMA PortIsFree ==
  ASSUME NEW v, HostOk(v), ~v.raced, NEW d \in Daemons, Loads(v.d[d]),
         NEW name, ~Runs(v.d[d], name)
  PROVE  Control!PortFree(v, name)
  <1>1. SUFFICES ASSUME NEW e \in Daemons, NEW i \in 1..Len(v.d[e].mods)
                 PROVE  ~(v.d[e].mods[i].name = name /\ v.d[e].mods[i].listening)
    BY DEF Control!PortFree
  <1>2. v.d[e].mods \in Seq(Instance)  BY DEF HostOk, ProcessOk, Process
  <1>3. i \in DOMAIN v.d[e].mods  BY <1>1, <1>2
  <1>4. e = d
    <2>1. v.d[e].mods # <<>>  BY <1>3
    <2>2. Loads(v.d[e])  BY <2>1 DEF HostOk, ProcessOk, Blank
    <2>3. Up(v.d[e]) /\ Up(v.d[d])  BY <2>2 DEF Loads, Up
    <2> QED BY <2>3 DEF HostOk, Named
  <1> QED BY <1>3, <1>4 DEF Runs

\* A module that did not run runs now, and listens.
LEMMA OneMore ==
  ASSUME NEW mods \in Seq(Instance), NEW r \in Instance, NEW reloaded, Proper(mods, reloaded),
         r.listening, ~r.quitting, \A i \in DOMAIN mods : mods[i].name # r.name
  PROVE  Proper(Append(mods, r), reloaded)
  <1>1. PICK a : a = Append(mods, r)  OBVIOUS
  <1>2. PICK n \in Nat : n = Len(mods)  OBVIOUS
  <1>3. DOMAIN mods = 1..n /\ DOMAIN a = 1..(n + 1)  BY <1>1, <1>2
  <1>4. a[n + 1] = r /\ \A i \in 1..n : a[i] = mods[i]  BY <1>1, <1>2
  <1>5. \A i \in DOMAIN a : i = n + 1 \/ i \in 1..n  BY <1>3
  <1>6. \A i \in DOMAIN a, j \in DOMAIN a : a[j].name = a[i].name => j = i
    BY <1>3, <1>4, <1>5 DEF Proper
  <1>7. \A i \in DOMAIN a : /\ a[i].listening \/ a[i].quitting
                            /\ a[i].quitting /\ a[i].listening => reloaded
    BY <1>3, <1>4, <1>5 DEF Proper
  <1> QED BY <1>1, <1>6, <1>7 DEF Proper

\* Loader::Load(): nothing, or one more module of the name.
New(v, name) == [name |-> name, listening |-> Control!PortFree(v, name),
                 busy |-> FALSE, quitting |-> FALSE]

\* A module that is loaded has a name, and three flags.
LEMMA NewIs ==
  ASSUME NEW v, NEW name \in Names
  PROVE  New(v, name) \in Instance
BY DEF New, Instance, Control!PortFree

\* Loader::Load() appends it, if its settings allow it.
LEMMA LoadIs ==
  ASSUME NEW v, NEW d, NEW name, NEW force
  PROVE  Control!Load(v, d, name, force) =
           IF v.d[d].cfg[name] = "on" \/ (force /\ v.d[d].cfg[name] = "off")
           THEN [v EXCEPT !.d[d] = [v.d[d] EXCEPT !.mods = Append(v.d[d].mods, New(v, name))]]
           ELSE v
BY DEF Control!Load, New

\* In the main loop, a module that does not run is loaded, or one that runs is noted.
LEMMA LoadOk ==
  ASSUME NEW v, HostOk(v), NEW d \in Daemons, NEW name \in Names, NEW force,
         v.d[d].phase = "main", v.d[d].twice \/ ~Runs(v.d[d], name)
  PROVE  HostOk(Control!Load(v, d, name, force))
  <1>1. PICK p : p = v.d[d]  OBVIOUS
  <1>2. PICK r \in Instance : r = New(v, name)  BY NewIs
  <1>3. ProcessOk(p)  BY <1>1 DEF HostOk
  <1>4. p.mods \in Seq(Instance)  BY <1>3 DEF ProcessOk, Process
  <1>5. PICK m \in Seq(Instance) : m = Append(p.mods, r)
    <2>1. Append(p.mods, r) \in Seq(Instance)  BY <1>4
    <2> QED BY <2>1
  <1>6. PICK q : q = [p EXCEPT !.mods = m]  OBVIOUS
  <1>7. /\ ProcessOk(q) /\ q.phase = p.phase /\ q.mods = m
        /\ q.twice = p.twice /\ q.reloaded = p.reloaded
    BY <1>1, <1>6, <1>3, ModsOk
  <1>8. v.raced \/ Sole(q)
    <2>1. SUFFICES ASSUME ~v.raced, ~p.twice  PROVE Proper(q.mods, q.reloaded)
      BY <1>7 DEF Sole
    <2>2. ~Runs(p, name) /\ Loads(p)  BY <1>1, <2>1 DEF Loads
    <2>3. Control!PortFree(v, name)  BY <1>1, <2>1, <2>2, PortIsFree
    <2>4. r.listening /\ ~r.quitting /\ r.name = name  BY <1>2, <2>3 DEF New
    <2>5. Proper(p.mods, p.reloaded)  BY <1>1, <2>1 DEF HostOk, Sole
    <2>6. \A i \in DOMAIN p.mods : p.mods[i].name # r.name  BY <2>2, <2>4 DEF Runs
    <2> QED BY <1>4, <1>5, <1>7, <2>4, <2>5, <2>6, OneMore
  <1>9. HostOk([v EXCEPT !.d[d] = q])  BY <1>1, <1>7, <1>8, PutOk
  <1>10. Control!Load(v, d, name, force) \in {v, [v EXCEPT !.d[d] = q]}
    BY <1>1, <1>2, <1>6, <1>5, LoadIs
  <1> QED BY <1>9, <1>10

\* All but one element of a sequence.
LEMMA RemoveAtIs ==
  ASSUME NEW S, NEW s \in Seq(S), NEW i \in 1..Len(s)
  PROVE  LET r == Control!RemoveAt(s, i)
         IN /\ r \in Seq(S) /\ Len(r) = Len(s) - 1
            /\ \A k \in 1..Len(r) : r[k] = IF k < i THEN s[k] ELSE s[k + 1]
  <1>1. PICK n \in Nat : n = Len(s)  OBVIOUS
  <1>2. i \in 1..n  BY <1>1
  <1>3. PICK a : a = SubSeq(s, 1, i - 1)  OBVIOUS
  <1>4. PICK b : b = SubSeq(s, i + 1, n)  OBVIOUS
  <1>5. a \in Seq(S) /\ Len(a) = i - 1 /\ \A k \in 1..(i - 1) : a[k] = s[k]
    BY <1>1, <1>2, <1>3
  <1>6. b \in Seq(S) /\ Len(b) = n - i /\ \A k \in 1..(n - i) : b[k] = s[k + i]
    BY <1>1, <1>2, <1>4
  <1>7. PICK r : r = a \o b  OBVIOUS
  <1>8. /\ r \in Seq(S) /\ Len(r) = Len(a) + Len(b)
        /\ \A k \in 1..(Len(a) + Len(b)) :
             r[k] = IF k <= Len(a) THEN a[k] ELSE b[k - Len(a)]
    <2>1. a \in Seq(S) /\ b \in Seq(S)  BY <1>5, <1>6
    <2> QED BY <1>7, <2>1, ConcatProperties
  <1>9. r \in Seq(S) /\ Len(r) = n - 1
    <2>1. Len(a) = i - 1 /\ Len(b) = n - i  BY <1>5, <1>6
    <2> QED BY <1>2, <1>8, <2>1
  <1>10. ASSUME NEW k \in 1..(n - 1)
        PROVE  r[k] = IF k < i THEN s[k] ELSE s[k + 1]
    <2>1. CASE k < i
      <3>1. r[k] = a[k]  BY <1>2, <1>5, <1>6, <1>8, <2>1
      <3> QED BY <1>2, <1>5, <2>1, <3>1
    <2>2. CASE ~(k < i)
      <3>1. PICK j : j = k - (i - 1)  OBVIOUS
      <3>2. j \in 1..(n - i) /\ j + i = k + 1  BY <1>2, <2>2, <3>1
      <3>3. r[k] = b[j]  BY <1>2, <1>5, <1>6, <1>8, <2>2, <3>1
      <3>4. b[j] = s[k + 1]  BY <1>6, <3>2
      <3> QED BY <2>2, <3>3, <3>4
    <2> QED BY <2>1, <2>2
  <1>11. Control!RemoveAt(s, i) = r  BY <1>1, <1>3, <1>4, <1>7 DEF Control!RemoveAt
  <1> QED BY <1>1, <1>9, <1>10, <1>11

\* One module less.
LEMMA OneLess ==
  ASSUME NEW mods \in Seq(Instance), NEW i \in 1..Len(mods), NEW reloaded, Proper(mods, reloaded)
  PROVE  Proper(Control!RemoveAt(mods, i), reloaded)
  <1>1. PICK r : r = Control!RemoveAt(mods, i)  OBVIOUS
  <1>2. /\ r \in Seq(Instance) /\ Len(r) = Len(mods) - 1
        /\ \A k \in 1..Len(r) : r[k] = IF k < i THEN mods[k] ELSE mods[k + 1]
    BY <1>1, RemoveAtIs
  <1>3. DOMAIN r = 1..Len(r) /\ DOMAIN mods = 1..Len(mods) /\ Len(mods) \in Nat  BY <1>2
  <1>4. PICK f : f = [k \in DOMAIN r |-> IF k < i THEN k ELSE k + 1]  OBVIOUS
  <1>5. \A k \in DOMAIN r : f[k] \in DOMAIN mods /\ r[k] = mods[f[k]]  BY <1>2, <1>3, <1>4
  <1>6. \A k, l \in DOMAIN r : f[k] = f[l] => k = l  BY <1>3, <1>4
  <1>7. Proper(r, reloaded)  BY <1>5, <1>6 DEF Proper
  <1> QED BY <1>1, <1>7

\* One that quits.
LEMMA OneQuits ==
  ASSUME NEW mods \in Seq(Instance), NEW i \in 1..Len(mods), NEW reloaded, Proper(mods, reloaded),
         NEW r \in Instance, r.name = mods[i].name, ~r.listening, r.quitting
  PROVE  Proper([mods EXCEPT ![i] = r], reloaded)
  <1>1. PICK a : a = [mods EXCEPT ![i] = r]  OBVIOUS
  <1>2. i \in DOMAIN mods /\ DOMAIN a = DOMAIN mods  BY <1>1
  <1>3. a[i] = r /\ \A k \in DOMAIN mods : k # i => a[k] = mods[k]  BY <1>1, <1>2
  <1>4. \A k \in DOMAIN a : a[k].name = mods[k].name  BY <1>2, <1>3
  <1>5. Proper(a, reloaded)  BY <1>2, <1>3, <1>4 DEF Proper
  <1> QED BY <1>1, <1>5

\* A module's Cleanup().
Quitting(m) == [m EXCEPT !.listening = FALSE, !.quitting = TRUE]
Rest(mods, i) == IF mods[i].busy THEN [mods EXCEPT ![i] = Quitting(mods[i])]
                 ELSE Control!RemoveAt(mods, i)

\* Module::Cleanup() changes the list of modules and nothing else.
LEMMA CleanupIs ==
  ASSUME NEW v, NEW d, NEW i
  PROVE  Control!Cleanup(v, d, i) =
           [v EXCEPT !.d[d] = [v.d[d] EXCEPT !.mods = Rest(v.d[d].mods, i)]]
BY DEF Control!Cleanup, Rest, Quitting

\* The modules before it stay where they are, and what is proper stays so.
LEMMA RestIs ==
  ASSUME NEW mods \in Seq(Instance), NEW i \in 1..Len(mods)
  PROVE  /\ Rest(mods, i) \in Seq(Instance)
         /\ \A reloaded : Proper(mods, reloaded) => Proper(Rest(mods, i), reloaded)
         /\ \A k \in 1..(i - 1) : Rest(mods, i)[k] = mods[k]
         /\ Len(Rest(mods, i)) >= i - 1
  <1>1. CASE mods[i].busy
    <2>1. PICK r : r = Quitting(mods[i])  OBVIOUS
    <2>2. mods[i] \in Instance  OBVIOUS
    <2>3. r \in Instance /\ r.name = mods[i].name /\ ~r.listening /\ r.quitting
      BY <2>1, <2>2 DEF Quitting, Instance
    <2>4. Rest(mods, i) = [mods EXCEPT ![i] = r]  BY <1>1, <2>1 DEF Rest
    <2>5. [mods EXCEPT ![i] = r] \in Seq(Instance) /\ Len([mods EXCEPT ![i] = r]) = Len(mods)
      BY <2>3
    <2>6. \A k \in 1..(i - 1) : [mods EXCEPT ![i] = r][k] = mods[k]  OBVIOUS
    <2>7. ASSUME NEW reloaded, Proper(mods, reloaded)
          PROVE  Proper([mods EXCEPT ![i] = r], reloaded)
      BY <2>3, <2>7, OneQuits
    <2>8. Len(mods) \in Nat  OBVIOUS
    <2>9. PICK a : a = [mods EXCEPT ![i] = r]  OBVIOUS
    <2>10. Rest(mods, i) = a /\ a \in Seq(Instance) /\ Len(a) >= i - 1  BY <2>4, <2>5, <2>8, <2>9
    <2> QED BY <2>6, <2>7, <2>9, <2>10
  <1>2. CASE ~mods[i].busy
    <2>1. PICK r : r = Control!RemoveAt(mods, i)  OBVIOUS
    <2>2. Rest(mods, i) = r  BY <1>2, <2>1 DEF Rest
    <2>3. /\ r \in Seq(Instance) /\ Len(r) = Len(mods) - 1
          /\ \A k \in 1..Len(r) : r[k] = IF k < i THEN mods[k] ELSE mods[k + 1]
      BY <2>1, RemoveAtIs
    <2>4. \A reloaded : Proper(mods, reloaded) => Proper(r, reloaded)  BY <2>1, OneLess
    <2>5. \A k \in 1..(i - 1) : r[k] = mods[k]  BY <2>3
    <2> QED BY <2>2, <2>3, <2>4, <2>5
  <1> QED BY <1>1, <1>2

\* A module is told to quit, or is gone.
LEMMA CleanupOk ==
  ASSUME NEW v, HostOk(v), NEW d \in Daemons, v.d[d].phase = "main",
         NEW i \in 1..Len(v.d[d].mods)
  PROVE  LET w == Control!Cleanup(v, d, i)
         IN HostOk(w) /\ w.d[d].phase = "main" /\ Len(w.d[d].mods) >= i - 1
  <1>1. PICK p : p = v.d[d]  OBVIOUS
  <1>2. ProcessOk(p) /\ p.mods \in Seq(Instance)  BY <1>1 DEF HostOk, ProcessOk, Process
  <1>3. PICK m : m = Rest(p.mods, i)  OBVIOUS
  <1>4. /\ m \in Seq(Instance) /\ Len(m) >= i - 1
        /\ \A reloaded : Proper(p.mods, reloaded) => Proper(m, reloaded)
    BY <1>1, <1>2, <1>3, RestIs
  <1>5. PICK q : q = [p EXCEPT !.mods = m]  OBVIOUS
  <1>6. /\ ProcessOk(q) /\ q.phase = p.phase /\ q.mods = m
        /\ q.twice = p.twice /\ q.reloaded = p.reloaded
    BY <1>1, <1>2, <1>4, <1>5, ModsOk
  <1>7. v.raced \/ Sole(q)  BY <1>1, <1>4, <1>6 DEF HostOk, Sole
  <1>8. HostOk([v EXCEPT !.d[d] = q])  BY <1>1, <1>6, <1>7, PutOk
  <1>9. PICK w : w = [v EXCEPT !.d[d] = q]  OBVIOUS
  <1>10. w.d[d] = q
    <2>1. v \in Host /\ v.d \in [Daemons -> Process]  BY DEF HostOk, Host
    <2> QED BY ONLY d \in Daemons, <1>9, <2>1 DEF Host
  <1>11. Control!Cleanup(v, d, i) = w  BY <1>1, <1>3, <1>5, <1>9, CleanupIs
  <1>12. q.phase = "main" /\ Len(q.mods) >= i - 1  BY <1>1, <1>4, <1>6
  <1> QED BY <1>8, <1>9, <1>10, <1>11, <1>12

\* The modules change, but neither their number nor their names.
LEMMA ModulesOk ==
  ASSUME NEW p, ProcessOk(p), Loads(p), NEW m \in Seq(Instance), Len(m) = Len(p.mods),
         \A i \in DOMAIN m : m[i].name = p.mods[i].name
  PROVE  LET q == [p EXCEPT !.mods = m]
         IN /\ ProcessOk(q) /\ q.phase = p.phase /\ q.mods = m
            /\ q.twice = p.twice /\ q.reloaded = p.reloaded
  <1>1. PICK q : q = [p EXCEPT !.mods = m]  OBVIOUS
  <1>2. p \in Process /\ p.mods \in Seq(Instance)  BY DEF ProcessOk, Process
  <1>3. q \in Process  BY <1>1, <1>2 DEF Process
  <1>4. /\ q.phase = p.phase /\ q.mods = m /\ q.missing = p.missing /\ q.cut = p.cut
        /\ q.twice = p.twice /\ q.reloaded = p.reloaded /\ q.next = p.next /\ q.cfg = p.cfg
        /\ q.told = p.told /\ q.run = p.run /\ q.early = p.early
    BY <1>1, <1>2 DEF Process
  <1>5. Blank(q)  BY <1>4 DEF Blank, Loads
  <1>6. Keys(q) = Keys(p)  BY <1>4 DEF Keys
  <1>7. DOMAIN m = DOMAIN p.mods  BY <1>2
  <1>8. \A n : Runs(q, n) <=> Runs(p, n)  BY <1>4, <1>7 DEF Runs
  <1>9. Filled(q)  BY <1>4, <1>6, <1>7, <1>8 DEF Filled, ProcessOk
  <1>10. Missed(q)  BY <1>4 DEF Missed, Heeds, ProcessOk
  <1> QED BY <1>1, <1>3, <1>4, <1>5, <1>9, <1>10 DEF ProcessOk

\* A flag of a process changes that says nothing about its modules.
Like(p, q) ==
  /\ q.phase = p.phase /\ q.mods = p.mods /\ q.missing = p.missing /\ q.cut = p.cut
  /\ q.twice = p.twice /\ q.reloaded = p.reloaded /\ q.next = p.next /\ q.cfg = p.cfg
  /\ Heeds(p) => Heeds(q)

\* A process that changes only in such things stays what it is.
LEMMA LikeOk ==
  ASSUME NEW v, HostOk(v), NEW d \in Daemons, NEW q \in Process, Like(v.d[d], q)
  PROVE  HostOk([v EXCEPT !.d[d] = q])
  <1>1. PICK p : p = v.d[d]  OBVIOUS
  <1>2. ProcessOk(p) /\ Like(p, q)  BY <1>1 DEF HostOk
  <1>3. Keys(q) = Keys(p) /\ \A n : Runs(q, n) <=> Runs(p, n)  BY <1>2 DEF Like, Keys, Runs
  <1>4. Blank(q) /\ Missed(q)  BY <1>2 DEF Like, Blank, Missed, Loads, ProcessOk
  <1>5. Filled(q)  BY <1>2, <1>3 DEF Like, Filled, ProcessOk
  <1>6. ProcessOk(q)  BY <1>4, <1>5 DEF ProcessOk
  <1>7. v.raced \/ Sole(q)  BY <1>1, <1>2 DEF HostOk, Sole, Like
  <1> QED BY <1>1, <1>2, <1>6, <1>7, PutOk DEF Like

\* Quit()
LEMMA QuitOk ==
  ASSUME NEW v, HostOk(v), NEW d \in Daemons, Loads(v.d[d])
  PROVE  HostOk(Control!Quit(v, d))
  <1>1. PICK p : p = v.d[d]  OBVIOUS
  <1>2. p \in Process  BY <1>1 DEF HostOk, ProcessOk
  <1>3. PICK b \in BOOLEAN : b = (p.phase # "main")  OBVIOUS
  <1>4. PICK q : q = [p EXCEPT !.run = FALSE, !.told = TRUE, !.early = b]  OBVIOUS
  <1>5. q \in Process /\ Like(p, q)
    <2>1. q.phase = p.phase /\ q.run = FALSE /\ q.early = b  BY <1>2, <1>4 DEF Process
    <2>2. Heeds(q)  BY <1>1, <1>3, <2>1 DEF Heeds, Loads
    <2> QED BY <1>2, <1>4, <2>2 DEF Process, Like
  <1>6. HostOk([v EXCEPT !.d[d] = q])  BY <1>1, <1>5, LikeOk
  <1> QED BY <1>1, <1>3, <1>4, <1>6 DEF Control!Quit

\* What CfgChanged() makes of the modules.
Heard(v, mods) ==
  [i \in 1..Len(mods) |->
    [mods[i] EXCEPT !.listening = @ \/ (/\ Control!PortFree(v, mods[i].name)
                                        /\ \A j \in 1..(i - 1) : mods[j].name # mods[i].name)]]

\* Loader::CfgChanged() leaves names, and may have modules listen.
LEMMA HeardIs ==
  ASSUME NEW v, NEW mods \in Seq(Instance), NEW m, m = Heard(v, mods)
  PROVE  /\ m \in Seq(Instance) /\ Len(m) = Len(mods)
         /\ \A i \in DOMAIN m : m[i].name = mods[i].name /\ m[i].quitting = mods[i].quitting
                                /\ (mods[i].listening => m[i].listening)
  <1>1. PICK n \in Nat : n = Len(mods)  OBVIOUS
  <1>2. PICK f : f = [i \in 1..n |->
                       (/\ Control!PortFree(v, mods[i].name)
                        /\ \A j \in 1..(i - 1) : mods[j].name # mods[i].name)]
    OBVIOUS
  <1>3. \A i \in 1..n : mods[i] \in Instance  BY <1>1
  <1>4. m = [i \in 1..n |-> [mods[i] EXCEPT !.listening = @ \/ f[i]]]
    BY <1>1, <1>2 DEF Heard
  <1>5. ASSUME NEW i \in 1..n
        PROVE  /\ m[i] \in Instance /\ m[i].name = mods[i].name
               /\ m[i].quitting = mods[i].quitting /\ (mods[i].listening => m[i].listening)
    <2>1. f[i] \in BOOLEAN  BY <1>2 DEF Control!PortFree
    <2>2. PICK x \in Instance : x = mods[i]  BY <1>3
    <2>3. x.listening \in BOOLEAN  BY DEF Instance
    <2>4. PICK b \in BOOLEAN : b = (x.listening \/ f[i])  OBVIOUS
    <2>5. m[i] = [x EXCEPT !.listening = b]  BY <1>4, <2>2, <2>4
    <2>6. m[i] \in Instance /\ m[i].name = x.name /\ m[i].quitting = x.quitting
          /\ m[i].listening = b
      BY <2>5 DEF Instance
    <2> QED BY <2>2, <2>4, <2>6
  <1>6. m \in Seq(Instance) /\ Len(m) = n /\ DOMAIN m = 1..n
    <2>1. m \in [1..n -> Instance]  BY <1>4, <1>5
    <2> QED BY <2>1
  <1> QED BY <1>1, <1>5, <1>6

\* After a reload a module that quits may listen.
LEMMA HeardProper ==
  ASSUME NEW v, NEW mods \in Seq(Instance), NEW m, m = Heard(v, mods),
         NEW reloaded, Proper(mods, reloaded)
  PROVE  Proper(m, TRUE)
  <1>1. /\ m \in Seq(Instance) /\ Len(m) = Len(mods)
        /\ \A i \in DOMAIN m : m[i].name = mods[i].name /\ m[i].quitting = mods[i].quitting
                               /\ (mods[i].listening => m[i].listening)
    BY HeardIs
  <1>2. DOMAIN m = DOMAIN mods  BY <1>1
  <1> QED BY <1>1, <1>2 DEF Proper

\* It changes the list of modules and nothing else.
LEMMA ChangedIs ==
  ASSUME NEW v, NEW d
  PROVE  Control!CfgChanged(v, d) =
           [v EXCEPT !.d[d] = [v.d[d] EXCEPT !.mods = Heard(v, v.d[d].mods)]]
BY DEF Control!CfgChanged, Heard

\* Core::CfgReload(): LoadModules() has been cut short, if it was under way.
LEMMA ReloadOk ==
  ASSUME NEW v, HostOk(v), NEW d \in Daemons, Loads(v.d[d]),
         v.d[d].phase = "loading" => v.d[d].cut
  PROVE  HostOk(Control!CfgReload(v, d))
  <1>1. PICK p : p = v.d[d]  OBVIOUS
  <1>2. ProcessOk(p) /\ p \in Process /\ p.mods \in Seq(Instance)
    BY <1>1 DEF HostOk, ProcessOk, Process
  <1>3. PICK f \in [Names -> Kinds] : f = v.file  BY DEF HostOk, Host
  <1>4. PICK r : r = [p EXCEPT !.cfg = f, !.reloaded = TRUE]  OBVIOUS
  <1>5. r \in Process /\ r.reloaded = TRUE  BY <1>2, <1>4 DEF Process
  <1>6. /\ r.phase = p.phase /\ r.mods = p.mods /\ r.missing = p.missing /\ r.cut = p.cut
        /\ r.twice = p.twice /\ r.next = p.next
        /\ r.told = p.told /\ r.run = p.run /\ r.early = p.early
    BY <1>2, <1>4 DEF Process
  <1>7. Blank(r) /\ Missed(r) /\ Loads(r)
    <2>1. Loads(p)  BY <1>1
    <2>2. Loads(r)  BY <1>6, <2>1 DEF Loads
    <2>3. Missed(p)  BY <1>2 DEF ProcessOk
    <2>4. Missed(r)  BY <1>6, <2>3 DEF Missed, Heeds
    <2> QED BY <2>2, <2>4 DEF Blank
  <1>8. Filled(r)
    <2>1. Keys(r) = Keys(p)  BY <1>6 DEF Keys
    <2> QED BY <1>1, <1>2, <1>6, <2>1 DEF Filled, ProcessOk
  <1>9. ProcessOk(r)  BY <1>5, <1>7, <1>8 DEF ProcessOk
  <1>10. PICK w : w = [v EXCEPT !.d[d] = r]  OBVIOUS
  <1>11. w.d[d] = r /\ w.raced = v.raced
    <2>1. Moved(v, w, d, r) /\ w.raced = v.raced  BY <1>9, <1>10, MovedIs
    <2> QED BY <2>1 DEF Moved
  <1>12. v.raced \/ Sole(r)
    <2>1. Proper(p.mods, p.reloaded) => Proper(p.mods, TRUE)  BY DEF Proper
    <2> QED BY <1>1, <1>5, <1>6, <2>1 DEF HostOk, Sole
  <1>13. HostOk(w)  BY <1>1, <1>6, <1>9, <1>10, <1>12, PutOk
  <1>14. PICK m : m = Heard(w, r.mods)  OBVIOUS
  <1>15. /\ m \in Seq(Instance) /\ Len(m) = Len(r.mods)
         /\ \A i \in DOMAIN m : m[i].name = r.mods[i].name
    BY <1>2, <1>6, <1>14, HeardIs
  <1>16. PICK q : q = [r EXCEPT !.mods = m]  OBVIOUS
  <1>17. /\ ProcessOk(q) /\ q.phase = r.phase /\ q.mods = m
         /\ q.twice = r.twice /\ q.reloaded = r.reloaded
    BY <1>7, <1>9, <1>15, <1>16, ModulesOk
  <1>18. w.raced \/ Sole(q)
    <2>1. Proper(r.mods, r.reloaded) => Proper(m, TRUE)  BY <1>2, <1>6, <1>14, HeardProper
    <2> QED BY <1>5, <1>11, <1>12, <1>17, <2>1 DEF Sole
  <1>19. HostOk([w EXCEPT !.d[d] = q])  BY <1>11, <1>13, <1>17, <1>18, PutOk
  <1>20. Control!CfgChanged(w, d) = [w EXCEPT !.d[d] = q]
    BY <1>11, <1>14, <1>16, ChangedIs
  <1>21. Control!CfgReload(v, d) = Control!CfgChanged(w, d)
    BY <1>1, <1>3, <1>4, <1>10 DEF Control!CfgReload
  <1> QED BY <1>19, <1>20, <1>21

\* A set of numbers has its minimum.
LEMMA Least ==
  ASSUME NEW T, T \subseteq Nat, T # {}
  PROVE  \E n \in T : \A m \in T : n <= m
  <1>1. PICK R : R = OpToRel(<, Nat)  OBVIOUS
  <1>2. IsWellFoundedOn(R, Nat)  BY <1>1, NatLessThanWellFounded
  <1>3. PICK n \in T : \A m \in T : ~(<<m, n>> \in R)  BY <1>2, WFMin
  <1>4. \A j, k \in Nat : j < k => <<j, k>> \in R  BY <1>1 DEF OpToRel
  <1>5. ASSUME NEW m \in T
        PROVE  n <= m
    <2>1. ~(m < n)  BY <1>3, <1>4
    <2> QED BY <2>1
  <1> QED BY <1>5

\* A set of numbers that has 0, and with a number the next one, has all.
LEMMA Every ==
  ASSUME NEW T, 0 \in T, \A n \in Nat : n \in T => n + 1 \in T
  PROVE  Nat \subseteq T
  <1>1. SUFFICES ASSUME Nat \ T # {}  PROVE FALSE  OBVIOUS
  <1>2. PICK n \in Nat \ T : \A m \in Nat \ T : n <= m  BY <1>1, Least
  <1>3. n - 1 \in Nat  BY <1>2
  <1>4. n - 1 \notin T  BY <1>2, <1>3
  <1> QED BY <1>2, <1>3, <1>4

\* Loader::Unload() finds the first module of the name, if there is one.
LEMMA FirstIs ==
  ASSUME NEW v, HostOk(v), NEW d \in Daemons, NEW name
  PROVE  /\ Control!First(v, d, name) \in 0..Len(v.d[d].mods)
         /\ Control!First(v, d, name) # 0 =>
              v.d[d].mods[Control!First(v, d, name)].name = name
  <1>1. PICK mods \in Seq(Instance) : mods = v.d[d].mods
    BY DEF HostOk, ProcessOk, Process
  <1>2. PICK n \in Nat : n = Len(mods)  OBVIOUS
  <1>3. PICK I : I = {i \in 1..n : mods[i].name = name}  OBVIOUS
  <1>4. PICK k : k = IF I # {} THEN Control!Min(I) ELSE 0  OBVIOUS
  <1>5. Control!First(v, d, name) = k
    BY <1>1, <1>2, <1>3, <1>4 DEF Control!First, Control!SelectInSeq
  <1>6. I # {} => k \in I
    <2>1. SUFFICES ASSUME I # {}  PROVE k \in I  OBVIOUS
    <2>2. I \subseteq Nat  BY <1>3
    <2>3. \E x \in I : \A y \in I : x <= y  BY <2>1, <2>2, Least
    <2> QED BY <1>4, <2>1, <2>3 DEF Control!Min
  <1>7. k \in 0..n /\ (k # 0 => mods[k].name = name)
    <2>1. CASE I = {}  BY <1>2, <1>4, <2>1
    <2>2. CASE I # {}  BY <1>3, <1>6, <2>2
    <2> QED BY <2>1, <2>2
  <1> QED BY <1>1, <1>2, <1>5, <1>7

\* Loader::Unload() keeps the invariant, whether it finds the module or not.
LEMMA UnloadOk ==
  ASSUME NEW v, HostOk(v), NEW d \in Daemons, v.d[d].phase = "main", NEW name
  PROVE  LET w == Control!Unload(v, d, name) IN HostOk(w) /\ w.d[d].phase = "main"
  <1>1. PICK i : i = Control!First(v, d, name)  OBVIOUS
  <1>2. CASE i = 0  BY <1>1, <1>2 DEF Control!Unload
  <1>3. CASE i # 0
    <2>1. v.d[d].mods \in Seq(Instance)  BY DEF HostOk, ProcessOk, Process
    <2>2. i \in 0..Len(v.d[d].mods)  BY ONLY HostOk(v), d \in Daemons, <1>1, FirstIs
    <2>3. i \in 1..Len(v.d[d].mods)  BY <1>3, <2>1, <2>2
    <2>4. Control!Unload(v, d, name) = Control!Cleanup(v, d, i)  BY <1>1, <1>3 DEF Control!Unload
    <2>5. HostOk(Control!Cleanup(v, d, i)) /\ Control!Cleanup(v, d, i).d[d].phase = "main"
      BY <2>3, CleanupOk
    <2> QED BY <2>4, <2>5
  <1> QED BY <1>2, <1>3

\* mod_cfg changes the settings of the daemon that runs it.
LEMMA CfgOk ==
  ASSUME NEW v, HostOk(v), NEW d \in Daemons, v.d[d].phase = "main", NEW f \in [Names -> Kinds]
  PROVE  HostOk([v EXCEPT !.d[d] = [v.d[d] EXCEPT !.cfg = f]])
  <1>1. PICK p : p = v.d[d]  OBVIOUS
  <1>2. ProcessOk(p) /\ p \in Process  BY <1>1 DEF HostOk, ProcessOk
  <1>3. PICK q : q = [p EXCEPT !.cfg = f]  OBVIOUS
  <1>4. q \in Process  BY <1>2, <1>3 DEF Process
  <1>5. /\ q.phase = p.phase /\ q.mods = p.mods /\ q.missing = p.missing /\ q.cut = p.cut
        /\ q.twice = p.twice /\ q.reloaded = p.reloaded
        /\ q.told = p.told /\ q.run = p.run /\ q.early = p.early
    BY <1>2, <1>3 DEF Process
  <1>6. q.phase = "main"  BY <1>1, <1>5
  <1>7. Blank(q) /\ Filled(q)  BY <1>6 DEF Blank, Filled, Loads
  <1>8. Missed(q)  BY <1>2, <1>5 DEF Missed, Heeds, ProcessOk
  <1>9. ProcessOk(q)  BY <1>4, <1>7, <1>8 DEF ProcessOk
  <1>10. v.raced \/ Sole(q)  BY <1>1, <1>5 DEF HostOk, Sole
  <1>11. HostOk([v EXCEPT !.d[d] = q])  BY <1>1, <1>5, <1>9, <1>10, PutOk
  <1> QED BY <1>1, <1>3, <1>11

\* CfgData::AddMod() and EnableMod() keep it.
LEMMA EnableOk ==
  ASSUME NEW v, HostOk(v), NEW d \in Daemons, v.d[d].phase = "main", NEW name \in Names,
         NEW how \in Kinds
  PROVE  HostOk(Control!EnableMod(v, d, name, how))
  <1>1. PICK c : c = v.d[d].cfg  OBVIOUS
  <1>2. c \in [Names -> Kinds]  BY <1>1 DEF HostOk, ProcessOk, Process
  <1>3. PICK f : f = [c EXCEPT ![name] = how]  OBVIOUS
  <1>4. f \in [Names -> Kinds]  BY <1>2, <1>3
  <1>5. HostOk([v EXCEPT !.d[d] = [v.d[d] EXCEPT !.cfg = f]])  BY <1>4, CfgOk
  <1>6. Control!EnableMod(v, d, name, how) = [v EXCEPT !.d[d] = [v.d[d] EXCEPT !.cfg = f]]
    BY <1>1, <1>3 DEF Control!EnableMod
  <1> QED BY <1>5, <1>6

\* CfgData::DeleteMod() unloads a module and forgets its settings.
LEMMA DeleteOk ==
  ASSUME NEW v, HostOk(v), NEW d \in Daemons, v.d[d].phase = "main", NEW name \in Names
  PROVE  HostOk(Control!DeleteMod(v, d, name))
  <1>1. PICK w : w = Control!Unload(v, d, name)  OBVIOUS
  <1>2. HostOk(w) /\ w.d[d].phase = "main"  BY <1>1, UnloadOk
  <1>3. HostOk(Control!EnableMod(w, d, name, "absent"))  BY <1>2, EnableOk DEF Kinds
  <1>4. Control!DeleteMod(v, d, name) = Control!EnableMod(w, d, name, "absent")
    BY <1>1 DEF Control!DeleteMod, Control!EnableMod
  <1> QED BY <1>3, <1>4

\* CfgData::LoadMod()
LEMMA LoadModOk ==
  ASSUME NEW v, HostOk(v), NEW d \in Daemons, v.d[d].phase = "main", NEW name \in Names,
         NEW load \in BOOLEAN
  PROVE  HostOk(Control!LoadMod(v, d, name, load))
  <1>1. CASE ~load
    <2>1. Control!LoadMod(v, d, name, load) = Control!Unload(v, d, name)
      BY <1>1 DEF Control!LoadMod
    <2> QED BY <2>1, UnloadOk
  <1>2. CASE load /\ Control!Running(v, d, name)  BY <1>2 DEF Control!LoadMod
  <1>3. CASE load /\ ~Control!Running(v, d, name)
    <2>1. v.d[d].mods \in Seq(Instance)  BY DEF HostOk, ProcessOk, Process
    <2>2. ~Runs(v.d[d], name)  BY <1>3, <2>1 DEF Runs, Control!Running
    <2>3. HostOk(Control!Load(v, d, name, TRUE))  BY <2>2, LoadOk
    <2>4. Control!LoadMod(v, d, name, load) = Control!Load(v, d, name, TRUE)
      BY <1>3 DEF Control!LoadMod
    <2> QED BY <2>3, <2>4
  <1> QED BY <1>1, <1>2, <1>3

\* "apply"
LEMMA ApplyOk ==
  ASSUME NEW v, HostOk(v), NEW d \in Daemons, v.d[d].phase = "main"
  PROVE  HostOk(Control!Apply(v, d))
  <1>1. PICK f \in [Names -> Kinds] : f = v.d[d].cfg  BY DEF HostOk, ProcessOk, Process
  <1>2. PICK w : w = [v EXCEPT !.file = f]  OBVIOUS
  <1>3. HostOk(w)  BY <1>2, FileOk
  <1>4. w.d = v.d  BY <1>2 DEF HostOk, Host
  <1>5. HostOk(Control!CfgReload(w, d))  BY <1>3, <1>4, ReloadOk DEF Loads
  <1> QED BY <1>1, <1>2, <1>5 DEF Control!Apply

-----------------------------------------------------------------------------
(* Starting and stopping *)

\* A process that has no modules.
LEMMA NoneIs ==
  ASSUME NEW phase \in {"off", "forked", "dead"}, NEW told \in BOOLEAN, phase = "forked" => ~told,
         NEW q, q = [Control!NoDaemon EXCEPT !.phase = phase, !.told = told]
  PROVE  ProcessOk(q) /\ Sole(q) /\ q.phase = phase
  <1>1. PICK c : c = [n \in Names |-> "absent"]  OBVIOUS
  <1>2. c \in [Names -> Kinds]  BY <1>1 DEF Kinds
  <1>3. PICK m, one, S : m = <<>> /\ one = 1 /\ S = {}  OBVIOUS
  <1>4. m \in Seq(Instance) /\ one \in Nat /\ S \subseteq Names  BY <1>3
  <1>5. phase \in Phases  BY DEF Phases
  <1>6. q = [phase |-> phase, run |-> FALSE, cfg |-> c, next |-> one, mods |-> m, cut |-> FALSE,
             missing |-> S, silent |-> FALSE, told |-> told, early |-> FALSE, twice |-> FALSE,
             reloaded |-> FALSE]
    BY <1>1, <1>3 DEF Control!NoDaemon, Names
  <1>7. /\ q \in Process
        /\ q.phase = phase /\ q.mods = <<>> /\ q.next = 1 /\ q.missing = {}
        /\ q.told = told /\ q.run = FALSE
    <2>1. q \in Process  BY ONLY told \in BOOLEAN, <1>2, <1>4, <1>5, <1>6 DEF Process
    <2>2. /\ q.phase = phase /\ q.mods = m /\ q.next = one /\ q.missing = S
          /\ q.told = told /\ q.run = FALSE
      BY ONLY <1>6
    <2> QED BY <1>3, <2>1, <2>2
  <1>8. Blank(q) /\ Filled(q) /\ Missed(q)  BY <1>7 DEF Blank, Filled, Missed, Heeds
  <1>9. Proper(q.mods, q.reloaded)  BY <1>7 DEF Proper
  <1> QED BY <1>7, <1>8, <1>9 DEF ProcessOk, Sole

\* A process that is not up becomes another that is not.
LEMMA DownOk ==
  ASSUME NEW v, HostOk(v), NEW d \in Daemons, ~Up(v.d[d]),
         NEW q, ProcessOk(q), Sole(q), ~Up(q), q.phase # "alone"
  PROVE  HostOk([v EXCEPT !.d[d] = q])
  <1>1. PICK w : w = [v EXCEPT !.d[d] = q]  OBVIOUS
  <1>2. /\ w \in Host
        /\ \A e \in Daemons : ProcessOk(w.d[e])
        /\ w.d[d] = q /\ \A e \in Daemons : e # d => w.d[e] = v.d[e]
        /\ w.pid = v.pid /\ w.sock = v.sock
        /\ w.raced = v.raced /\ w.left = v.left /\ w.torn = v.torn
    BY ONLY HostOk(v), d \in Daemons, ProcessOk(q), <1>1, PutIs
  <1>3. ASSUME ~w.raced
        PROVE  Named(w) /\ \A e \in Daemons : Sole(w.d[e])
    <2>1. Named(v) /\ \A e \in Daemons : Sole(v.d[e])  BY <1>2, <1>3 DEF HostOk
    <2>2. \A e \in Daemons : /\ Up(w.d[e]) <=> Up(v.d[e])
                             /\ w.d[e].phase = "alone" => v.d[e].phase = "alone"
                             /\ Up(w.d[e]) => w.d[e] = v.d[e]
      BY <1>2
    <2>3. Named(w)  BY <1>2, <2>1, <2>2 DEF Named
    <2> QED BY <1>2, <2>1, <2>3
  <1> QED BY <1>1, <1>2, <1>3 DEF HostOk

\* A process ends without a word.
LEMMA DeadOk ==
  ASSUME NEW v, HostOk(v), NEW d \in Daemons
  PROVE  HostOk(Control!Dead(v, d))
  <1>1. PICK told \in BOOLEAN : told = v.d[d].told  BY DEF HostOk, ProcessOk, Process
  <1>2. PICK q : q = [Control!NoDaemon EXCEPT !.phase = "dead", !.told = told]  OBVIOUS
  <1>3. ProcessOk(q) /\ Sole(q) /\ q.phase = "dead"  BY <1>2, NoneIs
  <1>4. PICK u : u = [v EXCEPT !.d[d] = q]  OBVIOUS
  <1>5. /\ u \in Host
        /\ \A e \in Daemons : ProcessOk(u.d[e])
        /\ u.d[d] = q /\ \A e \in Daemons : e # d => u.d[e] = v.d[e]
        /\ u.pid = v.pid /\ u.sock = v.sock
        /\ u.raced = v.raced /\ u.left = v.left /\ u.torn = v.torn
    BY ONLY HostOk(v), d \in Daemons, <1>3, <1>4, PutIs
  <1>6. PICK b \in BOOLEAN : b = (v.left \/ Up(v.d[d]))  OBVIOUS
  <1>7. PICK w : w = [u EXCEPT !.left = b]  OBVIOUS
  <1>8. /\ w \in Host /\ w.left = b /\ w.d = u.d /\ w.pid = u.pid /\ w.sock = u.sock
        /\ w.raced = u.raced /\ w.torn = u.torn
    BY <1>5, <1>7 DEF Host
  <1>9. ASSUME ~w.raced
        PROVE  Named(w) /\ \A e \in Daemons : Sole(w.d[e])
    <2>1. Named(v) /\ \A e \in Daemons : Sole(v.d[e])  BY <1>5, <1>8, <1>9 DEF HostOk
    <2>2. ~Up(w.d[d]) /\ w.d[d].phase # "alone"  BY <1>3, <1>5, <1>8 DEF Up
    <2>3. \A e \in Daemons : e # d => w.d[e] = v.d[e]  BY <1>5, <1>8
    <2>4. \A e \in Daemons : Up(w.d[e]) => e # d /\ w.d[e] = v.d[e]  BY <2>2, <2>3
    <2>5. \A e \in Daemons : w.d[e].phase = "alone" => w.d[e] = v.d[e]  BY <2>2, <2>3
    <2>6. w.pid = v.pid /\ w.sock = v.sock /\ (w.left <=> v.left \/ Up(v.d[d]))
      BY <1>5, <1>6, <1>8
    <2>7. \A c, e \in Daemons :
            Up(w.d[c]) /\ (Up(w.d[e]) \/ w.d[e].phase = "alone") => c = e
      BY <2>1, <2>4, <2>5 DEF Named
    <2>8. \A e \in Daemons : Up(w.d[e]) => w.pid /\ (Loads(w.d[e]) => w.sock = {e})
      BY <2>1, <2>4, <2>6 DEF Named
    <2>9. w.pid /\ (\A e \in Daemons : ~Up(w.d[e])) => w.left
      BY <2>1, <2>3, <2>6 DEF Named
    <2>10. Named(w)  BY <2>7, <2>8, <2>9 DEF Named
    <2> QED BY <1>3, <1>5, <1>8, <2>1, <2>10
  <1>10. HostOk(w)
    <2>1. w.torn \subseteq {"mod_cfg"}  BY <1>5, <1>8 DEF HostOk
    <2> QED BY <1>5, <1>8, <1>9, <2>1 DEF HostOk
  <1>11. Control!Dead(v, d) = w
    <2>1. Control!Up(v, d) <=> Up(v.d[d])  BY DEF Control!Up, Up
    <2>2. Control!Dead(v, d) = [v EXCEPT !.d[d] = q, !.left = b]
      BY <1>1, <1>2, <1>6, <2>1 DEF Control!Dead
    <2> QED BY <1>4, <1>7, <2>2
  <1> QED BY <1>10, <1>11

\* Starts are counted.
LEMMA StartsOk ==
  ASSUME NEW v, HostOk(v), NEW n \in Nat
  PROVE  HostOk([v EXCEPT !.starts = n])
  <1>1. PICK w : w = [v EXCEPT !.starts = n]  OBVIOUS
  <1>2. w \in Host  BY <1>1 DEF HostOk, Host
  <1>3. /\ w.d = v.d /\ w.pid = v.pid /\ w.sock = v.sock
        /\ w.raced = v.raced /\ w.left = v.left /\ w.torn = v.torn
    BY <1>1 DEF HostOk, Host
  <1>4. Named(v) => Named(w)  BY <1>3 DEF Named
  <1> QED BY <1>1, <1>2, <1>3, <1>4 DEF HostOk

\* What Start() makes of a process.
LEMMA ForkedIs ==
  ASSUME NEW q, q = [Control!NoDaemon EXCEPT !.phase = "forked"]
  PROVE  ProcessOk(q) /\ Sole(q) /\ q.phase = "forked"
  <1>1. PICK r : r = [Control!NoDaemon EXCEPT !.phase = "forked", !.told = FALSE]  OBVIOUS
  <1>2. PICK c, m, S, one : c = [n \in Names |-> "absent"] /\ m = <<>> /\ S = {} /\ one = 1
    OBVIOUS
  <1>3. q = [phase |-> "forked", run |-> FALSE, cfg |-> c, next |-> one, mods |-> m, cut |-> FALSE,
             missing |-> S, silent |-> FALSE, told |-> FALSE, early |-> FALSE, twice |-> FALSE,
             reloaded |-> FALSE]
    BY <1>2 DEF Control!NoDaemon, Names
  <1>4. r = [phase |-> "forked", run |-> FALSE, cfg |-> c, next |-> one, mods |-> m, cut |-> FALSE,
             missing |-> S, silent |-> FALSE, told |-> FALSE, early |-> FALSE, twice |-> FALSE,
             reloaded |-> FALSE]
    BY <1>1, <1>2 DEF Control!NoDaemon, Names
  <1>5. q = r  BY ONLY <1>3, <1>4
  <1> QED BY <1>1, <1>5, NoneIs

\* What the end of Run() makes of a process.
LEMMA OffIs ==
  ASSUME NEW told \in BOOLEAN, NEW q, q = [Control!NoDaemon EXCEPT !.told = told]
  PROVE  ProcessOk(q) /\ Sole(q) /\ q.phase = "off"
  <1>1. PICK r : r = [Control!NoDaemon EXCEPT !.phase = "off", !.told = told]  OBVIOUS
  <1>2. PICK c, m, S, one : c = [n \in Names |-> "absent"] /\ m = <<>> /\ S = {} /\ one = 1
    OBVIOUS
  <1>3. q = [phase |-> "off", run |-> FALSE, cfg |-> c, next |-> one, mods |-> m, cut |-> FALSE,
             missing |-> S, silent |-> FALSE, told |-> told, early |-> FALSE, twice |-> FALSE,
             reloaded |-> FALSE]
    BY <1>2 DEF Control!NoDaemon, Names
  <1>4. r = [phase |-> "off", run |-> FALSE, cfg |-> c, next |-> one, mods |-> m, cut |-> FALSE,
             missing |-> S, silent |-> FALSE, told |-> told, early |-> FALSE, twice |-> FALSE,
             reloaded |-> FALSE]
    BY <1>1, <1>2 DEF Control!NoDaemon, Names
  <1>5. q = r  BY ONLY <1>3, <1>4
  <1> QED BY <1>1, <1>5, NoneIs

\* Daemonize()
LEMMA StartKeeps ==
  ASSUME HostOk(adm), NEW d \in Daemons, Control!Start(d)
  PROVE  HostOk(adm')
  <1>1. PICK q : q = [Control!NoDaemon EXCEPT !.phase = "forked"]  OBVIOUS
  <1>2. ProcessOk(q) /\ Sole(q) /\ q.phase = "forked"  BY <1>1, ForkedIs
  <1>3. ~Up(adm.d[d]) /\ ~Up(q) /\ q.phase # "alone"  BY <1>2 DEF Up, Control!Start
  <1>4. PICK w : w = [adm EXCEPT !.d[d] = q]  OBVIOUS
  <1>5. HostOk(w)  BY ONLY HostOk(adm), d \in Daemons, <1>2, <1>3, <1>4, DownOk
  <1>6. adm.starts \in Nat  BY DEF HostOk, Host
  <1>7. PICK n \in Nat : n = adm.starts + 1  BY <1>6
  <1>8. HostOk([w EXCEPT !.starts = n])  BY ONLY <1>5, n \in Nat, StartsOk
  <1>9. adm' = [adm EXCEPT !.d[d] = q, !.starts = n]  BY <1>1, <1>7 DEF Control!Start
  <1>10. adm' = [w EXCEPT !.starts = n]  BY <1>4, <1>9
  <1> QED BY <1>8, <1>10

\* A process that has no modules yet goes a step further.
LEMMA PhaseIs ==
  ASSUME NEW p, ProcessOk(p), p.phase \in {"forked", "alone"},
         NEW phase \in Phases \ {"loading", "main"}
  PROVE  LET q == [p EXCEPT !.phase = phase]
         IN ProcessOk(q) /\ Sole(q) /\ q.phase = phase
  <1>1. PICK q : q = [p EXCEPT !.phase = phase]  OBVIOUS
  <1>2. p \in Process  BY DEF ProcessOk
  <1>3. q \in Process  BY <1>1, <1>2 DEF Process
  <1>4. /\ q.phase = phase /\ q.mods = p.mods /\ q.missing = p.missing /\ q.cut = p.cut
        /\ q.next = p.next /\ q.told = p.told
    BY <1>1, <1>2 DEF Process
  <1>5. p.mods = <<>> /\ p.next = 1  BY DEF ProcessOk, Blank, Loads
  <1>6. Blank(q)  BY <1>4, <1>5 DEF Blank
  <1>7. Filled(q)  BY <1>4 DEF Filled
  <1>8. Missed(q)  BY <1>4 DEF Missed, Heeds, ProcessOk
  <1>9. Proper(q.mods, q.reloaded)  BY <1>4, <1>5 DEF Proper
  <1> QED BY <1>1, <1>3, <1>4, <1>6, <1>7, <1>8, <1>9 DEF ProcessOk, Sole

\* Only the names change, and what is noted of them.
LEMMA MovedToo ==
  ASSUME NEW v, NEW u, NEW d, NEW q, Moved(v, u, d, q), NEW w \in Host, w.d = u.d,
         w.torn = u.torn
  PROVE  Moved(v, w, d, q)
BY DEF Moved

\* Where one moves all is right if the names are.
LEMMA MovedOk ==
  ASSUME NEW v, HostOk(v), NEW d \in Daemons, NEW q, NEW w, Moved(v, w, d, q),
         w.raced \/ (~v.raced /\ Sole(q) /\ (Named(v) => Named(w)))
  PROVE  HostOk(w)
  <1>1. w.torn \subseteq {"mod_cfg"}  BY DEF HostOk, Moved
  <1>2. ASSUME ~w.raced
        PROVE  Named(w) /\ \A e \in Daemons : Sole(w.d[e])
    BY <1>2 DEF HostOk, Moved
  <1> QED BY <1>1, <1>2 DEF HostOk, Moved

\* Core::CheckPid(): there is no file.
LEMMA CheckPidKeeps ==
  ASSUME HostOk(adm), NEW d \in Daemons, Control!CheckPid(d)
  PROVE  HostOk(adm')
  <1>1. PICK v : v = adm  OBVIOUS
  <1>2. PICK p : p = v.d[d]  OBVIOUS
  <1>3. HostOk(v) /\ ProcessOk(p) /\ p.phase = "forked"
    BY <1>1, <1>2 DEF HostOk, Control!CheckPid
  <1>4. ~Loads(p) /\ ~Up(p)  BY <1>3 DEF Loads, Up
  <1>5. PICK x : x = IF v.pid THEN "off" ELSE "alone"  OBVIOUS
  <1>6. x \in Phases \ {"loading", "main"}  BY <1>5 DEF Phases
  <1>7. PICK q : q = [p EXCEPT !.phase = x]  OBVIOUS
  <1>8. ProcessOk(q) /\ Sole(q) /\ q.phase = x  BY <1>3, <1>6, <1>7, PhaseIs
  <1>9. PICK w : w = [v EXCEPT !.d[d] = q]  OBVIOUS
  <1>10. adm' = w
    BY <1>1, <1>2, <1>5, <1>7, <1>9 DEF Control!CheckPid
  <1>11. CASE v.pid
    <2>1. ~Up(q) /\ q.phase # "alone"  BY <1>5, <1>8, <1>11 DEF Up
    <2>2. HostOk(w)  BY ONLY <1>2, <1>3, <1>4, <1>8, <1>9, <2>1, d \in Daemons, DownOk
    <2> QED BY <1>10, <2>2
  <1>12. CASE ~v.pid
    <2>1. v \in Host  BY <1>3 DEF HostOk
    <2>2. Moved(v, w, d, q) /\ w.pid = v.pid /\ w.raced = v.raced  BY <1>3, <1>8, <1>9, MovedIs
    <2>3. Named(v) => Named(w)
      <3>1. SUFFICES ASSUME Named(v)  PROVE Named(w)  OBVIOUS
      <3>2. \A e \in Daemons : ~Up(v.d[e])  BY <1>12, <3>1 DEF Named
      <3>3. ~Up(q)  BY <1>5, <1>8, <1>12 DEF Up
      <3>4. \A e \in Daemons : ~Up(w.d[e])  BY <2>2, <3>2, <3>3 DEF Moved
      <3> QED BY <1>12, <2>2, <3>4 DEF Named
    <2>4. HostOk(w)
      <3>1. v.raced \in BOOLEAN  BY <2>1 DEF Host
      <3> QED BY <1>3, <1>8, <2>2, <2>3, <3>1, MovedOk
    <2> QED BY <1>10, <2>4
  <1> QED BY <1>11, <1>12

\* and creates it: then another that is up, or that found none either, is noted.
LEMMA CreatePidKeeps ==
  ASSUME HostOk(adm), NEW d \in Daemons, Control!CreatePid(d)
  PROVE  HostOk(adm')
  <1>1. PICK v : v = adm  OBVIOUS
  <1>2. PICK p : p = v.d[d]  OBVIOUS
  <1>3. HostOk(v) /\ ProcessOk(p) /\ p.phase = "alone"
    BY <1>1, <1>2 DEF HostOk, Control!CreatePid
  <1>4. ~Loads(p) /\ "created" \in Phases \ {"loading", "main"}  BY <1>3 DEF Loads, Phases
  <1>5. PICK q : q = [p EXCEPT !.phase = "created"]  OBVIOUS
  <1>6. ProcessOk(q) /\ Sole(q) /\ q.phase = "created"  BY <1>3, <1>4, <1>5, PhaseIs
  <1>7. PICK b \in BOOLEAN :
          b <=> v.raced \/ \E e \in Daemons \ {d} : v.d[e].phase = "alone" \/ Up(v.d[e])
    OBVIOUS
  <1>8. PICK u : u = [v EXCEPT !.d[d] = q]  OBVIOUS
  <1>9. /\ Moved(v, u, d, q)
        /\ u.pid = v.pid /\ u.sock = v.sock /\ u.left = v.left /\ u.raced = v.raced
    BY <1>3, <1>6, <1>8, MovedIs
  <1>10. PICK w : w = [u EXCEPT !.pid = TRUE, !.raced = b]  OBVIOUS
  <1>11. /\ w \in Host /\ w.d = u.d /\ w.torn = u.torn /\ w.pid /\ w.raced = b
         /\ w.sock = u.sock /\ w.left = u.left
    BY <1>9, <1>10 DEF Moved, Host
  <1>12. Moved(v, w, d, q)  BY <1>9, <1>11, MovedToo
  <1>13. w.raced \/ (~v.raced /\ Sole(q) /\ (Named(v) => Named(w)))
    <2>1. ~b => ~v.raced  BY <1>7
    <2>2. SUFFICES ASSUME ~b, Named(v)  PROVE Named(w)  BY <1>6, <1>11, <2>1
    <2>3. \A e \in Daemons : e # d => v.d[e].phase # "alone" /\ ~Up(v.d[e])
      BY <1>7, <2>2
    <2>4. \A e \in Daemons : e # d => w.d[e].phase # "alone" /\ ~Up(w.d[e])
      BY <1>12, <2>3 DEF Moved
    <2>5. ~Loads(w.d[d]) /\ Up(w.d[d])  BY <1>6, <1>12 DEF Moved, Loads, Up
    <2>6. Named(w)  BY <1>11, <2>4, <2>5 DEF Named
    <2> QED BY <2>6
  <1>14. HostOk(w)  BY <1>3, <1>12, <1>13, MovedOk
  <1>15. adm' = w
    <2>1. \A e \in Daemons : Control!Up(v, e) <=> Up(v.d[e])  BY DEF Control!Up, Up
    <2>2. b = (v.raced \/ \E e \in Daemons \ {d} : v.d[e].phase = "alone" \/ Control!Up(v, e))
      <3>1. v.raced \in BOOLEAN  BY <1>3 DEF HostOk, Host
      <3> QED BY <1>7, <2>1, <3>1
    <2>3. adm' = [v EXCEPT !.d[d].phase = "created", !.pid = TRUE,
                    !.raced = (v.raced \/ \E e \in Daemons \ {d} :
                                            v.d[e].phase = "alone" \/ Control!Up(v, e))]
      BY <1>1 DEF Control!CreatePid
    <2>4. adm' = [v EXCEPT !.d[d].phase = "created", !.pid = TRUE, !.raced = b]
      BY <2>2, <2>3
    <2> QED BY <1>2, <1>5, <1>8, <1>10, <2>4
  <1> QED BY <1>14, <1>15

\* A daemon that is up takes the socket, or what is left when none is.
LEMMA OnlyOne ==
  ASSUME NEW v, HostOk(v), ~v.raced, NEW d \in Daemons, Up(v.d[d])
  PROVE  \A e \in Daemons : e # d => ~Up(v.d[e]) /\ v.d[e].phase # "alone"
BY DEF HostOk, Named

\* Run(), to LoadModules()
LEMMA OpenKeeps ==
  ASSUME HostOk(adm), NEW d \in Daemons, Control!Open(d)
  PROVE  HostOk(adm')
  <1>1. PICK v : v = adm  OBVIOUS
  <1>2. PICK p : p = v.d[d]  OBVIOUS
  <1>3. HostOk(v) /\ ProcessOk(p) /\ p.phase = "created" /\ p \in Process /\ v \in Host
    BY <1>1, <1>2 DEF HostOk, Control!Open, ProcessOk
  <1>4. PICK f \in [Names -> Kinds] : f = v.file  BY <1>3 DEF Host
  <1>5. PICK q : q = [p EXCEPT !.phase = "loading", !.cfg = f]  OBVIOUS
  <1>6. q \in Process  BY <1>3, <1>5 DEF Process, Phases
  <1>7. /\ q.phase = "loading" /\ q.mods = p.mods /\ q.missing = p.missing /\ q.cut = p.cut
        /\ q.next = p.next /\ q.told = p.told
    BY <1>3, <1>5 DEF Process
  <1>8. p.mods = <<>> /\ p.next = 1  BY <1>3 DEF ProcessOk, Blank, Loads
  <1>9. Keys(q) = {}
    <2>1. \A l \in DOMAIN Modules : ~(l < 1)  BY Configured
    <2> QED BY <1>7, <1>8, <2>1 DEF Keys
  <1>10. Filled(q)
    <2>1. 1 \in 1..(Len(Modules) + 1)  BY Configured
    <2>2. DOMAIN q.mods = {}  BY <1>7, <1>8
    <2> QED BY <1>7, <1>8, <1>9, <2>1, <2>2 DEF Filled
  <1>11. Blank(q) /\ Missed(q)  BY <1>3, <1>7 DEF Blank, Missed, Heeds, Loads, ProcessOk
  <1>12. ProcessOk(q)  BY <1>6, <1>10, <1>11 DEF ProcessOk
  <1>13. Sole(q)
    <2>1. DOMAIN q.mods = {}  BY <1>7, <1>8
    <2> QED BY <2>1 DEF Sole, Proper
  <1>14. PICK u : u = [v EXCEPT !.d[d] = q]  OBVIOUS
  <1>15. /\ Moved(v, u, d, q)
         /\ u.pid = v.pid /\ u.sock = v.sock /\ u.left = v.left /\ u.raced = v.raced
    BY <1>3, <1>12, <1>14, MovedIs
  <1>16. PICK w : w = [u EXCEPT !.sock = {d}]  OBVIOUS
  <1>17. /\ w \in Host /\ w.d = u.d /\ w.torn = u.torn /\ w.pid = u.pid /\ w.raced = u.raced
         /\ w.sock = {d} /\ w.left = u.left
    BY <1>15, <1>16 DEF Moved, Host
  <1>18. Moved(v, w, d, q)  BY <1>15, <1>17, MovedToo
  <1>19. w.raced \/ (~v.raced /\ Sole(q) /\ (Named(v) => Named(w)))
    <2>1. SUFFICES ASSUME ~v.raced, Named(v)  PROVE Named(w)
      <3>1. w.raced = v.raced  BY <1>15, <1>17
      <3>2. v.raced \in BOOLEAN  BY <1>3 DEF Host
      <3> QED BY <1>13, <3>1, <3>2
    <2>2. Up(v.d[d])  BY <1>2, <1>3 DEF Up
    <2>3. \A e \in Daemons : e # d => ~Up(v.d[e]) /\ v.d[e].phase # "alone"
      BY <1>3, <2>1, <2>2, OnlyOne
    <2>4. \A e \in Daemons : e # d => ~Up(w.d[e]) /\ w.d[e].phase # "alone"
      BY <1>18, <2>3 DEF Moved
    <2>5. v.pid  BY <2>1, <2>2 DEF Named
    <2>6. Up(w.d[d])  BY <1>7, <1>18 DEF Moved, Up
    <2> QED BY <1>15, <1>17, <2>4, <2>5, <2>6 DEF Named
  <1>20. HostOk(w)  BY <1>3, <1>18, <1>19, MovedOk
  <1>21. adm' = w
    <2>1. adm' = [v EXCEPT !.d[d].phase = "loading", !.d[d].cfg = f, !.sock = {d}]
      BY <1>1, <1>4 DEF Control!Open
    <2> QED BY <1>2, <1>3, <1>5, <1>14, <1>16, <2>1 DEF Host
  <1> QED BY <1>20, <1>21

\* LoadModules() has come past a key.
LEMMA KeysAre ==
  ASSUME NEW p, NEW q, p.next \in 1..Len(Modules), q.next = p.next + 1
  PROVE  /\ Keys(q) = Keys(p) \cup {Modules[p.next]}
         /\ Modules[p.next] \notin Keys(p) /\ Modules[p.next] \in Names
  <1>1. PICK k \in Nat : k = p.next  OBVIOUS
  <1>2. k \in DOMAIN Modules  BY <1>1, Configured
  <1>3. \A l \in DOMAIN Modules : l < k + 1 <=> l < k \/ l = k  BY <1>1, Configured
  <1>4. Keys(p) = {Modules[l] : l \in {j \in DOMAIN Modules : j < k}}  BY <1>1 DEF Keys
  <1>5. Keys(q) = {Modules[l] : l \in {j \in DOMAIN Modules : j < k + 1}}  BY <1>1 DEF Keys
  <1>6. {j \in DOMAIN Modules : j < k + 1} = {j \in DOMAIN Modules : j < k} \cup {k}
    BY <1>2, <1>3
  <1>7. Keys(q) = Keys(p) \cup {Modules[k]}  BY ONLY <1>4, <1>5, <1>6
  <1>8. Modules[k] \notin Keys(p)
    <2>1. SUFFICES ASSUME NEW l \in DOMAIN Modules, l < k, Modules[l] = Modules[k]
                   PROVE  FALSE
      BY <1>4
    <2>2. l = k  BY <1>2, <2>1, Configured
    <2> QED BY <1>1, <2>1, <2>2
  <1>9. Modules[k] \in Names  BY <1>2, Configured
  <1> QED BY <1>1, <1>7, <1>8, <1>9

\* The modules it then has.
Past(p, m, name) ==
  /\ \A i \in DOMAIN m : m[i].name = name \/ Runs(p, m[i].name)
  /\ \A n : Runs(p, n) => \E i \in DOMAIN m : m[i].name = n
  /\ p.cfg[name] = "on" => \E i \in DOMAIN m : m[i].name = name

Onward(p, m) == [p EXCEPT !.mods = m, !.next = p.next + 1]

\* A process that has come past a key has loaded what is enabled up to there.
LEMMA NextOk ==
  ASSUME NEW p, ProcessOk(p), p.phase = "loading", p.next \in 1..Len(Modules), ~p.cut,
         NEW m \in Seq(Instance), NEW name, name = Modules[p.next], Past(p, m, name),
         NEW q, q = Onward(p, m)
  PROVE  /\ ProcessOk(q) /\ q.phase = p.phase /\ q.mods = m
         /\ q.twice = p.twice /\ q.reloaded = p.reloaded
  <1>1. PICK k : k = p.next + 1 /\ q = [p EXCEPT !.mods = m, !.next = k]  BY DEF Onward
  <1>2. p \in Process  BY DEF ProcessOk
  <1>3. k \in Nat  BY <1>1
  <1>4. q \in Process  BY <1>1, <1>2, <1>3 DEF Process
  <1>5. /\ q.phase = p.phase /\ q.mods = m /\ q.missing = p.missing /\ q.cut = p.cut
        /\ q.twice = p.twice /\ q.reloaded = p.reloaded /\ q.next = k
        /\ q.cfg = p.cfg /\ q.told = p.told /\ q.run = p.run /\ q.early = p.early
    BY <1>1, <1>2 DEF Process
  <1>6. Keys(q) = Keys(p) \cup {name} /\ name \in Names  BY <1>1, <1>5, KeysAre
  <1>7. Blank(q) /\ Missed(q)  BY <1>5 DEF Blank, Missed, Heeds, Loads, ProcessOk
  <1>8. \A i \in DOMAIN p.mods : p.mods[i].name \in Keys(p)  BY DEF ProcessOk, Filled
  <1>9. \A n \in Keys(p) : p.cfg[n] = "on" => Runs(p, n)  BY DEF ProcessOk, Filled
  <1>10. \A i \in DOMAIN q.mods : q.mods[i].name \in Keys(q)
    BY <1>5, <1>6, <1>8 DEF Past, Runs
  <1>11. \A n \in Keys(q) : q.cfg[n] = "on" => Runs(q, n)
    <2>1. SUFFICES ASSUME NEW n \in Keys(q), q.cfg[n] = "on"  PROVE Runs(q, n)  OBVIOUS
    <2>2. \E i \in DOMAIN m : m[i].name = n
      <3>1. CASE n = name  BY <1>5, <2>1, <3>1 DEF Past
      <3>2. CASE n \in Keys(p)  BY <1>5, <1>9, <2>1, <3>2 DEF Past
      <3> QED BY <1>6, <3>1, <3>2
    <2> QED BY <1>5, <2>2 DEF Runs
  <1>12. q.next \in 1..(Len(Modules) + 1)  BY <1>1, <1>5, Configured
  <1>13. Filled(q)  BY <1>10, <1>11, <1>12 DEF Filled
  <1> QED BY <1>1, <1>4, <1>5, <1>7, <1>13 DEF ProcessOk

\* Loader::LoadModules(): no module of that key runs yet, and so its port is free.
LEMMA LoadModulesKeeps ==
  ASSUME HostOk(adm), NEW d \in Daemons, Control!LoadModules(d)
  PROVE  HostOk(adm')
  <1>1. PICK v : v = adm  OBVIOUS
  <1>2. PICK p : p = v.d[d]  OBVIOUS
  <1>3. /\ HostOk(v) /\ ProcessOk(p) /\ p.phase = "loading" /\ p.next <= Len(Modules) /\ ~p.cut
    BY <1>1, <1>2 DEF HostOk, Control!LoadModules
  <1>4. p \in Process /\ p.mods \in Seq(Instance)  BY <1>3 DEF ProcessOk, Process
  <1>5. p.next \in 1..Len(Modules)
    <2>1. p.next \in 1..(Len(Modules) + 1)  BY <1>3 DEF ProcessOk, Filled
    <2> QED BY <1>3, <2>1, Configured
  <1>6. PICK name : name = Modules[p.next]  OBVIOUS
  <1>7. name \in Names /\ name \notin Keys(p)
    <2>1. PICK q : q = [p EXCEPT !.next = p.next + 1]  OBVIOUS
    <2>2. q.next = p.next + 1  BY <1>4, <2>1 DEF Process
    <2> QED BY <1>5, <1>6, <2>2, KeysAre
  <1>8. ~Runs(p, name)  BY <1>3, <1>7 DEF ProcessOk, Filled, Runs
  <1>9. PICK r \in Instance : r = New(v, name)  BY <1>7, NewIs
  <1>10. PICK m \in Seq(Instance) : m = IF p.cfg[name] = "on" THEN Append(p.mods, r) ELSE p.mods
    <2>1. Append(p.mods, r) \in Seq(Instance)  BY <1>4
    <2> QED BY <1>4, <2>1
  <1>11. PICK q : q = Onward(p, m)  OBVIOUS
  <1>12. Past(p, m, name)
    <2>1. CASE p.cfg[name] # "on"  BY <1>10, <2>1 DEF Past, Runs
    <2>2. CASE p.cfg[name] = "on"
      <3>1. PICK l \in Nat : l = Len(p.mods)  BY <1>4
      <3>2. DOMAIN m = 1..(l + 1) /\ DOMAIN p.mods = 1..l  BY <1>4, <1>10, <2>2, <3>1
      <3>3. m[l + 1] = r /\ \A i \in 1..l : m[i] = p.mods[i]  BY <1>4, <1>10, <2>2, <3>1
      <3>4. r.name = name  BY <1>9 DEF New
      <3>5. \A i \in 1..(l + 1) : i = l + 1 \/ i \in 1..l  BY <3>1
      <3>6. l + 1 \in 1..(l + 1) /\ 1..l \subseteq 1..(l + 1)  BY <3>1
      <3> QED BY <3>2, <3>3, <3>4, <3>5, <3>6 DEF Past, Runs
    <2> QED BY <2>1, <2>2
  <1>13. /\ ProcessOk(q) /\ q.phase = p.phase /\ q.mods = m
         /\ q.twice = p.twice /\ q.reloaded = p.reloaded
    BY ONLY <1>3, <1>5, <1>6, <1>11, <1>12, m \in Seq(Instance), NextOk
  <1>14. v.raced \/ Sole(q)
    <2>1. SUFFICES ASSUME ~v.raced, ~p.twice  PROVE Proper(q.mods, q.reloaded)
      BY <1>13 DEF Sole
    <2>2. Proper(p.mods, p.reloaded)  BY <1>2, <1>3, <2>1 DEF HostOk, Sole
    <2>3. CASE p.cfg[name] # "on"  BY <1>10, <1>13, <2>2, <2>3
    <2>4. CASE p.cfg[name] = "on"
      <3>1. r.name = name /\ ~r.quitting /\ r.listening
        <4>1. Control!PortFree(v, name)
          BY <1>2, <1>3, <1>8, <2>1, PortIsFree DEF Loads
        <4> QED BY <1>9, <4>1 DEF New
      <3>2. \A i \in DOMAIN p.mods : p.mods[i].name # r.name  BY <1>8, <3>1 DEF Runs
      <3>3. Proper(Append(p.mods, r), p.reloaded)  BY <1>4, <2>2, <3>1, <3>2, OneMore
      <3> QED BY <1>10, <1>13, <2>4, <3>3
    <2> QED BY <2>3, <2>4
  <1>15. PICK w : w = [v EXCEPT !.d[d] = q]  OBVIOUS
  <1>16. HostOk(w)  BY <1>2, <1>3, <1>13, <1>14, <1>15, PutOk
  <1>17. adm' = w
    <2>1. PICK u : u = Control!Load(v, d, name, FALSE)  OBVIOUS
    <2>2. u = [v EXCEPT !.d[d] = [p EXCEPT !.mods = m]]
      <3>1. p = [p EXCEPT !.mods = p.mods]  BY <1>4 DEF Process
      <3>2. v = [v EXCEPT !.d[d] = p]  BY <1>2, <1>3 DEF HostOk, Host
      <3>3. CASE p.cfg[name] = "on"  BY <1>2, <1>9, <1>10, <2>1, <3>3, LoadIs
      <3>4. CASE p.cfg[name] # "on"  BY <1>2, <1>10, <2>1, <3>1, <3>2, <3>4, LoadIs
      <3> QED BY <3>3, <3>4
    <2>3. adm' = [u EXCEPT !.d[d].next = @ + 1]
      BY <1>1, <1>2, <1>6, <2>1 DEF Control!LoadModules
    <2>4. PICK pm : pm = [p EXCEPT !.mods = m]  OBVIOUS
    <2>5. pm.next = p.next /\ q = [pm EXCEPT !.next = p.next + 1]
      BY <1>4, <1>11, <2>4 DEF Onward, Process
    <2>6. u.d[d] = pm  BY <1>3, <2>2, <2>4 DEF HostOk, Host
    <2>7. adm' = [u EXCEPT !.d[d] = q]  BY <1>11, <2>3, <2>5, <2>6
    <2> QED BY <1>15, <2>2, <2>7
  <1> QED BY <1>16, <1>17

\* Core::MainLoop(): all that was enabled has been loaded, unless LoadModules() was cut short.
LEMMA MainLoopKeeps ==
  ASSUME HostOk(adm), NEW d \in Daemons, Control!MainLoop(d)
  PROVE  HostOk(adm')
  <1>1. PICK v : v = adm  OBVIOUS
  <1>2. PICK p : p = v.d[d]  OBVIOUS
  <1>3. HostOk(v) /\ ProcessOk(p) /\ p.phase = "loading" /\ (p.next > Len(Modules) \/ p.cut)
    BY <1>1, <1>2 DEF HostOk, Control!MainLoop
  <1>4. p \in Process /\ p.mods \in Seq(Instance)  BY <1>3 DEF ProcessOk, Process
  <1>5. PICK S : S = {n \in Names : p.cfg[n] = "on" /\ ~Control!Running(v, d, n)}  OBVIOUS
  <1>6. \A n : Control!Running(v, d, n) <=> Runs(p, n)
    BY <1>2, <1>4 DEF Control!Running, Runs
  <1>7. S # {} => p.cut
    <2>1. SUFFICES ASSUME ~p.cut, NEW n \in Names, p.cfg[n] = "on", ~Runs(p, n)
                   PROVE  FALSE
      BY <1>5, <1>6
    <2>2. p.next \in 1..(Len(Modules) + 1) /\ p.next > Len(Modules)
      BY <1>3, <2>1 DEF ProcessOk, Filled
    <2>3. \A l \in DOMAIN Modules : l < p.next  BY <2>2, Configured
    <2>4. Names = Keys(p)  BY <2>3, Configured DEF Keys
    <2>5. n \in Keys(p)  BY <2>4
    <2> QED BY <1>3, <2>1, <2>5 DEF ProcessOk, Filled
  <1>8. PICK q : q = [p EXCEPT !.phase = "main", !.run = TRUE, !.missing = S]  OBVIOUS
  <1>9. S \subseteq Names  BY <1>5
  <1>10. q \in Process  BY <1>4, <1>8, <1>9 DEF Process, Phases
  <1>11. /\ q.phase = "main" /\ q.mods = p.mods /\ q.missing = S /\ q.cut = p.cut
         /\ q.twice = p.twice /\ q.reloaded = p.reloaded
         /\ q.told = p.told /\ q.early = p.early
    BY <1>4, <1>8 DEF Process
  <1>12. ProcessOk(q)
    BY <1>3, <1>7, <1>10, <1>11 DEF ProcessOk, Blank, Filled, Missed, Heeds, Loads
  <1>13. v.raced \/ Sole(q)  BY <1>2, <1>3, <1>11 DEF HostOk, Sole
  <1>14. Loads(q) /\ Loads(v.d[d])  BY <1>2, <1>3, <1>11 DEF Loads
  <1>15. PICK w : w = [v EXCEPT !.d[d] = q]  OBVIOUS
  <1>16. HostOk(w)  BY <1>3, <1>12, <1>13, <1>14, <1>15, PutOk
  <1>17. adm' = w
    <2>1. S = {n \in Control!Names : v.d[d].cfg[n] = "on" /\ ~Control!Running(v, d, n)}
      BY <1>2, <1>5 DEF Names
    <2>2. adm' = [v EXCEPT !.d[d].phase = "main", !.d[d].run = TRUE, !.d[d].missing = S]
      BY <1>1, <2>1 DEF Control!MainLoop
    <2>3. PICK q1, q2 : q1 = [p EXCEPT !.phase = "main"] /\ q2 = [q1 EXCEPT !.run = TRUE]
      OBVIOUS
    <2>4. PICK w1, w2 : w1 = [v EXCEPT !.d[d] = q1] /\ w2 = [w1 EXCEPT !.d[d] = q2]  OBVIOUS
    <2>5. v.d \in [Daemons -> Process]  BY <1>3 DEF HostOk, Host
    <2>6. q = [q2 EXCEPT !.missing = S]  BY <1>8, <2>3
    <2>7. w1.d[d] = q1 /\ w2.d[d] = q2  BY <1>3, <2>4, <2>5 DEF HostOk, Host
    <2>8. w1 = [v EXCEPT !.d[d].phase = "main"]  BY <1>2, <2>3, <2>4
    <2>9. w2 = [w1 EXCEPT !.d[d].run = TRUE]  BY <2>3, <2>4, <2>7
    <2>10. adm' = [w2 EXCEPT !.d[d].missing = S]  BY <2>2, <2>8, <2>9
    <2>11. adm' = [w2 EXCEPT !.d[d] = q]  BY <2>6, <2>7, <2>10
    <2>12. w = [w2 EXCEPT !.d[d] = q]
      BY <1>3, <1>15, <2>4, <2>5 DEF HostOk, Host
    <2> QED BY <2>11, <2>12
  <1> QED BY <1>16, <1>17

\* The commands are counted.
LEMMA OpKeeps ==
  ASSUME HostOk(adm), NEW v, HostOk(v), Control!Op(v)
  PROVE  HostOk(adm')
  <1>1. v.ops \in Nat  BY DEF HostOk, Host
  <1>2. PICK n \in Nat : n = v.ops + 1  BY <1>1
  <1>3. adm' = [v EXCEPT !.ops = n]  BY <1>2 DEF Control!Op
  <1>4. HostOk([v EXCEPT !.ops = n])  BY OpsOk
  <1> QED BY <1>3, <1>4

\* SIGTERM, and an exception or SIGKILL.
LEMMA SignalKeeps ==
  ASSUME HostOk(adm), NEW d \in Daemons, Control!Signal(d) \/ Control!Die(d)
  PROVE  HostOk(adm')
  <1>1. /\ HostOk(Control!Dead(adm, d))
        /\ adm.d[d].phase \in {"loading", "main"} => HostOk(Control!Quit(adm, d))
    BY QuitOk, DeadOk DEF Loads
  <1>2. PICK v : /\ \/ v = Control!Quit(adm, d) /\ adm.d[d].phase \in {"loading", "main"}
                    \/ v = Control!Dead(adm, d)
                 /\ adm' = [v EXCEPT !.ops = @ + 1]
    <2>1. CASE Control!Signal(d) /\ adm.d[d].phase \in {"loading", "main"}
      BY <2>1 DEF Control!Signal
    <2>2. CASE Control!Signal(d) /\ adm.d[d].phase \notin {"loading", "main"}
      BY <2>2 DEF Control!Signal
    <2>3. CASE Control!Die(d)  BY <2>3 DEF Control!Die
    <2> QED BY <2>1, <2>2, <2>3
  <1>3. HostOk(v)  BY <1>1, <1>2
  <1>4. v.ops \in Nat  BY <1>3 DEF HostOk, Host
  <1>5. PICK n \in Nat : n = v.ops + 1  BY <1>4
  <1>6. adm' = [v EXCEPT !.ops = n]  BY <1>2, <1>5
  <1>7. HostOk([v EXCEPT !.ops = n])  BY <1>3, OpsOk
  <1> QED BY <1>6, <1>7

\* The end of Run(): no other is up, and so nobody loses a name.
LEMMA RunEndsKeeps ==
  ASSUME HostOk(adm), NEW d \in Daemons, Control!RunEnds(d)
  PROVE  HostOk(adm')
  <1>1. PICK v : v = adm  OBVIOUS
  <1>2. PICK p : p = v.d[d]  OBVIOUS
  <1>3. HostOk(v) /\ ProcessOk(p) /\ p.phase = "main" /\ p \in Process /\ v \in Host
    BY <1>1, <1>2 DEF HostOk, Control!RunEnds, ProcessOk
  <1>4. PICK told \in BOOLEAN : told = p.told  BY <1>3 DEF Process
  <1>5. PICK q : q = [Control!NoDaemon EXCEPT !.told = told]  OBVIOUS
  <1>6. ProcessOk(q) /\ Sole(q) /\ q.phase = "off"  BY <1>5, OffIs
  <1>7. PICK u : u = [v EXCEPT !.d[d] = q]  OBVIOUS
  <1>8. /\ Moved(v, u, d, q) /\ u.raced = v.raced
    BY <1>3, <1>6, <1>7, MovedIs
  <1>9. PICK S : S = {}  OBVIOUS
  <1>10. PICK w : w = [u EXCEPT !.sock = S, !.pid = FALSE, !.left = FALSE]  OBVIOUS
  <1>11. w \in Host /\ w.d = u.d /\ w.torn = u.torn /\ ~w.pid /\ w.raced = u.raced
    BY <1>8, <1>9, <1>10 DEF Moved, Host
  <1>12. Moved(v, w, d, q)  BY <1>8, <1>11, MovedToo
  <1>13. w.raced \/ (~v.raced /\ Sole(q) /\ (Named(v) => Named(w)))
    <2>1. SUFFICES ASSUME ~v.raced  PROVE Named(w)
      <3>1. w.raced = v.raced  BY <1>8, <1>11
      <3>2. v.raced \in BOOLEAN  BY <1>3 DEF Host
      <3> QED BY <1>6, <3>1, <3>2
    <2>2. Up(v.d[d])  BY <1>2, <1>3 DEF Up
    <2>3. \A e \in Daemons : e # d => ~Up(v.d[e])  BY <1>3, <2>1, <2>2, OnlyOne
    <2>4. \A e \in Daemons : e # d => ~Up(w.d[e])  BY <1>12, <2>3 DEF Moved
    <2>5. ~Up(w.d[d])  BY <1>6, <1>12 DEF Moved, Up
    <2>6. \A e \in Daemons : ~Up(w.d[e])  BY <2>4, <2>5
    <2> QED BY <1>11, <2>6 DEF Named
  <1>14. HostOk(w)  BY <1>3, <1>12, <1>13, MovedOk
  <1>15. adm' = w
    <2>1. adm' = [v EXCEPT !.d[d] = q, !.sock = S, !.pid = FALSE, !.left = FALSE]
      BY <1>1, <1>2, <1>4, <1>5, <1>9 DEF Control!RunEnds
    <2> QED BY <1>7, <1>10, <2>1
  <1> QED BY <1>14, <1>15

\* SIGHUP, which may cut LoadModules() short.
LEMMA CutOk ==
  ASSUME NEW v, HostOk(v), NEW d \in Daemons, Loads(v.d[d]), NEW c \in BOOLEAN,
         c <=> v.d[d].cut \/ v.d[d].phase = "loading",
         NEW q, q = [v.d[d] EXCEPT !.cut = c], NEW u, u = [v EXCEPT !.d[d] = q]
  PROVE  HostOk(Control!CfgReload(u, d))
  <1>1. PICK p : p = v.d[d]  OBVIOUS
  <1>2. ProcessOk(p) /\ p \in Process  BY <1>1 DEF HostOk, ProcessOk
  <1>3. q = [p EXCEPT !.cut = c]  BY <1>1
  <1>4. q \in Process  BY <1>2, <1>3 DEF Process
  <1>5. /\ q.phase = p.phase /\ q.mods = p.mods /\ q.missing = p.missing /\ q.cut = c
        /\ q.twice = p.twice /\ q.reloaded = p.reloaded /\ q.next = p.next /\ q.cfg = p.cfg
        /\ q.told = p.told /\ q.run = p.run /\ q.early = p.early
    BY <1>2, <1>3 DEF Process
  <1>6. Keys(q) = Keys(p)  BY <1>5 DEF Keys
  <1>7. Blank(q)  BY <1>2, <1>5 DEF ProcessOk, Blank, Loads
  <1>8. Missed(q)  BY <1>1, <1>2, <1>5 DEF ProcessOk, Missed, Heeds
  <1>9. Filled(q)
    <2>1. SUFFICES ASSUME p.phase = "loading"  PROVE Filled(q)  BY <1>5 DEF Filled
    <2>2. q.cut  BY <1>1, <1>5, <2>1
    <2> QED BY <1>2, <1>5, <1>6, <2>1, <2>2 DEF ProcessOk, Filled
  <1>10. ProcessOk(q)  BY <1>4, <1>7, <1>8, <1>9 DEF ProcessOk
  <1>11. v.raced \/ Sole(q)  BY <1>1, <1>5 DEF HostOk, Sole
  <1>12. q.phase = v.d[d].phase  BY <1>1, <1>5
  <1>13. HostOk(u)
    BY ONLY HostOk(v), d \in Daemons, <1>10, <1>11, <1>12, u = [v EXCEPT !.d[d] = q], PutOk
  <1>14. u.d[d] = q
    <2>1. v.d \in [Daemons -> Process]  BY DEF HostOk, Host
    <2> QED BY <2>1 DEF HostOk, Host
  <1>15. Loads(u.d[d]) /\ (u.d[d].phase = "loading" => u.d[d].cut)
    BY <1>1, <1>5, <1>14 DEF Loads
  <1> QED BY ONLY <1>13, <1>15, d \in Daemons, ReloadOk

\* SIGHUP: LoadModules() is cut short or does not run.
LEMMA HupKeeps ==
  ASSUME HostOk(adm), NEW d \in Daemons, Control!Hup(d)
  PROVE  HostOk(adm')
  <1>1. PICK v, p : v = adm /\ p = v.d[d]  OBVIOUS
  <1>2. HostOk(v) /\ Loads(p)  BY <1>1 DEF Control!Hup, Loads
  <1>3. PICK c \in BOOLEAN : c <=> p.cut \/ p.phase = "loading"  OBVIOUS
  <1>4. PICK q, u : q = [p EXCEPT !.cut = c] /\ u = [v EXCEPT !.d[d] = q]  OBVIOUS
  <1>5. HostOk(Control!CfgReload(u, d))  BY <1>1, <1>2, <1>3, <1>4, CutOk
  <1>6. u = [v EXCEPT !.d[d].cut = @ \/ v.d[d].phase = "loading"]
    <2>1. p.cut \in BOOLEAN  BY <1>1, <1>2 DEF HostOk, ProcessOk, Process
    <2>2. c = (p.cut \/ p.phase = "loading")  BY <1>3, <2>1
    <2> QED BY <1>1, <1>4, <2>2
  <1>7. Control!Op(Control!CfgReload(u, d))  BY <1>1, <1>6 DEF Control!Hup
  <1> QED BY <1>5, <1>7, OpKeeps

\* prometeoctl loads a module, whether it runs or not.
LEMMA TwiceOk ==
  ASSUME NEW v, HostOk(v), NEW d \in Daemons, v.d[d].phase = "main", NEW name \in Names,
         NEW t \in BOOLEAN, t <=> v.d[d].twice \/ Runs(v.d[d], name),
         NEW q, q = [v.d[d] EXCEPT !.twice = t], NEW u, u = [v EXCEPT !.d[d] = q]
  PROVE  HostOk(Control!Load(u, d, name, TRUE))
  <1>1. PICK p : p = v.d[d]  OBVIOUS
  <1>2. ProcessOk(p) /\ p \in Process  BY <1>1 DEF HostOk, ProcessOk
  <1>3. q = [p EXCEPT !.twice = t]  BY <1>1
  <1>4. q \in Process  BY <1>2, <1>3 DEF Process
  <1>5. /\ q.phase = "main" /\ q.mods = p.mods /\ q.missing = p.missing /\ q.cut = p.cut
        /\ q.twice = t /\ q.reloaded = p.reloaded /\ q.next = p.next /\ q.cfg = p.cfg
    BY <1>1, <1>2, <1>3 DEF Process
  <1>6. Blank(q) /\ Filled(q) /\ Missed(q)
    <2>1. q.told = p.told /\ q.run = p.run /\ q.early = p.early  BY <1>2, <1>3 DEF Process
    <2> QED BY <1>1, <1>2, <1>5, <2>1 DEF ProcessOk, Blank, Loads, Filled, Missed, Heeds
  <1>7. ProcessOk(q)  BY <1>4, <1>6 DEF ProcessOk
  <1>8. v.raced \/ Sole(q)
    <2>1. SUFFICES ASSUME ~v.raced, ~t  PROVE Proper(p.mods, p.reloaded)  BY <1>5 DEF Sole
    <2> QED BY <1>1, <2>1 DEF HostOk, Sole
  <1>9. q.phase = v.d[d].phase  BY <1>5
  <1>10. HostOk(u)
    BY ONLY HostOk(v), d \in Daemons, <1>7, <1>8, <1>9, u = [v EXCEPT !.d[d] = q], PutOk
  <1>11. u.d[d] = q
    <2>1. v.d \in [Daemons -> Process]  BY DEF HostOk, Host
    <2> QED BY <2>1 DEF HostOk, Host
  <1>12. u.d[d].phase = "main" /\ (u.d[d].twice \/ ~Runs(u.d[d], name))
    <2>1. Runs(q, name) <=> Runs(p, name)  BY <1>5 DEF Runs
    <2>2. q.twice \/ ~Runs(q, name)  BY <1>1, <1>5, <2>1
    <2> QED BY <1>5, <1>11, <2>2
  <1> QED BY ONLY <1>10, <1>12, d \in Daemons, name \in Names, LoadOk

\* A prometeoctl that says nothing comes, or goes.
LEMMA SilentOk ==
  ASSUME NEW v, HostOk(v), NEW d \in Daemons, NEW s \in BOOLEAN
  PROVE  HostOk([v EXCEPT !.d[d].silent = s])
  <1>1. PICK p : p = v.d[d]  OBVIOUS
  <1>2. p \in Process  BY <1>1 DEF HostOk, ProcessOk
  <1>3. PICK q : q = [p EXCEPT !.silent = s]  OBVIOUS
  <1>4. q \in Process /\ Like(p, q)  BY <1>2, <1>3 DEF Process, Like, Heeds
  <1>5. HostOk([v EXCEPT !.d[d] = q])  BY <1>1, <1>4, LikeOk
  <1> QED BY <1>1, <1>3, <1>5

\* A prometeoctl that was silent is gone.
LEMMA CtlEndsKeeps ==
  ASSUME HostOk(adm), NEW d \in Daemons, Control!CtlEnds(d)
  PROVE  HostOk(adm')
BY SilentOk DEF Control!CtlEnds

\* CtrlIPC::NewConnection()
LEMMA CtlKeeps ==
  ASSUME HostOk(adm), NEW d \in Daemons, Control!Ctl(d)
  PROVE  HostOk(adm')
  <1>1. PICK v, p : v = adm /\ p = v.d[d]  OBVIOUS
  <1>2. HostOk(v) /\ p.phase = "main" /\ p.mods \in Seq(Instance) /\ p.twice \in BOOLEAN
    BY <1>1 DEF HostOk, ProcessOk, Process, Control!Ctl, Control!Called, Control!Working
  <1>3. CASE Control!Op(Control!Quit(adm, d))  BY <1>1, <1>2, <1>3, QuitOk, OpKeeps DEF Loads
  <1>4. CASE Control!Op([adm EXCEPT !.d[d].silent = TRUE])  BY <1>4, SilentOk, OpKeeps
  <1>5. ASSUME NEW name \in Names, Control!Op(Control!Unload(adm, d, name))
        PROVE  HostOk(adm')
    <2>1. HostOk(Control!Unload(adm, d, name))  BY <1>1, <1>2, UnloadOk
    <2> QED BY <1>5, <2>1, OpKeeps
  <1>6. ASSUME NEW name \in Names,
               Control!Op(Control!Load([adm EXCEPT !.d[d].twice =
                                          @ \/ Control!Running(adm, d, name)], d, name, TRUE))
        PROVE  HostOk(adm')
    <2>1. PICK t \in BOOLEAN : t <=> p.twice \/ Runs(p, name)  OBVIOUS
    <2>2. PICK q, u : q = [p EXCEPT !.twice = t] /\ u = [v EXCEPT !.d[d] = q]  OBVIOUS
    <2>3. HostOk(Control!Load(u, d, name, TRUE))  BY <1>1, <1>2, <2>1, <2>2, TwiceOk
    <2>4. u = [adm EXCEPT !.d[d].twice = @ \/ Control!Running(adm, d, name)]
      <3>1. Control!Running(v, d, name) <=> Runs(p, name)
        BY <1>1, <1>2 DEF Control!Running, Runs
      <3>2. t = (p.twice \/ Control!Running(v, d, name))  BY <1>2, <2>1, <3>1
      <3> QED BY <1>1, <2>2, <3>2
    <2>5. Control!Op(Control!Load(u, d, name, TRUE))  BY <1>6, <2>4
    <2> QED BY <2>3, <2>5, OpKeeps
  <1> QED BY <1>3, <1>4, <1>5, <1>6 DEF Control!Ctl, Names

\* A module's clients come and go.
LEMMA ClientKeeps ==
  ASSUME HostOk(adm), NEW d \in Daemons, Control!Client(d)
  PROVE  HostOk(adm')
  <1>1. PICK v, p : v = adm /\ p = v.d[d]  OBVIOUS
  <1>2. /\ HostOk(v) /\ ProcessOk(p) /\ Loads(p) /\ p \in Process /\ p.mods \in Seq(Instance)
    BY <1>1 DEF HostOk, ProcessOk, Process, Control!Client, Control!Working, Loads
  <1>3. PICK i \in 1..Len(p.mods) : adm' = [v EXCEPT !.d[d].mods[i].busy = ~@]
    BY <1>1 DEF Control!Client
  <1>4. PICK r : r = [p.mods[i] EXCEPT !.busy = ~@]  OBVIOUS
  <1>5. p.mods[i] \in Instance /\ i \in DOMAIN p.mods  BY <1>2
  <1>6. /\ r \in Instance /\ r.name = p.mods[i].name /\ r.listening = p.mods[i].listening
        /\ r.quitting = p.mods[i].quitting
    BY <1>4, <1>5 DEF Instance
  <1>7. PICK m : m = [p.mods EXCEPT ![i] = r]  OBVIOUS
  <1>8. m \in Seq(Instance) /\ Len(m) = Len(p.mods)  BY <1>2, <1>6, <1>7
  <1>9. DOMAIN m = DOMAIN p.mods /\ \A j \in DOMAIN m : m[j] = IF j = i THEN r ELSE p.mods[j]
    BY <1>2, <1>5, <1>7
  <1>10. \A j \in DOMAIN m : /\ m[j].name = p.mods[j].name /\ m[j].listening = p.mods[j].listening
                             /\ m[j].quitting = p.mods[j].quitting
    BY <1>6, <1>9
  <1>11. PICK q : q = [p EXCEPT !.mods = m]  OBVIOUS
  <1>12. /\ ProcessOk(q) /\ q.phase = p.phase /\ q.mods = m
         /\ q.twice = p.twice /\ q.reloaded = p.reloaded
    BY <1>2, <1>8, <1>10, <1>11, ModulesOk
  <1>13. v.raced \/ Sole(q)
    <2>1. SUFFICES ASSUME ~v.raced, ~p.twice  PROVE Proper(m, p.reloaded)  BY <1>12 DEF Sole
    <2>2. Proper(p.mods, p.reloaded)  BY <1>1, <1>2, <2>1 DEF HostOk, Sole
    <2> QED BY <1>9, <1>10, <2>2 DEF Proper
  <1>14. PICK w : w = [v EXCEPT !.d[d] = q]  OBVIOUS
  <1>15. HostOk(w)  BY <1>1, <1>2, <1>12, <1>13, <1>14, PutOk
  <1>16. adm' = w  BY <1>1, <1>3, <1>4, <1>7, <1>11, <1>14
  <1> QED BY <1>15, <1>16

\* A user who finds no daemon removes the pid file.
LEMMA TidyKeeps ==
  ASSUME HostOk(adm), Control!Tidy
  PROVE  HostOk(adm')
  <1>1. PICK v : v = [adm EXCEPT !.pid = FALSE, !.left = FALSE]  OBVIOUS
  <1>2. v \in Host  BY <1>1 DEF HostOk, Host
  <1>3. v.d = adm.d /\ v.raced = adm.raced /\ v.torn = adm.torn /\ ~v.pid
    BY <1>1 DEF HostOk, Host
  <1>4. \A d \in Daemons : ~Up(v.d[d])  BY <1>3 DEF Control!Tidy, Up
  <1>5. Named(v)  BY <1>3, <1>4 DEF Named
  <1>6. HostOk(v)  BY <1>2, <1>3, <1>5 DEF HostOk
  <1>7. Control!Op(v)  BY <1>1 DEF Control!Tidy
  <1> QED BY <1>6, <1>7, OpKeeps

\* A request to mod_cfg, whose own instance may be the one that is unloaded.
LEMMA CfgKeeps ==
  ASSUME HostOk(adm), NEW d \in Daemons, Control!Cfg(d)
  PROVE  HostOk(adm')
  <1>1. adm.d[d].phase = "main"  BY DEF Control!Cfg, Control!Working
  <1>2. PICK i \in 1..Len(adm.d[d].mods), name \in Names :
         /\ adm.d[d].mods[i].name = "mod_cfg"
         /\ \/ \E v \in {Control!LoadMod(adm, d, name, FALSE), Control!DeleteMod(adm, d, name)} :
                 \/ Control!Op([v EXCEPT !.torn =
                                  @ \cup IF Control!First(adm, d, name) = i THEN {name} ELSE {}])
                 \/ /\ Control!First(adm, d, name) = i
                    /\ Control!Op([Control!Dead(v, d) EXCEPT !.torn = @ \cup {name}])
            \/ Control!Op(Control!LoadMod(adm, d, name, TRUE))
            \/ \E how \in {"on", "off"} : Control!Op(Control!EnableMod(adm, d, name, how))
            \/ Control!Op(Control!Apply(adm, d))
    BY DEF Control!Cfg, Names
  <1>3. ASSUME NEW v \in {Control!LoadMod(adm, d, name, FALSE), Control!DeleteMod(adm, d, name)},
               \/ Control!Op([v EXCEPT !.torn =
                                @ \cup IF Control!First(adm, d, name) = i THEN {name} ELSE {}])
               \/ /\ Control!First(adm, d, name) = i
                  /\ Control!Op([Control!Dead(v, d) EXCEPT !.torn = @ \cup {name}])
        PROVE  HostOk(adm')
    <2>1. HostOk(v)
      <3>1. HostOk(Control!LoadMod(adm, d, name, FALSE))  BY <1>1, LoadModOk
      <3>2. HostOk(Control!DeleteMod(adm, d, name))  BY <1>1, DeleteOk
      <3> QED BY <1>3, <3>1, <3>2
    <2>2. PICK S : S = IF Control!First(adm, d, name) = i THEN {name} ELSE {}  OBVIOUS
    <2>3. S \subseteq {"mod_cfg"} \cap Names
      <3>1. SUFFICES ASSUME Control!First(adm, d, name) = i  PROVE name = "mod_cfg"
        BY <2>2
      <3>2. i # 0
        <4>1. Len(adm.d[d].mods) \in Nat
          <5>1. adm.d[d].mods \in Seq(Instance)  BY DEF HostOk, ProcessOk, Process
          <5> QED BY <5>1
        <4> QED BY <4>1
      <3>3. adm.d[d].mods[i].name = name  BY <3>1, <3>2, FirstIs
      <3> QED BY <1>2, <3>3
    <2>4. CASE Control!Op([v EXCEPT !.torn =
                             @ \cup IF Control!First(adm, d, name) = i THEN {name} ELSE {}])
      <3>1. HostOk([v EXCEPT !.torn = @ \cup S])  BY <2>1, <2>3, TornOk
      <3>2. Control!Op([v EXCEPT !.torn = @ \cup S])  BY <2>2, <2>4
      <3> QED BY <3>1, <3>2, OpKeeps
    <2>5. CASE /\ Control!First(adm, d, name) = i
               /\ Control!Op([Control!Dead(v, d) EXCEPT !.torn = @ \cup {name}])
      <3>1. PICK w : w = Control!Dead(v, d)  OBVIOUS
      <3>2. HostOk(w)  BY <2>1, <3>1, DeadOk
      <3>3. HostOk([w EXCEPT !.torn = @ \cup S])  BY <2>3, <3>2, TornOk
      <3>4. S = {name}  BY <2>2, <2>5
      <3>5. Control!Op([w EXCEPT !.torn = @ \cup S])  BY <2>5, <3>1, <3>4
      <3> QED BY <3>3, <3>5, OpKeeps
    <2> QED BY <1>3, <2>4, <2>5
  <1>4. CASE Control!Op(Control!LoadMod(adm, d, name, TRUE))
    <2>1. HostOk(Control!LoadMod(adm, d, name, TRUE))  BY <1>1, LoadModOk
    <2> QED BY <1>4, <2>1, OpKeeps
  <1>5. ASSUME NEW how \in {"on", "off"}, Control!Op(Control!EnableMod(adm, d, name, how))
        PROVE  HostOk(adm')
    <2>1. HostOk(Control!EnableMod(adm, d, name, how))  BY <1>1, EnableOk DEF Kinds
    <2> QED BY <1>5, <2>1, OpKeeps
  <1>6. CASE Control!Op(Control!Apply(adm, d))
    <2>1. HostOk(Control!Apply(adm, d))  BY <1>1, ApplyOk
    <2> QED BY <1>6, <2>1, OpKeeps
  <1> QED BY <1>2, <1>3, <1>4, <1>5, <1>6

\* Loader::OnTimer() with the nth module from the end, and with the last k.
Timed(w, d, mods, n) ==
  IF mods[Len(mods) - n + 1].quitting THEN Control!Cleanup(w, d, Len(mods) - n + 1) ELSE w

Times(f, k, v, d, mods) ==
  f = [n \in 0..k |-> IF n = 0 THEN v ELSE Timed(f[n - 1], d, mods, n)]

\* There is such a function.
LEMMA TimesExist ==
  ASSUME NEW v, NEW d, NEW mods, NEW k \in Nat
  PROVE  \E f : Times(f, k, v, d, mods)
  <1>1. PICK T : T = {l \in Nat : \E f : Times(f, l, v, d, mods)}  OBVIOUS
  <1>2. 0 \in T
    <2>1. PICK f : f = [n \in 0..0 |-> v]  OBVIOUS
    <2>2. \A n \in 0..0 : n = 0  OBVIOUS
    <2>3. f = [n \in 0..0 |-> IF n = 0 THEN v ELSE Timed(f[n - 1], d, mods, n)]  BY <2>1, <2>2
    <2>4. Times(f, 0, v, d, mods)  BY <2>3 DEF Times
    <2> QED BY <1>1, <2>4
  <1>3. ASSUME NEW l \in Nat, l \in T
        PROVE  l + 1 \in T
    <2>1. PICK f : f = [n \in 0..l |-> IF n = 0 THEN v ELSE Timed(f[n - 1], d, mods, n)]
      BY <1>1, <1>3 DEF Times
    <2>2. PICK x : x = Timed(f[l], d, mods, l + 1)  OBVIOUS
    <2>3. PICK g : g = [n \in 0..(l + 1) |-> IF n = l + 1 THEN x ELSE f[n]]  OBVIOUS
    <2>4. \A n \in 0..(l + 1) : n # l + 1 => n \in 0..l  OBVIOUS
    <2>5. \A n \in 0..(l + 1) : n # 0 => n - 1 \in 0..(l + 1) /\ n - 1 # l + 1  OBVIOUS
    <2>6. \A n \in 0..(l + 1) : n # 0 => g[n - 1] = f[n - 1]  BY <2>3, <2>5
    <2>7. ASSUME NEW n \in 0..(l + 1)
          PROVE  (IF n = l + 1 THEN x ELSE f[n])
                   = IF n = 0 THEN v ELSE Timed(g[n - 1], d, mods, n)
      <3>1. CASE n = l + 1
        <4>1. n # 0 /\ n - 1 = l  BY <3>1
        <4>2. g[n - 1] = f[l]  BY <2>6, <4>1
        <4> QED BY <2>2, <3>1, <4>1, <4>2
      <3>2. CASE n # l + 1
        <4>1. n \in 0..l  BY <2>4, <3>2
        <4>2. f[n] = IF n = 0 THEN v ELSE Timed(f[n - 1], d, mods, n)  BY ONLY <2>1, <4>1
        <4> QED BY <2>6, <3>2, <4>2
      <3> QED BY <3>1, <3>2
    <2>8. g = [n \in 0..(l + 1) |-> IF n = 0 THEN v ELSE Timed(g[n - 1], d, mods, n)]
      BY ONLY <2>3, <2>7
    <2>9. Times(g, l + 1, v, d, mods)  BY ONLY <2>8 DEF Times
    <2> QED BY <1>1, <2>9
  <1>4. Nat \subseteq T  BY <1>2, <1>3, Every
  <1> QED BY <1>1, <1>4

\* It cleans up modules that are there: the daemon has the first k still.
Has(w, d, k) == HostOk(w) /\ w.d[d].phase = "main" /\ Len(w.d[d].mods) >= k

\* Loader::OnTimer(), one module further, finds it there, and leaves those before it.
LEMMA TimedHas ==
  ASSUME NEW w, NEW d \in Daemons, NEW mods, NEW n \in Nat, NEW N \in Nat, N = Len(mods),
         n + 1 <= N, Has(w, d, N - n)
  PROVE  Has(Timed(w, d, mods, n + 1), d, N - (n + 1))
  <1>1. HostOk(w) /\ w.d[d].phase = "main" /\ Len(w.d[d].mods) >= N - n  BY DEF Has
  <1>2. w.d[d].mods \in Seq(Instance)  BY <1>1 DEF HostOk, ProcessOk, Process
  <1>3. PICK l \in Nat : l = Len(w.d[d].mods)  BY <1>2
  <1>4. PICK i : i = N - n  OBVIOUS
  <1>5. i \in 1..l /\ N - (n + 1) + 1 = i /\ i - 1 = N - (n + 1)  BY <1>1, <1>3, <1>4
  <1>6. PICK x : x = Timed(w, d, mods, n + 1)  OBVIOUS
  <1>7. x = IF mods[i].quitting THEN Control!Cleanup(w, d, i) ELSE w
    BY <1>5, <1>6 DEF Timed
  <1>8. CASE ~mods[i].quitting
    <2>1. x = w  BY <1>7, <1>8
    <2>2. l >= i - 1  BY <1>5
    <2>3. Has(x, d, i - 1)  BY <1>1, <1>3, <2>1, <2>2 DEF Has
    <2> QED BY <1>5, <1>6, <2>3
  <1>9. CASE mods[i].quitting
    <2>1. x = Control!Cleanup(w, d, i)  BY <1>7, <1>9
    <2>2. i \in 1..Len(w.d[d].mods)  BY <1>3, <1>5
    <2>3. /\ HostOk(Control!Cleanup(w, d, i)) /\ Control!Cleanup(w, d, i).d[d].phase = "main"
          /\ Len(Control!Cleanup(w, d, i).d[d].mods) >= i - 1
      BY <1>1, <2>2, CleanupOk
    <2>4. Has(x, d, i - 1)  BY ONLY <2>1, <2>3 DEF Has
    <2> QED BY <1>5, <1>6, <2>4
  <1> QED BY <1>8, <1>9

\* What it has made of the whole list keeps the invariant.
LEMMA TimesOk ==
  ASSUME NEW v, HostOk(v), NEW d \in Daemons, v.d[d].phase = "main", NEW mods,
         mods = v.d[d].mods, NEW N \in Nat, N = Len(mods), NEW f, Times(f, N, v, d, mods)
  PROVE  HostOk(f[N])
  <1>1. PICK T : T = {n \in Nat : n <= N => Has(f[n], d, N - n)}  OBVIOUS
  <1>2. \A n \in 0..N : f[n] = IF n = 0 THEN v ELSE Timed(f[n - 1], d, mods, n)
    BY DEF Times
  <1>3. 0 \in T
    <2>1. f[0] = v  BY <1>2
    <2>2. Has(f[0], d, N)  BY <2>1 DEF Has
    <2> QED BY <1>1, <2>2
  <1>4. ASSUME NEW n \in Nat, n \in T
        PROVE  n + 1 \in T
    <2>1. SUFFICES ASSUME n + 1 <= N  PROVE Has(f[n + 1], d, N - (n + 1))  BY <1>1
    <2>2. Has(f[n], d, N - n)  BY <1>1, <1>4, <2>1
    <2>3. Has(Timed(f[n], d, mods, n + 1), d, N - (n + 1))
      <3>1. PICK w : w = f[n]  OBVIOUS
      <3> QED BY <2>1, <2>2, <3>1, TimedHas
    <2>4. f[n + 1] = Timed(f[n], d, mods, n + 1)
      <3>1. n + 1 \in 0..N /\ n + 1 # 0 /\ (n + 1) - 1 = n  BY <2>1
      <3> QED BY <1>2, <3>1
    <2> QED BY ONLY <2>3, <2>4
  <1>5. N \in T  BY <1>3, <1>4, Every
  <1>6. Has(f[N], d, N - N)  BY <1>1, <1>5
  <1> QED BY <1>6 DEF Has

\* Loader::OnTimer()
LEMMA OnTimerKeeps ==
  ASSUME HostOk(adm), NEW d \in Daemons, Control!OnTimer(d)
  PROVE  HostOk(adm')
  <1>1. PICK mods : mods = adm.d[d].mods  OBVIOUS
  <1>2. adm.d[d].phase = "main" /\ mods \in Seq(Instance)
    BY <1>1 DEF HostOk, ProcessOk, Process, Control!OnTimer, Control!Working
  <1>3. PICK N \in Nat : N = Len(mods)  BY <1>2
  <1>4. PICK f : f = CHOOSE g : Times(g, N, adm, d, mods)  OBVIOUS
  <1>5. Times(f, N, adm, d, mods)  BY <1>4, TimesExist
  <1>6. adm' = f[N]  BY <1>1, <1>3, <1>4 DEF Control!OnTimer, Times, Timed
  <1> QED BY <1>1, <1>2, <1>3, <1>5, <1>6, TimesOk

\* There is no daemon at first.
LEMMA HostInit == Control!Init => HostOk(adm)
  <1>1. SUFFICES ASSUME Control!Init  PROVE HostOk(adm)  OBVIOUS
  <1>2. PICK told : told = FALSE  OBVIOUS
  <1>3. PICK q : q = [Control!NoDaemon EXCEPT !.told = told]  OBVIOUS
  <1>4. ProcessOk(q) /\ Sole(q) /\ q.phase = "off"  BY <1>2, <1>3, OffIs
  <1>5. q = Control!NoDaemon  BY <1>2, <1>3 DEF Control!NoDaemon
  <1>6. PICK f, S, ds :
          /\ f \in Configs /\ S = {} /\ ds = [d \in Daemons |-> q]
          /\ adm = [pid |-> FALSE, sock |-> S, d |-> ds, file |-> f, starts |-> 0, ops |-> 0,
                    raced |-> FALSE, left |-> FALSE, torn |-> S]
    BY <1>1, <1>5 DEF Control!Init
  <1>7. f \in [Names -> Kinds]  BY <1>6, Configured
  <1>8. ds \in [Daemons -> Process] /\ S \subseteq Daemons /\ S \subseteq Names
    BY <1>4, <1>6 DEF ProcessOk
  <1>9. adm \in Host  BY <1>6, <1>7, <1>8 DEF Host
  <1>10. adm.d = ds /\ adm.torn = S /\ adm.pid = FALSE  BY <1>6
  <1>11. \A d \in Daemons : adm.d[d] = q  BY <1>6, <1>10
  <1>12. ~Up(q)  BY <1>4 DEF Up
  <1>13. Named(adm)  BY <1>10, <1>11, <1>12 DEF Named
  <1>14. adm.torn \subseteq {"mod_cfg"}  BY <1>6, <1>10
  <1> QED BY <1>4, <1>9, <1>11, <1>13, <1>14 DEF HostOk

\* Every step keeps the invariant.
LEMMA HostStep == HostOk(adm) /\ Control!Next => HostOk(adm')
  <1>1. SUFFICES ASSUME HostOk(adm), Control!Next  PROVE HostOk(adm')  OBVIOUS
  <1>2. CASE Control!Tidy  BY <1>1, <1>2, TidyKeeps
  <1>3. ASSUME NEW d \in Daemons,
               \/ Control!Start(d) \/ Control!CheckPid(d) \/ Control!CreatePid(d)
               \/ Control!Open(d) \/ Control!LoadModules(d) \/ Control!MainLoop(d)
               \/ Control!Signal(d) \/ Control!RunEnds(d) \/ Control!Die(d) \/ Control!Hup(d)
               \/ Control!Ctl(d) \/ Control!CtlEnds(d) \/ Control!Cfg(d) \/ Control!Client(d)
               \/ Control!OnTimer(d)
        PROVE  HostOk(adm')
    BY <1>1, <1>3, StartKeeps, CheckPidKeeps, CreatePidKeeps, OpenKeeps, LoadModulesKeeps,
       MainLoopKeeps, SignalKeeps, RunEndsKeeps, HupKeeps, CtlKeeps, CtlEndsKeeps, CfgKeeps,
       ClientKeeps, OnTimerKeeps
  <1> QED BY <1>1, <1>2, <1>3 DEF Control!Next

\* How many daemons there are.
LEMMA CardinalityIs ==
  ASSUME NEW S
  PROVE  Control!Cardinality(S) = Cardinality(S)
BY DEF Control!Cardinality, Cardinality

\* What the invariant says of daemons and modules.
LEMMA HostIsSound == HostOk(adm) => Control!AdminSound
  <1>1. SUFFICES ASSUME HostOk(adm)  PROVE Control!AdminSound  OBVIOUS
  <1>2. PICK v : v = adm  OBVIOUS
  <1>3. \A d \in Daemons : ProcessOk(v.d[d]) /\ v.d[d].mods \in Seq(Instance)
    BY <1>1, <1>2 DEF HostOk, ProcessOk, Process
  <1>4. \A d \in Daemons : Control!Up(v, d) <=> Up(v.d[d])  BY DEF Control!Up, Up
  <1>5. Control!OneDaemon
    <2>1. SUFFICES ASSUME ~adm.raced
                   PROVE  /\ Cardinality({d \in Daemons : Control!Up(adm, d)}) <= 1
                          /\ \A d \in Daemons : Control!Up(adm, d) =>
                               adm.pid /\ (adm.d[d].phase # "created" => adm.sock = {d})
                          /\ adm.pid /\ (\A d \in Daemons : ~Control!Up(adm, d)) => adm.left
      BY CardinalityIs DEF Control!OneDaemon
    <2>2. Named(v)  BY <1>1, <1>2, <2>1 DEF HostOk
    <2>3. PICK S : S = {d \in Daemons : Control!Up(v, d)}  OBVIOUS
    <2>4. \A d, e \in S : d = e  BY <1>4, <2>2, <2>3 DEF Named
    <2>5. Cardinality(S) <= 1
      <3>1. CASE S = {}
        <4>1. Cardinality(S) = 0  BY <3>1, FS_EmptySet
        <4> QED BY <4>1
      <3>2. CASE S # {}
        <4>1. PICK x : S = {x}  BY <2>4, <3>2
        <4>2. Cardinality(S) = 1  BY <4>1, FS_Singleton
        <4> QED BY <4>2
      <3> QED BY <3>1, <3>2
    <2>6. \A d \in Daemons : Control!Up(v, d) =>
            v.pid /\ (v.d[d].phase # "created" => v.sock = {d})
      BY <1>4, <2>2 DEF Named, Up, Loads
    <2>7. v.pid /\ (\A d \in Daemons : ~Control!Up(v, d)) => v.left  BY <1>4, <2>2 DEF Named
    <2> QED BY <1>2, <2>3, <2>5, <2>6, <2>7
  <1>6. Control!OneInstance
    <2>1. SUFFICES ASSUME NEW d \in Daemons, ~v.raced, ~v.d[d].twice,
                          NEW i \in 1..Len(v.d[d].mods)
                   PROVE  /\ \A j \in 1..(i - 1) : v.d[d].mods[i].name # v.d[d].mods[j].name
                          /\ v.d[d].mods[i].listening \/ v.d[d].mods[i].quitting
                          /\ v.d[d].mods[i].quitting /\ v.d[d].mods[i].listening =>
                               v.d[d].reloaded
      BY <1>2 DEF Control!OneInstance
    <2>2. PICK mods \in Seq(Instance) : mods = v.d[d].mods  BY <1>3
    <2>3. PICK n \in Nat : n = Len(mods)  BY <2>2
    <2>4. Proper(mods, v.d[d].reloaded)  BY <1>1, <1>2, <2>1, <2>2 DEF HostOk, Sole
    <2>5. i \in 1..n /\ DOMAIN mods = 1..n  BY <2>1, <2>2, <2>3
    <2>6. ASSUME NEW j \in 1..(i - 1)
          PROVE  mods[i].name # mods[j].name
      <3>1. j \in 1..n /\ j # i  BY <2>5
      <3> QED BY <2>4, <2>5, <3>1 DEF Proper
    <2>7. /\ mods[i].listening \/ mods[i].quitting
          /\ mods[i].quitting /\ mods[i].listening => v.d[d].reloaded
      BY <2>4, <2>5 DEF Proper
    <2> QED BY <2>2, <2>6, <2>7
  <1>7. Control!AllLoaded  BY <1>2, <1>3 DEF Control!AllLoaded, ProcessOk, Missed
  <1>8. Control!OnlyItself  BY <1>1 DEF Control!OnlyItself, HostOk
  <1>9. Control!NoneForgotten
    BY <1>2, <1>3 DEF Control!NoneForgotten, ProcessOk, Missed, Heeds
  <1> QED BY <1>5, <1>6, <1>7, <1>8, <1>9 DEF Control!AdminSound

\* core.cpp, loader.cpp, ctrlipc.cpp and cfgdata.cpp: however many daemons are started, told what
\* to do and killed, there is one that has the names, with one instance of each module, all that
\* are enabled, each listening until it quits, and one that is told to quit does not run on; unless
\* what AdminSound excepts has happened.
THEOREM DaemonsAreSound == RunSpec => []AdminSound
<1> DEFINE Inv == part = "control" => HostOk(adm)
<1>1. RunInit => Inv
  BY HostInit DEF RunInit
<1>2. Inv /\ [RunNext]_runVars => Inv'
  <2>1. SUFFICES ASSUME Inv, [RunNext]_runVars, part' = "control"  PROVE HostOk(adm')
    OBVIOUS
  <2>2. CASE RunNext
    <3>1. part = "control" /\ Control!Next  BY <2>1, <2>2 DEF RunNext
    <3> QED BY <2>1, <3>1, HostStep
  <2>3. CASE UNCHANGED runVars
    <3>1. part = "control" /\ adm' = adm  BY <2>1, <2>3 DEF runVars
    <3> QED BY <2>1, <3>1
  <2> QED BY <2>1, <2>2, <2>3
<1>3. Inv => AdminSound
  BY HostIsSound DEF AdminSound
<1> QED
  BY <1>1, <1>2, <1>3, PTL DEF RunSpec

-----------------------------------------------------------------------------
(* How mod_cfg reads a request *)

Headers == {"length", "auth", "other"}
Methods == {"GET", "POST", "PUT", "up", "none"}
Units   == STRING \cup Headers \cup Methods \cup {"long", "nl", "nul", "junk"}

\* Sequences, one behind the other.
LEMMA AppendIs ==
  ASSUME NEW S, NEW s \in Seq(S), NEW t \in S, NEW w, w = Append(s, t), NEW n \in Nat, n = Len(s)
  PROVE  /\ w \in Seq(S) /\ Len(w) = n + 1
         /\ \A i \in 1..n : w[i] = s[i]
         /\ w[n + 1] = t
  <1>1. w \in Seq(S)  BY AppendProperties, Zenon
  <1>2. Len(w) = Len(s) + 1 /\ w[Len(s) + 1] = t  BY AppendProperties, Zenon
  <1>3. ASSUME NEW i \in 1..n
        PROVE  w[i] = s[i]
    OBVIOUS
  <1> QED BY <1>1, <1>2, <1>3

Joins(w, s, t, m, n) ==
  /\ w \in Seq(Units) /\ Len(w) = m + n
  /\ \A i \in 1..m : w[i] = s[i]
  /\ \A i \in 1..n : w[m + i] = t[i]

LEMMA ConcatIs ==
  ASSUME NEW s \in Seq(Units), NEW t \in Seq(Units), NEW m \in Nat, m = Len(s),
         NEW n \in Nat, n = Len(t)
  PROVE  Joins(s \o t, s, t, m, n)
  <1> PICK w : w = s \o t  OBVIOUS
  <1>1. w \in Seq(Units) /\ Len(w) = Len(s) + Len(t)  BY ConcatProperties, Zenon
  <1>2. ASSUME NEW i \in 1..m
        PROVE  w[i] = s[i]
    <2>1. i \in 1..Len(s) + Len(t) /\ i <= Len(s)  OBVIOUS
    <2>2. (s \o t)[i] = IF i <= Len(s) THEN s[i] ELSE t[i - Len(s)]
      BY ConcatProperties, <2>1, Zenon
    <2> QED BY <2>1, <2>2
  <1>3. ASSUME NEW i \in 1..n
        PROVE  w[m + i] = t[i]
    <2>1. PICK k : k = m + i  OBVIOUS
    <2>2. k \in 1..Len(s) + Len(t) /\ ~(k <= Len(s)) /\ k - Len(s) = i  BY <2>1
    <2>3. (s \o t)[k] = IF k <= Len(s) THEN s[k] ELSE t[k - Len(s)]
      BY ConcatProperties, <2>2, Zenon
    <2> QED BY <2>1, <2>2, <2>3
  <1> QED BY <1>1, <1>2, <1>3 DEF Joins

\* Three units are a line.
Three(s, a, t) == s[a + 1] = t /\ s[a + 2] = t /\ s[a + 3] = "nl"

LEMMA LineIs ==
  ASSUME NEW t \in Units, t # "long"
  PROVE  Browser!Line(t) \in Seq(Units) /\ Len(Browser!Line(t)) = 3 /\ Three(Browser!Line(t), 0, t)
  <1>1. PICK u : u = <<t, t>>  OBVIOUS
  <1>2. u \in Seq(Units) /\ Len(u) = 2 /\ u[1] = t /\ u[2] = t  BY <1>1
  <1>3. PICK s : s = Append(u, "nl")  OBVIOUS
  <1>4. Browser!Text(t) = u  BY <1>1 DEF Browser!Text
  <1>5. Browser!Line(t) = s  BY <1>3, <1>4 DEF Browser!Line
  <1>6. PICK nl : nl = "nl"  OBVIOUS
  <1>7. nl \in Units  BY <1>6 DEF Units
  <1>8. /\ s \in Seq(Units) /\ Len(s) = 2 + 1
        /\ \A i \in 1..2 : s[i] = u[i]
        /\ s[2 + 1] = nl
    BY <1>2, <1>3, <1>6, <1>7, AppendIs
  <1>9. 1 \in 1..2 /\ 2 \in 1..2 /\ 2 + 1 = 3  OBVIOUS
  <1>10. Len(s) = 3 /\ s[1] = t /\ s[2] = t /\ s[3] = "nl"  BY <1>2, <1>6, <1>8, <1>9
  <1> QED BY <1>5, <1>8, <1>10 DEF Three

\* What browsers send, and where it is put.
LEMMA Asked ==
  /\ \A r \in Requests : /\ r.method \in {"GET", "POST", "PUT", "up", "long", "none"}
                         /\ r.headers \in Seq(Headers) /\ r.body \in Seq(STRING)
  /\ Junk \subseteq {"junk", "nul", "nl"}
  /\ BufSize \in Nat /\ BufSize > 3
  <1>1. PICK t : t = "GET"  OBVIOUS
  <1>2. t \in Units /\ t # "long"  BY <1>1 DEF Units, Methods
  <1>3. Len(Browser!Line("GET")) = 3  BY <1>1, <1>2, LineIs
  <1> QED BY <1>3, DaemonAssumption DEF Browser!CfgRequestAssumption, Headers

\* FlattenSeq() of the first n lines.
Lines(n, hs) == [i \in 1..n |-> Browser!Line(hs[i])]
Flat(f, n, s) == f = [i \in 1..n |-> IF i = 1 THEN s[i] ELSE f[i - 1] \o s[i]]

LEMMA FlatExists ==
  ASSUME NEW s, NEW k \in Nat
  PROVE  \E f : Flat(f, k, s)
  <1>1. PICK T : T = {l \in Nat : \E f : Flat(f, l, s)}  OBVIOUS
  <1>2. 0 \in T
    <2>1. PICK f : f = [n \in 1..0 |-> 0]  OBVIOUS
    <2>2. 1..0 = {}  OBVIOUS
    <2>3. f = [i \in 1..0 |-> IF i = 1 THEN s[i] ELSE f[i - 1] \o s[i]]  BY <2>1, <2>2
    <2>4. Flat(f, 0, s)  BY <2>3 DEF Flat
    <2> QED BY <1>1, <2>4
  <1>3. ASSUME NEW l \in Nat, l \in T
        PROVE  l + 1 \in T
    <2>1. PICK f : f = [i \in 1..l |-> IF i = 1 THEN s[i] ELSE f[i - 1] \o s[i]]
      BY <1>1, <1>3 DEF Flat
    <2>2. PICK x : x = IF l + 1 = 1 THEN s[l + 1] ELSE f[l] \o s[l + 1]  OBVIOUS
    <2>3. PICK g : g = [i \in 1..(l + 1) |-> IF i = l + 1 THEN x ELSE f[i]]  OBVIOUS
    <2>4. \A i \in 1..(l + 1) : i # l + 1 => i \in 1..l  OBVIOUS
    <2>5. \A i \in 1..(l + 1) : i # 1 => i - 1 \in 1..(l + 1) /\ i - 1 # l + 1  OBVIOUS
    <2>6. \A i \in 1..(l + 1) : i # 1 => g[i - 1] = f[i - 1]  BY <2>3, <2>5
    <2>7. ASSUME NEW i \in 1..(l + 1)
          PROVE  (IF i = l + 1 THEN x ELSE f[i]) = IF i = 1 THEN s[i] ELSE g[i - 1] \o s[i]
      <3>1. CASE i = l + 1
        <4>1. l + 1 # 1 => g[i - 1] = f[l]
          <5>1. (l + 1) - 1 = l  OBVIOUS
          <5> QED BY <2>6, <3>1, <5>1
        <4> QED BY <2>2, <3>1, <4>1
      <3>2. CASE i # l + 1
        <4>1. i \in 1..l  BY <2>4, <3>2
        <4>2. f[i] = IF i = 1 THEN s[i] ELSE f[i - 1] \o s[i]  BY ONLY <2>1, <4>1
        <4> QED BY <2>6, <3>2, <4>2
      <3> QED BY <3>1, <3>2
    <2>8. g = [i \in 1..(l + 1) |-> IF i = 1 THEN s[i] ELSE g[i - 1] \o s[i]]
      BY ONLY <2>3, <2>7
    <2>9. Flat(g, l + 1, s)  BY ONLY <2>8 DEF Flat
    <2> QED BY <1>1, <2>9
  <1>4. Nat \subseteq T  BY <1>2, <1>3, Every
  <1> QED BY <1>1, <1>4

\* n lines, one behind the other.
IsLines(s, n, hs) ==
  s \in Seq(Units) /\ Len(s) = 3 * n /\ \A j \in 1..n : Three(s, 3 * j - 3, hs[j])

LEMMA OneMoreLine ==
  ASSUME NEW hs, NEW n \in Nat, NEW s, IsLines(s, n, hs), NEW t, t \in Seq(Units), Len(t) = 3,
         Three(t, 0, hs[n + 1])
  PROVE  IsLines(s \o t, n + 1, hs)
  <1>1. s \in Seq(Units) /\ Len(s) = 3 * n /\ \A j \in 1..n : Three(s, 3 * j - 3, hs[j])
    BY DEF IsLines
  <1>2. PICK u : u = s \o t  OBVIOUS
  <1>3. PICK m \in Nat : m = 3 * n  OBVIOUS
  <1>4. Len(s) = m  BY <1>1, <1>3
  <1>5. PICK l \in Nat : l = 3  OBVIOUS
  <1>6. s \in Seq(Units) /\ Len(t) = l  BY <1>1, <1>5
  <1>7. /\ u \in Seq(Units) /\ Len(u) = m + l
        /\ \A i \in 1..m : u[i] = s[i]
        /\ \A i \in 1..l : u[m + i] = t[i]
    <2>1. Joins(s \o t, s, t, m, l)  BY <1>4, <1>6, ConcatIs
    <2> QED BY <1>2, <2>1 DEF Joins
  <1>8. 1 \in 1..l /\ 2 \in 1..l /\ 3 \in 1..l  BY <1>5
  <1>9. u[m + 1] = t[1] /\ u[m + 2] = t[2] /\ u[m + 3] = t[3]  BY <1>7, <1>8
  <1>10. ASSUME NEW j \in 1..(n + 1)
        PROVE  Three(u, 3 * j - 3, hs[j])
    <2>1. CASE j = n + 1
      <3>1. 3 * j - 3 = m  BY <1>3, <2>1
      <3>2. Three(u, m, hs[n + 1])  BY <1>9 DEF Three
      <3> QED BY <2>1, <3>1, <3>2
    <2>2. CASE j # n + 1
      <3>1. j \in 1..n  BY <2>2
      <3>2. Three(s, 3 * j - 3, hs[j])  BY <1>1, <3>1
      <3>3. 3 * j - 3 + 1 \in 1..m /\ 3 * j - 3 + 2 \in 1..m /\ 3 * j - 3 + 3 \in 1..m
        BY <1>3, <3>1
      <3> QED BY <1>7, <3>2, <3>3 DEF Three
    <2> QED BY <2>1, <2>2
  <1>11. m + l = 3 * (n + 1)  BY <1>3, <1>5
  <1> QED BY <1>2, <1>7, <1>10, <1>11 DEF IsLines

LEMMA FlatIs ==
  ASSUME NEW N \in Nat, N # 0, NEW hs, \A i \in 1..N : hs[i] \in Headers,
         NEW f, Flat(f, N, Lines(N, hs))
  PROVE  IsLines(f[N], N, hs)
  <1>1. PICK s : s = Lines(N, hs)  OBVIOUS
  <1>2. \A i \in 1..N : f[i] = IF i = 1 THEN s[i] ELSE f[i - 1] \o s[i]  BY <1>1 DEF Flat
  <1>3. ASSUME NEW i \in 1..N
        PROVE  s[i] \in Seq(Units) /\ Len(s[i]) = 3 /\ Three(s[i], 0, hs[i])
    <2>1. s[i] = Browser!Line(hs[i])  BY <1>1 DEF Lines
    <2>2. PICK t : t = hs[i]  OBVIOUS
    <2>3. t \in {"length", "auth", "other"}  BY <2>2 DEF Headers
    <2>4. t \in Units /\ t # "long"  BY <2>3 DEF Units, Headers
    <2> QED BY <2>1, <2>2, <2>4, LineIs
  <1>4. PICK T : T = {n \in Nat : n \in 1..N => IsLines(f[n], n, hs)}  OBVIOUS
  <1>5. 0 \in T  BY <1>4
  <1>6. ASSUME NEW n \in Nat, n \in T
        PROVE  n + 1 \in T
    <2>1. SUFFICES ASSUME n + 1 \in 1..N  PROVE IsLines(f[n + 1], n + 1, hs)  BY <1>4
    <2>2. PICK x, t : x = f[n + 1] /\ t = s[n + 1]  OBVIOUS
    <2>3. t \in Seq(Units) /\ Len(t) = 3 /\ Three(t, 0, hs[n + 1])  BY <1>3, <2>1, <2>2
    <2>4. CASE n = 0
      <3>1. x = t  BY <1>2, <2>1, <2>2, <2>4
      <3>2. 3 * 1 - 3 = 0 /\ 3 * 1 = 3 /\ \A j \in 1..1 : j = 1  OBVIOUS
      <3>3. IsLines(t, 1, hs)  BY <2>3, <2>4, <3>2 DEF IsLines
      <3> QED BY <2>2, <2>4, <3>1, <3>3
    <2>5. CASE n # 0
      <3>1. n \in 1..N /\ (n + 1) - 1 = n /\ n + 1 # 1  BY <2>1, <2>5
      <3>2. PICK y : y = f[n]  OBVIOUS
      <3>3. x = y \o t  BY <1>2, <2>1, <2>2, <3>1, <3>2
      <3>4. IsLines(y, n, hs)  BY <1>4, <1>6, <3>1, <3>2
      <3>5. IsLines(y \o t, n + 1, hs)  BY <2>3, <3>4, OneMoreLine
      <3> QED BY <2>2, <3>3, <3>5
    <2> QED BY <2>4, <2>5
  <1>7. N \in T  BY <1>5, <1>6, Every
  <1> QED BY <1>4, <1>7

LEMMA HeadersAre ==
  ASSUME NEW hs \in Seq(Headers)
  PROVE  IsLines(Browser!FlattenSeq([i \in 1..Len(hs) |-> Browser!Line(hs[i])]), Len(hs), hs)
  <1>1. PICK N \in Nat : N = Len(hs)  OBVIOUS
  <1>2. PICK s : s = Lines(N, hs)  OBVIOUS
  <1>3. s = [i \in 1..Len(hs) |-> Browser!Line(hs[i])]  BY <1>1, <1>2 DEF Lines
  <1>4. Len(s) = N  BY <1>1, <1>3
  <1>5. CASE N = 0
    <2>1. Browser!FlattenSeq(s) = s  BY <1>4, <1>5 DEF Browser!FlattenSeq
    <2>2. s = <<>>  BY <1>1, <1>3, <1>5
    <2>3. IsLines(<<>>, 0, hs)  BY DEF IsLines
    <2> QED BY <1>1, <1>3, <1>5, <2>1, <2>2, <2>3
  <1>6. CASE N # 0
    <2>1. PICK f : f = CHOOSE g : Flat(g, N, s)  OBVIOUS
    <2>2. Flat(f, N, s)  BY <2>1, FlatExists
    <2>3. Browser!FlattenSeq(s) = f[N]  BY <1>4, <1>6, <2>1 DEF Browser!FlattenSeq, Flat
    <2>4. \A i \in 1..N : hs[i] \in Headers  BY <1>1
    <2>5. IsLines(f[N], N, hs)  BY <1>2, <1>6, <2>2, <2>4, FlatIs
    <2> QED BY <1>1, <1>3, <2>3, <2>5
  <1> QED BY <1>5, <1>6

\* What a browser sends: a line, those of its headers, an empty one, and the body.
IsWire(W, r) ==
  /\ W \in Seq(Units)
  /\ Len(W) = 3 * Len(r.headers) + 4 + Len(r.body)
  /\ Three(W, 0, r.method)
  /\ \A j \in 1..Len(r.headers) : Three(W, 3 * j, r.headers[j])
  /\ W[3 * Len(r.headers) + 4] = "nl"
  /\ \A i \in 1..Len(r.body) : W[3 * Len(r.headers) + 4 + i] = r.body[i]

LEMMA WireIs ==
  ASSUME NEW r \in Requests, r.method # "long"
  PROVE  IsWire(Browser!Wire(r), r)
  <1>1. PICK H, B \in Nat : H = Len(r.headers) /\ B = Len(r.body)
    <2>1. Len(r.headers) \in Nat /\ Len(r.body) \in Nat  BY Asked
    <2> QED BY <2>1
  <1>2. PICK a, s, c, d : /\ a = Browser!Line(r.method)
                          /\ s = Browser!FlattenSeq([i \in 1..Len(r.headers) |-> Browser!Line(r.headers[i])])
                          /\ c = <<"nl">> /\ d = r.body
    OBVIOUS
  <1>3. PICK k, m, l \in Nat : k = 3 /\ m = 3 * H /\ l = 1  OBVIOUS
  <1>4. a \in Seq(Units) /\ Len(a) = k /\ Three(a, 0, r.method)
    <2>1. r.method \in Units /\ r.method # "long"  BY Asked DEF Units, Methods
    <2> QED BY <1>2, <1>3, <2>1, LineIs
  <1>5. s \in Seq(Units) /\ Len(s) = m /\ \A j \in 1..H : Three(s, 3 * j - 3, r.headers[j])
    <2>1. r.headers \in Seq(Headers)  BY Asked
    <2>2. IsLines(s, H, r.headers)  BY <1>1, <1>2, <2>1, HeadersAre
    <2> QED BY <1>3, <2>2 DEF IsLines
  <1>6. c \in Seq(Units) /\ Len(c) = l /\ c[1] = "nl"
    <2>1. PICK nl : nl = "nl"  OBVIOUS
    <2>2. nl \in Units  BY <2>1 DEF Units
    <2>3. c = <<nl>>  BY <1>2, <2>1
    <2> QED BY <1>3, <2>1, <2>2, <2>3
  <1>7. d \in Seq(Units) /\ Len(d) = B
    <2>1. d \in Seq(STRING)  BY <1>2, Asked
    <2>2. STRING \subseteq Units  BY DEF Units
    <2>3. Seq(STRING) \subseteq Seq(Units)  BY <2>2, SeqMonotonic
    <2> QED BY <1>1, <1>2, <2>1, <2>3
  <1>8. PICK x, y, W : x = a \o s /\ y = x \o c /\ W = y \o d  OBVIOUS
  <1>9. Browser!Wire(r) = W  BY <1>2, <1>8 DEF Browser!Wire
  <1>10. /\ x \in Seq(Units) /\ Len(x) = k + m
         /\ \A i \in 1..k : x[i] = a[i]
         /\ \A i \in 1..m : x[k + i] = s[i]
    <2>1. Joins(a \o s, a, s, k, m)  BY <1>4, <1>5, ConcatIs
    <2> QED BY <1>8, <2>1 DEF Joins
  <1>11. PICK n \in Nat : n = k + m  BY <1>3
  <1>12. /\ y \in Seq(Units) /\ Len(y) = n + l
         /\ \A i \in 1..n : y[i] = x[i]
         /\ \A i \in 1..l : y[n + i] = c[i]
    <2>1. Joins(x \o c, x, c, n, l)  BY <1>6, <1>10, <1>11, ConcatIs
    <2> QED BY <1>8, <2>1 DEF Joins
  <1>13. PICK o \in Nat : o = n + l  BY <1>3, <1>11
  <1>14. /\ W \in Seq(Units) /\ Len(W) = o + B
         /\ \A i \in 1..o : W[i] = y[i]
         /\ \A i \in 1..B : W[o + i] = d[i]
    <2>1. Joins(y \o d, y, d, o, B)  BY <1>7, <1>12, <1>13, ConcatIs
    <2> QED BY <1>8, <2>1 DEF Joins
  <1>15. o = 3 * H + 4  BY <1>3, <1>11, <1>13
  <1>16. Three(W, 0, r.method)
    <2>1. 1 \in 1..k /\ 2 \in 1..k /\ 3 \in 1..k  BY <1>3
    <2>2. \A i \in 1..k : i \in 1..n /\ i \in 1..o  BY <1>3, <1>11, <1>13
    <2>3. \A i \in 1..k : W[i] = a[i]  BY <1>10, <1>12, <1>14, <2>2
    <2> QED BY <1>4, <2>1, <2>3 DEF Three
  <1>17. ASSUME NEW j \in 1..H
         PROVE  Three(W, 3 * j, r.headers[j])
    <2>1. PICK f \in Nat : f = 3 * j - 3  OBVIOUS
    <2>2. f + 1 \in 1..m /\ f + 2 \in 1..m /\ f + 3 \in 1..m  BY <1>3, <2>1
    <2>3. \A i \in 1..m : k + i \in 1..n /\ k + i \in 1..o  BY <1>3, <1>11, <1>13
    <2>4. \A i \in 1..m : W[k + i] = s[i]  BY <1>10, <1>12, <1>14, <2>3
    <2>5. k + (f + 1) = 3 * j + 1 /\ k + (f + 2) = 3 * j + 2 /\ k + (f + 3) = 3 * j + 3
      BY <1>3, <2>1
    <2>6. Three(s, f, r.headers[j])  BY <1>5, <2>1
    <2>7. W[3 * j + 1] = s[f + 1] /\ W[3 * j + 2] = s[f + 2] /\ W[3 * j + 3] = s[f + 3]
      BY ONLY <2>2, <2>4, <2>5
    <2> QED BY <2>6, <2>7 DEF Three
  <1>18. W[3 * H + 4] = "nl"
    <2>1. 1 \in 1..l /\ o \in 1..o /\ n + 1 = o  BY <1>3, <1>11, <1>13
    <2>2. W[o] = c[1]  BY <1>12, <1>14, <2>1
    <2> QED BY <1>6, <1>15, <2>2
  <1> QED BY <1>1, <1>2, <1>9, <1>14, <1>15, <1>16, <1>17, <1>18 DEF IsWire

\* A line that does not fit.
LEMMA LongIs ==
  ASSUME NEW r \in Requests, r.method = "long"
  PROVE  /\ Browser!Wire(r) \in Seq(Units) /\ Len(Browser!Wire(r)) > BufSize
         /\ \A q \in 1..BufSize : Browser!Wire(r)[q] = "long"
  <1>1. BufSize \in Nat  BY Asked
  <1>2. PICK t, u, a : /\ t = "long" /\ u = [i \in 1..BufSize |-> t] /\ a = Append(u, "nl")
    OBVIOUS
  <1>3. t \in Units  BY <1>2 DEF Units
  <1>4. u \in Seq(Units) /\ Len(u) = BufSize /\ \A i \in 1..BufSize : u[i] = t
    BY <1>1, <1>2, <1>3
  <1>5. PICK nl \in Units : nl = "nl"  BY DEF Units
  <1>6. /\ a \in Seq(Units) /\ Len(a) = BufSize + 1
        /\ \A i \in 1..BufSize : a[i] = u[i]
    BY <1>1, <1>2, <1>4, <1>5, AppendIs
  <1>7. PICK s : s = Browser!FlattenSeq([i \in 1..Len(r.headers) |-> Browser!Line(r.headers[i])])
    OBVIOUS
  <1>8. s \in Seq(Units)
    <2>1. r.headers \in Seq(Headers)  BY Asked
    <2> QED BY <1>7, <2>1, HeadersAre DEF IsLines
  <1>9. PICK c \in Seq(Units) : c = <<"nl">>
    <2>1. <<nl>> \in Seq(Units)  OBVIOUS
    <2> QED BY <1>5, <2>1
  <1>10. PICK d \in Seq(Units) : d = r.body
    <2>1. r.body \in Seq(STRING)  BY Asked
    <2>2. STRING \subseteq Units  BY DEF Units
    <2>3. Seq(STRING) \subseteq Seq(Units)  BY <2>2, SeqMonotonic
    <2> QED BY <2>1, <2>3
  <1>11. PICK x, y, W : x = a \o s /\ y = x \o c /\ W = y \o d  OBVIOUS
  <1>12. Browser!Wire(r) = W
    <2>1. Browser!Line(r.method) = a  BY <1>2 DEF Browser!Line, Browser!Text
    <2> QED BY <1>7, <1>9, <1>10, <1>11, <2>1 DEF Browser!Wire
  <1>13. PICK k, m \in Nat : k = Len(a) /\ m = Len(s)  BY <1>6, <1>8
  <1>14. /\ x \in Seq(Units) /\ Len(x) = k + m
         /\ \A i \in 1..k : x[i] = a[i]
    <2>1. Joins(a \o s, a, s, k, m)  BY <1>6, <1>8, <1>13, ConcatIs
    <2> QED BY <1>11, <2>1 DEF Joins
  <1>15. PICK n, l \in Nat : n = Len(x) /\ l = Len(c)  BY <1>9, <1>14
  <1>16. /\ y \in Seq(Units) /\ Len(y) = n + l
         /\ \A i \in 1..n : y[i] = x[i]
    <2>1. Joins(x \o c, x, c, n, l)  BY <1>9, <1>14, <1>15, ConcatIs
    <2> QED BY <1>11, <2>1 DEF Joins
  <1>17. PICK o, B \in Nat : o = Len(y) /\ B = Len(d)  BY <1>10, <1>15, <1>16
  <1>18. /\ W \in Seq(Units) /\ Len(W) = o + B
         /\ \A i \in 1..o : W[i] = y[i]
    <2>1. Joins(y \o d, y, d, o, B)  BY <1>10, <1>16, <1>17, ConcatIs
    <2> QED BY <1>11, <2>1 DEF Joins
  <1>19. k = BufSize + 1 /\ n = k + m /\ o = n + l  BY <1>6, <1>13, <1>14, <1>15, <1>16, <1>17
  <1>20. \A q \in 1..BufSize : q \in 1..k /\ q \in 1..n /\ q \in 1..o  BY <1>1, <1>19
  <1>21. \A q \in 1..BufSize : W[q] = t  BY <1>4, <1>6, <1>14, <1>16, <1>18, <1>20
  <1>22. Len(W) > BufSize  BY <1>1, <1>18, <1>19
  <1> QED BY <1>2, <1>12, <1>18, <1>21, <1>22

\* strchr( start, '\n' ) finds the first end of a line, if there is no NUL before.
LEMMA NextLineIs ==
  ASSUME NEW buf \in Seq(Units), Len(buf) = BufSize, NEW st \in Nat, st # 0, NEW n \in st..BufSize,
         buf[n] = "nl", \A q \in st..(n - 1) : buf[q] \notin {"nl", "nul"}
  PROVE  Browser!NextLine(buf, st) = n
  <1>1. BufSize \in Nat  BY Asked
  <1>2. PICK I : I = {i \in st..BufSize : buf[i] \in {"nl", "nul"}}  OBVIOUS
  <1>3. n \in I  BY <1>2
  <1>4. ASSUME NEW i \in I
        PROVE  n <= i
    <2>1. i \in st..BufSize /\ buf[i] \in {"nl", "nul"}  BY <1>2
    <2>2. i \notin st..(n - 1)  BY <2>1
    <2> QED BY <1>1, <2>1, <2>2
  <1>5. ASSUME NEW m \in I, \A i \in I : m <= i
        PROVE  m = n
    BY <1>2, <1>3, <1>4, <1>5
  <1>6. Browser!Min(I) = n  BY <1>3, <1>4, <1>5 DEF Browser!Min
  <1>7. I # {}  BY <1>3
  <1>8. n > 0  OBVIOUS
  <1> QED BY <1>2, <1>6, <1>7, <1>8 DEF Browser!NextLine, Browser!SelectInSubSeq

\* There is none if a NUL comes before each.
LEMMA NoLine ==
  ASSUME NEW buf \in Seq(Units), Len(buf) = BufSize, NEW st \in Nat, st # 0,
         \A q \in st..BufSize : buf[q] = "nl" => \E j \in st..(q - 1) : buf[j] = "nul"
  PROVE  Browser!NextLine(buf, st) = 0
  <1>1. BufSize \in Nat  BY Asked
  <1>2. PICK I : I = {i \in st..BufSize : buf[i] \in {"nl", "nul"}}  OBVIOUS
  <1>3. CASE I = {}
    BY <1>2, <1>3 DEF Browser!NextLine, Browser!SelectInSubSeq
  <1>4. CASE I # {}
    <2>1. I \subseteq Nat  BY <1>2
    <2>2. \E m \in I : \A i \in I : m <= i  BY <1>4, <2>1, Least
    <2>3. PICK m : m = Browser!Min(I)  OBVIOUS
    <2>4. m \in I /\ \A i \in I : m <= i  BY <2>2, <2>3 DEF Browser!Min
    <2>5. buf[m] # "nl"
      <3>1. SUFFICES ASSUME buf[m] = "nl"  PROVE FALSE  OBVIOUS
      <3>2. m \in st..BufSize  BY <1>2, <2>4
      <3>3. PICK j \in st..(m - 1) : buf[j] = "nul"  BY <3>1, <3>2
      <3>4. j \in st..BufSize /\ ~(m <= j)  BY <1>1, <3>2
      <3>5. j \in I  BY <1>2, <3>3, <3>4
      <3> QED BY <2>4, <3>4, <3>5
    <2> QED BY <1>2, <1>4, <2>3, <2>5 DEF Browser!NextLine, Browser!SelectInSubSeq
  <1> QED BY <1>3, <1>4

\* ReqBuf from st to e is what comes behind the first b units; there is no whole line but in it,
\* and none at all if there was no end of a line in memory.
Shown(buf, st, W, b, e, junk) ==
  /\ buf \in Seq(Units) /\ Len(buf) = BufSize
  /\ \A q \in 1..(st - 1) : buf[q] # "nl"
  /\ \A q \in st..e : buf[q] = W[b + q]
  /\ \A q \in (e + 1)..BufSize : buf[q] = "nl" => \E j \in (e + 1)..(q - 1) : buf[j] = "nul"
  /\ junk # "nl" => \A q \in (e + 1)..BufSize : buf[q] # "nl"

\* The end of a line becomes a NUL.
Nul(buf, n) == [buf EXCEPT ![n] = "nul"]

\* What was shown up to n, an end of a line, is so behind it when that is a NUL.
LEMMA Cuts ==
  ASSUME NEW W, NEW b \in Nat, NEW e \in Nat, e < BufSize, NEW junk, NEW st \in Nat, st # 0,
         NEW buf, Shown(buf, st, W, b, e, junk), NEW n \in st..e, \A q \in st..(n - 1) : buf[q] # "nl"
  PROVE  Shown(Nul(buf, n), n + 1, W, b, e, junk)
  <1>1. BufSize \in Nat  BY Asked
  <1>2. buf \in Seq(Units) /\ Len(buf) = BufSize /\ n \in 1..BufSize  BY <1>1 DEF Shown
  <1>3. PICK x \in Units : x = "nul"  BY DEF Units
  <1>4. PICK w : w = [buf EXCEPT ![n] = x]  OBVIOUS
  <1>5. w \in Seq(Units) /\ Len(w) = BufSize  BY <1>1, <1>2, <1>4
  <1>6. \A q \in 1..BufSize : w[q] = IF q = n THEN "nul" ELSE buf[q]  BY <1>2, <1>3, <1>4
  <1>7. \A q \in (n + 1)..BufSize : w[q] = buf[q]  BY <1>2, <1>6
  <1>8. ASSUME NEW q \in 1..((n + 1) - 1)
        PROVE  w[q] # "nl"
    <2>1. q \in 1..BufSize  BY <1>1, <1>2
    <2>2. CASE q = n  BY <1>6, <2>1, <2>2
    <2>3. CASE q # n
      <3>1. q \in 1..(st - 1) \/ q \in st..(n - 1)  BY <2>3
      <3>2. buf[q] # "nl"  BY <3>1 DEF Shown
      <3> QED BY <1>6, <2>1, <2>3, <3>2
    <2> QED BY <2>2, <2>3
  <1>9. ASSUME NEW q \in (n + 1)..e
        PROVE  w[q] = W[b + q]
    <2>1. q \in (n + 1)..BufSize /\ q \in st..e  BY <1>1
    <2> QED BY <1>7, <2>1 DEF Shown
  <1>10. \A q \in (e + 1)..BufSize : w[q] = buf[q]
    <2>1. \A q \in (e + 1)..BufSize : q \in (n + 1)..BufSize  BY <1>1
    <2> QED BY <1>7, <2>1
  <1>11. ASSUME NEW q \in (e + 1)..BufSize, w[q] = "nl"
         PROVE  \E j \in (e + 1)..(q - 1) : w[j] = "nul"
    <2>1. PICK j \in (e + 1)..(q - 1) : buf[j] = "nul"  BY <1>10, <1>11 DEF Shown
    <2>2. j \in (e + 1)..BufSize  BY <1>1
    <2> QED BY <1>10, <2>1, <2>2
  <1>12. junk # "nl" => \A q \in (e + 1)..BufSize : w[q] # "nl"  BY <1>10 DEF Shown
  <1> QED BY <1>3, <1>4, <1>5, <1>8, <1>9, <1>11, <1>12 DEF Shown, Nul

\* A line is there, from st to n: it is s.
Found(buf, st, n, s, W, b, e, junk) ==
  /\ Browser!NextLine(buf, st) = n
  /\ SubSeq(buf, st, n - 1) = s
  /\ Shown(Nul(buf, n), n + 1, W, b, e, junk)

LEMMA LineAt ==
  ASSUME NEW W, NEW b \in Nat, NEW e \in Nat, e < BufSize, NEW junk, NEW st \in Nat, st # 0,
         NEW buf, Shown(buf, st, W, b, e, junk), NEW n \in Nat, n = st + 2, n <= e,
         NEW a \in Nat, b + st = a + 1,
         NEW t, t \notin {"long", "nl", "nul"}, Three(W, a, t)
  PROVE  Found(buf, st, n, Browser!Text(t), W, b, e, junk)
  <1>1. BufSize \in Nat  BY Asked
  <1>2. buf \in Seq(Units) /\ Len(buf) = BufSize  BY DEF Shown
  <1>3. st \in st..e /\ st + 1 \in st..e /\ st + 2 \in st..e  OBVIOUS
  <1>4. b + st = a + 1 /\ b + (st + 1) = a + 2 /\ b + (st + 2) = a + 3  OBVIOUS
  <1>5. buf[st] = W[b + st] /\ buf[st + 1] = W[b + (st + 1)] /\ buf[st + 2] = W[b + (st + 2)]
    BY <1>3 DEF Shown
  <1>6. buf[st] = t /\ buf[st + 1] = t /\ buf[st + 2] = "nl"  BY <1>4, <1>5 DEF Three
  <1>7. n \in st..BufSize /\ n \in st..e  BY <1>1
  <1>8. \A q \in st..(n - 1) : q = st \/ q = st + 1  OBVIOUS
  <1>9. \A q \in st..(n - 1) : buf[q] \notin {"nl", "nul"}  BY <1>6, <1>8
  <1>10. Browser!NextLine(buf, st) = n  BY <1>2, <1>6, <1>7, <1>9, NextLineIs
  <1>11. \A q \in st..(n - 1) : buf[q] # "nl"  BY <1>9
  <1>12. Shown(Nul(buf, n), n + 1, W, b, e, junk)  BY <1>7, <1>11, Cuts
  <1>13. SubSeq(buf, st, n - 1) = Browser!Text(t)
    <2>1. PICK s, u : s = SubSeq(buf, st, st + 1) /\ u = <<t, t>>  OBVIOUS
    <2>2. st \in 1..Len(buf) /\ st + 1 \in 1..Len(buf)  BY <1>1, <1>2
    <2>3. s \in Seq(Units) /\ Len(s) = 2 /\ s[1] = buf[st] /\ s[2] = buf[st + 1]
      BY <1>2, <2>1, <2>2
    <2>4. t \in Units  BY <1>2, <1>6, <2>2, ElementOfSeq
    <2>5. u \in Seq(Units) /\ Len(u) = 2 /\ u[1] = t /\ u[2] = t  BY <2>1, <2>4
    <2>6. \A i \in 1..2 : i = 1 \/ i = 2  OBVIOUS
    <2>7. \A i \in 1..Len(s) : s[i] = u[i]  BY <1>6, <2>3, <2>5, <2>6
    <2>8. s = u  BY <2>3, <2>5, <2>7, SeqEqual
    <2>9. n - 1 = st + 1  OBVIOUS
    <2> QED BY <2>1, <2>8, <2>9 DEF Browser!Text
  <1> QED BY <1>10, <1>12, <1>13 DEF Found

\* The empty line is there.
LEMMA EndAt ==
  ASSUME NEW W, NEW b \in Nat, NEW e \in Nat, e < BufSize, NEW junk, NEW st \in Nat, st # 0,
         NEW buf, Shown(buf, st, W, b, e, junk), st <= e, W[b + st] = "nl"
  PROVE  Found(buf, st, st, <<>>, W, b, e, junk)
  <1>1. BufSize \in Nat  BY Asked
  <1>2. buf \in Seq(Units) /\ Len(buf) = BufSize  BY DEF Shown
  <1>3. st \in st..e /\ st \in st..BufSize  BY <1>1
  <1>4. buf[st] = "nl"  BY <1>3 DEF Shown
  <1>5. \A q \in st..(st - 1) : FALSE  OBVIOUS
  <1>6. Browser!NextLine(buf, st) = st  BY <1>2, <1>3, <1>4, <1>5, NextLineIs
  <1>7. Shown(Nul(buf, st), st + 1, W, b, e, junk)  BY <1>3, <1>5, Cuts
  <1>8. SubSeq(buf, st, st - 1) = <<>>
    <2>1. st \in Int /\ st - 1 \in Int /\ st - 1 < st  OBVIOUS
    <2> QED BY <2>1, SubSeqEmpty
  <1> QED BY <1>6, <1>7, <1>8 DEF Found

\* No whole line is there.
NoEnd(W, b, st, e) == \A q \in st..e : W[b + q] # "nl"

LEMMA NoneAt ==
  ASSUME NEW W, NEW b \in Nat, NEW e \in Nat, e < BufSize, NEW junk, NEW st \in Nat, st # 0,
         NEW buf, Shown(buf, st, W, b, e, junk), st <= e + 1, NoEnd(W, b, st, e)
  PROVE  Browser!NextLine(buf, st) = 0
  <1>1. BufSize \in Nat  BY Asked
  <1>2. buf \in Seq(Units) /\ Len(buf) = BufSize  BY DEF Shown
  <1>3. ASSUME NEW q \in st..BufSize, buf[q] = "nl"
        PROVE  \E j \in st..(q - 1) : buf[j] = "nul"
    <2>1. q \notin st..e  BY <1>3 DEF Shown, NoEnd
    <2>2. CASE q < e + 1  BY <2>1, <2>2
    <2>3. CASE q >= e + 1
      <3>1. q \in (e + 1)..BufSize  BY <2>3
      <3>2. PICK j \in (e + 1)..(q - 1) : buf[j] = "nul"  BY <1>3, <3>1 DEF Shown
      <3>3. j \in st..(q - 1)  OBVIOUS
      <3> QED BY <3>2, <3>3
    <2> QED BY <2>2, <2>3
  <1> QED BY <1>2, <1>3, NoLine

\* What a request is, and what parsing leaves alone.
Form(v) ==
  v = [sent |-> v.sent, unread |-> v.unread, state |-> v.state, method |-> v.method, buf |-> v.buf,
       len |-> v.len, off |-> v.off, size |-> v.size, body |-> v.body, auth |-> v.auth,
       answer |-> v.answer, junk |-> v.junk, refilled |-> v.refilled, inline |-> v.inline,
       overrun |-> v.overrun]
Kept(w, v) ==
  /\ w.sent = v.sent /\ w.unread = v.unread /\ w.junk = v.junk /\ w.len = v.len /\ w.off = v.off
  /\ w.refilled = v.refilled /\ w.inline = v.inline /\ w.overrun = v.overrun

\* cfgdata.cpp: until there is an answer it waits for more.
Waits(v) == v.state \in {"header", "body"}
Quiet(v) ==
  /\ v.state \in {"header", "body", "closing", "crash", "deleted"}
  /\ IF Waits(v) THEN v.answer = <<>> ELSE Len(v.answer) <= 1
Plain(w, v) == Form(w) /\ Kept(w, v) /\ Quiet(w)

\* What a line does not change but when it is the one.
Same(w, v) == w.buf = v.buf /\ w.size = v.size /\ w.body = v.body /\ w.auth = v.auth

LEMMA SendErrorIs ==
  ASSUME NEW u, NEW v, Plain(v, u), Waits(v), NEW code, NEW w, w = Browser!SendError(v, code)
  PROVE  /\ Plain(w, u) /\ Same(w, v) /\ w.method = v.method
         /\ w.state = "closing" /\ w.answer = <<code>>
  <1>1. Form(v) /\ Kept(v, u) /\ v.answer = <<>>  BY DEF Plain, Quiet
  <1>2. Form(w)  BY <1>1 DEF Form, Browser!SendError
  <1>3. Kept(w, v) /\ Same(w, v) /\ w.method = v.method
    BY <1>1 DEF Form, Kept, Same, Browser!SendError
  <1>4. w.state = "closing" /\ w.answer = Append(v.answer, code)
    BY <1>1 DEF Form, Browser!SendError
  <1>5. Append(<<>>, code) = <<code>> /\ Len(<<code>>) = 1  OBVIOUS
  <1>6. w.answer = <<code>> /\ Len(w.answer) = 1  BY <1>1, <1>4, <1>5
  <1>7. Kept(w, u)  BY <1>1, <1>3 DEF Kept
  <1>8. Quiet(w)  BY <1>4, <1>6 DEF Quiet, Waits
  <1> QED BY <1>2, <1>3, <1>4, <1>6, <1>7, <1>8 DEF Plain

LEMMA ParseRequestIs ==
  ASSUME NEW u, NEW v, Plain(v, u), Waits(v), NEW w, w = Browser!ParseRequest(v)
  PROVE  /\ Plain(w, u) /\ Same(w, v) /\ w.method = v.method
         /\ w.state = "closing" /\ w.answer = <<IF v.auth THEN "page" ELSE "unauthorized">>
  <1>1. PICK code : code = IF v.auth THEN "page" ELSE "unauthorized"  OBVIOUS
  <1>2. w = Browser!SendError(v, code)  BY <1>1 DEF Browser!ParseRequest
  <1> QED BY <1>1, <1>2, SendErrorIs

LEMMA TextIs ==
  ASSUME NEW t, t # "long"
  PROVE  /\ Browser!Text(t)[1] = t
         /\ \A m : m # "long" => (Browser!Text(m) = Browser!Text(t) <=> m = t)
         /\ Browser!Text(t) # <<>>
  <1>1. \A m : m # "long" => Browser!Text(m) = <<m, m>>  BY DEF Browser!Text
  <1>2. <<t, t>>[1] = t /\ <<t, t>> # <<>>  OBVIOUS
  <1>3. \A m : <<m, m>> = <<t, t>> <=> m = t  OBVIOUS
  <1> QED BY <1>1, <1>2, <1>3

\* ParseMethod() with a line of one word.
Methodic(w, v, t) ==
  /\ Same(w, v)
  /\ t \in {"GET", "POST"} => w.state = v.state /\ w.method = t
  /\ t \notin {"GET", "POST"} =>
       /\ w.state = "closing" /\ w.method = v.method
       /\ w.answer = <<IF t = "up" THEN "forbidden"
                       ELSE IF t = "PUT" THEN "not implemented" ELSE "bad request">>

LEMMA ParseMethodIs ==
  ASSUME NEW u, NEW v, Plain(v, u), Waits(v), NEW t, t # "long"
  PROVE  /\ Plain(Browser!ParseMethod(v, Browser!Text(t)), u)
         /\ Methodic(Browser!ParseMethod(v, Browser!Text(t)), v, t)
  <1> PICK w : w = Browser!ParseMethod(v, Browser!Text(t))  OBVIOUS
  <1>1. PICK line : line = Browser!Text(t)  OBVIOUS
  <1>2. line[1] = t /\ \A m : m # "long" => (Browser!Text(m) = line <=> m = t)  BY <1>1, TextIs
  <1>3. line \in {Browser!Text(m) : m \in {"GET", "POST", "PUT", "up"}}
          <=> t \in {"GET", "POST", "PUT", "up"}
    BY <1>2
  <1>4. (line = Browser!Text("up") <=> t = "up") /\ (line = Browser!Text("PUT") <=> t = "PUT")
    BY <1>2
  <1>5. CASE t \in {"GET", "POST"}
    <2>1. w = [v EXCEPT !.method = t]
      BY <1>1, <1>2, <1>3, <1>4, <1>5 DEF Browser!ParseMethod
    <2>2. Form(v) /\ Kept(v, u) /\ Quiet(v)  BY DEF Plain
    <2>3. Form(w)  BY <2>1, <2>2 DEF Form
    <2>4. Kept(w, v) /\ Same(w, v) /\ w.state = v.state /\ w.method = t /\ w.answer = v.answer
      BY <2>1, <2>2 DEF Form, Kept, Same
    <2>5. Kept(w, u)  BY <2>2, <2>4 DEF Kept
    <2>6. Quiet(w)  BY <2>2, <2>4 DEF Quiet, Waits
    <2> QED BY <1>5, <2>3, <2>4, <2>5, <2>6 DEF Plain, Methodic
  <1>6. CASE t \notin {"GET", "POST"}
    <2>1. PICK code : code = IF t = "up" THEN "forbidden"
                             ELSE IF t = "PUT" THEN "not implemented" ELSE "bad request"
      OBVIOUS
    <2>2. w = Browser!SendError(v, code)
      BY <1>1, <1>3, <1>4, <1>6, <2>1 DEF Browser!ParseMethod
    <2>3. /\ Plain(w, u) /\ Same(w, v) /\ w.method = v.method
          /\ w.state = "closing" /\ w.answer = <<code>>
      BY <2>2, SendErrorIs
    <2> QED BY <1>6, <2>1, <2>3 DEF Methodic
  <1> QED BY <1>5, <1>6

\* ParseHeader() with a header.
Headed(w, v, t) ==
  /\ w.buf = v.buf /\ w.body = v.body /\ w.method = v.method /\ w.state = v.state
  /\ w.size = IF t = "length" THEN Len(v.sent.body) + 1 ELSE v.size
  /\ w.auth <=> v.auth \/ t = "auth"

LEMMA ParseHeaderIs ==
  ASSUME NEW u, NEW v, Plain(v, u), NEW t \in Headers
  PROVE  /\ Plain(Browser!ParseHeader(v, Browser!Text(t)), u)
         /\ Headed(Browser!ParseHeader(v, Browser!Text(t)), v, t)
  <1> PICK w : w = Browser!ParseHeader(v, Browser!Text(t))  OBVIOUS
  <1>1. PICK line : line = Browser!Text(t)  OBVIOUS
  <1>2. line # <<>> /\ (line = Browser!Text("length") <=> t = "length")
        /\ (line = Browser!Text("auth") <=> t = "auth")
    <2>1. t # "long"  BY DEF Headers
    <2> QED BY <1>1, <2>1, TextIs
  <1>3. Form(v) /\ Kept(v, u) /\ Quiet(v)  BY DEF Plain
  <1>4. CASE t = "length"
    <2>1. w = [v EXCEPT !.size = Len(v.sent.body) + 1]
      BY <1>1, <1>2, <1>4 DEF Browser!ParseHeader
    <2>2. Form(w)  BY <1>3, <2>1 DEF Form
    <2>3. /\ Kept(w, v) /\ w.buf = v.buf /\ w.body = v.body /\ w.method = v.method
          /\ w.state = v.state /\ w.auth = v.auth /\ w.answer = v.answer
          /\ w.size = Len(v.sent.body) + 1
      BY <1>3, <2>1 DEF Form, Kept
    <2>4. Kept(w, u)  BY <1>3, <2>3 DEF Kept
    <2>5. Quiet(w)  BY <1>3, <2>3 DEF Quiet, Waits
    <2> QED BY <1>4, <2>2, <2>3, <2>4, <2>5 DEF Plain, Headed
  <1>5. CASE t # "length"
    <2>1. w = [v EXCEPT !.auth = v.auth \/ line = Browser!Text("auth")]
      BY <1>1, <1>2, <1>5 DEF Browser!ParseHeader
    <2>2. PICK a : a = (v.auth \/ t = "auth")  OBVIOUS
    <2>3. w = [v EXCEPT !.auth = a]  BY <1>2, <2>1, <2>2
    <2>4. Form(w)  BY <1>3, <2>3 DEF Form
    <2>5. /\ Kept(w, v) /\ w.buf = v.buf /\ w.body = v.body /\ w.method = v.method
          /\ w.state = v.state /\ w.auth = a /\ w.answer = v.answer /\ w.size = v.size
      BY <1>3, <2>3 DEF Form, Kept
    <2>6. Kept(w, u)  BY <1>3, <2>5 DEF Kept
    <2>7. Quiet(w)  BY <1>3, <2>5 DEF Quiet, Waits
    <2> QED BY <1>5, <2>2, <2>4, <2>5, <2>6, <2>7 DEF Plain, Headed
  <1> QED BY <1>4, <1>5

\* ParseHeader() with the empty line.
EndIs(w, v) ==
  /\ Same(w, v) /\ w.method = v.method
  /\ IF v.method = "GET" \/ v.size = 0
     THEN w.state = "closing" /\ w.answer = <<IF v.auth THEN "page" ELSE "unauthorized">>
     ELSE w.state = "body"

LEMMA ParseEndIs ==
  ASSUME NEW u, NEW v, Plain(v, u), Waits(v)
  PROVE  Plain(Browser!ParseHeader(v, <<>>), u) /\ EndIs(Browser!ParseHeader(v, <<>>), v)
  <1> PICK w : w = Browser!ParseHeader(v, <<>>)  OBVIOUS
  <1>1. CASE v.method = "GET" \/ v.size = 0
    <2>1. w = Browser!ParseRequest(v)  BY <1>1 DEF Browser!ParseHeader
    <2> QED BY <1>1, <2>1, ParseRequestIs DEF EndIs
  <1>2. CASE ~(v.method = "GET" \/ v.size = 0)
    <2>1. w = [v EXCEPT !.state = "body"]  BY <1>2 DEF Browser!ParseHeader
    <2>2. Form(v) /\ Kept(v, u) /\ Quiet(v)  BY DEF Plain
    <2>3. Form(w)  BY <2>1, <2>2 DEF Form
    <2>4. Kept(w, v) /\ Same(w, v) /\ w.state = "body" /\ w.method = v.method /\ w.answer = v.answer
      BY <2>1, <2>2 DEF Form, Kept, Same
    <2>5. Kept(w, u)  BY <2>2, <2>4 DEF Kept
    <2>6. Quiet(w)  BY <2>2, <2>4 DEF Quiet, Waits
    <2> QED BY <1>2, <2>3, <2>4, <2>5, <2>6 DEF Plain, EndIs
  <1> QED BY <1>1, <1>2

\* Whatever the line is.
LEMMA AnyMethod ==
  ASSUME NEW u, NEW v, Plain(v, u), Waits(v), NEW line, NEW w, w = Browser!ParseMethod(v, line)
  PROVE  Plain(w, u)
  <1>1. CASE \E code : w = Browser!SendError(v, code)
    <2>1. PICK code : w = Browser!SendError(v, code)  BY <1>1
    <2> QED BY <2>1, SendErrorIs
  <1>2. CASE ~\E code : w = Browser!SendError(v, code)
    <2>1. w = [v EXCEPT !.method = line[1]]  BY <1>2 DEF Browser!ParseMethod
    <2>2. Form(v) /\ Kept(v, u) /\ Quiet(v)  BY DEF Plain
    <2>3. PICK t : t = line[1]  OBVIOUS
    <2>4. w = [v EXCEPT !.method = t]  BY <2>1, <2>3
    <2>5. Form(w)  BY <2>2, <2>4 DEF Form
    <2>6. Kept(w, v) /\ w.state = v.state /\ w.answer = v.answer  BY <2>2, <2>4 DEF Form, Kept
    <2>7. Kept(w, u)  BY <2>2, <2>6 DEF Kept
    <2>8. Quiet(w)  BY <2>2, <2>6 DEF Quiet, Waits
    <2> QED BY <2>5, <2>7, <2>8 DEF Plain
  <1> QED BY <1>1, <1>2

LEMMA AnyHeader ==
  ASSUME NEW u, NEW v, Plain(v, u), Waits(v), NEW line, NEW w, w = Browser!ParseHeader(v, line)
  PROVE  Plain(w, u)
  <1>1. Form(v) /\ Kept(v, u) /\ Quiet(v)  BY DEF Plain
  <1>2. CASE line = <<>>
    <2>1. w = Browser!ParseHeader(v, <<>>)  BY <1>2
    <2> QED BY <2>1, ParseEndIs
  <1>3. CASE line # <<>> /\ line = Browser!Text("length")
    <2>1. w = [v EXCEPT !.size = Len(v.sent.body) + 1]  BY <1>3 DEF Browser!ParseHeader
    <2>2. Form(w)  BY <1>1, <2>1 DEF Form
    <2>3. Kept(w, v) /\ w.state = v.state /\ w.answer = v.answer  BY <1>1, <2>1 DEF Form, Kept
    <2>4. Kept(w, u)  BY <1>1, <2>3 DEF Kept
    <2>5. Quiet(w)  BY <1>1, <2>3 DEF Quiet, Waits
    <2> QED BY <2>2, <2>4, <2>5 DEF Plain
  <1>4. CASE line # <<>> /\ line # Browser!Text("length")
    <2>1. w = [v EXCEPT !.auth = v.auth \/ line = Browser!Text("auth")]
      BY <1>4 DEF Browser!ParseHeader
    <2>2. PICK a : a = (v.auth \/ line = Browser!Text("auth"))  OBVIOUS
    <2>3. w = [v EXCEPT !.auth = a]  BY <2>1, <2>2
    <2>4. Form(w)  BY <1>1, <2>3 DEF Form
    <2>5. Kept(w, v) /\ w.state = v.state /\ w.answer = v.answer  BY <1>1, <2>3 DEF Form, Kept
    <2>6. Kept(w, u)  BY <1>1, <2>5 DEF Kept
    <2>7. Quiet(w)  BY <1>1, <2>5 DEF Quiet, Waits
    <2> QED BY <2>4, <2>6, <2>7 DEF Plain
  <1> QED BY <1>2, <1>3, <1>4

Cut(v, n) == [v EXCEPT !.buf[n] = "nul"]

Alike(w, v) ==
  /\ w.state = v.state /\ w.method = v.method /\ w.size = v.size /\ w.body = v.body
  /\ w.auth = v.auth

LEMMA CutIs ==
  ASSUME NEW u, NEW v, Plain(v, u), NEW n
  PROVE  Plain(Cut(v, n), u) /\ Alike(Cut(v, n), v) /\ Cut(v, n).buf = Nul(v.buf, n)
  <1> PICK w : w = Cut(v, n)  OBVIOUS
  <1>1. Form(v) /\ Kept(v, u) /\ Quiet(v)  BY DEF Plain
  <1>2. Form(w)  BY <1>1 DEF Form, Cut
  <1>3. /\ Kept(w, v) /\ w.buf = Nul(v.buf, n) /\ w.answer = v.answer
        /\ w.state = v.state /\ Alike(w, v)
    BY <1>1 DEF Form, Kept, Cut, Alike, Nul
  <1>4. Kept(w, u)  BY <1>1, <1>3 DEF Kept
  <1>5. Quiet(w)  BY <1>1, <1>3 DEF Quiet, Waits
  <1> QED BY <1>2, <1>3, <1>4, <1>5 DEF Plain

\* A line is taken.
LEMMA TakeLineIs ==
  ASSUME NEW p, p.v.state = "header", NEW end, end = Browser!NextLine(p.v.buf, p.start), end > 0
  PROVE  /\ Browser!TakeLine(p).start = end + 1
         /\ p.v.method = "none" =>
              Browser!TakeLine(p).v
                = Browser!ParseMethod(Cut(p.v, end), SubSeq(p.v.buf, p.start, end - 1))
         /\ p.v.method # "none" =>
              Browser!TakeLine(p).v
                = Browser!ParseHeader(Cut(p.v, end), SubSeq(p.v.buf, p.start, end - 1))
  <1>1. PICK v, line, x : /\ v = p.v /\ line = SubSeq(v.buf, p.start, end - 1)
                          /\ x = IF v.method = "none" THEN Browser!ParseMethod(Cut(v, end), line)
                                 ELSE Browser!ParseHeader(Cut(v, end), line)
    OBVIOUS
  <1>2. Browser!TakeLine(p) = [v |-> x, start |-> end + 1]  BY <1>1 DEF Browser!TakeLine, Cut
  <1> QED BY <1>1, <1>2

LEMMA NoMoreIs ==
  ASSUME NEW p, p.v.state # "header" \/ Browser!NextLine(p.v.buf, p.start) = 0
  PROVE  Browser!TakeLine(p) = p
  <1>1. ~(0 > 0)  OBVIOUS
  <1> QED BY <1>1 DEF Browser!TakeLine

LEMMA AnyLine ==
  ASSUME NEW u, NEW p, Plain(p.v, u)
  PROVE  Plain(Browser!TakeLine(p).v, u)
  <1>1. PICK v, end : v = p.v /\ end = Browser!NextLine(v.buf, p.start)  OBVIOUS
  <1>2. CASE v.state = "header" /\ end > 0
    <2>1. PICK w, line, t : /\ w = Cut(v, end) /\ line = SubSeq(v.buf, p.start, end - 1)
                            /\ t = Browser!TakeLine(p)
      OBVIOUS
    <2>2. t.v = IF v.method = "none" THEN Browser!ParseMethod(w, line)
                ELSE Browser!ParseHeader(w, line)
      BY <1>1, <1>2, <2>1, TakeLineIs
    <2>3. Plain(v, u)  BY <1>1
    <2>4. Plain(w, u) /\ w.state = "header"  BY <1>2, <2>1, <2>3, CutIs DEF Alike
    <2>5. Waits(w)  BY <2>4 DEF Waits
    <2>6. CASE v.method = "none"  BY <2>1, <2>2, <2>4, <2>5, <2>6, AnyMethod
    <2>7. CASE v.method # "none"  BY <2>1, <2>2, <2>4, <2>5, <2>7, AnyHeader
    <2> QED BY <2>6, <2>7
  <1>3. CASE ~(v.state = "header" /\ end > 0)
    <2>1. Browser!TakeLine(p) = p  BY <1>1, <1>3 DEF Browser!TakeLine
    <2> QED BY <2>1
  <1> QED BY <1>2, <1>3

\* The first k lines of the request have been taken.
Seen(r, k, t) == \E j \in 1..(k - 1) : r.headers[j] = t
Taken(v, k) ==
  /\ k \in 0..(Len(v.sent.headers) + 1)
  /\ IF k = 0 THEN v.method = "none"
     ELSE v.method = v.sent.method /\ v.method \in {"GET", "POST"}
  /\ v.auth <=> Seen(v.sent, k, "auth")
  /\ v.size = IF Seen(v.sent, k, "length") THEN Len(v.sent.body) + 1 ELSE 0
  /\ v.body = <<>>

\* ParseLines() has come to the line behind them.
On(p, k, W, b, e) ==
  /\ p.v.state = "header" /\ Taken(p.v, k)
  /\ p.start \in 1..(e + 1) /\ b + p.start = 3 * k + 1
  /\ Shown(p.v.buf, p.start, W, b, e, p.v.junk)

\* It ends there, for the line has not come,
Halts(p, k, W, b, e) ==
  /\ On(p, k, W, b, e)
  /\ Browser!NextLine(p.v.buf, p.start) = 0
  /\ IF k <= Len(p.v.sent.headers) THEN p.start + 2 > e ELSE p.start = e + 1

\* or as the answer is known, or a body follows.
Answered(v) ==
  /\ v.answer = <<Browser!Expected(v.sent)>>
  /\ v.method = "POST" /\ Browser!Has(v.sent, "length") => v.body = Browser!Trimmed(v.sent.body)

BodyNext(p, W, b, e) ==
  /\ p.v.state = "body" /\ p.v.method = "POST" /\ p.v.sent.method = "POST"
  /\ Browser!Has(p.v.sent, "length") /\ (p.v.auth <=> Browser!Has(p.v.sent, "auth"))
  /\ p.v.size = Len(p.v.sent.body) + 1 /\ p.v.body = <<>>
  /\ p.start \in 1..(e + 1) /\ b + p.start = 3 * Len(p.v.sent.headers) + 5
  /\ Shown(p.v.buf, p.start, W, b, e, p.v.junk)

Ends(p, W, b, e) ==
  \/ p.v.state = "closing" /\ Answered(p.v)
  \/ BodyNext(p, W, b, e)

LEMMA SeenAll ==
  ASSUME NEW r \in Requests, NEW t
  PROVE  Seen(r, Len(r.headers) + 1, t) <=> Browser!Has(r, t)
  <1>1. PICK hs, H : hs = r.headers /\ H = Len(hs)  OBVIOUS
  <1>2. H \in Nat /\ DOMAIN hs = 1..H  BY <1>1, Asked
  <1>3. (H + 1) - 1 = H  BY <1>2
  <1> QED BY <1>1, <1>2, <1>3 DEF Seen, Browser!Has, Browser!ToSet

\* The first line.
LEMMA TakeMethod ==
  ASSUME NEW u, u.sent \in Requests, u.sent.method # "long", NEW W, IsWire(W, u.sent),
         NEW b \in Nat, NEW e \in Nat, e < BufSize,
         NEW p, Plain(p.v, u), On(p, 0, W, b, e), p.start + 2 <= e
  PROVE  On(Browser!TakeLine(p), 1, W, b, e) \/ Ends(Browser!TakeLine(p), W, b, e)
  <1>1. PICK r, v, st, t, buf, junk : /\ r = u.sent /\ v = p.v /\ st = p.start /\ t = r.method
                                      /\ buf = v.buf /\ junk = u.junk
    OBVIOUS
  <1>2. v.sent = r /\ v.junk = junk  BY <1>1 DEF Plain, Kept
  <1>3. /\ v.state = "header" /\ Taken(v, 0) /\ st \in 1..(e + 1) /\ b + st = 0 + 1
        /\ Shown(buf, st, W, b, e, junk)
    BY <1>1, <1>2 DEF On
  <1>4. PICK n, a \in Nat : n = st + 2 /\ a = 0  BY <1>3
  <1>5. Three(W, a, t)  BY <1>1, <1>4 DEF IsWire
  <1>6. t \in {"GET", "POST", "PUT", "up", "none"}  BY <1>1, Asked
  <1>7. Found(buf, st, n, Browser!Text(t), W, b, e, junk)
    <2>1. t \notin {"long", "nl", "nul"}  BY <1>6
    <2>2. st \in Nat /\ st # 0 /\ n <= e /\ b + st = a + 1  BY <1>1, <1>3, <1>4
    <2> QED BY <1>3, <1>4, <1>5, <2>1, <2>2, LineAt
  <1>8. v.method = "none" /\ v.size = 0 /\ v.body = <<>> /\ ~v.auth
    <2>1. ~Seen(v.sent, 0, "auth") /\ ~Seen(v.sent, 0, "length")
      <3>1. \A j \in 1..(0 - 1) : FALSE  OBVIOUS
      <3> QED BY <3>1 DEF Seen
    <2> QED BY <1>3, <2>1 DEF Taken
  <1>9. PICK q, w, x : q = Browser!TakeLine(p) /\ w = Cut(v, n) /\ x = q.v  OBVIOUS
  <1>10. q.start = n + 1 /\ x = Browser!ParseMethod(w, Browser!Text(t))
    <2>1. n = Browser!NextLine(p.v.buf, p.start) /\ n > 0 /\ p.v.state = "header"
      BY <1>1, <1>3, <1>4, <1>7 DEF Found
    <2>2. SubSeq(p.v.buf, p.start, n - 1) = Browser!Text(t)  BY <1>1, <1>7 DEF Found
    <2>3. p.v.method = "none" /\ w = Cut(p.v, n)  BY <1>1, <1>8, <1>9
    <2> QED BY <1>9, <2>1, <2>2, <2>3, TakeLineIs
  <1>11. Plain(v, u)  BY <1>1
  <1>12. Plain(w, u) /\ Alike(w, v) /\ w.buf = Nul(buf, n)  BY <1>1, <1>9, <1>11, CutIs
  <1>13. Waits(w) /\ w.state = "header"  BY <1>3, <1>12 DEF Alike, Waits
  <1>14. Plain(x, u) /\ Methodic(x, w, t)
    <2>1. t # "long"  BY <1>6
    <2> QED BY <1>10, <1>12, <1>13, <2>1, ParseMethodIs
  <1>15. x.sent = r /\ x.junk = junk  BY <1>1, <1>14 DEF Plain, Kept
  <1>16. x.size = 0 /\ x.body = <<>> /\ ~x.auth /\ x.buf = Nul(buf, n)
    BY <1>8, <1>12, <1>14 DEF Same, Alike, Methodic
  <1>17. CASE t \in {"GET", "POST"}
    <2>1. Taken(x, 1)
      <3>1. \A j \in 1..(1 - 1) : FALSE  OBVIOUS
      <3>2. ~Seen(r, 1, "auth") /\ ~Seen(r, 1, "length")  BY <3>1 DEF Seen
      <3>3. 1 \in 0..(Len(r.headers) + 1)
        <4>1. Len(r.headers) \in Nat  BY <1>1, Asked
        <4> QED BY <4>1
      <3>4. x.method = r.method /\ x.method \in {"GET", "POST"}
        BY <1>1, <1>14, <1>17 DEF Methodic
      <3> QED BY <1>15, <1>16, <3>2, <3>3, <3>4 DEF Taken
    <2>2. n + 1 \in 1..(e + 1) /\ b + (n + 1) = 3 * 1 + 1  BY <1>1, <1>3, <1>4
    <2>3. x.state = "header"  BY <1>13, <1>14, <1>17 DEF Methodic
    <2>4. On(q, 1, W, b, e)
      BY <1>7, <1>9, <1>10, <1>15, <1>16, <2>1, <2>2, <2>3 DEF On, Found
    <2> QED BY <1>9, <2>4
  <1>18. CASE t \notin {"GET", "POST"}
    <2>1. x.answer = <<Browser!Expected(r)>>
      <3>1. Browser!Expected(r) = IF t = "up" THEN "forbidden"
                                 ELSE IF t = "PUT" THEN "not implemented" ELSE "bad request"
        BY <1>1, <1>6, <1>18 DEF Browser!Expected
      <3> QED BY <1>14, <1>18, <3>1 DEF Methodic
    <2>2. x.method # "POST" /\ x.state = "closing"
      BY <1>8, <1>12, <1>14, <1>18 DEF Alike, Methodic
    <2>3. Ends(q, W, b, e)  BY <1>9, <1>15, <2>1, <2>2 DEF Ends, Answered
    <2> QED BY <1>9, <2>3
  <1> QED BY <1>17, <1>18

\* A header.
LEMMA TakeHeader ==
  ASSUME NEW u, u.sent \in Requests, NEW W, IsWire(W, u.sent),
         NEW b \in Nat, NEW e \in Nat, e < BufSize, NEW k \in Nat, k # 0, k <= Len(u.sent.headers),
         NEW p, Plain(p.v, u), On(p, k, W, b, e), p.start + 2 <= e
  PROVE  On(Browser!TakeLine(p), k + 1, W, b, e)
  <1>1. PICK r, v, st, t, buf, junk : /\ r = u.sent /\ v = p.v /\ st = p.start /\ t = r.headers[k]
                                      /\ buf = v.buf /\ junk = u.junk
    OBVIOUS
  <1>2. v.sent = r /\ v.junk = junk  BY <1>1 DEF Plain, Kept
  <1>3. /\ v.state = "header" /\ Taken(v, k) /\ st \in 1..(e + 1) /\ b + st = 3 * k + 1
        /\ Shown(buf, st, W, b, e, junk)
    BY <1>1, <1>2 DEF On
  <1>4. PICK n, a \in Nat : n = st + 2 /\ a = 3 * k  BY <1>3
  <1>5. PICK H \in Nat : H = Len(r.headers)
    <2>1. Len(r.headers) \in Nat  BY <1>1, Asked
    <2> QED BY <2>1
  <1>6. Three(W, a, t) /\ t \in Headers
    <2>1. k \in 1..H  BY <1>1, <1>5
    <2>2. r.headers \in Seq(Headers)  BY <1>1, Asked
    <2>3. Three(W, 3 * k, r.headers[k])  BY <1>1, <1>5, <2>1 DEF IsWire
    <2> QED BY <1>1, <1>4, <1>5, <2>1, <2>2, <2>3, ElementOfSeq
  <1>7. Found(buf, st, n, Browser!Text(t), W, b, e, junk)
    <2>1. t \notin {"long", "nl", "nul"}  BY <1>6 DEF Headers
    <2>2. st \in Nat /\ st # 0 /\ n <= e /\ b + st = a + 1  BY <1>1, <1>3, <1>4
    <2> QED BY <1>3, <1>4, <1>6, <2>1, <2>2, LineAt
  <1>8. PICK q, w, x : q = Browser!TakeLine(p) /\ w = Cut(v, n) /\ x = q.v  OBVIOUS
  <1>9. q.start = n + 1 /\ x = Browser!ParseHeader(w, Browser!Text(t))
    <2>1. n = Browser!NextLine(p.v.buf, p.start) /\ n > 0 /\ p.v.state = "header"
      BY <1>1, <1>3, <1>4, <1>7 DEF Found
    <2>2. SubSeq(p.v.buf, p.start, n - 1) = Browser!Text(t)  BY <1>1, <1>7 DEF Found
    <2>3. p.v.method # "none" /\ w = Cut(p.v, n)  BY <1>1, <1>3, <1>8 DEF Taken
    <2> QED BY <1>8, <2>1, <2>2, <2>3, TakeLineIs
  <1>10. Plain(v, u)  BY <1>1
  <1>11. Plain(w, u) /\ Alike(w, v) /\ w.buf = Nul(buf, n)  BY <1>1, <1>8, <1>10, CutIs
  <1>12. Plain(x, u) /\ Headed(x, w, t)  BY <1>6, <1>9, <1>11, ParseHeaderIs
  <1>13. x.sent = r /\ x.junk = junk /\ w.sent = r  BY <1>1, <1>11, <1>12 DEF Plain, Kept
  <1>14. PICK m \in Nat : m = k + 1  OBVIOUS
  <1>15. \A s : Seen(r, m, s) <=> Seen(r, k, s) \/ t = s
    <2>1. \A j : j \in 1..(m - 1) <=> j \in 1..(k - 1) \/ j = k  BY <1>14
    <2> QED BY <1>1, <2>1 DEF Seen
  <1>16. Taken(x, m)
    <2>1. m \in 0..(H + 1) /\ m # 0  BY <1>1, <1>5, <1>14
    <2>2. x.method = r.method /\ x.method \in {"GET", "POST"} /\ x.body = <<>>
      BY <1>2, <1>3, <1>11, <1>12 DEF Taken, Alike, Headed
    <2>3. x.auth <=> Seen(r, m, "auth")
      <3>1. v.auth <=> Seen(r, k, "auth")  BY <1>2, <1>3 DEF Taken
      <3>2. w.auth = v.auth  BY <1>11 DEF Alike
      <3>3. x.auth <=> w.auth \/ t = "auth"  BY <1>12 DEF Headed
      <3> QED BY <1>15, <3>1, <3>2, <3>3
    <2>4. x.size = IF Seen(r, m, "length") THEN Len(r.body) + 1 ELSE 0
      <3>1. v.size = IF Seen(r, k, "length") THEN Len(r.body) + 1 ELSE 0  BY <1>2, <1>3 DEF Taken
      <3>2. w.size = v.size  BY <1>11 DEF Alike
      <3>3. x.size = IF t = "length" THEN Len(r.body) + 1 ELSE w.size  BY <1>12, <1>13 DEF Headed
      <3> QED BY <1>15, <3>1, <3>2, <3>3
    <2> QED BY <1>5, <1>13, <2>1, <2>2, <2>3, <2>4 DEF Taken
  <1>17. n + 1 \in 1..(e + 1) /\ b + (n + 1) = 3 * m + 1
    <2>1. n = st + 2 /\ st + 2 <= e /\ st \in Nat  BY <1>1, <1>3, <1>4
    <2>2. n + 1 \in 1..(e + 1)  BY <2>1
    <2>3. b + st = a + 1 /\ 3 * m = a + 3  BY <1>3, <1>4, <1>14
    <2>4. b + (n + 1) = a + 4  BY <2>1, <2>3
    <2> QED BY <2>2, <2>3, <2>4
  <1>18. x.state = "header" /\ x.buf = Nul(buf, n)  BY <1>3, <1>11, <1>12 DEF Headed, Alike
  <1>19. On(q, m, W, b, e)
    BY <1>7, <1>8, <1>9, <1>13, <1>16, <1>17, <1>18 DEF On, Found
  <1> QED BY <1>8, <1>14, <1>19

\* The empty line.
LEMMA TakeEnd ==
  ASSUME NEW u, u.sent \in Requests, NEW W, IsWire(W, u.sent),
         NEW b \in Nat, NEW e \in Nat, e < BufSize, NEW k \in Nat, k = Len(u.sent.headers) + 1,
         NEW p, Plain(p.v, u), On(p, k, W, b, e), p.start <= e
  PROVE  Ends(Browser!TakeLine(p), W, b, e)
  <1>1. PICK r, v, n, buf, junk : /\ r = u.sent /\ v = p.v /\ n = p.start
                                  /\ buf = v.buf /\ junk = u.junk
    OBVIOUS
  <1>2. v.sent = r /\ v.junk = junk  BY <1>1 DEF Plain, Kept
  <1>3. /\ v.state = "header" /\ Taken(v, k) /\ n \in 1..(e + 1) /\ b + n = 3 * k + 1
        /\ Shown(buf, n, W, b, e, junk)
    BY <1>1, <1>2 DEF On
  <1>4. PICK H, B \in Nat : H = Len(r.headers) /\ B = Len(r.body)
    <2>1. Len(r.headers) \in Nat /\ Len(r.body) \in Nat  BY <1>1, Asked
    <2> QED BY <2>1
  <1>5. k = H + 1 /\ k # 0 /\ n \in Nat /\ n # 0 /\ n > 0 /\ n <= e  BY <1>1, <1>3, <1>4
  <1>6. W[b + n] = "nl"
    <2>1. b + n = 3 * H + 4  BY <1>3, <1>5
    <2> QED BY <1>1, <1>4, <2>1 DEF IsWire
  <1>7. Found(buf, n, n, <<>>, W, b, e, junk)  BY <1>3, <1>5, <1>6, EndAt
  <1>8. PICK q, w, x : q = Browser!TakeLine(p) /\ w = Cut(v, n) /\ x = q.v  OBVIOUS
  <1>9. q.start = n + 1 /\ x = Browser!ParseHeader(w, <<>>)
    <2>1. n = Browser!NextLine(p.v.buf, p.start) /\ n > 0 /\ p.v.state = "header"
      BY <1>1, <1>3, <1>5, <1>7 DEF Found
    <2>2. SubSeq(p.v.buf, p.start, n - 1) = <<>>  BY <1>1, <1>7 DEF Found
    <2>3. p.v.method # "none" /\ w = Cut(p.v, n)  BY <1>1, <1>3, <1>5, <1>8 DEF Taken
    <2> QED BY <1>8, <2>1, <2>2, <2>3, TakeLineIs
  <1>10. Plain(v, u)  BY <1>1
  <1>11. Plain(w, u) /\ Alike(w, v) /\ w.buf = Nul(buf, n)  BY <1>1, <1>8, <1>10, CutIs
  <1>12. Waits(w)  BY <1>3, <1>11 DEF Alike, Waits
  <1>13. Plain(x, u) /\ EndIs(x, w)  BY <1>9, <1>11, <1>12, ParseEndIs
  <1>14. x.sent = r /\ x.junk = junk  BY <1>1, <1>13 DEF Plain, Kept
  <1>15. /\ w.method = r.method /\ r.method \in {"GET", "POST"} /\ w.body = <<>>
         /\ w.auth <=> Browser!Has(r, "auth")
         /\ w.size = IF Browser!Has(r, "length") THEN B + 1 ELSE 0
    <2>1. \A s : Seen(r, k, s) <=> Browser!Has(r, s)  BY <1>1, <1>4, <1>5, SeenAll
    <2> QED BY <1>2, <1>3, <1>4, <1>5, <1>11, <2>1 DEF Taken, Alike
  <1>16. x.method = r.method /\ x.body = <<>> /\ x.size = w.size /\ x.auth = w.auth /\ x.buf = w.buf
    BY <1>13, <1>15 DEF EndIs, Same
  <1>17. CASE w.method = "GET" \/ w.size = 0
    <2>1. x.state = "closing" /\ x.answer = <<IF w.auth THEN "page" ELSE "unauthorized">>
      BY <1>13, <1>17 DEF EndIs
    <2>2. Browser!Expected(r) = IF w.auth THEN "page" ELSE "unauthorized"
      BY <1>15 DEF Browser!Expected
    <2>3. x.answer = <<Browser!Expected(r)>>  BY <2>1, <2>2
    <2>4. ~(x.method = "POST" /\ Browser!Has(r, "length"))
      <3>1. B + 1 # 0  BY <1>4
      <3> QED BY <1>15, <1>16, <1>17, <3>1
    <2>5. Answered(x)  BY <1>14, <2>3, <2>4 DEF Answered
    <2> QED BY <1>8, <2>1, <2>5 DEF Ends
  <1>18. CASE ~(w.method = "GET" \/ w.size = 0)
    <2>1. x.state = "body"  BY <1>13, <1>18 DEF EndIs
    <2>2. x.method = "POST" /\ r.method = "POST" /\ Browser!Has(r, "length") /\ x.size = B + 1
      BY <1>15, <1>16, <1>18
    <2>3. x.auth <=> Browser!Has(r, "auth")  BY <1>15, <1>16
    <2>4. n + 1 \in 1..(e + 1) /\ b + (n + 1) = 3 * H + 5  BY <1>3, <1>5
    <2>5. Shown(x.buf, n + 1, W, b, e, x.junk)  BY <1>7, <1>11, <1>14, <1>16 DEF Found
    <2>6. BodyNext(q, W, b, e)
      BY <1>4, <1>8, <1>9, <1>14, <1>16, <2>1, <2>2, <2>3, <2>4, <2>5 DEF BodyNext
    <2> QED BY <1>8, <2>6 DEF Ends
  <1> QED BY <1>17, <1>18

\* The line has not come.
LEMMA TakeNone ==
  ASSUME NEW u, u.sent \in Requests, NEW W, IsWire(W, u.sent), u.sent.method # "long",
         NEW b \in Nat, NEW e \in Nat, e < BufSize, NEW k \in Nat,
         NEW p, Plain(p.v, u), On(p, k, W, b, e),
         IF k <= Len(u.sent.headers) THEN p.start + 2 > e ELSE p.start > e
  PROVE  Halts(p, k, W, b, e)
  <1>1. PICK r, v, st, buf, junk : /\ r = u.sent /\ v = p.v /\ st = p.start
                                   /\ buf = v.buf /\ junk = u.junk
    OBVIOUS
  <1>2. v.sent = r /\ v.junk = junk  BY <1>1 DEF Plain, Kept
  <1>3. /\ st \in 1..(e + 1) /\ b + st = 3 * k + 1
        /\ Shown(buf, st, W, b, e, junk)
    BY <1>1, <1>2 DEF On
  <1>4. PICK H \in Nat : H = Len(r.headers)
    <2>1. Len(r.headers) \in Nat  BY <1>1, Asked
    <2> QED BY <2>1
  <1>5. st \in Nat /\ st # 0 /\ st <= e + 1  BY <1>3
  <1>6. NoEnd(W, b, st, e)
    <2>1. CASE k <= H
      <3>1. st + 2 > e  BY <1>1, <1>4, <2>1
      <3>2. \E t : Three(W, 3 * k, t) /\ t # "nl"
        <4>1. CASE k = 0
          <5>1. Three(W, 3 * k, r.method)  BY <1>1, <4>1 DEF IsWire
          <5>2. r.method # "nl"  BY <1>1, Asked
          <5> QED BY <5>1, <5>2
        <4>2. CASE k # 0
          <5>1. k \in 1..H  BY <2>1, <4>2
          <5>2. Three(W, 3 * k, r.headers[k])  BY <1>1, <1>4, <5>1 DEF IsWire
          <5>3. r.headers \in Seq(Headers)  BY <1>1, Asked
          <5>4. r.headers[k] \in Headers  BY <1>4, <5>1, <5>3, ElementOfSeq
          <5> QED BY <5>2, <5>4 DEF Headers
        <4> QED BY <4>1, <4>2
      <3>3. W[3 * k + 1] # "nl" /\ W[3 * k + 2] # "nl"  BY <3>2 DEF Three
      <3>4. ASSUME NEW q \in st..e
            PROVE  b + q = 3 * k + 1 \/ b + q = 3 * k + 2
        BY <1>3, <3>1
      <3> QED BY <3>3, <3>4 DEF NoEnd
    <2>2. CASE ~(k <= H)
      <3>1. st > e  BY <1>1, <1>4, <2>2
      <3>2. \A q \in st..e : FALSE  BY <1>5, <3>1
      <3> QED BY <3>2 DEF NoEnd
    <2> QED BY <2>1, <2>2
  <1>7. Browser!NextLine(buf, st) = 0  BY <1>3, <1>5, <1>6, NoneAt
  <1>8. IF k <= H THEN st + 2 > e ELSE st = e + 1  BY <1>1, <1>3, <1>4
  <1> QED BY <1>1, <1>2, <1>4, <1>7, <1>8 DEF Halts

\* One more line, as far as there is one.
Settled(p, W, b, e) == Ends(p, W, b, e) \/ \E k \in Nat : Halts(p, k, W, b, e)

LEMMA TakeStep ==
  ASSUME NEW u, u.sent \in Requests, NEW W, IsWire(W, u.sent), u.sent.method # "long",
         NEW b \in Nat, NEW e \in Nat, e < BufSize, NEW k \in Nat,
         NEW p, Plain(p.v, u), On(p, k, W, b, e)
  PROVE  On(Browser!TakeLine(p), k + 1, W, b, e) \/ Settled(Browser!TakeLine(p), W, b, e)
  <1>1. PICK H \in Nat : H = Len(u.sent.headers)
    <2>1. Len(u.sent.headers) \in Nat  BY Asked
    <2> QED BY <2>1
  <1>2. p.v.sent = u.sent  BY DEF Plain, Kept
  <1>3. k \in 0..(H + 1) /\ p.start \in 1..(e + 1)  BY <1>1, <1>2 DEF On, Taken
  <1>4. CASE IF k <= H THEN p.start + 2 > e ELSE p.start > e
    <2>1. Halts(p, k, W, b, e)  BY <1>1, <1>4, TakeNone
    <2>2. Browser!TakeLine(p) = p  BY <2>1, NoMoreIs DEF Halts
    <2> QED BY <2>1, <2>2 DEF Settled
  <1>5. CASE k = 0 /\ p.start + 2 <= e
    <2>1. On(p, 0, W, b, e) /\ 0 + 1 = 1  BY <1>5
    <2>2. On(Browser!TakeLine(p), 1, W, b, e) \/ Ends(Browser!TakeLine(p), W, b, e)
      BY <1>5, <2>1, TakeMethod
    <2> QED BY <1>5, <2>1, <2>2 DEF Settled
  <1>6. CASE k # 0 /\ k <= H /\ p.start + 2 <= e
    BY <1>1, <1>6, TakeHeader
  <1>7. CASE ~(k <= H) /\ p.start <= e
    <2>1. k = H + 1  BY <1>3, <1>7
    <2> QED BY <1>1, <1>7, <2>1, TakeEnd DEF Settled
  <1>8. 0 <= H  OBVIOUS
  <1> QED BY <1>3, <1>4, <1>5, <1>6, <1>7, <1>8

LEMMA SettledStays ==
  ASSUME NEW p, NEW W, NEW b, NEW e, Settled(p, W, b, e)
  PROVE  Browser!TakeLine(p) = p
  <1>1. p.v.state # "header" \/ Browser!NextLine(p.v.buf, p.start) = 0
    BY DEF Settled, Ends, BodyNext, Halts
  <1> QED BY <1>1, NoMoreIs

\* The first n lines, as ParseLines() takes them.
Takes(f, k, v) ==
  f = [n \in 0..k |-> IF n = 0 THEN [v |-> v, start |-> 1] ELSE Browser!TakeLine(f[n - 1])]

LEMMA TakesExist ==
  ASSUME NEW v, NEW k \in Nat
  PROVE  \E f : Takes(f, k, v)
  <1>1. PICK p0 : p0 = [v |-> v, start |-> 1]  OBVIOUS
  <1>2. PICK T : T = {l \in Nat : \E f : Takes(f, l, v)}  OBVIOUS
  <1>3. 0 \in T
    <2>1. PICK f : f = [n \in 0..0 |-> p0]  OBVIOUS
    <2>2. \A n \in 0..0 : n = 0  OBVIOUS
    <2>3. f = [n \in 0..0 |-> IF n = 0 THEN p0 ELSE Browser!TakeLine(f[n - 1])]  BY <2>1, <2>2
    <2>4. Takes(f, 0, v)  BY <1>1, <2>3 DEF Takes
    <2> QED BY <1>2, <2>4
  <1>4. ASSUME NEW l \in Nat, l \in T
        PROVE  l + 1 \in T
    <2>1. PICK f : f = [n \in 0..l |-> IF n = 0 THEN p0 ELSE Browser!TakeLine(f[n - 1])]
      BY <1>1, <1>2, <1>4 DEF Takes
    <2>2. PICK x : x = Browser!TakeLine(f[l])  OBVIOUS
    <2>3. PICK g : g = [n \in 0..(l + 1) |-> IF n = l + 1 THEN x ELSE f[n]]  OBVIOUS
    <2>4. \A n \in 0..(l + 1) : n # l + 1 => n \in 0..l  OBVIOUS
    <2>5. \A n \in 0..(l + 1) : n # 0 => n - 1 \in 0..(l + 1) /\ n - 1 # l + 1  OBVIOUS
    <2>6. \A n \in 0..(l + 1) : n # 0 => g[n - 1] = f[n - 1]  BY <2>3, <2>5
    <2>7. ASSUME NEW n \in 0..(l + 1)
          PROVE  (IF n = l + 1 THEN x ELSE f[n])
                   = IF n = 0 THEN p0 ELSE Browser!TakeLine(g[n - 1])
      <3>1. CASE n = l + 1
        <4>1. n # 0 /\ n - 1 = l  BY <3>1
        <4>2. g[n - 1] = f[l]  BY <2>6, <4>1
        <4> QED BY <2>2, <3>1, <4>1, <4>2
      <3>2. CASE n # l + 1
        <4>1. n \in 0..l  BY <2>4, <3>2
        <4>2. f[n] = IF n = 0 THEN p0 ELSE Browser!TakeLine(f[n - 1])  BY ONLY <2>1, <4>1
        <4> QED BY <2>6, <3>2, <4>2
      <3> QED BY <3>1, <3>2
    <2>8. g = [n \in 0..(l + 1) |-> IF n = 0 THEN p0 ELSE Browser!TakeLine(g[n - 1])]
      BY ONLY <2>3, <2>7
    <2>9. Takes(g, l + 1, v)  BY ONLY <1>1, <2>8 DEF Takes
    <2> QED BY <1>2, <2>9
  <1>5. Nat \subseteq T  BY <1>3, <1>4, Every
  <1> QED BY <1>2, <1>5

LEMMA TakesAny ==
  ASSUME NEW u, NEW v, Plain(v, u), NEW N \in Nat, NEW f, Takes(f, N, v)
  PROVE  \A n \in 0..N : Plain(f[n].v, u)
  <1>1. PICK T : T = {n \in Nat : n <= N => Plain(f[n].v, u)}  OBVIOUS
  <1>2. \A n \in 0..N : f[n] = IF n = 0 THEN [v |-> v, start |-> 1]
                               ELSE Browser!TakeLine(f[n - 1])
    BY DEF Takes
  <1>3. 0 \in T
    <2>1. f[0] = [v |-> v, start |-> 1]  BY <1>2
    <2>2. f[0].v = v  BY <2>1
    <2> QED BY <1>1, <2>2
  <1>4. ASSUME NEW n \in Nat, n \in T
        PROVE  n + 1 \in T
    <2>1. SUFFICES ASSUME n + 1 <= N  PROVE Plain(f[n + 1].v, u)  BY <1>1
    <2>2. PICK p, q : p = f[n] /\ q = f[n + 1]  OBVIOUS
    <2>3. Plain(p.v, u)  BY <1>1, <1>4, <2>1, <2>2
    <2>4. q = Browser!TakeLine(p)
      <3>1. n + 1 \in 0..N /\ n + 1 # 0 /\ (n + 1) - 1 = n  BY <2>1
      <3> QED BY <1>2, <2>2, <3>1
    <2>5. Plain(q.v, u)  BY <2>3, <2>4, AnyLine
    <2> QED BY <2>2, <2>5
  <1>5. Nat \subseteq T  BY <1>3, <1>4, Every
  <1> QED BY <1>1, <1>5

\* When the request is as it was sent it comes to the last whole line.
Begins(v, W, b, e, k) == On([v |-> v, start |-> 1], k, W, b, e)

LEMMA TakesWell ==
  ASSUME NEW u, u.sent \in Requests, u.sent.method # "long", NEW W, IsWire(W, u.sent),
         NEW b \in Nat, NEW e \in Nat, e < BufSize, NEW k \in Nat,
         NEW v, Plain(v, u), Begins(v, W, b, e, k), NEW N, N = BufSize, NEW f, Takes(f, N, v)
  PROVE  Settled(f[N], W, b, e)
  <1>1. PICK T : T = {n \in Nat : n <= N => On(f[n], k + n, W, b, e) \/ Settled(f[n], W, b, e)}
    OBVIOUS
  <1>2. \A n \in 0..N : f[n] = IF n = 0 THEN [v |-> v, start |-> 1]
                               ELSE Browser!TakeLine(f[n - 1])
    BY DEF Takes
  <1>3. N \in Nat  BY Asked
  <1>4. 0 \in T
    <2>1. f[0] = [v |-> v, start |-> 1]  BY <1>2, <1>3
    <2>2. k + 0 = k  OBVIOUS
    <2>3. On(f[0], k + 0, W, b, e)  BY <2>1, <2>2 DEF Begins
    <2> QED BY <1>1, <2>3
  <1>5. ASSUME NEW n \in Nat, n \in T
        PROVE  n + 1 \in T
    <2>1. SUFFICES ASSUME n + 1 <= N
                   PROVE On(f[n + 1], k + (n + 1), W, b, e) \/ Settled(f[n + 1], W, b, e)
      BY <1>1
    <2>2. PICK p, q : p = f[n] /\ q = f[n + 1]  OBVIOUS
    <2>3. PICK l \in Nat : l = k + n  OBVIOUS
    <2>4. On(p, l, W, b, e) \/ Settled(p, W, b, e)
      <3>1. n <= N  BY <1>3, <2>1
      <3>2. On(f[n], k + n, W, b, e) \/ Settled(f[n], W, b, e)  BY <1>1, <1>5, <3>1
      <3> QED BY <2>2, <2>3, <3>2
    <2>5. q = Browser!TakeLine(p)
      <3>1. n + 1 \in 0..N /\ n + 1 # 0 /\ (n + 1) - 1 = n  BY <2>1, <1>3
      <3> QED BY <1>2, <2>2, <3>1
    <2>6. Plain(p.v, u)
      <3>1. n \in 0..N  BY <2>1, <1>3
      <3> QED BY <1>3, <2>2, <3>1, TakesAny
    <2>7. k + (n + 1) = l + 1  BY <2>3
    <2>8. CASE On(p, l, W, b, e)
      <3>1. On(q, l + 1, W, b, e) \/ Settled(q, W, b, e)  BY <2>5, <2>6, <2>8, TakeStep
      <3> QED BY <2>2, <2>7, <3>1
    <2>9. CASE Settled(p, W, b, e)
      <3>1. q = p  BY <2>5, <2>9, SettledStays
      <3> QED BY <2>2, <2>9, <3>1
    <2> QED BY <2>4, <2>8, <2>9
  <1>6. N \in T
    <2>1. Nat \subseteq T  BY <1>4, <1>5, Every
    <2> QED BY <1>3, <2>1
  <1>7. PICK p, l : p = f[N] /\ l = k + N  OBVIOUS
  <1>8. ~On(p, l, W, b, e)
    <2>1. SUFFICES ASSUME On(p, l, W, b, e)  PROVE FALSE  OBVIOUS
    <2>2. p.start \in 1..(e + 1) /\ b + p.start = 3 * l + 1  BY <2>1 DEF On
    <2>3. b = 3 * k
      <3>1. PICK p0 : p0 = [v |-> v, start |-> 1]  OBVIOUS
      <3>2. On(p0, k, W, b, e)  BY <3>1 DEF Begins
      <3>3. b + p0.start = 3 * k + 1  BY <3>2 DEF On
      <3>4. p0.start = 1  BY <3>1
      <3> QED BY <3>3, <3>4
    <2> QED BY <1>3, <1>7, <2>2, <2>3
  <1> QED BY <1>1, <1>3, <1>6, <1>7, <1>8

\* ParseLines()
LEMMA ParseLinesIs ==
  ASSUME NEW u, NEW v, Plain(v, u)
  PROVE  \E p : /\ Browser!ParseLines(v) = Browser!TakeBody(p) /\ Plain(p.v, u)
                /\ \A W, b, e, k :
                     /\ u.sent \in Requests /\ u.sent.method # "long" /\ IsWire(W, u.sent)
                     /\ b \in Nat /\ e \in Nat /\ e < BufSize /\ k \in Nat
                     /\ Begins(v, W, b, e, k)
                     => Settled(p, W, b, e)
  <1>1. PICK N : N = BufSize  OBVIOUS
  <1>2. N \in Nat  BY <1>1, Asked
  <1>3. PICK f : f = CHOOSE g : Takes(g, N, v)  OBVIOUS
  <1>4. Takes(f, N, v)  BY <1>2, <1>3, TakesExist
  <1>5. PICK p : p = f[N]  OBVIOUS
  <1>6. Browser!ParseLines(v) = Browser!TakeBody(p)
    BY <1>1, <1>3, <1>5 DEF Browser!ParseLines, Takes
  <1>7. Plain(p.v, u)
    <2>1. N \in 0..N  BY <1>2
    <2> QED BY <1>2, <1>4, <1>5, <2>1, TakesAny
  <1>8. ASSUME NEW W, NEW b \in Nat, NEW e \in Nat, NEW k \in Nat,
               u.sent \in Requests, u.sent.method # "long", IsWire(W, u.sent), e < BufSize,
               Begins(v, W, b, e, k)
        PROVE  Settled(p, W, b, e)
    BY <1>1, <1>4, <1>5, <1>8, TakesWell
  <1> QED BY <1>6, <1>7, <1>8

\* AddBodyData(): more of the body, or the answer.
BodyTaken(w, v, z) ==
  IF Len(z) >= v.size - 1
  THEN /\ w.state = "closing" /\ w.body = Browser!Trimmed(z) /\ w.method = v.method
       /\ w.answer = <<IF v.auth THEN "page" ELSE "unauthorized">>
  ELSE /\ w.state = v.state /\ w.body = z /\ w.method = v.method /\ w.auth = v.auth
       /\ w.size = v.size

LEMMA AddBodyIs ==
  ASSUME NEW u, NEW v, Plain(v, u), Waits(v), NEW data
  PROVE  /\ Plain(Browser!AddBodyData(v, data), u)
         /\ BodyTaken(Browser!AddBodyData(v, data), v, v.body \o data)
  <1> PICK x : x = Browser!AddBodyData(v, data)  OBVIOUS
  <1>1. PICK z, w : z = v.body \o data /\ w = [v EXCEPT !.body = z]  OBVIOUS
  <1>2. Form(v) /\ Kept(v, u) /\ Quiet(v)  BY DEF Plain
  <1>3. Form(w)  BY <1>1, <1>2 DEF Form
  <1>4. /\ Kept(w, v) /\ w.state = v.state /\ w.answer = v.answer /\ w.body = z /\ w.size = v.size
        /\ w.method = v.method /\ w.auth = v.auth
    BY <1>1, <1>2 DEF Form, Kept
  <1>5. Kept(w, u)  BY <1>2, <1>4 DEF Kept
  <1>6. Quiet(w)  BY <1>2, <1>4 DEF Quiet, Waits
  <1>7. Plain(w, u) /\ Waits(w)  BY <1>3, <1>4, <1>5, <1>6 DEF Plain, Waits
  <1>8. PICK y : y = [w EXCEPT !.body = Browser!Trimmed(w.body)]  OBVIOUS
  <1>9. x = IF Len(w.body) >= w.size - 1 THEN Browser!ParseRequest(y) ELSE w
    BY <1>1, <1>8 DEF Browser!AddBodyData
  <1>10. CASE Len(z) >= v.size - 1
    <2>1. x = Browser!ParseRequest(y)  BY <1>4, <1>9, <1>10
    <2>2. Form(y)  BY <1>3, <1>8 DEF Form
    <2>3. /\ Kept(y, w) /\ y.state = w.state /\ y.answer = w.answer
          /\ y.body = Browser!Trimmed(w.body) /\ y.method = w.method /\ y.auth = w.auth
      BY <1>3, <1>8 DEF Form, Kept
    <2>4. Kept(y, u)  BY <1>5, <2>3 DEF Kept
    <2>5. Quiet(y)  BY <1>6, <2>3 DEF Quiet, Waits
    <2>6. Plain(y, u) /\ Waits(y)  BY <1>7, <2>2, <2>3, <2>4, <2>5 DEF Plain, Waits
    <2>7. /\ Plain(x, u) /\ Same(x, y) /\ x.method = y.method /\ x.state = "closing"
          /\ x.answer = <<IF y.auth THEN "page" ELSE "unauthorized">>
      BY <2>1, <2>6, ParseRequestIs
    <2>8. x.body = Browser!Trimmed(z) /\ x.method = v.method /\ y.auth = v.auth
      BY <1>4, <2>3, <2>7 DEF Same
    <2> QED BY <1>1, <1>10, <2>7, <2>8 DEF BodyTaken
  <1>11. CASE ~(Len(z) >= v.size - 1)
    <2>1. x = w  BY <1>4, <1>9, <1>11
    <2> QED BY <1>1, <1>4, <1>7, <1>11, <2>1 DEF BodyTaken
  <1> QED BY <1>10, <1>11

\* What comes behind the first n units has not been read.
Behind(v, n) ==
  /\ n \in Nat /\ n <= Len(Browser!Wire(v.sent))
  /\ v.unread = SubSeq(Browser!Wire(v.sent), n + 1, Len(Browser!Wire(v.sent)))

\* The body comes.
Lasts(v) ==
  /\ v.method = "POST" /\ v.sent.method = "POST" /\ Browser!Has(v.sent, "length")
  /\ v.auth <=> Browser!Has(v.sent, "auth")
  /\ v.size = Len(v.sent.body) + 1
  /\ v.body \in Seq(STRING) /\ v.unread \in Seq(STRING)
  /\ v.body \o v.unread = v.sent.body /\ Len(v.body) < Len(v.sent.body)

LEMMA LastAnswer ==
  ASSUME NEW v, Lasts(v), NEW w, BodyTaken(w, v, v.sent.body), w.sent = v.sent
  PROVE  w.state = "closing" /\ Answered(w)
  <1>1. Len(v.sent.body) >= v.size - 1
    BY DEF Lasts
  <1> QED BY <1>1 DEF BodyTaken, Answered, Lasts, Browser!Expected

\* A header whose pieces end where lines do, or that is one piece.
Good(v) ==
  \/ ~v.refilled
  \/ ~v.inline /\ v.junk # "nl" /\ ~v.overrun /\ ~Browser!Has(v.sent, "length")

\* There is no line yet.
Fills(v) ==
  /\ Taken(v, 0) /\ v.off = v.len /\ v.len \in Nat /\ v.len < BufSize
  /\ v.buf \in Seq(Units) /\ Len(v.buf) = BufSize
  /\ \A q \in 1..v.len : v.buf[q] = Browser!Wire(v.sent)[q]
  /\ \A q \in (v.len + 1)..BufSize : v.buf[q] \in {v.junk, "nul"}

\* All that has come was k lines.
Empties(v, k) ==
  /\ k \in Nat /\ k # 0 /\ Taken(v, k) /\ v.len = 3 * k
  /\ v.off = 0 /\ v.buf \in Seq(Units) /\ Len(v.buf) = BufSize
  /\ \A q \in 1..BufSize : v.buf[q] # "nl"

AsSent(v) ==
  /\ v.state = "header" /\ ~v.refilled =>
       Fills(v) /\ Behind(v, v.len) /\ NoEnd(Browser!Wire(v.sent), 0, 1, v.len)
  /\ v.state = "header" /\ v.refilled => \E k : Empties(v, k) /\ Behind(v, 3 * k)
  /\ v.state = "body" => Lasts(v)
  /\ v.state = "closing" => Answered(v)
  /\ v.state = "crash" => v.unread # <<>>

ReadOk(v) ==
  /\ Form(v) /\ Quiet(v) /\ v.sent \in Requests /\ v.junk \in Junk
  /\ v.overrun => v.refilled
  /\ Good(v) => AsSent(v)

\* A piece of what has not been read.
Piece(v, data, n) ==
  /\ data \in Seq(Units) /\ Len(data) \in Nat \ {0}
  /\ n + Len(data) <= Len(Browser!Wire(v.sent))
  /\ \A i \in 1..Len(data) : data[i] = Browser!Wire(v.sent)[n + i]

LEMMA WireIsSeq ==
  ASSUME NEW r \in Requests
  PROVE  Browser!Wire(r) \in Seq(Units) /\ Len(Browser!Wire(r)) \in Nat
  <1>1. Browser!Wire(r) \in Seq(Units)  BY WireIs, LongIs DEF IsWire
  <1> QED BY <1>1

LEMMA PieceIs ==
  ASSUME NEW v, v.sent \in Requests, NEW n, Behind(v, n), NEW m \in 1..Len(v.unread),
         NEW w, w.sent = v.sent, w.unread = SubSeq(v.unread, m + 1, Len(v.unread))
  PROVE  /\ Piece(w, SubSeq(v.unread, 1, m), n) /\ Len(SubSeq(v.unread, 1, m)) = m
         /\ Behind(w, n + m)
  <1>1. PICK W, u : W = Browser!Wire(v.sent) /\ u = v.unread  OBVIOUS
  <1>2. W \in Seq(Units)  BY <1>1, WireIsSeq
  <1>3. PICK L \in Nat : L = Len(W)  BY <1>2
  <1>4. n \in Nat /\ n <= L /\ u = SubSeq(W, n + 1, L)  BY <1>1, <1>3 DEF Behind
  <1>5. u \in Seq(Units) /\ Len(u) = L - n /\ \A i \in 1..(L - n) : u[i] = W[n + i]
    BY <1>2, <1>3, <1>4
  <1>6. m \in 1..(L - n)  BY <1>1, <1>5
  <1>7. PICK data : data = SubSeq(u, 1, m)  OBVIOUS
  <1>8. data \in Seq(Units) /\ Len(data) = m /\ \A i \in 1..m : data[i] = u[i]
    BY <1>3, <1>4, <1>5, <1>6, <1>7
  <1>9. \A i \in 1..m : data[i] = W[n + i]
    <2>1. \A i \in 1..m : i \in 1..(L - n)  BY <1>3, <1>4, <1>6
    <2> QED BY <1>5, <1>8, <2>1
  <1>10. Piece(w, data, n)
    <2>1. n + m <= L /\ m \in Nat \ {0}  BY <1>3, <1>4, <1>6
    <2> QED BY <1>1, <1>3, <1>8, <1>9, <2>1 DEF Piece
  <1>11. PICK x, y : x = SubSeq(u, m + 1, Len(u)) /\ y = SubSeq(W, n + m + 1, L)  OBVIOUS
  <1>12. x \in Seq(Units) /\ Len(x) = L - n - m /\ \A i \in 1..(L - n - m) : x[i] = u[m + i]
    BY <1>3, <1>4, <1>5, <1>6, <1>11
  <1>13. y \in Seq(Units) /\ Len(y) = L - n - m /\ \A i \in 1..(L - n - m) : y[i] = W[n + m + i]
    BY <1>2, <1>3, <1>4, <1>6, <1>11
  <1>14. ASSUME NEW i \in 1..(L - n - m)
         PROVE  x[i] = y[i]
    <2>1. m + i \in 1..(L - n) /\ n + (m + i) = n + m + i  BY <1>3, <1>4, <1>6
    <2>2. u[m + i] = W[n + (m + i)]  BY <1>5, <2>1
    <2> QED BY <1>12, <1>13, <2>1, <2>2
  <1>15. x = y  BY <1>12, <1>13, <1>14, SeqEqual
  <1>16. Behind(w, n + m)
    <2>1. n + m \in Nat /\ n + m <= L  BY <1>3, <1>4, <1>6
    <2> QED BY <1>1, <1>3, <1>11, <1>15, <2>1 DEF Behind
  <1> QED BY <1>1, <1>7, <1>8, <1>10, <1>16

\* AddHeaderData(): a piece is put into ReqBuf.
PutBuf(v, data, len) ==
  [i \in 1..BufSize |-> IF i \in (v.off + 1)..(v.off + Len(data)) THEN data[i - v.off]
                        ELSE IF i = len + 1 THEN "nul" ELSE v.buf[i]]
Put(v, data, len) == [v EXCEPT !.buf = PutBuf(v, data, len), !.len = len]
Still(w, v) ==
  /\ w.sent = v.sent /\ w.unread = v.unread /\ w.junk = v.junk /\ w.off = v.off
  /\ w.refilled = v.refilled /\ w.inline = v.inline /\ w.overrun = v.overrun
  /\ w.answer = v.answer

LEMMA PutIn ==
  ASSUME NEW v, Form(v), Quiet(v), NEW data, NEW len
  PROVE  /\ Plain(Put(v, data, len), Put(v, data, len)) /\ Still(Put(v, data, len), v)
         /\ Alike(Put(v, data, len), v)
         /\ Put(v, data, len).len = len /\ Put(v, data, len).buf = PutBuf(v, data, len)
  <1>1. PICK buf : buf = PutBuf(v, data, len)  OBVIOUS
  <1>2. PICK w : w = [v EXCEPT !.buf = buf, !.len = len]  OBVIOUS
  <1>3. w = Put(v, data, len)  BY <1>1, <1>2 DEF Put
  <1>4. Form(w)  BY <1>2 DEF Form
  <1>5. Still(w, v) /\ Alike(w, v) /\ w.len = len /\ w.buf = buf
    BY <1>2 DEF Form, Still, Alike
  <1>6. Kept(w, w)  BY DEF Kept
  <1>7. Quiet(w)  BY <1>5 DEF Quiet, Waits, Still, Alike
  <1>8. Plain(w, w)  BY <1>4, <1>6, <1>7 DEF Plain
  <1> QED BY <1>1, <1>3, <1>5, <1>8

\* ReqBuf then.
IsPutBuf(buf, v, off, data, n, len) ==
  /\ buf \in Seq(Units) /\ Len(buf) = BufSize
  /\ \A i \in 1..n : buf[off + i] = data[i]
  /\ \A q \in 1..BufSize : q \notin (off + 1)..(off + n) =>
       buf[q] = IF q = len + 1 THEN "nul" ELSE v.buf[q]

LEMMA PutBufIs ==
  ASSUME NEW v, v.buf \in Seq(Units), Len(v.buf) = BufSize, NEW off \in Nat, off = v.off,
         NEW data \in Seq(Units), NEW n \in Nat, n = Len(data), NEW len \in Nat, len < BufSize,
         off + n <= len, NEW buf, buf = PutBuf(v, data, len)
  PROVE  IsPutBuf(buf, v, off, data, n, len)
  <1>1. BufSize \in Nat  BY Asked
  <1>2. PICK N \in Nat : N = BufSize  BY <1>1
  <1>3. buf = [i \in 1..N |-> IF i \in (off + 1)..(off + n) THEN data[i - off]
                              ELSE IF i = len + 1 THEN "nul" ELSE v.buf[i]]
    BY <1>2 DEF PutBuf
  <1>4. \A q \in 1..N : q \in (off + 1)..(off + n) => q - off \in 1..n  BY <1>2
  <1>5. \A i \in 1..n : data[i] \in Units  OBVIOUS
  <1>6. PICK old : old = v.buf  OBVIOUS
  <1>7. \A i \in 1..N : old[i] \in Units  BY <1>2, <1>6
  <1>8. "nul" \in Units  BY DEF Units
  <1>9. \A q \in 1..N : buf[q] = IF q \in (off + 1)..(off + n) THEN data[q - off]
                                 ELSE IF q = len + 1 THEN "nul" ELSE old[q]
    BY <1>3, <1>6
  <1>10. \A q \in 1..N : buf[q] \in Units  BY <1>4, <1>5, <1>7, <1>8, <1>9
  <1>11. DOMAIN buf = 1..N /\ buf = [q \in 1..N |-> buf[q]]  BY <1>3
  <1>12. buf \in [1..N -> Units]  BY <1>10, <1>11
  <1>13. buf \in Seq(Units) /\ Len(buf) = N  BY <1>2, <1>12
  <1>14. ASSUME NEW i \in 1..n
         PROVE  buf[off + i] = data[i]
    <2>1. off + i \in 1..N /\ off + i \in (off + 1)..(off + n) /\ (off + i) - off = i  BY <1>2
    <2>2. PICK q : q = off + i  OBVIOUS
    <2> QED BY <1>9, <2>1, <2>2
  <1> QED BY <1>2, <1>6, <1>9, <1>13, <1>14 DEF IsPutBuf

\* The header begins.
LEMMA FillsShows ==
  ASSUME NEW v, v.sent \in Requests, v.junk \in Junk, Fills(v), NEW data, Piece(v, data, v.len),
         NEW len, len = v.len + Len(data), len < BufSize, NEW W, W = Browser!Wire(v.sent)
  PROVE  /\ len \in Nat /\ Shown(PutBuf(v, data, len), 1, W, 0, len, v.junk)
         /\ \A q \in (len + 1)..BufSize : PutBuf(v, data, len)[q] \in {v.junk, "nul"}
  <1>1. BufSize \in Nat  BY Asked
  <1>2. PICK off, n \in Nat : off = v.len /\ n = Len(data)  BY DEF Fills, Piece
  <1>3. /\ v.off = off /\ v.buf \in Seq(Units) /\ Len(v.buf) = BufSize
        /\ \A q \in 1..off : v.buf[q] = W[q]
        /\ \A q \in (off + 1)..BufSize : v.buf[q] \in {v.junk, "nul"}
    BY <1>2 DEF Fills
  <1>4. data \in Seq(Units) /\ \A i \in 1..n : data[i] = W[off + i]  BY <1>2 DEF Piece
  <1>5. PICK buf, junk : buf = PutBuf(v, data, len) /\ junk = v.junk  OBVIOUS
  <1>6. len \in Nat /\ len = off + n  BY <1>2
  <1>7. /\ buf \in Seq(Units) /\ Len(buf) = BufSize
        /\ \A i \in 1..n : buf[off + i] = data[i]
        /\ \A q \in 1..BufSize : q \notin (off + 1)..(off + n) =>
             buf[q] = IF q = len + 1 THEN "nul" ELSE v.buf[q]
    <2>1. off + n <= len  BY <1>6
    <2>2. IsPutBuf(buf, v, off, data, n, len)
      BY <1>2, <1>3, <1>4, <1>5, <1>6, <2>1, PutBufIs
    <2> QED BY <2>2 DEF IsPutBuf
  <1>8. ASSUME NEW q \in 1..len
        PROVE  buf[q] = W[0 + q]
    <2>1. CASE q <= off
      <3>1. q \in 1..BufSize /\ q \notin (off + 1)..(off + n) /\ q # len + 1 /\ q \in 1..off
        BY <1>1, <1>6, <2>1
      <3>2. buf[q] = v.buf[q]  BY <1>7, <3>1
      <3>3. v.buf[q] = W[q] /\ 0 + q = q  BY <1>3, <3>1
      <3> QED BY <3>2, <3>3
    <2>2. CASE ~(q <= off)
      <3>1. PICK i : i = q - off  OBVIOUS
      <3>2. i \in 1..n /\ off + i = q  BY <1>6, <2>2, <3>1
      <3>3. buf[off + i] = data[i]  BY <1>7, <3>2
      <3>4. data[i] = W[off + i]  BY <1>4, <3>2
      <3>5. buf[q] = W[q]  BY <3>2, <3>3, <3>4
      <3>6. 0 + q = q  BY <1>6
      <3> QED BY <3>5, <3>6
    <2> QED BY <2>1, <2>2
  <1>9. ASSUME NEW q \in (len + 1)..BufSize
        PROVE  buf[q] \in {junk, "nul"} /\ (q = len + 1 => buf[q] = "nul")
    <2>1. q \in 1..BufSize /\ q \notin (off + 1)..(off + n) /\ q \in (off + 1)..BufSize
      BY <1>1, <1>2, <1>6
    <2> QED BY <1>3, <1>5, <1>7, <2>1
  <1>10. ASSUME NEW q \in (len + 1)..BufSize, buf[q] = "nl"
         PROVE  \E j \in (len + 1)..(q - 1) : buf[j] = "nul"
    <2>1. len + 1 \in (len + 1)..BufSize  BY <1>1, <1>6
    <2>2. buf[len + 1] = "nul"  BY <1>9, <2>1
    <2>3. len + 1 \in (len + 1)..(q - 1)  BY <1>6, <1>10, <2>2
    <2> QED BY <2>2, <2>3
  <1>11. junk # "nl" => \A q \in (len + 1)..BufSize : buf[q] # "nl"  BY <1>9
  <1>12. \A q \in 1..(1 - 1) : FALSE  OBVIOUS
  <1>13. Shown(buf, 1, W, 0, len, junk)  BY <1>7, <1>8, <1>10, <1>11, <1>12 DEF Shown
  <1> QED BY <1>5, <1>6, <1>9, <1>13

\* It goes on.
LEMMA EmptiesShows ==
  ASSUME NEW v, v.sent \in Requests, NEW k, Empties(v, k), NEW data, Piece(v, data, 3 * k),
         NEW len, len = v.len + Len(data), len < BufSize, NEW W, W = Browser!Wire(v.sent)
  PROVE  Len(data) \in Nat /\ Shown(PutBuf(v, data, len), 1, W, 3 * k, Len(data), v.junk)
  <1>1. BufSize \in Nat  BY Asked
  <1>2. PICK b, n \in Nat : b = 3 * k /\ n = Len(data)
    <2>1. k \in Nat  BY DEF Empties
    <2>2. 3 * k \in Nat  BY <2>1
    <2>3. Len(data) \in Nat  BY DEF Piece
    <2> QED BY <2>2, <2>3
  <1>3. /\ v.off = 0 /\ v.len = b /\ v.buf \in Seq(Units) /\ Len(v.buf) = BufSize
        /\ \A q \in 1..BufSize : v.buf[q] # "nl"
    BY <1>2 DEF Empties
  <1>4. data \in Seq(Units) /\ \A i \in 1..n : data[i] = W[b + i]  BY <1>2 DEF Piece
  <1>5. PICK buf, off : buf = PutBuf(v, data, len) /\ off = 0  OBVIOUS
  <1>6. len \in Nat /\ len = b + n /\ off \in Nat /\ off + n <= len  BY <1>2, <1>3, <1>5
  <1>7. /\ buf \in Seq(Units) /\ Len(buf) = BufSize
        /\ \A i \in 1..n : buf[off + i] = data[i]
        /\ \A q \in 1..BufSize : q \notin (off + 1)..(off + n) =>
             buf[q] = IF q = len + 1 THEN "nul" ELSE v.buf[q]
    <2>1. off + n <= len  BY <1>6
    <2>2. IsPutBuf(buf, v, off, data, n, len)
      BY <1>2, <1>3, <1>4, <1>5, <1>6, <2>1, PutBufIs
    <2> QED BY <2>2 DEF IsPutBuf
  <1>8. ASSUME NEW q \in 1..n
        PROVE  buf[q] = W[b + q]
    <2>1. off + q = q  BY <1>5
    <2> QED BY <1>4, <1>7, <2>1
  <1>9. ASSUME NEW q \in (n + 1)..BufSize
        PROVE  buf[q] # "nl"
    <2>1. q \in 1..BufSize /\ q \notin (off + 1)..(off + n)  BY <1>1, <1>2, <1>5
    <2> QED BY <1>3, <1>7, <2>1
  <1>10. \A q \in 1..(1 - 1) : FALSE  OBVIOUS
  <1>11. Shown(buf, 1, W, b, n, v.junk)  BY <1>7, <1>8, <1>9, <1>10 DEF Shown
  <1> QED BY <1>2, <1>5, <1>11

\* A sequence is its beginning and the rest.
LEMMA Thrice ==
  ASSUME NEW S, NEW s \in Seq(S), NEW t \in Seq(S), NEW u \in Seq(S)
  PROVE  (s \o t) \o u = s \o (t \o u)
  OBVIOUS

\* What is behind the first m.
IsMiddle(y, S, s, m, n) ==
  y \in Seq(S) /\ Len(y) = n /\ \A i \in 1..n : y[i] = s[m + i]

LEMMA MiddleIs ==
  ASSUME NEW S, NEW s \in Seq(S), NEW m \in Nat, NEW n \in Nat, m + n <= Len(s)
  PROVE  IsMiddle(SubSeq(s, m + 1, m + n), S, s, m, n)
  <1> PICK y : y = SubSeq(s, m + 1, m + n)  OBVIOUS
  <1>1. PICK a, b \in Int : a = m + 1 /\ b = m + n  OBVIOUS
  <1>2. \A i \in a..b : s[i] \in S
    <2>1. \A i \in a..b : i \in 1..Len(s)  BY <1>1
    <2> QED BY <2>1, ElementOfSeq
  <1>3. /\ y \in Seq(S) /\ Len(y) = IF a <= b THEN b - a + 1 ELSE 0
        /\ \A i \in 1..(b - a + 1) : y[i] = s[a + i - 1]
    <2>1. y = SubSeq(s, a, b)  BY <1>1
    <2>2. SubSeq(s, a, b) \in Seq(S)  BY <1>2, SubSeqProperties
    <2>3. Len(SubSeq(s, a, b)) = IF a <= b THEN b - a + 1 ELSE 0  BY <1>2, SubSeqProperties
    <2>4. \A i \in 1..(b - a + 1) : SubSeq(s, a, b)[i] = s[a + i - 1]  BY <1>2, SubSeqProperties
    <2> QED BY <2>1, <2>2, <2>3, <2>4
  <1>4. Len(y) = n  BY <1>1, <1>3
  <1>5. ASSUME NEW i \in 1..n
        PROVE  y[i] = s[m + i]
    <2>1. i \in 1..(b - a + 1) /\ a + i - 1 = m + i  BY <1>1
    <2> QED BY <1>3, <2>1
  <1> QED BY <1>3, <1>4, <1>5 DEF IsMiddle

Splits(S, s, x, y, m, n) ==
  /\ x \in Seq(S) /\ Len(x) = m /\ \A i \in 1..m : x[i] = s[i]
  /\ y \in Seq(S) /\ Len(y) = n /\ \A i \in 1..n : y[i] = s[m + i]
  /\ x \o y = s

LEMMA Halves ==
  ASSUME NEW S, NEW s \in Seq(S), NEW m \in Nat, NEW n \in Nat, Len(s) = m + n
  PROVE  Splits(S, s, SubSeq(s, 1, m), SubSeq(s, m + 1, Len(s)), m, n)
  <1>1. PICK x, y : x = SubSeq(s, 1, m) /\ y = SubSeq(s, m + 1, m + n)  OBVIOUS
  <1>2. x \in Seq(S)  BY <1>1
  <1>3. Len(x) = m /\ \A i \in 1..m : x[i] = s[i]  BY <1>1
  <1>4. IsMiddle(y, S, s, m, n)
    <2>1. m + n <= Len(s)  OBVIOUS
    <2> QED BY <1>1, <2>1, MiddleIs
  <1>5. y \in Seq(S)  BY <1>4 DEF IsMiddle
  <1>6. Len(y) = n /\ \A i \in 1..n : y[i] = s[m + i]  BY <1>4 DEF IsMiddle
  <1>7. PICK z : z = x \o y  OBVIOUS
  <1>8. z \in Seq(S) /\ Len(z) = Len(x) + Len(y)  BY <1>2, <1>5, <1>7, ConcatProperties, Zenon
  <1>9. Len(z) = m + n  BY <1>3, <1>6, <1>8
  <1>10. ASSUME NEW i \in 1..(m + n)
        PROVE  z[i] = s[i]
    <2>1. i \in 1..Len(x) + Len(y)
      <3>1. Len(x) = m /\ Len(y) = n  BY <1>3, <1>6
      <3> QED BY <3>1
    <2>2. (x \o y)[i] = IF i <= Len(x) THEN x[i] ELSE y[i - Len(x)]
      BY <1>2, <1>5, <2>1, ConcatProperties, Zenon
    <2>3. CASE i <= m
      <3>1. i \in 1..m  BY <2>3
      <3> QED BY <1>3, <1>7, <2>2, <2>3, <3>1
    <2>4. CASE ~(i <= m)
      <3>1. PICK j : j = i - m  OBVIOUS
      <3>2. j \in 1..n /\ m + j = i  BY <2>4, <3>1
      <3>3. y[j] = s[i]  BY <1>6, <3>2
      <3> QED BY <1>3, <1>7, <2>2, <2>4, <3>1, <3>3
    <2> QED BY <2>3, <2>4
  <1>11. z = s
    <2>1. Len(z) = Len(s) /\ \A i \in 1..Len(z) : z[i] = s[i]  BY <1>9, <1>10
    <2> QED BY <1>8, <2>1, SeqEqual
  <1>12. Splits(S, s, x, y, m, n)  BY <1>2, <1>3, <1>5, <1>6, <1>7, <1>11 DEF Splits
  <1> QED BY <1>1, <1>12

\* ParseLines(), behind the lines.
LEMMA TakeBodyAny ==
  ASSUME NEW u, NEW p, Plain(p.v, u)
  PROVE  /\ Plain(Browser!TakeBody(p), u)
         /\ p.v.state # "body" => Browser!TakeBody(p) = p.v
  <1>1. CASE p.v.state = "body"
    <2>1. PICK data : Browser!TakeBody(p) = Browser!AddBodyData(p.v, data)
      BY <1>1 DEF Browser!TakeBody
    <2>2. Waits(p.v)  BY <1>1 DEF Waits
    <2> QED BY <1>1, <2>1, <2>2, AddBodyIs
  <1>2. CASE p.v.state # "body"  BY <1>2 DEF Browser!TakeBody
  <1> QED BY <1>1, <1>2

\* What the body is for a request that comes in one piece.
LEMMA TakeBodyEnds ==
  ASSUME NEW u, u.sent \in Requests, NEW W, IsWire(W, u.sent), NEW e \in Nat, e < BufSize,
         u.len = e, e <= Len(W), u.unread = SubSeq(W, e + 1, Len(W)),
         NEW p, Plain(p.v, u), BodyNext(p, W, 0, e)
  PROVE  \/ Browser!TakeBody(p).state = "closing" /\ Answered(Browser!TakeBody(p))
         \/ Browser!TakeBody(p).state = "body" /\ Lasts(Browser!TakeBody(p))
  <1>1. PICK r, v, st, buf, body, x, rest : /\ r = u.sent /\ v = p.v /\ st = p.start /\ buf = v.buf
                                            /\ body = r.body /\ x = Browser!TakeBody(p)
                                            /\ rest = u.unread
    OBVIOUS
  <1>2. v.sent = r /\ v.unread = rest /\ v.len = e  BY <1>1 DEF Plain, Kept
  <1>3. PICK H, B \in Nat : H = Len(r.headers) /\ B = Len(body)
    <2>1. Len(r.headers) \in Nat /\ Len(r.body) \in Nat  BY <1>1, Asked
    <2> QED BY <1>1, <2>1
  <1>4. /\ v.state = "body" /\ v.method = "POST" /\ r.method = "POST" /\ Browser!Has(r, "length")
        /\ v.auth <=> Browser!Has(r, "auth")
        /\ v.size = B + 1 /\ v.body = <<>>
        /\ st \in 1..(e + 1) /\ 0 + st = 3 * H + 5 /\ Shown(buf, st, W, 0, e, v.junk)
    BY <1>1, <1>2, <1>3 DEF BodyNext
  <1>5. PICK c \in Nat : c = 3 * H + 4
    <2>1. 3 * H + 4 \in Nat  BY <1>3
    <2> QED BY <2>1
  <1>6. st = c + 1 /\ st <= e + 1
    <2>1. 0 + st = c + 1 /\ st \in 1..(e + 1)  BY <1>3, <1>4, <1>5
    <2> QED BY <2>1
  <1>7. W \in Seq(Units) /\ Len(W) = c + B
    BY <1>1, <1>3, <1>5 DEF IsWire
  <1>8. \A i \in 1..B : W[c + i] = body[i]
    BY <1>1, <1>3, <1>5 DEF IsWire
  <1>9. PICK n \in Nat : n = e - c  BY <1>6
  <1>10. n <= B /\ e = c + n
    <2>1. e <= c + B  BY <1>7
    <2> QED BY <1>3, <1>9, <2>1
  <1>11. body \in Seq(STRING)  BY <1>1, Asked
  <1>12. body \in Seq(Units)
    <2>1. STRING \subseteq Units  BY DEF Units
    <2>2. Seq(STRING) \subseteq Seq(Units)  BY <2>1, SeqMonotonic
    <2> QED BY <1>11, <2>2
  <1>13. PICK front, back : front = SubSeq(body, 1, n) /\ back = SubSeq(body, n + 1, B)  OBVIOUS
  <1>14. PICK m \in Nat : m = B - n /\ Len(body) = n + m
    <2>1. B - n \in Nat /\ Len(body) = n + (B - n)  BY <1>3, <1>10
    <2> QED BY <2>1
  <1>15. /\ front \in Seq(Units) /\ Len(front) = n /\ \A i \in 1..n : front[i] = body[i]
         /\ back \in Seq(Units) /\ Len(back) = m /\ \A i \in 1..m : back[i] = body[n + i]
         /\ front \o back = body
    <2>1. Splits(Units, body, front, back, n, m)  BY <1>3, <1>12, <1>13, <1>14, Halves
    <2> QED BY <2>1 DEF Splits
  <1>16. front \in Seq(STRING) /\ back \in Seq(STRING)
    <2>1. Splits(STRING, body, front, back, n, m)  BY <1>3, <1>11, <1>13, <1>14, Halves
    <2> QED BY <2>1 DEF Splits
  <1>17. PICK data : data = SubSeq(buf, st, e)  OBVIOUS
  <1>18. x = Browser!AddBodyData(v, data)
    <2>1. (e - (st - 1) >= v.size) = FALSE  BY <1>3, <1>4, <1>6, <1>10
    <2>2. st + (e - (st - 1)) - 1 = e  BY <1>6
    <2> QED BY <1>1, <1>2, <1>4, <1>17, <2>1, <2>2 DEF Browser!TakeBody
  <1>19. data = front
    <2>1. buf \in Seq(Units) /\ Len(buf) = BufSize /\ BufSize \in Nat  BY <1>4, Asked DEF Shown
    <2>2. data \in Seq(Units) /\ Len(data) = n /\ \A i \in 1..n : data[i] = buf[c + i]
      <3>1. st = c + 1 /\ e = c + n /\ c + n <= Len(buf)  BY <1>6, <1>10, <2>1
      <3>2. data = SubSeq(buf, c + 1, c + n)  BY <1>17, <3>1
      <3>3. IsMiddle(data, Units, buf, c, n)  BY <2>1, <3>1, <3>2, MiddleIs
      <3> QED BY <3>3 DEF IsMiddle
    <2>3. ASSUME NEW i \in 1..n
          PROVE  data[i] = front[i]
      <3>1. PICK q : q = c + i  OBVIOUS
      <3>2. q \in st..e /\ 0 + q = c + i /\ i \in 1..B  BY <1>3, <1>6, <1>10, <3>1
      <3>3. buf[q] = W[0 + q]  BY <1>4, <3>2 DEF Shown
      <3>4. buf[q] = body[i]  BY <1>8, <3>2, <3>3
      <3> QED BY <1>15, <2>2, <3>1, <3>4
    <2> QED BY <1>15, <2>2, <2>3, SeqEqual
  <1>20. rest = back
    <2>1. PICK L \in Nat : L = Len(W)  BY <1>7
    <2>2. rest \in Seq(Units) /\ Len(rest) = L - e /\ \A i \in 1..(L - e) : rest[i] = W[e + i]
      BY <1>1, <1>7, <2>1
    <2>3. L - e = m  BY <1>3, <1>7, <1>10, <1>14, <2>1
    <2>4. ASSUME NEW i \in 1..m
          PROVE  rest[i] = back[i]
      <3>1. n + i \in 1..B /\ e + i = c + (n + i)  BY <1>3, <1>10, <1>14
      <3>2. W[e + i] = body[n + i]  BY <1>8, <3>1
      <3> QED BY <1>15, <2>2, <2>3, <3>2
    <2> QED BY <1>15, <2>2, <2>3, <2>4, SeqEqual
  <1>21. <<>> \o front = front  BY <1>15, ConcatEmptySeq
  <1>22. Plain(x, u) /\ BodyTaken(x, v, front)
    <2>1. Plain(v, u) /\ Waits(v)  BY <1>1, <1>4 DEF Waits
    <2>2. v.body \o data = front  BY <1>4, <1>19, <1>21
    <2> QED BY <1>18, <2>1, <2>2, AddBodyIs
  <1>23. x.sent = r /\ x.unread = rest  BY <1>1, <1>22 DEF Plain, Kept
  <1>24. CASE n = B
    <2>1. front = body  BY <1>3, <1>12, <1>15, <1>24, SeqEqual
    <2>2. Len(front) >= v.size - 1  BY <1>3, <1>4, <1>15, <1>24
    <2>3. /\ x.state = "closing" /\ x.body = Browser!Trimmed(body) /\ x.method = "POST"
          /\ x.answer = <<IF v.auth THEN "page" ELSE "unauthorized">>
      BY <1>4, <1>22, <2>1, <2>2 DEF BodyTaken
    <2>4. Browser!Expected(r) = IF v.auth THEN "page" ELSE "unauthorized"
      BY <1>4 DEF Browser!Expected
    <2> QED BY <1>1, <1>23, <2>3, <2>4 DEF Answered
  <1>25. CASE n # B
    <2>1. ~(Len(front) >= v.size - 1) /\ Len(front) < B  BY <1>3, <1>4, <1>10, <1>15, <1>25
    <2>2. /\ x.state = "body" /\ x.body = front /\ x.method = "POST" /\ x.auth = v.auth
          /\ x.size = B + 1
      BY <1>4, <1>22, <2>1 DEF BodyTaken
    <2>3. /\ x.body \in Seq(STRING) /\ x.unread \in Seq(STRING)
          /\ x.body \o x.unread = body /\ Len(x.body) < Len(body)
      BY <1>3, <1>15, <1>16, <1>20, <1>23, <2>1, <2>2
    <2>4. x.method = "POST" /\ (x.auth <=> Browser!Has(r, "auth")) /\ x.size = Len(body) + 1
      BY <1>3, <1>4, <2>2
    <2>5. Lasts(x)  BY <1>1, <1>4, <1>23, <2>3, <2>4 DEF Lasts
    <2> QED BY <1>1, <2>2, <2>5
  <1> QED BY <1>24, <1>25

\* GotData() with more of the body.
LEMMA MoreBody ==
  ASSUME NEW v, Lasts(v), v.state = "body", v.sent \in Requests,
         NEW n \in 1..Len(v.unread), NEW data, data = SubSeq(v.unread, 1, n),
         NEW w, w.sent = v.sent, w.unread = SubSeq(v.unread, n + 1, Len(v.unread)),
         BodyTaken(w, v, v.body \o data)
  PROVE  \/ w.state = "closing" /\ Answered(w)
         \/ w.state = "body" /\ Lasts(w)
  <1>1. PICK body, old, rest, back : /\ body = v.sent.body /\ old = v.body /\ rest = v.unread
                                     /\ back = w.unread
    OBVIOUS
  <1>2. old \in Seq(STRING) /\ rest \in Seq(STRING) /\ old \o rest = body  BY <1>1 DEF Lasts
  <1>3. n \in Nat /\ n <= Len(rest) /\ n # 0  BY <1>1, <1>2
  <1>4. PICK m \in Nat : Len(rest) = n + m
    <2>1. Len(rest) \in Nat  BY <1>2
    <2>2. PICK l \in Nat : l = Len(rest)  BY <2>1
    <2>3. l - n \in Nat /\ l = n + (l - n)  BY <1>3, <2>2
    <2> QED BY <2>2, <2>3
  <1>5. /\ data \in Seq(STRING) /\ Len(data) = n
        /\ back \in Seq(STRING) /\ Len(back) = Len(rest) - n /\ data \o back = rest
    <2>1. Splits(STRING, rest, data, back, n, m)  BY <1>1, <1>2, <1>3, <1>4, Halves
    <2>2. Len(rest) - n = m  BY <1>3, <1>4
    <2>3. /\ data \in Seq(STRING) /\ Len(data) = n
          /\ back \in Seq(STRING) /\ Len(back) = m /\ data \o back = rest
      BY <2>1 DEF Splits
    <2> QED BY <2>2, <2>3
  <1>6. PICK z : z = old \o data  OBVIOUS
  <1>7. z \in Seq(STRING) /\ Len(z) = Len(old) + n
    <2>1. z \in Seq(STRING) /\ Len(z) = Len(old) + Len(data)
      BY <1>2, <1>5, <1>6, ConcatProperties, Zenon
    <2> QED BY <1>5, <2>1
  <1>8. z \o back = body  
    <2>1. data \in Seq(STRING) /\ back \in Seq(STRING) /\ old \in Seq(STRING)  BY <1>2, <1>5
    <2>2. (old \o data) \o back = old \o (data \o back)  BY <2>1, Thrice
    <2> QED BY <1>2, <1>5, <1>6, <2>2
  <1>9. PICK B \in Nat : B = Len(body)
    <2>1. body \in Seq(STRING)  BY <1>1, Asked
    <2> QED BY <2>1
  <1>10. Len(old) + Len(rest) = B
    <2>1. Len(old \o rest) = Len(old) + Len(rest)  BY <1>2, ConcatProperties, Zenon
    <2> QED BY <1>2, <1>9, <2>1
  <1>11. v.size - 1 = B  BY <1>1, <1>9 DEF Lasts
  <1>12. Len(rest) \in Nat /\ Len(old) \in Nat  BY <1>2
  <1>13. CASE Len(z) >= B
    <2>1. Len(back) = 0  BY <1>3, <1>5, <1>7, <1>9, <1>10, <1>12, <1>13
    <2>2. back = <<>>  BY <1>5, <2>1
    <2>3. z = body
      <3>1. z \o <<>> = z  BY <1>7, ConcatEmptySeq
      <3> QED BY <1>8, <2>2, <3>1
    <2>4. BodyTaken(w, v, body)  BY <1>1, <1>6, <2>3
    <2>5. Len(body) >= v.size - 1  BY <1>9, <1>11
    <2>6. /\ w.state = "closing" /\ w.body = Browser!Trimmed(body) /\ w.method = v.method
          /\ w.answer = <<IF v.auth THEN "page" ELSE "unauthorized">>
      BY <2>4, <2>5 DEF BodyTaken
    <2>7. Browser!Expected(v.sent) = IF v.auth THEN "page" ELSE "unauthorized"
      BY DEF Lasts, Browser!Expected
    <2>8. PICK r : r = v.sent  OBVIOUS
    <2>9. w.sent = r /\ w.answer = <<Browser!Expected(r)>>  BY <2>6, <2>7, <2>8
    <2>10. w.body = Browser!Trimmed(r.body)  BY <1>1, <2>6, <2>8
    <2>11. Answered(w)  BY <2>9, <2>10 DEF Answered
    <2> QED BY <2>6, <2>11
  <1>14. CASE ~(Len(z) >= B)
    <2>1. /\ w.state = "body" /\ w.body = z /\ w.method = v.method /\ w.auth = v.auth
          /\ w.size = v.size
      BY <1>1, <1>6, <1>11, <1>14 DEF BodyTaken
    <2>2. Len(z) < B  BY <1>7, <1>9, <1>12, <1>14
    <2> QED BY <1>1, <1>5, <1>7, <1>8, <1>9, <2>1, <2>2 DEF Lasts
  <1> QED BY <1>13, <1>14

\* A piece of the header is in ReqBuf.
Comes(w, W, b, e, k) ==
  /\ W = Browser!Wire(w.sent) /\ k \in Nat /\ b \in Nat /\ b = 3 * k
  /\ e \in Nat /\ e # 0 /\ e < BufSize /\ w.len = b + e /\ Behind(w, b + e)
  /\ Begins(w, W, b, e, k) /\ (w.refilled <=> k # 0)

\* What is there before it comes.
Before(v, data) ==
  IF v.refilled
  THEN \E k : Empties(v, k) /\ Piece(v, data, 3 * k) /\ Behind(v, 3 * k + Len(data))
  ELSE Fills(v) /\ Piece(v, data, v.len) /\ Behind(v, v.len + Len(data))

LEMMA Begun ==
  ASSUME NEW w, w.state = "header", NEW k \in Nat, Taken(w, k), NEW b \in Nat, b = 3 * k,
         NEW e \in Nat, NEW W, Shown(w.buf, 1, W, b, e, w.junk)
  PROVE  Begins(w, W, b, e, k)
  <1>1. PICK p : p = [v |-> w, start |-> 1]  OBVIOUS
  <1>2. p.v = w /\ p.start = 1  BY <1>1
  <1>3. 1 \in 1..(e + 1) /\ b + 1 = 3 * k + 1  OBVIOUS
  <1>4. On(p, k, W, b, e)  BY <1>2, <1>3 DEF On
  <1> QED BY <1>1, <1>4 DEF Begins

LEMMA TakenSo ==
  ASSUME NEW v, NEW w, Alike(w, v), w.sent = v.sent, NEW k, Taken(v, k)
  PROVE  Taken(w, k)
  BY DEF Alike, Taken

LEMMA FillsComes ==
  ASSUME NEW v, Form(v), Quiet(v), v.state = "header", ~v.refilled,
         v.sent \in Requests, v.junk \in Junk, NEW data, Before(v, data),
         NEW len, len = v.len + Len(data), len < BufSize, NEW w, w = Put(v, data, len)
  PROVE  /\ Comes(w, Browser!Wire(v.sent), 0, len, 0) /\ len \in Nat
         /\ Browser!Last(data) = Browser!Wire(v.sent)[0 + len] /\ data # <<>>
         /\ \A q \in 1..len : w.buf[q] = Browser!Wire(v.sent)[q]
         /\ \A q \in (len + 1)..BufSize : w.buf[q] \in {v.junk, "nul"}
         /\ w.buf \in Seq(Units) /\ Len(w.buf) = BufSize
  <1>1. Fills(v) /\ Piece(v, data, v.len) /\ Behind(v, v.len + Len(data))  BY DEF Before
  <1>2. PICK W, buf : W = Browser!Wire(v.sent) /\ buf = PutBuf(v, data, len)  OBVIOUS
  <1>3. /\ len \in Nat /\ Shown(buf, 1, W, 0, len, v.junk)
        /\ \A q \in (len + 1)..BufSize : buf[q] \in {v.junk, "nul"}
    BY <1>1, <1>2, FillsShows
  <1>4. /\ Still(w, v) /\ Alike(w, v) /\ w.len = len /\ w.buf = buf  BY <1>2, PutIn
  <1>5. w.sent = v.sent /\ w.junk = v.junk /\ w.unread = v.unread /\ ~w.refilled
        /\ w.state = "header"
    BY <1>4 DEF Still, Alike
  <1>6. PICK m, n \in Nat : m = v.len /\ n = Len(data) /\ n # 0  BY <1>1 DEF Fills, Piece
  <1>7. len = m + n /\ len # 0 /\ 0 + len = len  BY <1>3, <1>6
  <1>8. Taken(w, 0)  BY <1>1, <1>4, <1>5, TakenSo DEF Fills
  <1>9. PICK b, k \in Nat : b = 0 /\ k = 0  OBVIOUS
  <1>10. Begins(w, W, b, len, k)
    <2>1. b = 3 * k  BY <1>9
    <2> QED BY <1>3, <1>4, <1>5, <1>8, <1>9, <2>1, Begun
  <1>11. Behind(w, 0 + len)  BY <1>1, <1>5, <1>6, <1>7 DEF Behind
  <1>12. Comes(w, W, 0, len, 0)
    <2>1. 0 = 3 * 0 /\ 0 \in Nat  OBVIOUS
    <2> QED BY <1>2, <1>3, <1>4, <1>5, <1>7, <1>9, <1>10, <1>11, <2>1 DEF Comes
  <1>13. Browser!Last(data) = W[0 + len] /\ data # <<>>
    <2>1. n \in 1..n  BY <1>6
    <2>2. data[n] = W[m + n] /\ data \in Seq(Units)  BY <1>1, <1>2, <1>6, <2>1 DEF Piece
    <2>3. data # <<>>  BY <1>6, <2>2
    <2> QED BY <1>6, <1>7, <2>2, <2>3 DEF Browser!Last
  <1>14. \A q \in 1..len : buf[q] = W[q]
    <2>1. ASSUME NEW q \in 1..len  PROVE buf[q] = W[q]
      <3>1. buf[q] = W[0 + q]  BY <1>3 DEF Shown
      <3>2. 0 + q = q  BY <1>3
      <3> QED BY <3>1, <3>2
    <2> QED BY <2>1
  <1>15. buf \in Seq(Units) /\ Len(buf) = BufSize  BY <1>3 DEF Shown
  <1> QED BY <1>2, <1>3, <1>4, <1>12, <1>13, <1>14, <1>15

LEMMA EmptiesComes ==
  ASSUME NEW v, Form(v), Quiet(v), v.state = "header", v.refilled,
         v.sent \in Requests, NEW data, Before(v, data),
         NEW len, len = v.len + Len(data), len < BufSize, NEW w, w = Put(v, data, len)
  PROVE  \E k, b, e : /\ Comes(w, Browser!Wire(v.sent), b, e, k)
                      /\ Browser!Last(data) = Browser!Wire(v.sent)[b + e] /\ data # <<>>
  <1>1. PICK k : Empties(v, k) /\ Piece(v, data, 3 * k) /\ Behind(v, 3 * k + Len(data))
    BY DEF Before
  <1>2. PICK W, buf : W = Browser!Wire(v.sent) /\ buf = PutBuf(v, data, len)  OBVIOUS
  <1>3. Len(data) \in Nat /\ Shown(buf, 1, W, 3 * k, Len(data), v.junk)
    BY <1>1, <1>2, EmptiesShows
  <1>4. /\ Still(w, v) /\ Alike(w, v) /\ w.len = len /\ w.buf = buf  BY <1>2, PutIn
  <1>5. w.sent = v.sent /\ w.junk = v.junk /\ w.unread = v.unread /\ w.refilled
        /\ w.state = "header"
    BY <1>4 DEF Still, Alike
  <1>6. k \in Nat /\ k # 0 /\ Taken(v, k) /\ v.len = 3 * k  BY <1>1 DEF Empties
  <1>7. PICK b, e \in Nat : b = 3 * k /\ e = Len(data)
    <2>1. 3 * k \in Nat  BY <1>6
    <2> QED BY <1>3, <2>1
  <1>8. e # 0  BY <1>1, <1>7 DEF Piece
  <1>9. len = b + e /\ e < BufSize
    <2>1. len = b + e  BY <1>6, <1>7
    <2>2. BufSize \in Nat  BY Asked
    <2> QED BY <2>1, <2>2
  <1>10. Taken(w, k)  BY <1>4, <1>5, <1>6, TakenSo
  <1>11. Begins(w, W, b, e, k)  BY <1>3, <1>4, <1>5, <1>6, <1>7, <1>10, Begun
  <1>12. Behind(w, b + e)  BY <1>1, <1>5, <1>7 DEF Behind
  <1>13. Comes(w, W, b, e, k)
    BY <1>2, <1>4, <1>5, <1>6, <1>7, <1>8, <1>9, <1>11, <1>12 DEF Comes
  <1>14. Browser!Last(data) = W[b + e] /\ data # <<>>
    <2>1. e \in 1..e  BY <1>8
    <2>2. data[e] = W[b + e] /\ data \in Seq(Units)  BY <1>1, <1>2, <1>7, <2>1 DEF Piece
    <2>3. data # <<>>  BY <1>7, <1>8, <2>2
    <2> QED BY <1>7, <2>2, <2>3 DEF Browser!Last
  <1> QED BY <1>2, <1>13, <1>14

\* All that has come was lines.
Emptied(v, k) ==
  /\ k \in Nat /\ k # 0 /\ Taken(v, k) /\ v.len = 3 * k /\ Behind(v, 3 * k)
  /\ v.buf \in Seq(Units) /\ Len(v.buf) = BufSize
  /\ \A q \in 1..BufSize : v.buf[q] # "nl"

LEMMA HaltsEmptied ==
  ASSUME NEW w, w.sent \in Requests, w.sent.method # "long", NEW W, NEW b, NEW e, NEW k,
         Comes(w, W, b, e, k), w.junk # "nl", W[b + e] = "nl",
         NEW p, Plain(p.v, w), NEW n \in Nat, Halts(p, n, W, b, e)
  PROVE  Emptied(p.v, n)
  <1>1. PICK r, v, st : r = w.sent /\ v = p.v /\ st = p.start  OBVIOUS
  <1>2. v.sent = r /\ v.junk = w.junk /\ v.len = w.len /\ v.unread = w.unread
    BY <1>1 DEF Plain, Kept
  <1>3. /\ W = Browser!Wire(r) /\ b \in Nat /\ e \in Nat /\ e # 0 /\ e < BufSize
        /\ w.len = b + e /\ Behind(w, b + e)
    BY <1>1 DEF Comes
  <1>4. IsWire(W, r)  BY <1>1, <1>3, WireIs
  <1>5. /\ Taken(v, n) /\ st \in 1..(e + 1) /\ b + st = 3 * n + 1
        /\ Shown(v.buf, st, W, b, e, v.junk)
    BY <1>1 DEF Halts, On
  <1>6. PICK H \in Nat : H = Len(r.headers)
    <2>1. Len(r.headers) \in Nat  BY <1>1, Asked
    <2> QED BY <2>1
  <1>7. IF n <= H THEN st + 2 > e ELSE st = e + 1  BY <1>1, <1>2, <1>6 DEF Halts
  <1>8. n \in 0..(H + 1)  BY <1>2, <1>5, <1>6 DEF Taken
  <1>9. b + e = 3 * n
    <2>1. CASE n <= H
      <3>1. \E t : Three(W, 3 * n, t) /\ t # "nl"
        <4>1. CASE n = 0
          <5>1. Three(W, 3 * n, r.method)  BY <1>4, <4>1 DEF IsWire
          <5>2. r.method # "nl"  BY <1>1, Asked
          <5> QED BY <5>1, <5>2
        <4>2. CASE n # 0
          <5>1. n \in 1..H  BY <2>1, <4>2
          <5>2. Three(W, 3 * n, r.headers[n])  BY <1>4, <1>6, <5>1 DEF IsWire
          <5>3. r.headers \in Seq(Headers)  BY <1>1, Asked
          <5>4. r.headers[n] \in Headers  BY <1>6, <5>1, <5>3, ElementOfSeq
          <5> QED BY <5>2, <5>4 DEF Headers
        <4> QED BY <4>1, <4>2
      <3>2. W[3 * n + 1] # "nl" /\ W[3 * n + 2] # "nl"  BY <3>1 DEF Three
      <3>3. b + e = 3 * n \/ b + e = 3 * n + 1 \/ b + e = 3 * n + 2
        <4>1. st + 2 > e /\ st <= e + 1 /\ st \in Nat  BY <1>3, <1>5, <1>7, <2>1
        <4>2. PICK m \in Nat : m = 3 * n  OBVIOUS
        <4>3. b + st = m + 1  BY <1>5, <4>2
        <4>4. b + e = m \/ b + e = m + 1 \/ b + e = m + 2  BY <1>3, <4>1, <4>3
        <4> QED BY <4>2, <4>4
      <3> QED BY <3>2, <3>3
    <2>2. CASE ~(n <= H)
      <3>1. st = e + 1  BY <1>7, <2>2
      <3> QED BY <1>3, <1>5, <3>1
    <2> QED BY <2>1, <2>2
  <1>10. st = e + 1 /\ n # 0
    <2>1. PICK m \in Nat : m = 3 * n  OBVIOUS
    <2>2. b + st = m + 1 /\ b + e = m /\ st \in Nat  BY <1>5, <1>9, <2>1
    <2>3. m # 0  BY <1>3, <2>2
    <2> QED BY <1>3, <2>1, <2>2, <2>3
  <1>11. v.buf \in Seq(Units) /\ Len(v.buf) = BufSize  BY <1>5 DEF Shown
  <1>12. ASSUME NEW q \in 1..BufSize
         PROVE  v.buf[q] # "nl"
    <2>1. BufSize \in Nat  BY Asked
    <2>2. q \in 1..(st - 1) \/ q \in (e + 1)..BufSize  BY <1>3, <1>10, <2>1
    <2>3. v.junk # "nl"  BY <1>2
    <2> QED BY <1>5, <2>2, <2>3 DEF Shown
  <1>13. Behind(v, 3 * n) /\ v.len = 3 * n  BY <1>1, <1>2, <1>3, <1>9 DEF Behind
  <1> QED BY <1>1, <1>5, <1>10, <1>11, <1>12, <1>13 DEF Emptied

\* ParseLines() with a piece of the header.
Parsed(q, w, last) ==
  \/ q.state = "closing" /\ Answered(q)
  \/ q.state = "body" /\ Lasts(q)
  \/ w.refilled /\ Browser!Has(w.sent, "length")
  \/ q.state = "header" /\ (w.junk # "nl" /\ last = "nl" => \E n : Emptied(q, n))

LEMMA ParsedSo ==
  ASSUME NEW w, Plain(w, w), w.sent \in Requests, w.sent.method # "long",
         NEW W, NEW b, NEW e, NEW k, Comes(w, W, b, e, k), NEW q, q = Browser!ParseLines(w)
  PROVE  Plain(q, w) /\ Parsed(q, w, W[b + e])
  <1>1. PICK p : /\ Browser!ParseLines(w) = Browser!TakeBody(p) /\ Plain(p.v, w)
                 /\ \A V, a, d, j :
                      /\ w.sent \in Requests /\ w.sent.method # "long" /\ IsWire(V, w.sent)
                      /\ a \in Nat /\ d \in Nat /\ d < BufSize /\ j \in Nat
                      /\ Begins(w, V, a, d, j)
                      => Settled(p, V, a, d)
    BY ParseLinesIs
  <1>2. /\ W = Browser!Wire(w.sent) /\ k \in Nat /\ b \in Nat /\ b = 3 * k
        /\ e \in Nat /\ e # 0 /\ e < BufSize /\ w.len = b + e /\ Behind(w, b + e)
        /\ Begins(w, W, b, e, k) /\ (w.refilled <=> k # 0)
    BY DEF Comes
  <1>3. IsWire(W, w.sent)  BY <1>2, WireIs
  <1>4. Settled(p, W, b, e)  BY <1>1, <1>2, <1>3
  <1>5. Plain(q, w) /\ (p.v.state # "body" => q = p.v)  BY <1>1, TakeBodyAny
  <1>6. CASE p.v.state = "closing" /\ Answered(p.v)
    <2>1. q = p.v  BY <1>5, <1>6
    <2> QED BY <1>5, <1>6, <2>1 DEF Parsed
  <1>7. CASE BodyNext(p, W, b, e) /\ k = 0
    <2>1. BodyNext(p, W, 0, e) /\ w.len = e  BY <1>2, <1>7
    <2>2. e <= Len(W) /\ w.unread = SubSeq(W, e + 1, Len(W))
      <3>1. b + e = e  BY <1>2, <1>7
      <3> QED BY <1>2, <3>1 DEF Behind
    <2>3. \/ q.state = "closing" /\ Answered(q)
          \/ q.state = "body" /\ Lasts(q)
      BY <1>1, <1>2, <1>3, <2>1, <2>2, TakeBodyEnds
    <2> QED BY <1>5, <2>3 DEF Parsed
  <1>8. CASE BodyNext(p, W, b, e) /\ k # 0
    <2>1. p.v.sent = w.sent  BY <1>1 DEF Plain, Kept
    <2>2. w.refilled /\ Browser!Has(w.sent, "length")  BY <1>2, <1>8, <2>1 DEF BodyNext
    <2> QED BY <1>5, <2>2 DEF Parsed
  <1>9. CASE \E n \in Nat : Halts(p, n, W, b, e)
    <2>1. PICK n \in Nat : Halts(p, n, W, b, e)  BY <1>9
    <2>2. p.v.state = "header"  BY <2>1 DEF Halts, On
    <2>3. q = p.v  BY <1>5, <2>2
    <2>4. w.junk # "nl" /\ W[b + e] = "nl" => Emptied(p.v, n)  BY <1>1, <2>1, HaltsEmptied
    <2> QED BY <1>5, <2>2, <2>3, <2>4 DEF Parsed
  <1> QED BY <1>4, <1>6, <1>7, <1>8, <1>9 DEF Settled, Ends

\* A line that is too long has no end in ReqBuf,
LEMMA LongWaits ==
  ASSUME NEW w, w.sent \in Requests, w.sent.method = "long",
         NEW W, NEW b, NEW e, NEW k, Comes(w, W, b, e, k)
  PROVE  ~w.refilled /\ Browser!NextLine(w.buf, 1) = 0 /\ NoEnd(W, 0, 1, e)
  <1>1. PICK p : p = [v |-> w, start |-> 1]  OBVIOUS
  <1>2. p.v = w /\ p.start = 1  BY <1>1
  <1>3. /\ W = Browser!Wire(w.sent) /\ k \in Nat /\ b \in Nat /\ b = 3 * k
        /\ e \in Nat /\ e # 0 /\ e < BufSize /\ (w.refilled <=> k # 0)
    BY DEF Comes
  <1>4. On(p, k, W, b, e)  BY <1>1 DEF Comes, Begins
  <1>5. Taken(w, k) /\ Shown(w.buf, 1, W, b, e, w.junk)  BY <1>2, <1>4 DEF On
  <1>6. k = 0  BY <1>5 DEF Taken
  <1>7. b = 0  BY <1>3, <1>6
  <1>8. NoEnd(W, b, 1, e)
    <2>1. BufSize \in Nat  BY Asked
    <2>2. ASSUME NEW q \in 1..e
          PROVE  W[b + q] # "nl"
      <3>1. q \in 1..BufSize /\ b + q = q  BY <1>3, <1>7, <2>1
      <3>2. W[q] = "long"  BY <1>3, <3>1, LongIs
      <3> QED BY <3>1, <3>2
    <2> QED BY <2>2 DEF NoEnd
  <1>9. Browser!NextLine(w.buf, 1) = 0
    <2>1. 1 \in Nat /\ 1 # 0 /\ 1 <= e + 1  BY <1>3
    <2> QED BY <1>3, <1>5, <1>8, <2>1, NoneAt
  <1> QED BY <1>3, <1>6, <1>7, <1>8, <1>9

\* and one that is not has, when it has come.
LEMMA ShortWaits ==
  ASSUME NEW w, w.sent \in Requests, w.sent.method # "long",
         NEW W, NEW e, Comes(w, W, 0, e, 0), Browser!NextLine(w.buf, 1) = 0
  PROVE  e < 3 /\ NoEnd(W, 0, 1, e)
  <1>1. PICK p : p = [v |-> w, start |-> 1]  OBVIOUS
  <1>2. p.v = w /\ p.start = 1  BY <1>1
  <1>3. W = Browser!Wire(w.sent) /\ e \in Nat /\ e < BufSize
    BY DEF Comes
  <1>4. On(p, 0, W, 0, e)  BY <1>1 DEF Comes, Begins
  <1>5. PICK buf, junk, t : buf = w.buf /\ junk = w.junk /\ t = w.sent.method  OBVIOUS
  <1>6. Shown(buf, 1, W, 0, e, junk)  BY <1>2, <1>4, <1>5 DEF On
  <1>7. Three(W, 0, t) /\ t \notin {"long", "nl", "nul"}
    <2>1. IsWire(W, w.sent)  BY <1>3, WireIs
    <2> QED BY <1>5, <2>1, Asked DEF IsWire
  <1>8. e < 3
    <2>1. SUFFICES ASSUME 3 <= e  PROVE FALSE  BY <1>3
    <2>2. PICK b, a, st, n \in Nat : b = 0 /\ a = 0 /\ st = 1 /\ n = 3  OBVIOUS
    <2>3. n = st + 2 /\ n <= e /\ b + st = a + 1 /\ st # 0  BY <2>1, <2>2
    <2>4. Found(buf, st, n, Browser!Text(t), W, b, e, junk)
      BY <1>3, <1>6, <1>7, <2>2, <2>3, LineAt
    <2> QED BY <1>5, <2>2, <2>4 DEF Found
  <1>9. ASSUME NEW q \in 1..e
        PROVE  W[0 + q] # "nl"
    <2>1. 0 + q = 0 + 1 \/ 0 + q = 0 + 2  BY <1>3, <1>8
    <2>2. W[0 + 1] = t /\ W[0 + 2] = t  BY <1>7 DEF Three
    <2> QED BY <1>7, <2>1, <2>2
  <1> QED BY <1>8, <1>9 DEF NoEnd

\* AddHeaderData()
Overrun(w) == [w EXCEPT !.overrun = TRUE, !.state = "closing"]
Again(q, data) ==
  [q EXCEPT !.off = 0, !.refilled = TRUE,
            !.inline = q.inline \/ (data # <<>> /\ Browser!Last(data) # "nl")]
InPieces(w, v) == [w EXCEPT !.inline = w.inline \/ v.refilled]
Fuller(w, v, len) == [InPieces(w, v) EXCEPT !.off = len]

Added(v, data, len) ==
  IF len >= BufSize THEN Overrun(Put(v, data, len))
  ELSE IF Browser!NextLine(PutBuf(v, data, len), 1) > 0
  THEN IF Browser!ParseLines(Put(v, data, len)).state = "header"
       THEN Again(Browser!ParseLines(Put(v, data, len)), data)
       ELSE Browser!ParseLines(Put(v, data, len))
  ELSE IF len < BufSize - 1 THEN Fuller(Put(v, data, len), v, len)
  ELSE Browser!SendError(InPieces(Put(v, data, len), v), "bad request")

Adds(x, v, data, len, w, q) ==
  IF len >= BufSize THEN x = Overrun(w)
  ELSE IF Browser!NextLine(w.buf, 1) > 0
  THEN IF q.state = "header" THEN x = Again(q, data) ELSE x = q
  ELSE IF len < BufSize - 1 THEN x = Fuller(w, v, len)
  ELSE x = Browser!SendError(InPieces(w, v), "bad request")

LEMMA AddHeaderIs ==
  ASSUME NEW v, Form(v), Quiet(v), NEW data, NEW len, len = v.len + Len(data)
  PROVE  Adds(Browser!AddHeaderData(v, data), v, data, len, Put(v, data, len),
              Browser!ParseLines(Put(v, data, len)))
  <1>1. Browser!AddHeaderData(v, data) = Added(v, data, v.len + Len(data))
    BY DEF Browser!AddHeaderData, Added, Put, PutBuf, Overrun, Again, InPieces, Fuller
  <1>2. PICK w, q, x, buf : /\ w = Put(v, data, len) /\ q = Browser!ParseLines(w)
                            /\ x = Browser!AddHeaderData(v, data) /\ buf = PutBuf(v, data, len)
    OBVIOUS
  <1>3. w.buf = buf  BY <1>2, PutIn
  <1>4. x = Added(v, data, len)  BY <1>1, <1>2
  <1>5. x = IF len >= BufSize THEN Overrun(w)
            ELSE IF Browser!NextLine(buf, 1) > 0
            THEN IF q.state = "header" THEN Again(q, data) ELSE q
            ELSE IF len < BufSize - 1 THEN Fuller(w, v, len)
            ELSE Browser!SendError(InPieces(w, v), "bad request")
    BY <1>2, <1>4 DEF Added
  <1> QED BY <1>2, <1>3, <1>5 DEF Adds

LEMMA OverrunIs ==
  ASSUME NEW u, NEW w, Plain(w, u), w.state = "header", NEW x, x = Overrun(w)
  PROVE  /\ Form(x) /\ Quiet(x) /\ x.sent = u.sent /\ x.junk = u.junk
         /\ x.refilled = u.refilled /\ x.overrun
  <1>1. Form(w) /\ Kept(w, u) /\ Quiet(w)  BY DEF Plain
  <1>2. Form(x)  BY <1>1 DEF Form, Overrun
  <1>3. /\ x.sent = w.sent /\ x.junk = w.junk /\ x.refilled = w.refilled /\ x.overrun
        /\ x.state = "closing" /\ x.answer = w.answer
    BY <1>1 DEF Form, Overrun
  <1>4. Quiet(x)
    <2>1. w.answer = <<>>  BY <1>1 DEF Quiet, Waits
    <2>2. Len(<<>>) <= 1  OBVIOUS
    <2> QED BY <1>3, <2>1, <2>2 DEF Quiet, Waits
  <1> QED BY <1>1, <1>2, <1>3, <1>4 DEF Kept

LEMMA AgainIs ==
  ASSUME NEW u, NEW q, Plain(q, u), q.state = "header", NEW data, NEW x, x = Again(q, data)
  PROVE  /\ Form(x) /\ Quiet(x) /\ Alike(x, q) /\ x.off = 0 /\ x.refilled /\ x.buf = q.buf
         /\ x.sent = u.sent /\ x.junk = u.junk /\ x.len = u.len /\ x.unread = u.unread
         /\ x.overrun = u.overrun
         /\ x.inline <=> u.inline \/ (data # <<>> /\ Browser!Last(data) # "nl")
  <1>1. Form(q) /\ Kept(q, u) /\ Quiet(q)  BY DEF Plain
  <1>2. PICK i : i = (q.inline \/ (data # <<>> /\ Browser!Last(data) # "nl"))  OBVIOUS
  <1>3. x = [q EXCEPT !.off = 0, !.refilled = TRUE, !.inline = i]  BY <1>2 DEF Again
  <1>4. Form(x)  BY <1>1, <1>3 DEF Form
  <1>5. /\ Alike(x, q) /\ x.off = 0 /\ x.refilled /\ x.buf = q.buf /\ x.inline = i
        /\ x.sent = q.sent /\ x.junk = q.junk /\ x.len = q.len /\ x.unread = q.unread
        /\ x.overrun = q.overrun /\ x.answer = q.answer
    BY <1>1, <1>3 DEF Form, Alike
  <1>6. Quiet(x)  BY <1>1, <1>5 DEF Quiet, Waits, Alike
  <1> QED BY <1>1, <1>2, <1>4, <1>5, <1>6 DEF Kept

LEMMA InPiecesIs ==
  ASSUME NEW v, NEW u, NEW w, Plain(w, u), NEW x, x = InPieces(w, v)
  PROVE  /\ Form(x) /\ Quiet(x) /\ Alike(x, w) /\ x.buf = w.buf /\ x.off = u.off
         /\ x.sent = u.sent /\ x.junk = u.junk /\ x.len = u.len /\ x.unread = u.unread
         /\ x.overrun = u.overrun /\ x.refilled = u.refilled
         /\ x.inline <=> u.inline \/ v.refilled
         /\ Plain(x, x)
  <1>1. Form(w) /\ Kept(w, u) /\ Quiet(w)  BY DEF Plain
  <1>2. PICK i : i = (w.inline \/ v.refilled)  OBVIOUS
  <1>3. x = [w EXCEPT !.inline = i]  BY <1>2 DEF InPieces
  <1>4. Form(x)  BY <1>1, <1>3 DEF Form
  <1>5. /\ Alike(x, w) /\ x.buf = w.buf /\ x.inline = i /\ x.off = w.off
        /\ x.sent = w.sent /\ x.junk = w.junk /\ x.len = w.len /\ x.unread = w.unread
        /\ x.overrun = w.overrun /\ x.answer = w.answer /\ x.refilled = w.refilled
    BY <1>1, <1>3 DEF Form, Alike
  <1>6. Quiet(x)  BY <1>1, <1>5 DEF Quiet, Waits, Alike
  <1>7. Plain(x, x)  BY <1>4, <1>6 DEF Plain, Kept
  <1> QED BY <1>1, <1>2, <1>4, <1>5, <1>6, <1>7 DEF Kept

LEMMA FullerIs ==
  ASSUME NEW v, NEW u, NEW w, Plain(w, u), NEW len, NEW x, x = Fuller(w, v, len)
  PROVE  /\ Form(x) /\ Quiet(x) /\ Alike(x, w) /\ x.buf = w.buf /\ x.off = len
         /\ x.sent = u.sent /\ x.junk = u.junk /\ x.len = u.len /\ x.unread = u.unread
         /\ x.overrun = u.overrun /\ x.refilled = u.refilled
         /\ x.inline <=> u.inline \/ v.refilled
  <1>1. PICK y : y = InPieces(w, v)  OBVIOUS
  <1>2. /\ Form(y) /\ Quiet(y) /\ Alike(y, w) /\ y.buf = w.buf
        /\ y.sent = u.sent /\ y.junk = u.junk /\ y.len = u.len /\ y.unread = u.unread
        /\ y.overrun = u.overrun /\ y.refilled = u.refilled
        /\ y.inline <=> u.inline \/ v.refilled
    BY <1>1, InPiecesIs
  <1>3. x = [y EXCEPT !.off = len]  BY <1>1 DEF Fuller
  <1>4. Form(x)  BY <1>2, <1>3 DEF Form
  <1>5. /\ Alike(x, y) /\ x.buf = y.buf /\ x.inline = y.inline /\ x.off = len
        /\ x.sent = y.sent /\ x.junk = y.junk /\ x.len = y.len /\ x.unread = y.unread
        /\ x.overrun = y.overrun /\ x.answer = y.answer /\ x.refilled = y.refilled
    BY <1>2, <1>3 DEF Form, Alike
  <1>6. Quiet(x)  BY <1>2, <1>5 DEF Quiet, Waits, Alike
  <1> QED BY <1>2, <1>4, <1>5, <1>6 DEF Alike

LEMMA NoLineIs ==
  ASSUME NEW buf, NEW st, ~(Browser!NextLine(buf, st) > 0)
  PROVE  Browser!NextLine(buf, st) = 0
  BY DEF Browser!NextLine

\* A browser whose answer is "bad request".
LEMMA BadIs ==
  ASSUME NEW x, NEW code, code = "bad request", x.sent.method = "long", x.method = "none",
         x.answer = <<code>>
  PROVE  Answered(x)
  <1>1. Browser!Expected(x.sent) = "bad request"  BY Zenon DEF Browser!Expected
  <1>2. PICK c : c = Browser!Expected(x.sent)  OBVIOUS
  <1>3. c = code  BY <1>1, <1>2, Zenon
  <1>4. x.answer = <<c>>  BY <1>3
  <1>5. x.method # "POST"  OBVIOUS
  <1> QED BY <1>2, <1>4, <1>5 DEF Answered

\* GotData() with more of the header, when there is no whole line.
LEMMA NotYet ==
  ASSUME NEW v, Form(v), Quiet(v), v.state = "header", ~v.refilled,
         v.sent \in Requests, v.junk \in Junk, NEW data, Before(v, data),
         NEW len, len = v.len + Len(data), len < BufSize, NEW w, w = Put(v, data, len),
         Browser!NextLine(w.buf, 1) = 0
  PROVE  /\ len \in Nat /\ NoEnd(Browser!Wire(v.sent), 0, 1, len) /\ Behind(w, len)
         /\ \A x : /\ x.sent = v.sent /\ x.junk = v.junk /\ x.off = len /\ x.len = len
                   /\ x.buf = w.buf /\ Alike(x, w)
                   => Fills(x)
         /\ v.sent.method = "long" \/ len < 3
         /\ w.method = "none"
  <1>1. PICK W : W = Browser!Wire(v.sent)  OBVIOUS
  <1>2. /\ Comes(w, W, 0, len, 0) /\ len \in Nat
        /\ \A q \in 1..len : w.buf[q] = W[q]
        /\ \A q \in (len + 1)..BufSize : w.buf[q] \in {v.junk, "nul"}
        /\ w.buf \in Seq(Units) /\ Len(w.buf) = BufSize
    BY <1>1, FillsComes
  <1>3. w.sent = v.sent /\ Alike(w, v)  BY PutIn DEF Still
  <1>4. NoEnd(W, 0, 1, len) /\ (v.sent.method = "long" \/ len < 3)
    <2>1. CASE v.sent.method = "long"  BY <1>2, <1>3, <2>1, LongWaits
    <2>2. CASE v.sent.method # "long"  BY <1>2, <1>3, <2>2, ShortWaits
    <2> QED BY <2>1, <2>2
  <1>5. Behind(w, len)
    <2>1. Behind(w, 0 + len)  BY <1>2 DEF Comes
    <2>2. 0 + len = len  BY <1>2
    <2> QED BY <2>1, <2>2
  <1>6. Taken(v, 0)  BY DEF Before, Fills
  <1>7. ASSUME NEW x, x.sent = v.sent, x.junk = v.junk, x.off = len, x.len = len,
               x.buf = w.buf, Alike(x, w)
        PROVE  Fills(x)
    <2>1. Alike(x, v)  BY <1>3, <1>7 DEF Alike
    <2>2. Taken(x, 0)  BY <1>6, <1>7, <2>1, TakenSo
    <2> QED BY <1>1, <1>2, <1>7, <2>2 DEF Fills
  <1>8. w.method = "none"  BY <1>3, <1>6 DEF Taken, Alike
  <1> QED BY <1>1, <1>2, <1>4, <1>5, <1>7, <1>8

\* GotData() with more of the header.
LEMMA HeaderRead ==
  ASSUME NEW v, Form(v), Quiet(v), v.state = "header", v.sent \in Requests, v.junk \in Junk,
         v.overrun => v.refilled, NEW data, Good(v) => Before(v, data),
         ~v.refilled => v.len + Len(data) < BufSize,
         NEW x, x = Browser!AddHeaderData(v, data)
  PROVE  ReadOk(x)
  <1>1. PICK len, w, q, W : /\ len = v.len + Len(data) /\ w = Put(v, data, len)
                            /\ q = Browser!ParseLines(w) /\ W = Browser!Wire(v.sent)
    OBVIOUS
  <1>2. Adds(x, v, data, len, w, q)  BY <1>1, AddHeaderIs
  <1>3. Plain(w, w) /\ Still(w, v) /\ Alike(w, v)  BY <1>1, PutIn
  <1>4. /\ w.sent = v.sent /\ w.unread = v.unread /\ w.junk = v.junk /\ w.off = v.off
        /\ w.refilled = v.refilled /\ w.inline = v.inline /\ w.overrun = v.overrun
        /\ w.state = "header"
    BY <1>3 DEF Still, Alike
  <1>5. ~v.refilled => Good(v)  BY DEF Good
  <1>6. Plain(q, w)
    <2>1. PICK p : q = Browser!TakeBody(p) /\ Plain(p.v, w)  BY <1>1, <1>3, ParseLinesIs
    <2> QED BY <2>1, TakeBodyAny
  <1>7. ASSUME Good(v), len < BufSize
        PROVE  /\ w.sent.method # "long" => Parsed(q, w, Browser!Last(data))
               /\ w.sent.method = "long" => ~v.refilled /\ Browser!NextLine(w.buf, 1) = 0
               /\ data # <<>>
    <2>1. PICK k, b, e : Comes(w, W, b, e, k) /\ Browser!Last(data) = W[b + e] /\ data # <<>>
      <3>1. CASE v.refilled
        <4>1. Before(v, data)  BY <1>7
        <4> QED BY <1>1, <1>7, <3>1, <4>1, EmptiesComes
      <3>2. CASE ~v.refilled
        <4>1. Before(v, data)  BY <1>7
        <4>2. /\ Comes(w, W, 0, len, 0) /\ Browser!Last(data) = W[0 + len] /\ data # <<>>
          BY <1>1, <1>7, <3>2, <4>1, FillsComes
        <4> QED BY <4>2
      <3> QED BY <3>1, <3>2
    <2>2. ASSUME w.sent.method # "long"
          PROVE  Parsed(q, w, Browser!Last(data))
      <3>1. Parsed(q, w, W[b + e])  BY <1>1, <1>3, <1>4, <2>1, <2>2, ParsedSo
      <3> QED BY <2>1, <3>1
    <2>3. ASSUME w.sent.method = "long"
          PROVE  ~v.refilled /\ Browser!NextLine(w.buf, 1) = 0
      BY <1>4, <2>1, <2>3, LongWaits
    <2> QED BY <2>1, <2>2, <2>3
  <1>8. CASE len >= BufSize
    <2>1. x = Overrun(w)  BY <1>2, <1>8 DEF Adds
    <2>2. /\ Form(x) /\ Quiet(x) /\ x.sent = w.sent /\ x.junk = w.junk
          /\ x.refilled = w.refilled /\ x.overrun
      BY <1>3, <1>4, <2>1, OverrunIs
    <2>3. v.refilled
      <3>1. SUFFICES ASSUME ~v.refilled  PROVE FALSE  OBVIOUS
      <3>2. Fills(v) /\ Piece(v, data, v.len)  BY <1>5, <3>1 DEF Before
      <3>3. v.len \in Nat /\ Len(data) \in Nat /\ BufSize \in Nat  BY <3>2, Asked DEF Fills, Piece
      <3> QED BY <1>1, <1>8, <3>1, <3>3
    <2>4. ~Good(x)  BY <1>4, <2>2, <2>3 DEF Good
    <2> QED BY <1>4, <2>2, <2>3, <2>4 DEF ReadOk
  <1>9. CASE ~(len >= BufSize) /\ Browser!NextLine(w.buf, 1) > 0 /\ q.state = "header"
    <2>1. x = Again(q, data)  BY <1>2, <1>9 DEF Adds
    <2>2. /\ Form(x) /\ Quiet(x) /\ Alike(x, q) /\ x.off = 0 /\ x.refilled /\ x.buf = q.buf
          /\ x.sent = w.sent /\ x.junk = w.junk /\ x.len = w.len /\ x.unread = w.unread
          /\ x.overrun = w.overrun
          /\ x.inline <=> w.inline \/ (data # <<>> /\ Browser!Last(data) # "nl")
      BY <1>6, <1>9, <2>1, AgainIs
    <2>3. ASSUME Good(x)
          PROVE  AsSent(x)
      <3>1. /\ ~x.inline /\ x.junk # "nl" /\ ~x.overrun /\ ~Browser!Has(x.sent, "length")
        BY <2>2, <2>3 DEF Good
      <3>2. Good(v)  BY <1>4, <2>2, <3>1 DEF Good
      <3>3. len < BufSize
        <4>1. CASE v.refilled
          <5>1. PICK k : Empties(v, k) /\ Piece(v, data, 3 * k)  BY <2>3, <3>2, <4>1 DEF Before
          <5>2. k \in Nat /\ v.len = 3 * k /\ Len(data) \in Nat /\ BufSize \in Nat
            BY <5>1, Asked DEF Empties, Piece
          <5>3. v.len \in Nat  BY <5>2
          <5> QED BY <1>1, <1>9, <5>2, <5>3
        <4>2. CASE ~v.refilled  BY <1>1, <4>2
        <4> QED BY <4>1, <4>2
      <3>4. w.sent.method # "long" /\ data # <<>>
        <4>1. ~(0 > 0)  OBVIOUS
        <4> QED BY <1>7, <1>9, <3>2, <3>3, <4>1
      <3>5. Parsed(q, w, Browser!Last(data))  BY <1>7, <3>2, <3>3, <3>4
      <3>6. Browser!Last(data) = "nl"  BY <2>2, <3>1, <3>4
      <3>7. PICK n : Emptied(q, n)  BY <1>9, <2>2, <3>1, <3>5, <3>6 DEF Parsed
      <3>8. q.sent = w.sent /\ q.junk = w.junk /\ q.len = w.len /\ q.unread = w.unread
        BY <1>6 DEF Plain, Kept
      <3>9. Taken(q, n) /\ Behind(q, 3 * n)  BY <3>7 DEF Emptied
      <3>10. Taken(x, n)  BY <2>2, <3>8, <3>9, TakenSo
      <3>11. Behind(x, 3 * n)  BY <2>2, <3>8, <3>9 DEF Behind
      <3>12. Empties(x, n)  BY <2>2, <3>7, <3>8, <3>10 DEF Empties, Emptied
      <3>13. x.state = "header"  BY <1>9, <2>2 DEF Alike
      <3> QED BY <2>2, <3>11, <3>12, <3>13 DEF AsSent
    <2> QED BY <1>4, <2>2, <2>3 DEF ReadOk
  <1>10. CASE ~(len >= BufSize) /\ Browser!NextLine(w.buf, 1) > 0 /\ q.state # "header"
    <2>1. x = q  BY <1>2, <1>10 DEF Adds
    <2>2. /\ Form(x) /\ Quiet(x) /\ x.sent = w.sent /\ x.junk = w.junk /\ x.overrun = w.overrun
          /\ x.refilled = w.refilled /\ x.inline = w.inline
      BY <1>6, <2>1 DEF Plain, Kept
    <2>3. ASSUME Good(x)
          PROVE  AsSent(x)
      <3>1. Good(v)  BY <1>4, <2>2, <2>3 DEF Good
      <3>2. len < BufSize
        <4>1. CASE v.refilled
          <5>1. PICK k : Empties(v, k) /\ Piece(v, data, 3 * k)  BY <3>1, <4>1 DEF Before
          <5>2. k \in Nat /\ v.len = 3 * k /\ Len(data) \in Nat /\ BufSize \in Nat
            BY <5>1, Asked DEF Empties, Piece
          <5>3. v.len \in Nat  BY <5>2
          <5> QED BY <1>1, <1>10, <5>2, <5>3
        <4>2. CASE ~v.refilled  BY <1>1, <4>2
        <4> QED BY <4>1, <4>2
      <3>3. w.sent.method # "long"
        <4>1. ~(0 > 0)  OBVIOUS
        <4> QED BY <1>7, <1>10, <3>1, <3>2, <4>1
      <3>4. Parsed(q, w, Browser!Last(data))  BY <1>7, <3>1, <3>2, <3>3
      <3>5. ~(w.refilled /\ Browser!Has(w.sent, "length"))  BY <2>2, <2>3 DEF Good
      <3>6. \/ x.state = "closing" /\ Answered(x)
            \/ x.state = "body" /\ Lasts(x)
        BY <1>10, <2>1, <3>4, <3>5 DEF Parsed
      <3> QED BY <3>6 DEF AsSent
    <2> QED BY <1>4, <2>2, <2>3 DEF ReadOk
  <1>11. CASE ~(len >= BufSize) /\ ~(Browser!NextLine(w.buf, 1) > 0) /\ len < BufSize - 1
    <2>1. x = Fuller(w, v, len)  BY <1>2, <1>11 DEF Adds
    <2>2. /\ Form(x) /\ Quiet(x) /\ Alike(x, w) /\ x.buf = w.buf /\ x.off = len
          /\ x.sent = w.sent /\ x.junk = w.junk /\ x.len = w.len /\ x.unread = w.unread
          /\ x.overrun = w.overrun /\ x.refilled = w.refilled
          /\ x.inline <=> w.inline \/ v.refilled
      BY <1>3, <2>1, FullerIs
    <2>3. ASSUME Good(x)
          PROVE  AsSent(x)
      <3>1. ~v.refilled  BY <1>4, <2>2, <2>3 DEF Good
      <3>2. Before(v, data) /\ len < BufSize  BY <1>1, <1>5, <3>1
      <3>3. Browser!NextLine(w.buf, 1) = 0  BY <1>11, NoLineIs
      <3>4. w.len = len  BY <1>1, PutIn
      <3>5. /\ NoEnd(W, 0, 1, len) /\ Behind(w, len)
            /\ \A y : /\ y.sent = v.sent /\ y.junk = v.junk /\ y.off = len /\ y.len = len
                      /\ y.buf = w.buf /\ Alike(y, w)
                      => Fills(y)
        BY <1>1, <3>1, <3>2, <3>3, NotYet
      <3>6. Fills(x)  BY <1>4, <2>2, <3>4, <3>5
      <3>7. Behind(x, x.len) /\ NoEnd(Browser!Wire(x.sent), 0, 1, x.len)
        BY <1>1, <1>4, <2>2, <3>4, <3>5 DEF Behind
      <3>8. x.state = "header" /\ ~x.refilled  BY <1>4, <2>2, <3>1 DEF Alike
      <3> QED BY <3>6, <3>7, <3>8 DEF AsSent
    <2> QED BY <1>4, <2>2, <2>3 DEF ReadOk
  <1>12. CASE ~(len >= BufSize) /\ ~(Browser!NextLine(w.buf, 1) > 0) /\ ~(len < BufSize - 1)
    <2>1. PICK y : y = InPieces(w, v)  OBVIOUS
    <2>2. PICK code : code = "bad request"  OBVIOUS
    <2>3. x = Browser!SendError(y, code)  BY <1>2, <1>12, <2>1, <2>2, Zenon DEF Adds
    <2>4. /\ Plain(y, y) /\ Alike(y, w) /\ y.sent = w.sent /\ y.junk = w.junk
          /\ y.overrun = w.overrun /\ y.refilled = w.refilled
          /\ y.inline <=> w.inline \/ v.refilled
      BY <1>3, <2>1, InPiecesIs
    <2>5. Waits(y)  BY <1>4, <2>4 DEF Alike, Waits
    <2>6. /\ Plain(x, y) /\ x.method = y.method /\ x.state = "closing" /\ x.answer = <<code>>
      BY <2>3, <2>4, <2>5, SendErrorIs
    <2>7. /\ Form(x) /\ Quiet(x) /\ x.sent = y.sent /\ x.junk = y.junk /\ x.overrun = y.overrun
          /\ x.refilled = y.refilled /\ x.inline = y.inline
      BY <2>6 DEF Plain, Kept
    <2>8. ASSUME Good(x)
          PROVE  AsSent(x)
      <3>1. ~v.refilled  BY <1>4, <2>4, <2>7, <2>8 DEF Good
      <3>2. Before(v, data) /\ len < BufSize  BY <1>1, <1>5, <3>1
      <3>3. Browser!NextLine(w.buf, 1) = 0  BY <1>12, NoLineIs
      <3>4. len \in Nat /\ (v.sent.method = "long" \/ len < 3) /\ w.method = "none"
        BY <1>1, <3>1, <3>2, <3>3, NotYet
      <3>5. v.sent.method = "long"
        <4>1. BufSize \in Nat /\ BufSize > 3  BY Asked
        <4> QED BY <1>12, <3>4, <4>1
      <3>6. x.sent.method = "long" /\ x.method = "none"
        BY <1>4, <2>4, <2>6, <2>7, <3>4, <3>5 DEF Alike
      <3>7. Answered(x)  BY <2>6, <2>2, <3>6, BadIs, Zenon
      <3> QED BY <2>6, <3>7 DEF AsSent
    <2> QED BY <1>4, <2>4, <2>7, <2>8 DEF ReadOk
  <1> QED BY <1>8, <1>9, <1>10, <1>11, <1>12

\* Read() of the first n units.
Less(v, n) == [v EXCEPT !.unread = SubSeq(v.unread, n + 1, Len(v.unread))]

IsLess(w, v, n) ==
  /\ Form(w) /\ Quiet(w) /\ Alike(w, v) /\ w.unread = SubSeq(v.unread, n + 1, Len(v.unread))
  /\ w.sent = v.sent /\ w.junk = v.junk /\ w.buf = v.buf /\ w.len = v.len /\ w.off = v.off
  /\ w.refilled = v.refilled /\ w.inline = v.inline /\ w.overrun = v.overrun

LEMMA LessIs ==
  ASSUME NEW v, Form(v), Quiet(v), NEW n
  PROVE  IsLess(Less(v, n), v, n)
  <1> PICK w : w = Less(v, n)  OBVIOUS
  <1>1. PICK x : x = SubSeq(v.unread, n + 1, Len(v.unread))  OBVIOUS
  <1>2. w = [v EXCEPT !.unread = x]  BY <1>1 DEF Less
  <1>3. Form(w)  BY <1>2 DEF Form
  <1>4. /\ Alike(w, v) /\ w.unread = x /\ w.answer = v.answer
        /\ w.sent = v.sent /\ w.junk = v.junk /\ w.buf = v.buf /\ w.len = v.len /\ w.off = v.off
        /\ w.refilled = v.refilled /\ w.inline = v.inline /\ w.overrun = v.overrun
    BY <1>2 DEF Form, Alike
  <1>5. Quiet(w)  BY <1>4 DEF Quiet, Waits, Alike
  <1> QED BY <1>1, <1>3, <1>4, <1>5 DEF IsLess

LEMMA HeaderStep ==
  ASSUME NEW v, ReadOk(v), v.state = "header", NEW n \in 1..Len(v.unread), n <= BufSize - 1 - v.off,
         NEW data, data = SubSeq(v.unread, 1, n), NEW w, w = Less(v, n),
         NEW x, x = Browser!AddHeaderData(w, data)
  PROVE  ReadOk(x)
  <1>1. /\ Form(v) /\ Quiet(v) /\ v.sent \in Requests /\ v.junk \in Junk
        /\ v.overrun => v.refilled
        /\ Good(v) => AsSent(v)
    BY DEF ReadOk
  <1>2. /\ Form(w) /\ Quiet(w) /\ Alike(w, v) /\ w.unread = SubSeq(v.unread, n + 1, Len(v.unread))
        /\ w.sent = v.sent /\ w.junk = v.junk /\ w.buf = v.buf /\ w.len = v.len /\ w.off = v.off
        /\ w.refilled = v.refilled /\ w.inline = v.inline /\ w.overrun = v.overrun
    <2>1. IsLess(w, v, n)  BY <1>1, LessIs
    <2> QED BY <2>1 DEF IsLess
  <1>3. w.state = "header"  BY <1>2 DEF Alike
  <1>4. ASSUME Good(v), ~v.refilled
        PROVE  Before(w, data) /\ w.len + Len(data) < BufSize
    <2>1. Fills(v) /\ Behind(v, v.len)  BY <1>1, <1>4 DEF AsSent
    <2>2. Piece(w, data, v.len) /\ Len(data) = n /\ Behind(w, v.len + n)
      BY <1>1, <1>2, <2>1, PieceIs
    <2>3. Taken(v, 0)  BY <2>1 DEF Fills
    <2>4. Taken(w, 0)  BY <1>2, <2>3, TakenSo
    <2>5. Fills(w)  BY <1>2, <2>1, <2>4 DEF Fills
    <2>6. Before(w, data)  BY <1>2, <1>4, <2>2, <2>5 DEF Before
    <2>7. v.len \in Nat /\ v.off = v.len /\ BufSize \in Nat /\ n \in Nat
      BY <2>1, <2>2, Asked DEF Fills, Piece
    <2>8. v.len + n < BufSize  BY <2>7
    <2> QED BY <1>2, <2>2, <2>6, <2>8
  <1>5. ASSUME Good(v), v.refilled
        PROVE  Before(w, data)
    <2>1. PICK k : Empties(v, k) /\ Behind(v, 3 * k)  BY <1>1, <1>5 DEF AsSent
    <2>2. PICK b : b = 3 * k  OBVIOUS
    <2>3. Piece(w, data, b) /\ Len(data) = n /\ Behind(w, b + n)
      BY <1>1, <1>2, <2>1, <2>2, PieceIs
    <2>4. Taken(v, k)  BY <2>1 DEF Empties
    <2>5. Taken(w, k)  BY <1>2, <2>4, TakenSo
    <2>6. Empties(w, k)  BY <1>2, <2>1, <2>5 DEF Empties
    <2> QED BY <1>2, <1>5, <2>2, <2>3, <2>6 DEF Before
  <1>6. Good(w) <=> Good(v)  BY <1>2 DEF Good
  <1>7. Good(w) => Before(w, data)  BY <1>4, <1>5, <1>6
  <1>8. ~w.refilled => w.len + Len(data) < BufSize  BY <1>2, <1>4 DEF Good
  <1>9. w.overrun => w.refilled  BY <1>1, <1>2
  <1> QED BY <1>1, <1>2, <1>3, <1>7, <1>8, <1>9, HeaderRead

LEMMA BodyStep ==
  ASSUME NEW v, ReadOk(v), v.state = "body", NEW n \in 1..Len(v.unread),
         NEW data, data = SubSeq(v.unread, 1, n), NEW w, w = Less(v, n),
         NEW x, x = Browser!AddBodyData(w, data)
  PROVE  ReadOk(x)
  <1>1. /\ Form(v) /\ Quiet(v) /\ v.sent \in Requests /\ v.junk \in Junk
        /\ v.overrun => v.refilled
        /\ Good(v) => AsSent(v)
    BY DEF ReadOk
  <1>2. /\ Form(w) /\ Quiet(w) /\ Alike(w, v) /\ w.unread = SubSeq(v.unread, n + 1, Len(v.unread))
        /\ w.sent = v.sent /\ w.junk = v.junk
        /\ w.refilled = v.refilled /\ w.inline = v.inline /\ w.overrun = v.overrun
    <2>1. IsLess(w, v, n)  BY <1>1, LessIs
    <2> QED BY <2>1 DEF IsLess
  <1>3. Plain(w, w) /\ Waits(w)
    <2>1. Kept(w, w)  BY DEF Kept
    <2>2. Waits(w)  BY <1>2 DEF Alike, Waits
    <2> QED BY <1>2, <2>1, <2>2 DEF Plain
  <1>4. Plain(x, w) /\ BodyTaken(x, w, w.body \o data)  BY <1>3, AddBodyIs
  <1>5. /\ Form(x) /\ Quiet(x) /\ x.sent = w.sent /\ x.junk = w.junk /\ x.unread = w.unread
        /\ x.refilled = w.refilled /\ x.inline = w.inline /\ x.overrun = w.overrun
    BY <1>4 DEF Plain, Kept
  <1>6. ASSUME Good(x)
        PROVE  AsSent(x)
    <2>1. Good(v)  BY <1>2, <1>5, <1>6 DEF Good
    <2>2. Lasts(v)  BY <1>1, <2>1 DEF AsSent
    <2>3. BodyTaken(x, v, v.body \o data)
      <3>1. PICK z : z = v.body \o data  OBVIOUS
      <3>2. w.body = v.body  BY <1>2 DEF Alike
      <3>3. BodyTaken(x, w, z)  BY <1>4, <3>1, <3>2
      <3>4. BodyTaken(x, v, z)  BY <1>2, <3>3 DEF BodyTaken, Alike
      <3> QED BY <3>1, <3>4
    <2>4. x.sent = v.sent /\ x.unread = SubSeq(v.unread, n + 1, Len(v.unread))  BY <1>2, <1>5
    <2>5. \/ x.state = "closing" /\ Answered(x)
          \/ x.state = "body" /\ Lasts(x)
      BY <1>1, <2>2, <2>3, <2>4, MoreBody
    <2> QED BY <2>5 DEF AsSent
  <1> QED BY <1>1, <1>2, <1>5, <1>6 DEF ReadOk

\* While it waits for more there is more.
LEMMA MoreComes ==
  ASSUME NEW v, ReadOk(v), Good(v), Waits(v)
  PROVE  v.unread # <<>>
  <1>1. AsSent(v) /\ v.sent \in Requests  BY DEF ReadOk
  <1>2. PICK W, r : r = v.sent /\ W = Browser!Wire(r)  OBVIOUS
  <1>3. W \in Seq(Units) /\ Len(W) \in Nat  BY <1>1, <1>2, WireIsSeq
  <1>4. ASSUME NEW m \in Nat, m < Len(W), v.unread = SubSeq(W, m + 1, Len(W))
        PROVE  v.unread # <<>>
    <2>1. PICK l \in Nat : l = Len(W) - m /\ l # 0 /\ m + l = Len(W)
      <3>1. Len(W) - m \in Nat /\ Len(W) - m # 0 /\ m + (Len(W) - m) = Len(W)  BY <1>3, <1>4
      <3> QED BY <3>1
    <2>2. v.unread = SubSeq(W, m + 1, m + l)  BY <1>4, <2>1
    <2>3. IsMiddle(v.unread, Units, W, m, l)
      <3>1. m + l <= Len(W)  BY <1>3, <2>1
      <3> QED BY <1>3, <2>2, <3>1, MiddleIs
    <2>4. Len(v.unread) = l  BY <2>3 DEF IsMiddle
    <2>5. Len(<<>>) = 0  OBVIOUS
    <2> QED BY <2>1, <2>4, <2>5
  <1>5. CASE v.state = "header" /\ ~v.refilled
    <2>1. Fills(v) /\ Behind(v, v.len) /\ NoEnd(W, 0, 1, v.len)  BY <1>1, <1>2, <1>5 DEF AsSent
    <2>2. PICK m \in Nat : m = v.len /\ m < BufSize /\ m <= Len(W)
      BY <1>2, <2>1 DEF Fills, Behind
    <2>3. v.unread = SubSeq(W, m + 1, Len(W))  BY <1>2, <2>1, <2>2 DEF Behind
    <2>4. m < Len(W)
      <3>1. CASE r.method = "long"
        <4>1. Len(W) > BufSize /\ BufSize \in Nat  BY <1>1, <1>2, <3>1, LongIs, Asked
        <4> QED BY <1>3, <2>2, <4>1
      <3>2. CASE r.method # "long"
        <4>1. IsWire(W, r)  BY <1>1, <1>2, <3>2, WireIs
        <4>2. W[0 + 3] = "nl"  BY <4>1 DEF IsWire, Three
        <4>3. Len(W) >= 3
          <5>1. Len(r.headers) \in Nat /\ Len(r.body) \in Nat  BY <1>1, <1>2, Asked
          <5>2. PICK H, B \in Nat : H = Len(r.headers) /\ B = Len(r.body)  BY <5>1
          <5>3. Len(W) = 3 * H + 4 + B  BY <4>1, <5>2 DEF IsWire
          <5> QED BY <5>3
        <4>4. ~(3 <= m)
          <5>1. SUFFICES ASSUME 3 <= m  PROVE FALSE  OBVIOUS
          <5>2. 3 \in 1..m  BY <5>1
          <5> QED BY <2>1, <2>2, <4>2, <5>2 DEF NoEnd
        <4> QED BY <1>3, <2>2, <4>3, <4>4
      <3> QED BY <3>1, <3>2
    <2> QED BY <1>4, <2>3, <2>4
  <1>6. CASE v.state = "header" /\ v.refilled
    <2>1. PICK k : Empties(v, k) /\ Behind(v, 3 * k)  BY <1>1, <1>6 DEF AsSent
    <2>2. PICK H, B \in Nat : H = Len(r.headers) /\ B = Len(r.body)
      <3>1. Len(r.headers) \in Nat /\ Len(r.body) \in Nat  BY <1>1, <1>2, Asked
      <3> QED BY <3>1
    <2>3. k \in 0..(H + 1) /\ k # 0 /\ r.method \in {"GET", "POST"}
      BY <1>2, <2>1, <2>2 DEF Empties, Taken
    <2>4. IsWire(W, r)
      <3>1. r.method # "long"  BY <2>3
      <3> QED BY <1>1, <1>2, <3>1, WireIs
    <2>5. Len(W) = 3 * H + 4 + B  BY <2>2, <2>4 DEF IsWire
    <2>6. PICK m \in Nat : m = 3 * k
      <3>1. 3 * k \in Nat  BY <2>3
      <3> QED BY <3>1
    <2>7. m < Len(W)
      <3>1. k \in Nat /\ k <= H + 1  BY <2>2, <2>3
      <3>2. PICK c \in Nat : c = 3 * H  OBVIOUS
      <3>3. m <= c + 3  BY <2>6, <3>1, <3>2
      <3>4. Len(W) = c + 4 + B  BY <2>5, <3>2
      <3> QED BY <3>3, <3>4
    <2>8. v.unread = SubSeq(W, m + 1, Len(W))  BY <1>2, <2>1, <2>6 DEF Behind
    <2> QED BY <1>4, <2>7, <2>8
  <1>7. CASE v.state = "body"
    <2>1. Lasts(v)  BY <1>1, <1>7 DEF AsSent
    <2>2. PICK x, y, z : x = v.body /\ y = v.unread /\ z = v.sent.body  OBVIOUS
    <2>3. x \in Seq(STRING) /\ x \o y = z /\ Len(x) < Len(z)  BY <2>1, <2>2 DEF Lasts
    <2>4. y # <<>>
      <3>1. SUFFICES ASSUME y = <<>>  PROVE FALSE  OBVIOUS
      <3>2. x \o <<>> = x  BY <2>3, ConcatEmptySeq
      <3>3. Len(x) < Len(x)  BY <2>3, <3>1, <3>2
      <3> QED BY <2>3, <3>3
    <2> QED BY <2>2, <2>4
  <1> QED BY <1>5, <1>6, <1>7 DEF Waits

\* Close() and Delete().
LEMMA LeaveStep ==
  ASSUME NEW v, ReadOk(v), NEW s \in {"crash", "deleted"}, s = "crash" => Waits(v),
         NEW x, x = [v EXCEPT !.state = s]
  PROVE  ReadOk(x)
  <1>1. /\ Form(v) /\ Quiet(v) /\ v.sent \in Requests /\ v.junk \in Junk
        /\ v.overrun => v.refilled
        /\ Good(v) => AsSent(v)
    BY DEF ReadOk
  <1>2. Form(x)  BY <1>1 DEF Form
  <1>3. /\ x.sent = v.sent /\ x.junk = v.junk /\ x.unread = v.unread /\ x.answer = v.answer
        /\ x.refilled = v.refilled /\ x.inline = v.inline /\ x.overrun = v.overrun
        /\ x.state = s
    BY <1>1 DEF Form
  <1>4. Quiet(x)
    <2>1. Len(<<>>) <= 1  OBVIOUS
    <2>2. Len(v.answer) <= 1  BY <1>1, <2>1 DEF Quiet
    <2> QED BY <1>3, <2>2 DEF Quiet, Waits
  <1>5. ASSUME Good(x)
        PROVE  AsSent(x)
    <2>1. Good(v)  BY <1>3, <1>5 DEF Good
    <2>2. s = "crash" => x.unread # <<>>  BY <1>3, <2>1, MoreComes
    <2> QED BY <1>3, <2>2 DEF AsSent
  <1> QED BY <1>1, <1>2, <1>3, <1>4, <1>5 DEF ReadOk

LEMMA BlankOk ==
  ASSUME NEW r \in Requests, NEW junk \in Junk, NEW v, v = Browser!Blank(r, junk)
  PROVE  ReadOk(v)
  <1>1. PICK W, buf, N : W = Browser!Wire(r) /\ buf = [i \in 1..BufSize |-> junk] /\ N = BufSize
    OBVIOUS
  <1>2. Form(v)  BY DEF Form, Browser!Blank
  <1>3. /\ v.sent = r /\ v.unread = W /\ v.state = "header" /\ v.method = "none" /\ v.buf = buf
        /\ v.len = 0 /\ v.off = 0 /\ v.size = 0 /\ v.body = <<>> /\ ~v.auth /\ v.answer = <<>>
        /\ v.junk = junk /\ ~v.refilled /\ ~v.overrun
    BY <1>1 DEF Browser!Blank
  <1>4. Quiet(v)  BY <1>3 DEF Quiet, Waits
  <1>5. N \in Nat /\ N > 3  BY <1>1, Asked
  <1>6. junk \in Units
    <2>1. junk \in {"junk", "nul", "nl"}  BY Asked
    <2> QED BY <2>1 DEF Units
  <1>7. buf \in Seq(Units) /\ Len(buf) = N /\ \A q \in 1..N : buf[q] = junk  BY <1>1, <1>5, <1>6
  <1>8. Taken(v, 0)
    <2>1. \A j \in 1..(0 - 1) : FALSE  OBVIOUS
    <2>2. ~Seen(r, 0, "auth") /\ ~Seen(r, 0, "length")  BY <2>1 DEF Seen
    <2>3. 0 \in 0..(Len(r.headers) + 1)
      <3>1. Len(r.headers) \in Nat  BY Asked
      <3> QED BY <3>1
    <2> QED BY <1>3, <2>2, <2>3 DEF Taken
  <1>9. Fills(v)
    <2>1. \A q \in 1..0 : FALSE  OBVIOUS
    <2>2. \A q \in (0 + 1)..N : q \in 1..N  BY <1>5
    <2>3. 0 \in Nat /\ 0 < N  BY <1>5
    <2> QED BY <1>1, <1>3, <1>7, <1>8, <2>1, <2>2, <2>3 DEF Fills
  <1>10. Behind(v, 0)
    <2>1. W \in Seq(Units) /\ Len(W) \in Nat  BY <1>1, WireIsSeq
    <2>2. SubSeq(W, 0 + 1, Len(W)) = W
      <3>1. SubSeq(W, 1, Len(W)) = W  BY <2>1, SubSeqFull
      <3> QED BY <3>1
    <2> QED BY <1>1, <1>3, <2>1, <2>2 DEF Behind
  <1>11. NoEnd(W, 0, 1, 0)
    <2>1. \A q \in 1..0 : FALSE  OBVIOUS
    <2> QED BY <2>1 DEF NoEnd
  <1>12. AsSent(v)  BY <1>1, <1>3, <1>9, <1>10, <1>11 DEF AsSent
  <1> QED BY <1>2, <1>3, <1>4, <1>12 DEF ReadOk

LEMMA RequestStep == ReadOk(req) /\ Browser!Next => ReadOk(req')
  <1>1. SUFFICES ASSUME ReadOk(req), Browser!Next  PROVE ReadOk(req')  OBVIOUS
  <1>2. CASE Browser!Read
    <2>1. PICK n \in 1..Len(req.unread) :
             /\ n <= Browser!Room(req)
             /\ req' = IF req.state = "header"
                       THEN Browser!AddHeaderData(Less(req, n), SubSeq(req.unread, 1, n))
                       ELSE Browser!AddBodyData(Less(req, n), SubSeq(req.unread, 1, n))
      BY <1>2 DEF Browser!Read, Less
    <2>2. CASE req.state = "header"
      <3>1. n <= BufSize - 1 - req.off  BY <2>1, <2>2 DEF Browser!Room
      <3>2. req' = Browser!AddHeaderData(Less(req, n), SubSeq(req.unread, 1, n))  BY <2>1, <2>2
      <3> QED BY <1>1, <2>2, <3>1, <3>2, HeaderStep
    <2>3. CASE req.state = "body"
      <3>1. req' = Browser!AddBodyData(Less(req, n), SubSeq(req.unread, 1, n))  BY <2>1, <2>3
      <3> QED BY <1>1, <2>3, <3>1, BodyStep
    <2> QED BY <1>2, <2>2, <2>3 DEF Browser!Read
  <1>3. CASE Browser!Close
    <2>1. Waits(req) /\ req' = [req EXCEPT !.state = "crash"]  BY <1>3 DEF Browser!Close, Waits
    <2> QED BY <1>1, <2>1, LeaveStep
  <1>4. CASE Browser!Delete
    <2>1. req' = [req EXCEPT !.state = "deleted"]  BY <1>4 DEF Browser!Delete
    <2> QED BY <1>1, <2>1, LeaveStep
  <1> QED BY <1>1, <1>2, <1>3, <1>4 DEF Browser!Next

LEMMA RequestIsRight == ReadOk(req) => Browser!RequestRight
  <1>1. SUFFICES ASSUME ReadOk(req)  PROVE Browser!RequestRight  OBVIOUS
  <1>2. Quiet(req) /\ (req.overrun => req.refilled) /\ (Good(req) => AsSent(req))
    BY <1>1 DEF ReadOk
  <1>3. Len(req.answer) <= 1
    <2>1. Len(<<>>) <= 1  OBVIOUS
    <2> QED BY <1>2, <2>1 DEF Quiet
  <1>4. ASSUME Browser!Over, Browser!InOnePiece \/ Browser!InLines
        PROVE  Answered(req)
    <2>1. Good(req)  BY <1>4 DEF Good, Browser!InOnePiece, Browser!InLines
    <2>2. ~(Waits(req) /\ req.unread = <<>>)  BY <1>1, <2>1, MoreComes
    <2>3. ~(req.state = "crash" /\ req.unread = <<>>)  BY <1>2, <2>1 DEF AsSent
    <2>4. req.state = "closing"  BY <1>4, <2>2, <2>3 DEF Browser!Over, Waits
    <2> QED BY <1>2, <2>1, <2>4 DEF AsSent
  <1> QED BY <1>2, <1>3, <1>4
          DEF Answered, Browser!RequestRight, Browser!ReadAsSent, Browser!InBuffer

\* cfgdata.cpp, AddHeaderData() and AddBodyData(): however a browser's request is cut on its way,
\* and wherever it ends the connection, mod_cfg answers it once, as it was sent, with its body,
\* and nothing is written behind ReqBuf; unless its header comes in several pieces that do not
\* end where lines do.
THEOREM RequestsAreRead == RunSpec => []RequestSound
<1> DEFINE Inv == part = "browser" => ReadOk(req)
<1>1. RunInit => Inv
  BY BlankOk DEF RunInit, Browser!Init
<1>2. Inv /\ [RunNext]_runVars => Inv'
  <2>1. SUFFICES ASSUME Inv, [RunNext]_runVars, part' = "browser"  PROVE ReadOk(req')
    OBVIOUS
  <2>2. CASE RunNext
    <3>1. part = "browser" /\ Browser!Next  BY <2>1, <2>2 DEF RunNext
    <3> QED BY <2>1, <3>1, RequestStep
  <2>3. CASE UNCHANGED runVars
    <3>1. part = "browser" /\ req' = req  BY <2>1, <2>3 DEF runVars
    <3> QED BY <2>1, <3>1
  <2> QED BY <2>1, <2>2, <2>3
<1>3. Inv => RequestSound
  BY RequestIsRight DEF RequestSound
<1> QED
  BY <1>1, <1>2, <1>3, PTL DEF RunSpec
=============================================================================
