----------------------------- MODULE ProcessLife -----------------------------
(***************************************************************************)
(* The life of one child process, between signals: Core::Fork() with its   *)
(* handshake (prometeo/core.cpp), Process::Spawn(), WaitRequest() and      *)
(* Terminate() (prometeo/process.cpp).                                     *)
(*                                                                         *)
(* Fork() blocks SIGUSR1, forks and sleeps in sigsuspend() until the child *)
(* sends it.  Terminate() sends SIGTERM and sleeps in waitpid().  SIGCHLD  *)
(* has a handler that reaps any child; SIGTERM has, in the daemon and in   *)
(* the children that inherit it, one that clears a flag only the daemon's  *)
(* main loop reads, so that a child notices a SIGTERM only if it sleeps in *)
(* select().                                                               *)
(***************************************************************************)
EXTENDS Naturals

CONSTANTS
  MaxForks,   \* bounds the children forked one after the other
  CanCrash    \* whether a child may end by itself

ASSUME ProcessLifeAssumption ==
  /\ MaxForks \in Nat
  /\ CanCrash \in BOOLEAN

VARIABLES
  pc,        \* where the daemon is
  lastSig,   \* LastSig is not -1
  blocked,   \* SIGUSR1 is blocked in the daemon
  oldMask,   \* it was blocked when InitWait() saved the mask, OldMask
  usr1,      \* SIGUSR1 is pending for the daemon
  quit,      \* a signal has cleared Core::Running
  running,   \* PROM_PROCF_RUNNING
  busy,      \* PROM_PROCF_BUSY
  forks,     \* children forked so far
  proc,      \* the child
  request,   \* a request is in the socket
  answer     \* an answer is in the socket

daemon == <<pc, lastSig, blocked, oldMask, quit, running, busy, forks>>
vars   == <<daemon, usr1, proc, request, answer>>

Alive == {"starting", "awake", "select", "dispatch"}
Ended == {"zombie", "reaped"}

\* The daemon is inside Fork().
Forking == {"fork", "test", "sleep", "suspend"}

TypeOK ==
  /\ pc \in {"main", "fork", "test", "sleep", "suspend", "waitpid", "over"}
  /\ {lastSig, blocked, oldMask, usr1, quit, running, busy, request, answer} \subseteq BOOLEAN
  /\ forks \in 0..MaxForks
  /\ proc \in Alive \cup Ended \cup {"none"}
  /\ request => busy /\ proc \in Alive \cup Ended

Init ==
  /\ pc = "main"
  /\ lastSig = FALSE
  /\ blocked = FALSE
  /\ oldMask = FALSE
  /\ usr1 = FALSE
  /\ quit = FALSE
  /\ running = FALSE
  /\ busy = FALSE
  /\ forks = 0
  /\ proc = "none"
  /\ request = FALSE
  /\ answer = FALSE

-----------------------------------------------------------------------------
(* Core::Fork() *)

\* Wrong: SIGUSR1 is not blocked before fork().
BlockNothing == UNCHANGED <<oldMask, blocked>>

\* sigprocmask( SIG_BLOCK, ..., &OldMask )
BlockUsr1 ==
  /\ oldMask' = blocked
  /\ blocked' = TRUE

\* Spawn() calls Fork(), which starts with InitWait().
InitWait ==
  /\ pc = "main"
  /\ ~quit
  /\ ~running
  /\ proc \in {"none", "reaped"}
  /\ forks < MaxForks
  /\ pc' = "fork"
  /\ lastSig' = FALSE
  /\ BlockUsr1
  /\ UNCHANGED <<quit, running, busy, forks, usr1, proc, request, answer>>

Fork ==
  /\ pc = "fork"
  /\ pc' = "test"
  /\ forks' = forks + 1
  /\ proc' = "starting"
  /\ request' = FALSE
  /\ answer' = FALSE
  /\ busy' = FALSE
  /\ UNCHANGED <<lastSig, blocked, oldMask, quit, running, usr1>>

\* fork() fails: Fork() returns without Wait(), and SIGUSR1 stays blocked.
ForkFails ==
  /\ pc = "fork"
  /\ pc' = "main"
  /\ UNCHANGED <<lastSig, blocked, oldMask, quit, running, busy, forks,
                 usr1, proc, request, answer>>

\* Wrong: Wait() sleeps once, whatever signal ends it.
SleepOnce == pc = "test"

\* The loop of Wait() ends.
Woken == pc = "test" /\ lastSig

\* LastSig is still -1: sigsuspend() follows, a step later.
WaitSleeps ==
  /\ \/ pc = "test" /\ ~lastSig /\ pc' = "sleep"
     \/ pc = "sleep" /\ pc' = "suspend"
  /\ UNCHANGED <<lastSig, blocked, oldMask, quit, running, busy, forks,
                 usr1, proc, request, answer>>

\* Wait() returns, and Spawn() sets RUNNING.
WaitReturns ==
  /\ Woken
  /\ pc' = "main"
  /\ blocked' = oldMask
  /\ running' = TRUE
  /\ UNCHANGED <<lastSig, oldMask, quit, busy, forks, usr1, proc, request, answer>>

-----------------------------------------------------------------------------
(* The signals of the daemon.  Each of them ends sigsuspend(). *)

Interrupted == pc' = IF pc = "suspend" THEN "test" ELSE pc

\* SigNoAction()
SigUsr1 ==
  /\ usr1
  /\ ~blocked \/ pc = "suspend"
  /\ usr1' = FALSE
  /\ lastSig' = TRUE
  /\ Interrupted
  /\ UNCHANGED <<blocked, oldMask, quit, running, busy, forks, proc, request, answer>>

\* SigChildExit()
SigChld ==
  /\ pc # "over"
  /\ proc = "zombie"
  /\ proc' = "reaped"
  /\ Interrupted
  /\ UNCHANGED <<lastSig, blocked, oldMask, quit, running, busy, forks,
                 usr1, request, answer>>

\* SigQuit(), for a SIGTERM from outside.
SigTerm ==
  /\ pc # "over"
  /\ ~quit
  /\ quit' = TRUE
  /\ Interrupted
  /\ UNCHANGED <<lastSig, blocked, oldMask, running, busy, forks,
                 usr1, proc, request, answer>>

-----------------------------------------------------------------------------
(* Requests, answers, Terminate() *)

SetBusy == busy' = TRUE

\* Process::SendRequest(); a child that is gone leaves it to ChildGone.
SendRequest ==
  /\ pc = "main"
  /\ ~quit
  /\ running
  /\ ~busy
  /\ SetBusy
  /\ request' = (proc \in Alive)
  /\ UNCHANGED <<pc, lastSig, blocked, oldMask, quit, running, forks, usr1, proc, answer>>

\* SocketEvent(): the answer.
ReadAnswer ==
  /\ pc = "main"
  /\ running
  /\ answer
  /\ answer' = FALSE
  /\ busy' = FALSE
  /\ UNCHANGED <<pc, lastSig, blocked, oldMask, quit, running, forks, usr1, proc, request>>

\* SocketEvent(): end of file.  (After an error, "request", the child stays BUSY and
\* RUNNING.)
ChildGone ==
  /\ pc = "main"
  /\ running
  /\ busy
  /\ proc \in Ended
  /\ ~answer
  /\ ~request
  /\ running' = FALSE
  /\ busy' = FALSE
  /\ UNCHANGED <<pc, lastSig, blocked, oldMask, quit, forks, usr1, proc, request, answer>>

\* Terminate() is called: from Flush() and ReloadCfg() for an idle child, and when
\* the daemon quits for any child.
MayTerminate ==
  /\ pc = "main"
  /\ running
  /\ quit \/ ~busy

\* SIGTERM: only a child that sleeps in select() is interrupted, and leaves its loop.
Kill ==
  /\ MayTerminate
  /\ proc # "reaped"
  /\ pc' = "waitpid"
  /\ proc' = IF proc = "select" /\ ~request THEN "zombie" ELSE proc
  /\ UNCHANGED <<lastSig, blocked, oldMask, quit, running, busy, forks,
                 usr1, request, answer>>

\* kill() fails: the handler of SIGCHLD has reaped the child before.
KillFails ==
  /\ MayTerminate
  /\ proc = "reaped"
  /\ running' = FALSE
  /\ UNCHANGED <<pc, lastSig, blocked, oldMask, quit, busy, forks,
                 usr1, proc, request, answer>>

\* waitpid() returns: it has reaped the child, or the handler of SIGCHLD has.
WaitpidReturns == pc = "waitpid" /\ proc \in Ended

\* Terminate() returns.
Terminated ==
  /\ WaitpidReturns
  /\ pc' = "main"
  /\ running' = FALSE
  /\ proc' = IF proc \in Ended THEN "reaped" ELSE proc
  /\ UNCHANGED <<lastSig, blocked, oldMask, quit, busy, forks, usr1, request, answer>>

\* The main loop has ended and the last child is deleted.
Exit ==
  /\ pc = "main"
  /\ quit
  /\ ~running
  /\ pc' = "over"
  /\ UNCHANGED <<lastSig, blocked, oldMask, quit, running, busy, forks,
                 usr1, proc, request, answer>>

-----------------------------------------------------------------------------
(* The child *)

\* OnFork() is done, and WakeUpParent().
WakeUpParent ==
  /\ proc = "starting"
  /\ proc' = "awake"
  /\ usr1' = TRUE
  /\ UNCHANGED <<daemon, request, answer>>

Select ==
  /\ proc = "awake"
  /\ proc' = "select"
  /\ UNCHANGED <<daemon, usr1, request, answer>>

WaitRequest ==
  /\ proc = "select"
  /\ request
  /\ request' = FALSE
  /\ proc' = "dispatch"
  /\ UNCHANGED <<daemon, usr1, answer>>

Dispatch ==
  /\ proc = "dispatch"
  /\ answer' = TRUE
  /\ proc' = "awake"
  /\ UNCHANGED <<daemon, usr1, request>>

Crash ==
  /\ CanCrash
  /\ pc # "over"
  /\ proc \in Alive
  /\ proc' = "zombie"
  /\ UNCHANGED <<daemon, usr1, request, answer>>

-----------------------------------------------------------------------------

ForkSteps == InitWait \/ Fork \/ ForkFails \/ WaitSleeps \/ WaitReturns

Signals == SigUsr1 \/ SigChld \/ SigTerm

IPC == SendRequest \/ ReadAnswer \/ ChildGone

TerminateSteps == Kill \/ KillFails \/ Terminated \/ Exit

ChildSteps == WakeUpParent \/ Select \/ WaitRequest \/ Dispatch

Next == ForkSteps \/ Signals \/ IPC \/ TerminateSteps \/ ChildSteps \/ Crash

Spec == Init /\ [][Next]_vars

\* The daemon and the child are running processes, and signals are delivered.
Fairness ==
  /\ WF_vars(Fork \/ ForkFails)
  /\ WF_vars(WaitSleeps)
  /\ WF_vars(WaitReturns)
  /\ WF_vars(SigUsr1)
  /\ WF_vars(SigChld)
  /\ WF_vars(Terminated)
  /\ WF_vars(ChildSteps)

FairSpec == Spec /\ Fairness

-----------------------------------------------------------------------------

\* core.cpp, Fork(): "the parent should stay blocked until the child is ready".  Once
\* it is in use the child has let go of the daemon's sockets.
ForkHandshake == running => proc # "starting"

\* core.cpp, InitWait() and Wait(): no wake-up is lost, whenever SIGUSR1 arrives; only
\* a child that dies before it sends it leaves the daemon asleep.
ForkReturns ==
  pc \in Forking ~>
    (pc \notin Forking \/ proc \in Ended)

\* process.cpp, Terminate() and SocketEvent(): the flag is cleared only when there is
\* no process any more, whoever has reaped it, so that none is left behind.
NotRunningIsDead ==
  (~running /\ pc \in {"main", "over"}) => proc \in Ended \cup {"none"}

\* core.cpp, Fork(), and process.cpp, Terminate(): a child in use has let go of the
\* daemon's sockets, and one not in use has ended, whoever has reaped it.
LifeSound == TypeOK /\ ForkHandshake /\ NotRunningIsDead

\* process.cpp, WaitRequest(): "loop until we recv some requests or we get killed".
\* A SIGTERM ends the child, and Terminate() returns.
KilledIsDead == pc = "waitpid" ~> pc # "waitpid"
=============================================================================
