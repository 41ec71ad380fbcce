------------------------------- MODULE Admin -------------------------------
(***************************************************************************)
(* How the daemon is started, told what to do and stopped: Run() and       *)
(* MainLoop() of prometeo/core.cpp, the modules of loader.cpp, the commands*)
(* of prometeoctl (ctrlipc.cpp) and those of mod_cfg (cfgdata.cpp).        *)
(*                                                                         *)
(* Daemons share the pid file, the socket that prometeoctl calls, the      *)
(* configuration file and the ports, one of each module.  A module is      *)
(* "mod_cfg", or one like mod_socks5, which quits when its clients are     *)
(* gone.  Where memory is used after it was freed, the daemon ends or goes *)
(* on.                                                                     *)
(***************************************************************************)
EXTENDS Naturals, Sequences, FiniteSets, SequencesExt

CONSTANTS Daemons,       \* processes of the daemon
          Modules,       \* the keys below root/Modules, in order
          Configs,       \* configurations: [module -> {"absent", "off", "on"}]
          MaxStarts,     \* bounds the starts
          MaxInstances,  \* bounds the modules of a daemon
          MaxOps         \* bounds the commands

Names == ToSet(Modules)

AdminAssumption ==
    /\ Modules \in Seq(STRING) /\ IsInjective(Modules)
    /\ Configs \subseteq [Names -> {"absent", "off", "on"}]
    /\ {MaxStarts, MaxInstances, MaxOps} \subseteq Nat

VARIABLE adm

-----------------------------------------------------------------------------
\* "run" is Core::Running, "next" the key that LoadModules() has come to, "silent"
\* a prometeoctl that is connected and says nothing.
NoDaemon == [phase |-> "off", run |-> FALSE, cfg |-> [n \in Names |-> "absent"], next |-> 1,
             mods |-> <<>>, cut |-> FALSE, missing |-> {}, silent |-> FALSE,
             told |-> FALSE, early |-> FALSE, twice |-> FALSE, reloaded |-> FALSE]

Init ==
    \E f \in Configs :
        adm = [pid |-> FALSE, sock |-> {}, d |-> [d \in Daemons |-> NoDaemon], file |-> f,
               starts |-> 0, ops |-> 0, raced |-> FALSE, left |-> FALSE, torn |-> {}]

Up(v, d) == v.d[d].phase \in {"created", "loading", "main"}

Running(v, d, name) == \E i \in 1..Len(v.d[d].mods) : v.d[d].mods[i].name = name

PortFree(v, name) ==
    \A d \in Daemons : \A i \in 1..Len(v.d[d].mods) :
        ~(v.d[d].mods[i].name = name /\ v.d[d].mods[i].listening)

\* The process ends without a word: its names stay.
Dead(v, d) == [v EXCEPT !.d[d] = [NoDaemon EXCEPT !.phase = "dead", !.told = v.d[d].told],
                        !.left = @ \/ Up(v, d)]

-----------------------------------------------------------------------------
\* Modules.

\* Loader::Load(): the module's Setup() reads the port and listens, if it can; it
\* never fails.
Load(v, d, name, force) ==
    IF v.d[d].cfg[name] = "on" \/ (force /\ v.d[d].cfg[name] = "off")
    THEN [v EXCEPT !.d[d].mods = Append(@, [name |-> name, listening |-> PortFree(v, name),
                                            busy |-> FALSE, quitting |-> FALSE])]
    ELSE v

\* The module's Cleanup().
Cleanup(v, d, i) ==
    IF v.d[d].mods[i].busy
    THEN [v EXCEPT !.d[d].mods[i] = [@ EXCEPT !.listening = FALSE, !.quitting = TRUE]]
    ELSE [v EXCEPT !.d[d].mods = RemoveAt(@, i)]

First(v, d, name) == SelectInSeq(v.d[d].mods, LAMBDA m : m.name = name)

\* Loader::Unload(): the first of that name.
Unload(v, d, name) == IF First(v, d, name) = 0 THEN v ELSE Cleanup(v, d, First(v, d, name))

\* Loader::CfgChanged(): a module that does not listen tries to, one that quits too.  Of those
\* of one name the first has the port.
CfgChanged(v, d) ==
    LET mods    == v.d[d].mods
        Free(i) == /\ PortFree(v, mods[i].name)
                   /\ \A j \in 1..(i - 1) : mods[j].name # mods[i].name
    IN [v EXCEPT !.d[d].mods =
            [i \in 1..Len(mods) |-> [mods[i] EXCEPT !.listening = @ \/ Free(i)]]]

\* Core::CfgReload()
CfgReload(v, d) ==
    CfgChanged([v EXCEPT !.d[d] = [@ EXCEPT !.cfg = v.file, !.reloaded = TRUE]], d)

-----------------------------------------------------------------------------
\* Starting and stopping.

Start(d) ==
    /\ adm.d[d].phase \in {"off", "dead"} /\ adm.starts < MaxStarts
    /\ adm' = [adm EXCEPT !.d[d] = [NoDaemon EXCEPT !.phase = "forked"], !.starts = @ + 1]

\* CheckPid() looks for the file, and then creates it.
CheckPid(d) ==
    /\ adm.d[d].phase = "forked"
    /\ adm' = [adm EXCEPT !.d[d].phase = IF adm.pid THEN "off" ELSE "alone"]

CreatePid(d) ==
    /\ adm.d[d].phase = "alone"
    /\ adm' = [adm EXCEPT !.d[d].phase = "created", !.pid = TRUE,
                          !.raced = @ \/ \E e \in Daemons \ {d} : adm.d[e].phase = "alone" \/ Up(adm, e)]

\* The configuration, the handlers of the signals, and the socket of prometeoctl,
\* whoever has it.
Open(d) ==
    /\ adm.d[d].phase = "created"
    /\ adm' = [adm EXCEPT !.d[d].phase = "loading", !.d[d].cfg = adm.file, !.sock = {d}]

\* LoadModules(), a module at a time; the tree it walks may be loaded again.
LoadModules(d) ==
    LET p == adm.d[d]
    IN /\ p.phase = "loading" /\ p.next <= Len(Modules) /\ ~p.cut
       /\ adm' = [Load(adm, d, Modules[p.next], FALSE) EXCEPT !.d[d].next = @ + 1]

MainLoop(d) ==
    LET p == adm.d[d]
    IN /\ p.phase = "loading" /\ (p.next > Len(Modules) \/ p.cut)
       /\ adm' = [adm EXCEPT !.d[d].phase = "main", !.d[d].run = TRUE,
                             !.d[d].missing = {n \in Names : p.cfg[n] = "on" /\ ~Running(adm, d, n)}]

\* SIGTERM and "stop"; a signal without its handler ends the process.
Quit(v, d) == [v EXCEPT !.d[d] = [@ EXCEPT !.run = FALSE, !.told = TRUE,
                                           !.early = v.d[d].phase # "main"]]

Signal(d) ==
    /\ adm.d[d].phase \notin {"off", "dead"} /\ adm.ops < MaxOps
    /\ adm' = [(IF adm.d[d].phase \in {"loading", "main"} THEN Quit(adm, d) ELSE Dead(adm, d))
               EXCEPT !.ops = @ + 1]

\* The end of Run(): both names go, whoever has them.
RunEnds(d) ==
    LET p == adm.d[d]
    IN /\ p.phase = "main" /\ ~p.run /\ ~p.silent
       /\ adm' = [adm EXCEPT !.d[d] = [NoDaemon EXCEPT !.told = p.told],
                             !.sock = {}, !.pid = FALSE, !.left = FALSE]

\* An exception, or SIGKILL.
Die(d) == adm.d[d].phase \notin {"off", "dead"} /\ adm.ops < MaxOps
          /\ adm' = [Dead(adm, d) EXCEPT !.ops = @ + 1]

-----------------------------------------------------------------------------
\* The main loop.

Working(d) == adm.d[d].phase = "main" /\ adm.d[d].run /\ ~adm.d[d].silent

Op(v) == adm.ops < MaxOps /\ adm' = [v EXCEPT !.ops = @ + 1]

\* SIGHUP
Hup(d) ==
    /\ adm.d[d].phase \in {"loading", "main"}
    /\ Op(CfgReload([adm EXCEPT !.d[d].cut = @ \/ adm.d[d].phase = "loading"], d))

\* CtrlIPC::NewConnection(): the daemon reads until the command is over.
Called(d) == Working(d) /\ adm.sock = {d}

Ctl(d) ==
    /\ Called(d)
    /\ \/ Op(Quit(adm, d))
       \/ \E name \in Names :
            \/ /\ Len(adm.d[d].mods) < MaxInstances
               /\ Op(Load([adm EXCEPT !.d[d].twice = @ \/ Running(adm, d, name)],
                          d, name, TRUE))
            \/ Op(Unload(adm, d, name))
       \/ Op([adm EXCEPT !.d[d].silent = TRUE])

\* A client that says nothing goes, or speaks at last.
CtlEnds(d) == adm.d[d].silent /\ adm' = [adm EXCEPT !.d[d].silent = FALSE]

\* Wrong: loaded whether it runs or not.
LoadModAny(v, d, name, load) ==
    IF load THEN Load(v, d, name, TRUE) ELSE Unload(v, d, name)

\* CfgData::LoadMod()
LoadMod(v, d, name, load) ==
    IF load THEN (IF Running(v, d, name) THEN v ELSE Load(v, d, name, TRUE)) ELSE Unload(v, d, name)

\* CfgData::DeleteMod()
DeleteMod(v, d, name) == [Unload(v, d, name) EXCEPT !.d[d].cfg[name] = "absent"]

\* CfgData::AddMod() and EnableMod()
EnableMod(v, d, name, how) == [v EXCEPT !.d[d].cfg[name] = how]

\* "apply": Registry::Save() and CfgReload().
Apply(v, d) == CfgReload([v EXCEPT !.file = v.d[d].cfg], d)

\* The instance of mod_cfg that has the request may be the one that is unloaded.
Cfg(d) ==
    /\ Working(d)
    /\ \E i \in 1..Len(adm.d[d].mods), name \in Names :
         /\ adm.d[d].mods[i].name = "mod_cfg" /\ adm.d[d].mods[i].listening
         /\ \/ \E v \in {LoadMod(adm, d, name, FALSE), DeleteMod(adm, d, name)} :
                 \/ Op([v EXCEPT !.torn = @ \cup IF First(adm, d, name) = i THEN {name} ELSE {}])
                 \/ First(adm, d, name) = i /\ Op([Dead(v, d) EXCEPT !.torn = @ \cup {name}])
            \/ Len(adm.d[d].mods) < MaxInstances /\ Op(LoadMod(adm, d, name, TRUE))
            \/ \E how \in {"on", "off"} : Op(EnableMod(adm, d, name, how))
            \/ Op(Apply(adm, d))

\* A module's clients come and go.
Client(d) ==
    \E i \in 1..Len(adm.d[d].mods) :
        /\ Working(d) /\ adm.d[d].mods[i].name # "mod_cfg"
        /\ adm.d[d].mods[i].listening \/ adm.d[d].mods[i].busy
        /\ adm' = [adm EXCEPT !.d[d].mods[i].busy = ~@]

\* Loader::OnTimer(), backwards: done[n] is what it has made of the last n.
OnTimer(d) ==
    LET mods == adm.d[d].mods
        done[n \in 0..Len(mods)] ==
            IF n = 0 THEN adm
            ELSE LET i == Len(mods) - n + 1
                 IN IF mods[i].quitting THEN Cleanup(done[n - 1], d, i) ELSE done[n - 1]
    IN /\ Working(d) /\ \E i \in 1..Len(mods) : mods[i].quitting
       /\ adm' = done[Len(mods)]

\* A user who finds the daemon dead removes the pid file.
Tidy == /\ adm.pid /\ adm.left /\ (\A d \in Daemons : adm.d[d].phase \in {"off", "dead"})
        /\ Op([adm EXCEPT !.pid = FALSE, !.left = FALSE])

Next ==
    \/ Tidy
    \/ \E d \in Daemons : \/ Start(d) \/ CheckPid(d) \/ CreatePid(d) \/ Open(d) \/ LoadModules(d)
                          \/ MainLoop(d) \/ Signal(d) \/ RunEnds(d) \/ Die(d) \/ Hup(d) \/ Ctl(d)
                          \/ CtlEnds(d) \/ Cfg(d) \/ Client(d) \/ OnTimer(d)

-----------------------------------------------------------------------------
\* core.cpp, CheckPid() and Run(): there is one daemon, it has the pid file and the socket
\* of prometeoctl, and when there is none only one that ended without a word has left them;
\* unless two looked for the file before one made it.
OneDaemon ==
    ~adm.raced =>
        /\ Cardinality({d \in Daemons : Up(adm, d)}) <= 1
        /\ \A d \in Daemons : Up(adm, d) => adm.pid /\ (adm.d[d].phase # "created" => adm.sock = {d})
        /\ adm.pid /\ (\A d \in Daemons : ~Up(adm, d)) => adm.left

\* loader.cpp, Load() and Unload(): a daemon has one instance of a module, which listens until
\* it quits and then no more; unless prometeoctl loaded it twice, a reload had it listen again,
\* or there are two daemons.
OneInstance ==
    \A d \in Daemons :
        LET p == adm.d[d]
        IN ~adm.raced /\ ~p.twice =>
             \A i \in 1..Len(p.mods) :
                 /\ \A j \in 1..(i - 1) : p.mods[i].name # p.mods[j].name
                 /\ p.mods[i].listening \/ p.mods[i].quitting
                 /\ p.mods[i].quitting /\ p.mods[i].listening => p.reloaded

\* loader.cpp, LoadModules(): all that is enabled runs at first, unless SIGHUP came meanwhile.
AllLoaded == \A d \in Daemons : adm.d[d].missing # {} => adm.d[d].cut

\* cfgdata.cpp, LoadMod() and DeleteMod(): a request ends in the module where it began, unless
\* mod_cfg itself was unloaded.
OnlyItself == adm.torn \subseteq {"mod_cfg"}

\* core.cpp, MainLoop(): a daemon that runs on although it was told to quit, by SIGTERM or by
\* prometeoctl, was told while it loaded its modules: that is forgotten, and nothing else is.
NoneForgotten ==
    \A d \in Daemons : LET p == adm.d[d]
                       IN p.phase = "main" /\ p.told /\ p.run => p.early

AdminSound == OneDaemon /\ OneInstance /\ AllLoaded /\ OnlyItself /\ NoneForgotten
=============================================================================
