------------------------------- MODULE Daemon -------------------------------
(***************************************************************************)
(* Parts of the daemon: the life of a child process (ProcessLife), how     *)
(* daemons are started, told what to do and stopped (Admin), and how       *)
(* mod_cfg reads a request (CfgRequest).  Each behaviour is one of them.   *)
(***************************************************************************)
EXTENDS ProcessLife

CONSTANTS Daemons, Modules, Configs, MaxStarts, MaxInstances, MaxOps,
          Requests, Junk, BufSize

VARIABLES part, adm, req

Control == INSTANCE Admin
Browser == INSTANCE CfgRequest

ASSUME DaemonAssumption == Control!AdminAssumption /\ Browser!CfgRequestAssumption

runVars == <<part, vars, adm, req>>

\* There is no child where it is not about one.
RunInit ==
    /\ Init
    /\ \/ part = "life"    /\ adm = 0       /\ req = 0
       \/ part = "control" /\ Control!Init  /\ req = 0
       \/ part = "browser" /\ Browser!Init  /\ adm = 0

RunNext ==
    /\ part' = part
    /\ \/ part = "life"    /\ Next          /\ UNCHANGED <<adm, req>>
       \/ part = "control" /\ Control!Next  /\ UNCHANGED <<vars, req>>
       \/ part = "browser" /\ Browser!Next  /\ UNCHANGED <<vars, adm>>

RunSpec == RunInit /\ [][RunNext]_runVars

-----------------------------------------------------------------------------
\* core.cpp, loader.cpp, ctrlipc.cpp and cfgdata.cpp: one daemon, with one instance of each
\* module, all that are enabled, each listening until it quits.
AdminSound == part = "control" => Control!AdminSound

\* cfgdata.cpp: a request is answered once, as it was sent, but for a header in several pieces.
RequestSound == part = "browser" => Browser!RequestRight
=============================================================================
