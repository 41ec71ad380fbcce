------------------------------ MODULE MCDaemon ------------------------------
(***************************************************************************)
(* Parts of the daemon that share one run: those of Daemon, the settings,  *)
(* and the forms of mod_cfg.  Each behaviour is one of them.               *)
(***************************************************************************)
EXTENDS Daemon, Sequences, FiniteSets

CONSTANTS
    MaxDepth, MaxLoads,
    MaxForms

VARIABLES reg, frm

Key(path, val) == [path |-> path, val |-> val]

\* A key whose name begins with that of the next.
Trees == {<<Key(<<>>, <<>>), Key(<<<<"a", "b">>>>, <<"x", "y">>), Key(<<<<"a">>>>, <<"z">>)>>}
Paths == {<<<<"r", "o", "o", "t">>, <<"a">>>>, <<<<"r", "o", "o", "t">>, <<"a">>, <<"d">>>>,
          <<<<"a">>>>, <<<<"d">>>>}
Texts == {<<"x">>, <<"<">>}

MCModules == <<"mod_socks5", "mod_cfg">>
MCConfigs == {[mod_socks5 |-> how, mod_cfg |-> "on"] : how \in {"on", "off"}}

Ask(method, headers, body) == [method |-> method, headers |-> headers, body |-> body]
MCRequests ==
    {Ask("GET", <<"auth">>, <<>>), Ask("GET", <<"other", "other", "auth">>, <<>>),
     Ask("GET", <<"auth", "other">>, <<>>), Ask("GET", <<"length", "auth">>, <<"b">>),
     Ask("POST", <<"auth", "length">>, <<"b", "nl">>), Ask("POST", <<"length">>, <<"b", "b">>),
     Ask("POST", <<"auth">>, <<"b">>), Ask("POST", <<"length", "auth">>, <<>>),
     Ask("POST", <<"length", "auth">>, <<"b", "b", "b">>),
     Ask("PUT", <<>>, <<>>), Ask("up", <<>>, <<>>), Ask("long", <<>>, <<>>),
     Ask("none", <<"auth">>, <<>>)}

\* A name, one that begins like it, and none.
Names == {<<>>, <<"a">>, <<"a", "b">>}

Settings == INSTANCE Registry
Pages    == INSTANCE CfgForms

ASSUME Settings!RegistryAssumption /\ Pages!CfgFormsAssumption

allVars == <<part, vars, reg, adm, req, frm>>

NoSettings == reg = 0 /\ frm = 0
settingsVars == <<reg, frm>>

DaemonInit ==
    \/ RunInit /\ NoSettings
    \/ /\ Init /\ adm = 0 /\ req = 0
       /\ \/ part = "settings" /\ Settings!Init /\ frm = 0
          \/ part = "forms"    /\ Pages!Init    /\ reg = 0

DaemonNext ==
    \/ RunNext /\ UNCHANGED settingsVars
    \/ /\ part' = part /\ UNCHANGED <<vars, adm, req>>
       /\ \/ part = "settings" /\ Settings!Next /\ UNCHANGED frm
          \/ part = "forms"    /\ Pages!Next    /\ UNCHANGED reg

DaemonSpec == DaemonInit /\ [][DaemonNext]_allVars /\ Fairness

-----------------------------------------------------------------------------
\* registry.cpp and cfgdata.cpp: settings are what was written, a key is the one that was
\* asked for, and mod_cfg reads what the browser sent and does it to the entry that its page
\* showed, but for the causes named in the parts.
ConfigRight ==
    /\ part = "settings" => Settings!RegistrySound
    /\ part = "forms" => Pages!FormsSound
    /\ RequestSound
=============================================================================
