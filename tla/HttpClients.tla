---------------------------- MODULE HttpClients ----------------------------
(***************************************************************************)
(* Two parts of the HTTP proxy that meet in FindConnection(): a client and *)
(* its connections (HttpSession), which abstracts from what the proxy      *)
(* keeps of a server, and the connections that it keeps (ConnectionMgr).   *)
(* Each behaviour is one of them.                                          *)
(***************************************************************************)
EXTENDS Naturals, Sequences

CONSTANTS Scripts, MaxUnits, Socks, MaxConns, NoSock

VARIABLES part, h, conn, where

Session == INSTANCE HttpSession
Pool    == INSTANCE ConnectionMgr

ASSUME HttpClientsAssumption ==
    Session!HttpSessionAssumption /\ Pool!ConnectionMgrAssumption

poolVars   == <<conn, where>>
clientVars == <<h, poolVars>>

NoPool    == conn = 0 /\ where = 0
NoClients == h = 0 /\ NoPool

ClientsInit ==
    \/ part = "session" /\ Session!Init /\ NoPool
    \/ part = "pool"    /\ h = 0 /\ Pool!Init

ClientsNext ==
    /\ part' = part
    /\ \/ part = "session" /\ Session!Next /\ UNCHANGED poolVars
       \/ part = "pool"    /\ Pool!Next    /\ UNCHANGED h

ClientsSpec == ClientsInit /\ [][ClientsNext]_<<part, clientVars>>

-----------------------------------------------------------------------------
\* What belongs to a client is freed once, after its last use.
SessionSafe == part = "session" => Session!SessionSafe

\* A connection that is kept can be found and is accounted for.
PoolSound == part = "pool" => Pool!PoolSound
=============================================================================
