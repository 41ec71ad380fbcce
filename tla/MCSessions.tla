----------------------------- MODULE MCSessions -----------------------------
(***************************************************************************)
(* The children of mod_socks5, mod_ftp, mod_pop3 and mod_ssl are separate  *)
(* processes that share nothing; one run checks them, each behaviour the   *)
(* sessions of one of them.                                                *)
(***************************************************************************)
EXTENDS Integers, Sequences

CONSTANTS Requests, CharMax, BufSize, Room, MaxPayload,
          Configs, Commands, MaxCmds, MaxDepth, Blocks,
          Mails, PopCommands, PopMaxCmds,
          Cap, MaxSize, MaxRecord, MaxSent

\* The values of three of them in the run, where a char is at most 3: a
\* length of 4, 6 or 7 is -4, -2 or -1.
MCRequests ==
    [nmethods : {1, 2}, noauth : {TRUE}, atyp : {"ipv4", "domain"}, dlen : {1},
     cmd : {"connect", "bind"}]
    \cup [nmethods : {1}, noauth : BOOLEAN, atyp : {"ipv4", "ipv6", "other"},
          dlen : {1}, cmd : {"other"}]
    \cup [nmethods : {1}, noauth : {TRUE}, atyp : {"domain"}, dlen : {4, 6, 7},
          cmd : {"connect"}]
    \cup [nmethods : {4}, noauth : {TRUE}, atyp : {"ipv6"}, dlen : {1},
          cmd : {"connect"}]
MCConfigs == {{}, {"try"}, {"try", "require", "data"}}
MCMails   == {<<0>>, <<0, 1>>, <<0, 0, 2>>, <<1, 0>>}

VARIABLES
    part,
    mode, state, connected, cmdLen, req, sent, read, here, server, peer,
    left, back, toPeer, unreadUp, lost, fromPeer, given, unreadDown, lostDown,
    replies,
    ftp,
    pop,
    parent, size, written, kind, running, taken, made, got,
    phase, session, user, target, net, pending, fromUser, nTarget, toUser,
    inUser, nUser, hand, toTarget, inTarget, missed

Socks  == INSTANCE Socks5Client
Ftp    == INSTANCE FtpClient
Pop    == INSTANCE Pop3Client WITH Commands <- PopCommands,
                                   MaxCmds <- PopMaxCmds
Filter == INSTANCE CmdFilter
Ssl    == INSTANCE SslClient

ASSUME SessionsAssumption ==
    /\ Socks!Socks5Assumption /\ Ftp!FtpAssumption /\ Pop!Pop3Assumption
    /\ Filter!CmdFilterAssumption /\ Ssl!SslAssumption

socksVars  == <<mode, state, connected, cmdLen, req, sent, read, here, server,
                peer, left, back, toPeer, unreadUp, lost, fromPeer, given,
                unreadDown, lostDown, replies>>
filterVars == <<parent, size, written, kind, running, taken, made, got>>
sslVars    == <<phase, session, user, target, net, pending, fromUser, nTarget,
                toUser, inUser, nUser, hand, toTarget, inTarget, missed>>

vars == <<part, socksVars, ftp, pop, filterVars, sslVars>>

Init ==
    /\ part \in {"socks", "ftp", "pop", "filter", "ssl"}
    /\ Socks!Init /\ Ftp!Init /\ Pop!Init /\ Filter!Init /\ Ssl!Init

Next ==
    /\ part' = part
    /\ \/ /\ part = "socks" /\ Socks!Next
          /\ UNCHANGED <<ftp, pop, filterVars, sslVars>>
       \/ /\ part = "ftp" /\ Ftp!Next
          /\ UNCHANGED <<socksVars, pop, filterVars, sslVars>>
       \/ /\ part = "pop" /\ Pop!Next
          /\ UNCHANGED <<socksVars, ftp, filterVars, sslVars>>
       \/ /\ part = "filter" /\ Filter!Next
          /\ UNCHANGED <<socksVars, ftp, pop, sslVars>>
       \/ /\ part = "ssl" /\ Ssl!Next
          /\ UNCHANGED <<socksVars, ftp, pop, filterVars>>

Spec == /\ Init /\ [][Next]_vars
        /\ Socks!Fairness /\ Ftp!Fairness /\ Filter!Fairness /\ Ssl!Fairness

-----------------------------------------------------------------------------
\* What a relay reads on one side it writes on the other, in full and no
\* more, unless that side has gone; SSL keeps back the rest of one record.
RelaysExact ==
    Socks!RelayExact /\ Ssl!SentUnlessGone /\ Ssl!StallsWithinRecord

\* What a user was answered is in step with what he asked and what was done.
AnswersInStep == Socks!AnswersMatch /\ Ftp!InStep /\ Pop!InStep

\* A transfer that is reported complete is, a message that is retrieved is
\* the one the server has, a filter's output is used to its end.
DataHonest == Ftp!Honest /\ Pop!MailKept /\ Filter!FilterWhole

\* Only the sequences that are known make a child crash or betray a name.
ChildrenSafe == Ftp!CrashCaused /\ Ftp!NameHidden /\ Pop!CrashCaused

\* Sessions whose user has gone end, filters end, and what a target sent
\* before it closed is delivered.
SessionsEnd ==
    /\ Socks!GoneUserFreesChild /\ Ftp!GoneUserEnds
    /\ Filter!FilterEnds /\ Ssl!TargetDelivers
=============================================================================
