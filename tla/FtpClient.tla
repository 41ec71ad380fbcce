----------------------------- MODULE FtpClient -----------------------------
(***************************************************************************)
(* One child of mod_ftp and the session it serves.  The child is one       *)
(* sequential program: it sleeps in WaitEvents(), and a handler may call    *)
(* WaitEvents() again while it waits for a data connection, so that the    *)
(* handlers nest; `stack' holds the calls.  A handler is an operator from   *)
(* a session to the set of the sessions it can lead to, which differ by    *)
(* what the server answers and by which system calls fail.                 *)
(***************************************************************************)
EXTENDS Naturals, Integers, Sequences

CONSTANTS
    Configs,    \* the settings tried: subsets of {"try", "require", "data"}
    Commands,   \* the commands users send
    MaxCmds,    \* commands in a session (a bound)
    MaxDepth,   \* calls of WaitEvents() inside one another (a bound)
    Blocks      \* blocks of data in a transfer

FtpAssumption ==
    /\ \A k \in Configs : k \subseteq {"try", "require", "data"}
    /\ MaxCmds \in Nat /\ MaxDepth \in Nat \ {0} /\ Blocks \in Nat

VARIABLE ftp   \* the session:
(* mode    "idle" in select(), "serving", "spinning", "crashed"            *)
(* stack   calls of WaitEvents(): "loop", "server", "client"               *)
(* back    the innermost WaitEvents() has returned                         *)
(* flags   FTPFlags; cfg, those of the configuration                       *)
(* here    the user has not closed; userfd FALSE: the dispatcher has the   *)
(*         deleted socket under the user's descriptor                      *)
(* srv     Server: "none", "up", "gone" (closed by the server)             *)
(* tls     the connection to the server is encrypted, clear: the user's    *)
(*         name was sent when it was not                                   *)
(* owed    replies the server has sent that are not read                   *)
(* sd, ud  ServerData, UserData: "null", "listening", "connected",         *)
(*         "broken", "dangling"                                            *)
(* xfer    the server's side of a transfer: "no", "down" or "up" once it   *)
(*         said it opens it; left: blocks not yet sent by their sender     *)
(* lost    a block went to a socket that is not connected                  *)
(* due     replies the user is owed                                        *)
(* claim   what the last 226 was worth: "none", "running", "whole",        *)
(*         "short"                                                         *)
(* causes  the ways in which this session left the protocol                *)
(* n       commands so far                                                 *)

Flags == {"CONNECTED", "LOGGED_IN", "CLI_DATA_TLS", "PBSZ", "SRV_TLS",
          "SRV_DATA_TLS", "PASV", "PORT", "BLOCK", "SERVER_ACCEPT",
          "CLIENT_ACCEPT"}

Set(s, F)   == [s EXCEPT !.flags = @ \cup F]
Clear(s, F) == [s EXCEPT !.flags = @ \ F]
IsSet(s, F) == s.flags \cap F # {}
Cause(s, x) == [s EXCEPT !.causes = @ \cup {x}]

Reply(s)  == [s EXCEPT !.due = @ - 1]
Crash(s)  == [s EXCEPT !.mode = "crashed"]
Drop(s)   == [s EXCEPT !.sd = "null", !.ud = "null"]

\* The server, which sees a command, answers with one of R; it is gone
\* or silent, and then the child reads what was left unread, if anything.
Send(s, R) ==
    IF s.srv = "up" THEN {[s EXCEPT !.owed = Append(@, r)] : r \in R} ELSE {s}

\* RecvStatus(): the code and the session after it.  With nothing to come
\* the read ends when the server closes, whatever TIMEOUT_REPLY says.
RecvStatus(s) ==
    IF s.owed = <<>>
    THEN <<"221", IF s.srv = "up" THEN Cause([s EXCEPT !.srv = "gone"], "silence")
                  ELSE s>>
    ELSE <<Head(s.owed), [s EXCEPT !.owed = Tail(@)]>>

Ask(s, R) == {RecvStatus(t) : t \in Send(s, R)}

NoSession ==
    [mode |-> "idle", stack |-> <<>>, back |-> FALSE, flags |-> {}, cfg |-> {},
     here |-> FALSE, userfd |-> TRUE, srv |-> "none", tls |-> FALSE,
     clear |-> FALSE, owed |-> <<>>, sd |-> "null", ud |-> "null",
     xfer |-> "no", left |-> 0, lost |-> FALSE, due |-> 0, claim |-> "none",
     causes |-> {}, n |-> 0]

-----------------------------------------------------------------------------
\* The control connection.

AttemptTLSLogin(s) ==
    LET Give(t) == IF "require" \in t.cfg THEN <<FALSE, Reply(t)>>
                   ELSE <<TRUE, t>>
        Up(t)   == Set([t EXCEPT !.tls = TRUE], {"SRV_TLS"})
        Prot(t) ==
            IF "data" \notin t.cfg THEN {<<TRUE, t>>}
            ELSE UNION {IF p[1] # "200" THEN {<<TRUE, p[2]>>}
                        ELSE {<<TRUE, IF q[1] = "200"
                                      THEN Set(q[2], {"SRV_DATA_TLS"})
                                      ELSE q[2]>> : q \in Ask(p[2], {"200", "500"})}
                        : p \in Ask(t, {"200", "500"})}
    IN UNION {IF a[1] # "234" THEN {Give(a[2])}
              ELSE Prot(Up(a[2])) \cup {Give(b[2]) : b \in Ask(a[2], {"500"})}
              : a \in Ask(s, {"234", "500"})}

\* LastReply goes to the user, and it is empty when the server has gone.
PassOn(a) ==
    IF a[1] = "230" THEN Set(Reply(a[2]), {"LOGGED_IN"})
    ELSE IF a[1] = "221" THEN Cause(a[2], "gone") ELSE Reply(a[2])

\* What a USER that is accepted, wants a password, or is refused leads to.
Login(s) ==
    {Set(PassOn(a), {"CONNECTED"})
     : a \in Ask([s EXCEPT !.clear = @ \/ ~s.tls], {"230", "331", "500"})}

ServerLogin(s) ==
    UNION {IF g[1] # "220" THEN {Cause(g[2], "greeting")}
           ELSE IF "try" \notin s.cfg THEN Login(g[2])
           ELSE UNION {IF t[1] THEN Login(t[2]) ELSE {t[2]}
                       : t \in AttemptTLSLogin(g[2])}
           : g \in Ask(s, {"220", "500"})}

\* A second USER forgets the socket of the first, and keeps its flags.
ConnectToServer(s) ==
    LET off == Clear(s, {"CONNECTED"})
        new == [off EXCEPT !.srv = "up", !.tls = FALSE, !.owed = <<>>,
                           !.xfer = "no"]
    IN {Reply(off)}                           \* it cannot be resolved
       \cup {Reply([new EXCEPT !.srv = "gone"])}   \* or not be connected
       \cup ServerLogin(IF s.srv = "none" THEN new ELSE Cause(new, "relogin"))

\* ForwardReply() stops at the first line without a dash, so the last line
\* of a reply with other lines in it stays unread; and when the server goes
\* after a line with a dash it never stops.
ForwardReply(s) ==
    LET t == Reply(s)
    IN IF s.owed = <<>> THEN {[t EXCEPT !.srv = "gone"]}
       ELSE IF Head(s.owed) # "multi" THEN {[t EXCEPT !.owed = Tail(@)]}
       ELSE {Cause([t EXCEPT !.owed = <<"200">> \o Tail(@)], "multi"),
             [t EXCEPT !.mode = "spinning", !.srv = "gone"]}

ForwardCmd(s) == UNION {ForwardReply(t) : t \in Send(s, {"200", "multi"})}

\* AUTH is refused, or accepted before the handshake.  The socket that is
\* wrapped loses its descriptor before it is deleted, and so stays in the
\* dispatcher's table; a handshake that fails is a second reply.
CmdAuth(s) ==
    {Reply(s),
     Cause(Reply([s EXCEPT !.userfd = FALSE]), "auth"),
     Cause(Reply(Reply(s)), "handshake")}

CmdPass(s) ==
    IF s.srv = "none" THEN {Crash(Cause(s, "pass"))}
    ELSE {PassOn(a) : a \in Ask(s, {"230", "500"})}

CmdPbsz(s) == {Reply(s), Set(Reply(s), {"PBSZ"})}

CmdProt(s) ==
    IF ~IsSet(s, {"PBSZ"}) THEN {Reply(s)}
    ELSE LET t == Clear(Reply(s), {"PBSZ"})
         IN {Set(t, {"CLI_DATA_TLS"}), Clear(t, {"CLI_DATA_TLS"})}

-----------------------------------------------------------------------------
\* The data connections.

\* `delete' of a pointer that was deleted before.
Delete(s) == IF s.ud = "dangling" THEN {s, Crash(s)} ELSE {s}

SetupServerDataConnection(s) ==
    {<<FALSE, [s EXCEPT !.sd = "null"]>>}
    \cup {<<a[1] = "200", [a[2] EXCEPT !.sd = IF a[1] = "200" THEN "listening"
                                              ELSE "null"]>>
          : a \in Ask(s, {"200", "500"})}

Listening(s) ==
    {Set(Reply([s EXCEPT !.ud = "listening"]), {"PASV"}),
     Reply([s EXCEPT !.ud = "null"])}

CmdPasv(s) ==
    UNION {IF p[1] THEN UNION {Listening(t) : t \in Delete(p[2])}
           ELSE {Reply(p[2])} : p \in SetupServerDataConnection(s)}

\* EPSV deletes UserData first and sets it only where it creates another.
\* EPSV ALL is not answered.
CmdEpsv(s) ==
    LET gone(t) == IF t.ud = "null" THEN t ELSE [t EXCEPT !.ud = "dangling"]
        all(t)  == Cause(Set(t, {"BLOCK"}), "epsv all")
        try(t)  == UNION {IF p[1] THEN Listening(p[2])
                          ELSE {Cause(Reply(p[2]), "epsv")}
                          : p \in SetupServerDataConnection(t)}
    IN UNION {IF t.mode = "crashed" THEN {t}
              ELSE {all(gone(t)), Cause(Reply(gone(t)), "epsv")} \cup try(gone(t))
              : t \in Delete(s)}

CmdPort(s) ==
    {Reply(s)} \cup
    {IF p[1] THEN Set(Reply(p[2]), {"PORT"}) ELSE Reply(p[2])
     : p \in SetupServerDataConnection(s)}

\* ABOR is passed on, its reply is not.
CmdAbor(s) ==
    LET t == Clear(s, {"PORT", "PASV"})
        q == [t EXCEPT !.owed = IF t.xfer # "no" /\ t.srv = "up"
                                THEN Append(@, "426") ELSE @, !.xfer = "no"]
    IN UNION {{Cause(Drop(u), "abor") : u \in Delete(a[2])} : a \in Ask(q, {"226"})}

\* Tell the server to give up; its reply stays unread.
Abort(s) == {Cause([t EXCEPT !.sd = "null", !.xfer = "no"], "aborted")
             : t \in Send(s, {"226"})}

CannotOpen(s) == {Reply(t) : t \in Abort(s)}

\* DataConnectionCmd() after the server's end is there.
Opened(s) == {[s EXCEPT !.claim = "running"]}

\* Wrong: the two sockets are deleted and the pointers are kept.
NotOpenedKeeps(s) ==
    UNION {{Reply([u EXCEPT !.xfer = "no", !.sd = "null", !.ud = "dangling"])
            : u \in Delete(a[2])} : a \in Ask(s, {"226"})}

NotOpened(s) ==
    UNION {{Reply(Drop([u EXCEPT !.xfer = "no"])) : u \in Delete(a[2])}
           : a \in Ask(IF s.xfer = "no" THEN s
                       ELSE Cause(s, "aborted"), {"226"})}

OpenClientDataConnection(s) ==
    UNION {IF t.mode = "crashed" THEN {t}
           ELSE Opened([t EXCEPT !.ud = "connected"])
                \cup NotOpened([t EXCEPT !.ud = "broken"])
           : t \in Delete(s)}

\* The accept flag of an earlier PASV is taken for one of this.
ClientAccepted(s) ==
    LET t == Clear(s, {"CLIENT_ACCEPT"})
    IN IF s.ud = "null" THEN NotOpened(t)
       ELSE Opened(IF s.ud = "connected" THEN t ELSE Cause(t, "stale accept"))

WaitClientDataConnection(s) ==
    IF IsSet(s, {"CLIENT_ACCEPT"}) THEN ClientAccepted(s)
    ELSE {[IF s.ud = "null" THEN Cause(s, "no end") ELSE s
           EXCEPT !.stack = Append(@, "client"), !.back = FALSE]}

ServerReady(s) ==
    IF IsSet(s, {"PORT"}) THEN OpenClientDataConnection(s)
    ELSE IF IsSet(s, {"PASV"}) THEN WaitClientDataConnection(s)
    ELSE NotOpened(s)

\* OpenServerDataConnection() up to its wait, with the server's answers: it
\* opens the connection after a 150, or after a 125, which is not known.
OpenServerDataConnection(s, dir) ==
    UNION {LET t == a[2]
           IN IF a[1] = "150"
              THEN {[t EXCEPT !.xfer = IF t.sd = "null" THEN "no" ELSE dir,
                              !.left = Blocks, !.lost = FALSE,
                              !.stack = Append(@, "server"), !.back = FALSE]}
              ELSE IF a[1] = "125"
              THEN {Cause(Reply([t EXCEPT !.xfer = dir, !.left = Blocks,
                                       !.lost = FALSE]), "125")}
              ELSE {Reply(t)}
           : a \in Ask(s, {"150", "500"} \cup
                          (IF s.sd = "listening" THEN {"125"} ELSE {}))}

DataConnectionCmd(s, dir) ==
    IF IsSet(s, {"BLOCK"}) \/ ~IsSet(s, {"PORT", "PASV"}) THEN {Reply(s)}
    ELSE OpenServerDataConnection(s, dir)
-----------------------------------------------------------------------------
DispatchCmd(s, cmd) ==
    CASE cmd = "AUTH" -> CmdAuth(s)
      [] cmd = "USER" -> {Reply(s)} \cup ConnectToServer(s)
      [] cmd = "PASS" -> CmdPass(s)
      [] cmd = "QUIT" -> {Clear(Reply(s), {"CONNECTED"})}
      [] cmd \notin {"AUTH", "USER", "PASS", "QUIT"} /\ ~IsSet(s, {"LOGGED_IN"})
                      -> {Reply(s)}
      [] OTHER ->
           CASE cmd = "PBSZ" -> CmdPbsz(s)
             [] cmd = "PROT" -> CmdProt(s)
             [] cmd = "PASV" -> CmdPasv(s)
             [] cmd = "EPSV" -> CmdEpsv(s)
             [] cmd = "PORT" -> CmdPort(s)
             [] cmd = "ABOR" -> CmdAbor(s)
             [] cmd = "NOOP" -> ForwardCmd(s)
             [] cmd = "RETR" -> DataConnectionCmd(s, "down")
             [] cmd = "STOR" -> DataConnectionCmd(s, "up")
             [] OTHER        -> {Reply(s)}

\* What the callers do when the innermost WaitEvents() returns.
ServerReturn(s) ==
    LET pop == [s EXCEPT !.stack = SubSeq(@, 1, Len(@) - 1)]
    IN IF IsSet(s, {"SERVER_ACCEPT"})
       THEN LET t == Clear(pop, {"SERVER_ACCEPT"})
            IN IF s.sd # "null" THEN ServerReady(t) ELSE CannotOpen(t)
       ELSE IF s.sd = "null" THEN CannotOpen(pop)
       ELSE {[s EXCEPT !.back = FALSE]}

ClientReturn(s) ==
    LET pop == [s EXCEPT !.stack = SubSeq(@, 1, Len(@) - 1)]
    IN IF IsSet(s, {"CLIENT_ACCEPT"}) THEN ClientAccepted(pop)
       ELSE IF s.ud = "null" THEN NotOpened(pop)
       ELSE {[s EXCEPT !.back = FALSE]}

\* Dispatch() cleans up, WaitRequest() clears what is not configuration.
LoopReturn(s) ==
    IF IsSet(s, {"CONNECTED"}) THEN {[s EXCEPT !.back = FALSE]}
    ELSE {IF t.mode = "crashed" THEN t ELSE NoSession : t \in Delete(s)}

Top(s) == s.stack[Len(s.stack)]

WaitReturns(s) ==
    CASE Top(s) = "loop"   -> LoopReturn(s)
      [] Top(s) = "server" -> ServerReturn(s)
      [] Top(s) = "client" -> ClientReturn(s)

\* The timer of the innermost wait.
TimedOut(s) ==
    LET pop == [s EXCEPT !.stack = SubSeq(@, 1, Len(@) - 1), !.back = TRUE]
    IN CASE Top(s) = "loop"   -> {[Clear(s, {"CONNECTED"}) EXCEPT !.back = TRUE]}
         [] Top(s) = "server" -> CannotOpen(pop)
         [] Top(s) = "client" -> NotOpened(Clear(pop, {"CLIENT_ACCEPT"}))

\* ForwardData() with data: one end to the other, whatever that other is,
\* and also while the user's connection is still waited for.
ForwardBlock(s, to) ==
    LET t == IF Top(s) = "client" THEN Cause(s, "early") ELSE s
    IN IF to = "null" THEN {Crash(t)}
       ELSE {[t EXCEPT !.left = @ - 1, !.lost = @ \/ to # "connected"]}

\* And without: both ends are closed, and the user is told 226 whatever
\* the server says.
ForwardEnd(s, whole) ==
    LET a == RecvStatus(s)
        good == whole /\ ~s.lost /\ a[1] = "226"
        v == IF a[1] = "226" THEN a[2] ELSE Cause(a[2], "status")
        t == IF s.claim = "running" THEN v ELSE Cause(v, "unasked")
    IN {IF u.mode = "crashed" THEN u
        ELSE Reply([Drop(u) EXCEPT !.xfer = "no", !.claim = IF good THEN "whole"
                                                            ELSE "short"])
        : u \in Delete(t)}

Init == ftp = NoSession

Begin ==
    /\ ftp.mode = "idle"
    /\ \E k \in Configs :
         ftp' = [NoSession EXCEPT !.mode = "serving", !.stack = <<"loop">>,
                                !.flags = {"CONNECTED"}, !.cfg = k, !.here = TRUE]

Serving == ftp.mode = "serving"

\* A command, also one that comes while another waits.  The user's
\* descriptor is the lowest, so it is the first of those that are ready.
UserCommand ==
    /\ Serving /\ ~ftp.back /\ ftp.here /\ ftp.userfd /\ ftp.n < MaxCmds
    /\ Len(ftp.stack) <= MaxDepth
    /\ \E cmd \in Commands :
         LET s == [ftp EXCEPT !.n = @ + 1, !.due = @ + 1, !.back = TRUE]
         IN ftp' \in DispatchCmd(IF Len(ftp.stack) > 1 \/ ftp.claim = "running"
                               THEN Cause(s, "nested") ELSE s, cmd)

UserLeaves == Serving /\ ftp.here /\ ftp' = [ftp EXCEPT !.here = FALSE]

\* The end of the user's stream stays readable: WaitEvents() always returns.
UserEof ==
    /\ Serving /\ ~ftp.here /\ ftp.userfd /\ ~ftp.back
    /\ ftp' = [Clear(ftp, {"CONNECTED"}) EXCEPT !.back = TRUE]

\* An event for the socket that CmdAuth() deleted.
UserDeleted ==
    /\ Serving /\ ~ftp.userfd /\ ~ftp.back
    /\ ftp' \in {Crash(ftp), [ftp EXCEPT !.back = TRUE]}

Return == Serving /\ ftp.back /\ ftp' \in WaitReturns(ftp)

Timeout == Serving /\ ~ftp.back /\ ftp.here /\ ftp' \in TimedOut(ftp)

\* accept() and the handshake give a socket or not.
AcceptUserData ==
    /\ Serving /\ ftp.ud = "listening" /\ ftp.here
    /\ \E to \in {"connected", "null"} :
         ftp' = [Set(ftp, {"CLIENT_ACCEPT"}) EXCEPT !.ud = to, !.back = TRUE]

AcceptServerData ==
    /\ Serving /\ ftp.sd = "listening" /\ ftp.xfer # "no" /\ ftp.srv = "up"
    /\ LET t == [Set(ftp, {"SERVER_ACCEPT"}) EXCEPT !.back = TRUE]
       IN ftp' \in {[t EXCEPT !.sd = "connected"],
                  [t EXCEPT !.sd = "null", !.xfer = "no", !.owed = Append(@, "425")]}

ServerCannotConnect ==
    /\ Serving /\ ftp.sd = "listening" /\ ftp.xfer # "no" /\ ftp.srv = "up"
    /\ ftp' = [ftp EXCEPT !.xfer = "no", !.owed = Append(@, "425")]

ServerDrops ==
    /\ Serving /\ ftp.srv = "up"
    /\ ftp' = [ftp EXCEPT !.srv = "gone"]

Busy == Serving /\ ~ftp.back

ServerBlock ==
    /\ Busy /\ ftp.xfer = "down" /\ ftp.sd = "connected" /\ ftp.left > 0
    /\ ftp' \in ForwardBlock([ftp EXCEPT !.back = TRUE], ftp.ud)

UserBlock ==
    /\ Busy /\ ftp.xfer = "up" /\ ftp.ud = "connected" /\ ftp.left > 0
    /\ ftp.claim = "running"
    /\ ftp' \in ForwardBlock([ftp EXCEPT !.back = TRUE], ftp.sd)

\* The server closes its end, at the end of a file or before it.
ServerEnds ==
    /\ Busy /\ ftp.xfer # "no" /\ ftp.sd = "connected"
    /\ LET done == ftp.xfer = "down" /\ ftp.left = 0
           t == [ftp EXCEPT !.back = TRUE,
                          !.owed = IF ftp.srv # "up" THEN @
                                   ELSE Append(@, IF done THEN "226" ELSE "426")]
       IN ftp' \in ForwardEnd(IF done THEN t ELSE Cause(t, "cut"), done)

\* The user closes his: the server of an upload takes that for its end.
UserEnds ==
    /\ Busy /\ ftp.ud = "connected"
    /\ LET done == ftp.xfer = "up" /\ ftp.left = 0
           t == [ftp EXCEPT !.back = TRUE,
                          !.owed = IF ftp.xfer = "no" \/ ftp.srv # "up" THEN @
                                   ELSE Append(@, IF ftp.xfer = "up" THEN "226"
                                                  ELSE "426")]
       IN ftp' \in ForwardEnd(IF done THEN t ELSE Cause(t, "cut"), done)

Next ==
    \/ Begin \/ UserCommand \/ UserLeaves \/ UserEof \/ UserDeleted
    \/ Return \/ Timeout \/ AcceptUserData \/ AcceptServerData
    \/ ServerCannotConnect \/ ServerDrops \/ ServerBlock \/ UserBlock
    \/ ServerEnds \/ UserEnds

\* select() reports the end of the user's stream each time.
Fairness == WF_ftp(UserEof) /\ WF_ftp(Return)

Spec == Init /\ [][Next]_ftp /\ Fairness

-----------------------------------------------------------------------------
AtRest == Serving /\ ftp.stack = <<"loop">> /\ ftp.claim # "running"

\* When nothing is going on the user has had as many replies as commands and
\* none of the server's is unread.  What puts them out of step is known: a
\* server that says nothing or is no FTP server, the commands whose reply is
\* left unread or not passed on (ABOR, EPSV, EPSV ALL, a transfer that is
\* given up), a reply of several lines, a 125, a command in the middle of
\* another, an end of data that nobody asked for, and an AUTH that is
\* accepted with 234 and then refused with 550.
InStep ==
    AtRest => \/ ftp.due = 0 /\ ftp.owed = <<>>
              \/ ftp.causes \cap {"greeting", "epsv", "epsv all", "abor", "multi",
                                "gone", "125", "aborted", "nested", "unasked",
                                "silence", "stale accept", "handshake"} # {}

\* "226 Transfer complete" is the truth: all was sent, it all went to a
\* socket that was connected, and the server said so.  It is not when a side
\* cut the transfer, when data came before the user's connection did, when
\* the server said something else, and after commands that overlapped.
Honest ==
    ftp.claim = "short" =>
        ftp.causes \cap {"cut", "early", "status", "125", "stale accept",
                       "nested", "unasked"} # {}

\* Pointers are set when they are used and deleted once, but for a PASS with
\* no server, EPSV, which deletes UserData without resetting it, the socket
\* AUTH leaves in the dispatcher, and data that comes when the other end is
\* not there.
CrashCaused ==
    ftp.mode = "crashed" =>
        ftp.causes \cap {"pass", "auth", "epsv", "epsv all", "125", "nested",
                       "stale accept", "no end", "early"} # {}

\* A configuration that requires TLS never sends the user's name in clear.
NameHidden == {"try", "require"} \subseteq ftp.cfg => ~ftp.clear

\* A session whose user has gone ends, but for one that waits for a data
\* connection: WaitEvents() returns at once with the end of his stream, so
\* that the timer of the wait is never looked at, and the child is busy until
\* the connection is made or refused.  And but for the socket of AUTH, and
\* for the child that spins in ForwardReply() or has crashed.
GoneUserEnds ==
    (Serving /\ ~ftp.here) ~>
        (~Serving \/ [](Serving /\ Len(ftp.stack) > 1) \/ "auth" \in ftp.causes)
=============================================================================
