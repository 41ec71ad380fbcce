----------------------------- MODULE Pop3Client -----------------------------
(***************************************************************************)
(* One child of mod_pop3 and the session it serves, in the style of        *)
(* FtpClient: handlers are operators from a session to the sessions they   *)
(* can lead to.  Replies are read line by line, and what matters is where  *)
(* each of them ends; a message that is filtered is a sequence of lines,   *)
(* each with the number of dots it begins with.                            *)
(***************************************************************************)
EXTENDS Integers, Sequences

CONSTANTS
    Mails,     \* the messages on the server: sequences of numbers of dots
    Commands,  \* the commands users send
    MaxCmds    \* commands in a session (a bound)

Pop3Assumption ==
    /\ \A m \in Mails : m \in Seq(Nat) /\ Len(m) > 0
    /\ MaxCmds \in Nat

VARIABLE pop   \* the session:
(* mode   "idle", "serving", "crashed"                                     *)
(* flags  CFlags; filter, spamd: messages are filtered, and by spamd       *)
(* here   the user has not closed                                          *)
(* srv    Server: "none", "failed" (not connected), "up", "gone"           *)
(* owed   replies sent by the server and not read: "ok" and "err" are a    *)
(*        line, "multi" a first line, more, and a dot, "rest" the more     *)
(* due    replies the user is owed, the greeting included                  *)
(* mail   the message; got: the lines after the status line that the user  *)
(*        was sent for it, <<>> before, Dot for the line that ends it      *)
(* causes the ways in which this session left the protocol; n: commands    *)

Cause(s, x) == [s EXCEPT !.causes = @ \cup {x}]
Reply(s)    == [s EXCEPT !.due = @ - 1]

NoSession ==
    [mode |-> "idle", flags |-> {}, filter |-> FALSE, spamd |-> FALSE,
     here |-> FALSE, srv |-> "none", owed |-> <<>>, due |-> 0, mail |-> <<>>,
     got |-> <<>>, causes |-> {}, n |-> 0]

Send(s, R) ==
    IF s.srv = "up" THEN {[s EXCEPT !.owed = Append(@, r)] : r \in R} ELSE {s}

\* Nothing to read: the child waits until the server closes, and longer than
\* TIMEOUT_REPLY, which Recv() does not look at.
Closed(s) == IF s.srv = "up" THEN Cause([s EXCEPT !.srv = "gone"], "silence") ELSE s

\* What remains of a reply of which a line was read.
AfterLine(s) ==
    LET tail == Tail(s.owed)
    IN CASE Head(s.owed) = "multi" -> {[s EXCEPT !.owed = <<"rest">> \o tail]}
         [] Head(s.owed) = "rest"  -> {s, [s EXCEPT !.owed = tail]}
         [] OTHER                  -> {[s EXCEPT !.owed = tail]}

\* A reply that is read to the line with the dot; the server may go first.
AfterDot(s) == {[s EXCEPT !.owed = Tail(@)],
                Cause([s EXCEPT !.owed = <<>>, !.srv = "gone"], "cut")}

ForwardReply(s, multiline) ==
    LET t == Reply(s)
    IN IF s.owed = <<>> THEN {Closed(t)}
       ELSE IF ~multiline THEN AfterLine(t)
       ELSE CASE Head(s.owed) = "multi" -> AfterDot(t)
              [] Head(s.owed) = "ok"    ->     \* one line, and more awaited
                   {Reply([t EXCEPT !.owed = <<>>, !.srv = "gone"])}
              [] OTHER                  -> AfterLine(t)

DoConnect(s) ==
    {[s EXCEPT !.srv = "up", !.owed = <<>>,
               !.flags = @ \cup {"CONNECTED", "ORIGIN"}],
     Reply([s EXCEPT !.srv = "failed", !.owed = <<>>])}

\* The greeting is skipped, whatever it says.
ConnectToServer(s) ==
    LET off == [s EXCEPT !.flags = @ \ {"CONNECTED"}]
    IN {Reply(off)} \cup
       UNION {IF t.srv = "failed" THEN {t}
              ELSE UNION {ForwardReply(u, FALSE) : u \in Send(t, {"ok", "err"})}
              : t \in DoConnect(off)}

\* What servers answer: LIST with a number is one line, and so is QUIT.
Answers(cmd) ==
    CASE cmd \in {"LIST", "RETR", "CAPA"} -> {"multi", "err"}
      [] OTHER                            -> {"ok", "err"}

\* Wrong: RETR is left out.
MultiShort == {"LIST", "LIST 1"}

\* The commands whose replies are taken to end with a dot.
Multi == {"LIST", "LIST 1", "RETR"}

\* Those for which that is wrong.
Mistaken(s, cmd) == IF cmd \in {"LIST 1", "CAPA"} THEN Cause(s, cmd) ELSE s

ForwardCmd(s, cmd) ==
    IF cmd = "USER" /\ "TRANSPARENT" \notin s.flags THEN ConnectToServer(s)
    ELSE IF "ORIGIN" \notin s.flags THEN {Reply(s)}
    ELSE {IF cmd = "QUIT" THEN [u EXCEPT !.flags = @ \ {"CONNECTED", "ORIGIN"}]
          ELSE u
          : u \in UNION {ForwardReply(t, cmd \in Multi)
                         : t \in Send(Mistaken(s, cmd), Answers(cmd))}}

-----------------------------------------------------------------------------
\* Filtering a message.

Dot == -1

\* FetchMail() takes the dot away that the server put before a dot, and
\* SendMessage() puts one there; a reply of spamd gets one in between.
Stuff(m)   == [i \in 1..Len(m) |-> IF m[i] > 0 THEN m[i] + 1 ELSE 0]
Unstuff(m) == [i \in 1..Len(m) |-> IF m[i] > 0 THEN m[i] - 1 ELSE 0]

FetchMail(sent) == Unstuff(sent)
SpamdReply(m)   == Stuff(m)

\* Wrong: lines that begin with a dot are sent as they are.
SendMessageRaw(m) == Tail(m) \o <<0, Dot>>

\* SendMessage() ends the status line with the first line of the message,
\* and the line end of the last makes an empty line; then the dot.
SendMessage(m) == Tail(Stuff(m)) \o <<0, Dot>>

\* What each filter gives back, or fails to.
Filtered(m, spamd) == {m} \cup (IF spamd THEN {SpamdReply(m)} ELSE {})

Delivered(s) ==
    {Reply([s EXCEPT !.got = SendMessage(f)])
     : f \in Filtered(FetchMail(Stuff(s.mail)), s.spamd)}

\* RecvLine() returns what fills its buffer as a line: one that is longer
\* comes as two, or more, and the second begins with dots or not; when a dot
\* is all that is left of it, it is taken for the end of the message.
Pieces(m) == UNION {{SubSeq(m, 1, i) \o <<d>> \o SubSeq(m, i + 1, Len(m))
                     : d \in {0, 1}} : i \in 1..Len(m)}
Begins(m) == {SubSeq(m, 1, i) : i \in 1..Len(m)}

Mangled(s, P) ==
    UNION {{Cause(Reply([s EXCEPT !.got = SendMessage(f)]), "long")
            : f \in Filtered(FetchMail(p), s.spamd)} : p \in P}

FilterEMail(s) ==
    LET line(t) == IF t.owed = <<>> THEN {<<FALSE, Closed(t)>>}
                   ELSE {<<Head(t.owed) \in {"ok", "multi"}, u>> : u \in AfterLine(t)}
        fetch(t) ==
            IF t.owed # <<>> /\ Head(t.owed) = "rest"
            THEN Mangled(t, Begins(Stuff(t.mail))) \cup
                 UNION {IF u.srv = "gone" THEN {Reply(u)}
                        ELSE Delivered(u) \cup Mangled(u, Pieces(Stuff(u.mail)))
                        : u \in AfterDot(t)}
            ELSE {Cause(Reply([t EXCEPT !.owed = <<>>, !.srv = "gone"]), "cut")}
        retr(t) == UNION {IF l[1] THEN fetch(l[2]) ELSE {Reply(l[2])}
                          : l \in UNION {line(u) : u \in Send(t, Answers("RETR"))}}
    IN IF s.srv = "none" THEN {Cause([s EXCEPT !.mode = "crashed"], "no server")}
       ELSE UNION {IF l[1] THEN retr(l[2]) \cup ForwardCmd(l[2], "RETR")
                   ELSE ForwardCmd(l[2], "RETR")
                   : l \in UNION {line(u) : u \in Send(s, Answers("LIST 1"))}}

-----------------------------------------------------------------------------
Init == pop = NoSession

\* Dispatch() of a user that asked for the proxy, and of one that was sent
\* to it: DoConnect() answers with the flag that Dispatch() has just set.
Begin ==
    /\ pop.mode = "idle"
    /\ \E m \in Mails, f, d \in BOOLEAN :
         LET s == [NoSession EXCEPT !.mode = "serving", !.flags = {"CONNECTED"},
                                    !.here = TRUE, !.due = 1, !.mail = m,
                                    !.filter = f, !.spamd = d]
             to == {[t EXCEPT !.flags = @ \cup {"TRANSPARENT"}] : t \in DoConnect(s)}
         IN pop' \in {Reply(s)} \cup
                   UNION {ForwardReply(IF t.srv = "up" THEN t
                                       ELSE Cause(t, "refused"), FALSE)
                          : t \in UNION {Send(t, {"ok", "err"}) : t \in to}}

Serving == pop.mode = "serving" /\ "CONNECTED" \in pop.flags

DispatchCmd ==
    /\ Serving /\ pop.here /\ pop.n < MaxCmds
    /\ \E cmd \in Commands :
         LET s == [pop EXCEPT !.n = @ + 1, !.due = @ + 1, !.got = <<>>]
         IN pop' \in IF cmd = "RETR" /\ (s.filter \/ s.spamd) THEN FilterEMail(s)
                   ELSE ForwardCmd(s, cmd)

\* The user closes, or says nothing for TIMEOUT_IDLE seconds.
UserGoes == Serving /\ pop' = [pop EXCEPT !.here = FALSE, !.flags = @ \ {"CONNECTED"}]

ServerDrops == Serving /\ pop.srv = "up" /\ pop' = [pop EXCEPT !.srv = "gone"]

Leave ==
    /\ pop.mode = "serving" /\ "CONNECTED" \notin pop.flags
    /\ pop' = NoSession

Next == Begin \/ DispatchCmd \/ UserGoes \/ ServerDrops \/ Leave

Spec == Init /\ [][Next]_pop

-----------------------------------------------------------------------------
\* Between two commands the user has had as many replies as commands and the
\* child has read what the server said, but for the ways that are known to
\* put them out of step: a server that is silent or closes within a reply,
\* the two commands whose replies do not end where ForwardReply() thinks, a
\* transparent connection that is refused, a filtered message with a line
\* longer than the buffer.
InStep ==
    Serving => \/ pop.due = 0 /\ pop.owed = <<>>
               \/ pop.causes \cap {"cut", "refused", "silence", "LIST 1",
                                "CAPA", "long"} # {}

\* The user reads back the message the server has, dots included, but for
\* its first line, which ends up in the status line, and an empty line at
\* the end; spamd may have added dots.  Lines fit the buffer they are read
\* into: others are broken.
MailKept ==
    pop.got # <<>> /\ "long" \notin pop.causes =>
        LET g == pop.got
            m == SubSeq(g, 1, Len(g) - 2)
        IN /\ g[Len(g)] = Dot /\ g[Len(g) - 1] = 0
           /\ \A i \in 1..Len(m) : m[i] \notin {Dot, 1}
           /\ \/ Unstuff(m) = Tail(pop.mail)
              \/ pop.spamd /\ Unstuff(m) = Tail(Stuff(pop.mail))

\* Commands that are sent to a server that there is not are answered; only a
\* message that would be filtered is asked for all the same.
CrashCaused == pop.mode = "crashed" => pop.srv = "none" /\ (pop.filter \/ pop.spamd)
=============================================================================
