----------------------------- MODULE CmdFilter -----------------------------
(***************************************************************************)
(* A message of mod_pop3 that goes through an external command: the child  *)
(* of mod_pop3 writes all of it into one pipe, then reads what comes out   *)
(* of the other until its end.  A unit of data is what the command reads   *)
(* and writes at once.                                                     *)
(***************************************************************************)
EXTENDS Naturals

CONSTANTS
    Cap,      \* what a pipe holds
    MaxSize   \* of messages (a bound)

CmdFilterAssumption == Cap \in Nat \ {0} /\ MaxSize \in Nat

VARIABLES
    parent,    \* "idle", "writing", "reading", "kept" (Process() returned
               \* true, GetFilteredMsg() is used), "failed" (it is not)
    size,      \* of the message
    written,   \* what write() has put into the pipe
    kind,      \* what the command does: "copy" as it reads, "whole" first
               \* reads all, "quit" exits when it likes
    running,   \* it has not exited
    taken,     \* what it has read
    made,      \* what it has written
    got        \* FilteredMsg

filterVars == <<parent, size, written, kind, running, taken, made, got>>

Init ==
    /\ parent = "idle" /\ size = 0 /\ written = 0
    /\ kind = "copy" /\ running = FALSE
    /\ taken = 0 /\ made = 0 /\ got = 0

\* Process(): a pipe or fork() that fails leaves the message as it is.
Process ==
    /\ parent = "idle"
    /\ size' \in 0..MaxSize /\ kind' \in {"copy", "whole", "quit"}
    /\ \/ parent' = "writing" /\ running' = TRUE
       \/ parent' = "failed" /\ running' = running
    /\ UNCHANGED <<written, taken, made, got>>

\* Parent(): write() goes on while the pipe has room; with nobody to read it
\* fails if it has written nothing yet and else returns what it has.
Write ==
    /\ parent = "writing"
    /\ \/ running /\ written < size /\ written - taken < Cap
          /\ written' = written + 1 /\ parent' = parent
       \/ written = size /\ parent' = "reading" /\ written' = written
       \/ ~running /\ written < size /\ written' = written
          /\ parent' = IF written = 0 THEN "failed" ELSE "reading"
    /\ UNCHANGED <<size, kind, running, taken, made, got>>

\* And read() until the command's end is closed; its status is not asked for.
Read ==
    /\ parent = "reading"
    /\ \/ got < made /\ got' = made /\ parent' = parent
       \/ got = made /\ ~running /\ parent' = "kept" /\ got' = got
    /\ UNCHANGED <<size, written, kind, running, taken, made>>

AtEnd == parent # "writing" /\ taken = written

\* The command reads and writes a unit at a time and exits at the end.
Take ==
    /\ running /\ taken < written /\ (kind = "copy" => made = taken)
    /\ taken' = taken + 1
    /\ UNCHANGED <<parent, size, written, kind, running, made, got>>

Make ==
    /\ running /\ made < taken /\ (kind = "whole" => AtEnd) /\ made - got < Cap
    /\ made' = made + 1
    /\ UNCHANGED <<parent, size, written, kind, running, taken, got>>

Exit ==
    /\ running /\ (kind # "quit" => AtEnd /\ made = taken)
    /\ running' = FALSE
    /\ UNCHANGED <<parent, size, written, kind, taken, made, got>>

Next == Process \/ Write \/ Read \/ Take \/ Make \/ Exit

\* The kernel runs both, and the command waits for nothing but the pipes.
Fairness ==
    /\ WF_filterVars(Write) /\ WF_filterVars(Read) /\ WF_filterVars(Take)
    /\ WF_filterVars(Make) /\ WF_filterVars(Exit)

Spec == Init /\ [][Next]_filterVars /\ Fairness

-----------------------------------------------------------------------------
\* A message that was filtered is what the command made of it, to the end;
\* of a message that could be written it is the whole, unless the command
\* stopped: then the user gets what there was, be it nothing, and no error.
FilterWhole ==
    parent = "kept" => got = made /\ (got < size => kind = "quit")

\* Parent() reads nothing before it has written everything, so it and a
\* command that copies wait for each other once both pipes are full; a
\* message that fits in them, or any that the command reads first, gets out.
FilterEnds ==
    (parent = "writing" /\ (size <= 2 * Cap + 1 \/ kind = "whole"))
        ~> (parent \in {"kept", "failed"})
=============================================================================
