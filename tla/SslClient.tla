----------------------------- MODULE SslClient -----------------------------
(***************************************************************************)
(* One child of mod_ssl and the session it serves: a plain connection of   *)
(* the user and an encrypted one to the target.  What the target sends     *)
(* comes in records, which the SSL library decrypts as a whole and the     *)
(* child takes out 4096 bytes, a unit, at a time; select() sees only the   *)
(* records that the library has not read.                                  *)
(***************************************************************************)
EXTENDS Naturals, Sequences

CONSTANTS
    MaxRecord,   \* units in the longest record
    Room,        \* units the buffers of a connection hold
    MaxSent      \* units either side sends (a bound)

SslAssumption ==
    MaxRecord \in Nat \ {0} /\ Room \in Nat \ {0} /\ MaxSent \in Nat

VARIABLES
    phase,     \* "idle" in select(), "serving" in WaitEvents(), "toUser",
               \* "toTarget" in a blocking Send()
    session,   \* Ssl: "none", "up", or "bad": SSL_connect() returned 0, which
               \* SSLInitSession() takes for success
    user,      \* the user has not closed
    target,    \* the target has not closed
    net,       \* records that arrived and are not read
    pending,   \* units of the record that was read last
    fromUser,  \* units the user has sent that are not read
    nTarget,   \* units the target has sent
    toUser,    \* and Send() was done with, for the user
    inUser,    \* those of them he has not read
    nUser,     \* units the user has sent
    hand,      \* those the SSL_write() under way has still to send
    toTarget,  \* and the target was sent
    inTarget,  \* those of them it has not read
    missed     \* and SSL_write() did not send

sslVars == <<phase, session, user, target, net, pending, fromUser, nTarget,
             toUser, inUser, nUser, hand, toTarget, inTarget, missed>>

Init ==
    /\ phase = "idle" /\ session = "none" /\ user = FALSE /\ target = FALSE
    /\ net = <<>> /\ pending = 0 /\ fromUser = 0
    /\ nTarget = 0 /\ toUser = 0 /\ inUser = 0
    /\ nUser = 0 /\ hand = 0 /\ toTarget = 0 /\ inTarget = 0 /\ missed = 0

\* What SSLInitSession() lets through: only -1 is a failure to it.
SSLInitSession == {"up", "bad"}

\* Dispatch() of a target that is resolved, connected and shakes hands; the
\* others lead to Cleanup() at once.
Begin ==
    /\ phase = "idle" /\ phase' = "serving" /\ session' \in SSLInitSession
    /\ user' = TRUE /\ target' = (session' = "up")
    /\ net' = <<>> /\ pending' = 0 /\ fromUser' = 0
    /\ nTarget' = 0 /\ toUser' = 0 /\ inUser' = 0
    /\ nUser' = 0 /\ hand' = 0 /\ toTarget' = 0 /\ inTarget' = 0 /\ missed' = 0

UserActs ==
    /\ phase # "idle" /\ user
    /\ \/ nUser < MaxSent /\ nUser' = nUser + 1 /\ fromUser' = fromUser + 1
          /\ UNCHANGED <<user, inUser>>
       \/ user' = FALSE /\ UNCHANGED <<nUser, fromUser, inUser>>
       \/ inUser > 0 /\ inUser' = inUser - 1 /\ UNCHANGED <<user, nUser, fromUser>>
    /\ UNCHANGED <<phase, session, target, net, pending, nTarget, toUser, hand,
                   toTarget, inTarget, missed>>

TargetActs ==
    /\ phase # "idle" /\ target
    /\ \/ \E n \in 1..MaxRecord :
            /\ nTarget + n <= MaxSent /\ nTarget' = nTarget + n
            /\ net' = Append(net, n) /\ UNCHANGED <<target, inTarget>>
       \/ target' = FALSE /\ UNCHANGED <<nTarget, net, inTarget>>
       \/ /\ inTarget > 0 /\ inTarget' = inTarget - 1
          /\ UNCHANGED <<target, nTarget, net>>
    /\ UNCHANGED <<phase, session, user, pending, fromUser, toUser, inUser,
                   nUser, hand, toTarget, missed>>

\* Cleanup(): both sockets go, and with User NULL Dispatch() leaves its loop.
Cleanup == phase' = "idle" /\ session' = "none"

TargetReadable == phase = "serving" /\ (net # <<>> \/ ~target)

\* ForwardData(): what was decrypted comes first, then the next record; a
\* unit of it goes into Send().
ForwardTarget ==
    /\ TargetReadable
    /\ \/ /\ session = "up" /\ pending > 0
          /\ pending' = pending - 1 /\ phase' = "toUser"
          /\ UNCHANGED <<session, net>>
       \/ /\ session = "up" /\ pending = 0 /\ net # <<>>
          /\ pending' = Head(net) - 1 /\ net' = Tail(net) /\ phase' = "toUser"
          /\ UNCHANGED session
       \/ /\ session = "bad" \/ (pending = 0 /\ net = <<>>)
          /\ Cleanup /\ UNCHANGED <<net, pending>>
    /\ UNCHANGED <<user, target, fromUser, nTarget, toUser, inUser, nUser, hand,
                   toTarget, inTarget, missed>>

\* Send() blocks while the buffers are full; it fails when the end is gone,
\* and what it returns is not looked at.
SendUser ==
    /\ phase = "toUser" /\ phase' = "serving" /\ toUser' = toUser + 1
    /\ \/ user /\ inUser < Room /\ inUser' = inUser + 1
       \/ ~user /\ inUser' = inUser
    /\ UNCHANGED <<session, user, target, net, pending, fromUser, nTarget,
                   nUser, hand, toTarget, inTarget, missed>>

ForwardUser ==
    /\ phase = "serving" /\ (fromUser > 0 \/ ~user)
    /\ \/ /\ fromUser > 0 /\ fromUser' = 0 /\ hand' = fromUser
          /\ phase' = "toTarget" /\ session' = session
       \/ fromUser = 0 /\ Cleanup /\ UNCHANGED <<fromUser, hand>>
    /\ UNCHANGED <<user, target, net, pending, nTarget, toUser, inUser, nUser,
                   toTarget, inTarget, missed>>

Fits == IF hand < Room - inTarget THEN hand ELSE Room - inTarget

Goes(k) == hand' = hand - k /\ phase' = IF k = hand THEN "serving" ELSE phase

SendTarget ==
    /\ phase = "toTarget"
    /\ \/ /\ session = "up" /\ target /\ inTarget < Room /\ Goes(Fits)
          /\ toTarget' = toTarget + Fits /\ inTarget' = inTarget + Fits
          /\ missed' = missed
       \/ /\ ~(session = "up" /\ target) /\ Goes(hand)
          /\ missed' = missed + hand /\ UNCHANGED <<toTarget, inTarget>>
    /\ UNCHANGED <<session, user, target, net, pending, fromUser, nTarget,
                   toUser, inUser, nUser>>

Next == \/ Begin \/ UserActs \/ TargetActs
        \/ ForwardTarget \/ SendUser \/ ForwardUser \/ SendTarget

\* WaitEvents() calls the handler of every descriptor that is ready, and a
\* Send() returns once it can.  No end has to read.
Fairness ==
    /\ WF_sslVars(ForwardTarget) /\ WF_sslVars(SendUser)
    /\ WF_sslVars(ForwardUser) /\ WF_sslVars(SendTarget)

Spec == Init /\ [][Next]_sslVars /\ Fairness

-----------------------------------------------------------------------------
\* The rest of a record stays in the library when select() has nothing to
\* report, and the user waits for it; but never for more than that rest.
StallsWithinRecord ==
    phase = "serving" /\ target /\ net = <<>> => nTarget - toUser < MaxRecord

\* What the user sends is sent on, and lost only when the target went or
\* was never there.
SentUnlessGone ==
    /\ nUser = fromUser + hand + toTarget + missed
    /\ missed > 0 => session = "bad" \/ ~target

\* Once the target has closed, the user gets all that it had sent, unless he
\* leaves first, and the child becomes free; or it stays in a Send() to a
\* user that does not read.
TargetDelivers ==
    (phase # "idle" /\ session = "up" /\ ~target) ~>
        \/ phase = "idle" /\ (toUser = nTarget \/ ~user)
        \/ [](phase = "toUser" /\ user /\ inUser = Room)
=============================================================================
