---------------------------- MODULE Socks5Client ----------------------------
(***************************************************************************)
(* One child of mod_socks5 and the session it serves: the user's greeting  *)
(* and request, which arrive in pieces of any size, the connection the     *)
(* child makes or waits for, and the relay.  A byte stream is the number   *)
(* of bytes written to it and read from it; what the bytes say is `req',   *)
(* chosen when the session begins.  The build is the default one, without  *)
(* IPv6.                                                                   *)
(***************************************************************************)
EXTENDS Integers, Sequences

CONSTANTS
    Requests,    \* what users ask: [nmethods, noauth, atyp, dlen, cmd]
    CharMax,     \* the largest char: 127 where a char has eight bits
    BufSize,     \* bytes in CmdBuffer
    Room,        \* bytes the buffers of a connection hold
    MaxPayload   \* bytes either side sends after the request (a bound)

Byte == 0..(2 * CharMax + 1)

Socks5Assumption ==
    /\ CharMax \in Nat /\ Room \in Nat \ {0} /\ MaxPayload \in Nat
    /\ BufSize \in Nat /\ BufSize >= CharMax + 7 /\ BufSize >= 22
    /\ Requests # {}
    /\ \A r \in Requests :
           r.nmethods \in Byte /\ r.dlen \in Byte /\ (r.noauth => r.nmethods > 0)

VARIABLES
    mode,      \* "idle" in select(), "serving" in WaitEvents(), "accepting"
               \* in a blocking accept(), "sendingUp", "sendingDown" in a
               \* blocking Send(), "overrun": it wrote outside of a buffer
    state,     \* State
    connected, \* SOCKS5F_CONNECTED
    cmdLen,    \* CmdLen
    req,       \* the bytes of the greeting and the request
    sent,      \* bytes the user has written
    read,      \* bytes the child has read of them
    here,      \* the user has not closed
    server,    \* Server: "null", "failed", "listening", "connected"
    peer,      \* the other end of it: "none", "waiting", "up", "gone"
    left,      \* bytes the Send() under way has still to put into a buffer
    toPeer,    \* payload bytes the peer was sent
    unreadUp,  \* those of them it has not read
    lost,      \* payload bytes whose Send() failed
    back,      \* bytes the peer has written
    fromPeer,  \* those the child has read
    given,    \* those the user was sent
    unreadDown, \* those of them he has not read
    lostDown,  \* those whose Send() failed
    replies    \* the replies to the request

up   == <<toPeer, unreadUp, lost>>
down == <<fromPeer, given, unreadDown, lostDown>>
vars == <<mode, state, connected, cmdLen, req, sent, read, here, server,
          peer, left, back, up, down, replies>>

\* CmdBuffer is an array of char: a byte above CharMax is negative.
Char(b) == IF b > CharMax THEN b - 2 * CharMax - 2 ELSE b

Address(n) ==
    CASE req.atyp = "ipv4"   -> 4
      [] req.atyp = "ipv6"   -> 16
      [] req.atyp = "domain" -> n + 1
      [] OTHER               -> 0

\* What the child takes the length of the address to be, and what it is.
AddressLen  == Address(Char(req.dlen))
GreetingLen == 2 + req.nmethods
HeaderLen   == GreetingLen + 6 + Address(req.dlen)

\* What one Recv() of `want' bytes returns; 0 is the end of the stream, or
\* a request for nothing.  A negative size is a very large one to recv().
Recv(want) == IF want \in 0..(sent - read) THEN want ELSE sent - read

Readable == read < sent \/ ~here

Init ==
    /\ mode = "idle" /\ state = "METHOD" /\ connected = FALSE /\ cmdLen = 0
    /\ req = CHOOSE r \in Requests : TRUE
    /\ sent = 0 /\ read = 0 /\ here = FALSE /\ server = "null"
    /\ peer = "none" /\ left = 0 /\ back = 0
    /\ toPeer = 0 /\ unreadUp = 0 /\ lost = 0
    /\ fromPeer = 0 /\ given = 0 /\ unreadDown = 0 /\ lostDown = 0
    /\ replies = <<>>

\* WaitRequest() gets a descriptor and Dispatch() sets the session up.
Begin ==
    /\ mode = "idle"
    /\ mode' = "serving" /\ state' = "METHOD" /\ connected' = TRUE
    /\ cmdLen' = 0
    /\ req' \in Requests
    /\ sent' = 0 /\ read' = 0 /\ here' = TRUE
    /\ server' = "null" /\ peer' = "none" /\ left' = 0 /\ back' = 0
    /\ toPeer' = 0 /\ unreadUp' = 0 /\ lost' = 0
    /\ fromPeer' = 0 /\ given' = 0 /\ unreadDown' = 0 /\ lostDown' = 0
    /\ replies' = <<>>

\* Wrong: the sockets are closed and the loop of Dispatch() goes on.
CleanupStays == connected' = connected /\ server' = "null"

\* Cleanup() in the middle of a session: both sockets are closed.
Cleanup == connected' = FALSE /\ server' = "null"

Keep == UNCHANGED <<connected, server>>

\* The user writes any number of bytes, reads, closes; the peer does.
UserSends ==
    /\ mode # "idle" /\ here
    /\ sent' \in (sent + 1)..(HeaderLen + MaxPayload)
    /\ UNCHANGED <<mode, state, connected, cmdLen, req, read, here, server,
                   peer, left, back, up, down, replies>>

UserReads ==
    /\ mode # "idle" /\ here /\ unreadDown > 0 /\ unreadDown' = unreadDown - 1
    /\ UNCHANGED <<mode, state, connected, cmdLen, req, sent, read, here,
                   server, peer, left, back, up, fromPeer, given, lostDown,
                   replies>>

UserCloses ==
    /\ mode # "idle" /\ here /\ here' = FALSE
    /\ UNCHANGED <<mode, state, connected, cmdLen, req, sent, read, server,
                   peer, left, back, up, down, replies>>

PeerActs ==
    /\ mode # "idle"
    /\ \/ server = "listening" /\ peer = "none" /\ peer' = "waiting"
          /\ back' = back
       \/ peer = "up" /\ back < MaxPayload /\ back' = back + 1 /\ peer' = peer
       \/ peer = "up" /\ peer' = "gone" /\ back' = back
    /\ UNCHANGED <<mode, state, connected, cmdLen, req, sent, read, here,
                   server, left, up, down, replies>>

PeerReads ==
    /\ mode # "idle" /\ peer = "up" /\ unreadUp > 0
    /\ unreadUp' = unreadUp - 1
    /\ UNCHANGED <<mode, state, connected, cmdLen, req, sent, read, here,
                   server, peer, left, back, toPeer, lost, down, replies>>

\* More was read than CmdBuffer holds, or a byte was written before `host'.
Overrun == mode' = "overrun" /\ Keep

ReadMethods ==
    LET n    == Char(req.nmethods)
        len  == Recv(IF cmdLen < 2 THEN 2 - cmdLen ELSE n - cmdLen + 2)
        have == cmdLen + len
        all  == have >= 2 /\ have - 2 = n
    IN /\ mode = "serving" /\ connected /\ state = "METHOD" /\ Readable
       /\ read' = read + len
       /\ \/ len = 0 /\ Cleanup /\ UNCHANGED <<mode, state, cmdLen>>
          \/ have > BufSize /\ Overrun /\ cmdLen' = have /\ state' = state
          \/ /\ len > 0 /\ have <= BufSize /\ ~all
             /\ cmdLen' = have /\ Keep /\ UNCHANGED <<mode, state>>
          \/ /\ len > 0 /\ have <= BufSize /\ all /\ req.noauth
             /\ cmdLen' = 0 /\ state' = "CMD" /\ Keep /\ mode' = mode
          \/ /\ len > 0 /\ have <= BufSize /\ all /\ ~req.noauth
             /\ cmdLen' = have /\ Cleanup /\ UNCHANGED <<mode, state>>
       /\ UNCHANGED <<req, sent, here, peer, left, back, up, down, replies>>

SendReply(r) == replies' = Append(replies, r)

\* DoConnect() that succeeds, and that fails: then the socket is kept.
Connected ==
    /\ server' = "connected" /\ peer' = "up" /\ connected' = TRUE
    /\ state' = "FORWARD" /\ SendReply("ok")

Refused(stay) ==
    /\ server' = "failed" /\ SendReply("refused") /\ connected' = stay
    /\ UNCHANGED <<state, peer>>

HandleConnect ==
    \/ Connected
    \/ req.atyp = "ipv4" /\ Refused(TRUE)
    \/ req.atyp = "domain" /\ Refused(FALSE)
    \/ /\ req.atyp = "domain" /\ SendReply("general") /\ connected' = FALSE
       /\ UNCHANGED <<state, server, peer>>

HandleBind ==
    \/ /\ server' = "listening" /\ state' = "LISTEN" /\ SendReply("ok")
       /\ UNCHANGED <<connected, peer>>
    \/ SendReply("general") /\ Cleanup /\ UNCHANGED <<state, peer>>

HandleRequest ==
    LET supported == req.atyp \in {"ipv4", "domain"}
    IN \/ supported /\ req.cmd = "connect" /\ HandleConnect
       \/ supported /\ req.cmd = "bind" /\ HandleBind
       \/ /\ ~(supported /\ req.cmd \in {"connect", "bind"})
          /\ SendReply("unsupported") /\ Cleanup /\ UNCHANGED <<state, peer>>

\* Wrong: one byte of the port is not waited for.
WantedShort == IF cmdLen < 5 THEN 5 ELSE AddressLen + 5

\* -1 and 0 are for nothing; a negative length is above sizeof() as well.
WantedLen ==
    IF cmdLen < 5 THEN 5
    ELSE IF AddressLen + 6 \in 0..BufSize THEN AddressLen + 6 ELSE -1

\* The name of a host is copied, and ended where its length says.
BadName == req.atyp = "domain" /\ Char(req.dlen) < 0 /\ req.cmd = "connect"

ReadRequest ==
    LET len  == IF WantedLen > 0 THEN Recv(WantedLen - cmdLen) ELSE 0
        have == cmdLen + len
        all  == have > 6 /\ have >= WantedLen
    IN /\ mode = "serving" /\ connected /\ state = "CMD" /\ Readable
       /\ read' = read + len /\ cmdLen' = have
       /\ \/ /\ len > 0 /\ have <= BufSize /\ all
             /\ HandleRequest /\ mode' = mode
          \/ /\ len > 0 /\ have <= BufSize /\ ~all
             /\ Keep /\ UNCHANGED <<mode, state, peer, replies>>
          \/ /\ len = 0 /\ SendReply("general") /\ Cleanup
             /\ UNCHANGED <<mode, state, peer>>
          \/ /\ have > BufSize \/ (len > 0 /\ all /\ BadName)
             /\ Overrun /\ UNCHANGED <<state, peer, replies>>
       /\ UNCHANGED <<req, sent, here, left, back, up, down>>

\* Any event in STATE_LISTEN, one of the user's too, leads to accept(), which
\* blocks until somebody connects.
AcceptConnection ==
    /\ mode = "serving" /\ connected /\ state = "LISTEN"
    /\ Readable \/ peer = "waiting"
    /\ mode' = "accepting"
    /\ UNCHANGED <<state, connected, cmdLen, req, sent, read, here, server,
                   peer, left, back, up, down, replies>>

Accepted ==
    /\ mode = "accepting" /\ peer = "waiting" /\ mode' = "serving"
    /\ \/ /\ server' = "connected" /\ peer' = "up" /\ state' = "FORWARD"
          /\ SendReply("ok") /\ connected' = connected
       \/ Cleanup /\ peer' = "gone" /\ UNCHANGED <<state, replies>>
    /\ UNCHANGED <<cmdLen, req, sent, read, here, left, back, up, down>>

\* ForwardData() of what came from one end, up to the Send() to the other.
Forwarding == mode = "serving" /\ connected /\ state = "FORWARD"

ForwardUser ==
    /\ Forwarding /\ Readable
    /\ \/ read = sent /\ Cleanup /\ UNCHANGED <<mode, read, left>>
       \/ /\ read < sent /\ read' = sent /\ left' = sent - read
          /\ mode' = "sendingUp" /\ Keep
    /\ UNCHANGED <<state, cmdLen, req, sent, here, peer, back, up, down,
                   replies>>

ForwardPeer ==
    /\ Forwarding
    /\ \/ /\ fromPeer < back /\ fromPeer' = back /\ left' = back - fromPeer
          /\ mode' = "sendingDown" /\ Keep
       \/ /\ fromPeer = back /\ peer = "gone" /\ Cleanup
          /\ UNCHANGED <<mode, fromPeer, left>>
    /\ UNCHANGED <<state, cmdLen, req, sent, read, here, peer, back, up,
                   given, unreadDown, lostDown, replies>>

\* Send() fills the buffers, blocks while they are full, and fails when the
\* end is gone; what it returns is not looked at.
Fits(unread) == IF left < Room - unread THEN left ELSE Room - unread

Goes(k) == left' = left - k /\ mode' = IF k = left THEN "serving" ELSE mode

SendUp ==
    /\ mode = "sendingUp"
    /\ \/ /\ peer = "up" /\ unreadUp < Room /\ Goes(Fits(unreadUp))
          /\ toPeer' = toPeer + Fits(unreadUp)
          /\ unreadUp' = unreadUp + Fits(unreadUp) /\ lost' = lost
       \/ /\ peer # "up" /\ Goes(left) /\ lost' = lost + left
          /\ UNCHANGED <<toPeer, unreadUp>>
    /\ UNCHANGED <<state, connected, cmdLen, req, sent, read, here, server,
                   peer, back, down, replies>>

SendDown ==
    /\ mode = "sendingDown"
    /\ \/ /\ here /\ unreadDown < Room /\ Goes(Fits(unreadDown))
          /\ given' = given + Fits(unreadDown)
          /\ unreadDown' = unreadDown + Fits(unreadDown) /\ lostDown' = lostDown
       \/ /\ ~here /\ Goes(left) /\ lostDown' = lostDown + left
          /\ UNCHANGED <<given, unreadDown>>
    /\ UNCHANGED <<state, connected, cmdLen, req, sent, read, here, server,
                   peer, back, up, fromPeer, replies>>

\* WaitEvents() returned nothing for TIMEOUT_IDLE seconds.
Idle ==
    /\ mode = "serving" /\ connected /\ ~Readable
    /\ peer # "waiting" /\ ~(peer = "gone" /\ server = "connected")
    /\ fromPeer = back
    /\ connected' = FALSE
    /\ UNCHANGED <<mode, state, cmdLen, req, sent, read, here, server, peer,
                   left, back, up, down, replies>>

\* Dispatch() leaves its loop; WaitRequest() reports and waits again.
Leave ==
    /\ mode = "serving" /\ ~connected
    /\ mode' = "idle" /\ server' = "null" /\ here' = FALSE
    /\ UNCHANGED <<state, connected, cmdLen, req, sent, read, peer, left, back,
                   up, down, replies>>

Child == \/ ReadMethods \/ ReadRequest \/ AcceptConnection \/ Accepted
         \/ ForwardUser \/ ForwardPeer \/ SendUp \/ SendDown \/ Idle \/ Leave

Next == \/ Begin \/ UserSends \/ UserReads \/ UserCloses
        \/ PeerActs \/ PeerReads \/ Child

\* WaitEvents() calls the handler of every descriptor that is ready, and a
\* call that blocks returns once it can.  No end has to read.
Fairness ==
    /\ WF_vars(ReadMethods) /\ WF_vars(ReadRequest)
    /\ WF_vars(AcceptConnection) /\ WF_vars(Accepted)
    /\ WF_vars(ForwardUser) /\ WF_vars(ForwardPeer)
    /\ WF_vars(SendUp) /\ WF_vars(SendDown) /\ WF_vars(Leave)

Spec == Init /\ [][Next]_vars /\ Fairness

-----------------------------------------------------------------------------
\* The number of methods is negative as a char, or the length of a name is
\* so little below zero that recv() is called with less than nothing: then
\* all there is is read.
Swallows ==
    \/ Char(req.nmethods) < 0
    \/ req.atyp = "domain" /\ Char(req.dlen) \in -6..-3

\* However the greeting and the request are cut into segments, and whatever
\* the user writes ahead of the replies, they end where the payload begins,
\* but for lengths that the child swallows: every byte read after them was
\* sent on or is in the Send() under way, and none of theirs was.  So is
\* every byte of the peer's.  A byte is lost only when the end it is for has
\* gone, and nothing is written outside of a buffer but for such lengths.
RelayExact ==
    LET going(m) == IF mode = m THEN left ELSE 0
    IN /\ state = "FORWARD" /\ ~Swallows =>
              read = HeaderLen + toPeer + lost + going("sendingUp")
       /\ state # "FORWARD" => toPeer + lost = 0 /\ (~Swallows => read <= HeaderLen)
       /\ fromPeer = given + lostDown + going("sendingDown")
       /\ lost > 0 => peer = "gone"
       /\ lostDown > 0 => ~here
       /\ mode = "overrun" => Swallows

\* What the user is told fits what was done: data is relayed only after a
\* success was reported and with a connected peer, a BIND has two successes,
\* and no success follows a failure.  One request has a second failure: the
\* socket of a refused address is kept, and so is the session.
AnswersMatch ==
    LET ok == IF req.cmd = "bind" THEN <<"ok", "ok">> ELSE <<"ok">>
    IN /\ replies \in {<<>>, <<"ok">>, ok, <<"refused">>, <<"general">>,
                       <<"unsupported">>, <<"refused", "general">>}
       /\ connected /\ state = "FORWARD" =>
              replies = ok /\ server = "connected"
       /\ Len(replies) = 2 /\ replies[1] = "refused" =>
              req.atyp = "ipv4" /\ state = "CMD"

\* A user that leaves gives the child back, unless the child stays for ever
\* inside accept() with nobody connecting, or inside a Send() to a peer that
\* is there and does not read, or has written outside of a buffer.  A user
\* that stays and does not read can hold it in the same way.
GoneUserFreesChild ==
    (mode # "idle" /\ ~here) ~>
        \/ mode \in {"idle", "overrun"}
        \/ [](mode = "accepting" /\ peer = "none")
        \/ [](mode = "sendingUp" /\ peer = "up" /\ unreadUp = Room)
=============================================================================
