--------------------------- MODULE SessionsProofs ---------------------------
(***************************************************************************)
(* Theorems about the sessions of the children of mod_socks5, mod_ftp,     *)
(* mod_pop3 and mod_ssl, for every size of a request, of a record, of a    *)
(* pipe, and number of commands.                                           *)
(***************************************************************************)
EXTENDS MCSessions, SequenceTheorems, TLAPS

-----------------------------------------------------------------------------
(* mod_socks5 *)

SocksStates == {"METHOD", "CMD", "LISTEN", "FORWARD"}

SocksModes ==
  {"idle", "serving", "accepting", "sendingUp", "sendingDown", "overrun"}

SocksType ==
  /\ mode \in SocksModes /\ state \in SocksStates
  /\ cmdLen \in Nat /\ req \in Requests /\ sent \in Nat /\ read \in Nat
  /\ server \in {"null", "failed", "listening", "connected"}
  /\ peer \in {"none", "waiting", "up", "gone"}
  /\ left \in Nat /\ back \in Nat
  /\ toPeer \in Nat /\ unreadUp \in Nat /\ lost \in Nat
  /\ fromPeer \in Nat /\ given \in Nat /\ unreadDown \in Nat /\ lostDown \in Nat

\* socks5client.cpp, ReadMethods() and ReadRequest(): what has been read is the part of
\* the greeting and the request that CmdLen says, and never more than there is of them,
\* but for lengths that the child swallows.
Framed ==
  /\ read <= sent
  /\ mode = "overrun" => Socks!Swallows
  /\ state = "METHOD" => read = cmdLen /\ (~Socks!Swallows => cmdLen <= Socks!GreetingLen)
  /\ state = "CMD" /\ ~Socks!Swallows => read = Socks!GreetingLen + cmdLen
  /\ state = "CMD" /\ (req.atyp = "ipv4" \/ ~Socks!Swallows) =>
       cmdLen <= 5 \/ cmdLen <= Socks!AddressLen + 6
  /\ state = "LISTEN" /\ ~Socks!Swallows => read = Socks!HeaderLen
  /\ state = "FORWARD" /\ ~Socks!Swallows =>
       read = Socks!HeaderLen + toPeer + lost + (IF mode = "sendingUp" THEN left ELSE 0)
  /\ state # "FORWARD" => toPeer = 0 /\ lost = 0

\* ForwardData(): what the peer wrote is given to the user, in a Send(), or lost with him.
GivenBack ==
  /\ fromPeer <= back
  /\ fromPeer = given + lostDown + (IF mode = "sendingDown" THEN left ELSE 0)
  /\ lostDown # 0 => ~here

\* The peer's socket goes with the state: data is forwarded once there is a peer, and the
\* child is inside accept() only for a BIND.
PeerThere ==
  /\ mode = "accepting" => state = "LISTEN"
  /\ mode \in {"sendingUp", "sendingDown"} => state = "FORWARD"
  /\ state \in {"METHOD", "CMD"} => peer = "none"
  /\ state = "FORWARD" => peer \in {"up", "gone"}
  /\ server = "listening" => state = "LISTEN"
  /\ lost # 0 => peer = "gone"

\* socks5client.cpp, SendReply(): what was reported so far, in each state.  An address
\* that was refused is the only failure that does not end the session.
Replied ==
  /\ state = "METHOD" => replies = <<>>
  /\ state = "CMD" =>
       \/ replies = <<>>
       \/ replies \in {<<"general">>, <<"unsupported">>, <<"refused">>} /\ ~connected
       \/ replies = <<"refused", "general">> /\ ~connected /\ req.atyp = "ipv4"
       \/ replies = <<"refused">> /\ req.atyp = "ipv4" /\ cmdLen = Socks!AddressLen + 6
  /\ state = "LISTEN" => req.cmd = "bind" /\ replies = <<"ok">>
  /\ state = "FORWARD" /\ req.cmd = "bind" => replies = <<"ok", "ok">>
  /\ state = "FORWARD" /\ req.cmd # "bind" => replies = <<"ok">>
  /\ connected /\ state = "FORWARD" => server = "connected"

SocksInv == SocksType /\ Framed /\ GivenBack /\ PeerThere /\ Replied

\* A byte as a char of the default build, which is signed.
LEMMA SocksChar ==
  ASSUME NEW b \in Socks!Byte
  PROVE  /\ b \in Nat /\ Socks!Char(b) \in Int /\ Socks!Char(b) <= CharMax
         /\ Socks!Char(b) <= b /\ (Socks!Char(b) >= 0 => Socks!Char(b) = b)
BY SessionsAssumption
   DEF SessionsAssumption, Socks!Socks5Assumption, Socks!Byte, Socks!Char

\* The lengths of the parts of a request.
LEMMA SocksLens ==
  ASSUME req \in Requests
  PROVE  /\ Socks!GreetingLen = 2 + req.nmethods /\ Socks!GreetingLen \in Nat
         /\ Socks!AddressLen \in Int /\ Socks!HeaderLen \in Nat
         /\ Socks!HeaderLen >= Socks!GreetingLen + 6
         /\ Socks!HeaderLen >= Socks!GreetingLen + Socks!AddressLen + 6
         /\ Socks!AddressLen + 6 <= BufSize /\ BufSize \in Nat /\ BufSize >= 22
         /\ Socks!AddressLen > 0 =>
              Socks!HeaderLen = Socks!GreetingLen + Socks!AddressLen + 6
         /\ Socks!AddressLen > 0 => ~Socks!BadName
         /\ req.atyp = "ipv4" => Socks!AddressLen = 4
         /\ ~Socks!Swallows => Socks!AddressLen + 6 \notin 1..4
<1> PICK n, d : n = req.nmethods /\ d = req.dlen
  OBVIOUS
<1>1. n \in Socks!Byte /\ d \in Socks!Byte
  BY SessionsAssumption DEF SessionsAssumption, Socks!Socks5Assumption
<1> PICK c : c = Socks!Char(d)
  OBVIOUS
<1>2. n \in Nat /\ d \in Nat /\ c \in Int /\ c <= CharMax /\ c <= d /\ (c >= 0 => c = d)
  BY <1>1, SocksChar
<1>3. /\ CharMax \in Nat /\ BufSize \in Nat /\ BufSize >= CharMax + 7 /\ BufSize >= 22
  BY SessionsAssumption DEF SessionsAssumption, Socks!Socks5Assumption
<1>4. Socks!GreetingLen = 2 + n /\ Socks!GreetingLen \in Nat
  BY <1>2 DEF Socks!GreetingLen
<1>5. CASE req.atyp = "domain"
  <2>1. Socks!AddressLen = c + 1 /\ Socks!HeaderLen = Socks!GreetingLen + 6 + (d + 1)
    BY <1>5 DEF Socks!AddressLen, Socks!HeaderLen, Socks!Address
  <2>2. Socks!BadName => c < 0
    BY DEF Socks!BadName
  <2>3. ~Socks!Swallows => c \notin -6..-3
    BY <1>5 DEF Socks!Swallows
  <2>4. ~Socks!Swallows => c + 1 + 6 \notin 1..4
    BY <2>3, <1>2
  <2>5. QED
    BY <1>2, <1>3, <1>4, <1>5, <2>1, <2>2, <2>4
<1>6. CASE req.atyp # "domain"
  <2>1. \E a \in {0, 4, 16} :
           /\ Socks!AddressLen = a /\ Socks!HeaderLen = Socks!GreetingLen + 6 + a
           /\ req.atyp = "ipv4" => a = 4
    <3>1. CASE req.atyp = "ipv4"
      BY <3>1 DEF Socks!AddressLen, Socks!HeaderLen, Socks!Address
    <3>2. CASE req.atyp = "ipv6"
      BY <3>2 DEF Socks!AddressLen, Socks!HeaderLen, Socks!Address
    <3>3. CASE req.atyp \notin {"ipv4", "ipv6", "domain"}
      BY <3>3 DEF Socks!AddressLen, Socks!HeaderLen, Socks!Address
    <3>4. QED
      BY <1>6, <3>1, <3>2, <3>3
  <2>2. ~Socks!BadName
    BY <1>6 DEF Socks!BadName
  <2>3. QED
    BY <1>2, <1>3, <1>4, <2>1, <2>2
<1>7. QED
  BY <1>5, <1>6

\* They are those of the request, which stays.
LEMMA SocksLensKept ==
  ASSUME req' = req
  PROVE  /\ Socks!GreetingLen' = Socks!GreetingLen
         /\ Socks!AddressLen' = Socks!AddressLen
         /\ Socks!HeaderLen' = Socks!HeaderLen
         /\ Socks!Swallows' = Socks!Swallows
BY DEF Socks!GreetingLen, Socks!AddressLen, Socks!HeaderLen, Socks!Swallows,
       Socks!Address, Socks!Char

\* A child that has had no user yet.
LEMMA SocksInit == Socks!Init => SocksInv
<1> SUFFICES ASSUME Socks!Init
             PROVE  SocksInv
  OBVIOUS
<1>1. req \in Requests
  <2>1. Requests # {}
    BY SessionsAssumption DEF SessionsAssumption, Socks!Socks5Assumption
  <2>2. req = CHOOSE r \in Requests : TRUE
    BY DEF Socks!Init
  <2>3. QED
    BY <2>1, <2>2
<1>2. /\ mode = "idle" /\ state = "METHOD" /\ connected = FALSE /\ cmdLen = 0
      /\ sent = 0 /\ read = 0 /\ here = FALSE /\ server = "null"
      /\ peer = "none" /\ left = 0 /\ back = 0 /\ replies = <<>>
      /\ toPeer = 0 /\ unreadUp = 0 /\ lost = 0
      /\ fromPeer = 0 /\ given = 0 /\ unreadDown = 0 /\ lostDown = 0
  BY DEF Socks!Init
<1>3. Socks!GreetingLen \in Nat
  BY <1>1, SocksLens
<1>4. SocksType
  BY <1>1, <1>2 DEF SocksType, SocksStates, SocksModes
<1>5. Framed /\ GivenBack
  BY <1>2, <1>3 DEF Framed, GivenBack
<1>6. PeerThere /\ Replied
  BY <1>2 DEF PeerThere, Replied
<1>7. QED
  BY <1>4, <1>5, <1>6 DEF SocksInv

\* What a Recv() returns.
LEMMA SocksRecv ==
  ASSUME NEW want \in Int, read \in Nat, sent \in Nat, read <= sent
  PROVE  /\ Socks!Recv(want) \in Nat /\ read + Socks!Recv(want) <= sent
         /\ want >= 0 => Socks!Recv(want) <= want
BY DEF Socks!Recv

\* ReadMethods(): the greeting is read to its end and no further.
LEMMA SocksReadMethods == SocksInv /\ Socks!ReadMethods => SocksInv'
<1> SUFFICES ASSUME SocksInv, Socks!ReadMethods
             PROVE  SocksInv'
  OBVIOUS
<1> DEFINE n    == Socks!Char(req.nmethods)
           want == IF cmdLen < 2 THEN 2 - cmdLen ELSE n - cmdLen + 2
           len  == Socks!Recv(want)
<1>1. /\ mode = "serving" /\ connected /\ state = "METHOD"
      /\ read' = read + len
      /\ UNCHANGED <<req, sent, here, peer, left, back, Socks!up, Socks!down, replies>>
  BY DEF Socks!ReadMethods
<1>2. \/ len = 0 /\ Socks!Cleanup /\ UNCHANGED <<mode, state, cmdLen>>
      \/ /\ cmdLen + len > BufSize /\ Socks!Overrun
         /\ cmdLen' = cmdLen + len /\ state' = state
      \/ cmdLen' = cmdLen + len /\ Socks!Keep /\ UNCHANGED <<mode, state>>
      \/ /\ cmdLen + len >= 2 /\ (cmdLen + len) - 2 = n
         /\ cmdLen' = 0 /\ state' = "CMD" /\ Socks!Keep /\ mode' = mode
      \/ cmdLen' = cmdLen + len /\ Socks!Cleanup /\ UNCHANGED <<mode, state>>
  BY DEF Socks!ReadMethods
<1>3. /\ req \in Requests /\ req.nmethods \in Socks!Byte
      /\ read \in Nat /\ sent \in Nat /\ read <= sent /\ read = cmdLen
      /\ cmdLen \in Nat /\ (~Socks!Swallows => cmdLen <= Socks!GreetingLen)
      /\ Socks!GreetingLen = 2 + req.nmethods
      /\ CharMax \in Nat /\ BufSize \in Nat /\ BufSize >= CharMax + 7
  BY <1>1, SessionsAssumption, SocksLens
     DEF SocksInv, SocksType, Framed, SessionsAssumption, Socks!Socks5Assumption
<1>4. /\ n \in Int /\ req.nmethods \in Nat /\ n <= CharMax
      /\ n >= 0 => n = req.nmethods
      /\ ~Socks!Swallows => n >= 0
  BY <1>3, SocksChar DEF Socks!Swallows
<1> HIDE DEF n
<1>5. want \in Int /\ (~Socks!Swallows => want >= 0 /\ cmdLen + want <= Socks!GreetingLen)
  BY <1>3, <1>4
<1>6. len \in Nat /\ read + len <= sent /\ (~Socks!Swallows => cmdLen + len <= Socks!GreetingLen)
  <2>1. len \in Nat /\ read + len <= sent /\ (want >= 0 => len <= want)
    BY <1>3, <1>5, SocksRecv
  <2> HIDE DEF want, len
  <2>2. QED
    BY <1>3, <1>5, <2>1
<1> HIDE DEF want, len
<1>7. /\ Socks!GreetingLen' = Socks!GreetingLen /\ Socks!AddressLen' = Socks!AddressLen
      /\ Socks!HeaderLen' = Socks!HeaderLen /\ Socks!GreetingLen \in Nat
      /\ Socks!Swallows' = Socks!Swallows
  BY <1>1, <1>3, SocksLens, SocksLensKept
<1>8. /\ UNCHANGED <<toPeer, unreadUp, lost, fromPeer, given, unreadDown, lostDown>>
  BY <1>1 DEF Socks!up, Socks!down
<1> USE DEF Socks!Cleanup, Socks!Keep, Socks!Overrun
<1>9. \/ /\ server' \in {server, "null"} /\ UNCHANGED <<mode, state, cmdLen>> /\ len = 0
      \/ /\ mode' = "overrun" /\ server' = server /\ state' = state
         /\ cmdLen' = cmdLen + len /\ cmdLen + len > BufSize
      \/ /\ server' \in {server, "null"} /\ UNCHANGED <<mode, state>>
         /\ cmdLen' = cmdLen + len
      \/ /\ server' = server /\ state' = "CMD" /\ cmdLen' = 0 /\ mode' = mode
         /\ (cmdLen + len) - 2 = n /\ cmdLen + len >= 2
  BY <1>2
<1>10. /\ read' \in Nat /\ cmdLen' \in Nat /\ read' <= sent
       /\ state' \in {"METHOD", "CMD"} /\ server' \in {server, "null"}
       /\ mode' \in {"serving", "overrun"}
       /\ state' = "METHOD" =>
            read' = cmdLen' /\ (~Socks!Swallows => cmdLen' <= Socks!GreetingLen)
       /\ state' = "CMD" => cmdLen' = 0 /\ read' = Socks!GreetingLen
       /\ mode' = "overrun" => Socks!Swallows
  BY <1>1, <1>3, <1>4, <1>6, <1>9
<1>11. SocksType'
  BY <1>1, <1>8, <1>10 DEF SocksInv, SocksType, SocksStates, SocksModes
<1>12. Framed'
  <2>1. toPeer' = 0 /\ lost' = 0 /\ sent' = sent /\ state' # "LISTEN" /\ state' # "FORWARD"
    BY <1>1, <1>8, <1>10 DEF SocksInv, Framed
  <2>2. state' = "CMD" => cmdLen' <= 5 /\ read' = Socks!GreetingLen + cmdLen'
    BY <1>7, <1>10
  <2>3. QED
    BY <2>1, <2>2, <1>7, <1>10 DEF Framed
<1>13. GivenBack'
  BY <1>1, <1>8, <1>10 DEF SocksInv, GivenBack
<1>14. PeerThere'
  BY <1>1, <1>8, <1>10 DEF SocksInv, PeerThere
<1>15. Replied'
  BY <1>1, <1>10 DEF SocksInv, Replied
<1>16. QED
  BY <1>11, <1>12, <1>13, <1>14, <1>15 DEF SocksInv

\* A second reply after a first one.
LEMMA AppendOne ==
  ASSUME NEW a, NEW b
  PROVE  Append(<<a>>, b) = <<a, b>>
<1> DEFINE S == {a, b}
<1>1. <<a>> \in Seq(S) /\ Len(<<a>>) = 1 /\ <<a>>[1] = a
  OBVIOUS
<1>2. /\ Append(<<a>>, b) \in Seq(S) /\ Len(Append(<<a>>, b)) = 2
      /\ Append(<<a>>, b)[1] = a /\ Append(<<a>>, b)[2] = b
  BY <1>1, b \in S, AppendProperties
<1>3. <<a, b>> \in Seq(S) /\ Len(<<a, b>>) = 2 /\ <<a, b>>[1] = a /\ <<a, b>>[2] = b
  OBVIOUS
<1> PICK s, t : s = Append(<<a>>, b) /\ t = <<a, b>>
  OBVIOUS
<1>4. /\ s \in Seq(S) /\ t \in Seq(S) /\ Len(s) = Len(t)
      /\ \A i \in 1..Len(s) : s[i] = t[i]
  BY <1>2, <1>3
<1>5. s = t
  BY <1>4, SeqEqual
<1>6. QED
  BY <1>5

\* ReadRequest(): how far the request is read at one go.
LEMMA SocksWanted ==
  ASSUME SocksInv, state = "CMD", NEW len,
         len = IF Socks!WantedLen > 0 THEN Socks!Recv(Socks!WantedLen - cmdLen) ELSE 0
  PROVE  /\ len \in Nat /\ read + len <= sent
         /\ req.atyp = "ipv4" \/ ~Socks!Swallows =>
              /\ cmdLen + len <= 5 \/ cmdLen + len <= Socks!AddressLen + 6
              /\ cmdLen + len <= BufSize
              /\ len > 0 /\ cmdLen + len > 6 /\ cmdLen + len >= Socks!WantedLen =>
                   cmdLen + len = Socks!AddressLen + 6
         /\ req.atyp = "ipv4" /\ cmdLen = Socks!AddressLen + 6 => len = 0
<1> PICK w : w = Socks!WantedLen
  OBVIOUS
<1>1. /\ cmdLen \in Nat /\ read \in Nat /\ sent \in Nat /\ read <= sent /\ req \in Requests
      /\ req.atyp = "ipv4" \/ ~Socks!Swallows =>
           cmdLen <= 5 \/ cmdLen <= Socks!AddressLen + 6
  BY DEF SocksInv, SocksType, Framed
<1>2. /\ Socks!AddressLen \in Int /\ Socks!AddressLen + 6 <= BufSize
      /\ BufSize \in Nat /\ BufSize >= 22
      /\ req.atyp = "ipv4" => Socks!AddressLen = 4
      /\ ~Socks!Swallows => Socks!AddressLen + 6 \notin 1..4
  BY <1>1, SocksLens
<1>3. /\ w \in Int /\ (cmdLen < 5 => w = 5)
      /\ cmdLen >= 5 /\ w > 0 => w = Socks!AddressLen + 6
      /\ cmdLen >= 5 /\ Socks!AddressLen + 6 > 0 => w = Socks!AddressLen + 6
  BY <1>1, <1>2 DEF Socks!WantedLen
<1>4. req.atyp = "ipv4" \/ ~Socks!Swallows => (w > 0 => w - cmdLen >= 0)
  BY <1>1, <1>2, <1>3
<1>5. CASE w > 0
  <2> PICK l : l = Socks!Recv(w - cmdLen)
    OBVIOUS
  <2>1. l = len
    BY <1>5
  <2>2. w - cmdLen \in Int
    BY <1>1, <1>3
  <2>3. l \in Nat /\ read + l <= sent /\ (w - cmdLen >= 0 => l <= w - cmdLen)
    BY <1>1, <2>2, SocksRecv
  <2>4. req.atyp = "ipv4" \/ ~Socks!Swallows => cmdLen + l <= w
    BY <1>1, <1>3, <1>4, <1>5, <2>3
  <2>5. QED
    BY <1>1, <1>2, <1>3, <1>5, <2>1, <2>3, <2>4
<1>6. CASE ~(w > 0)
  <2>1. len = 0
    BY <1>6
  <2>2. QED
    BY <1>1, <1>2, <2>1
<1>7. QED
  BY <1>5, <1>6

\* ReadRequest(): the request is read to its end, and what is done with it is reported.
LEMMA SocksReadRequest == SocksInv /\ Socks!ReadRequest => SocksInv'
<1> SUFFICES ASSUME SocksInv, Socks!ReadRequest
             PROVE  SocksInv'
  OBVIOUS
<1> DEFINE len  == IF Socks!WantedLen > 0 THEN Socks!Recv(Socks!WantedLen - cmdLen) ELSE 0
           have == cmdLen + len
           all  == have > 6 /\ have >= Socks!WantedLen
<1>1. /\ mode = "serving" /\ connected /\ state = "CMD"
      /\ read' = read + len /\ cmdLen' = have
      /\ UNCHANGED <<req, sent, here, left, back, Socks!up, Socks!down>>
  BY DEF Socks!ReadRequest
<1>2. \/ len > 0 /\ have <= BufSize /\ all /\ Socks!HandleRequest /\ mode' = mode
      \/ len > 0 /\ Socks!Keep /\ UNCHANGED <<mode, state, peer, replies>>
      \/ /\ len = 0 /\ Socks!SendReply("general") /\ Socks!Cleanup
         /\ UNCHANGED <<mode, state, peer>>
      \/ /\ have > BufSize \/ (len > 0 /\ all /\ Socks!BadName)
         /\ Socks!Overrun /\ UNCHANGED <<state, peer, replies>>
  BY DEF Socks!ReadRequest
<1>3. /\ Socks!GreetingLen' = Socks!GreetingLen /\ Socks!AddressLen' = Socks!AddressLen
      /\ Socks!HeaderLen' = Socks!HeaderLen /\ Socks!Swallows' = Socks!Swallows
  BY <1>1, SocksLensKept
<1>4. /\ Socks!GreetingLen \in Nat /\ Socks!AddressLen \in Int /\ Socks!HeaderLen \in Nat
      /\ Socks!AddressLen > 0 =>
           Socks!HeaderLen = Socks!GreetingLen + Socks!AddressLen + 6
      /\ Socks!AddressLen > 0 => ~Socks!BadName
      /\ BufSize \in Nat
  BY SocksLens DEF SocksInv, SocksType
<1>5. /\ req \in Requests /\ read \in Nat /\ sent \in Nat /\ read <= sent /\ cmdLen \in Nat
      /\ ~Socks!Swallows => read = Socks!GreetingLen + cmdLen
  BY <1>1 DEF SocksInv, SocksType, Framed
<1>6. /\ len \in Nat /\ read + len <= sent
      /\ req.atyp = "ipv4" \/ ~Socks!Swallows =>
           /\ have <= 5 \/ have <= Socks!AddressLen + 6
           /\ have <= BufSize
           /\ len > 0 /\ all => have = Socks!AddressLen + 6
      /\ req.atyp = "ipv4" /\ cmdLen = Socks!AddressLen + 6 => len = 0
  BY <1>1, SocksWanted
<1> HIDE DEF len
<1>7. /\ peer = "none" /\ toPeer = 0 /\ lost = 0
      /\ \/ replies = <<>>
         \/ replies = <<"refused">> /\ req.atyp = "ipv4" /\ cmdLen = Socks!AddressLen + 6
  BY <1>1 DEF SocksInv, PeerThere, Replied, Framed
<1>8. len > 0 => replies = <<>>
  BY <1>6, <1>7
<1>9. UNCHANGED <<toPeer, unreadUp, lost, fromPeer, given, unreadDown, lostDown>>
  BY <1>1 DEF Socks!up, Socks!down
<1>10. /\ read' \in Nat /\ read' <= sent' /\ cmdLen' \in Nat
       /\ ~Socks!Swallows => read' = Socks!GreetingLen + cmdLen'
       /\ req.atyp = "ipv4" \/ ~Socks!Swallows =>
            cmdLen' <= 5 \/ cmdLen' <= Socks!AddressLen + 6
       /\ toPeer' = 0 /\ lost' = 0 /\ req' = req
       /\ mode' = "overrun" \/ mode' = mode
  BY <1>1, <1>2, <1>4, <1>5, <1>6, <1>7, <1>9 DEF Socks!Overrun
<1>11. GivenBack'
  <2>1. mode # "sendingDown" /\ mode' # "sendingDown"
    BY <1>1, <1>10
  <2>2. QED
    BY <1>1, <1>9, <2>1 DEF SocksInv, GivenBack
<1> USE DEF Socks!Cleanup, Socks!Keep, Socks!SendReply
<1>12. CASE len > 0 /\ have <= BufSize /\ all /\ Socks!HandleRequest /\ mode' = mode
  <2>1. replies = <<>> /\ (~Socks!Swallows => read' = Socks!HeaderLen)
        /\ (req.atyp = "ipv4" => cmdLen' = Socks!AddressLen + 6)
    BY <1>1, <1>4, <1>5, <1>6, <1>8, <1>10, <1>12
  <2>2. \/ req.cmd = "connect" /\ Socks!HandleConnect
        \/ req.cmd = "bind" /\ Socks!HandleBind
        \/ Socks!SendReply("unsupported") /\ Socks!Cleanup /\ UNCHANGED <<state, peer>>
    BY <1>12 DEF Socks!HandleRequest
  <2>3. \/ /\ server' = "connected" /\ peer' = "up" /\ connected' = TRUE
           /\ state' = "FORWARD" /\ replies' = <<"ok">> /\ req.cmd = "connect"
        \/ /\ req.atyp = "ipv4" /\ server' = "failed" /\ replies' = <<"refused">>
           /\ connected' = TRUE /\ UNCHANGED <<state, peer>>
        \/ /\ server' \in {"failed", server, "null"} /\ connected' = FALSE
           /\ replies' \in {<<"refused">>, <<"general">>, <<"unsupported">>}
           /\ UNCHANGED <<state, peer>>
        \/ /\ server' = "listening" /\ state' = "LISTEN" /\ replies' = <<"ok">>
           /\ UNCHANGED <<connected, peer>> /\ req.cmd = "bind"
    <3>1. CASE req.cmd = "connect" /\ Socks!HandleConnect
      BY <2>1, <3>1 DEF Socks!HandleConnect, Socks!Connected, Socks!Refused
    <3>2. CASE req.cmd = "bind" /\ Socks!HandleBind
      BY <2>1, <3>2 DEF Socks!HandleBind
    <3>3. CASE Socks!SendReply("unsupported") /\ Socks!Cleanup /\ UNCHANGED <<state, peer>>
      BY <2>1, <3>3
    <3>4. QED
      BY <2>2, <3>1, <3>2, <3>3
  <2>4. SocksType'
    BY <1>1, <1>9, <1>10, <1>12, <2>3 DEF SocksInv, SocksType, SocksStates
  <2>5. Framed'
    <3>1. state' = "FORWARD" \/ state' = state \/ state' = "LISTEN"
      BY <2>3
    <3>2. state' \in {"CMD", "LISTEN", "FORWARD"}
      BY <1>1, <3>1
    <3>3. mode' = "serving"
      BY <1>1, <1>12
    <3>4. ~Socks!Swallows => read' = Socks!HeaderLen
      BY <2>1
    <3>5. toPeer' = 0 /\ lost' = 0 /\ Socks!HeaderLen \in Nat
      BY <1>4, <1>10
    <3>6. ~Socks!Swallows => read' = Socks!HeaderLen + toPeer' + lost'
      BY <3>4, <3>5
    <3>7. read' <= sent' /\ Socks!HeaderLen' = Socks!HeaderLen /\ Socks!Swallows' = Socks!Swallows
      BY <1>3, <1>10
    <3>8. state' = "CMD" => /\ ~Socks!Swallows' => read' = Socks!GreetingLen' + cmdLen'
                            /\ req'.atyp = "ipv4" \/ ~Socks!Swallows' =>
                                 cmdLen' <= 5 \/ cmdLen' <= Socks!AddressLen' + 6
      BY <1>3, <1>10
    <3>9. QED
      BY <3>2, <3>3, <3>4, <3>5, <3>6, <3>7, <3>8 DEF Framed
  <2>6. PeerThere'
    BY <1>1, <1>7, <1>10, <1>12, <2>3 DEF SocksInv, PeerThere
  <2>7. Replied'
    BY <1>1, <1>3, <1>10, <2>1, <2>3 DEF SocksInv, Replied
  <2>8. QED
    BY <1>11, <2>4, <2>5, <2>6, <2>7 DEF SocksInv
<1>13. CASE len > 0 /\ Socks!Keep /\ UNCHANGED <<mode, state, peer, replies>>
  <2>1. SocksType'
    BY <1>1, <1>9, <1>10, <1>13 DEF SocksInv, SocksType, SocksStates
  <2>2. Framed'
    BY <1>1, <1>3, <1>10, <1>13 DEF SocksInv, Framed
  <2>3. PeerThere' /\ Replied'
    BY <1>1, <1>7, <1>8, <1>10, <1>13 DEF SocksInv, PeerThere, Replied
  <2>4. QED
    BY <1>11, <2>1, <2>2, <2>3 DEF SocksInv
<1>14. CASE /\ len = 0 /\ Socks!SendReply("general") /\ Socks!Cleanup
            /\ UNCHANGED <<mode, state, peer>>
  <2>1. \/ replies' = <<"general">>
        \/ replies' = <<"refused", "general">> /\ req.atyp = "ipv4"
    <3>1. CASE replies = <<>>
      BY <1>14, <3>1
    <3>2. CASE replies = <<"refused">> /\ req.atyp = "ipv4"
      <4>1. Append(<<"refused">>, "general") = <<"refused", "general">>
        BY AppendOne
      <4>2. QED
        BY <1>14, <3>2, <4>1
    <3>3. QED
      BY <1>7, <3>1, <3>2
  <2>2. SocksType'
    BY <1>1, <1>9, <1>10, <1>14 DEF SocksInv, SocksType, SocksStates
  <2>3. Framed'
    BY <1>1, <1>3, <1>10, <1>14 DEF SocksInv, Framed
  <2>4. PeerThere' /\ Replied'
    BY <1>1, <1>7, <1>10, <1>14, <2>1 DEF SocksInv, PeerThere, Replied
  <2>5. QED
    BY <1>11, <2>2, <2>3, <2>4 DEF SocksInv
<1>15. CASE /\ have > BufSize \/ (len > 0 /\ all /\ Socks!BadName)
            /\ Socks!Overrun /\ UNCHANGED <<state, peer, replies>>
  <2>1. mode' = "overrun" /\ UNCHANGED <<connected, server>>
    BY <1>15 DEF Socks!Overrun
  <2>2. Socks!Swallows /\ req.atyp # "ipv4" /\ replies = <<>>
    <3>1. Socks!BadName => req.atyp # "ipv4"
      BY DEF Socks!BadName
    <3>2. CASE have > BufSize
      BY <1>4, <1>5, <1>6, <1>7, <3>2
    <3>3. CASE len > 0 /\ all /\ Socks!BadName
      BY <1>4, <1>5, <1>6, <1>8, <3>1, <3>3
    <3>4. QED
      BY <1>15, <3>2, <3>3
  <2>3. SocksType'
    BY <1>1, <1>9, <1>10, <1>15, <2>1 DEF SocksInv, SocksType, SocksStates, SocksModes
  <2>4. Framed'
    BY <1>1, <1>3, <1>10, <1>15, <2>1, <2>2 DEF SocksInv, Framed
  <2>5. PeerThere' /\ Replied'
    BY <1>1, <1>7, <1>10, <1>15, <2>1, <2>2 DEF SocksInv, PeerThere, Replied
  <2>6. QED
    BY <1>11, <2>3, <2>4, <2>5 DEF SocksInv
<1>16. QED
  BY <1>2, <1>12, <1>13, <1>14, <1>15

\* The relay: what is read from one end goes into a Send() to the other.
LEMMA SocksForward == SocksInv /\ (Socks!ForwardUser \/ Socks!ForwardPeer) => SocksInv'
<1> SUFFICES ASSUME SocksInv, Socks!ForwardUser \/ Socks!ForwardPeer
             PROVE  SocksInv'
  OBVIOUS
<1>1. /\ mode = "serving" /\ connected /\ state = "FORWARD"
      /\ UNCHANGED <<state, cmdLen, req, sent, here, peer, back, toPeer, unreadUp,
                     lost, given, unreadDown, lostDown, replies>>
  BY DEF Socks!ForwardUser, Socks!ForwardPeer, Socks!Forwarding, Socks!up, Socks!down
<1>2. /\ Socks!GreetingLen' = Socks!GreetingLen /\ Socks!AddressLen' = Socks!AddressLen
      /\ Socks!HeaderLen' = Socks!HeaderLen /\ Socks!Swallows' = Socks!Swallows
  BY <1>1, SocksLensKept
<1>3. /\ read \in Nat /\ sent \in Nat /\ read <= sent /\ back \in Nat /\ fromPeer \in Nat
      /\ fromPeer <= back /\ fromPeer = given + lostDown
      /\ toPeer \in Nat /\ lost \in Nat /\ given \in Nat /\ lostDown \in Nat
      /\ left \in Nat /\ Socks!HeaderLen \in Nat
      /\ ~Socks!Swallows => read = Socks!HeaderLen + toPeer + lost
      /\ server # "listening"
  BY <1>1, SocksLens DEF SocksInv, SocksType, Framed, GivenBack, PeerThere
<1>4. \/ /\ connected' = FALSE /\ server' = "null" /\ UNCHANGED <<mode, read, fromPeer, left>>
      \/ /\ read' = sent /\ left' = sent - read /\ fromPeer' = fromPeer
         /\ mode' = "sendingUp" /\ UNCHANGED <<connected, server>>
      \/ /\ fromPeer' = back /\ left' = back - fromPeer /\ read' = read
         /\ mode' = "sendingDown" /\ UNCHANGED <<connected, server>>
  <2>1. CASE Socks!ForwardUser
    BY <2>1 DEF Socks!ForwardUser, Socks!Cleanup, Socks!Keep, Socks!down
  <2>2. CASE Socks!ForwardPeer
    BY <2>2 DEF Socks!ForwardPeer, Socks!Cleanup, Socks!Keep
  <2>3. QED
    BY <2>1, <2>2
<1>5. /\ read' \in Nat /\ left' \in Nat /\ fromPeer' \in Nat /\ read' <= sent
      /\ fromPeer' <= back /\ mode' \in {"serving", "sendingUp", "sendingDown"}
      /\ fromPeer' = given + lostDown + (IF mode' = "sendingDown" THEN left' ELSE 0)
      /\ ~Socks!Swallows => read' = Socks!HeaderLen + toPeer + lost
                                     + (IF mode' = "sendingUp" THEN left' ELSE 0)
      /\ server' \in {server, "null"}
  <2>1. CASE connected' = FALSE /\ server' = "null" /\ UNCHANGED <<mode, read, fromPeer, left>>
    BY <1>1, <1>3, <2>1
  <2>2. CASE /\ read' = sent /\ left' = sent - read /\ fromPeer' = fromPeer
             /\ mode' = "sendingUp" /\ UNCHANGED <<connected, server>>
    BY <1>3, <2>2
  <2>3. CASE /\ fromPeer' = back /\ left' = back - fromPeer /\ read' = read
             /\ mode' = "sendingDown" /\ UNCHANGED <<connected, server>>
    BY <1>3, <2>3
  <2>4. QED
    BY <1>4, <2>1, <2>2, <2>3
<1>6. SocksType'
  BY <1>1, <1>5 DEF SocksInv, SocksType, SocksStates, SocksModes
<1>7. Framed'
  BY <1>1, <1>2, <1>5 DEF SocksInv, Framed
<1>8. GivenBack'
  BY <1>1, <1>5 DEF SocksInv, GivenBack
<1>9. PeerThere'
  BY <1>1, <1>3, <1>5 DEF SocksInv, PeerThere
<1>10. Replied'
  BY <1>1, <1>4 DEF SocksInv, Replied
<1>11. QED
  BY <1>6, <1>7, <1>8, <1>9, <1>10 DEF SocksInv

\* A Send(): what fits into the buffers is on its way, and nothing of it is lost while the
\* end it is for is there.
LEMMA SocksSends == SocksInv /\ (Socks!SendUp \/ Socks!SendDown) => SocksInv'
<1> SUFFICES ASSUME SocksInv, Socks!SendUp \/ Socks!SendDown
             PROVE  SocksInv'
  OBVIOUS
<1>1. /\ mode \in {"sendingUp", "sendingDown"} /\ left' \in Int
      /\ UNCHANGED <<state, connected, cmdLen, req, sent, read, here, server, peer,
                     back, fromPeer, replies>>
  <2>1. left \in Nat
    BY DEF SocksInv, SocksType
  <2>2. Room \in Nat
    BY SessionsAssumption DEF SessionsAssumption, Socks!Socks5Assumption
  <2>3. unreadUp \in Nat /\ unreadDown \in Nat
    BY DEF SocksInv, SocksType
  <2>4. QED
    BY <2>1, <2>2, <2>3 DEF Socks!SendUp, Socks!SendDown, Socks!up, Socks!down,
       Socks!Goes, Socks!Fits
<1>2. /\ Socks!GreetingLen' = Socks!GreetingLen /\ Socks!AddressLen' = Socks!AddressLen
      /\ Socks!HeaderLen' = Socks!HeaderLen /\ Socks!Swallows' = Socks!Swallows
  BY <1>1, SocksLensKept
<1>3. state = "FORWARD" /\ peer \in {"up", "gone"} /\ Socks!HeaderLen \in Nat
  BY <1>1, SocksLens DEF SocksInv, SocksType, PeerThere
<1>4. /\ left \in Nat /\ toPeer \in Nat /\ unreadUp \in Nat /\ lost \in Nat
      /\ given \in Nat /\ unreadDown \in Nat /\ lostDown \in Nat /\ Room \in Nat
  BY SessionsAssumption
     DEF SocksInv, SocksType, SessionsAssumption, Socks!Socks5Assumption
<1>5. CASE Socks!SendUp
  <2>1. mode = "sendingUp" /\ UNCHANGED <<given, unreadDown, lostDown>>
    BY <1>5 DEF Socks!SendUp, Socks!down
  <2>2. \E k \in Nat :
          /\ k <= left /\ left' = left - k
          /\ mode' = IF k = left THEN "serving" ELSE mode
          /\ \/ /\ toPeer' = toPeer + k /\ unreadUp' = unreadUp + k /\ lost' = lost
             \/ /\ peer # "up" /\ lost' = lost + k /\ toPeer' = toPeer
                /\ unreadUp' = unreadUp
    <3>1. CASE peer = "up"
      <4>1. unreadUp < Room
        BY <1>5, <3>1 DEF Socks!SendUp
      <4> PICK k : k = Socks!Fits(unreadUp)
        OBVIOUS
      <4>2. k \in Nat /\ k <= left
        BY <1>4, <4>1 DEF Socks!Fits
      <4>3. /\ left' = left - k /\ mode' = IF k = left THEN "serving" ELSE mode
            /\ toPeer' = toPeer + k /\ unreadUp' = unreadUp + k /\ lost' = lost
        BY <1>5, <3>1 DEF Socks!SendUp, Socks!Goes
      <4>4. QED
        BY <4>2, <4>3
    <3>2. CASE peer # "up"
      <4>1. /\ left' = left - left /\ mode' = IF left = left THEN "serving" ELSE mode
            /\ lost' = lost + left /\ toPeer' = toPeer /\ unreadUp' = unreadUp
        BY <1>5, <3>2 DEF Socks!SendUp, Socks!Goes
      <4>2. QED
        BY <1>4, <3>2, <4>1
    <3>3. QED
      BY <3>1, <3>2
  <2> PICK k \in Nat :
        /\ k <= left /\ left' = left - k
        /\ mode' = IF k = left THEN "serving" ELSE mode
        /\ \/ /\ toPeer' = toPeer + k /\ unreadUp' = unreadUp + k /\ lost' = lost
           \/ /\ peer # "up" /\ lost' = lost + k /\ toPeer' = toPeer
              /\ unreadUp' = unreadUp
    BY <2>2
  <2>3. /\ left' \in Nat /\ toPeer' \in Nat /\ unreadUp' \in Nat /\ lost' \in Nat
        /\ mode' \in {"serving", "sendingUp"}
        /\ toPeer' + lost' + (IF mode' = "sendingUp" THEN left' ELSE 0)
             = toPeer + lost + left
        /\ lost' # 0 => lost # 0 \/ peer # "up"
    BY <1>4, <2>1
  <2>4. SocksType'
    BY <1>1, <2>1, <2>3 DEF SocksInv, SocksType, SocksModes
  <2>5. Framed'
    <3>1. read <= sent /\ (~Socks!Swallows => read = Socks!HeaderLen + (toPeer + lost + left))
      BY <1>3, <1>4, <2>1 DEF SocksInv, Framed
    <3>2. ~Socks!Swallows => read = Socks!HeaderLen + toPeer' + lost'
                                     + (IF mode' = "sendingUp" THEN left' ELSE 0)
      BY <1>3, <2>3, <3>1
    <3>3. QED
      BY <1>1, <1>2, <1>3, <2>3, <3>1, <3>2 DEF Framed
  <2>6. GivenBack'
    BY <1>1, <2>1, <2>3 DEF SocksInv, GivenBack
  <2>7. PeerThere' /\ Replied'
    BY <1>1, <1>2, <1>3, <2>3 DEF SocksInv, PeerThere, Replied
  <2>8. QED
    BY <2>4, <2>5, <2>6, <2>7 DEF SocksInv
<1>6. CASE Socks!SendDown
  <2>1. mode = "sendingDown" /\ UNCHANGED <<toPeer, unreadUp, lost>>
    BY <1>6 DEF Socks!SendDown, Socks!up
  <2>2. \E k \in Nat :
          /\ k <= left /\ left' = left - k
          /\ mode' = IF k = left THEN "serving" ELSE mode
          /\ \/ /\ given' = given + k /\ unreadDown' = unreadDown + k
                /\ lostDown' = lostDown
             \/ /\ ~here /\ lostDown' = lostDown + k /\ given' = given
                /\ unreadDown' = unreadDown
    <3>1. CASE here
      <4>1. unreadDown < Room
        BY <1>6, <3>1 DEF Socks!SendDown
      <4> PICK k : k = Socks!Fits(unreadDown)
        OBVIOUS
      <4>2. k \in Nat /\ k <= left
        BY <1>4, <4>1 DEF Socks!Fits
      <4>3. /\ left' = left - k /\ mode' = IF k = left THEN "serving" ELSE mode
            /\ given' = given + k /\ unreadDown' = unreadDown + k /\ lostDown' = lostDown
        BY <1>6, <3>1 DEF Socks!SendDown, Socks!Goes
      <4>4. QED
        BY <4>2, <4>3
    <3>2. CASE ~here
      <4>1. /\ left' = left - left /\ mode' = IF left = left THEN "serving" ELSE mode
            /\ lostDown' = lostDown + left /\ given' = given /\ unreadDown' = unreadDown
        BY <1>6, <3>2 DEF Socks!SendDown, Socks!Goes
      <4>2. QED
        BY <1>4, <3>2, <4>1
    <3>3. QED
      BY <3>1, <3>2
  <2> PICK k \in Nat :
        /\ k <= left /\ left' = left - k
        /\ mode' = IF k = left THEN "serving" ELSE mode
        /\ \/ /\ given' = given + k /\ unreadDown' = unreadDown + k
              /\ lostDown' = lostDown
           \/ /\ ~here /\ lostDown' = lostDown + k /\ given' = given
              /\ unreadDown' = unreadDown
    BY <2>2
  <2>3. /\ left' \in Nat /\ given' \in Nat /\ unreadDown' \in Nat /\ lostDown' \in Nat
        /\ mode' \in {"serving", "sendingDown"}
        /\ given' + lostDown' + (IF mode' = "sendingDown" THEN left' ELSE 0)
             = given + lostDown + left
        /\ lostDown' # 0 => lostDown # 0 \/ ~here
    BY <1>4, <2>1
  <2>4. SocksType'
    BY <1>1, <2>1, <2>3 DEF SocksInv, SocksType, SocksModes
  <2>5. Framed'
    BY <1>1, <1>2, <1>3, <2>1, <2>3 DEF SocksInv, Framed
  <2>6. GivenBack'
    BY <1>1, <2>1, <2>3 DEF SocksInv, GivenBack
  <2>7. PeerThere' /\ Replied'
    BY <1>1, <1>2, <1>3, <2>1, <2>3 DEF SocksInv, PeerThere, Replied
  <2>8. QED
    BY <2>4, <2>5, <2>6, <2>7 DEF SocksInv
<1>7. QED
  BY <1>5, <1>6

\* The steps that neither read nor send.
SocksStill ==
  UNCHANGED <<cmdLen, req, read, left, toPeer, lost, fromPeer, given, lostDown>>

\* They keep what is said about the lengths unless they change the state.
LEMMA SocksStillFramed ==
  ASSUME SocksInv, SocksStill, sent' \in Nat, sent <= sent', back' \in Nat, back <= back',
         here' = here \/ ~here',
         mode' = mode \/ (mode \in {"serving", "accepting"}
                          /\ mode' \in {"idle", "serving", "accepting"}),
         state' = state \/ (state = "LISTEN" /\ state' = "FORWARD")
  PROVE  Framed' /\ GivenBack'
<1>1. /\ Socks!GreetingLen' = Socks!GreetingLen /\ Socks!AddressLen' = Socks!AddressLen
      /\ Socks!HeaderLen' = Socks!HeaderLen /\ Socks!HeaderLen \in Nat
      /\ Socks!Swallows' = Socks!Swallows
  BY SocksLens, SocksLensKept DEF SocksInv, SocksType, SocksStill
<1>2. /\ read \in Nat /\ sent \in Nat /\ read <= sent' /\ fromPeer <= back'
      /\ mode \in SocksModes /\ fromPeer \in Nat /\ back \in Nat
  BY DEF SocksInv, SocksType, Framed, GivenBack
<1>3. /\ mode' = "sendingUp" <=> mode = "sendingUp"
      /\ mode' = "sendingDown" <=> mode = "sendingDown"
      /\ mode' = "overrun" <=> mode = "overrun"
  OBVIOUS
<1>4. GivenBack'
  BY <1>2, <1>3 DEF SocksInv, GivenBack, SocksStill
<1>5. CASE state' = state
  BY <1>1, <1>2, <1>3, <1>4, <1>5 DEF SocksInv, Framed, SocksStill
<1>6. CASE state = "LISTEN" /\ state' = "FORWARD"
  <2>1. mode \notin {"sendingUp"}
    BY <1>6 DEF SocksInv, PeerThere
  <2>2. QED
    BY <1>1, <1>2, <1>3, <1>4, <1>6, <2>1 DEF SocksInv, Framed, SocksStill
<1>7. QED
  BY <1>5, <1>6

\* What users and peers do, the calls that wait, and the ends of a session.
LEMMA SocksOthers ==
  ASSUME SocksInv,
         \/ Socks!UserSends \/ Socks!UserReads \/ Socks!UserCloses
         \/ Socks!PeerActs \/ Socks!PeerReads
         \/ Socks!AcceptConnection \/ Socks!Accepted
         \/ Socks!Idle \/ Socks!Leave
  PROVE  SocksInv'
<1> USE DEF Socks!Cleanup, Socks!Keep, Socks!SendReply, SocksStill, Socks!up, Socks!down
<1>0. /\ sent \in Nat /\ back \in Nat /\ Socks!HeaderLen \in Nat
      /\ unreadUp \in Nat /\ unreadDown \in Nat /\ MaxPayload \in Nat
  BY SocksLens, SessionsAssumption
     DEF SocksInv, SocksType, SessionsAssumption, Socks!Socks5Assumption
<1>1. CASE Socks!UserSends
  <2>1. /\ UNCHANGED <<mode, state, connected, cmdLen, req, read, here, server,
                       peer, left, back, toPeer, unreadUp, lost, fromPeer, given,
                       unreadDown, lostDown, replies>>
        /\ sent' \in (sent + 1)..(Socks!HeaderLen + MaxPayload)
    BY <1>1 DEF Socks!UserSends
  <2>2. sent' \in Nat /\ sent <= sent'
    BY <1>0, <2>1
  <2>3. Framed' /\ GivenBack'
    BY <1>0, <2>1, <2>2, SocksStillFramed
  <2>4. SocksType'
    BY <2>1, <2>2 DEF SocksInv, SocksType
  <2>5. PeerThere' /\ Replied'
    BY <2>1, SocksLensKept DEF SocksInv, PeerThere, Replied
  <2>6. QED
    BY <2>3, <2>4, <2>5 DEF SocksInv
<1>2. CASE Socks!UserCloses \/ Socks!UserReads \/ Socks!PeerReads
  <2>1. UNCHANGED <<mode, state, connected, cmdLen, req, sent, read, server,
                    peer, left, back, toPeer, lost, fromPeer, given, lostDown, replies>>
    BY <1>2 DEF Socks!UserCloses, Socks!UserReads, Socks!PeerReads
  <2>2. here' = here \/ ~here'
    BY <1>2 DEF Socks!UserCloses, Socks!UserReads, Socks!PeerReads
  <2>3. unreadUp' \in Nat /\ unreadDown' \in Nat
    BY <1>0, <1>2 DEF Socks!UserCloses, Socks!UserReads, Socks!PeerReads
  <2>4. Framed' /\ GivenBack'
    BY <1>0, <2>1, <2>2, SocksStillFramed
  <2>5. SocksType' /\ PeerThere' /\ Replied'
    BY <2>1, <2>3, SocksLensKept DEF SocksInv, SocksType, PeerThere, Replied
  <2>6. QED
    BY <2>4, <2>5 DEF SocksInv
<1>3. CASE Socks!PeerActs
  <2>1. /\ UNCHANGED <<mode, state, connected, cmdLen, req, sent, read, here, left,
                       server, toPeer, unreadUp, lost, fromPeer, given, unreadDown,
                       lostDown, replies>>
        /\ \/ server = "listening" /\ peer = "none" /\ peer' = "waiting" /\ back' = back
           \/ peer = "up" /\ back' = back + 1 /\ peer' = peer
           \/ peer = "up" /\ peer' = "gone" /\ back' = back
    BY <1>3 DEF Socks!PeerActs
  <2>2. back' \in Nat /\ back <= back'
    BY <1>0, <2>1
  <2>3. Framed' /\ GivenBack'
    BY <1>0, <2>1, <2>2, SocksStillFramed
  <2>4. SocksType'
    BY <1>0, <2>1 DEF SocksInv, SocksType
  <2>5. \/ peer' = peer \/ (server = "listening" /\ peer = "none" /\ peer' = "waiting")
        \/ (peer = "up" /\ peer' = "gone")
    BY <2>1
  <2>6. PeerThere'
    BY <2>1, <2>5 DEF SocksInv, PeerThere
  <2>7. Replied'
    BY <2>1, SocksLensKept DEF SocksInv, Replied
  <2>8. QED
    BY <2>3, <2>4, <2>6, <2>7 DEF SocksInv
<1>4. CASE Socks!AcceptConnection
  <2>1. /\ mode = "serving" /\ connected /\ state = "LISTEN" /\ mode' = "accepting"
        /\ UNCHANGED <<state, connected, cmdLen, req, sent, read, here, server,
                       peer, left, back, toPeer, unreadUp, lost, fromPeer, given,
                       unreadDown, lostDown, replies>>
    BY <1>4 DEF Socks!AcceptConnection
  <2>2. Framed' /\ GivenBack'
    BY <1>0, <2>1, SocksStillFramed
  <2>3. SocksType'
    BY <2>1 DEF SocksInv, SocksType, SocksModes
  <2>4. PeerThere' /\ Replied'
    BY <2>1, SocksLensKept DEF SocksInv, PeerThere, Replied
  <2>5. QED
    BY <2>2, <2>3, <2>4 DEF SocksInv
<1>5. CASE Socks!Accepted
  <2>1. /\ mode = "accepting" /\ peer = "waiting" /\ mode' = "serving"
        /\ UNCHANGED <<cmdLen, req, sent, read, here, left, back, toPeer, unreadUp, lost,
                       fromPeer, given, unreadDown, lostDown>>
        /\ \/ /\ server' = "connected" /\ peer' = "up" /\ state' = "FORWARD"
              /\ replies' = Append(replies, "ok") /\ connected' = connected
           \/ /\ connected' = FALSE /\ server' = "null" /\ peer' = "gone"
              /\ UNCHANGED <<state, replies>>
    BY <1>5 DEF Socks!Accepted
  <2>2. state = "LISTEN"
    BY <2>1 DEF SocksInv, PeerThere
  <2>3. state' = state \/ state' = "FORWARD"
    BY <2>1
  <2>4. Framed' /\ GivenBack'
    BY <1>0, <2>1, <2>2, <2>3, SocksStillFramed
  <2>5. SocksType'
    <3>1. /\ server' \in {"connected", "null"} /\ peer' \in {"up", "gone"}
          /\ state' \in {"LISTEN", "FORWARD"}
      BY <2>1, <2>2
    <3>2. QED
      BY <2>1, <3>1 DEF SocksInv, SocksType, SocksStates, SocksModes
  <2>6. req.cmd = "bind" /\ replies = <<"ok">>
    BY <2>2 DEF SocksInv, Replied
  <2>7. Append(<<"ok">>, "ok") = <<"ok", "ok">>
    BY AppendOne
  <2>8. lost = 0
    BY <2>2 DEF SocksInv, Framed
  <2>9. PeerThere'
    BY <2>1, <2>2, <2>8 DEF SocksInv, PeerThere
  <2>10. Replied'
    BY <2>1, <2>2, <2>6, <2>7, SocksLensKept DEF SocksInv, Replied
  <2>11. QED
    BY <2>4, <2>5, <2>9, <2>10 DEF SocksInv
<1>6. CASE Socks!Idle
  <2>1. /\ mode = "serving" /\ connected' = FALSE
        /\ UNCHANGED <<mode, state, cmdLen, req, sent, read, here, server, peer, left, back,
                       toPeer, unreadUp, lost, fromPeer, given, unreadDown, lostDown,
                       replies>>
    BY <1>6 DEF Socks!Idle
  <2>2. Framed' /\ GivenBack'
    BY <1>0, <2>1, SocksStillFramed
  <2>3. SocksType'
    BY <2>1 DEF SocksInv, SocksType
  <2>4. PeerThere' /\ Replied'
    BY <2>1, SocksLensKept DEF SocksInv, PeerThere, Replied
  <2>5. QED
    BY <2>2, <2>3, <2>4 DEF SocksInv
<1>7. CASE Socks!Leave
  <2>1. /\ mode = "serving" /\ mode' = "idle" /\ server' = "null" /\ ~connected /\ ~here'
        /\ UNCHANGED <<state, connected, cmdLen, req, sent, read, peer, left, back, toPeer,
                       unreadUp, lost, fromPeer, given, unreadDown, lostDown, replies>>
    BY <1>7 DEF Socks!Leave
  <2>2. Framed' /\ GivenBack'
    BY <1>0, <2>1, SocksStillFramed
  <2>3. SocksType'
    BY <2>1 DEF SocksInv, SocksType, SocksModes
  <2>4. PeerThere' /\ Replied'
    BY <2>1, SocksLensKept DEF SocksInv, PeerThere, Replied
  <2>5. QED
    BY <2>2, <2>3, <2>4 DEF SocksInv
<1>8. QED
  BY <1>1, <1>2, <1>3, <1>4, <1>5, <1>6, <1>7

\* A new user: nothing has been read and nothing said.
LEMMA SocksBegin == SocksInv /\ Socks!Begin => SocksInv'
<1> SUFFICES ASSUME SocksInv, Socks!Begin
             PROVE  SocksInv'
  OBVIOUS
<1>1. /\ mode' = "serving" /\ state' = "METHOD" /\ cmdLen' = 0 /\ req' \in Requests
      /\ sent' = 0 /\ read' = 0 /\ server' = "null" /\ peer' = "none"
      /\ left' = 0 /\ back' = 0 /\ toPeer' = 0 /\ unreadUp' = 0 /\ lost' = 0
      /\ fromPeer' = 0 /\ given' = 0 /\ unreadDown' = 0 /\ lostDown' = 0
      /\ replies' = <<>>
  BY DEF Socks!Begin
<1>2. Socks!GreetingLen' \in Nat
  <2> PICK r \in Requests : r = req'
    BY <1>1
  <2>1. r.nmethods \in Socks!Byte
    BY SessionsAssumption DEF SessionsAssumption, Socks!Socks5Assumption
  <2>2. r.nmethods \in Nat
    BY <2>1, SocksChar
  <2>3. QED
    BY <2>2 DEF Socks!GreetingLen
<1>3. SocksType'
  BY <1>1 DEF SocksType, SocksStates, SocksModes
<1>4. Framed' /\ GivenBack'
  BY <1>1, <1>2 DEF Framed, GivenBack
<1>5. PeerThere' /\ Replied'
  BY <1>1 DEF PeerThere, Replied
<1>6. QED
  BY <1>3, <1>4, <1>5 DEF SocksInv

\* Each step of a child of mod_socks5, its user and his peer keeps the invariant.
LEMMA SocksStep == SocksInv /\ Socks!Next => SocksInv'
BY SocksBegin, SocksReadMethods, SocksReadRequest, SocksForward, SocksSends, SocksOthers
   DEF Socks!Next, Socks!Child

\* It says that what is relayed is the payload, and that what was reported is true.
LEMMA SocksSound == SocksInv => Socks!RelayExact /\ Socks!AnswersMatch
<1> SUFFICES ASSUME SocksInv
             PROVE  Socks!RelayExact /\ Socks!AnswersMatch
  OBVIOUS
<1>1. /\ Socks!GreetingLen \in Nat /\ Socks!AddressLen \in Int /\ Socks!HeaderLen \in Nat
      /\ Socks!HeaderLen >= Socks!GreetingLen + 6
      /\ Socks!HeaderLen >= Socks!GreetingLen + Socks!AddressLen + 6
  BY SocksLens DEF SocksInv, SocksType
<1>2. /\ toPeer \in Nat /\ lost \in Nat /\ read \in Nat /\ cmdLen \in Nat /\ lostDown \in Nat
      /\ state \in SocksStates
  BY DEF SocksInv, SocksType
<1>3. /\ state = "FORWARD" /\ ~Socks!Swallows =>
           read = Socks!HeaderLen + toPeer + lost + (IF mode = "sendingUp" THEN left ELSE 0)
      /\ state # "FORWARD" => toPeer + lost = 0
      /\ lost > 0 => peer = "gone"
      /\ mode = "overrun" => Socks!Swallows
  BY <1>2 DEF SocksInv, Framed, PeerThere
<1>4. state # "FORWARD" /\ ~Socks!Swallows => read <= Socks!HeaderLen
  BY <1>1, <1>2 DEF SocksInv, SocksStates, Framed
<1>5. /\ fromPeer = given + lostDown + (IF mode = "sendingDown" THEN left ELSE 0)
      /\ lostDown > 0 => ~here
  BY <1>2 DEF SocksInv, GivenBack
<1>6. Socks!RelayExact
  BY <1>3, <1>4, <1>5 DEF Socks!RelayExact
<1> DEFINE ok == IF req.cmd = "bind" THEN <<"ok", "ok">> ELSE <<"ok">>
<1>7. replies \in {<<>>, <<"ok">>, ok, <<"refused">>, <<"general">>,
                   <<"unsupported">>, <<"refused", "general">>}
  BY DEF SocksInv, SocksType, SocksStates, Replied
<1>8. connected /\ state = "FORWARD" => replies = ok /\ server = "connected"
  BY DEF SocksInv, Replied
<1>9. Len(replies) = 2 /\ replies[1] = "refused" => req.atyp = "ipv4" /\ state = "CMD"
  <2> SUFFICES ASSUME Len(replies) = 2, replies[1] = "refused"
               PROVE  req.atyp = "ipv4" /\ state = "CMD"
    OBVIOUS
  <2>1. /\ replies # <<>> /\ replies # <<"ok">> /\ replies # <<"ok", "ok">>
        /\ replies # <<"general">> /\ replies # <<"unsupported">> /\ replies # <<"refused">>
    OBVIOUS
  <2>2. QED
    BY <2>1 DEF SocksInv, SocksType, SocksStates, Replied
<1>10. QED
  BY <1>6, <1>7, <1>8, <1>9 DEF Socks!AnswersMatch

-----------------------------------------------------------------------------
(* mod_ssl *)

SslType ==
  /\ phase \in {"idle", "serving", "toUser", "toTarget"}
  /\ session \in {"none", "up", "bad"}
  /\ net \in Seq(1..MaxRecord) /\ pending \in Nat /\ fromUser \in Nat
  /\ nTarget \in Nat /\ toUser \in Nat /\ inUser \in Nat /\ nUser \in Nat
  /\ hand \in Nat /\ toTarget \in Nat /\ inTarget \in Nat /\ missed \in Nat

\* The records r begin after the unit b and end with the unit e: at[i] is where the i-th
\* of them begins.
Covers(b, e, r) ==
  \E at \in [1..(Len(r) + 1) -> Nat] :
     /\ at[1] = b /\ at[Len(r) + 1] = e
     /\ \A i \in 1..Len(r) : at[i + 1] = at[i] + r[i]

\* client.cpp, ForwardData(): what the target sent is what the user got, the unit in the
\* Send() to him, the rest of a record, always less than one, and the records that were
\* not read, in this order.
Flow ==
  phase # "idle" =>
    /\ pending < MaxRecord
    /\ Covers(toUser + (IF phase = "toUser" THEN 1 ELSE 0) + pending, nTarget, net)

\* What the user sent is not read yet, in the SSL_write(), sent or missed; missed only
\* when the session is not one, or the target has gone.
Missing ==
  /\ nUser = fromUser + hand + toTarget + missed
  /\ phase # "toTarget" => hand = 0
  /\ missed # 0 => ~target
  /\ session = "bad" => ~target
  /\ phase # "idle" => session \in {"up", "bad"}

SslInv == SslType /\ Flow /\ Missing

\* One record more.
LEMMA CoversMore ==
  ASSUME NEW r \in Seq(1..MaxRecord), NEW n \in 1..MaxRecord, NEW b, NEW e \in Nat,
         Covers(b, e, r)
  PROVE  Covers(b, e + n, Append(r, n))
<1> PICK at \in [1..(Len(r) + 1) -> Nat] :
           /\ at[1] = b /\ at[Len(r) + 1] = e
           /\ \A i \in 1..Len(r) : at[i + 1] = at[i] + r[i]
  BY DEF Covers
<1> PICK m \in Nat : m = Len(r)
  OBVIOUS
<1> PICK q \in Seq(1..MaxRecord) : q = Append(r, n)
  BY AppendProperties
<1>1. /\ n \in Nat /\ Len(q) = m + 1 /\ q[m + 1] = n
      /\ \A i \in 1..m : q[i] = r[i]
  BY SessionsAssumption, AppendProperties DEF SessionsAssumption, Ssl!SslAssumption
<1> DEFINE more == [i \in 1..(m + 2) |-> IF i = m + 2 THEN e + n ELSE at[i]]
<1>2. more \in [1..(m + 2) -> Nat]
  BY <1>1
<1>3. more[1] = b /\ more[m + 2] = e + n
  OBVIOUS
<1>4. ASSUME NEW i \in 1..(m + 1)
      PROVE  more[i + 1] = more[i] + q[i]
  <2>1. CASE i = m + 1
    BY <1>1, <2>1
  <2>2. CASE i \in 1..m
    BY <1>1, <2>2
  <2>3. QED
    BY <2>1, <2>2
<1> HIDE DEF more
<1>5. Covers(b, e + n, q)
  BY <1>1, <1>2, <1>3, <1>4, SMTT(30) DEF Covers
<1>6. QED
  BY <1>5

\* One record less.
LEMMA CoversLess ==
  ASSUME NEW r \in Seq(1..MaxRecord), r # <<>>, NEW b, NEW e, Covers(b, e, r)
  PROVE  Covers(b + Head(r), e, Tail(r))
<1> PICK at \in [1..(Len(r) + 1) -> Nat] :
           /\ at[1] = b /\ at[Len(r) + 1] = e
           /\ \A i \in 1..Len(r) : at[i + 1] = at[i] + r[i]
  BY DEF Covers
<1> PICK l \in Nat : l = Len(r)
  OBVIOUS
<1>0. l # 0
  BY EmptySeq
<1> PICK m \in Nat : m + 1 = l
  BY <1>0
<1>a. at \in [1..(m + 2) -> Nat]
  OBVIOUS
<1> PICK q \in Seq(1..MaxRecord) : q = Tail(r)
  BY HeadTailProperties
<1>1. /\ Len(q) = m /\ Head(r) = r[1]
      /\ \A i \in 1..m : q[i] = r[i + 1]
  BY HeadTailProperties
<1> DEFINE less == [i \in 1..(m + 1) |-> at[i + 1]]
<1>2. less \in [1..(m + 1) -> Nat]
  BY <1>a
<1>3. less[1] = b + Head(r) /\ less[m + 1] = e
  BY <1>1
<1>4. ASSUME NEW i \in 1..m
      PROVE  less[i + 1] = less[i] + q[i]
  BY <1>1
<1> HIDE DEF less
<1>5. Covers(b + Head(r), e, q)
  BY <1>1, <1>2, <1>3, <1>4 DEF Covers
<1>6. QED
  BY <1>5

\* None.
LEMMA CoversNone == ASSUME NEW b \in Nat PROVE Covers(b, b, <<>>)
<1> PICK s : s = <<>>
  OBVIOUS
<1>1. Len(s) = 0
  OBVIOUS
<1> PICK at \in [1..1 -> Nat] : at[1] = b
  <2>1. [i \in 1..1 |-> b] \in [1..1 -> Nat] /\ [i \in 1..1 |-> b][1] = b
    OBVIOUS
  <2>2. QED
    BY <2>1
<1>2. at \in [1..(Len(s) + 1) -> Nat] /\ at[Len(s) + 1] = b
  BY <1>1
<1>3. Covers(b, b, s)
  BY <1>1, <1>2 DEF Covers
<1>4. QED
  BY <1>3

\* Without records nothing is between.
LEMMA CoversEmpty == ASSUME NEW b, NEW e, Covers(b, e, <<>>) PROVE b = e
<1> PICK s : s = <<>>
  OBVIOUS
<1>1. Len(s) = 0 /\ Covers(b, e, s)
  OBVIOUS
<1>2. QED
  BY <1>1 DEF Covers

\* A child that has had no user yet.
LEMMA SslInit == Ssl!Init => SslInv
<1> SUFFICES ASSUME Ssl!Init
             PROVE  SslInv
  OBVIOUS
<1>1. /\ phase = "idle" /\ session = "none" /\ net = <<>> /\ pending = 0 /\ fromUser = 0
      /\ nTarget = 0 /\ toUser = 0 /\ inUser = 0 /\ nUser = 0
      /\ hand = 0 /\ toTarget = 0 /\ inTarget = 0 /\ missed = 0
  BY DEF Ssl!Init
<1>2. net \in Seq(1..MaxRecord)
  BY <1>1
<1>3. SslType
  BY <1>1, <1>2 DEF SslType
<1>4. Flow /\ Missing
  BY <1>1 DEF Flow, Missing
<1>5. QED
  BY <1>3, <1>4 DEF SslInv

\* ForwardData() of the target: a unit of what is decrypted, or of the next record, goes
\* into the Send() to the user.
LEMMA SslForwardTarget == SslInv /\ Ssl!ForwardTarget => SslInv'
<1> SUFFICES ASSUME SslInv, Ssl!ForwardTarget
             PROVE  SslInv'
  OBVIOUS
<1>1. SslType /\ Flow /\ Missing
  BY DEF SslInv
<1>2. MaxRecord \in Nat \ {0}
  BY SessionsAssumption DEF SessionsAssumption, Ssl!SslAssumption
<1>3. /\ phase = "serving"
      /\ UNCHANGED <<user, target, fromUser, nTarget, toUser, inUser, nUser, hand,
                     toTarget, inTarget, missed>>
      /\ \/ /\ pending > 0 /\ pending' = pending - 1 /\ phase' = "toUser"
            /\ UNCHANGED <<session, net>>
         \/ /\ pending = 0 /\ net # <<>> /\ phase' = "toUser"
            /\ pending' = Head(net) - 1 /\ net' = Tail(net) /\ session' = session
         \/ /\ phase' = "idle" /\ session' = "none"
            /\ UNCHANGED <<net, pending>>
  BY DEF Ssl!ForwardTarget, Ssl!TargetReadable, Ssl!Cleanup
<1>4. /\ pending \in Nat /\ toUser \in Nat /\ nTarget \in Nat /\ net \in Seq(1..MaxRecord)
      /\ pending < MaxRecord
  BY <1>1, <1>3 DEF SslType, Flow
<1>5. Covers(toUser + pending, nTarget, net)
  <2>1. Covers(toUser + (IF phase = "toUser" THEN 1 ELSE 0) + pending, nTarget, net)
    BY <1>1, <1>3 DEF Flow
  <2>2. toUser + (IF phase = "toUser" THEN 1 ELSE 0) + pending = toUser + pending
    BY <1>3, <1>4
  <2>3. QED
    BY <2>1, <2>2
<1>6. hand = 0 /\ phase' # "toTarget" /\ Missing'
  BY <1>1, <1>3 DEF Missing
<1>7. CASE phase' = "toUser" /\ UNCHANGED <<session, net>> /\ pending > 0 /\ pending' = pending - 1
  <2>1. /\ pending' \in Nat /\ pending' < MaxRecord
        /\ toUser' + (IF phase' = "toUser" THEN 1 ELSE 0) + pending' = toUser + pending
    BY <1>2, <1>3, <1>4, <1>7
  <2>2. SslType'
    BY <1>1, <1>3, <1>7, <2>1 DEF SslType
  <2>3. Covers(toUser' + (IF phase' = "toUser" THEN 1 ELSE 0) + pending', nTarget', net')
    BY <1>3, <1>5, <1>7, <2>1
  <2>4. QED
    BY <1>6, <2>1, <2>2, <2>3 DEF SslInv, Flow
<1>8. CASE /\ pending = 0 /\ net # <<>> /\ phase' = "toUser"
           /\ pending' = Head(net) - 1 /\ net' = Tail(net) /\ session' = session
  <2> PICK h \in 1..MaxRecord : h = Head(net)
    BY <1>4, <1>8, HeadTailProperties
  <2>1. /\ pending' \in Nat /\ pending' < MaxRecord
        /\ toUser' + (IF phase' = "toUser" THEN 1 ELSE 0) + pending' = toUser + pending + h
    <3>1. pending' = h - 1 /\ toUser' = toUser /\ pending = 0 /\ phase' = "toUser"
      BY <1>3, <1>8
    <3>2. h \in Nat /\ h > 0 /\ h <= MaxRecord /\ MaxRecord \in Nat
      BY <1>2
    <3>3. h - 1 \in Nat /\ h - 1 < MaxRecord /\ toUser + 1 + (h - 1) = toUser + 0 + h
      BY <1>4, <3>2
    <3>4. QED
      BY <3>1, <3>3
  <2>2. net' \in Seq(1..MaxRecord)
    BY <1>4, <1>8, HeadTailProperties
  <2>3. SslType'
    BY <1>1, <1>3, <1>8, <2>1, <2>2 DEF SslType
  <2>4. Covers(toUser + pending + Head(net), nTarget, Tail(net))
    BY <1>4, <1>5, <1>8, CoversLess
  <2>5. Covers(toUser' + (IF phase' = "toUser" THEN 1 ELSE 0) + pending', nTarget', net')
    BY <1>3, <1>8, <2>1, <2>4
  <2>6. QED
    BY <1>6, <2>1, <2>3, <2>5 DEF SslInv, Flow
<1>9. CASE phase' = "idle" /\ session' = "none" /\ UNCHANGED <<net, pending>>
  <2>1. SslType' /\ Flow'
    BY <1>1, <1>3, <1>9 DEF SslType, Flow
  <2>2. QED
    BY <1>6, <2>1 DEF SslInv
<1>10. QED
  BY <1>3, <1>7, <1>8, <1>9

\* The target writes another record, reads, or closes.
LEMMA SslTargetActs == SslInv /\ Ssl!TargetActs => SslInv'
<1> SUFFICES ASSUME SslInv, Ssl!TargetActs
             PROVE  SslInv'
  OBVIOUS
<1>1. SslType /\ Flow /\ Missing
  BY DEF SslInv
<1>2. /\ phase # "idle" /\ target
      /\ UNCHANGED <<phase, session, user, pending, fromUser, toUser, inUser, nUser,
                     hand, toTarget, missed>>
      /\ \/ \E n \in 1..MaxRecord :
              /\ nTarget' = nTarget + n /\ net' = Append(net, n)
              /\ UNCHANGED <<target, inTarget>>
         \/ target' = FALSE /\ UNCHANGED <<nTarget, net, inTarget>>
         \/ /\ inTarget > 0 /\ inTarget' = inTarget - 1
            /\ UNCHANGED <<target, nTarget, net>>
  BY DEF Ssl!TargetActs
<1>3. inTarget' \in Nat
  <2>1. inTarget' = inTarget \/ (inTarget > 0 /\ inTarget' = inTarget - 1)
    BY <1>2, Zenon
  <2>2. inTarget \in Nat
    BY <1>1 DEF SslType
  <2>3. QED
    BY <2>1, <2>2
<1>4. Missing'
  BY <1>1, <1>2 DEF Missing
<1>5. CASE \E n \in 1..MaxRecord : nTarget' = nTarget + n /\ net' = Append(net, n)
  <2> PICK n \in 1..MaxRecord : nTarget' = nTarget + n /\ net' = Append(net, n)
    BY <1>5
  <2>1. net \in Seq(1..MaxRecord) /\ nTarget \in Nat /\ n \in Nat
    BY <1>1, SessionsAssumption DEF SslType, SessionsAssumption, Ssl!SslAssumption
  <2>2. net' \in Seq(1..MaxRecord) /\ nTarget' \in Nat
    BY <2>1, AppendProperties
  <2>3. SslType'
    BY <1>1, <1>2, <1>3, <2>2 DEF SslType
  <2> PICK b : b = toUser + (IF phase = "toUser" THEN 1 ELSE 0) + pending
    OBVIOUS
  <2>4. pending < MaxRecord /\ Covers(b, nTarget, net)
    BY <1>1, <1>2 DEF Flow
  <2>5. Covers(b, nTarget + n, Append(net, n))
    BY <2>1, <2>4, CoversMore
  <2>6. Flow'
    BY <1>2, <2>4, <2>5 DEF Flow
  <2>7. QED
    BY <1>4, <2>3, <2>6 DEF SslInv
<1>6. CASE UNCHANGED <<nTarget, net>>
  <2>1. SslType' /\ Flow'
    BY <1>1, <1>2, <1>3, <1>6 DEF SslType, Flow
  <2>2. QED
    BY <1>4, <2>1 DEF SslInv
<1>7. QED
  BY <1>2, <1>5, <1>6

\* SSL_write(): what the buffers take is sent, all of it is missed when nobody is there.
LEMMA SslSendTarget == SslInv /\ Ssl!SendTarget => SslInv'
<1> SUFFICES ASSUME SslInv, Ssl!SendTarget
             PROVE  SslInv'
  OBVIOUS
<1>1. SslType /\ Flow /\ Missing
  BY DEF SslInv
<1>2. /\ phase = "toTarget"
      /\ UNCHANGED <<session, user, target, net, pending, fromUser, nTarget, toUser,
                     inUser, nUser>>
  BY DEF Ssl!SendTarget
<1>3. /\ hand \in Nat /\ toTarget \in Nat /\ inTarget \in Nat /\ missed \in Nat
      /\ fromUser \in Nat /\ Room \in Nat
  BY <1>1, SessionsAssumption DEF SslType, SessionsAssumption, Ssl!SslAssumption
<1>4. \E k \in Nat :
        /\ k <= hand /\ hand' = hand - k
        /\ phase' = IF k = hand THEN "serving" ELSE phase
        /\ \/ /\ toTarget' = toTarget + k /\ inTarget' = inTarget + k /\ missed' = missed
           \/ /\ ~(session = "up" /\ target) /\ missed' = missed + k
              /\ UNCHANGED <<toTarget, inTarget>>
  <2>1. CASE session = "up" /\ target
    <3>1. inTarget < Room
      BY <2>1 DEF Ssl!SendTarget
    <3> PICK k : k = Ssl!Fits
      OBVIOUS
    <3>2. k \in Nat /\ k <= hand
      BY <1>3, <3>1 DEF Ssl!Fits
    <3>3. /\ hand' = hand - k /\ phase' = IF k = hand THEN "serving" ELSE phase
          /\ toTarget' = toTarget + k /\ inTarget' = inTarget + k /\ missed' = missed
      BY <2>1 DEF Ssl!SendTarget, Ssl!Goes
    <3>4. QED
      BY <3>2, <3>3
  <2>2. CASE ~(session = "up" /\ target)
    <3>1. /\ hand' = hand - hand /\ phase' = IF hand = hand THEN "serving" ELSE phase
          /\ missed' = missed + hand /\ UNCHANGED <<toTarget, inTarget>>
      BY <2>2 DEF Ssl!SendTarget, Ssl!Goes
    <3>2. QED
      BY <1>3, <2>2, <3>1
  <2>3. QED
    BY <2>1, <2>2
<1> PICK k \in Nat :
      /\ k <= hand /\ hand' = hand - k
      /\ phase' = IF k = hand THEN "serving" ELSE phase
      /\ \/ /\ toTarget' = toTarget + k /\ inTarget' = inTarget + k /\ missed' = missed
         \/ /\ ~(session = "up" /\ target) /\ missed' = missed + k
            /\ UNCHANGED <<toTarget, inTarget>>
  BY <1>4
<1>5. /\ hand' \in Nat /\ toTarget' \in Nat /\ inTarget' \in Nat /\ missed' \in Nat
      /\ phase' \in {"serving", "toTarget"} /\ (phase' # "toTarget" => hand' = 0)
      /\ hand' + toTarget' + missed' = hand + toTarget + missed
      /\ missed' # 0 => missed # 0 \/ ~(session = "up" /\ target)
  BY <1>2, <1>3
<1>6. SslType'
  BY <1>1, <1>2, <1>5 DEF SslType
<1>7. Flow'
  <2>1. phase # "toUser" /\ phase' # "toUser" /\ phase # "idle"
    BY <1>2, <1>5
  <2>2. QED
    BY <1>1, <1>2, <2>1 DEF Flow
<1>8. Missing'
  <2>1. nUser' = fromUser' + hand' + toTarget' + missed'
    <3>1. nUser = fromUser + hand + toTarget + missed
      BY <1>1 DEF Missing
    <3>2. /\ hand' \in Nat /\ toTarget' \in Nat /\ missed' \in Nat
          /\ hand' + toTarget' + missed' = hand + toTarget + missed
      BY <1>5
    <3> PICK n, f, h, t, m : /\ n = nUser /\ f = fromUser
                             /\ h = hand' /\ t = toTarget' /\ m = missed'
      OBVIOUS
    <3>3. n = f + (h + t + m) /\ f \in Nat /\ h \in Nat /\ t \in Nat /\ m \in Nat
      <4>1. n = f + (hand + toTarget + missed)
        BY <1>3, <3>1
      <4>2. QED
        BY <1>3, <3>2, <4>1
    <3>4. n = f + h + t + m
      BY <3>3
    <3>5. nUser = fromUser + hand' + toTarget' + missed'
      BY <3>4
    <3>6. QED
      BY <1>2, <3>5
  <2>2. missed' # 0 => ~target'
    BY <1>1, <1>2, <1>5 DEF Missing
  <2>3. QED
    BY <1>1, <1>2, <1>5, <2>1, <2>2 DEF Missing
<1>9. QED
  BY <1>6, <1>7, <1>8 DEF SslInv

\* The other steps: a new session, what the user does, the end of a Send() to him, and
\* what he wrote goes into SSL_write().
LEMMA SslOthers ==
  ASSUME SslInv, Ssl!Begin \/ Ssl!UserActs \/ Ssl!SendUser \/ Ssl!ForwardUser
  PROVE  SslInv'
<1>1. SslType /\ Flow /\ Missing
  BY DEF SslInv
<1>2. MaxRecord \in Nat \ {0}
  BY SessionsAssumption DEF SessionsAssumption, Ssl!SslAssumption
<1>3. CASE Ssl!Begin
  <2>1. /\ phase' = "serving" /\ session' \in {"up", "bad"}
        /\ net' = <<>> /\ pending' = 0 /\ fromUser' = 0 /\ nTarget' = 0 /\ toUser' = 0
        /\ inUser' = 0 /\ nUser' = 0 /\ hand' = 0 /\ toTarget' = 0 /\ inTarget' = 0
        /\ missed' = 0
    BY <1>3 DEF Ssl!Begin, Ssl!SSLInitSession
  <2>2. target' = (session' = "up")
    BY <1>3 DEF Ssl!Begin
  <2>3. net' \in Seq(1..MaxRecord)
    BY <2>1
  <2>4. SslType'
    BY <2>1, <2>3 DEF SslType
  <2>5. Flow'
    <3>1. Covers(0, 0, <<>>)
      BY CoversNone
    <3> PICK b : b = toUser' + (IF phase' = "toUser" THEN 1 ELSE 0) + pending'
      OBVIOUS
    <3>2. b = 0 /\ pending' < MaxRecord
      BY <1>2, <2>1
    <3>3. b = 0 /\ nTarget' = 0 /\ net' = <<>>
      BY <2>1, <3>2
    <3>4. Covers(b, nTarget', net')
      BY <3>1, <3>3, Zenon
    <3>5. Covers(toUser' + (IF phase' = "toUser" THEN 1 ELSE 0) + pending', nTarget', net')
      BY <3>4, Zenon
    <3>6. QED
      BY <3>2, <3>5, Zenon DEF Flow
  <2>6. Missing'
    <3> PICK n, f, h, t, m : /\ n = nUser' /\ f = fromUser'
                             /\ h = hand' /\ t = toTarget' /\ m = missed'
      OBVIOUS
    <3>1. n = f + h + t + m
      <4>1. n = 0 /\ f = 0 /\ h = 0 /\ t = 0 /\ m = 0
        BY <2>1, Zenon
      <4>2. QED
        BY <4>1
    <3>2. nUser' = fromUser' + hand' + toTarget' + missed'
      BY <3>1
    <3>3. session' = "bad" => ~target'
      BY <2>2
    <3>4. hand' = 0 /\ missed' = 0 /\ session' \in {"up", "bad"}
      BY <2>1
    <3>5. QED
      BY <3>2, <3>3, <3>4, Zenon DEF Missing
  <2>7. QED
    BY <2>4, <2>5, <2>6 DEF SslInv
<1>4. CASE Ssl!UserActs
  <2>1. /\ UNCHANGED <<phase, session, target, net, pending, nTarget, toUser, hand,
                       toTarget, inTarget, missed>>
        /\ \/ nUser' = nUser + 1 /\ fromUser' = fromUser + 1 /\ inUser' = inUser
           \/ UNCHANGED <<nUser, fromUser, inUser>>
           \/ inUser > 0 /\ inUser' = inUser - 1 /\ UNCHANGED <<nUser, fromUser>>
    BY <1>4 DEF Ssl!UserActs
  <2>2. SslType'
    BY <1>1, <2>1 DEF SslType
  <2>3. Flow'
    BY <1>1, <2>1 DEF Flow
  <2>4. Missing'
    BY <1>1, <2>1 DEF SslType, Missing
  <2>5. QED
    BY <2>2, <2>3, <2>4 DEF SslInv
<1>5. CASE Ssl!SendUser
  <2>1. /\ phase = "toUser" /\ phase' = "serving" /\ toUser' = toUser + 1
        /\ UNCHANGED <<session, target, net, pending, fromUser, nTarget, nUser, hand,
                       toTarget, inTarget, missed>>
        /\ inUser' = inUser + 1 \/ inUser' = inUser
    BY <1>5 DEF Ssl!SendUser
  <2>2. SslType'
    BY <1>1, <2>1 DEF SslType
  <2>3. toUser + (IF phase = "toUser" THEN 1 ELSE 0) + pending
          = toUser' + (IF phase' = "toUser" THEN 1 ELSE 0) + pending'
    BY <1>1, <2>1 DEF SslType
  <2>4. pending < MaxRecord
        /\ Covers(toUser + (IF phase = "toUser" THEN 1 ELSE 0) + pending, nTarget, net)
    BY <1>1, <2>1 DEF Flow
  <2>5. Flow'
    BY <2>1, <2>3, <2>4 DEF Flow
  <2>6. Missing'
    BY <1>1, <2>1 DEF Missing
  <2>7. QED
    BY <2>2, <2>5, <2>6 DEF SslInv
<1>6. CASE Ssl!ForwardUser
  <2>1. /\ phase = "serving"
        /\ UNCHANGED <<target, net, pending, nTarget, toUser, inUser, nUser, toTarget,
                       inTarget, missed>>
        /\ \/ fromUser' = 0 /\ hand' = fromUser /\ phase' = "toTarget" /\ session' = session
           \/ phase' = "idle" /\ session' = "none" /\ UNCHANGED <<fromUser, hand>>
    BY <1>6 DEF Ssl!ForwardUser, Ssl!Cleanup
  <2>2. SslType'
    BY <1>1, <2>1 DEF SslType
  <2>3. Flow'
    BY <1>1, <2>1 DEF Flow
  <2>4. hand = 0
    BY <1>1, <2>1 DEF Missing
  <2>5. Missing'
    BY <1>1, <2>1, <2>4 DEF SslType, Missing
  <2>6. QED
    BY <2>2, <2>3, <2>5 DEF SslInv
<1>7. QED
  BY <1>3, <1>4, <1>5, <1>6

\* Each step of a child of mod_ssl, its user and the target keeps the invariant.
LEMMA SslStep == SslInv /\ Ssl!Next => SslInv'
BY SslForwardTarget, SslTargetActs, SslSendTarget, SslOthers DEF Ssl!Next

\* It says that a record is kept back only in part, and where the user's data went.
LEMMA SslSound == SslInv => Ssl!StallsWithinRecord /\ Ssl!SentUnlessGone
<1> SUFFICES ASSUME SslInv
             PROVE  Ssl!StallsWithinRecord /\ Ssl!SentUnlessGone
  OBVIOUS
<1>1. ASSUME phase = "serving", net = <<>>
      PROVE  nTarget - toUser < MaxRecord
  <2> PICK b : b = toUser + (IF phase = "toUser" THEN 1 ELSE 0) + pending
    OBVIOUS
  <2>1. /\ pending \in Nat /\ toUser \in Nat /\ nTarget \in Nat /\ pending < MaxRecord
        /\ Covers(b, nTarget, <<>>)
    BY <1>1 DEF SslInv, SslType, Flow
  <2>2. b = nTarget
    BY <2>1, CoversEmpty
  <2>3. toUser + pending = nTarget
    BY <1>1, <2>1, <2>2
  <2>4. QED
    BY <2>1, <2>3, SessionsAssumption DEF SessionsAssumption, Ssl!SslAssumption
<1>2. missed > 0 => ~target
  BY DEF SslInv, SslType, Missing
<1>3. nUser = fromUser + hand + toTarget + missed
  BY DEF SslInv, Missing
<1>4. QED
  BY <1>1, <1>2, <1>3 DEF Ssl!StallsWithinRecord, Ssl!SentUnlessGone

-----------------------------------------------------------------------------
(* The relays *)

\* What one child does leaves the others as they are.
LEMMA SocksFrame == SocksInv /\ UNCHANGED socksVars => SocksInv'
<1> SUFFICES ASSUME SocksInv, UNCHANGED socksVars
             PROVE  SocksInv'
  OBVIOUS
<1>1. UNCHANGED <<mode, state, connected, cmdLen, req, sent, read, here, server,
                  peer, left, back, toPeer, unreadUp, lost, fromPeer, given,
                  unreadDown, lostDown, replies>>
  BY DEF socksVars
<1>2. SocksType' /\ GivenBack' /\ PeerThere'
  BY <1>1 DEF SocksInv, SocksType, GivenBack, PeerThere
<1>3. Framed' /\ Replied'
  BY <1>1, SocksLensKept DEF SocksInv, Framed, Replied
<1>4. QED
  BY <1>2, <1>3 DEF SocksInv

\* The same for mod_ssl.
LEMMA SslFrame == SslInv /\ UNCHANGED sslVars => SslInv'
BY DEF sslVars, SslInv, SslType, Flow, Missing

\* However requests and records are cut, and whenever users, peers and targets go, a relay
\* of mod_socks5 and of mod_ssl writes what it reads, and no more: client.cpp of both,
\* ReadRequest() and ForwardData().
THEOREM RelaysAreExact == Spec => []RelaysExact
<1>1. Init => SocksInv /\ SslInv
  BY SocksInit, SslInit DEF Init
<1>2. SocksInv /\ SslInv /\ [Next]_vars => SocksInv' /\ SslInv'
  <2> SUFFICES ASSUME SocksInv, SslInv, [Next]_vars
               PROVE  SocksInv' /\ SslInv'
    OBVIOUS
  <2>1. \/ Socks!Next
        \/ UNCHANGED socksVars
    BY DEF Next, vars
  <2>2. \/ Ssl!Next
        \/ UNCHANGED sslVars
    BY DEF Next, vars
  <2>3. QED
    BY <2>1, <2>2, SocksStep, SocksFrame, SslStep, SslFrame
<1>3. SocksInv /\ SslInv => RelaysExact
  BY SocksSound, SslSound DEF RelaysExact
<1>4. QED
  BY <1>1, <1>2, <1>3, PTL DEF Spec

-----------------------------------------------------------------------------
(* The command that filters a message of mod_pop3 *)

FilterType ==
  /\ parent \in {"idle", "writing", "reading", "kept", "failed"}
  /\ kind \in {"copy", "whole", "quit"}
  /\ size \in Nat /\ written \in Nat /\ taken \in Nat /\ made \in Nat /\ got \in Nat

\* cmdfilter.cpp, Parent(): what was written, taken, made and got follow each other.
Amounts ==
  /\ got <= made /\ made <= taken /\ taken <= written /\ written <= size
  /\ parent = "idle" => written = 0

\* A command that does not quit ends when it has made all of a message that was written.
PipesEnded ==
  /\ parent \in {"idle", "failed", "kept"} => ~running
  /\ parent = "writing" /\ ~running => kind = "quit"
  /\ parent \in {"reading", "kept"} /\ written # size => ~running /\ kind = "quit"
  /\ parent \in {"reading", "kept"} /\ ~running => kind = "quit" \/ made = size
  /\ parent = "kept" => got = made

FilterInv == FilterType /\ Amounts /\ PipesEnded

\* No message has been filtered yet.
LEMMA FilterInit == Filter!Init => FilterInv
<1> SUFFICES ASSUME Filter!Init
             PROVE  FilterInv
  OBVIOUS
<1>1. /\ parent = "idle" /\ size = 0 /\ written = 0 /\ kind = "copy"
      /\ taken = 0 /\ made = 0 /\ got = 0
  BY DEF Filter!Init
<1>2. running = FALSE
  BY DEF Filter!Init
<1>3. FilterType /\ Amounts
  BY <1>1 DEF FilterType, Amounts
<1>4. PipesEnded
  BY <1>1, <1>2 DEF PipesEnded
<1>5. QED
  BY <1>3, <1>4 DEF FilterInv

\* Each step of the child and of the command keeps the invariant.
LEMMA FilterStep == FilterInv /\ Filter!Next => FilterInv'
<1> SUFFICES ASSUME FilterInv, Filter!Next
             PROVE  FilterInv'
  OBVIOUS
<1>1. FilterType /\ Amounts /\ PipesEnded
  BY DEF FilterInv
<1>2. /\ size \in Nat /\ written \in Nat /\ taken \in Nat /\ made \in Nat /\ got \in Nat
      /\ got <= made /\ made <= taken /\ taken <= written /\ written <= size
  BY <1>1 DEF FilterType, Amounts
<1>3. CASE Filter!Process
  <2>1. /\ parent = "idle" /\ size' \in Nat /\ kind' \in {"copy", "whole", "quit"}
        /\ UNCHANGED <<written, taken, made, got>>
        /\ \/ parent' = "writing" /\ running' = TRUE
           \/ parent' = "failed" /\ running' = running
    BY <1>3, SessionsAssumption
       DEF Filter!Process, SessionsAssumption, Filter!CmdFilterAssumption
  <2>2. parent' \in {"writing", "failed"} /\ written = 0
    BY <1>1, <2>1 DEF Amounts
  <2>3. FilterType'
    BY <1>1, <2>1, <2>2 DEF FilterType
  <2>4. Amounts'
    BY <1>2, <2>1, <2>2 DEF Amounts
  <2>5. PipesEnded'
    BY <1>1, <2>1 DEF PipesEnded
  <2>6. QED
    BY <2>3, <2>4, <2>5 DEF FilterInv
<1>4. CASE Filter!Write
  <2>1. /\ parent = "writing" /\ UNCHANGED <<size, kind, running, taken, made, got>>
        /\ \/ running /\ written < size /\ written' = written + 1 /\ parent' = parent
           \/ written = size /\ parent' = "reading" /\ written' = written
           \/ ~running /\ written' = written /\ parent' \in {"failed", "reading"}
    BY <1>4 DEF Filter!Write
  <2>2. /\ written' \in Nat /\ taken <= written' /\ written' <= size
        /\ parent' \in {"writing", "reading", "failed"}
    BY <1>2, <2>1
  <2>3. FilterType'
    BY <1>1, <2>1, <2>2 DEF FilterType
  <2>4. Amounts'
    BY <1>2, <2>1, <2>2 DEF Amounts
  <2>5. PipesEnded'
    <3>1. ~running => kind = "quit"
      BY <1>1, <2>1 DEF PipesEnded
    <3>2. parent' = "reading" => written' = size \/ ~running
      BY <2>1
    <3>3. parent' = "failed" => ~running
      BY <2>1
    <3>4. QED
      BY <2>1, <2>2, <3>1, <3>2, <3>3 DEF PipesEnded
  <2>6. QED
    BY <2>3, <2>4, <2>5 DEF FilterInv
<1>5. CASE Filter!Read
  <2>1. /\ parent = "reading" /\ UNCHANGED <<size, written, kind, running, taken, made>>
        /\ \/ got' = made /\ parent' = parent
           \/ got = made /\ ~running /\ parent' = "kept" /\ got' = got
    BY <1>5 DEF Filter!Read
  <2>2. got' = made /\ parent' \in {"reading", "kept"} /\ (parent' = "kept" => ~running)
    BY <2>1
  <2>3. FilterType'
    BY <1>1, <2>1, <2>2 DEF FilterType
  <2>4. Amounts'
    BY <1>2, <2>1, <2>2 DEF Amounts
  <2>5. PipesEnded'
    BY <1>1, <2>1, <2>2 DEF PipesEnded
  <2>6. QED
    BY <2>3, <2>4, <2>5 DEF FilterInv
<1>6. CASE Filter!Take \/ Filter!Make
  <2>1. /\ running /\ UNCHANGED <<parent, size, written, kind, running, got>>
        /\ \/ taken < written /\ taken' = taken + 1 /\ made' = made
           \/ made < taken /\ made' = made + 1 /\ taken' = taken
    BY <1>6 DEF Filter!Take, Filter!Make
  <2>2. /\ taken' \in Nat /\ made' \in Nat
        /\ got <= made' /\ made' <= taken' /\ taken' <= written
    BY <1>2, <2>1
  <2>3. FilterType'
    BY <1>1, <2>1, <2>2 DEF FilterType
  <2>4. Amounts'
    <3>1. parent' = "idle" => written' = 0
      BY <1>1, <2>1 DEF Amounts
    <3>2. QED
      BY <1>2, <2>1, <2>2, <3>1 DEF Amounts
  <2>5. PipesEnded'
    BY <1>1, <2>1 DEF PipesEnded
  <2>6. QED
    BY <2>3, <2>4, <2>5 DEF FilterInv
<1>7. CASE Filter!Exit
  <2>1. /\ running /\ running' = FALSE
        /\ UNCHANGED <<parent, size, written, kind, taken, made, got>>
        /\ kind # "quit" => parent # "writing" /\ taken = written /\ made = taken
    BY <1>7 DEF Filter!Exit, Filter!AtEnd
  <2>2. FilterType' /\ Amounts'
    BY <1>1, <2>1 DEF FilterType, Amounts
  <2>3. parent \in {"writing", "reading"}
    BY <1>1, <2>1 DEF FilterType, PipesEnded
  <2>4. parent = "reading" => written = size
    BY <1>1, <2>1 DEF PipesEnded
  <2>5. PipesEnded'
    BY <2>1, <2>3, <2>4 DEF PipesEnded
  <2>6. QED
    BY <2>2, <2>5 DEF FilterInv
<1>8. QED
  BY <1>3, <1>4, <1>5, <1>6, <1>7 DEF Filter!Next

\* The same when the steps are another's.
LEMMA FilterFrame == FilterInv /\ UNCHANGED filterVars => FilterInv'
BY DEF filterVars, FilterInv, FilterType, Amounts, PipesEnded

\* It says that what is used of the command's output is all of it.
LEMMA FilterSound == FilterInv => Filter!FilterWhole
<1> SUFFICES ASSUME FilterInv, parent = "kept"
             PROVE  got = made /\ (got < size => kind = "quit")
  BY DEF Filter!FilterWhole
<1>1. got = made /\ (kind = "quit" \/ made = size)
  BY DEF FilterInv, PipesEnded
<1>2. got \in Nat
  BY DEF FilterInv, FilterType
<1>3. QED
  BY <1>1, <1>2

-----------------------------------------------------------------------------
(* mod_pop3: what the replies do *)

PopReplies == {"ok", "err", "multi", "rest"}

\* The ways in which a session leaves the protocol, and those that put it out of step.
PopCauses == {"cut", "refused", "silence", "LIST 1", "CAPA", "long", "no server"}
PopOut == {"cut", "refused", "silence", "LIST 1", "CAPA", "long"}

PopSessions ==
  [mode : {"idle", "serving", "crashed"},
   flags : SUBSET {"CONNECTED", "ORIGIN", "TRANSPARENT"},
   filter : BOOLEAN, spamd : BOOLEAN, here : BOOLEAN,
   srv : {"none", "failed", "up", "gone"}, owed : Seq(PopReplies), due : Int,
   mail : Seq(Nat), got : Seq(Int), causes : SUBSET PopCauses, n : Nat]

\* What the handlers leave alone: the message, how it is filtered, and the causes so far.
PopKeeps(s, u) ==
  /\ u \in PopSessions
  /\ u.mode = s.mode /\ u.filter = s.filter /\ u.spamd = s.spamd /\ u.mail = s.mail
  /\ u.got = s.got /\ s.causes \subseteq u.causes

\* A session in which k replies are owed to the user, and the server's is `owed', unless it
\* is out of step.
PopAt(s, k, owed) == (s.due = k /\ s.owed = owed) \/ s.causes \cap PopOut # {}

\* client.cpp, Send(): the command is sent to a server that is there.
LEMMA PopSend ==
  ASSUME NEW s \in PopSessions, NEW R, R \subseteq PopReplies, NEW u \in Pop!Send(s, R)
  PROVE  /\ PopKeeps(s, u) /\ u.due = s.due /\ u.srv = s.srv /\ u.flags = s.flags
         /\ u.causes = s.causes
         /\ \/ s.srv = "up" /\ \E r \in R : u.owed = Append(s.owed, r)
            \/ s.srv # "up" /\ u = s
<1>1. CASE s.srv = "up"
  <2> PICK r \in R : u = [s EXCEPT !.owed = Append(@, r)]
    BY <1>1 DEF Pop!Send
  <2>1. Append(s.owed, r) \in Seq(PopReplies)
    BY DEF PopSessions
  <2>2. u \in PopSessions
    BY <2>1 DEF PopSessions
  <2>3. QED
    BY <1>1, <2>2 DEF PopSessions, PopKeeps
<1>2. CASE s.srv # "up"
  <2>1. u = s
    BY <1>2 DEF Pop!Send
  <2>2. QED
    BY <1>2, <2>1 DEF PopKeeps
<1>3. QED
  BY <1>1, <1>2

\* What the handlers keep, they keep one after the other.
LEMMA PopKeepsTwice ==
  ASSUME NEW s, NEW t, NEW u, PopKeeps(s, t), PopKeeps(t, u)
  PROVE  PopKeeps(s, u)
BY DEF PopKeeps

\* A session that is out of step stays so.
LEMMA PopStaysOut ==
  ASSUME NEW s, NEW u, PopKeeps(s, u), s.causes \cap PopOut # {}
  PROVE  u.causes \cap PopOut # {}
BY DEF PopKeeps

\* A sequence of one.
LEMMA HeadOfOne ==
  ASSUME NEW a, NEW s, s = <<a>>
  PROVE  s # <<>> /\ Head(s) = a /\ Tail(s) = <<>>
<1>1. s \in Seq({a}) /\ Len(s) = 1 /\ s[1] = a
  OBVIOUS
<1>2. s # <<>>
  BY <1>1, EmptySeq
<1>3. Head(s) = a /\ Tail(s) \in Seq({a}) /\ Len(Tail(s)) = 0
  BY <1>1, <1>2, HeadTailProperties
<1>4. Tail(s) = <<>>
  BY <1>3, EmptySeq
<1>5. QED
  BY <1>2, <1>3, <1>4

\* A reply that the user gets.
LEMMA PopReply ==
  ASSUME NEW s \in PopSessions
  PROVE  /\ PopKeeps(s, Pop!Reply(s)) /\ Pop!Reply(s).due = s.due - 1
         /\ Pop!Reply(s).owed = s.owed /\ Pop!Reply(s).srv = s.srv
         /\ Pop!Reply(s).causes = s.causes /\ Pop!Reply(s).flags = s.flags
<1> PICK u : u = Pop!Reply(s)
  OBVIOUS
<1>1. u = [s EXCEPT !.due = s.due - 1]
  BY DEF Pop!Reply
<1>2. u \in PopSessions
  BY <1>1 DEF PopSessions
<1>3. /\ PopKeeps(s, u) /\ u.due = s.due - 1 /\ u.owed = s.owed /\ u.srv = s.srv
      /\ u.causes = s.causes /\ u.flags = s.flags
  BY <1>1, <1>2 DEF PopSessions, PopKeeps
<1>4. QED
  BY <1>3

\* The causes whose names the proofs need.
LEMMA PopNames == {"cut", "refused", "silence", "long"} \subseteq PopCauses \cap PopOut
BY Zenon DEF PopCauses, PopOut

\* A cause that is noted.
LEMMA PopCause ==
  ASSUME NEW s \in PopSessions, NEW x \in PopCauses
  PROVE  /\ PopKeeps(s, Pop!Cause(s, x)) /\ x \in Pop!Cause(s, x).causes
         /\ Pop!Cause(s, x).due = s.due /\ Pop!Cause(s, x).owed = s.owed
         /\ Pop!Cause(s, x).srv = s.srv /\ Pop!Cause(s, x).flags = s.flags
         /\ Pop!Cause(s, x).mode = s.mode
<1> PICK u : u = Pop!Cause(s, x)
  OBVIOUS
<1>1. u = [s EXCEPT !.causes = s.causes \cup {x}]
  BY DEF Pop!Cause
<1> PICK c \in SUBSET PopCauses : c = s.causes \cup {x}
  BY DEF PopSessions
<1>2. u = [s EXCEPT !.causes = c] /\ u \in PopSessions
  BY <1>1 DEF PopSessions
<1>3. /\ PopKeeps(s, u) /\ x \in u.causes /\ u.due = s.due /\ u.owed = s.owed
      /\ u.srv = s.srv /\ u.flags = s.flags /\ u.mode = s.mode
  <2>1. u.causes = c
    BY <1>2 DEF PopSessions
  <2>2. /\ u.due = s.due /\ u.owed = s.owed /\ u.srv = s.srv /\ u.flags = s.flags
        /\ u.mode = s.mode /\ u.mail = s.mail /\ u.got = s.got
    BY <1>2 DEF PopSessions
  <2>3. u.filter = s.filter /\ u.spamd = s.spamd
    BY <1>2, Zenon DEF PopSessions
  <2>4. QED
    BY <1>2, <2>1, <2>2, <2>3 DEF PopKeeps
<1>4. QED
  BY <1>3

\* The end of what a server says, and its silence.
LEMMA PopClosed ==
  ASSUME NEW s \in PopSessions
  PROVE  /\ PopKeeps(s, Pop!Closed(s)) /\ Pop!Closed(s).due = s.due
         /\ Pop!Closed(s).owed = s.owed /\ Pop!Closed(s).flags = s.flags
<1> DEFINE g == [s EXCEPT !.srv = "gone"]
<1>1. /\ g \in PopSessions /\ PopKeeps(s, g) /\ g.due = s.due /\ g.owed = s.owed
      /\ g.flags = s.flags
  BY DEF PopSessions, PopKeeps
<1> PICK t : t = g
  OBVIOUS
<1>2. /\ t \in PopSessions /\ PopKeeps(s, t) /\ t.due = s.due /\ t.owed = s.owed
      /\ t.flags = s.flags
  BY <1>1
<1> PICK u : u = Pop!Closed(s)
  OBVIOUS
<1>3. u = (IF s.srv = "up" THEN Pop!Cause(t, "silence") ELSE s)
  BY DEF Pop!Closed
<1> HIDE DEF g
<1>4. PopKeeps(s, s)
  BY DEF PopKeeps
<1>5. CASE s.srv = "up"
  <2>1. PopKeeps(t, u) /\ u.due = t.due /\ u.owed = t.owed /\ u.flags = t.flags
    BY <1>2, <1>3, <1>5, PopCause, PopNames
  <2>2. PopKeeps(s, u)
    BY <1>2, <2>1, PopKeepsTwice
  <2>3. QED
    BY <1>2, <2>1, <2>2
<1>6. CASE s.srv # "up"
  BY <1>3, <1>4, <1>6
<1>7. QED
  BY <1>5, <1>6

\* What is left unread of the server's replies.
Owing(s, x) == [s EXCEPT !.owed = x]

\* Nothing else changes with it.
LEMMA PopOwed ==
  ASSUME NEW s \in PopSessions, NEW x \in Seq(PopReplies)
  PROVE  /\ PopKeeps(s, Owing(s, x)) /\ Owing(s, x).due = s.due
         /\ Owing(s, x).flags = s.flags /\ Owing(s, x).owed = x
         /\ Owing(s, x).causes = s.causes /\ Owing(s, x).srv = s.srv
<1> PICK u : u = [s EXCEPT !.owed = x]
  OBVIOUS
<1>1. u \in PopSessions
  BY DEF PopSessions
<1>2. /\ PopKeeps(s, u) /\ u.due = s.due /\ u.flags = s.flags /\ u.owed = x
      /\ u.causes = s.causes /\ u.srv = s.srv
  BY <1>1 DEF PopSessions, PopKeeps
<1>3. u = Owing(s, x)
  BY DEF Owing
<1>4. QED
  BY <1>2, <1>3

\* A reply that is read to its dot.
LEMMA PopAfterDot ==
  ASSUME NEW s \in PopSessions, s.owed # <<>>, NEW u \in Pop!AfterDot(s)
  PROVE  /\ PopKeeps(s, u) /\ u.due = s.due /\ u.flags = s.flags
         /\ u.owed = Tail(s.owed) \/ "cut" \in u.causes
<1> PICK q \in Seq(PopReplies) : q = Tail(s.owed)
  BY HeadTailProperties DEF PopSessions
<1>1. CASE u = [s EXCEPT !.owed = q]
  <2>1. u = Owing(s, q)
    BY <1>1 DEF Owing
  <2>2. QED
    BY <2>1, PopOwed
<1>2. CASE u = Pop!Cause([s EXCEPT !.owed = <<>>, !.srv = "gone"], "cut")
  <2> PICK t : t = [s EXCEPT !.owed = <<>>, !.srv = "gone"]
    OBVIOUS
  <2>1. t \in PopSessions
    <3>1. <<>> \in Seq(PopReplies)
      OBVIOUS
    <3>2. QED
      BY <3>1 DEF PopSessions
  <2>2. PopKeeps(s, t) /\ t.due = s.due /\ t.flags = s.flags
    BY <2>1 DEF PopSessions, PopKeeps
  <2>3. u = Pop!Cause(t, "cut")
    BY <1>2
  <2>4. PopKeeps(t, u) /\ "cut" \in u.causes /\ u.due = t.due /\ u.flags = t.flags
    BY <2>1, <2>3, PopCause, PopNames
  <2>5. PopKeeps(s, u)
    BY <2>2, <2>4, PopKeepsTwice
  <2>6. QED
    BY <2>2, <2>4, <2>5
<1>3. QED
  BY <1>1, <1>2 DEF Pop!AfterDot

\* A line of a reply that is read.
LEMMA PopAfterLine ==
  ASSUME NEW s \in PopSessions, s.owed # <<>>, NEW u \in Pop!AfterLine(s)
  PROVE  /\ PopKeeps(s, u) /\ u.due = s.due /\ u.flags = s.flags /\ u.causes = s.causes
         /\ u.srv = s.srv
         /\ Head(s.owed) \in {"ok", "err"} => u.owed = Tail(s.owed)
         /\ Head(s.owed) = "multi" => u.owed = <<"rest">> \o Tail(s.owed)
<1> PICK q \in Seq(PopReplies) : q = Tail(s.owed)
  BY HeadTailProperties DEF PopSessions
<1>1. <<"rest">> \o q \in Seq(PopReplies)
  <2>1. <<"rest">> \in Seq(PopReplies)
    BY DEF PopReplies
  <2>2. QED
    BY <2>1, ConcatProperties
<1> PICK x \in Seq(PopReplies) : x = <<"rest">> \o q
  BY <1>1
<1>2. CASE Head(s.owed) = "multi"
  <2>1. u = Owing(s, x)
    BY <1>2 DEF Pop!AfterLine, Owing
  <2>2. QED
    BY <1>2, <2>1, PopOwed
<1>3. CASE Head(s.owed) = "rest"
  <2>1. u = s \/ u = Owing(s, q)
    BY <1>3 DEF Pop!AfterLine, Owing
  <2>2. PopKeeps(s, s)
    BY DEF PopKeeps
  <2>3. CASE u = s
    BY <1>3, <2>2, <2>3
  <2>4. CASE u = Owing(s, q)
    BY <1>3, <2>4, PopOwed
  <2>5. QED
    BY <2>1, <2>3, <2>4
<1>4. CASE Head(s.owed) \notin {"multi", "rest"}
  <2>1. u = Owing(s, q)
    BY <1>4 DEF Pop!AfterLine, Owing
  <2>2. QED
    BY <1>4, <2>1, PopOwed
<1>5. QED
  BY <1>2, <1>3, <1>4

\* ForwardReply(): the reply that was awaited ends where it is taken to end.
PopFits(s, multiline) ==
  \/ s.causes \cap PopOut # {}
  \/ s.owed = <<>>
  \/ \E r \in (IF multiline THEN {"multi", "err"} ELSE {"ok", "err"}) : s.owed = <<r>>

\* Then the user gets one reply, and nothing is left.
LEMMA PopForwardReply ==
  ASSUME NEW s \in PopSessions, NEW multiline \in BOOLEAN,
         NEW u \in Pop!ForwardReply(s, multiline)
  PROVE  /\ PopKeeps(s, u)
         /\ PopFits(s, multiline) => PopAt(u, s.due - 1, <<>>)
<1> PICK t : t = Pop!Reply(s)
  OBVIOUS
<1>1. /\ t \in PopSessions /\ PopKeeps(s, t) /\ t.due = s.due - 1 /\ t.owed = s.owed
      /\ t.causes = s.causes
  BY PopReply DEF PopKeeps
<1>2. CASE s.owed = <<>>
  <2>1. u = Pop!Closed(t)
    BY <1>2 DEF Pop!ForwardReply
  <2>2. PopKeeps(t, u) /\ u.due = t.due /\ u.owed = t.owed
    BY <1>1, <2>1, PopClosed
  <2>3. QED
    BY <1>1, <1>2, <2>2, PopKeepsTwice DEF PopAt
<1>3. ASSUME s.owed # <<>>, u \in Pop!AfterLine(t), ~multiline \/ Head(s.owed) = "err"
      PROVE  /\ PopKeeps(s, u)
             /\ PopFits(s, multiline) => PopAt(u, s.due - 1, <<>>)
  <2>1. /\ PopKeeps(t, u) /\ u.due = t.due
        /\ Head(t.owed) \in {"ok", "err"} => u.owed = Tail(t.owed)
    BY <1>1, <1>3, PopAfterLine
  <2>2. PopKeeps(s, u)
    BY <1>1, <2>1, PopKeepsTwice
  <2>3. ASSUME NEW r \in {"ok", "err"}, s.owed = <<r>>
        PROVE  u.owed = <<>>
    BY <1>1, <2>1, <2>3, HeadOfOne
  <2>4. ASSUME NEW r \in {"multi", "err"}, s.owed = <<r>>, Head(s.owed) = "err"
        PROVE  u.owed = <<>>
    BY <1>1, <2>1, <2>4, HeadOfOne
  <2>5. s.causes \cap PopOut # {} => u.causes \cap PopOut # {}
    BY <2>2, PopStaysOut
  <2>6. QED
    BY <1>1, <1>3, <2>1, <2>2, <2>3, <2>4, <2>5 DEF PopFits, PopAt
<1>4. CASE s.owed # <<>> /\ multiline /\ Head(s.owed) = "multi"
  <2>1. u \in Pop!AfterDot(t)
    BY <1>4 DEF Pop!ForwardReply
  <2>2. PopKeeps(t, u) /\ u.due = t.due /\ (u.owed = Tail(t.owed) \/ "cut" \in u.causes)
    BY <1>1, <1>4, <2>1, PopAfterDot
  <2>3. PopKeeps(s, u)
    BY <1>1, <2>2, PopKeepsTwice
  <2>4. ASSUME NEW r, s.owed = <<r>>
        PROVE  u.owed = <<>> \/ "cut" \in u.causes
    BY <1>1, <2>2, <2>4, HeadOfOne
  <2>5. s.causes \cap PopOut # {} => u.causes \cap PopOut # {}
    BY <2>3, PopStaysOut
  <2>6. QED
    BY PopNames, <1>1, <1>4, <2>2, <2>3, <2>4, <2>5 DEF PopFits, PopAt
<1>5. CASE s.owed # <<>> /\ multiline /\ Head(s.owed) = "ok"
  <2> PICK g : g = [t EXCEPT !.owed = <<>>, !.srv = "gone"]
    OBVIOUS
  <2>1. g \in PopSessions
    <3>1. <<>> \in Seq(PopReplies)
      OBVIOUS
    <3>2. QED
      BY <1>1, <3>1 DEF PopSessions
  <2>2. PopKeeps(t, g)
    BY <1>1, <2>1 DEF PopSessions, PopKeeps
  <2>3. u = Pop!Reply(g)
    BY <1>5 DEF Pop!ForwardReply
  <2>4. PopKeeps(s, u)
    BY <1>1, <2>1, <2>2, <2>3, PopReply, PopKeepsTwice
  <2>5. ASSUME NEW r \in {"multi", "err"}, s.owed = <<r>>
        PROVE  FALSE
    BY <1>5, <2>5, HeadOfOne
  <2>6. s.causes \cap PopOut # {} => u.causes \cap PopOut # {}
    BY <2>4, PopStaysOut
  <2>7. QED
    BY <1>5, <2>4, <2>5, <2>6 DEF PopFits, PopAt
<1>6. CASE s.owed # <<>> /\ multiline /\ Head(s.owed) \notin {"multi", "ok"}
  <2>1. u \in Pop!AfterLine(t)
    BY <1>6 DEF Pop!ForwardReply
  <2>2. CASE Head(s.owed) = "err"
    BY <1>3, <1>6, <2>1, <2>2
  <2>3. CASE Head(s.owed) # "err"
    <3>1. PopKeeps(t, u)
      BY <1>1, <1>6, <2>1, PopAfterLine
    <3>2. PopKeeps(s, u)
      BY <1>1, <3>1, PopKeepsTwice
    <3>3. ASSUME NEW r \in {"multi", "err"}, s.owed = <<r>>
          PROVE  FALSE
      BY <1>6, <2>3, <3>3, HeadOfOne
    <3>4. s.causes \cap PopOut # {} => u.causes \cap PopOut # {}
      BY <3>2, PopStaysOut
    <3>5. QED
      BY <1>6, <3>2, <3>3, <3>4 DEF PopFits, PopAt
  <2>4. QED
    BY <2>2, <2>3
<1>7. CASE s.owed # <<>> /\ ~multiline
  <2>1. u \in Pop!AfterLine(t)
    BY <1>7 DEF Pop!ForwardReply
  <2>2. QED
    BY <1>3, <1>7, <2>1
<1>8. QED
  BY <1>2, <1>4, <1>5, <1>6, <1>7


\* The flags of a session.
Flagged(s, f) == [s EXCEPT !.flags = f]

\* Nothing else changes with them.
LEMMA PopFlagged ==
  ASSUME NEW s \in PopSessions, NEW f \in SUBSET {"CONNECTED", "ORIGIN", "TRANSPARENT"}
  PROVE  /\ PopKeeps(s, Flagged(s, f)) /\ Flagged(s, f).due = s.due
         /\ Flagged(s, f).owed = s.owed /\ Flagged(s, f).causes = s.causes
         /\ Flagged(s, f).srv = s.srv
<1> PICK u : u = [s EXCEPT !.flags = f]
  OBVIOUS
<1>1. u \in PopSessions
  BY DEF PopSessions
<1>2. /\ PopKeeps(s, u) /\ u.due = s.due /\ u.owed = s.owed /\ u.causes = s.causes
      /\ u.srv = s.srv
  BY <1>1 DEF PopSessions, PopKeeps
<1>3. u = Flagged(s, f)
  BY DEF Flagged
<1>4. QED
  BY <1>2, <1>3

\* DoConnect(): the user is told when the server cannot be reached.
LEMMA PopDoConnect ==
  ASSUME NEW s \in PopSessions, NEW u \in Pop!DoConnect(s)
  PROVE  /\ PopKeeps(s, u) /\ u.owed = <<>> /\ u.causes = s.causes
         /\ \/ u.srv = "up" /\ u.due = s.due
            \/ u.srv = "failed" /\ u.due = s.due - 1
<1>0. <<>> \in Seq(PopReplies)
  OBVIOUS
<1> PICK x \in Seq(PopReplies) : x = <<>>
  BY <1>0
<1>1. CASE u = [s EXCEPT !.srv = "up", !.owed = <<>>, !.flags = @ \cup {"CONNECTED", "ORIGIN"}]
  <2> PICK f \in SUBSET {"CONNECTED", "ORIGIN", "TRANSPARENT"} :
           f = s.flags \cup {"CONNECTED", "ORIGIN"}
    BY DEF PopSessions
  <2>1. u = [s EXCEPT !.srv = "up", !.owed = x, !.flags = f]
    BY <1>1
  <2>2. u \in PopSessions
    BY <2>1 DEF PopSessions
  <2>3. PopKeeps(s, u) /\ u.owed = x /\ u.causes = s.causes /\ u.srv = "up" /\ u.due = s.due
    BY <2>1, <2>2 DEF PopSessions, PopKeeps
  <2>4. QED
    BY <2>3
<1>2. CASE u = Pop!Reply([s EXCEPT !.srv = "failed", !.owed = <<>>])
  <2> PICK t : t = [s EXCEPT !.srv = "failed", !.owed = x]
    OBVIOUS
  <2>1. t \in PopSessions
    BY DEF PopSessions
  <2>2. PopKeeps(s, t) /\ t.owed = x /\ t.causes = s.causes /\ t.srv = "failed" /\ t.due = s.due
    BY <2>1 DEF PopSessions, PopKeeps
  <2>3. u = Pop!Reply(t)
    BY <1>2
  <2>4. /\ PopKeeps(t, u) /\ u.owed = t.owed /\ u.causes = t.causes /\ u.srv = t.srv
        /\ u.due = t.due - 1
    BY <2>1, <2>3, PopReply
  <2>5. PopKeeps(s, u)
    BY <2>2, <2>4, PopKeepsTwice
  <2>6. QED
    BY <2>2, <2>4, <2>5
<1>3. QED
  BY <1>1, <1>2 DEF Pop!DoConnect

\* A reply that is owed to the user is given.
PopAnswers(s, u) == PopKeeps(s, u) /\ (PopAt(s, 1, <<>>) => PopAt(u, 0, <<>>))

\* A command that is sent, and the reply that is awaited.
LEMMA PopExchange ==
  ASSUME NEW s \in PopSessions, NEW R, R \subseteq PopReplies, NEW multiline \in BOOLEAN,
         \/ R = (IF multiline THEN {"multi", "err"} ELSE {"ok", "err"})
         \/ s.causes \cap PopOut # {},
         NEW t \in Pop!Send(s, R), NEW u \in Pop!ForwardReply(t, multiline)
  PROVE  PopAnswers(s, u)
<1>1. /\ PopKeeps(s, t) /\ t.due = s.due /\ t.causes = s.causes
      /\ \/ s.srv = "up" /\ \E r \in R : t.owed = Append(s.owed, r)
         \/ s.srv # "up" /\ t = s
  BY PopSend
<1>2. t \in PopSessions
  BY <1>1 DEF PopKeeps
<1>3. /\ PopKeeps(t, u)
      /\ PopFits(t, multiline) => PopAt(u, t.due - 1, <<>>)
  BY <1>2, PopForwardReply
<1>4. PopKeeps(s, u)
  BY <1>1, <1>3, PopKeepsTwice
<1>5. CASE s.causes \cap PopOut # {}
  <2>1. u.causes \cap PopOut # {}
    BY <1>4, <1>5, PopStaysOut
  <2>2. QED
    BY <1>4, <2>1 DEF PopAnswers, PopAt
<1>6. CASE s.causes \cap PopOut = {}
  <2> SUFFICES ASSUME s.due = 1, s.owed = <<>>
               PROVE  PopAt(u, 0, <<>>)
    BY <1>4, <1>6 DEF PopAnswers, PopAt
  <2>1. ASSUME NEW r \in R, t.owed = Append(s.owed, r)
        PROVE  PopFits(t, multiline)
    <3>1. t.owed = <<r>>
      BY <2>1
    <3>2. QED
      BY <1>6, <3>1 DEF PopFits
  <2>2. t = s => PopFits(t, multiline)
    BY DEF PopFits
  <2>3. PopAt(u, t.due - 1, <<>>)
    BY <1>1, <1>3, <2>1, <2>2
  <2>4. t.due - 1 = 0
    BY <1>1
  <2>5. QED
    BY <2>3, <2>4
<1>7. QED
  BY <1>5, <1>6


\* What one handler keeps and the next answers.
LEMMA PopAnswersAfter ==
  ASSUME NEW s, NEW t, NEW u, PopKeeps(s, t), PopAnswers(t, u),
         PopAt(s, 1, <<>>) => PopAt(t, 1, <<>>)
  PROVE  PopAnswers(s, u)
BY PopKeepsTwice DEF PopAnswers

\* A reply that the user gets without asking the server.
LEMMA PopJustReply ==
  ASSUME NEW s \in PopSessions
  PROVE  PopAnswers(s, Pop!Reply(s))
<1> PICK u : u = Pop!Reply(s)
  OBVIOUS
<1>1. PopKeeps(s, u) /\ u.due = s.due - 1 /\ u.owed = s.owed /\ u.causes = s.causes
  BY PopReply
<1>2. s.due = 1 => u.due = 0
  BY <1>1
<1>3. QED
  BY <1>1, <1>2 DEF PopAnswers, PopAt

\* ConnectToServer(): one reply, whether the server can be reached or not.
LEMMA PopConnectToServer ==
  ASSUME NEW s \in PopSessions, NEW u \in Pop!ConnectToServer(s)
  PROVE  PopAnswers(s, u)
<1> PICK f \in SUBSET {"CONNECTED", "ORIGIN", "TRANSPARENT"} : f = s.flags \ {"CONNECTED"}
  BY DEF PopSessions
<1> PICK o : o = Flagged(s, f)
  OBVIOUS
<1>1. /\ o \in PopSessions /\ PopKeeps(s, o) /\ o.due = s.due /\ o.owed = s.owed
      /\ o.causes = s.causes
  BY PopFlagged DEF PopKeeps
<1>2. PopAt(s, 1, <<>>) => PopAt(o, 1, <<>>)
  BY <1>1 DEF PopAt
<1>3. \/ u = Pop!Reply(o)
      \/ \E t \in Pop!DoConnect(o) :
           IF t.srv = "failed" THEN u = t
           ELSE \E v \in Pop!Send(t, {"ok", "err"}) : u \in Pop!ForwardReply(v, FALSE)
  <2> DEFINE W(t) == UNION {Pop!ForwardReply(v, FALSE) : v \in Pop!Send(t, {"ok", "err"})}
             V(t) == IF t.srv = "failed" THEN {t} ELSE W(t)
  <2>1. u \in {Pop!Reply(o)} \cup UNION {V(t) : t \in Pop!DoConnect(o)}
    BY Zenon DEF Pop!ConnectToServer, Flagged
  <2>2. ASSUME NEW t, u \in W(t)
        PROVE  \E v \in Pop!Send(t, {"ok", "err"}) : u \in Pop!ForwardReply(v, FALSE)
    BY <2>2
  <2> HIDE DEF W
  <2>3. ASSUME NEW t, u \in V(t)
        PROVE  IF t.srv = "failed" THEN u = t
               ELSE \E v \in Pop!Send(t, {"ok", "err"}) : u \in Pop!ForwardReply(v, FALSE)
    BY <2>2, <2>3
  <2> HIDE DEF V
  <2>4. u = Pop!Reply(o) \/ \E t \in Pop!DoConnect(o) : u \in V(t)
    BY <2>1
  <2>5. QED
    BY <2>3, <2>4, Zenon
<1>4. CASE u = Pop!Reply(o)
  <2>1. PopAnswers(o, u)
    BY <1>1, <1>4, PopJustReply
  <2>2. QED
    BY <1>1, <1>2, <2>1, PopAnswersAfter
<1>5. ASSUME NEW t \in Pop!DoConnect(o), t.srv = "failed", u = t
      PROVE  PopAnswers(s, u)
  <2>1. PopKeeps(o, t) /\ t.owed = <<>> /\ t.causes = o.causes /\ t.due = o.due - 1
    BY <1>1, <1>5, PopDoConnect
  <2>2. o.due = 1 => t.due = 0
    BY <2>1
  <2>3. PopAnswers(o, u)
    BY <1>5, <2>1, <2>2 DEF PopAnswers, PopAt
  <2>4. QED
    BY <1>1, <1>2, <2>3, PopAnswersAfter
<1>6. ASSUME NEW t \in Pop!DoConnect(o), t.srv # "failed",
             NEW v \in Pop!Send(t, {"ok", "err"}), u \in Pop!ForwardReply(v, FALSE)
      PROVE  PopAnswers(s, u)
  <2>1. PopKeeps(o, t) /\ t.owed = <<>> /\ t.causes = o.causes /\ t.due = o.due
    BY <1>1, <1>6, PopDoConnect
  <2>2. t \in PopSessions
    BY <2>1 DEF PopKeeps
  <2> PICK R : R = {"ok", "err"}
    OBVIOUS
  <2>3. R \subseteq PopReplies
    BY DEF PopReplies
  <2>4. v \in Pop!Send(t, R)
    BY <1>6
  <2>5. PopAnswers(t, u)
    BY <1>6, <2>2, <2>3, <2>4, PopExchange
  <2>6. PopAt(o, 1, <<>>) => PopAt(t, 1, <<>>)
    BY <2>1 DEF PopAt
  <2>7. PopAnswers(o, u)
    BY <2>1, <2>5, <2>6, PopAnswersAfter
  <2>8. QED
    BY <1>1, <1>2, <2>7, PopAnswersAfter
<1>7. QED
  BY <1>3, <1>4, <1>5, <1>6

\* What servers answer and what is awaited, but for the two commands where it is wrong.
LEMMA PopAnswersFit ==
  ASSUME NEW cmd, cmd \notin {"LIST 1", "CAPA"}
  PROVE  Pop!Answers(cmd) = IF cmd \in Pop!Multi THEN {"multi", "err"} ELSE {"ok", "err"}
BY Zenon DEF Pop!Answers, Pop!Multi

\* What servers answer.
LEMMA PopAnswersAre == ASSUME NEW cmd PROVE Pop!Answers(cmd) \subseteq PopReplies
BY Zenon DEF Pop!Answers, PopReplies

\* The two commands are causes.
LEMMA PopMistaken ==
  ASSUME NEW cmd \in {"LIST 1", "CAPA"}
  PROVE  cmd \in PopCauses /\ cmd \in PopOut
BY Zenon DEF PopCauses, PopOut

\* ForwardCmd(): one reply to each command.
LEMMA PopForwardCmd ==
  ASSUME NEW s \in PopSessions, NEW cmd, NEW u \in Pop!ForwardCmd(s, cmd)
  PROVE  PopAnswers(s, u)
<1> PICK m : m = Pop!Mistaken(s, cmd)
  OBVIOUS
<1>1. \/ u \in Pop!ConnectToServer(s)
      \/ u = Pop!Reply(s)
      \/ \E t \in Pop!Send(m, Pop!Answers(cmd)) :
           \E v \in Pop!ForwardReply(t, cmd \in Pop!Multi) :
             u = v \/ u = Flagged(v, v.flags \ {"CONNECTED", "ORIGIN"})
  BY Zenon DEF Pop!ForwardCmd, Flagged
<1>2. ASSUME NEW t \in Pop!Send(m, Pop!Answers(cmd)),
             NEW v \in Pop!ForwardReply(t, cmd \in Pop!Multi),
             u = v \/ u = Flagged(v, v.flags \ {"CONNECTED", "ORIGIN"})
      PROVE  PopAnswers(s, u)
  <2> PICK R : R = Pop!Answers(cmd)
    OBVIOUS
  <2>0. (cmd \in Pop!Multi) \in BOOLEAN
    OBVIOUS
  <2> PICK multiline \in BOOLEAN : multiline = (cmd \in Pop!Multi)
    BY <2>0
  <2>1. /\ PopKeeps(s, m) /\ m.due = s.due /\ m.owed = s.owed /\ s.causes \subseteq m.causes
        /\ cmd \in {"LIST 1", "CAPA"} => m.causes \cap PopOut # {}
    <3>1. ASSUME cmd \in {"LIST 1", "CAPA"}
          PROVE  PopKeeps(s, m) /\ m.due = s.due /\ m.owed = s.owed /\ cmd \in m.causes
      <4>1. m = Pop!Cause(s, cmd)
        BY <3>1, Zenon DEF Pop!Mistaken
      <4>2. cmd \in PopCauses
        BY <3>1, PopMistaken, Zenon
      <4>3. QED
        BY <4>1, <4>2, PopCause, Zenon
    <3>2. ASSUME cmd \notin {"LIST 1", "CAPA"}
          PROVE  m = s
      BY <3>2, Zenon DEF Pop!Mistaken
    <3>3. PopKeeps(s, s)
      BY DEF PopKeeps
    <3>4. cmd \in {"LIST 1", "CAPA"} => m.causes \cap PopOut # {}
      BY <3>1, PopMistaken, Zenon
    <3>5. PopKeeps(s, m) /\ m.due = s.due /\ m.owed = s.owed
      BY <3>1, <3>2, <3>3, Zenon
    <3>6. s.causes \subseteq m.causes
      BY <3>5, Zenon DEF PopKeeps
    <3>7. QED
      BY <3>4, <3>5, <3>6, Zenon
  <2>2. \/ R = (IF multiline THEN {"multi", "err"} ELSE {"ok", "err"})
        \/ m.causes \cap PopOut # {}
    BY <2>1, PopAnswersFit, Zenon
  <2>3. R \subseteq PopReplies
    BY PopAnswersAre
  <2>4. m \in PopSessions
    BY <2>1, Zenon DEF PopKeeps
  <2>5. t \in Pop!Send(m, R) /\ v \in Pop!ForwardReply(t, multiline)
    BY <1>2
  <2>6. PopAnswers(m, v)
    BY <2>2, <2>3, <2>4, <2>5, PopExchange
  <2>7. PopAt(s, 1, <<>>) => PopAt(m, 1, <<>>)
    BY <2>1, Zenon DEF PopAt
  <2>8. PopAnswers(s, v)
    BY <2>1, <2>6, <2>7, PopAnswersAfter, Zenon
  <2>9. CASE u = v
    BY <2>8, <2>9
  <2>10. CASE u = Flagged(v, v.flags \ {"CONNECTED", "ORIGIN"})
    <3>1. v \in PopSessions
      BY <2>8 DEF PopAnswers, PopKeeps
    <3> PICK f \in SUBSET {"CONNECTED", "ORIGIN", "TRANSPARENT"} :
             f = v.flags \ {"CONNECTED", "ORIGIN"}
      BY <3>1 DEF PopSessions
    <3>2. PopKeeps(v, u) /\ u.due = v.due /\ u.owed = v.owed /\ u.causes = v.causes
      BY <2>10, <3>1, PopFlagged
    <3>3. PopKeeps(s, u)
      BY <2>8, <3>2, PopKeepsTwice DEF PopAnswers
    <3>4. QED
      BY <2>8, <3>2, <3>3 DEF PopAnswers, PopAt
  <2>11. QED
    BY <1>2, <2>9, <2>10
<1>3. u \in Pop!ConnectToServer(s) => PopAnswers(s, u)
  BY PopConnectToServer
<1>4. u = Pop!Reply(s) => PopAnswers(s, u)
  BY PopJustReply
<1>5. QED
  BY <1>1, <1>2, <1>3, <1>4


\* What the user is sent for a message: what each filter may make of it.
PopMessages(m, spamd) ==
  {Pop!SendMessage(f) : f \in Pop!Filtered(Pop!FetchMail(Pop!Stuff(m)), spamd)}

\* The lines of a message are numbers.
LEMMA PopLines ==
  ASSUME NEW m \in Seq(Nat), m # <<>>
  PROVE  /\ Pop!Stuff(m) \in Seq(Nat) /\ Pop!Stuff(m) # <<>> /\ Len(Pop!Stuff(m)) = Len(m)
         /\ \A i \in 1..Len(m) : Pop!Stuff(m)[i] = IF m[i] > 0 THEN m[i] + 1 ELSE 0
         /\ Pop!FetchMail(Pop!Stuff(m)) = m
<1> PICK n \in Nat : n = Len(m)
  OBVIOUS
<1>1. m \in [1..n -> Nat] /\ \A i \in 1..n : m[i] \in Nat
  OBVIOUS
<1> PICK x : x = Pop!Stuff(m)
  OBVIOUS
<1>2. x = [i \in 1..n |-> IF m[i] > 0 THEN m[i] + 1 ELSE 0]
  BY DEF Pop!Stuff
<1>3. x \in [1..n -> Nat] /\ \A i \in 1..n : x[i] = IF m[i] > 0 THEN m[i] + 1 ELSE 0
  BY <1>1, <1>2
<1>4. x \in Seq(Nat) /\ Len(x) = n
  BY <1>3
<1>5. n # 0 /\ x # <<>>
  BY <1>4, EmptySeq
<1>6. Pop!FetchMail(x) = m
  <2>1. Pop!FetchMail(x) = [i \in 1..n |-> IF x[i] > 0 THEN x[i] - 1 ELSE 0]
    BY <1>4 DEF Pop!FetchMail, Pop!Unstuff
  <2>2. \A i \in 1..n : (IF x[i] > 0 THEN x[i] - 1 ELSE 0) = m[i]
    BY <1>1, <1>3
  <2>3. m = [i \in 1..n |-> m[i]]
    BY <1>1
  <2>4. QED
    BY <2>1, <2>2, <2>3
<1>7. QED
  BY <1>3, <1>4, <1>5, <1>6

\* Sequences of natural numbers are sequences of integers.
LEMMA NatsAreInts == ASSUME NEW s \in Seq(Nat) PROVE s \in Seq(Int)
OBVIOUS

\* All but the first of a sequence.
LEMMA TailIs ==
  ASSUME NEW x \in Seq(Int), NEW n \in Nat, Len(x) = n + 1
  PROVE  /\ Tail(x) \in Seq(Int) /\ Len(Tail(x)) = n
         /\ \A i \in 1..n : Tail(x)[i] = x[i + 1]
<1>1. x # <<>>
  BY EmptySeq
<1>2. QED
  BY <1>1, HeadTailProperties

\* What SendMessage() puts at the end.
LEMMA TwoMore ==
  ASSUME NEW y \in Seq(Int), NEW g, g = y \o <<0, -1>>
  PROVE  /\ g \in Seq(Int) /\ g # <<>> /\ Len(g) = Len(y) + 2
         /\ g[Len(y) + 1] = 0 /\ g[Len(y) + 2] = -1
         /\ SubSeq(g, 1, Len(y)) = y
<1> PICK n \in Nat : n = Len(y)
  OBVIOUS
<1> PICK e : e = <<0, -1>>
  OBVIOUS
<1>1. e \in Seq(Int) /\ Len(e) = 2 /\ e[1] = 0 /\ e[2] = -1
  OBVIOUS
<1>0. g = y \o e
  OBVIOUS
<1>2. g \in Seq(Int) /\ Len(g) = n + 2
  BY <1>0, <1>1, ConcatProperties
<1>3. \A i \in 1..(n + 2) : g[i] = IF i <= n THEN y[i] ELSE e[i - n]
  BY <1>0, <1>1, ConcatProperties
<1>4. g[n + 1] = 0 /\ g[n + 2] = -1
  BY <1>1, <1>3
<1>5. SubSeq(g, 1, n) = y
  <2> PICK w : w = SubSeq(g, 1, n)
    OBVIOUS
  <2>1. w \in Seq(Int) /\ Len(w) = n /\ \A i \in 1..n : w[i] = g[i]
    BY <1>2
  <2>2. \A i \in 1..n : w[i] = y[i]
    BY <1>3, <2>1
  <2>3. QED
    BY <2>1, <2>2, SeqEqual
<1>6. g # <<>>
  BY <1>2, EmptySeq
<1>7. QED
  BY <1>2, <1>4, <1>5, <1>6

\* The dots that a server puts before dots are taken away again.
LEMMA PopUnstuffed ==
  ASSUME NEW w \in Seq(Int), NEW t \in Seq(Nat), Len(w) = Len(t),
         \A i \in 1..Len(t) : w[i] = IF t[i] > 0 THEN t[i] + 1 ELSE 0
  PROVE  Pop!Unstuff(w) = t
<1> PICK n \in Nat : n = Len(t)
  OBVIOUS
<1>1. \A i \in 1..n : t[i] \in Nat
  OBVIOUS
<1>2. \A i \in 1..n : (IF w[i] > 0 THEN w[i] - 1 ELSE 0) = t[i]
  BY <1>1
<1>3. Pop!Unstuff(w) = [i \in 1..n |-> IF w[i] > 0 THEN w[i] - 1 ELSE 0]
  BY DEF Pop!Unstuff
<1>4. t = [i \in 1..n |-> t[i]]
  OBVIOUS
<1>5. QED
  BY <1>2, <1>3, <1>4

\* A line never begins with one dot.
LEMMA NeverOne ==
  ASSUME NEW a \in Nat, NEW b, b = IF a > 0 THEN a + 1 ELSE 0
  PROVE  b \notin {-1, 1}
OBVIOUS

\* SendMessage(): what the user is sent ends as it should, ...
LEMMA PopSentEnds ==
  ASSUME NEW m \in Seq(Nat), m # <<>>
  PROVE  /\ Tail(Pop!Stuff(m)) \in Seq(Int)
         /\ Pop!SendMessage(m) = Tail(Pop!Stuff(m)) \o <<0, -1>>
<1> PICK x : x = Pop!Stuff(m)
  OBVIOUS
<1>1. x \in Seq(Nat) /\ x # <<>>
  BY PopLines
<1>2. x \in Seq(Int)
  BY <1>1
<1>3. Tail(x) \in Seq(Int)
  BY <1>1, <1>2, HeadTailProperties
<1>4. QED
  BY <1>3 DEF Pop!SendMessage, Pop!Dot

\* ... and when the dots are taken away again, it is the message without its first line.
LEMMA PopSent ==
  ASSUME NEW m \in Seq(Nat), m # <<>>, NEW w, w = Tail(Pop!Stuff(m))
  PROVE  /\ \A i \in 1..Len(w) : w[i] \notin {Pop!Dot, 1}
         /\ Pop!Unstuff(w) = Tail(m)
<1>0. Len(m) \in Nat /\ Len(m) # 0
  BY EmptySeq
<1> PICK n \in Nat : Len(m) = n + 1
  BY <1>0
<1> PICK x : x = Pop!Stuff(m)
  OBVIOUS
<1>1. /\ x \in Seq(Nat) /\ Len(x) = n + 1
      /\ \A i \in 1..Len(m) : x[i] = IF m[i] > 0 THEN m[i] + 1 ELSE 0
  BY PopLines
<1>2. x \in Seq(Int) /\ m \in Seq(Int)
  BY <1>1, NatsAreInts
<1>3. w \in Seq(Int) /\ Len(w) = n /\ \A i \in 1..n : w[i] = x[i + 1]
  BY <1>1, <1>2, TailIs
<1> PICK t : t = Tail(m)
  OBVIOUS
<1>4. t \in Seq(Nat) /\ Len(t) = n /\ \A i \in 1..n : t[i] = m[i + 1]
  <2>1. t \in Seq(Nat)
    BY HeadTailProperties
  <2>2. QED
    BY <1>2, <2>1, TailIs
<1>5. \A i \in 1..n : w[i] = IF t[i] > 0 THEN t[i] + 1 ELSE 0
  <2> TAKE i \in 1..n
  <2>1. i + 1 \in 1..Len(m)
    OBVIOUS
  <2>2. x[i + 1] = IF m[i + 1] > 0 THEN m[i + 1] + 1 ELSE 0
    BY <1>1, <2>1
  <2>3. QED
    BY <1>3, <1>4, <2>2
<1>6. \A i \in 1..n : t[i] \in Nat
  BY <1>4
<1>7. \A i \in 1..n : w[i] \notin {-1, 1}
  <2> TAKE i \in 1..n
  <2>1. t[i] \in Nat /\ w[i] = IF t[i] > 0 THEN t[i] + 1 ELSE 0
    BY <1>5, <1>6
  <2>2. QED
    BY <2>1, NeverOne
<1>8. Pop!Unstuff(w) = t
  BY <1>3, <1>4, <1>5, PopUnstuffed
<1>9. QED
  BY <1>3, <1>7, <1>8 DEF Pop!Dot

\* What each filter may make of a message is a message.
LEMMA PopFiltered ==
  ASSUME NEW m \in Seq(Nat), m # <<>>, NEW spamd \in BOOLEAN, NEW g \in PopMessages(m, spamd)
  PROVE  \E f \in Seq(Nat) :
            f # <<>> /\ g = Pop!SendMessage(f) /\ (f = m \/ (spamd /\ f = Pop!Stuff(m)))
<1>1. PICK f \in Pop!Filtered(m, spamd) : g = Pop!SendMessage(f)
  BY PopLines DEF PopMessages
<1>2. f = m \/ (spamd /\ f = Pop!Stuff(m))
  BY DEF Pop!Filtered, Pop!SpamdReply
<1>3. f \in Seq(Nat) /\ f # <<>>
  BY <1>2, PopLines
<1>4. QED
  BY <1>1, <1>2, <1>3


\* FilterEMail() in parts, as the handler has them: a line that is read, the message, and
\* what RETR leads to.
LineRead(t) ==
  IF t.owed = <<>> THEN {<<FALSE, Pop!Closed(t)>>}
  ELSE {<<Head(t.owed) \in {"ok", "multi"}, u>> : u \in Pop!AfterLine(t)}

\* The rest of the message.
MessageRead(t) ==
  IF t.owed # <<>> /\ Head(t.owed) = "rest"
  THEN Pop!Mangled(t, Pop!Begins(Pop!Stuff(t.mail))) \cup
       UNION {IF u.srv = "gone" THEN {Pop!Reply(u)}
              ELSE Pop!Delivered(u) \cup Pop!Mangled(u, Pop!Pieces(Pop!Stuff(u.mail)))
              : u \in Pop!AfterDot(t)}
  ELSE {Pop!Cause(Pop!Reply([t EXCEPT !.owed = <<>>, !.srv = "gone"]), "cut")}

\* RETR and what comes of it.
Retrieved(t) ==
  UNION {IF l[1] THEN MessageRead(l[2]) ELSE {Pop!Reply(l[2])}
         : l \in UNION {LineRead(u) : u \in Pop!Send(t, Pop!Answers("RETR"))}}

\* What the server may answer to LIST with a number.
ListAnswers == Pop!Answers("LIST 1")

\* They make the handler up.
LEMMA PopFilterEMailIs ==
  ASSUME NEW s
  PROVE  Pop!FilterEMail(s) =
           IF s.srv = "none" THEN {Pop!Cause([s EXCEPT !.mode = "crashed"], "no server")}
           ELSE UNION {IF l[1] THEN Retrieved(l[2]) \cup Pop!ForwardCmd(l[2], "RETR")
                       ELSE Pop!ForwardCmd(l[2], "RETR")
                       : l \in UNION {LineRead(u) : u \in Pop!Send(s, ListAnswers)}}
BY Zenon DEF Pop!FilterEMail, ListAnswers, Retrieved, MessageRead, LineRead

\* A line of a reply: the one that was awaited, or none.
LEMMA PopLineRead ==
  ASSUME NEW s \in PopSessions, NEW l \in LineRead(s)
  PROVE  /\ l = <<l[1], l[2]>> /\ PopKeeps(s, l[2]) /\ l[2].due = s.due
         /\ s.owed = <<>> => ~l[1] /\ l[2].owed = <<>>
         /\ s.owed = <<"ok">> => l[1] /\ l[2].owed = <<>>
         /\ s.owed = <<"err">> => ~l[1] /\ l[2].owed = <<>>
         /\ s.owed = <<"multi">> => l[1] /\ l[2].owed = <<"rest">>
<1>1. CASE s.owed = <<>>
  <2> PICK u : u = Pop!Closed(s)
    OBVIOUS
  <2>1. l = <<FALSE, u>>
    BY <1>1 DEF LineRead
  <2>2. PopKeeps(s, u) /\ u.due = s.due /\ u.owed = s.owed
    BY PopClosed
  <2>3. \A r : s.owed # <<r>>
    BY <1>1, HeadOfOne
  <2>4. ~l[1] /\ l[2] = u /\ l = <<l[1], l[2]>>
    BY <2>1
  <2>5. QED
    BY <1>1, <2>2, <2>3, <2>4
<1>2. CASE s.owed # <<>>
  <2>1. PICK u \in Pop!AfterLine(s) : l = <<Head(s.owed) \in {"ok", "multi"}, u>>
    BY <1>2 DEF LineRead
  <2>2. l[2] = u /\ l = <<l[1], l[2]>> /\ (l[1] <=> Head(s.owed) \in {"ok", "multi"})
    BY <2>1
  <2>3. /\ PopKeeps(s, u) /\ u.due = s.due
        /\ Head(s.owed) \in {"ok", "err"} => u.owed = Tail(s.owed)
        /\ Head(s.owed) = "multi" => u.owed = <<"rest">> \o Tail(s.owed)
    BY <1>2, PopAfterLine
  <2>4. ASSUME NEW r, s.owed = <<r>>
        PROVE  Head(s.owed) = r /\ Tail(s.owed) = <<>>
    BY <2>4, HeadOfOne
  <2>5. s.owed = <<"multi">> => u.owed = <<"rest">>
    <3>1. <<"rest">> \o <<>> = <<"rest">>
      OBVIOUS
    <3>2. QED
      BY <2>3, <2>4, <3>1
  <2>6. s.owed = <<"multi">> => l[1]
    BY <2>2, <2>4
  <2>7. s.owed = <<"ok">> => l[1] /\ u.owed = <<>>
    BY <2>2, <2>3, <2>4
  <2>8. s.owed = <<"err">> => ~l[1] /\ u.owed = <<>>
    BY <2>2, <2>3, <2>4
  <2>9. QED
    BY <1>2, <2>2, <2>3, <2>5, <2>6, <2>7, <2>8
<1>3. QED
  BY <1>1, <1>2


\* What FilterEMail() leaves as it is, the message that is sent but for.
PopServes(s, u) ==
  /\ u \in PopSessions
  /\ u.mode = s.mode /\ u.filter = s.filter /\ u.spamd = s.spamd /\ u.mail = s.mail
  /\ u.got = s.got \/ u.got \in PopMessages(s.mail, s.spamd) \/ "long" \in u.causes
  /\ s.causes \subseteq u.causes

\* What answers a command serves it.
LEMMA PopServesKeeps ==
  ASSUME NEW s, NEW t, NEW u, PopKeeps(s, t), PopKeeps(t, u) \/ PopServes(t, u)
  PROVE  PopServes(s, u)
BY Zenon DEF PopServes, PopKeeps

\* Delivered(): one reply, the message.
LEMMA PopDelivered ==
  ASSUME NEW s \in PopSessions, s.mail \in Seq(Nat), s.mail # <<>>, NEW u \in Pop!Delivered(s)
  PROVE  PopServes(s, u) /\ u.due = s.due - 1 /\ u.owed = s.owed
<1> PICK m \in Seq(Nat) : m = s.mail /\ m # <<>>
  OBVIOUS
<1> PICK d \in BOOLEAN : d = s.spamd
  BY DEF PopSessions
<1>1. PICK f \in Pop!Filtered(Pop!FetchMail(Pop!Stuff(m)), d) :
        u = Pop!Reply([s EXCEPT !.got = Pop!SendMessage(f)])
  BY Zenon DEF Pop!Delivered
<1> PICK g : g = Pop!SendMessage(f)
  OBVIOUS
<1>2. g \in PopMessages(m, d)
  BY <1>1 DEF PopMessages
<1>3. g \in Seq(Int)
  <2>1. PICK h \in Seq(Nat) : h # <<>> /\ g = Pop!SendMessage(h)
    BY <1>2, PopFiltered
  <2>2. Tail(Pop!Stuff(h)) \in Seq(Int) /\ g = Tail(Pop!Stuff(h)) \o <<0, -1>>
    BY <2>1, PopSentEnds
  <2>3. QED
    BY <2>2, TwoMore
<1> PICK t : t = [s EXCEPT !.got = g]
  OBVIOUS
<1>4. t \in PopSessions
  BY <1>3 DEF PopSessions
<1>5. /\ t.got = g /\ t.due = s.due /\ t.owed = s.owed /\ t.mode = s.mode /\ t.mail = s.mail
      /\ t.causes = s.causes
  BY DEF PopSessions
<1>6. t.filter = s.filter /\ t.spamd = s.spamd
  BY Zenon DEF PopSessions
<1>7. u = Pop!Reply(t)
  BY <1>1
<1>8. PopKeeps(t, u) /\ u.due = t.due - 1 /\ u.owed = t.owed
  BY <1>4, <1>7, PopReply
<1>9. PopServes(s, u)
  <2>1. u \in PopSessions /\ u.mode = s.mode /\ u.mail = s.mail /\ u.got = g
    BY <1>5, <1>8, Zenon DEF PopKeeps
  <2>2. u.filter = s.filter /\ u.spamd = s.spamd
    BY <1>6, <1>8, Zenon DEF PopKeeps
  <2>3. s.causes \subseteq u.causes
    BY <1>5, <1>8, Zenon DEF PopKeeps
  <2>4. g \in PopMessages(s.mail, s.spamd)
    BY <1>2, Zenon
  <2>5. QED
    BY <2>1, <2>2, <2>3, <2>4, Zenon DEF PopServes
<1>10. QED
  BY <1>5, <1>8, <1>9

\* A message that is not empty, as it is sent on.
LEMMA PopSentOf ==
  ASSUME NEW p \in Seq(Nat), p # <<>>, NEW d \in BOOLEAN,
         NEW f \in Pop!Filtered(Pop!FetchMail(p), d)
  PROVE  Pop!SendMessage(f) \in Seq(Int)
<1> PICK n \in Nat : n = Len(p)
  OBVIOUS
<1> PICK x : x = Pop!FetchMail(p)
  OBVIOUS
<1>1. x = [i \in 1..n |-> IF p[i] > 0 THEN p[i] - 1 ELSE 0]
  BY DEF Pop!FetchMail, Pop!Unstuff
<1>2. p \in [1..n -> Nat]
  OBVIOUS
<1>3. x \in [1..n -> Nat]
  BY <1>1, <1>2
<1>4. x \in Seq(Nat) /\ Len(x) = n
  BY <1>3
<1>5. n # 0 /\ x # <<>>
  BY <1>4, EmptySeq
<1>6. f = x \/ f = Pop!Stuff(x)
  BY DEF Pop!Filtered, Pop!SpamdReply
<1>7. f \in Seq(Nat) /\ f # <<>>
  BY <1>4, <1>5, <1>6, PopLines
<1> PICK g : g = Pop!SendMessage(f)
  OBVIOUS
<1>8. Tail(Pop!Stuff(f)) \in Seq(Int) /\ g = Tail(Pop!Stuff(f)) \o <<0, -1>>
  BY <1>7, PopSentEnds
<1>9. QED
  BY <1>8, TwoMore

\* Mangled(): one reply, and the message that is sent is any.
LEMMA PopMangled ==
  ASSUME NEW s \in PopSessions, NEW P, \A p \in P : p \in Seq(Nat) /\ p # <<>>,
         NEW u \in Pop!Mangled(s, P)
  PROVE  PopServes(s, u) /\ "long" \in u.causes
<1> PICK d \in BOOLEAN : d = s.spamd
  BY DEF PopSessions
<1>1. PICK p \in P : \E f \in Pop!Filtered(Pop!FetchMail(p), d) :
        u = Pop!Cause(Pop!Reply([s EXCEPT !.got = Pop!SendMessage(f)]), "long")
  BY Zenon DEF Pop!Mangled
<1>2. PICK f \in Pop!Filtered(Pop!FetchMail(p), d) :
        u = Pop!Cause(Pop!Reply([s EXCEPT !.got = Pop!SendMessage(f)]), "long")
  BY <1>1
<1> PICK g : g = Pop!SendMessage(f)
  OBVIOUS
<1>3. g \in Seq(Int)
  BY PopSentOf
<1> PICK t : t = [s EXCEPT !.got = g]
  OBVIOUS
<1>4. t \in PopSessions
  BY <1>3 DEF PopSessions
<1>5. t.mode = s.mode /\ t.mail = s.mail /\ t.causes = s.causes
  BY DEF PopSessions
<1>6. t.filter = s.filter /\ t.spamd = s.spamd
  BY Zenon DEF PopSessions
<1> PICK v : v = Pop!Reply(t)
  OBVIOUS
<1>7. PopKeeps(t, v) /\ v \in PopSessions
  BY <1>4, PopReply DEF PopKeeps
<1>8. u = Pop!Cause(v, "long")
  BY <1>2
<1>9. PopKeeps(v, u) /\ "long" \in u.causes
  BY <1>7, <1>8, PopCause, PopNames
<1>10. PopKeeps(t, u)
  BY <1>7, <1>9, PopKeepsTwice
<1>11. PopServes(s, u)
  BY <1>5, <1>6, <1>9, <1>10, Zenon DEF PopServes, PopKeeps
<1>12. QED
  BY <1>9, <1>11

\* A line between others.
LEMMA PopPiece ==
  ASSUME NEW a \in Seq(Nat), NEW b \in Seq(Nat), NEW q \in Seq(Nat), Len(q) = 1
  PROVE  (a \o q) \o b \in Seq(Nat) /\ (a \o q) \o b # <<>>
<1> PICK j \in Nat : j = Len(a)
  OBVIOUS
<1> PICK k \in Nat : k = Len(b)
  OBVIOUS
<1>1. a \o q \in Seq(Nat) /\ Len(a \o q) = Len(a) + Len(q)
  BY ConcatProperties
<1> PICK c \in Seq(Nat) : c = a \o q /\ Len(c) = j + 1
  BY <1>1
<1>2. c \o b \in Seq(Nat) /\ Len(c \o b) = Len(c) + Len(b)
  BY ConcatProperties
<1> PICK e : e = c \o b
  OBVIOUS
<1>3. e \in Seq(Nat) /\ Len(e) = j + 1 + k
  BY <1>2
<1>4. Len(e) # 0
  BY <1>3
<1>5. e # <<>>
  BY <1>3, <1>4, EmptySeq
<1>6. QED
  BY <1>3, <1>5

\* The lines as they are read, one of them in two parts, or as far as one of them.
LEMMA PopParts ==
  ASSUME NEW m \in Seq(Nat), m # <<>>,
         NEW p \in Pop!Pieces(Pop!Stuff(m)) \cup Pop!Begins(Pop!Stuff(m))
  PROVE  p \in Seq(Nat) /\ p # <<>>
<1> PICK x \in Seq(Nat) : x = Pop!Stuff(m)
  BY PopLines
<1> PICK l \in Nat : l = Len(x)
  OBVIOUS
<1>0. \A j \in 1..l : x[j] \in Nat
  OBVIOUS
<1>1. ASSUME NEW i \in 1..Len(x)
      PROVE  /\ SubSeq(x, 1, i) \in Seq(Nat) /\ Len(SubSeq(x, 1, i)) = i
             /\ SubSeq(x, i + 1, Len(x)) \in Seq(Nat)
  <2>1. i \in Int /\ i >= 1 /\ i <= l
    OBVIOUS
  <2>2. \A j \in 1..i : x[j] \in Nat
    BY <1>0, <2>1
  <2>3. \A j \in (i + 1)..l : x[j] \in Nat
    BY <1>0, <2>1
  <2>4. SubSeq(x, 1, i) \in Seq(Nat)
    BY <2>1, <2>2, SubSeqProperties
  <2>5. Len(SubSeq(x, 1, i)) = IF 1 <= i THEN i - 1 + 1 ELSE 0
    BY <2>1, <2>2, SubSeqProperties
  <2>6. SubSeq(x, i + 1, l) \in Seq(Nat)
    BY <2>1, <2>3, SubSeqProperties
  <2>7. QED
    BY <2>1, <2>4, <2>5, <2>6
<1>2. ASSUME NEW i \in 1..Len(x), NEW d \in {0, 1},
             p = SubSeq(x, 1, i) \o <<d>> \o SubSeq(x, i + 1, Len(x))
      PROVE  p \in Seq(Nat) /\ p # <<>>
  <2> PICK a \in Seq(Nat) : a = SubSeq(x, 1, i)
    BY <1>1
  <2> PICK b \in Seq(Nat) : b = SubSeq(x, i + 1, Len(x))
    BY <1>1
  <2>1. p = (a \o <<d>>) \o b
    BY <1>2
  <2>2. <<d>> \in Seq(Nat) /\ Len(<<d>>) = 1
    OBVIOUS
  <2> PICK q : q = <<d>>
    OBVIOUS
  <2>3. q \in Seq(Nat) /\ Len(q) = 1 /\ p = (a \o q) \o b
    BY <2>1, <2>2, Zenon
  <2>4. QED
    BY <2>3, PopPiece
<1>3. ASSUME NEW i \in 1..Len(x), p = SubSeq(x, 1, i)
      PROVE  p \in Seq(Nat) /\ p # <<>>
  <2>1. p \in Seq(Nat) /\ Len(p) = i
    BY <1>1, <1>3
  <2>2. i # 0
    OBVIOUS
  <2>3. QED
    BY <2>1, <2>2, EmptySeq
<1>4. \/ \E i \in 1..Len(x), d \in {0, 1} :
           p = SubSeq(x, 1, i) \o <<d>> \o SubSeq(x, i + 1, Len(x))
      \/ \E i \in 1..Len(x) : p = SubSeq(x, 1, i)
  <2>1. p \in Pop!Pieces(x) \/ p \in Pop!Begins(x)
    OBVIOUS
  <2>2. CASE p \in Pop!Pieces(x)
    <3>1. PICK i \in 1..Len(x), d \in {0, 1} :
            p = SubSeq(x, 1, i) \o <<d>> \o SubSeq(x, i + 1, Len(x))
      BY <2>2, Zenon DEF Pop!Pieces
    <3>2. QED
      BY <3>1
  <2>3. CASE p \in Pop!Begins(x)
    BY <2>3, Zenon DEF Pop!Begins
  <2>4. QED
    BY <2>1, <2>2, <2>3
<1>5. QED
  BY <1>2, <1>3, <1>4

\* The message, after its first line: one reply, unless the server goes first.
LEMMA PopMessageRead ==
  ASSUME NEW s \in PopSessions, s.mail \in Seq(Nat), s.mail # <<>>, NEW u \in MessageRead(s)
  PROVE  /\ PopServes(s, u)
         /\ s.owed = <<"rest">> => PopAt(u, s.due - 1, <<>>)
<1>1. CASE ~(s.owed # <<>> /\ Head(s.owed) = "rest")
  <2>1. u = Pop!Cause(Pop!Reply([s EXCEPT !.owed = <<>>, !.srv = "gone"]), "cut")
    BY <1>1, Zenon DEF MessageRead
  <2>2. <<>> \in Seq(PopReplies)
    OBVIOUS
  <2> PICK x \in Seq(PopReplies) : x = <<>>
    BY <2>2
  <2> PICK t : t = [s EXCEPT !.owed = x, !.srv = "gone"]
    OBVIOUS
  <2>3. t \in PopSessions
    BY DEF PopSessions
  <2>4. PopKeeps(s, t)
    BY <2>3 DEF PopSessions, PopKeeps
  <2> PICK v : v = Pop!Reply(t)
    OBVIOUS
  <2>5. PopKeeps(t, v) /\ v \in PopSessions
    BY <2>3, PopReply DEF PopKeeps
  <2>6. u = Pop!Cause(v, "cut")
    BY <2>1
  <2>7. PopKeeps(v, u) /\ "cut" \in u.causes
    BY <2>5, <2>6, PopCause, PopNames
  <2>8. PopKeeps(s, u)
    BY <2>4, <2>5, <2>7, PopKeepsTwice
  <2>9. u.causes \cap PopOut # {}
    BY <2>7, PopNames
  <2>10. PopKeeps(u, u)
    BY <2>8 DEF PopKeeps
  <2>11. PopServes(s, u)
    BY <2>8, <2>10, PopServesKeeps
  <2>12. QED
    BY <2>9, <2>11 DEF PopAt
<1>2. CASE s.owed # <<>> /\ Head(s.owed) = "rest"
  <2>1. \/ u \in Pop!Mangled(s, Pop!Begins(Pop!Stuff(s.mail)))
        \/ \E v \in Pop!AfterDot(s) :
              u \in (IF v.srv = "gone" THEN {Pop!Reply(v)}
                     ELSE Pop!Delivered(v) \cup Pop!Mangled(v, Pop!Pieces(Pop!Stuff(v.mail))))
    BY <1>2, Zenon DEF MessageRead
  <2>2. ASSUME NEW v \in PopSessions, PopKeeps(s, v),
               NEW P \in {Pop!Begins(Pop!Stuff(s.mail)), Pop!Pieces(Pop!Stuff(s.mail))},
               u \in Pop!Mangled(v, P)
        PROVE  PopServes(s, u) /\ PopAt(u, s.due - 1, <<>>)
    <3>1. \A p \in P : p \in Seq(Nat) /\ p # <<>>
      BY PopParts
    <3>2. PopServes(v, u) /\ "long" \in u.causes
      BY <2>2, <3>1, PopMangled
    <3>3. QED
      BY <2>2, <3>2, PopServesKeeps, PopNames DEF PopAt
  <2>3. CASE u \in Pop!Mangled(s, Pop!Begins(Pop!Stuff(s.mail)))
    <3>1. PopKeeps(s, s)
      BY DEF PopKeeps
    <3>2. QED
      BY <2>2, <2>3, <3>1
  <2>4. ASSUME NEW v \in Pop!AfterDot(s),
               u \in (IF v.srv = "gone" THEN {Pop!Reply(v)}
                      ELSE Pop!Delivered(v) \cup Pop!Mangled(v, Pop!Pieces(Pop!Stuff(v.mail))))
        PROVE  PopServes(s, u) /\ (s.owed = <<"rest">> => PopAt(u, s.due - 1, <<>>))
    <3>1. PopKeeps(s, v) /\ v.due = s.due /\ (v.owed = Tail(s.owed) \/ "cut" \in v.causes)
      BY <1>2, PopAfterDot
    <3>2. v \in PopSessions /\ v.mail = s.mail
      BY <3>1 DEF PopKeeps
    <3>3. CASE u \in Pop!Mangled(v, Pop!Pieces(Pop!Stuff(v.mail)))
      BY <2>2, <3>1, <3>2, <3>3
    <3>4. CASE u = Pop!Reply(v) \/ u \in Pop!Delivered(v)
      <4>1. (PopKeeps(v, u) \/ PopServes(v, u)) /\ u.due = v.due - 1 /\ u.owed = v.owed
        BY <3>2, <3>4, PopReply, PopDelivered
      <4>2. PopServes(s, u)
        BY <3>1, <4>1, PopServesKeeps
      <4>3. v.causes \subseteq u.causes
        BY <4>1 DEF PopKeeps, PopServes
      <4>4. s.owed = <<"rest">> => Tail(s.owed) = <<>>
        BY HeadOfOne
      <4>5. s.owed = <<"rest">> => PopAt(u, s.due - 1, <<>>)
        BY <3>1, <4>1, <4>3, <4>4, PopNames DEF PopAt
      <4>6. QED
        BY <4>2, <4>5
    <3>5. QED
      BY <2>4, <3>3, <3>4
  <2>5. QED
    BY <1>2, <2>1, <2>3, <2>4
<1>3. QED
  BY <1>1, <1>2


\* FilterEMail() gives one reply too.
PopDoes(s, u) == PopServes(s, u) /\ (PopAt(s, 1, <<>>) => PopAt(u, 0, <<>>))

\* So does what it ends with.
LEMMA PopDoesAfter ==
  ASSUME NEW s, NEW t, NEW u, PopKeeps(s, t), PopAt(s, 1, <<>>) => PopAt(t, 1, <<>>),
         PopAnswers(t, u) \/ PopDoes(t, u)
  PROVE  PopDoes(s, u)
<1>1. CASE PopAnswers(t, u)
  BY <1>1, PopServesKeeps, Zenon DEF PopDoes, PopAnswers
<1>2. CASE PopDoes(t, u)
  BY <1>2, PopServesKeeps, Zenon DEF PopDoes
<1>3. QED
  BY <1>1, <1>2

\* The server's answers to the two commands that FilterEMail() sends.
LEMMA PopAnswersTo ==
  Pop!Answers("RETR") = {"multi", "err"} /\ ListAnswers = {"ok", "err"}
BY Zenon DEF Pop!Answers, ListAnswers

\* The line after a command, from a session in step.
LEMMA PopAsked ==
  ASSUME NEW s \in PopSessions, NEW R, R \subseteq PopReplies,
         NEW b \in Pop!Send(s, R), NEW l \in LineRead(b)
  PROVE  /\ PopKeeps(s, l[2]) /\ l[2].due = s.due
         /\ s.owed = <<>> =>
              \/ ~l[1] /\ l[2].owed = <<>>
              \/ "ok" \in R /\ l[1] /\ l[2].owed = <<>>
              \/ "multi" \in R /\ l[1] /\ l[2].owed = <<"rest">>
              \/ "rest" \in R
<1>1. /\ PopKeeps(s, b) /\ b.due = s.due
      /\ (\E r \in R : b.owed = Append(s.owed, r)) \/ b = s
  BY PopSend
<1>2. b \in PopSessions
  BY <1>1 DEF PopKeeps
<1>3. /\ PopKeeps(b, l[2]) /\ l[2].due = b.due
      /\ b.owed = <<>> => ~l[1] /\ l[2].owed = <<>>
      /\ b.owed = <<"ok">> => l[1] /\ l[2].owed = <<>>
      /\ b.owed = <<"err">> => ~l[1] /\ l[2].owed = <<>>
      /\ b.owed = <<"multi">> => l[1] /\ l[2].owed = <<"rest">>
  BY <1>2, PopLineRead
<1>4. PopKeeps(s, l[2])
  BY <1>1, <1>3, PopKeepsTwice
<1>5. ASSUME s.owed = <<>>, NEW r \in R, b.owed = Append(s.owed, r)
      PROVE  b.owed = <<r>> /\ r \in {"ok", "err", "multi", "rest"}
  BY <1>5 DEF PopReplies
<1>6. QED
  BY <1>1, <1>3, <1>4, <1>5

\* What RETR leads to: one reply.
LEMMA PopRetrieved ==
  ASSUME NEW s \in PopSessions, s.mail \in Seq(Nat), s.mail # <<>>, NEW u \in Retrieved(s)
  PROVE  PopDoes(s, u)
<1> PICK R : R = Pop!Answers("RETR")
  OBVIOUS
<1>1. R = {"multi", "err"} /\ R \subseteq PopReplies
  BY PopAnswersTo, PopAnswersAre, Zenon
<1>0. PICK b \in Pop!Send(s, R) : \E l \in LineRead(b) :
         u \in (IF l[1] THEN MessageRead(l[2]) ELSE {Pop!Reply(l[2])})
  <2> DEFINE S == UNION {LineRead(v) : v \in Pop!Send(s, R)}
             V(l) == IF l[1] THEN MessageRead(l[2]) ELSE {Pop!Reply(l[2])}
  <2>1. u \in UNION {V(l) : l \in S}
    BY Zenon DEF Retrieved
  <2> HIDE DEF V
  <2>2. \E l \in S : u \in V(l)
    BY <2>1, Zenon
  <2>3. QED
    BY <2>2, Zenon DEF V
<1>2. PICK l \in LineRead(b) :
        u \in (IF l[1] THEN MessageRead(l[2]) ELSE {Pop!Reply(l[2])})
  BY <1>0
<1> PICK t : t = l[2]
  OBVIOUS
<1>3. /\ PopKeeps(s, t) /\ t.due = s.due
      /\ s.owed = <<>> => \/ ~l[1] /\ t.owed = <<>>
                          \/ l[1] /\ t.owed = <<"rest">>
  BY <1>1, PopAsked
<1>4. t \in PopSessions /\ t.mail = s.mail
  BY <1>3 DEF PopKeeps
<1>5. /\ PopServes(s, u)
      /\ l[1] /\ t.owed = <<"rest">> => PopAt(u, t.due - 1, <<>>)
      /\ ~l[1] => u.owed = t.owed /\ u.due = t.due - 1
  <2>1. CASE l[1]
    <3>1. u \in MessageRead(t)
      BY <1>2, <2>1
    <3>2. PopServes(t, u) /\ (t.owed = <<"rest">> => PopAt(u, t.due - 1, <<>>))
      BY <1>4, <3>1, PopMessageRead
    <3>3. QED
      BY <1>3, <2>1, <3>2, PopServesKeeps
  <2>2. CASE ~l[1]
    <3>1. u = Pop!Reply(t)
      BY <1>2, <2>2
    <3>2. PopKeeps(t, u) /\ u.owed = t.owed /\ u.due = t.due - 1
      BY <1>4, <3>1, PopReply
    <3>3. QED
      BY <1>3, <2>2, <3>2, PopServesKeeps
  <2>3. QED
    BY <2>1, <2>2
<1>6. CASE s.causes \cap PopOut # {}
  <2>1. u.causes \cap PopOut # {}
    BY <1>5, <1>6 DEF PopServes
  <2>2. QED
    BY <1>5, <2>1 DEF PopDoes, PopAt
<1>7. CASE s.causes \cap PopOut = {}
  <2> SUFFICES ASSUME s.due = 1, s.owed = <<>>
               PROVE  PopAt(u, 0, <<>>)
    BY <1>5, <1>7 DEF PopDoes, PopAt
  <2>1. t.due - 1 = 0
    BY <1>3
  <2>2. CASE ~l[1] /\ t.owed = <<>>
    BY <1>5, <2>1, <2>2 DEF PopAt
  <2>3. CASE l[1] /\ t.owed = <<"rest">>
    BY <1>5, <2>1, <2>3
  <2>4. QED
    BY <1>3, <2>2, <2>3
<1>8. QED
  BY <1>6, <1>7

\* FilterEMail(): it ends the process when there is no server, and else gives one reply.
LEMMA PopFilterEMail ==
  ASSUME NEW s \in PopSessions, s.mail \in Seq(Nat), s.mail # <<>>, NEW u \in Pop!FilterEMail(s)
  PROVE  \/ /\ u \in PopSessions /\ u.mode = "crashed" /\ u.srv = "none"
            /\ u.filter = s.filter /\ u.spamd = s.spamd /\ u.mail = s.mail /\ u.got = s.got
         \/ PopDoes(s, u)
<1>1. CASE s.srv = "none"
  <2> PICK t : t = [s EXCEPT !.mode = "crashed"]
    OBVIOUS
  <2>1. /\ t \in PopSessions /\ t.mode = "crashed" /\ t.srv = "none"
        /\ t.mail = s.mail /\ t.got = s.got
    BY <1>1 DEF PopSessions
  <2>2. t.filter = s.filter /\ t.spamd = s.spamd
    BY Zenon DEF PopSessions
  <2> PICK x \in PopCauses : x = "no server"
    BY Zenon DEF PopCauses
  <2>3. u = Pop!Cause(t, x)
    BY <1>1, PopFilterEMailIs, Zenon
  <2>4. PopKeeps(t, u) /\ u.srv = t.srv /\ u.mode = t.mode
    BY <2>1, <2>3, PopCause, Zenon
  <2>5. QED
    BY <2>1, <2>2, <2>4, Zenon DEF PopKeeps
<1>2. CASE s.srv # "none"
  <2> PICK R : R = ListAnswers
    OBVIOUS
  <2>1. R = {"ok", "err"} /\ R \subseteq PopReplies
    BY PopAnswersTo DEF PopReplies
  <2>0. PICK b \in Pop!Send(s, R) : \E l \in LineRead(b) :
          u \in (IF l[1] THEN Retrieved(l[2]) \cup Pop!ForwardCmd(l[2], "RETR")
                 ELSE Pop!ForwardCmd(l[2], "RETR"))
    <3> DEFINE S == UNION {LineRead(v) : v \in Pop!Send(s, R)}
               V(l) == IF l[1] THEN Retrieved(l[2]) \cup Pop!ForwardCmd(l[2], "RETR")
                       ELSE Pop!ForwardCmd(l[2], "RETR")
    <3>1. u \in UNION {V(l) : l \in S}
      BY <1>2, PopFilterEMailIs, Zenon
    <3> HIDE DEF V
    <3>2. \E l \in S : u \in V(l)
      BY <3>1, Zenon
    <3>3. QED
      BY <3>2, Zenon DEF V
  <2>2. PICK l \in LineRead(b) :
          u \in (IF l[1] THEN Retrieved(l[2]) \cup Pop!ForwardCmd(l[2], "RETR")
                 ELSE Pop!ForwardCmd(l[2], "RETR"))
    BY <2>0
  <2> PICK t : t = l[2]
    OBVIOUS
  <2>3. /\ PopKeeps(s, t) /\ t.due = s.due
        /\ s.owed = <<>> => t.owed = <<>>
    BY <2>1, PopAsked
  <2>4. t \in PopSessions /\ t.mail = s.mail
    BY <2>3 DEF PopKeeps
  <2>5. u \in Retrieved(t) \/ u \in Pop!ForwardCmd(t, "RETR")
    BY <2>2
  <2>6. PopDoes(t, u) \/ PopAnswers(t, u)
    BY <2>4, <2>5, PopRetrieved, PopForwardCmd
  <2>7. PopAt(s, 1, <<>>) => PopAt(t, 1, <<>>)
    BY <2>3, PopStaysOut DEF PopAt
  <2>8. QED
    BY <2>3, <2>6, <2>7, PopDoesAfter
<1>3. QED
  BY <1>1, <1>2


\* The invariant: a session has a message, is in step between commands, has got the
\* message if it has got anything, and ends in a crash for one reason only.
PopOk(s) ==
  /\ s \in PopSessions
  /\ s.mode # "idle" => s.mail \in Mails
  /\ s.mode = "serving" => PopAt(s, 0, <<>>)
  /\ s.got # <<>> => s.mail \in Mails
  /\ s.got # <<>> => s.got \in PopMessages(s.mail, s.spamd) \/ "long" \in s.causes
  /\ s.mode = "crashed" => s.srv = "none" /\ (s.filter \/ s.spamd)

PopInv == PopOk(pop)

\* The messages are sequences of numbers.
LEMMA PopMails == ASSUME NEW m \in Mails PROVE m \in Seq(Nat) /\ m # <<>>
<1>1. m \in Seq(Nat) /\ Len(m) > 0
  BY SessionsAssumption DEF Pop!Pop3Assumption
<1>2. QED
  BY <1>1, EmptySeq

\* No session.
LEMMA PopNone == PopOk(Pop!NoSession)
<1> PICK s : s = Pop!NoSession
  OBVIOUS
<1>1. \A S : <<>> \in Seq(S)
  BY EmptySeq
<1> PICK e : e = <<>>
  OBVIOUS
<1>2. s = [mode |-> "idle", flags |-> {}, filter |-> FALSE, spamd |-> FALSE,
           here |-> FALSE, srv |-> "none", owed |-> e, due |-> 0, mail |-> e,
           got |-> e, causes |-> {}, n |-> 0]
  BY DEF Pop!NoSession
<1>3. e \in Seq(PopReplies) /\ e \in Seq(Nat) /\ e \in Seq(Int)
  BY <1>1
<1>4. s \in PopSessions
  BY <1>2, <1>3 DEF PopSessions
<1>5. s.mode = "idle" /\ s.got = e
  BY <1>2
<1>6. QED
  BY <1>4, <1>5 DEF PopOk

\* A session that has begun or been given a command, when that is answered.
LEMMA PopAnswered ==
  ASSUME NEW s \in PopSessions, s.mode = "serving", s.mail \in Mails, PopAt(s, 1, <<>>),
         s.got = <<>>, NEW u, PopAnswers(s, u) \/ PopDoes(s, u)
  PROVE  PopOk(u)
<1>1. PopDoes(s, u)
  <2>1. PopKeeps(s, s)
    BY DEF PopKeeps
  <2>2. QED
    BY <2>1, PopDoesAfter
<1>2. PopServes(s, u) /\ PopAt(u, 0, <<>>)
  BY <1>1 DEF PopDoes
<1>3. /\ u \in PopSessions /\ u.mode = "serving" /\ u.mail \in Mails
      /\ u.got # <<>> => u.got \in PopMessages(u.mail, u.spamd) \/ "long" \in u.causes
  BY <1>2, Zenon DEF PopServes
<1>4. u.mode # "crashed"
  BY <1>3
<1>5. QED
  BY <1>2, <1>3, <1>4 DEF PopOk

\* A session that Dispatch() begins.
MessageBegun(m, f, d) ==
  [Pop!NoSession EXCEPT !.mode = "serving", !.flags = {"CONNECTED"}, !.here = TRUE,
                        !.due = 1, !.mail = m, !.filter = f, !.spamd = d]

\* The user is owed the greeting.
LEMMA PopBegun ==
  ASSUME NEW m \in Mails, NEW f \in BOOLEAN, NEW d \in BOOLEAN, NEW s, s = MessageBegun(m, f, d)
  PROVE  /\ s \in PopSessions /\ s.mode = "serving" /\ s.mail = m /\ s.due = 1
         /\ s.owed = <<>> /\ s.got = <<>>
<1> PICK e : e = <<>>
  OBVIOUS
<1>1. e \in Seq(PopReplies) /\ m \in Seq(Nat) /\ e \in Seq(Int)
  BY EmptySeq, PopMails
<1>2. s = [mode |-> "serving", flags |-> {"CONNECTED"}, filter |-> f, spamd |-> d,
           here |-> TRUE, srv |-> "none", owed |-> e, due |-> 1, mail |-> m,
           got |-> e, causes |-> {}, n |-> 0]
  BY DEF MessageBegun, Pop!NoSession
<1>3. s \in PopSessions
  BY <1>1, <1>2, SMTT(20) DEF PopSessions
<1>4. /\ s.mode = "serving" /\ s.mail = m /\ s.due = 1 /\ s.owed = e /\ s.got = e
  BY <1>2
<1>5. QED
  BY <1>3, <1>4

\* Dispatch() begins a session: one greeting, whoever gives it.
LEMMA PopBegin == PopInv /\ Pop!Begin => PopInv'
<1> SUFFICES ASSUME PopInv, Pop!Begin
             PROVE  PopOk(pop')
  BY DEF PopInv
<1>1. PICK m \in Mails, f \in BOOLEAN, d \in BOOLEAN :
        LET s == [Pop!NoSession EXCEPT !.mode = "serving", !.flags = {"CONNECTED"},
                                       !.here = TRUE, !.due = 1, !.mail = m,
                                       !.filter = f, !.spamd = d]
            to == {[t EXCEPT !.flags = @ \cup {"TRANSPARENT"}] : t \in Pop!DoConnect(s)}
        IN pop' \in {Pop!Reply(s)} \cup
                  UNION {Pop!ForwardReply(IF t.srv = "up" THEN t
                                          ELSE Pop!Cause(t, "refused"), FALSE)
                         : t \in UNION {Pop!Send(t, {"ok", "err"}) : t \in to}}
  BY Zenon DEF Pop!Begin
<1> PICK s : s = MessageBegun(m, f, d)
  OBVIOUS
<1> PICK R : R = {"ok", "err"}
  OBVIOUS
<1>2. /\ s \in PopSessions /\ s.mode = "serving" /\ s.mail = m /\ s.due = 1 /\ s.owed = <<>>
      /\ s.got = <<>>
  BY PopBegun
<1>3. PopAt(s, 1, <<>>)
  BY <1>2 DEF PopAt
<1>4. \/ pop' = Pop!Reply(s)
      \/ \E t \in Pop!DoConnect(s) :
           \E v \in Pop!Send(Flagged(t, t.flags \cup {"TRANSPARENT"}), R) :
             pop' \in Pop!ForwardReply(IF v.srv = "up" THEN v
                                       ELSE Pop!Cause(v, "refused"), FALSE)
  <2> DEFINE to == {Flagged(t, t.flags \cup {"TRANSPARENT"}) : t \in Pop!DoConnect(s)}
             S == UNION {Pop!Send(t, R) : t \in to}
             W(v) == Pop!ForwardReply(IF v.srv = "up" THEN v ELSE Pop!Cause(v, "refused"), FALSE)
  <2>1. pop' \in {Pop!Reply(s)} \cup UNION {W(v) : v \in S}
    BY <1>1, ZenonT(40) DEF Flagged, MessageBegun
  <2> HIDE DEF W
  <2>2. pop' = Pop!Reply(s) \/ \E v \in S : pop' \in W(v)
    BY <2>1, Zenon
  <2>3. ASSUME NEW v \in S
        PROVE  \E t \in Pop!DoConnect(s) : v \in Pop!Send(Flagged(t, t.flags \cup {"TRANSPARENT"}), R)
    BY <2>3, Zenon
  <2> HIDE DEF S
  <2>4. QED
    BY <2>2, <2>3, Zenon DEF W
<1>5. CASE pop' = Pop!Reply(s)
  <2>1. PopAnswers(s, pop')
    BY <1>2, <1>5, PopJustReply
  <2>2. QED
    BY <1>2, <1>3, <2>1, PopAnswered
<1>6. ASSUME NEW t \in Pop!DoConnect(s),
             NEW v \in Pop!Send(Flagged(t, t.flags \cup {"TRANSPARENT"}), R),
             pop' \in Pop!ForwardReply(IF v.srv = "up" THEN v ELSE Pop!Cause(v, "refused"), FALSE)
      PROVE  PopOk(pop')
  <2>1. PopKeeps(s, t) /\ t.owed = <<>> /\ (t.due = s.due \/ t.srv = "failed")
    BY <1>2, <1>6, PopDoConnect
  <2>2. t \in PopSessions
    BY <2>1 DEF PopKeeps
  <2> PICK g \in SUBSET {"CONNECTED", "ORIGIN", "TRANSPARENT"} :
           g = t.flags \cup {"TRANSPARENT"}
    BY <2>2 DEF PopSessions
  <2> PICK w : w = Flagged(t, g)
    OBVIOUS
  <2>3. PopKeeps(t, w) /\ w.due = t.due /\ w.owed = t.owed /\ w.srv = t.srv
    BY <2>2, PopFlagged
  <2>4. PopKeeps(s, w) /\ w \in PopSessions
    BY <2>1, <2>3, PopKeepsTwice DEF PopKeeps
  <2>5. R \subseteq PopReplies /\ R = (IF FALSE THEN {"multi", "err"} ELSE {"ok", "err"})
    BY DEF PopReplies
  <2>6. v \in Pop!Send(w, R)
    BY <1>6
  <2>7. PopKeeps(w, v) /\ v.due = w.due /\ v.srv = w.srv /\ (v.srv # "up" => v = w)
    BY <2>4, <2>5, <2>6, PopSend
  <2>8. CASE v.srv = "up"
    <3>1. pop' \in Pop!ForwardReply(v, FALSE)
      BY <1>6, <2>8
    <3>2. PopAnswers(w, pop')
      BY <2>4, <2>5, <2>6, <3>1, PopExchange
    <3>a. w.owed = <<>> /\ w.due = 1
      BY <1>2, <2>1, <2>3, <2>7, <2>8
    <3>3. PopAt(w, 1, <<>>)
      BY <3>a DEF PopAt
    <3>4. PopAnswers(s, pop')
      BY <2>4, <3>2, <3>3, PopAnswersAfter
    <3>5. QED
      BY <1>2, <1>3, <3>4, PopAnswered
  <2>9. CASE v.srv # "up"
    <3> PICK c : c = Pop!Cause(v, "refused")
      OBVIOUS
    <3>0. v = w /\ v \in PopSessions
      BY <2>4, <2>7, <2>9
    <3>a. PopKeeps(v, c) /\ "refused" \in c.causes
      BY <3>0, PopCause, PopNames
    <3>1. PopKeeps(w, c) /\ "refused" \in c.causes /\ c \in PopSessions
      BY <3>0, <3>a DEF PopKeeps
    <3>2. pop' \in Pop!ForwardReply(c, FALSE)
      BY <1>6, <2>9
    <3>3. PopKeeps(c, pop')
      BY <3>1, <3>2, PopForwardReply
    <3>4. PopKeeps(s, pop')
      BY <2>4, <3>1, <3>3, PopKeepsTwice
    <3>5. pop'.causes \cap PopOut # {}
      BY <3>1, <3>3, PopNames, PopStaysOut
    <3>6. PopAnswers(s, pop')
      BY <3>4, <3>5 DEF PopAnswers, PopAt
    <3>7. QED
      BY <1>2, <1>3, <3>6, PopAnswered
  <2>10. QED
    BY <2>8, <2>9
<1>7. QED
  BY <1>4, <1>5, <1>6


\* DispatchCmd(): one reply to each command, and a message that is the server's.
LEMMA PopDispatchCmd == PopInv /\ Pop!DispatchCmd => PopInv'
<1> SUFFICES ASSUME PopInv, Pop!DispatchCmd
             PROVE  PopOk(pop')
  BY DEF PopInv
<1> PICK s : s = [pop EXCEPT !.n = pop.n + 1, !.due = pop.due + 1, !.got = <<>>]
  OBVIOUS
<1>1. PICK cmd \in PopCommands :
        pop' \in IF cmd = "RETR" /\ (s.filter \/ s.spamd) THEN Pop!FilterEMail(s)
                ELSE Pop!ForwardCmd(s, cmd)
  BY Zenon DEF Pop!DispatchCmd
<1>2. /\ pop \in PopSessions /\ pop.mode = "serving" /\ pop.mail \in Mails
      /\ PopAt(pop, 0, <<>>)
  BY DEF PopInv, PopOk, Pop!DispatchCmd, Pop!Serving
<1>3. s \in PopSessions
  <2>1. <<>> \in Seq(Int)
    OBVIOUS
  <2> PICK e \in Seq(Int) : e = <<>>
    BY <2>1
  <2>2. pop.n + 1 \in Nat /\ pop.due + 1 \in Int
    BY <1>2 DEF PopSessions
  <2> PICK k \in Nat : k = pop.n + 1
    BY <2>2
  <2> PICK j \in Int : j = pop.due + 1
    BY <2>2
  <2>3. s = [pop EXCEPT !.n = k, !.due = j, !.got = e]
    OBVIOUS
  <2>4. QED
    BY <1>2, <2>3, ZenonT(40) DEF PopSessions
<1>4. /\ s.mode = "serving" /\ s.mail \in Mails /\ s.got = <<>> /\ s.due = pop.due + 1
      /\ s.owed = pop.owed /\ s.causes = pop.causes
  BY <1>2 DEF PopSessions
<1>5. PopAt(s, 1, <<>>)
  <2>1. pop.due = 0 => s.due = 1
    BY <1>4
  <2>2. QED
    BY <1>2, <1>4, <2>1 DEF PopAt
<1>6. CASE cmd = "RETR" /\ (s.filter \/ s.spamd)
  <2>1. pop' \in Pop!FilterEMail(s)
    BY <1>1, <1>6, Zenon
  <2>2. s.mail \in Seq(Nat) /\ s.mail # <<>>
    BY <1>4, PopMails
  <2>3. \/ /\ pop' \in PopSessions /\ pop'.mode = "crashed" /\ pop'.srv = "none"
           /\ pop'.filter = s.filter /\ pop'.spamd = s.spamd /\ pop'.mail = s.mail
           /\ pop'.got = s.got
        \/ PopDoes(s, pop')
    BY <1>3, <2>1, <2>2, PopFilterEMail
  <2>4. PopDoes(s, pop') => PopOk(pop')
    BY <1>3, <1>4, <1>5, PopAnswered
  <2>5. ASSUME pop' \in PopSessions, pop'.mode = "crashed", pop'.srv = "none",
               pop'.filter = s.filter, pop'.spamd = s.spamd, pop'.mail = s.mail,
               pop'.got = s.got
        PROVE  PopOk(pop')
    <3>1. pop'.filter \/ pop'.spamd
      BY <1>6, <2>5, Zenon
    <3>2. pop'.mode # "serving"
      BY <2>5
    <3>3. QED
      BY <1>4, <2>5, <3>1, <3>2, Zenon DEF PopOk
  <2>6. QED
    BY <2>3, <2>4, <2>5, Zenon
<1>7. CASE ~(cmd = "RETR" /\ (s.filter \/ s.spamd))
  <2>1. pop' \in Pop!ForwardCmd(s, cmd)
    BY <1>1, <1>7, Zenon
  <2>2. PopAnswers(s, pop')
    BY <1>3, <2>1, PopForwardCmd
  <2>3. QED
    BY <1>3, <1>4, <1>5, <2>2, PopAnswered
<1>8. QED
  BY <1>6, <1>7

\* The user or the server closes, or the session ends.
LEMMA PopOthers == PopInv /\ (Pop!UserGoes \/ Pop!ServerDrops \/ Pop!Leave) => PopInv'
<1> SUFFICES ASSUME PopInv, Pop!UserGoes \/ Pop!ServerDrops \/ Pop!Leave
             PROVE  PopOk(pop')
  BY DEF PopInv
<1>1. ASSUME NEW s \in PopSessions, s.mode = pop.mode, s.mail = pop.mail, s.due = pop.due,
             s.owed = pop.owed, s.causes = pop.causes, s.got = pop.got, s.spamd = pop.spamd,
             pop.mode = "serving"
      PROVE  PopOk(s)
  <2>1. PopAt(pop, 0, <<>>) /\ pop.mail \in Mails
    BY <1>1 DEF PopInv, PopOk
  <2>2. PopAt(s, 0, <<>>)
    BY <1>1, <2>1 DEF PopAt
  <2>3. s.got # <<>> => s.got \in PopMessages(s.mail, s.spamd) \/ "long" \in s.causes
    BY <1>1, Zenon DEF PopInv, PopOk
  <2>4. s.mode # "crashed"
    BY <1>1
  <2>5. QED
    BY <1>1, <2>1, <2>2, <2>3, <2>4 DEF PopOk
<1>2. pop \in PopSessions
  BY DEF PopInv, PopOk
<1>3. CASE Pop!UserGoes
  <2> PICK f \in SUBSET {"CONNECTED", "ORIGIN", "TRANSPARENT"} : f = pop.flags \ {"CONNECTED"}
    BY <1>2 DEF PopSessions
  <2>1. pop' = [pop EXCEPT !.here = FALSE, !.flags = f] /\ pop.mode = "serving"
    BY <1>3 DEF Pop!UserGoes, Pop!Serving
  <2>2. pop' \in PopSessions
    BY <1>2, <2>1 DEF PopSessions
  <2>3. /\ pop'.mode = pop.mode /\ pop'.mail = pop.mail /\ pop'.due = pop.due
        /\ pop'.owed = pop.owed /\ pop'.causes = pop.causes /\ pop'.got = pop.got
    BY <1>2, <2>1 DEF PopSessions
  <2>4. pop'.spamd = pop.spamd
    BY <1>2, <2>1, Zenon DEF PopSessions
  <2>5. QED
    BY <1>1, <2>1, <2>2, <2>3, <2>4
<1>4. CASE Pop!ServerDrops
  <2>1. pop' = [pop EXCEPT !.srv = "gone"] /\ pop.mode = "serving"
    BY <1>4 DEF Pop!ServerDrops, Pop!Serving
  <2>2. pop' \in PopSessions
    BY <1>2, <2>1 DEF PopSessions
  <2>3. /\ pop'.mode = pop.mode /\ pop'.mail = pop.mail /\ pop'.due = pop.due
        /\ pop'.owed = pop.owed /\ pop'.causes = pop.causes /\ pop'.got = pop.got
    BY <1>2, <2>1 DEF PopSessions
  <2>4. pop'.spamd = pop.spamd
    BY <1>2, <2>1, Zenon DEF PopSessions
  <2>5. QED
    BY <1>1, <2>1, <2>2, <2>3, <2>4
<1>5. CASE Pop!Leave
  BY <1>5, PopNone, Zenon DEF Pop!Leave
<1>6. QED
  BY <1>3, <1>4, <1>5

\* Every step of a session keeps the invariant, ...
LEMMA PopStep == PopInv /\ [Pop!Next]_pop => PopInv'
<1>1. PopInv /\ pop' = pop => PopInv'
  BY Zenon DEF PopInv
<1>2. QED
  BY <1>1, PopBegin, PopDispatchCmd, PopOthers DEF Pop!Next

\* ... which begins without a session.
LEMMA PopInit == Pop!Init => PopInv
BY PopNone DEF Pop!Init, PopInv

\* It says that replies are in step, that a message is kept and what a crash is due to.
LEMMA PopSound == PopInv => Pop!InStep /\ Pop!MailKept /\ Pop!CrashCaused
<1> SUFFICES ASSUME PopInv
             PROVE  Pop!InStep /\ Pop!MailKept /\ Pop!CrashCaused
  OBVIOUS
<1>1. Pop!InStep
  BY Zenon DEF PopInv, PopOk, PopAt, PopOut, Pop!InStep, Pop!Serving
<1>2. Pop!CrashCaused
  BY Zenon DEF PopInv, PopOk, Pop!CrashCaused
<1>3. Pop!MailKept
  <2> SUFFICES ASSUME pop.got # <<>>, "long" \notin pop.causes
               PROVE  LET m == SubSeq(pop.got, 1, Len(pop.got) - 2)
                      IN /\ pop.got[Len(pop.got)] = Pop!Dot
                         /\ pop.got[Len(pop.got) - 1] = 0
                         /\ \A i \in 1..Len(m) : m[i] \notin {Pop!Dot, 1}
                         /\ \/ Pop!Unstuff(m) = Tail(pop.mail)
                            \/ pop.spamd /\ Pop!Unstuff(m) = Tail(Pop!Stuff(pop.mail))
    BY Zenon DEF Pop!MailKept
  <2>1. /\ pop.mail \in Mails /\ pop.got \in PopMessages(pop.mail, pop.spamd)
        /\ pop \in PopSessions
    BY DEF PopInv, PopOk
  <2> PICK m \in Seq(Nat) : m = pop.mail /\ m # <<>>
    BY <2>1, PopMails
  <2> PICK d \in BOOLEAN : d = pop.spamd
    BY <2>1 DEF PopSessions
  <2> PICK g : g = pop.got
    OBVIOUS
  <2>2. PICK f \in Seq(Nat) : /\ f # <<>> /\ g = Pop!SendMessage(f)
                              /\ f = m \/ (d /\ f = Pop!Stuff(m))
    BY <2>1, PopFiltered
  <2> PICK w : w = Tail(Pop!Stuff(f))
    OBVIOUS
  <2>3. w \in Seq(Int) /\ g = w \o <<0, -1>>
    BY <2>2, PopSentEnds
  <2>4. /\ \A i \in 1..Len(w) : w[i] \notin {Pop!Dot, 1}
        /\ Pop!Unstuff(w) = Tail(f)
    BY <2>2, PopSent
  <2>5. /\ g \in Seq(Int) /\ Len(g) = Len(w) + 2 /\ g[Len(w) + 1] = 0 /\ g[Len(w) + 2] = -1
        /\ SubSeq(g, 1, Len(w)) = w
    BY <2>3, TwoMore
  <2>6. Len(g) - 2 = Len(w) /\ Len(g) - 1 = Len(w) + 1
    BY <2>3, <2>5
  <2>7. SubSeq(g, 1, Len(g) - 2) = w /\ g[Len(g)] = Pop!Dot /\ g[Len(g) - 1] = 0
    BY <2>5, <2>6 DEF Pop!Dot
  <2>8. \/ Pop!Unstuff(w) = Tail(m)
        \/ d /\ Pop!Unstuff(w) = Tail(Pop!Stuff(m))
    BY <2>2, <2>4, Zenon
  <2>9. QED
    BY <2>4, <2>7, <2>8, Zenon
<1>4. QED
  BY <1>1, <1>2, <1>3

-----------------------------------------------------------------------------
(* mod_ftp: a session and its phases *)

FtpReplies == {"200", "500", "220", "234", "230", "331", "221", "150", "125", "226", "425",
               "426", "multi"}

\* The ways in which a session leaves the protocol, and what they may lead to: replies that
\* are out of step, "226" for a transfer that is not whole, the end of the process.
FtpEpsv == {"epsv", "epsv all"}
FtpOverlap == {"125", "nested", "stale accept"}
FtpOut == {"greeting", "epsv", "epsv all", "abor", "multi", "gone", "125", "aborted",
           "nested", "unasked", "silence", "stale accept", "handshake"}
FtpFalse == {"cut", "early", "status", "125", "stale accept", "nested", "unasked"}
FtpFatal == {"pass", "auth", "epsv", "epsv all", "125", "nested", "stale accept", "no end",
             "early"}
FtpCauses == FtpOut \cup FtpFalse \cup FtpFatal \cup {"relogin"}

Truths == BOOLEAN
FtpModes == {"idle", "serving", "spinning", "crashed"}
FtpCalls == {"loop", "server", "client"}
FtpServers == {"none", "up", "gone"}
FtpServerEnds == {"null", "listening", "connected"}
FtpUserEnds == {"null", "listening", "connected", "broken", "dangling"}
FtpWays == {"no", "down", "up"}
FtpWorth == {"none", "running", "whole", "short"}

FtpSessions ==
  [mode : FtpModes, stack : Seq(FtpCalls), back : Truths, flags : SUBSET Ftp!Flags,
   cfg : SUBSET {"try", "require", "data"}, here : Truths, userfd : Truths,
   srv : FtpServers, tls : Truths, clear : Truths, owed : Seq(FtpReplies),
   sd : FtpServerEnds, ud : FtpUserEnds, xfer : FtpWays, left : Int, lost : Truths,
   due : Int, claim : FtpWorth, causes : SUBSET FtpCauses, n : Nat]

\* A session has left the protocol in one of the ways C.
Left(s, C) == s.causes \cap C # {}

NameOk(s) == {"try", "require"} \subseteq s.cfg => ~s.clear

\* What holds whatever the session is doing.
FtpBase(s) ==
  /\ s \in FtpSessions
  /\ s.mode = "serving" => s.stack # <<>> /\ s.stack[1] = "loop"
  /\ NameOk(s)
  /\ s.userfd \/ "auth" \in s.causes
  /\ s.lost => "early" \in s.causes \/ Left(s, FtpOverlap)
  /\ s.claim = "short" => Left(s, FtpFalse)
  /\ s.mode = "crashed" => Left(s, FtpFatal)

\* UserData is deleted and kept only by EPSV.
UserDataOk(s) == s.ud = "dangling" => Left(s, FtpEpsv)

\* k replies are owed to the user and none of the server's is unread.
StepAt(s, k) == (s.due = k /\ s.owed = <<>>) \/ Left(s, FtpOut)

Accepted(s) == "SERVER_ACCEPT" \in s.flags

\* The phases: no wait inside the loop's and no transfer, ...
Loops(s) == s.stack = <<"loop">> /\ s.claim # "running" /\ ~Accepted(s)

Resting(s) == Loops(s) /\ s.xfer = "no" /\ s.sd # "connected" /\ StepAt(s, 0)

\* ... a transfer, ...
Transfers(s) ==
  /\ s.stack = <<"loop">> /\ s.claim = "running" /\ s.xfer # "no"
  /\ s.sd = "connected" /\ s.ud = "connected" /\ ~Accepted(s)
  /\ StepAt(s, 1)

\* ... and a command that waits for the server's connection, or for the user's.
AwaitsServer(s) ==
  /\ s.stack = <<"loop", "server">> /\ s.claim # "running"
  /\ Accepted(s) => s.back /\ s.sd # "listening"
  /\ s.sd = "connected" => Accepted(s) /\ s.xfer # "no"
  /\ (s.due = 1 /\ (s.xfer # "no" => s.owed = <<>>)) \/ Left(s, FtpOut)

AwaitsClient(s) ==
  /\ s.stack = <<"loop", "client">> /\ s.claim # "running"
  /\ s.sd # "listening" /\ ~Accepted(s)
  /\ s.ud = "null" \/ (s.sd = "connected" /\ s.xfer # "no")
  /\ StepAt(s, 1)

\* The invariant: a session is in one of the phases, unless commands overlapped.
Phase(s) ==
  \/ Left(s, FtpOverlap)
  \/ Resting(s) \/ AwaitsServer(s) \/ AwaitsClient(s) \/ Transfers(s)

FtpOk(s) == FtpBase(s) /\ UserDataOk(s) /\ (s.mode = "serving" => Phase(s))

FtpInv == FtpOk(ftp)

\* Which way leads to what.
LEMMA FtpNames ==
  /\ FtpOverlap \subseteq FtpOut \cap FtpFalse \cap FtpFatal
  /\ FtpEpsv \subseteq FtpOut \cap FtpFatal
  /\ {"greeting", "abor", "multi", "gone", "125", "aborted", "nested", "unasked",
      "silence", "epsv", "handshake"} \subseteq FtpOut
  /\ {"cut", "early", "status", "unasked"} \subseteq FtpFalse
  /\ {"pass", "auth", "early"} \subseteq FtpFatal
  /\ {"125", "nested"} \subseteq FtpOverlap
  /\ "epsv" \in FtpEpsv
BY Zenon DEF FtpOverlap, FtpEpsv, FtpOut, FtpFalse, FtpFatal

\* All of them are causes.
LEMMA FtpNamed ==
  /\ FtpOut \subseteq FtpCauses /\ FtpFalse \subseteq FtpCauses /\ FtpFatal \subseteq FtpCauses
  /\ FtpEpsv \subseteq FtpCauses /\ FtpOverlap \subseteq FtpCauses
  /\ {"relogin", "greeting", "abor", "multi", "gone", "125", "aborted", "nested", "unasked",
      "silence", "epsv", "cut", "early", "status", "pass", "auth"} \subseteq FtpCauses
BY Zenon DEF FtpOverlap, FtpEpsv, FtpOut, FtpFalse, FtpFatal, FtpCauses

\* What the server has said and is.
Told(s, x, v) == [s EXCEPT !.owed = x, !.srv = v]

\* Nothing else differs.
LEMMA FtpTold ==
  ASSUME NEW s \in FtpSessions,
         NEW x \in Seq(FtpReplies),
         NEW v \in FtpServers,
         NEW u, u = Told(s, x, v)
  PROVE  /\ u \in FtpSessions
         /\ u.owed = x /\ u.srv = v
         /\ u.mode = s.mode /\ u.stack = s.stack /\ u.back = s.back
         /\ u.flags = s.flags /\ u.cfg = s.cfg /\ u.here = s.here
         /\ u.userfd = s.userfd /\ u.tls = s.tls /\ u.clear = s.clear /\ u.sd = s.sd
         /\ u.ud = s.ud /\ u.xfer = s.xfer /\ u.left = s.left /\ u.lost = s.lost
         /\ u.due = s.due /\ u.claim = s.claim /\ u.causes = s.causes /\ u.n = s.n
<1>1. u = [s EXCEPT !.owed = x, !.srv = v]
  BY Zenon DEF Told
<1>2. u \in FtpSessions
  BY <1>1, ZenonT(60) DEF FtpSessions
<1>3. u.owed = x /\ u.srv = v
  BY <1>1, ZenonT(60) DEF FtpSessions
<1>4. /\ u.mode = s.mode /\ u.stack = s.stack /\ u.back = s.back /\ u.flags = s.flags
      /\ u.cfg = s.cfg /\ u.here = s.here /\ u.userfd = s.userfd /\ u.tls = s.tls
      /\ u.clear = s.clear /\ u.sd = s.sd /\ u.ud = s.ud /\ u.xfer = s.xfer
      /\ u.left = s.left /\ u.lost = s.lost /\ u.due = s.due /\ u.claim = s.claim
      /\ u.causes = s.causes /\ u.n = s.n
  BY <1>1, ZenonT(60) DEF FtpSessions
<1>5. QED
  BY <1>2, <1>3, <1>4

\* What the user is owed.
Owed(s, d) == [s EXCEPT !.due = d]

\* Nothing else differs.
LEMMA FtpOwed ==
  ASSUME NEW s \in FtpSessions,
         NEW d \in Int,
         NEW u, u = Owed(s, d)
  PROVE  /\ u \in FtpSessions
         /\ u.due = d
         /\ u.mode = s.mode /\ u.stack = s.stack /\ u.back = s.back
         /\ u.flags = s.flags /\ u.cfg = s.cfg /\ u.here = s.here
         /\ u.userfd = s.userfd /\ u.srv = s.srv /\ u.tls = s.tls /\ u.clear = s.clear
         /\ u.owed = s.owed /\ u.sd = s.sd /\ u.ud = s.ud /\ u.xfer = s.xfer
         /\ u.left = s.left /\ u.lost = s.lost /\ u.claim = s.claim
         /\ u.causes = s.causes /\ u.n = s.n
<1>1. u = [s EXCEPT !.due = d]
  BY Zenon DEF Owed
<1>2. u \in FtpSessions
  BY <1>1, ZenonT(60) DEF FtpSessions
<1>3. u.due = d
  BY <1>1, ZenonT(60) DEF FtpSessions
<1>4. /\ u.mode = s.mode /\ u.stack = s.stack /\ u.back = s.back /\ u.flags = s.flags
      /\ u.cfg = s.cfg /\ u.here = s.here /\ u.userfd = s.userfd /\ u.srv = s.srv
      /\ u.tls = s.tls /\ u.clear = s.clear /\ u.owed = s.owed /\ u.sd = s.sd
      /\ u.ud = s.ud /\ u.xfer = s.xfer /\ u.left = s.left /\ u.lost = s.lost
      /\ u.claim = s.claim /\ u.causes = s.causes /\ u.n = s.n
  BY <1>1, ZenonT(60) DEF FtpSessions
<1>5. QED
  BY <1>2, <1>3, <1>4

\* The ways in which the protocol was left.
Blamed(s, c) == [s EXCEPT !.causes = c]

\* Nothing else differs.
LEMMA FtpBlamed ==
  ASSUME NEW s \in FtpSessions,
         NEW c \in SUBSET FtpCauses,
         NEW u, u = Blamed(s, c)
  PROVE  /\ u \in FtpSessions
         /\ u.causes = c
         /\ u.mode = s.mode /\ u.stack = s.stack /\ u.back = s.back
         /\ u.flags = s.flags /\ u.cfg = s.cfg /\ u.here = s.here
         /\ u.userfd = s.userfd /\ u.srv = s.srv /\ u.tls = s.tls /\ u.clear = s.clear
         /\ u.owed = s.owed /\ u.sd = s.sd /\ u.ud = s.ud /\ u.xfer = s.xfer
         /\ u.left = s.left /\ u.lost = s.lost /\ u.due = s.due /\ u.claim = s.claim
         /\ u.n = s.n
<1>1. u = [s EXCEPT !.causes = c]
  BY Zenon DEF Blamed
<1>2. u \in FtpSessions
  BY <1>1, ZenonT(60) DEF FtpSessions
<1>3. u.causes = c
  BY <1>1, ZenonT(60) DEF FtpSessions
<1>4. /\ u.mode = s.mode /\ u.stack = s.stack /\ u.back = s.back /\ u.flags = s.flags
      /\ u.cfg = s.cfg /\ u.here = s.here /\ u.userfd = s.userfd /\ u.srv = s.srv
      /\ u.tls = s.tls /\ u.clear = s.clear /\ u.owed = s.owed /\ u.sd = s.sd
      /\ u.ud = s.ud /\ u.xfer = s.xfer /\ u.left = s.left /\ u.lost = s.lost
      /\ u.due = s.due /\ u.claim = s.claim /\ u.n = s.n
  BY <1>1, ZenonT(60) DEF FtpSessions
<1>5. QED
  BY <1>2, <1>3, <1>4

\* Flags that are set or cleared.
Marked(s, f) == [s EXCEPT !.flags = f]

\* Nothing else differs.
LEMMA FtpMarked ==
  ASSUME NEW s \in FtpSessions,
         NEW f \in SUBSET Ftp!Flags,
         NEW u, u = Marked(s, f)
  PROVE  /\ u \in FtpSessions
         /\ u.flags = f
         /\ u.mode = s.mode /\ u.stack = s.stack /\ u.back = s.back /\ u.cfg = s.cfg
         /\ u.here = s.here /\ u.userfd = s.userfd /\ u.srv = s.srv /\ u.tls = s.tls
         /\ u.clear = s.clear /\ u.owed = s.owed /\ u.sd = s.sd /\ u.ud = s.ud
         /\ u.xfer = s.xfer /\ u.left = s.left /\ u.lost = s.lost /\ u.due = s.due
         /\ u.claim = s.claim /\ u.causes = s.causes /\ u.n = s.n
<1>1. u = [s EXCEPT !.flags = f]
  BY Zenon DEF Marked
<1>2. u \in FtpSessions
  BY <1>1, ZenonT(60) DEF FtpSessions
<1>3. u.flags = f
  BY <1>1, ZenonT(60) DEF FtpSessions
<1>4. /\ u.mode = s.mode /\ u.stack = s.stack /\ u.back = s.back /\ u.cfg = s.cfg
      /\ u.here = s.here /\ u.userfd = s.userfd /\ u.srv = s.srv /\ u.tls = s.tls
      /\ u.clear = s.clear /\ u.owed = s.owed /\ u.sd = s.sd /\ u.ud = s.ud
      /\ u.xfer = s.xfer /\ u.left = s.left /\ u.lost = s.lost /\ u.due = s.due
      /\ u.claim = s.claim /\ u.causes = s.causes /\ u.n = s.n
  BY <1>1, ZenonT(60) DEF FtpSessions
<1>5. QED
  BY <1>2, <1>3, <1>4

\* The ends of the data connection and its transfer.
Data(s, a, b, x) == [s EXCEPT !.sd = a, !.ud = b, !.xfer = x]

\* Nothing else differs.
LEMMA FtpData ==
  ASSUME NEW s \in FtpSessions,
         NEW a \in FtpServerEnds,
         NEW b \in FtpUserEnds,
         NEW x \in FtpWays,
         NEW u, u = Data(s, a, b, x)
  PROVE  /\ u \in FtpSessions
         /\ u.sd = a /\ u.ud = b /\ u.xfer = x
         /\ u.mode = s.mode /\ u.stack = s.stack /\ u.back = s.back
         /\ u.flags = s.flags /\ u.cfg = s.cfg /\ u.here = s.here
         /\ u.userfd = s.userfd /\ u.srv = s.srv /\ u.tls = s.tls /\ u.clear = s.clear
         /\ u.owed = s.owed /\ u.left = s.left /\ u.lost = s.lost /\ u.due = s.due
         /\ u.claim = s.claim /\ u.causes = s.causes /\ u.n = s.n
<1>1. u = [s EXCEPT !.sd = a, !.ud = b, !.xfer = x]
  BY Zenon DEF Data
<1>2. u \in FtpSessions
  BY <1>1, ZenonT(60) DEF FtpSessions
<1>3. u.sd = a /\ u.ud = b /\ u.xfer = x
  BY <1>1, ZenonT(60) DEF FtpSessions
<1>4. /\ u.mode = s.mode /\ u.stack = s.stack /\ u.back = s.back /\ u.flags = s.flags
      /\ u.cfg = s.cfg /\ u.here = s.here /\ u.userfd = s.userfd /\ u.srv = s.srv
      /\ u.tls = s.tls /\ u.clear = s.clear /\ u.owed = s.owed /\ u.left = s.left
      /\ u.lost = s.lost /\ u.due = s.due /\ u.claim = s.claim /\ u.causes = s.causes
      /\ u.n = s.n
  BY <1>1, ZenonT(60) DEF FtpSessions
<1>5. QED
  BY <1>2, <1>3, <1>4

\* The mode, and whether the server is there.
Turned(s, m, v) == [s EXCEPT !.mode = m, !.srv = v]

\* Nothing else differs.
LEMMA FtpTurned ==
  ASSUME NEW s \in FtpSessions,
         NEW m \in FtpModes,
         NEW v \in FtpServers,
         NEW u, u = Turned(s, m, v)
  PROVE  /\ u \in FtpSessions
         /\ u.mode = m /\ u.srv = v
         /\ u.stack = s.stack /\ u.back = s.back /\ u.flags = s.flags /\ u.cfg = s.cfg
         /\ u.here = s.here /\ u.userfd = s.userfd /\ u.tls = s.tls
         /\ u.clear = s.clear /\ u.owed = s.owed /\ u.sd = s.sd /\ u.ud = s.ud
         /\ u.xfer = s.xfer /\ u.left = s.left /\ u.lost = s.lost /\ u.due = s.due
         /\ u.claim = s.claim /\ u.causes = s.causes /\ u.n = s.n
<1>1. u = [s EXCEPT !.mode = m, !.srv = v]
  BY Zenon DEF Turned
<1>2. u \in FtpSessions
  BY <1>1, ZenonT(60) DEF FtpSessions
<1>3. u.mode = m /\ u.srv = v
  BY <1>1, ZenonT(60) DEF FtpSessions
<1>4. /\ u.stack = s.stack /\ u.back = s.back /\ u.flags = s.flags /\ u.cfg = s.cfg
      /\ u.here = s.here /\ u.userfd = s.userfd /\ u.tls = s.tls /\ u.clear = s.clear
      /\ u.owed = s.owed /\ u.sd = s.sd /\ u.ud = s.ud /\ u.xfer = s.xfer
      /\ u.left = s.left /\ u.lost = s.lost /\ u.due = s.due /\ u.claim = s.claim
      /\ u.causes = s.causes /\ u.n = s.n
  BY <1>1, ZenonT(60) DEF FtpSessions
<1>5. QED
  BY <1>2, <1>3, <1>4

\* The waits inside one another.
Waits(s, k, b) == [s EXCEPT !.stack = k, !.back = b]

\* Nothing else differs.
LEMMA FtpWaits ==
  ASSUME NEW s \in FtpSessions,
         NEW k \in Seq(FtpCalls),
         NEW b \in Truths,
         NEW u, u = Waits(s, k, b)
  PROVE  /\ u \in FtpSessions
         /\ u.stack = k /\ u.back = b
         /\ u.mode = s.mode /\ u.flags = s.flags /\ u.cfg = s.cfg /\ u.here = s.here
         /\ u.userfd = s.userfd /\ u.srv = s.srv /\ u.tls = s.tls /\ u.clear = s.clear
         /\ u.owed = s.owed /\ u.sd = s.sd /\ u.ud = s.ud /\ u.xfer = s.xfer
         /\ u.left = s.left /\ u.lost = s.lost /\ u.due = s.due /\ u.claim = s.claim
         /\ u.causes = s.causes /\ u.n = s.n
<1>1. u = [s EXCEPT !.stack = k, !.back = b]
  BY Zenon DEF Waits
<1>2. u \in FtpSessions
  BY <1>1, ZenonT(60) DEF FtpSessions
<1>3. u.stack = k /\ u.back = b
  BY <1>1, ZenonT(60) DEF FtpSessions
<1>4. /\ u.mode = s.mode /\ u.flags = s.flags /\ u.cfg = s.cfg /\ u.here = s.here
      /\ u.userfd = s.userfd /\ u.srv = s.srv /\ u.tls = s.tls /\ u.clear = s.clear
      /\ u.owed = s.owed /\ u.sd = s.sd /\ u.ud = s.ud /\ u.xfer = s.xfer
      /\ u.left = s.left /\ u.lost = s.lost /\ u.due = s.due /\ u.claim = s.claim
      /\ u.causes = s.causes /\ u.n = s.n
  BY <1>1, ZenonT(60) DEF FtpSessions
<1>5. QED
  BY <1>2, <1>3, <1>4

\* Whether a name may be seen, and one was.
Named(s, a, b) == [s EXCEPT !.tls = a, !.clear = b]

\* Nothing else differs.
LEMMA FtpNamedUser ==
  ASSUME NEW s \in FtpSessions,
         NEW a \in Truths,
         NEW b \in Truths,
         NEW u, u = Named(s, a, b)
  PROVE  /\ u \in FtpSessions
         /\ u.tls = a /\ u.clear = b
         /\ u.mode = s.mode /\ u.stack = s.stack /\ u.back = s.back
         /\ u.flags = s.flags /\ u.cfg = s.cfg /\ u.here = s.here
         /\ u.userfd = s.userfd /\ u.srv = s.srv /\ u.owed = s.owed /\ u.sd = s.sd
         /\ u.ud = s.ud /\ u.xfer = s.xfer /\ u.left = s.left /\ u.lost = s.lost
         /\ u.due = s.due /\ u.claim = s.claim /\ u.causes = s.causes /\ u.n = s.n
<1>1. u = [s EXCEPT !.tls = a, !.clear = b]
  BY Zenon DEF Named
<1>2. u \in FtpSessions
  BY <1>1, ZenonT(60) DEF FtpSessions
<1>3. u.tls = a /\ u.clear = b
  BY <1>1, ZenonT(60) DEF FtpSessions
<1>4. /\ u.mode = s.mode /\ u.stack = s.stack /\ u.back = s.back /\ u.flags = s.flags
      /\ u.cfg = s.cfg /\ u.here = s.here /\ u.userfd = s.userfd /\ u.srv = s.srv
      /\ u.owed = s.owed /\ u.sd = s.sd /\ u.ud = s.ud /\ u.xfer = s.xfer
      /\ u.left = s.left /\ u.lost = s.lost /\ u.due = s.due /\ u.claim = s.claim
      /\ u.causes = s.causes /\ u.n = s.n
  BY <1>1, ZenonT(60) DEF FtpSessions
<1>5. QED
  BY <1>2, <1>3, <1>4

\* The user's descriptor.
Wrapped(s, a) == [s EXCEPT !.userfd = a]

\* Nothing else differs.
LEMMA FtpWrapped ==
  ASSUME NEW s \in FtpSessions,
         NEW a \in Truths,
         NEW u, u = Wrapped(s, a)
  PROVE  /\ u \in FtpSessions
         /\ u.userfd = a
         /\ u.mode = s.mode /\ u.stack = s.stack /\ u.back = s.back
         /\ u.flags = s.flags /\ u.cfg = s.cfg /\ u.here = s.here /\ u.srv = s.srv
         /\ u.tls = s.tls /\ u.clear = s.clear /\ u.owed = s.owed /\ u.sd = s.sd
         /\ u.ud = s.ud /\ u.xfer = s.xfer /\ u.left = s.left /\ u.lost = s.lost
         /\ u.due = s.due /\ u.claim = s.claim /\ u.causes = s.causes /\ u.n = s.n
<1>1. u = [s EXCEPT !.userfd = a]
  BY Zenon DEF Wrapped
<1>2. u \in FtpSessions
  BY <1>1, ZenonT(60) DEF FtpSessions
<1>3. u.userfd = a
  BY <1>1, ZenonT(60) DEF FtpSessions
<1>4. /\ u.mode = s.mode /\ u.stack = s.stack /\ u.back = s.back /\ u.flags = s.flags
      /\ u.cfg = s.cfg /\ u.here = s.here /\ u.srv = s.srv /\ u.tls = s.tls
      /\ u.clear = s.clear /\ u.owed = s.owed /\ u.sd = s.sd /\ u.ud = s.ud
      /\ u.xfer = s.xfer /\ u.left = s.left /\ u.lost = s.lost /\ u.due = s.due
      /\ u.claim = s.claim /\ u.causes = s.causes /\ u.n = s.n
  BY <1>1, ZenonT(60) DEF FtpSessions
<1>5. QED
  BY <1>2, <1>3, <1>4

\* Another connection to the server.
Fresh(s, v, b, x, y) == [s EXCEPT !.srv = v, !.tls = b, !.owed = x, !.xfer = y]

\* Nothing else differs.
LEMMA FtpFresh ==
  ASSUME NEW s \in FtpSessions,
         NEW v \in FtpServers,
         NEW b \in Truths,
         NEW x \in Seq(FtpReplies),
         NEW y \in FtpWays,
         NEW u, u = Fresh(s, v, b, x, y)
  PROVE  /\ u \in FtpSessions
         /\ u.srv = v /\ u.tls = b /\ u.owed = x /\ u.xfer = y
         /\ u.mode = s.mode /\ u.stack = s.stack /\ u.back = s.back
         /\ u.flags = s.flags /\ u.cfg = s.cfg /\ u.here = s.here
         /\ u.userfd = s.userfd /\ u.clear = s.clear /\ u.sd = s.sd /\ u.ud = s.ud
         /\ u.left = s.left /\ u.lost = s.lost /\ u.due = s.due /\ u.claim = s.claim
         /\ u.causes = s.causes /\ u.n = s.n
<1>1. u = [s EXCEPT !.srv = v, !.tls = b, !.owed = x, !.xfer = y]
  BY Zenon DEF Fresh
<1>2. u \in FtpSessions
  BY <1>1, ZenonT(60) DEF FtpSessions
<1>3. u.srv = v /\ u.tls = b /\ u.owed = x /\ u.xfer = y
  BY <1>1, ZenonT(60) DEF FtpSessions
<1>4. /\ u.mode = s.mode /\ u.stack = s.stack /\ u.back = s.back /\ u.flags = s.flags
      /\ u.cfg = s.cfg /\ u.here = s.here /\ u.userfd = s.userfd /\ u.clear = s.clear
      /\ u.sd = s.sd /\ u.ud = s.ud /\ u.left = s.left /\ u.lost = s.lost
      /\ u.due = s.due /\ u.claim = s.claim /\ u.causes = s.causes /\ u.n = s.n
  BY <1>1, ZenonT(60) DEF FtpSessions
<1>5. QED
  BY <1>2, <1>3, <1>4

\* A transfer that begins or goes on.
Moving(s, x, l, b) == [s EXCEPT !.xfer = x, !.left = l, !.lost = b]

\* Nothing else differs.
LEMMA FtpMoving ==
  ASSUME NEW s \in FtpSessions,
         NEW x \in FtpWays,
         NEW l \in Int,
         NEW b \in Truths,
         NEW u, u = Moving(s, x, l, b)
  PROVE  /\ u \in FtpSessions
         /\ u.xfer = x /\ u.left = l /\ u.lost = b
         /\ u.mode = s.mode /\ u.stack = s.stack /\ u.back = s.back
         /\ u.flags = s.flags /\ u.cfg = s.cfg /\ u.here = s.here
         /\ u.userfd = s.userfd /\ u.srv = s.srv /\ u.tls = s.tls /\ u.clear = s.clear
         /\ u.owed = s.owed /\ u.sd = s.sd /\ u.ud = s.ud /\ u.due = s.due
         /\ u.claim = s.claim /\ u.causes = s.causes /\ u.n = s.n
<1>1. u = [s EXCEPT !.xfer = x, !.left = l, !.lost = b]
  BY Zenon DEF Moving
<1>2. u \in FtpSessions
  BY <1>1, ZenonT(60) DEF FtpSessions
<1>3. u.xfer = x /\ u.left = l /\ u.lost = b
  BY <1>1, ZenonT(60) DEF FtpSessions
<1>4. /\ u.mode = s.mode /\ u.stack = s.stack /\ u.back = s.back /\ u.flags = s.flags
      /\ u.cfg = s.cfg /\ u.here = s.here /\ u.userfd = s.userfd /\ u.srv = s.srv
      /\ u.tls = s.tls /\ u.clear = s.clear /\ u.owed = s.owed /\ u.sd = s.sd
      /\ u.ud = s.ud /\ u.due = s.due /\ u.claim = s.claim /\ u.causes = s.causes
      /\ u.n = s.n
  BY <1>1, ZenonT(60) DEF FtpSessions
<1>5. QED
  BY <1>2, <1>3, <1>4

\* A transfer that waits for its connections.
Opening(s, x, l, b, k, c) == [s EXCEPT !.xfer = x, !.left = l, !.lost = b, !.stack = k, !.back = c]

\* Nothing else differs.
LEMMA FtpOpening ==
  ASSUME NEW s \in FtpSessions,
         NEW x \in FtpWays,
         NEW l \in Int,
         NEW b \in Truths,
         NEW k \in Seq(FtpCalls),
         NEW c \in Truths,
         NEW u, u = Opening(s, x, l, b, k, c)
  PROVE  /\ u \in FtpSessions
         /\ u.xfer = x /\ u.left = l /\ u.lost = b /\ u.stack = k /\ u.back = c
         /\ u.mode = s.mode /\ u.flags = s.flags /\ u.cfg = s.cfg /\ u.here = s.here
         /\ u.userfd = s.userfd /\ u.srv = s.srv /\ u.tls = s.tls /\ u.clear = s.clear
         /\ u.owed = s.owed /\ u.sd = s.sd /\ u.ud = s.ud /\ u.due = s.due
         /\ u.claim = s.claim /\ u.causes = s.causes /\ u.n = s.n
<1>1. u = [s EXCEPT !.xfer = x, !.left = l, !.lost = b, !.stack = k, !.back = c]
  BY Zenon DEF Opening
<1>2. u \in FtpSessions
  BY <1>1, ZenonT(60) DEF FtpSessions
<1>3. u.xfer = x /\ u.left = l /\ u.lost = b /\ u.stack = k /\ u.back = c
  BY <1>1, ZenonT(60) DEF FtpSessions
<1>4. /\ u.mode = s.mode /\ u.flags = s.flags /\ u.cfg = s.cfg /\ u.here = s.here
      /\ u.userfd = s.userfd /\ u.srv = s.srv /\ u.tls = s.tls /\ u.clear = s.clear
      /\ u.owed = s.owed /\ u.sd = s.sd /\ u.ud = s.ud /\ u.due = s.due
      /\ u.claim = s.claim /\ u.causes = s.causes /\ u.n = s.n
  BY <1>1, ZenonT(60) DEF FtpSessions
<1>5. QED
  BY <1>2, <1>3, <1>4

\* What a transfer is said to be.
Claims(s, x, c) == [s EXCEPT !.xfer = x, !.claim = c]

\* Nothing else differs.
LEMMA FtpClaims ==
  ASSUME NEW s \in FtpSessions,
         NEW x \in FtpWays,
         NEW c \in FtpWorth,
         NEW u, u = Claims(s, x, c)
  PROVE  /\ u \in FtpSessions
         /\ u.xfer = x /\ u.claim = c
         /\ u.mode = s.mode /\ u.stack = s.stack /\ u.back = s.back
         /\ u.flags = s.flags /\ u.cfg = s.cfg /\ u.here = s.here
         /\ u.userfd = s.userfd /\ u.srv = s.srv /\ u.tls = s.tls /\ u.clear = s.clear
         /\ u.owed = s.owed /\ u.sd = s.sd /\ u.ud = s.ud /\ u.left = s.left
         /\ u.lost = s.lost /\ u.due = s.due /\ u.causes = s.causes /\ u.n = s.n
<1>1. u = [s EXCEPT !.xfer = x, !.claim = c]
  BY Zenon DEF Claims
<1>2. u \in FtpSessions
  BY <1>1, ZenonT(60) DEF FtpSessions
<1>3. u.xfer = x /\ u.claim = c
  BY <1>1, ZenonT(60) DEF FtpSessions
<1>4. /\ u.mode = s.mode /\ u.stack = s.stack /\ u.back = s.back /\ u.flags = s.flags
      /\ u.cfg = s.cfg /\ u.here = s.here /\ u.userfd = s.userfd /\ u.srv = s.srv
      /\ u.tls = s.tls /\ u.clear = s.clear /\ u.owed = s.owed /\ u.sd = s.sd
      /\ u.ud = s.ud /\ u.left = s.left /\ u.lost = s.lost /\ u.due = s.due
      /\ u.causes = s.causes /\ u.n = s.n
  BY <1>1, ZenonT(60) DEF FtpSessions
<1>5. QED
  BY <1>2, <1>3, <1>4

\* A command that comes.
Begun(s, k, d, b) == [s EXCEPT !.n = k, !.due = d, !.back = b]

\* Nothing else differs.
LEMMA FtpBegun ==
  ASSUME NEW s \in FtpSessions,
         NEW k \in Nat,
         NEW d \in Int,
         NEW b \in Truths,
         NEW u, u = Begun(s, k, d, b)
  PROVE  /\ u \in FtpSessions
         /\ u.n = k /\ u.due = d /\ u.back = b
         /\ u.mode = s.mode /\ u.stack = s.stack /\ u.flags = s.flags /\ u.cfg = s.cfg
         /\ u.here = s.here /\ u.userfd = s.userfd /\ u.srv = s.srv /\ u.tls = s.tls
         /\ u.clear = s.clear /\ u.owed = s.owed /\ u.sd = s.sd /\ u.ud = s.ud
         /\ u.xfer = s.xfer /\ u.left = s.left /\ u.lost = s.lost /\ u.claim = s.claim
         /\ u.causes = s.causes
<1>1. u = [s EXCEPT !.n = k, !.due = d, !.back = b]
  BY Zenon DEF Begun
<1>2. u \in FtpSessions
  BY <1>1, ZenonT(60) DEF FtpSessions
<1>3. u.n = k /\ u.due = d /\ u.back = b
  BY <1>1, ZenonT(60) DEF FtpSessions
<1>4. /\ u.mode = s.mode /\ u.stack = s.stack /\ u.flags = s.flags /\ u.cfg = s.cfg
      /\ u.here = s.here /\ u.userfd = s.userfd /\ u.srv = s.srv /\ u.tls = s.tls
      /\ u.clear = s.clear /\ u.owed = s.owed /\ u.sd = s.sd /\ u.ud = s.ud
      /\ u.xfer = s.xfer /\ u.left = s.left /\ u.lost = s.lost /\ u.claim = s.claim
      /\ u.causes = s.causes
  BY <1>1, ZenonT(60) DEF FtpSessions
<1>5. QED
  BY <1>2, <1>3, <1>4

\* Whether the user is there.
Here(s, b) == [s EXCEPT !.here = b]

\* Nothing else differs.
LEMMA FtpHere ==
  ASSUME NEW s \in FtpSessions,
         NEW b \in Truths,
         NEW u, u = Here(s, b)
  PROVE  /\ u \in FtpSessions
         /\ u.here = b
         /\ u.mode = s.mode /\ u.stack = s.stack /\ u.back = s.back
         /\ u.flags = s.flags /\ u.cfg = s.cfg /\ u.userfd = s.userfd /\ u.srv = s.srv
         /\ u.tls = s.tls /\ u.clear = s.clear /\ u.owed = s.owed /\ u.sd = s.sd
         /\ u.ud = s.ud /\ u.xfer = s.xfer /\ u.left = s.left /\ u.lost = s.lost
         /\ u.due = s.due /\ u.claim = s.claim /\ u.causes = s.causes /\ u.n = s.n
<1>1. u = [s EXCEPT !.here = b]
  BY Zenon DEF Here
<1>2. u \in FtpSessions
  BY <1>1, ZenonT(60) DEF FtpSessions
<1>3. u.here = b
  BY <1>1, ZenonT(60) DEF FtpSessions
<1>4. /\ u.mode = s.mode /\ u.stack = s.stack /\ u.back = s.back /\ u.flags = s.flags
      /\ u.cfg = s.cfg /\ u.userfd = s.userfd /\ u.srv = s.srv /\ u.tls = s.tls
      /\ u.clear = s.clear /\ u.owed = s.owed /\ u.sd = s.sd /\ u.ud = s.ud
      /\ u.xfer = s.xfer /\ u.left = s.left /\ u.lost = s.lost /\ u.due = s.due
      /\ u.claim = s.claim /\ u.causes = s.causes /\ u.n = s.n
  BY <1>1, ZenonT(60) DEF FtpSessions
<1>5. QED
  BY <1>2, <1>3, <1>4

\* The user's end of the data connection, which wakes the child.
Joined(s, a, b) == [s EXCEPT !.ud = a, !.back = b]

\* Nothing else differs.
LEMMA FtpJoined ==
  ASSUME NEW s \in FtpSessions,
         NEW a \in FtpUserEnds,
         NEW b \in Truths,
         NEW u, u = Joined(s, a, b)
  PROVE  /\ u \in FtpSessions
         /\ u.ud = a /\ u.back = b
         /\ u.mode = s.mode /\ u.stack = s.stack /\ u.flags = s.flags /\ u.cfg = s.cfg
         /\ u.here = s.here /\ u.userfd = s.userfd /\ u.srv = s.srv /\ u.tls = s.tls
         /\ u.clear = s.clear /\ u.owed = s.owed /\ u.sd = s.sd /\ u.xfer = s.xfer
         /\ u.left = s.left /\ u.lost = s.lost /\ u.due = s.due /\ u.claim = s.claim
         /\ u.causes = s.causes /\ u.n = s.n
<1>1. u = [s EXCEPT !.ud = a, !.back = b]
  BY Zenon DEF Joined
<1>2. u \in FtpSessions
  BY <1>1, ZenonT(60) DEF FtpSessions
<1>3. u.ud = a /\ u.back = b
  BY <1>1, ZenonT(60) DEF FtpSessions
<1>4. /\ u.mode = s.mode /\ u.stack = s.stack /\ u.flags = s.flags /\ u.cfg = s.cfg
      /\ u.here = s.here /\ u.userfd = s.userfd /\ u.srv = s.srv /\ u.tls = s.tls
      /\ u.clear = s.clear /\ u.owed = s.owed /\ u.sd = s.sd /\ u.xfer = s.xfer
      /\ u.left = s.left /\ u.lost = s.lost /\ u.due = s.due /\ u.claim = s.claim
      /\ u.causes = s.causes /\ u.n = s.n
  BY <1>1, ZenonT(60) DEF FtpSessions
<1>5. QED
  BY <1>2, <1>3, <1>4

\* The server's end of the data connection, and what it says.
Refused(s, a, x, y) == [s EXCEPT !.sd = a, !.xfer = x, !.owed = y]

\* Nothing else differs.
LEMMA FtpRefused ==
  ASSUME NEW s \in FtpSessions,
         NEW a \in FtpServerEnds,
         NEW x \in FtpWays,
         NEW y \in Seq(FtpReplies),
         NEW u, u = Refused(s, a, x, y)
  PROVE  /\ u \in FtpSessions
         /\ u.sd = a /\ u.xfer = x /\ u.owed = y
         /\ u.mode = s.mode /\ u.stack = s.stack /\ u.back = s.back
         /\ u.flags = s.flags /\ u.cfg = s.cfg /\ u.here = s.here
         /\ u.userfd = s.userfd /\ u.srv = s.srv /\ u.tls = s.tls /\ u.clear = s.clear
         /\ u.ud = s.ud /\ u.left = s.left /\ u.lost = s.lost /\ u.due = s.due
         /\ u.claim = s.claim /\ u.causes = s.causes /\ u.n = s.n
<1>1. u = [s EXCEPT !.sd = a, !.xfer = x, !.owed = y]
  BY Zenon DEF Refused
<1>2. u \in FtpSessions
  BY <1>1, ZenonT(60) DEF FtpSessions
<1>3. u.sd = a /\ u.xfer = x /\ u.owed = y
  BY <1>1, ZenonT(60) DEF FtpSessions
<1>4. /\ u.mode = s.mode /\ u.stack = s.stack /\ u.back = s.back /\ u.flags = s.flags
      /\ u.cfg = s.cfg /\ u.here = s.here /\ u.userfd = s.userfd /\ u.srv = s.srv
      /\ u.tls = s.tls /\ u.clear = s.clear /\ u.ud = s.ud /\ u.left = s.left
      /\ u.lost = s.lost /\ u.due = s.due /\ u.claim = s.claim /\ u.causes = s.causes
      /\ u.n = s.n
  BY <1>1, ZenonT(60) DEF FtpSessions
<1>5. QED
  BY <1>2, <1>3, <1>4

\* What the server says, which wakes the child.
Woken(s, x, b) == [s EXCEPT !.owed = x, !.back = b]

\* Nothing else differs.
LEMMA FtpWoken ==
  ASSUME NEW s \in FtpSessions,
         NEW x \in Seq(FtpReplies),
         NEW b \in Truths,
         NEW u, u = Woken(s, x, b)
  PROVE  /\ u \in FtpSessions
         /\ u.owed = x /\ u.back = b
         /\ u.mode = s.mode /\ u.stack = s.stack /\ u.flags = s.flags /\ u.cfg = s.cfg
         /\ u.here = s.here /\ u.userfd = s.userfd /\ u.srv = s.srv /\ u.tls = s.tls
         /\ u.clear = s.clear /\ u.sd = s.sd /\ u.ud = s.ud /\ u.xfer = s.xfer
         /\ u.left = s.left /\ u.lost = s.lost /\ u.due = s.due /\ u.claim = s.claim
         /\ u.causes = s.causes /\ u.n = s.n
<1>1. u = [s EXCEPT !.owed = x, !.back = b]
  BY Zenon DEF Woken
<1>2. u \in FtpSessions
  BY <1>1, ZenonT(60) DEF FtpSessions
<1>3. u.owed = x /\ u.back = b
  BY <1>1, ZenonT(60) DEF FtpSessions
<1>4. /\ u.mode = s.mode /\ u.stack = s.stack /\ u.flags = s.flags /\ u.cfg = s.cfg
      /\ u.here = s.here /\ u.userfd = s.userfd /\ u.srv = s.srv /\ u.tls = s.tls
      /\ u.clear = s.clear /\ u.sd = s.sd /\ u.ud = s.ud /\ u.xfer = s.xfer
      /\ u.left = s.left /\ u.lost = s.lost /\ u.due = s.due /\ u.claim = s.claim
      /\ u.causes = s.causes /\ u.n = s.n
  BY <1>1, ZenonT(60) DEF FtpSessions
<1>5. QED
  BY <1>2, <1>3, <1>4


\* A session that goes on in the same call.
Alike(s, u) ==
  /\ u.mode = s.mode /\ u.stack = s.stack /\ u.cfg = s.cfg /\ u.userfd = s.userfd
  /\ u.clear = s.clear /\ u.claim = s.claim /\ (u.lost => s.lost)
  /\ s.causes \subseteq u.causes /\ (Accepted(u) <=> Accepted(s))

\* There is no transfer.
Quiet(s) == Left(s, FtpOverlap) \/ (s.xfer = "no" /\ s.sd # "connected")

\* A handler works for the loop, and one that crashes is taken to go on: what every
\* handler keeps, and the aspects X.
Aspects == {"step", "quiet", "user"}

On(s, k, X) ==
  /\ FtpBase(s) /\ s.mode \in {"serving", "crashed"} /\ (Left(s, FtpOverlap) \/ Loops(s))
  /\ "step" \in X => StepAt(s, k)
  /\ "quiet" \in X => Quiet(s)
  /\ "user" \in X => UserDataOk(s)

\* A session that has left the protocol has left it for good.
LEMMA StaysLeft ==
  ASSUME NEW s, NEW u, NEW C, s.causes \subseteq u.causes, Left(s, C)
  PROVE  Left(u, C)
BY DEF Left

\* What holds of a session holds of one that is alike.
LEMMA AlikeBase ==
  ASSUME NEW s, NEW u \in FtpSessions, Alike(s, u), FtpBase(s)
  PROVE  FtpBase(u)
<1>1. u.mode = "serving" => u.stack # <<>> /\ u.stack[1] = "loop"
  BY DEF Alike, FtpBase
<1>2. NameOk(u) /\ (u.userfd \/ "auth" \in u.causes)
  BY DEF Alike, FtpBase, NameOk
<1>3. u.lost => "early" \in u.causes \/ Left(u, FtpOverlap)
  BY StaysLeft DEF Alike, FtpBase
<1>4. (u.claim = "short" => Left(u, FtpFalse)) /\ (u.mode = "crashed" => Left(u, FtpFatal))
  BY StaysLeft DEF Alike, FtpBase
<1>5. QED
  BY <1>1, <1>2, <1>3, <1>4 DEF FtpBase

\* So a handler is at work, in the aspects that stay.
LEMMA AlikeOn ==
  ASSUME NEW s, NEW u \in FtpSessions, NEW k, NEW j, NEW X, On(s, k, X), Alike(s, u),
         "step" \in X => (StepAt(s, k) => StepAt(u, j)),
         "quiet" \in X => (Quiet(s) => Quiet(u)),
         "user" \in X => (UserDataOk(s) => UserDataOk(u))
  PROVE  On(u, j, X)
<1>1. FtpBase(u)
  BY AlikeBase DEF On
<1>2. u.mode \in {"serving", "crashed"}
  BY DEF On, Alike
<1>3. Left(u, FtpOverlap) \/ Loops(u)
  BY StaysLeft DEF On, Alike, Loops
<1>4. QED
  BY <1>1, <1>2, <1>3 DEF On

\* The type of what is at work.
LEMMA OnType ==
  ASSUME NEW s, NEW k, NEW X, On(s, k, X)
  PROVE  s \in FtpSessions
BY DEF On, FtpBase

\* And of its parts.
LEMMA FtpParts ==
  ASSUME NEW s \in FtpSessions
  PROVE  /\ s.owed \in Seq(FtpReplies) /\ s.srv \in FtpServers /\ s.flags \in SUBSET Ftp!Flags
         /\ s.causes \in SUBSET FtpCauses /\ s.due \in Int /\ s.stack \in Seq(FtpCalls)
         /\ s.sd \in FtpServerEnds /\ s.ud \in FtpUserEnds /\ s.xfer \in FtpWays
         /\ s.left \in Int /\ s.lost \in Truths /\ s.n \in Nat /\ s.claim \in FtpWorth
         /\ s.tls \in Truths /\ s.clear \in Truths /\ s.userfd \in Truths
         /\ s.back \in Truths /\ s.here \in Truths /\ s.mode \in FtpModes
         /\ s.cfg \in SUBSET {"try", "require", "data"}
BY ZenonT(60) DEF FtpSessions

\* A reply to the user.
LEMMA OnReply ==
  ASSUME NEW s, NEW k \in Int, NEW X, On(s, k, X)
  PROVE  On(Ftp!Reply(s), k - 1, X)
<1> PICK u : u = Ftp!Reply(s)
  OBVIOUS
<1>1. s \in FtpSessions
  BY OnType
<1> PICK d \in Int : d = s.due - 1
  BY <1>1, FtpParts
<1>2. u = Owed(s, d)
  BY Zenon DEF Owed, Ftp!Reply
<1>3. /\ u \in FtpSessions /\ u.due = s.due - 1 /\ u.owed = s.owed /\ u.causes = s.causes
      /\ u.sd = s.sd /\ u.xfer = s.xfer /\ u.ud = s.ud
  BY <1>1, <1>2, FtpOwed, SMTT(30)
<1>4. Alike(s, u)
  BY <1>1, <1>2, FtpOwed DEF Alike, Accepted
<1>5. StepAt(s, k) => StepAt(u, k - 1)
  BY <1>3 DEF StepAt, Left
<1>6. (Quiet(s) => Quiet(u)) /\ (UserDataOk(s) => UserDataOk(u))
  BY <1>3 DEF Quiet, UserDataOk, Left
<1>7. On(u, k - 1, X)
  BY <1>3, <1>4, <1>5, <1>6, AlikeOn
<1>8. QED
  BY <1>7

\* A session goes on with the same connections, and has left what it had left.
SameEnds(s, u) ==
  /\ u.xfer = s.xfer /\ u.sd = s.sd /\ u.ud = s.ud /\ u.cfg = s.cfg /\ u.tls = s.tls
  /\ s.causes \subseteq u.causes

\* So does one that notes a way of leaving the protocol, ...
LEMMA CauseAlike ==
  ASSUME NEW s \in FtpSessions, NEW x \in FtpCauses, NEW u, u = Ftp!Cause(s, x)
  PROVE  /\ u \in FtpSessions /\ Alike(s, u) /\ SameEnds(s, u) /\ x \in u.causes
         /\ u.due = s.due /\ u.owed = s.owed /\ u.back = s.back
<1>1. PICK c \in SUBSET FtpCauses : c = s.causes \cup {x}
  BY FtpParts
<1>2. u = Blamed(s, c)
  BY <1>1, Zenon DEF Blamed, Ftp!Cause
<1>3. /\ u \in FtpSessions /\ u.due = s.due /\ u.owed = s.owed /\ u.causes = c
      /\ u.sd = s.sd /\ u.xfer = s.xfer /\ u.ud = s.ud /\ u.cfg = s.cfg /\ u.tls = s.tls
      /\ u.mode = s.mode /\ u.stack = s.stack /\ u.lost = s.lost /\ u.claim = s.claim
      /\ u.clear = s.clear /\ u.userfd = s.userfd /\ u.flags = s.flags /\ u.back = s.back
  BY <1>2, FtpBlamed
<1>4. QED
  BY <1>1, <1>3 DEF Alike, SameEnds, Accepted

\* ... and one that hears the server.
LEMMA ToldAlike ==
  ASSUME NEW s \in FtpSessions, NEW x \in Seq(FtpReplies), NEW v \in FtpServers,
         NEW u, u = Told(s, x, v)
  PROVE  /\ u \in FtpSessions /\ Alike(s, u) /\ SameEnds(s, u) /\ u.owed = x /\ u.srv = v
         /\ u.due = s.due /\ u.back = s.back /\ u.causes = s.causes
<1>1. /\ u \in FtpSessions /\ u.due = s.due /\ u.owed = x /\ u.causes = s.causes /\ u.srv = v
      /\ u.sd = s.sd /\ u.xfer = s.xfer /\ u.ud = s.ud /\ u.cfg = s.cfg /\ u.tls = s.tls
      /\ u.mode = s.mode /\ u.stack = s.stack /\ u.lost = s.lost /\ u.claim = s.claim
      /\ u.clear = s.clear /\ u.userfd = s.userfd /\ u.flags = s.flags /\ u.back = s.back
  BY FtpTold
<1>2. QED
  BY <1>1 DEF Alike, SameEnds, Accepted

\* What is alike is as far, where the replies are not looked at.
LEMMA SameEndsOn ==
  ASSUME NEW s, NEW k, NEW X, On(s, k, X), "step" \notin X,
         NEW u \in FtpSessions, Alike(s, u), SameEnds(s, u)
  PROVE  On(u, k, X)
<1>1. (Quiet(s) => Quiet(u)) /\ (UserDataOk(s) => UserDataOk(u))
  BY StaysLeft DEF SameEnds, Quiet, UserDataOk
<1>2. QED
  BY <1>1, AlikeOn

\* A way of leaving the protocol: after one that puts the replies out of step any
\* number of them may be owed.
LEMMA OnCause ==
  ASSUME NEW s, NEW k, NEW X, On(s, k, X), NEW x \in FtpCauses
  PROVE  On(Ftp!Cause(s, x), k, X) /\ x \in Ftp!Cause(s, x).causes
<1>1. PICK u : u = Ftp!Cause(s, x)
  OBVIOUS
<1>2. s \in FtpSessions
  BY OnType
<1>3. /\ u \in FtpSessions /\ Alike(s, u) /\ SameEnds(s, u) /\ x \in u.causes
      /\ u.due = s.due /\ u.owed = s.owed
  BY <1>1, <1>2, CauseAlike
<1>4. (Quiet(s) => Quiet(u)) /\ (UserDataOk(s) => UserDataOk(u))
  BY <1>3, StaysLeft DEF SameEnds, Quiet, UserDataOk
<1>5. StepAt(s, k) => StepAt(u, k)
  BY <1>3, StaysLeft DEF SameEnds, StepAt
<1>6. On(u, k, X)
  BY <1>3, <1>4, <1>5, AlikeOn
<1>7. QED
  BY <1>1, <1>3, <1>6

\* After a way that puts the replies out of step any number of them may be owed.
LEMMA OnOut ==
  ASSUME NEW s, NEW k, NEW j, NEW X, On(s, k, X \ {"step"}), NEW x \in FtpOut
  PROVE  On(Ftp!Cause(s, x), j, X)
<1>1. x \in FtpCauses
  BY FtpNamed
<1>2. On(Ftp!Cause(s, x), k, X \ {"step"}) /\ x \in Ftp!Cause(s, x).causes
  BY <1>1, OnCause
<1>3. StepAt(Ftp!Cause(s, x), j)
  BY <1>2 DEF StepAt, Left
<1>4. QED
  BY <1>2, <1>3 DEF On

\* Fewer aspects.
LEMMA OnLess ==
  ASSUME NEW s, NEW k, NEW X, NEW Y \in SUBSET X, On(s, k, X)
  PROVE  On(s, k, Y)
BY DEF On

\* Flags that are set or cleared, other than that of a connection of the server.
LEMMA OnMarked ==
  ASSUME NEW s, NEW k, NEW X, On(s, k, X), NEW f \in SUBSET Ftp!Flags,
         "SERVER_ACCEPT" \in f <=> Accepted(s),
         NEW u, u = Marked(s, f)
  PROVE  /\ On(u, k, X) /\ u.xfer = s.xfer /\ u.sd = s.sd
         /\ u.ud = s.ud /\ u.cfg = s.cfg /\ u.tls = s.tls
         /\ u.owed = s.owed /\ u.causes = s.causes
<1>1. s \in FtpSessions
  BY OnType
<1>3. /\ u \in FtpSessions /\ u.due = s.due /\ u.owed = s.owed /\ u.causes = s.causes
      /\ u.sd = s.sd /\ u.xfer = s.xfer /\ u.ud = s.ud /\ u.cfg = s.cfg /\ u.tls = s.tls
  BY <1>1, FtpMarked
<1>4. Alike(s, u)
  BY <1>1, FtpMarked DEF Alike, Accepted
<1>5. StepAt(s, k) => StepAt(u, k)
  BY <1>3 DEF StepAt, Left
<1>6. (Quiet(s) => Quiet(u)) /\ (UserDataOk(s) => UserDataOk(u))
  BY <1>3 DEF Quiet, UserDataOk, Left
<1>7. On(u, k, X)
  BY <1>3, <1>4, <1>5, <1>6, AlikeOn
<1>8. QED
  BY <1>3, <1>7

\* Flags that are set.
LEMMA OnSet ==
  ASSUME NEW s, NEW k, NEW X, On(s, k, X), NEW F \in SUBSET (Ftp!Flags \ {"SERVER_ACCEPT"}),
         NEW u, u = Ftp!Set(s, F)
  PROVE  /\ On(u, k, X) /\ u.xfer = s.xfer /\ u.sd = s.sd
         /\ u.ud = s.ud /\ u.cfg = s.cfg /\ u.tls = s.tls
         /\ u.owed = s.owed /\ u.causes = s.causes
<1> PICK f \in SUBSET Ftp!Flags : f = s.flags \cup F
  <2>1. s.flags \in SUBSET Ftp!Flags
    BY OnType, FtpParts
  <2>2. QED
    BY <2>1
<1>1. u = Marked(s, f)
  BY Zenon DEF Ftp!Set, Marked
<1>2. "SERVER_ACCEPT" \in f <=> Accepted(s)
  BY DEF Accepted
<1>3. QED
  BY <1>1, <1>2, OnMarked

\* Flags that are cleared.
LEMMA OnClear ==
  ASSUME NEW s, NEW k, NEW X, On(s, k, X), NEW F, "SERVER_ACCEPT" \notin F,
         NEW u, u = Ftp!Clear(s, F)
  PROVE  /\ On(u, k, X) /\ u.xfer = s.xfer /\ u.sd = s.sd
         /\ u.ud = s.ud /\ u.cfg = s.cfg /\ u.tls = s.tls
         /\ u.owed = s.owed /\ u.causes = s.causes
<1> PICK f \in SUBSET Ftp!Flags : f = s.flags \ F
  <2>1. s.flags \in SUBSET Ftp!Flags
    BY OnType, FtpParts
  <2>2. QED
    BY <2>1
<1>1. u = Marked(s, f)
  BY Zenon DEF Ftp!Clear, Marked
<1>2. "SERVER_ACCEPT" \in f <=> Accepted(s)
  BY DEF Accepted
<1>3. QED
  BY <1>1, <1>2, OnMarked

\* The server is heard, or not: a handler is at work in all but the step.
LEMMA OnTold ==
  ASSUME NEW s, NEW k, NEW X, On(s, k, X), "step" \notin X, NEW x \in Seq(FtpReplies),
         NEW v \in FtpServers, NEW u, u = Told(s, x, v)
  PROVE  /\ On(u, k, X) /\ SameEnds(s, u) /\ u.owed = x /\ u.due = s.due
         /\ u.causes = s.causes
<1>1. s \in FtpSessions
  BY OnType
<1>2. /\ u \in FtpSessions /\ Alike(s, u) /\ SameEnds(s, u) /\ u.owed = x /\ u.due = s.due
      /\ u.causes = s.causes
  BY <1>1, ToldAlike
<1>3. QED
  BY <1>2, SameEndsOn

\* Send(): a reply is to come, if the server is there.
LEMMA OnSend ==
  ASSUME NEW s, NEW k, NEW X, On(s, k, X), "step" \notin X, NEW R, R \subseteq FtpReplies,
         NEW u \in Ftp!Send(s, R)
  PROVE  /\ On(u, k, X) /\ SameEnds(s, u) /\ u.due = s.due
         /\ u.owed = s.owed \/ \E r \in R : u.owed = Append(s.owed, r)
<1>1. s \in FtpSessions
  BY OnType
<1>2. s.owed \in Seq(FtpReplies) /\ s.srv \in FtpServers
  BY <1>1, FtpParts
<1>3. CASE s.srv = "up"
  <2>6. PICK r \in R : u = [s EXCEPT !.owed = Append(@, r)]
    BY <1>3 DEF Ftp!Send
  <2>0. r \in FtpReplies
    OBVIOUS
  <2>5. PICK x \in Seq(FtpReplies) : x = Append(s.owed, r)
    BY <1>2, <2>0, AppendProperties
  <2>1. u = Told(s, x, s.srv)
    <3>1. u = [s EXCEPT !.owed = x]
      BY <2>5, <2>6
    <3>2. QED
      BY <1>1, <3>1, ZenonT(60) DEF Told, FtpSessions
  <2>2. x \in Seq(FtpReplies) /\ s.srv \in FtpServers
    BY <1>2
  <2>3. On(u, k, X) /\ SameEnds(s, u) /\ u.owed = x /\ u.due = s.due
    BY <2>1, <2>2, OnTold
  <2>4. QED
    BY <2>3, <2>5
<1>4. CASE s.srv # "up"
  BY <1>4 DEF Ftp!Send, On, SameEnds
<1>5. QED
  BY <1>3, <1>4

\* RecvStatus(): the next reply, or the end of what the server says.
LEMMA RecvAlike ==
  ASSUME NEW s \in FtpSessions, NEW a, a = Ftp!RecvStatus(s)
  PROVE  /\ a[2] \in FtpSessions /\ Alike(s, a[2]) /\ SameEnds(s, a[2])
         /\ a[2].due = s.due /\ a[2].back = s.back
         /\ a = <<a[1], a[2]>> /\ a[1] \in FtpReplies
         /\ s.owed = <<>> => a[2].owed = <<>>
         /\ \A r : s.owed = <<r>> => a[2].owed = <<>> /\ a[1] = r
<1>2. s.owed \in Seq(FtpReplies) /\ s.srv \in FtpServers
  BY FtpParts
<1>3. CASE s.owed # <<>>
  <2>1. Head(s.owed) \in FtpReplies /\ Tail(s.owed) \in Seq(FtpReplies)
    BY <1>2, <1>3, HeadTailProperties
  <2>8. PICK x \in Seq(FtpReplies) : x = Tail(s.owed)
    BY <2>1
  <2>9. PICK u : u = Told(s, x, s.srv)
    OBVIOUS
  <2>2. [s EXCEPT !.owed = x] = u
    BY <2>9, ZenonT(60) DEF Told, FtpSessions
  <2>3. a = <<Head(s.owed), u>>
    BY <1>3, <2>2, <2>8 DEF Ftp!RecvStatus
  <2>4. a = <<a[1], a[2]>> /\ a[1] = Head(s.owed) /\ a[2] = u
    BY <2>3
  <2>5. ASSUME NEW r, s.owed = <<r>>
        PROVE  Head(s.owed) = r /\ x = <<>>
    BY <2>5, <2>8, HeadOfOne
  <2>6. /\ u \in FtpSessions /\ Alike(s, u) /\ SameEnds(s, u) /\ u.due = s.due /\ u.owed = x
        /\ u.back = s.back
    BY <1>2, <2>9, ToldAlike
  <2>7. QED
    BY <1>3, <2>1, <2>4, <2>5, <2>6
<1>4. CASE s.owed = <<>>
  <2>1. \A r : s.owed # <<r>>
    BY <1>4, HeadOfOne
  <2>2. "221" \in FtpReplies
    BY DEF FtpReplies
  <2>3. CASE s.srv = "up"
    <3>9. PICK v \in FtpServers : v = "gone"
      BY DEF FtpServers
    <3>0. PICK g : g = Told(s, s.owed, v)
      OBVIOUS
    <3>1. [s EXCEPT !.srv = "gone"] = g
      BY <3>0, <3>9, ZenonT(60) DEF Told, FtpSessions
    <3>2. /\ g \in FtpSessions /\ Alike(s, g) /\ SameEnds(s, g) /\ g.due = s.due
          /\ g.owed = s.owed /\ g.back = s.back
      BY <1>2, <3>0, ToldAlike
    <3>3. "silence" \in FtpCauses
      BY FtpNamed
    <3>8. PICK u : u = Ftp!Cause(g, "silence")
      OBVIOUS
    <3>4. /\ u \in FtpSessions /\ Alike(g, u) /\ SameEnds(g, u) /\ u.due = g.due
          /\ u.owed = g.owed /\ u.back = g.back
      BY <3>2, <3>3, <3>8, CauseAlike
    <3>5. a = <<"221", u>>
      BY <1>4, <2>3, <3>1, <3>8 DEF Ftp!RecvStatus
    <3>6. a[1] = "221" /\ a[2] = u /\ a = <<a[1], a[2]>>
      BY <3>5
    <3>7. Alike(s, u) /\ SameEnds(s, u)
      BY <3>2, <3>4 DEF SameEnds, Alike
    <3>10. QED
      BY <1>4, <2>1, <2>2, <3>2, <3>4, <3>6, <3>7
  <2>4. CASE s.srv # "up"
    <3>1. a = <<"221", s>>
      BY <1>4, <2>4 DEF Ftp!RecvStatus
    <3>2. a[1] = "221" /\ a[2] = s /\ a = <<a[1], a[2]>>
      BY <3>1
    <3>3. QED
      BY <1>4, <2>1, <2>2, <3>2 DEF SameEnds, Alike
  <2>5. QED
    BY <2>3, <2>4
<1>5. QED
  BY <1>3, <1>4

\* RecvStatus() in a handler.
LEMMA OnRecvStatus ==
  ASSUME NEW s, NEW k, NEW X, On(s, k, X), "step" \notin X, NEW a, a = Ftp!RecvStatus(s)
  PROVE  /\ On(a[2], k, X) /\ SameEnds(s, a[2]) /\ a[2].due = s.due
         /\ a = <<a[1], a[2]>> /\ a[1] \in FtpReplies
         /\ s.owed = <<>> => a[2].owed = <<>>
         /\ \A r : s.owed = <<r>> => a[2].owed = <<>> /\ a[1] = r
<1>1. s \in FtpSessions
  BY OnType
<1>2. /\ a[2] \in FtpSessions /\ Alike(s, a[2]) /\ SameEnds(s, a[2])
      /\ a[2].due = s.due /\ a = <<a[1], a[2]>> /\ a[1] \in FtpReplies
      /\ s.owed = <<>> => a[2].owed = <<>>
      /\ \A r : s.owed = <<r>> => a[2].owed = <<>> /\ a[1] = r
  BY <1>1, RecvAlike
<1>3. On(a[2], k, X)
  BY <1>2, SameEndsOn
<1>4. QED
  BY <1>2, <1>3

\* Ask(): a command is sent and its reply read, and nothing is left unread.
LEMMA OnAsk ==
  ASSUME NEW s, NEW k, NEW X, On(s, k, X), NEW R, R \subseteq FtpReplies,
         NEW a \in Ftp!Ask(s, R)
  PROVE  /\ On(a[2], k, X) /\ SameEnds(s, a[2])
         /\ a = <<a[1], a[2]>> /\ a[1] \in FtpReplies
<1> PICK Y : Y = X \ {"step"}
  OBVIOUS
<1>0. "step" \notin Y /\ On(s, k, Y)
  BY DEF On
<1> PICK t \in Ftp!Send(s, R) : a = Ftp!RecvStatus(t)
  BY DEF Ftp!Ask
<1>1. /\ On(t, k, Y) /\ SameEnds(s, t) /\ t.due = s.due
      /\ t.owed = s.owed \/ \E r \in R : t.owed = Append(s.owed, r)
  BY <1>0, OnSend
<1>2. /\ On(a[2], k, Y) /\ SameEnds(t, a[2]) /\ a[2].due = t.due
      /\ a = <<a[1], a[2]>> /\ a[1] \in FtpReplies
      /\ t.owed = <<>> => a[2].owed = <<>>
      /\ \A r : t.owed = <<r>> => a[2].owed = <<>> /\ a[1] = r
  BY <1>0, <1>1, OnRecvStatus
<1>3. SameEnds(s, a[2])
  BY <1>1, <1>2 DEF SameEnds
<1>4. ASSUME StepAt(s, k)
      PROVE  StepAt(a[2], k)
  <2>1. CASE Left(s, FtpOut)
    <3>1. Left(a[2], FtpOut)
      BY <1>3, <2>1, StaysLeft DEF SameEnds
    <3>2. QED
      BY <3>1 DEF StepAt
  <2>2. CASE s.due = k /\ s.owed = <<>>
    <3>1. a[2].due = k
      BY <1>1, <1>2, <2>2
    <3>2. CASE t.owed = s.owed
      BY <1>2, <2>2, <3>1, <3>2 DEF StepAt
    <3>3. ASSUME NEW r \in R, t.owed = Append(s.owed, r)
          PROVE  StepAt(a[2], k)
      <4>1. t.owed = <<r>>
        BY <2>2, <3>3
      <4>2. QED
        BY <1>2, <3>1, <4>1 DEF StepAt
    <3>4. QED
      BY <1>1, <3>2, <3>3
  <2>3. QED
    BY <1>4, <2>1, <2>2 DEF StepAt
<1>5. On(a[2], k, X)
  BY <1>2, <1>4 DEF On
<1>6. QED
  BY <1>2, <1>3, <1>5

\* Other ends of the data connection.
LEMMA OnData ==
  ASSUME NEW s, NEW k, NEW X, On(s, k, X), NEW Y, "step" \in Y => "step" \in X,
         NEW a \in FtpServerEnds, NEW b \in FtpUserEnds, NEW x \in FtpWays,
         "quiet" \in Y => /\ a # "connected"
                          /\ x = "no" \/ ("quiet" \in X /\ x = s.xfer),
         "user" \in Y => b # "dangling" \/ ("user" \in X /\ b = s.ud),
         NEW u, u = Data(s, a, b, x)
  PROVE  /\ On(u, k, Y) /\ u.sd = a /\ u.ud = b /\ u.xfer = x /\ u.due = s.due
         /\ u.owed = s.owed /\ u.srv = s.srv /\ u.cfg = s.cfg /\ u.tls = s.tls
         /\ u.causes = s.causes /\ u.flags = s.flags
<1>1. s \in FtpSessions
  BY OnType
<1>2. /\ u \in FtpSessions /\ u.due = s.due /\ u.owed = s.owed /\ u.causes = s.causes
      /\ u.srv = s.srv /\ u.sd = a /\ u.xfer = x /\ u.ud = b /\ u.cfg = s.cfg /\ u.tls = s.tls
      /\ u.flags = s.flags
  BY <1>1, FtpData
<1>3. Alike(s, u)
  BY <1>1, FtpData DEF Alike, Accepted
<1>4. FtpBase(u) /\ u.mode \in {"serving", "crashed"}
  BY <1>2, <1>3, AlikeBase DEF On, Alike
<1>5. Left(u, FtpOverlap) \/ Loops(u)
  BY <1>3, StaysLeft DEF On, Alike, Loops
<1>6. "step" \in Y => StepAt(u, k)
  BY <1>2 DEF On, StepAt, Left
<1>7. "quiet" \in Y => Quiet(u)
  BY <1>2 DEF On, Quiet, Left
<1>8. "user" \in Y => UserDataOk(u)
  BY <1>2 DEF On, UserDataOk, Left
<1>9. QED
  BY <1>2, <1>4, <1>5, <1>6, <1>7, <1>8 DEF On

\* The name is sent in clear where it may be.
Nameable(s, c) == c = TRUE => s.clear \/ ~({"try", "require"} \subseteq s.cfg)

\* A connection over which it is sent.
LEMMA OnNamed ==
  ASSUME NEW s, NEW k, NEW X, On(s, k, X), NEW b \in Truths, NEW c \in Truths,
         Nameable(s, c), NEW u, u = Named(s, b, c)
  PROVE  /\ On(u, k, X) /\ u.tls = b /\ u.cfg = s.cfg
<1>1. s \in FtpSessions
  BY OnType
<1>2. /\ u \in FtpSessions /\ u.due = s.due /\ u.owed = s.owed /\ u.causes = s.causes
      /\ u.sd = s.sd /\ u.xfer = s.xfer /\ u.ud = s.ud /\ u.cfg = s.cfg /\ u.tls = b
      /\ u.mode = s.mode /\ u.stack = s.stack /\ u.lost = s.lost /\ u.claim = s.claim
      /\ u.clear = c /\ u.userfd = s.userfd /\ u.flags = s.flags
  BY <1>1, FtpNamedUser
<1>3. FtpBase(u)
  BY <1>2 DEF On, FtpBase, NameOk, Left, Nameable
<1>4. Left(u, FtpOverlap) \/ Loops(u)
  BY <1>2 DEF On, Loops, Accepted, Left
<1>5. /\ "step" \in X => StepAt(u, k)
      /\ "quiet" \in X => Quiet(u)
      /\ "user" \in X => UserDataOk(u)
  BY <1>2 DEF On, StepAt, Quiet, UserDataOk, Left
<1>6. QED
  BY <1>2, <1>3, <1>4, <1>5 DEF On

\* What answers the command at work keeps the invariant.
LEMMA OnDone ==
  ASSUME NEW s, On(s, 0, Aspects)
  PROVE  FtpOk(s)
BY DEF On, FtpOk, Phase, Resting, Quiet, Aspects

\* Flags that the control connection sets.
LEMMA FtpFlags ==
  {"CONNECTED", "LOGGED_IN", "SRV_TLS", "SRV_DATA_TLS", "PBSZ", "CLI_DATA_TLS", "PASV",
   "PORT", "BLOCK"} \subseteq Ftp!Flags \ {"SERVER_ACCEPT"}
BY Zenon DEF Ftp!Flags

\* PassOn(): the user has the reply, unless the server has gone.
LEMMA OnPassOn ==
  ASSUME NEW a, NEW X, On(a[2], 1, X)
  PROVE  On(Ftp!PassOn(a), 0, X)
<1>1. On(Ftp!Reply(a[2]), 1 - 1, X)
  BY OnReply
<1>2. On(Ftp!Reply(a[2]), 0, X)
  BY <1>1
<1>3. CASE a[1] = "230"
  <2>1. {"LOGGED_IN"} \in SUBSET (Ftp!Flags \ {"SERVER_ACCEPT"})
    BY FtpFlags
  <2>2. On(Ftp!Set(Ftp!Reply(a[2]), {"LOGGED_IN"}), 0, X)
    BY <1>2, <2>1, OnSet
  <2>3. QED
    BY <1>3, <2>2 DEF Ftp!PassOn
<1>4. CASE a[1] = "221"
  <2>1. On(a[2], 1, X \ {"step"}) /\ "gone" \in FtpOut
    BY FtpNames DEF On
  <2>2. On(Ftp!Cause(a[2], "gone"), 0, X)
    BY <2>1, OnOut
  <2>3. QED
    BY <1>4, <2>2 DEF Ftp!PassOn
<1>5. CASE a[1] # "230" /\ a[1] # "221"
  BY <1>2, <1>5 DEF Ftp!PassOn
<1>6. QED
  BY <1>3, <1>4, <1>5

\* The name may be sent: not in clear where that is forbidden.
MayName(s) == {"try", "require"} \subseteq s.cfg => s.tls

\* Login(): the user has an answer.
LEMMA OnLogin ==
  ASSUME NEW s, NEW X, On(s, 1, X), MayName(s), NEW u \in Ftp!Login(s)
  PROVE  On(u, 0, X)
<1>1. s \in FtpSessions
  BY OnType
<1>2. s.clear \in Truths /\ s.tls \in Truths /\ s.userfd \in Truths
  BY <1>1, FtpParts
<1>3. (s.clear \/ ~s.tls) \in Truths
  BY DEF Truths
<1>4. PICK c \in Truths : c = (s.clear \/ ~s.tls)
  BY <1>3
<1>5. PICK t : t = [s EXCEPT !.clear = @ \/ ~s.tls]
  OBVIOUS
<1>6. t = Named(s, s.tls, c)
  <2>1. t = [s EXCEPT !.clear = c]
    BY <1>4, <1>5
  <2>2. QED
    BY <1>1, <2>1, ZenonT(60) DEF Named, FtpSessions
<1>8. Nameable(s, c)
  BY <1>2, <1>4 DEF MayName, Nameable, Truths
<1>9. On(t, 1, X)
  BY <1>2, <1>6, <1>8, OnNamed
<1>10. {"230", "331", "500"} \subseteq FtpReplies
  BY DEF FtpReplies
<1>11. PICK a \in Ftp!Ask(t, {"230", "331", "500"}) : u = Ftp!Set(Ftp!PassOn(a), {"CONNECTED"})
  BY <1>5, Zenon DEF Ftp!Login
<1>12. On(a[2], 1, X)
  BY <1>9, <1>10, <1>11, OnAsk
<1>13. On(Ftp!PassOn(a), 0, X)
  BY <1>12, OnPassOn
<1>14. {"CONNECTED"} \in SUBSET (Ftp!Flags \ {"SERVER_ACCEPT"})
  BY FtpFlags
<1>15. QED
  BY <1>11, <1>13, <1>14, OnSet

\* A session that cannot go on, or does not stop.
LEMMA TurnedOk ==
  ASSUME NEW s, FtpBase(s), UserDataOk(s), NEW m \in FtpModes \ {"serving"},
         m = "crashed" => Left(s, FtpFatal), NEW v \in FtpServers
  PROVE  FtpOk(Turned(s, m, v))
<1> PICK u : u = Turned(s, m, v)
  OBVIOUS
<1>1. s \in FtpSessions /\ m \in FtpModes /\ m # "serving"
  BY DEF FtpBase
<1>2. /\ u \in FtpSessions /\ u.due = s.due /\ u.owed = s.owed /\ u.causes = s.causes
      /\ u.sd = s.sd /\ u.xfer = s.xfer /\ u.ud = s.ud /\ u.cfg = s.cfg
      /\ u.mode = m /\ u.stack = s.stack /\ u.lost = s.lost /\ u.claim = s.claim
      /\ u.clear = s.clear /\ u.userfd = s.userfd /\ u.flags = s.flags
  BY <1>1, FtpTurned
<1>3. FtpBase(u)
  BY <1>1, <1>2 DEF FtpBase, NameOk, Left
<1>4. UserDataOk(u)
  BY <1>2 DEF UserDataOk, Left
<1>5. QED
  BY <1>1, <1>2, <1>3, <1>4 DEF FtpOk

\* A child that crashes.
LEMMA CrashOk ==
  ASSUME NEW s, FtpBase(s), UserDataOk(s), Left(s, FtpFatal)
  PROVE  FtpOk(Ftp!Crash(s))
<1>1. s \in FtpSessions
  BY DEF FtpBase
<1>2. s.srv \in FtpServers /\ "crashed" \in FtpModes \ {"serving"}
  BY <1>1, FtpParts DEF FtpModes
<1>3. Ftp!Crash(s) = Turned(s, "crashed", s.srv)
  BY <1>1, ZenonT(60) DEF Ftp!Crash, Turned, FtpSessions
<1>4. FtpOk(Turned(s, "crashed", s.srv))
  BY <1>2, TurnedOk
<1>5. QED
  BY <1>3, <1>4

\* What is tried with TLS: the login goes on where the name may be sent.
Tried(r) ==
  \/ r[1] = TRUE /\ On(r[2], 1, Aspects) /\ MayName(r[2])
  \/ r[1] = FALSE /\ On(r[2], 0, Aspects)

GivesUp(t) ==
  IF "require" \in t.cfg THEN <<FALSE, Ftp!Reply(t)>> ELSE <<TRUE, t>>

\* Without TLS the login goes on only where TLS is not required.
LEMMA GivesUpTried ==
  ASSUME NEW t, On(t, 1, Aspects)
  PROVE  Tried(GivesUp(t))
<1> PICK r : r = GivesUp(t)
  OBVIOUS
<1>1. On(Ftp!Reply(t), 1 - 1, Aspects)
  BY OnReply
<1>2. On(Ftp!Reply(t), 0, Aspects)
  BY <1>1
<1>3. CASE "require" \in t.cfg
  <2>1. r = <<FALSE, Ftp!Reply(t)>>
    BY <1>3 DEF GivesUp
  <2>2. r[1] = FALSE /\ r[2] = Ftp!Reply(t)
    BY <2>1
  <2>3. QED
    BY <1>2, <2>2 DEF Tried
<1>4. CASE "require" \notin t.cfg
  <2>1. r = <<TRUE, t>>
    BY <1>4 DEF GivesUp
  <2>2. r[1] = TRUE /\ r[2] = t
    BY <2>1
  <2>3. QED
    BY <1>4, <2>2 DEF Tried, MayName
<1>5. QED
  BY <1>3, <1>4

Secured(t) == Ftp!Set([t EXCEPT !.tls = TRUE], {"SRV_TLS"})

\* The handshake with the server changes no aspect.
LEMMA OnSecured ==
  ASSUME NEW s, NEW k, NEW X, On(s, k, X)
  PROVE  On(Secured(s), k, X) /\ Secured(s).tls = TRUE
<1>1. s \in FtpSessions
  BY OnType
<1>2. s.clear \in Truths /\ Nameable(s, s.clear)
  BY <1>1, FtpParts DEF Nameable
<1>9. PICK b \in Truths : b = TRUE
  BY DEF Truths
<1>3. PICK t : t = [s EXCEPT !.tls = TRUE]
  OBVIOUS
<1>4. t = Named(s, b, s.clear)
  BY <1>1, <1>3, <1>9, ZenonT(60) DEF Named, FtpSessions
<1>5. On(t, k, X) /\ t.tls = b
  BY <1>2, <1>4, OnNamed
<1>6. {"SRV_TLS"} \in SUBSET (Ftp!Flags \ {"SERVER_ACCEPT"})
  BY FtpFlags
<1>7. Secured(s) = Ftp!Set(t, {"SRV_TLS"})
  BY <1>3 DEF Secured
<1>8. On(Secured(s), k, X) /\ Secured(s).tls = t.tls
  BY <1>5, <1>6, <1>7, OnSet
<1>10. QED
  BY <1>5, <1>8, <1>9

Protects(t) ==
  IF "data" \notin t.cfg THEN {<<TRUE, t>>}
  ELSE UNION {IF p[1] # "200" THEN {<<TRUE, p[2]>>}
              ELSE {<<TRUE, IF q[1] = "200" THEN Ftp!Set(q[2], {"SRV_DATA_TLS"}) ELSE q[2]>>
                    : q \in Ftp!Ask(p[2], {"200", "500"})}
              : p \in Ftp!Ask(t, {"200", "500"})}

\* PBSZ and PROT leave a connection over which the name may be sent.
LEMMA ProtectsTried ==
  ASSUME NEW t, On(t, 1, Aspects), t.tls = TRUE, NEW r \in Protects(t)
  PROVE  Tried(r)
<1>1. {"200", "500"} \subseteq FtpReplies
  BY DEF FtpReplies
<1>2. ASSUME NEW u, On(u, 1, Aspects), u.tls = TRUE, r = <<TRUE, u>>
      PROVE  Tried(r)
  <2>1. r[1] = TRUE /\ r[2] = u
    BY <1>2
  <2>2. QED
    BY <1>2, <2>1 DEF Tried, MayName
<1>3. CASE "data" \notin t.cfg
  BY <1>2, <1>3, Zenon DEF Protects
<1>4. CASE "data" \in t.cfg
  <2>1. PICK p \in Ftp!Ask(t, {"200", "500"}) :
            r \in IF p[1] # "200" THEN {<<TRUE, p[2]>>}
                  ELSE {<<TRUE, IF q[1] = "200" THEN Ftp!Set(q[2], {"SRV_DATA_TLS"})
                                ELSE q[2]>> : q \in Ftp!Ask(p[2], {"200", "500"})}
    BY <1>4, Zenon DEF Protects
  <2>2. On(p[2], 1, Aspects) /\ p[2].tls = TRUE
    BY <1>1, <2>1, OnAsk DEF SameEnds
  <2>3. CASE p[1] # "200"
    BY <1>2, <2>1, <2>2, <2>3, Zenon
  <2>4. CASE p[1] = "200"
    <3>1. PICK q \in Ftp!Ask(p[2], {"200", "500"}) :
              r = <<TRUE, IF q[1] = "200" THEN Ftp!Set(q[2], {"SRV_DATA_TLS"}) ELSE q[2]>>
      BY <2>1, <2>4, Zenon
    <3>2. On(q[2], 1, Aspects) /\ q[2].tls = TRUE
      BY <1>1, <2>2, <3>1, OnAsk DEF SameEnds
    <3>3. {"SRV_DATA_TLS"} \in SUBSET (Ftp!Flags \ {"SERVER_ACCEPT"})
      BY FtpFlags
    <3>4. /\ On(Ftp!Set(q[2], {"SRV_DATA_TLS"}), 1, Aspects)
          /\ Ftp!Set(q[2], {"SRV_DATA_TLS"}).tls = TRUE
      BY <3>2, <3>3, OnSet
    <3>5. CASE q[1] = "200"
      BY <1>2, <3>1, <3>4, <3>5, Zenon
    <3>6. CASE q[1] # "200"
      BY <1>2, <3>1, <3>2, <3>6, Zenon
    <3>7. QED
      BY <3>5, <3>6
  <2>5. QED
    BY <2>3, <2>4
<1>5. QED
  BY <1>3, <1>4

\* AttemptTLSLogin(): a login that goes on may send the user's name.
LEMMA AttemptTried ==
  ASSUME NEW s, On(s, 1, Aspects), NEW r \in Ftp!AttemptTLSLogin(s)
  PROVE  Tried(r)
<1>1. {"234", "500"} \subseteq FtpReplies /\ {"500"} \subseteq FtpReplies
  BY DEF FtpReplies
<1>2. PICK a \in Ftp!Ask(s, {"234", "500"}) :
        r \in IF a[1] # "234" THEN {GivesUp(a[2])}
              ELSE Protects(Secured(a[2])) \cup {GivesUp(b[2]) : b \in Ftp!Ask(a[2], {"500"})}
  BY Zenon DEF Ftp!AttemptTLSLogin, GivesUp, Protects, Secured
<1>3. On(a[2], 1, Aspects)
  BY <1>1, <1>2, OnAsk
<1>4. CASE r = GivesUp(a[2])
  BY <1>3, <1>4, GivesUpTried
<1>5. CASE r \in Protects(Secured(a[2]))
  BY <1>3, <1>5, OnSecured, ProtectsTried
<1>6. ASSUME NEW b \in Ftp!Ask(a[2], {"500"}), r = GivesUp(b[2])
      PROVE  Tried(r)
  <2>1. On(b[2], 1, Aspects)
    BY <1>1, <1>3, OnAsk
  <2>2. QED
    BY <1>6, <2>1, GivesUpTried
<1>7. QED
  BY <1>2, <1>4, <1>5, <1>6, Zenon

\* ServerLogin(): the USER is answered.
LEMMA OnServerLogin ==
  ASSUME NEW s, On(s, 1, Aspects), NEW u \in Ftp!ServerLogin(s)
  PROVE  On(u, 0, Aspects)
<1>1. {"220", "500"} \subseteq FtpReplies
  BY DEF FtpReplies
<1>2. PICK g \in Ftp!Ask(s, {"220", "500"}) :
        u \in IF g[1] # "220" THEN {Ftp!Cause(g[2], "greeting")}
              ELSE IF "try" \notin s.cfg THEN Ftp!Login(g[2])
              ELSE UNION {IF t[1] THEN Ftp!Login(t[2]) ELSE {t[2]}
                          : t \in Ftp!AttemptTLSLogin(g[2])}
  BY Zenon DEF Ftp!ServerLogin
<1>3. On(g[2], 1, Aspects) /\ g[2].cfg = s.cfg
  BY <1>1, <1>2, OnAsk DEF SameEnds
<1>4. CASE u = Ftp!Cause(g[2], "greeting")
  <2>1. On(g[2], 1, Aspects \ {"step"}) /\ "greeting" \in FtpOut
    BY <1>3, FtpNames DEF On
  <2>2. QED
    BY <1>4, <2>1, OnOut
<1>5. CASE u \in Ftp!Login(g[2]) /\ "try" \notin s.cfg
  <2>1. MayName(g[2])
    BY <1>3, <1>5 DEF MayName
  <2>2. QED
    BY <1>3, <1>5, <2>1, OnLogin
<1>6. ASSUME NEW t \in Ftp!AttemptTLSLogin(g[2]), u \in IF t[1] THEN Ftp!Login(t[2]) ELSE {t[2]}
      PROVE  On(u, 0, Aspects)
  <2>1. Tried(t)
    BY <1>3, <1>6, AttemptTried
  <2>2. CASE t[1] = TRUE /\ On(t[2], 1, Aspects) /\ MayName(t[2])
    <3>1. u \in Ftp!Login(t[2])
      BY <1>6, <2>2
    <3>2. QED
      BY <2>2, <3>1, OnLogin
  <2>3. CASE t[1] = FALSE /\ On(t[2], 0, Aspects)
    BY <1>6, <2>3
  <2>4. QED
    BY <2>1, <2>2, <2>3 DEF Tried
<1>7. QED
  BY <1>2, <1>4, <1>5, <1>6, Zenon

\* Another connection to the server, of which nothing is owed.
Nothing(x, y) == x = <<>> /\ y = "no"

\* The new connection changes no aspect, for there is no transfer and no reply.
LEMMA OnFresh ==
  ASSUME NEW s, On(s, 1, Aspects), NEW v \in FtpServers, NEW b \in Truths,
         NEW x \in Seq(FtpReplies), NEW y \in FtpWays, Nothing(x, y),
         NEW u, u = Fresh(s, v, b, x, y)
  PROVE  On(u, 1, Aspects)
<1>1. s \in FtpSessions
  BY OnType
<1>2. /\ u \in FtpSessions /\ u.due = s.due /\ u.owed = x /\ u.causes = s.causes
      /\ u.sd = s.sd /\ u.xfer = y /\ u.ud = s.ud
  BY <1>1, FtpFresh
<1>3. Alike(s, u)
  BY <1>1, FtpFresh DEF Alike, Accepted
<1>4. (StepAt(s, 1) => StepAt(u, 1)) /\ (Quiet(s) => Quiet(u)) /\ (UserDataOk(s) => UserDataOk(u))
  BY <1>2 DEF StepAt, Quiet, UserDataOk, Left, Nothing
<1>5. QED
  BY <1>2, <1>3, <1>4, AlikeOn

\* ConnectToServer(): a USER is answered, and another one.
LEMMA OnConnectToServer ==
  ASSUME NEW s, On(s, 1, Aspects), NEW u \in Ftp!ConnectToServer(s)
  PROVE  On(u, 0, Aspects)
<1>1. PICK off : off = Ftp!Clear(s, {"CONNECTED"})
  OBVIOUS
<1>2. PICK new : new = [off EXCEPT !.srv = "up", !.tls = FALSE, !.owed = <<>>, !.xfer = "no"]
  OBVIOUS
<1>3. PICK none : none = [new EXCEPT !.srv = "gone"]
  OBVIOUS
<1>4. On(off, 1, Aspects)
  BY <1>1, OnClear
<1>5. off \in FtpSessions
  BY <1>4, OnType
<1>6. PICK up \in FtpServers : up = "up"
  BY DEF FtpServers
<1>7. PICK gone \in FtpServers : gone = "gone"
  BY DEF FtpServers
<1>8. PICK b \in Truths : b = FALSE
  BY DEF Truths
<1>90. <<>> \in Seq(FtpReplies)
  OBVIOUS
<1>9. PICK x \in Seq(FtpReplies) : x = <<>>
  BY <1>90
<1>10. PICK y \in FtpWays : y = "no"
  BY DEF FtpWays
<1>11. new = Fresh(off, up, b, x, y)
  BY <1>2, <1>6, <1>8, <1>9, <1>10, Zenon DEF Fresh
<1>30. Nothing(x, y)
  BY <1>9, <1>10 DEF Nothing
<1>12. On(new, 1, Aspects)
  BY <1>4, <1>11, <1>30, OnFresh
<1>13. none = Fresh(new, gone, b, x, y)
  <2>1. new.tls = b /\ new.owed = x /\ new.xfer = y /\ new \in FtpSessions
    BY <1>5, <1>11, FtpFresh
  <2>2. QED
    BY <1>3, <1>7, <2>1, ZenonT(60) DEF Fresh, FtpSessions
<1>14. On(none, 1, Aspects)
  BY <1>12, <1>13, <1>30, OnFresh
<1>15. CASE u = Ftp!Reply(off)
  <2>1. On(u, 1 - 1, Aspects)
    BY <1>4, <1>15, OnReply
  <2>2. QED
    BY <2>1
<1>16. CASE u = Ftp!Reply(none)
  <2>1. On(u, 1 - 1, Aspects)
    BY <1>14, <1>16, OnReply
  <2>2. QED
    BY <2>1
<1>17. CASE u \in Ftp!ServerLogin(new)
  BY <1>12, <1>17, OnServerLogin
<1>18. CASE u \in Ftp!ServerLogin(Ftp!Cause(new, "relogin"))
  <2>1. "relogin" \in FtpCauses
    BY FtpNamed
  <2>2. On(Ftp!Cause(new, "relogin"), 1, Aspects)
    BY <1>12, <2>1, OnCause
  <2>3. QED
    BY <1>18, <2>2, OnServerLogin
<1>19. u \in {Ftp!Reply(off)} \cup {Ftp!Reply(none)}
             \cup Ftp!ServerLogin(IF s.srv = "none" THEN new ELSE Ftp!Cause(new, "relogin"))
  BY <1>1, <1>2, <1>3, Zenon DEF Ftp!ConnectToServer
<1>20. QED
  BY <1>15, <1>16, <1>17, <1>18, <1>19, Zenon

\* Replies that answer the command.
LEMMA OnAnswer ==
  ASSUME NEW s, NEW X, On(s, 1, X)
  PROVE  On(Ftp!Reply(s), 0, X)
<1>1. On(Ftp!Reply(s), 1 - 1, X)
  BY OnReply
<1>2. QED
  BY <1>1

\* The aspects of the data connection.
Ends == {"quiet", "user"}

\* A handler that is at work is so in those aspects, whatever is owed.
LEMMA OnEnds ==
  /\ "step" \notin Ends /\ Ends \subseteq Aspects
  /\ \A s, k : On(s, k, Aspects) => On(s, 0, Ends)
BY DEF Ends, Aspects, On

\* A handler that is at work there is in step when it was and left nothing to be said.
LEMMA OnAgain ==
  ASSUME NEW s, NEW u, On(s, 1, Aspects), NEW k, On(u, k, Ends), s.causes \subseteq u.causes,
         s.due = 1 /\ s.owed = <<>> => u.due = 0 /\ u.owed = <<>>
  PROVE  On(u, 0, Aspects)
<1>1. StepAt(s, 1)
  BY DEF On, Aspects
<1>2. StepAt(u, 0)
  BY <1>1, StaysLeft DEF StepAt
<1>3. QED
  BY <1>2 DEF On, Aspects, Ends

\* The parts of a session with a reply that matter to the next one.
LEMMA ReplyParts ==
  ASSUME NEW s \in FtpSessions
  PROVE  /\ Ftp!Reply(s).due = s.due - 1 /\ Ftp!Reply(s).owed = s.owed
         /\ Ftp!Reply(s).causes = s.causes /\ Ftp!Reply(s).srv = s.srv
<1>1. PICK d \in Int : d = s.due - 1
  BY FtpParts
<1>2. Ftp!Reply(s) = Owed(s, d)
  BY <1>1, Zenon DEF Owed, Ftp!Reply
<1>3. QED
  BY <1>1, <1>2, FtpOwed

\* ForwardReply(): after a reply of several lines the rest is out of step.
LEMMA ForwardReplyOk ==
  ASSUME NEW s, On(s, 1, Aspects), NEW t, On(t, 0, Ends), SameEnds(s, t), t.due = s.due,
         t.owed = s.owed \/ (\E r : t.owed = Append(s.owed, r)),
         NEW u \in Ftp!ForwardReply(t)
  PROVE  FtpOk(u)
<1>1. t \in FtpSessions /\ s \in FtpSessions
  BY OnType
<1>2. t.owed \in Seq(FtpReplies)
  BY <1>1, FtpParts
<1>3. PICK v : v = Ftp!Reply(t)
  OBVIOUS
<1>4. /\ On(v, 0 - 1, Ends) /\ v.due = s.due - 1 /\ v.owed = t.owed /\ v.causes = t.causes
      /\ v.srv = t.srv
  BY <1>1, <1>3, OnReply, ReplyParts
<1>5. v \in FtpSessions /\ v.srv \in FtpServers
  BY <1>1, <1>4, OnType, FtpParts
<1>6. PICK gone \in FtpServers : gone = "gone"
  BY DEF FtpServers
<1>7. CASE t.owed = <<>>
  <2>1. u = [v EXCEPT !.srv = "gone"]
    BY <1>3, <1>7 DEF Ftp!ForwardReply
  <2>2. u = Told(v, t.owed, gone)
    BY <1>4, <1>5, <1>6, <2>1, ZenonT(60) DEF Told, FtpSessions
  <2>3. On(u, 0 - 1, Ends) /\ u.owed = t.owed /\ u.due = v.due /\ u.causes = v.causes
    BY <1>2, <1>4, <2>2, OnTold, OnEnds
  <2>4. QED
    BY <1>4, <1>7, <2>3, OnAgain, OnDone DEF SameEnds
<1>8. ASSUME t.owed # <<>>, NEW x \in Seq(FtpReplies), u = [v EXCEPT !.owed = x], x = Tail(t.owed)
      PROVE  FtpOk(u)
  <2>1. u = Told(v, x, v.srv)
    BY <1>4, <1>5, <1>8, ZenonT(60) DEF Told, FtpSessions
  <2>2. On(u, 0 - 1, Ends) /\ u.owed = x /\ u.due = v.due /\ u.causes = v.causes
    BY <1>4, <1>5, <2>1, OnTold, OnEnds
  <2>3. s.owed = <<>> => x = <<>>
    <3>1. s.owed = <<>> => \E r : t.owed = <<r>>
      BY <1>8
    <3>2. QED
      BY <1>8, <3>1, HeadOfOne
  <2>4. QED
    BY <1>4, <2>2, <2>3, OnAgain, OnDone DEF SameEnds
<1>9. ASSUME NEW x \in Seq(FtpReplies), u = Ftp!Cause([v EXCEPT !.owed = x], "multi")
      PROVE  FtpOk(u)
  <2>1. PICK w : w = Told(v, x, v.srv)
    OBVIOUS
  <2>2. w = [v EXCEPT !.owed = x]
    BY <1>5, <2>1, ZenonT(60) DEF Told, FtpSessions
  <2>3. On(w, 0 - 1, Ends)
    BY <1>4, <1>5, <2>1, OnTold, OnEnds
  <2>4. On(w, 0 - 1, Aspects \ {"step"}) /\ "multi" \in FtpOut
    BY <2>3, FtpNames DEF On, Ends, Aspects
  <2>5. On(u, 0, Aspects)
    BY <1>9, <2>2, <2>4, OnOut
  <2>6. QED
    BY <2>5, OnDone
<1>10. ASSUME u = [v EXCEPT !.mode = "spinning", !.srv = "gone"]
       PROVE  FtpOk(u)
  <2>1. PICK m \in FtpModes \ {"serving"} : m = "spinning"
    BY DEF FtpModes
  <2>2. u = Turned(v, m, gone)
    BY <1>6, <1>10, <2>1, Zenon DEF Turned
  <2>3. FtpBase(v) /\ UserDataOk(v) /\ m # "crashed"
    BY <1>4, <2>1 DEF Ends, On
  <2>4. QED
    BY <2>2, <2>3, TurnedOk
<1>11. CASE t.owed # <<>>
  <2>1. Tail(t.owed) \in Seq(FtpReplies)
    BY <1>2, <1>11, HeadTailProperties
  <2>2. "200" \in FtpReplies
    BY DEF FtpReplies
  <2>3. <<"200">> \o Tail(t.owed) \in Seq(FtpReplies)
    BY <2>1, <2>2
  <2>4. \/ u = [v EXCEPT !.owed = Tail(v.owed)]
        \/ u = Ftp!Cause([v EXCEPT !.owed = <<"200">> \o Tail(v.owed)], "multi")
        \/ u = [v EXCEPT !.mode = "spinning", !.srv = "gone"]
    BY <1>3, <1>11, Zenon DEF Ftp!ForwardReply
  <2>5. QED
    BY <1>4, <1>8, <1>9, <1>10, <1>11, <2>1, <2>3, <2>4
<1>12. QED
  BY <1>7, <1>11

\* ForwardCmd().
LEMMA ForwardCmdOk ==
  ASSUME NEW s, On(s, 1, Aspects), NEW u \in Ftp!ForwardCmd(s)
  PROVE  FtpOk(u)
<1>1. {"200", "multi"} \subseteq FtpReplies
  BY DEF FtpReplies
<1>2. PICK t \in Ftp!Send(s, {"200", "multi"}) : u \in Ftp!ForwardReply(t)
  BY Zenon DEF Ftp!ForwardCmd
<1>3. On(s, 0, Ends)
  BY OnEnds
<1>4. /\ On(t, 0, Ends) /\ SameEnds(s, t) /\ t.due = s.due
      /\ t.owed = s.owed \/ \E r \in {"200", "multi"} : t.owed = Append(s.owed, r)
  BY <1>1, <1>2, <1>3, OnSend, OnEnds
<1>5. t.owed = s.owed \/ \E r : t.owed = Append(s.owed, r)
  BY <1>4
<1>6. QED
  BY <1>2, <1>4, <1>5, ForwardReplyOk

\* CmdAuth(): the user's descriptor is lost, or there are two replies, and this is noted.
LEMMA CmdAuthOk ==
  ASSUME NEW s, On(s, 1, Aspects), NEW u \in Ftp!CmdAuth(s)
  PROVE  FtpOk(u)
<1>1. CASE u = Ftp!Reply(s)
  BY <1>1, OnAnswer, OnDone
<1>2. CASE u = Ftp!Cause(Ftp!Reply(Ftp!Reply(s)), "handshake")
  <2>1. On(Ftp!Reply(s), 0, Aspects)
    BY OnAnswer
  <2>2. On(Ftp!Reply(Ftp!Reply(s)), 0 - 1, Aspects)
    BY <2>1, OnReply
  <2>3. On(Ftp!Reply(Ftp!Reply(s)), 0 - 1, Aspects \ {"step"})
    BY <2>2 DEF On
  <2>4. "handshake" \in FtpOut
    BY FtpNames
  <2>5. On(Ftp!Cause(Ftp!Reply(Ftp!Reply(s)), "handshake"), 0, Aspects)
    BY <2>3, <2>4, OnOut
  <2>6. QED
    BY <1>2, <2>5, OnDone
<1>3. ASSUME u = Ftp!Cause(Ftp!Reply([s EXCEPT !.userfd = FALSE]), "auth")
      PROVE  FtpOk(u)
  <2>1. PICK w : w = Ftp!Cause(Ftp!Reply(s), "auth")
    OBVIOUS
  <2>2. "auth" \in FtpCauses
    BY FtpNamed
  <2>3. On(w, 0, Aspects) /\ "auth" \in w.causes
    BY <2>1, <2>2, OnAnswer, OnCause
  <2>4. PICK b \in Truths : b = FALSE
    BY DEF Truths
  <2>5. s \in FtpSessions /\ w \in FtpSessions
    BY <2>3, OnType
  <2>6. u = Wrapped(w, b)
    <3>1. u = [w EXCEPT !.userfd = FALSE]
      <4>1. PICK v : v = [s EXCEPT !.userfd = FALSE]
        OBVIOUS
      <4>2. PICK t : t = Ftp!Reply(v)
        OBVIOUS
      <4>3. v.due = s.due /\ v.causes = s.causes
        BY <2>5, <4>1, ZenonT(60) DEF FtpSessions
      <4>4. t = [[s EXCEPT !.userfd = FALSE] EXCEPT !.due = s.due - 1]
        BY <4>1, <4>2, <4>3, Zenon DEF Ftp!Reply
      <4>5. t.causes = s.causes
        BY <2>5, <4>4, ZenonT(60) DEF FtpSessions
      <4>6. u = [[[s EXCEPT !.userfd = FALSE] EXCEPT !.due = s.due - 1]
                 EXCEPT !.causes = s.causes \cup {"auth"}]
        BY <1>3, <4>1, <4>2, <4>4, <4>5, Zenon DEF Ftp!Cause
      <4>7. Ftp!Reply(s).causes = s.causes
        BY <2>5, ReplyParts
      <4>8. w = [[s EXCEPT !.due = s.due - 1] EXCEPT !.causes = s.causes \cup {"auth"}]
        BY <2>1, <4>7, Zenon DEF Ftp!Cause, Ftp!Reply
      <4>9. QED
        BY <2>5, <4>6, <4>8 DEF FtpSessions
    <3>2. QED
      BY <2>4, <3>1, Zenon DEF Wrapped
  <2>7. /\ u \in FtpSessions /\ u.due = w.due /\ u.owed = w.owed /\ u.causes = w.causes
        /\ u.sd = w.sd /\ u.xfer = w.xfer /\ u.ud = w.ud /\ u.cfg = w.cfg
        /\ u.mode = w.mode /\ u.stack = w.stack /\ u.lost = w.lost /\ u.claim = w.claim
        /\ u.clear = w.clear /\ u.flags = w.flags
    BY <2>5, <2>6, FtpWrapped
  <2>8. On(u, 0, Aspects)
    BY <2>3, <2>7 DEF On, FtpBase, NameOk, Left, Loops, Accepted, StepAt, Quiet, UserDataOk
  <2>9. QED
    BY <2>8, OnDone
<1>4. QED
  BY <1>1, <1>2, <1>3, Zenon DEF Ftp!CmdAuth

\* CmdPass(): the user has the reply, but with no server the child crashes.
LEMMA CmdPassOk ==
  ASSUME NEW s, On(s, 1, Aspects), NEW u \in Ftp!CmdPass(s)
  PROVE  FtpOk(u)
<1>1. CASE s.srv = "none"
  <2>1. u = Ftp!Crash(Ftp!Cause(s, "pass"))
    BY <1>1 DEF Ftp!CmdPass
  <2>2. "pass" \in FtpCauses /\ "pass" \in FtpFatal
    BY FtpNamed, FtpNames
  <2>3. On(Ftp!Cause(s, "pass"), 1, Aspects) /\ Left(Ftp!Cause(s, "pass"), FtpFatal)
    BY <2>2, OnCause DEF Left
  <2>4. FtpBase(Ftp!Cause(s, "pass")) /\ UserDataOk(Ftp!Cause(s, "pass"))
    BY <2>3 DEF Aspects, On
  <2>5. QED
    BY <2>1, <2>3, <2>4, CrashOk
<1>2. CASE s.srv # "none"
  <2>1. {"230", "500"} \subseteq FtpReplies
    BY DEF FtpReplies
  <2>2. PICK a \in Ftp!Ask(s, {"230", "500"}) : u = Ftp!PassOn(a)
    BY <1>2, Zenon DEF Ftp!CmdPass
  <2>3. On(a[2], 1, Aspects)
    BY <2>1, <2>2, OnAsk
  <2>4. QED
    BY <2>2, <2>3, OnPassOn, OnDone
<1>3. QED
  BY <1>1, <1>2

\* CmdPbsz() and CmdProt() are answered and set flags.
LEMMA CmdPbszOk ==
  ASSUME NEW s, On(s, 1, Aspects), NEW u \in Ftp!CmdPbsz(s)
  PROVE  FtpOk(u)
<1>1. {"PBSZ"} \in SUBSET (Ftp!Flags \ {"SERVER_ACCEPT"})
  BY FtpFlags
<1>2. u = Ftp!Reply(s) \/ u = Ftp!Set(Ftp!Reply(s), {"PBSZ"})
  BY Zenon DEF Ftp!CmdPbsz
<1>3. On(u, 0, Aspects)
  BY <1>1, <1>2, OnAnswer, OnSet
<1>4. QED
  BY <1>3, OnDone

\* PROT.
LEMMA CmdProtOk ==
  ASSUME NEW s, On(s, 1, Aspects), NEW u \in Ftp!CmdProt(s)
  PROVE  FtpOk(u)
<1>1. {"CLI_DATA_TLS"} \in SUBSET (Ftp!Flags \ {"SERVER_ACCEPT"})
  BY FtpFlags
<1>2. PICK t : t = Ftp!Clear(Ftp!Reply(s), {"PBSZ"})
  OBVIOUS
<1>3. On(Ftp!Reply(s), 0, Aspects)
  BY OnAnswer
<1>4. On(t, 0, Aspects)
  BY <1>2, <1>3, OnClear
<1>5. \/ u = Ftp!Reply(s)
      \/ u = Ftp!Set(t, {"CLI_DATA_TLS"})
      \/ u = Ftp!Clear(t, {"CLI_DATA_TLS"})
  BY <1>2, Zenon DEF Ftp!CmdProt
<1>6. On(u, 0, Aspects)
  BY <1>1, <1>3, <1>4, <1>5, OnSet, OnClear
<1>7. QED
  BY <1>6, OnDone

\* `delete UserData': the child crashes if it was deleted before, which EPSV does.
LEMMA OnDelete ==
  ASSUME NEW s, NEW k, NEW X, On(s, k, X), "user" \in X, NEW u \in Ftp!Delete(s)
  PROVE  On(u, k, X) /\ SameEnds(s, u) /\ u.mode \in {s.mode, "crashed"}
<1>1. u = s \/ (u = Ftp!Crash(s) /\ s.ud = "dangling")
  BY DEF Ftp!Delete
<1>2. ASSUME u = Ftp!Crash(s), s.ud = "dangling"
      PROVE  On(u, k, X) /\ SameEnds(s, u) /\ u.mode \in {s.mode, "crashed"}
  <2>1. Left(s, FtpEpsv)
    BY <1>2 DEF On, UserDataOk
  <2>2. Left(s, FtpFatal)
    BY <2>1, FtpNames DEF Left
  <2>3. s \in FtpSessions
    BY OnType
  <2>4. PICK m \in FtpModes : m = "crashed"
    BY DEF FtpModes
  <2>5. u = Turned(s, m, s.srv) /\ s.srv \in FtpServers
    BY <1>2, <2>3, <2>4, FtpParts, ZenonT(60) DEF Ftp!Crash, Turned, FtpSessions
  <2>6. /\ u \in FtpSessions /\ u.due = s.due /\ u.owed = s.owed /\ u.causes = s.causes
        /\ u.sd = s.sd /\ u.xfer = s.xfer /\ u.ud = s.ud /\ u.cfg = s.cfg /\ u.tls = s.tls
        /\ u.mode = m /\ u.stack = s.stack /\ u.lost = s.lost /\ u.claim = s.claim
        /\ u.clear = s.clear /\ u.userfd = s.userfd /\ u.flags = s.flags
    BY <2>3, <2>5, FtpTurned
  <2>7. FtpBase(u)
    BY <2>2, <2>4, <2>6 DEF On, FtpBase, NameOk, Left
  <2>8. On(u, k, X)
    BY <2>4, <2>6, <2>7 DEF On, Left, Loops, Accepted, StepAt, Quiet, UserDataOk
  <2>9. QED
    BY <2>4, <2>6, <2>8 DEF SameEnds
<1>3. QED
  BY <1>1, <1>2 DEF SameEnds

\* Sockets of the data connection that are made or thrown away.
LEMMA OnServerEnd ==
  ASSUME NEW s, NEW k, NEW X, On(s, k, X), NEW a \in FtpServerEnds \ {"connected"},
         NEW u, u = [s EXCEPT !.sd = a]
  PROVE  On(u, k, X) /\ u.ud = s.ud /\ u.causes = s.causes /\ u.xfer = s.xfer
<1>1. s \in FtpSessions /\ a \in FtpServerEnds /\ a # "connected"
  BY OnType
<1>2. s.ud \in FtpUserEnds /\ s.xfer \in FtpWays
  BY <1>1, FtpParts
<1>3. u = Data(s, a, s.ud, s.xfer)
  BY <1>1, ZenonT(60) DEF Data, FtpSessions
<1>4. QED
  BY <1>1, <1>2, <1>3, OnData

\* The user's end is replaced.
LEMMA OnUserEnd ==
  ASSUME NEW s, NEW k, NEW X, On(s, k, X), NEW b \in FtpUserEnds \ {"dangling"},
         NEW u, u = [s EXCEPT !.ud = b]
  PROVE  /\ On(u, k, X \cup {"user"}) /\ u.causes = s.causes /\ u.sd = s.sd /\ u.xfer = s.xfer
         /\ u.ud = b
<1>1. s \in FtpSessions /\ b \in FtpUserEnds /\ b # "dangling"
  BY OnType
<1>2. /\ s.sd \in FtpServerEnds /\ s.xfer \in FtpWays
  BY <1>1, FtpParts
<1>3. u = Data(s, s.sd, b, s.xfer)
  BY <1>1, ZenonT(60) DEF Data, FtpSessions
<1>4. /\ u \in FtpSessions /\ u.due = s.due /\ u.owed = s.owed /\ u.causes = s.causes
      /\ u.sd = s.sd /\ u.xfer = s.xfer /\ u.ud = b /\ u.cfg = s.cfg /\ u.tls = s.tls
      /\ u.mode = s.mode /\ u.stack = s.stack /\ u.lost = s.lost /\ u.claim = s.claim
      /\ u.clear = s.clear /\ u.userfd = s.userfd /\ u.flags = s.flags
  BY <1>1, <1>2, <1>3, FtpData
<1>5. Alike(s, u)
  BY <1>4 DEF Alike, Accepted
<1>6. FtpBase(u) /\ u.mode \in {"serving", "crashed"}
  BY <1>4, <1>5, AlikeBase DEF On
<1>7. Left(u, FtpOverlap) \/ Loops(u)
  BY <1>4 DEF On, Loops, Accepted, Left
<1>8. /\ "step" \in X => StepAt(u, k)
      /\ "quiet" \in X => Quiet(u)
      /\ UserDataOk(u)
  BY <1>1, <1>4 DEF On, StepAt, Quiet, UserDataOk, Left
<1>9. QED
  BY <1>4, <1>6, <1>7, <1>8 DEF On

\* SetupServerDataConnection(): a socket listens, or there is none.
LEMMA OnSetup ==
  ASSUME NEW s, NEW X, On(s, 1, X), NEW p \in Ftp!SetupServerDataConnection(s)
  PROVE  On(p[2], 1, X) /\ p[1] \in BOOLEAN /\ s.causes \subseteq p[2].causes
<1>1. {"200", "500"} \subseteq FtpReplies
  BY DEF FtpReplies
<1>2. {"null", "listening"} \subseteq FtpServerEnds \ {"connected"}
  BY DEF FtpServerEnds
<1>3. CASE p = <<FALSE, [s EXCEPT !.sd = "null"]>>
  <2>1. PICK u : u = [s EXCEPT !.sd = "null"]
    OBVIOUS
  <2>2. p = <<FALSE, u>>
    BY <1>3, <2>1
  <2>3. p[1] = FALSE /\ p[2] = u
    BY <2>2
  <2>4. On(u, 1, X) /\ u.causes = s.causes
    BY <1>2, <2>1, OnServerEnd
  <2>5. QED
    BY <2>3, <2>4
<1>4. ASSUME NEW a \in Ftp!Ask(s, {"200", "500"}),
             p = <<a[1] = "200", [a[2] EXCEPT !.sd = IF a[1] = "200" THEN "listening"
                                                     ELSE "null"]>>
      PROVE  On(p[2], 1, X) /\ p[1] \in BOOLEAN /\ s.causes \subseteq p[2].causes
  <2>1. PICK e \in FtpServerEnds \ {"connected"} : e = IF a[1] = "200" THEN "listening" ELSE "null"
    BY <1>2
  <2>2. PICK u : u = [a[2] EXCEPT !.sd = e]
    OBVIOUS
  <2>3. p = <<a[1] = "200", u>>
    BY <1>4, <2>1, <2>2
  <2>4. (p[1] <=> a[1] = "200") /\ p[1] \in BOOLEAN /\ p[2] = u
    BY <2>3
  <2>5. On(a[2], 1, X) /\ s.causes \subseteq a[2].causes
    BY <1>1, OnAsk DEF SameEnds
  <2>6. On(u, 1, X) /\ u.causes = a[2].causes
    BY <2>2, <2>5, OnServerEnd
  <2>7. QED
    BY <2>4, <2>5, <2>6
<1>5. QED
  BY <1>3, <1>4, Zenon DEF Ftp!SetupServerDataConnection

\* Listening(): PASV and EPSV are answered, and UserData is a socket or null again.
LEMMA OnListening ==
  ASSUME NEW s, NEW X, On(s, 1, X), NEW u \in Ftp!Listening(s)
  PROVE  On(u, 0, X \cup {"user"})
<1>1. {"PASV"} \in SUBSET (Ftp!Flags \ {"SERVER_ACCEPT"})
  BY FtpFlags
<1>2. {"null", "listening"} \subseteq FtpUserEnds \ {"dangling"}
  BY DEF FtpUserEnds
<1>3. PICK v : v = [s EXCEPT !.ud = "listening"]
  OBVIOUS
<1>4. PICK w : w = [s EXCEPT !.ud = "null"]
  OBVIOUS
<1>5. On(v, 1, X \cup {"user"}) /\ On(w, 1, X \cup {"user"})
  BY <1>2, <1>3, <1>4, OnUserEnd
<1>6. PICK Y : Y = X \cup {"user"}
  OBVIOUS
<1>7. On(Ftp!Reply(v), 0, Y) /\ On(Ftp!Reply(w), 0, Y)
  BY <1>5, <1>6, OnAnswer
<1>8. u = Ftp!Set(Ftp!Reply(v), {"PASV"}) \/ u = Ftp!Reply(w)
  BY <1>3, <1>4, Zenon DEF Ftp!Listening
<1>9. On(u, 0, Y)
  BY <1>1, <1>7, <1>8, OnSet
<1>10. QED
  BY <1>6, <1>9

\* CmdPasv().
LEMMA CmdPasvOk ==
  ASSUME NEW s, On(s, 1, Aspects), NEW u \in Ftp!CmdPasv(s)
  PROVE  FtpOk(u)
<1>1. PICK p \in Ftp!SetupServerDataConnection(s) :
        u \in IF p[1] THEN UNION {Ftp!Listening(t) : t \in Ftp!Delete(p[2])}
              ELSE {Ftp!Reply(p[2])}
  BY Zenon DEF Ftp!CmdPasv
<1>2. On(p[2], 1, Aspects) /\ p[1] \in BOOLEAN
  BY <1>1, OnSetup
<1>3. CASE u = Ftp!Reply(p[2])
  BY <1>2, <1>3, OnAnswer, OnDone
<1>4. ASSUME NEW t \in Ftp!Delete(p[2]), u \in Ftp!Listening(t)
      PROVE  FtpOk(u)
  <2>1. "user" \in Aspects /\ Aspects \cup {"user"} = Aspects
    BY DEF Aspects
  <2>2. On(t, 1, Aspects)
    BY <1>2, <2>1, OnDelete
  <2>3. On(u, 0, Aspects \cup {"user"})
    BY <1>4, <2>2, OnListening
  <2>4. QED
    BY <2>1, <2>3, OnDone
<1>5. QED
  BY <1>1, <1>2, <1>3, <1>4, Zenon

\* EPSV ALL is not answered.
EpsvAll(g) == Ftp!Cause(Ftp!Set(g, {"BLOCK"}), "epsv all")

\* CmdEpsv(): UserData may be deleted and kept, which is noted with a reply that is not
\* passed on, unless another socket takes its place.
LEMMA CmdEpsvOk ==
  ASSUME NEW s, On(s, 1, Aspects), NEW u \in Ftp!CmdEpsv(s)
  PROVE  FtpOk(u)
<1>1. PICK X : X = {"step", "quiet"}
  OBVIOUS
<1>2. /\ "user" \in Aspects /\ Aspects \cup {"user"} = Aspects /\ X \cup {"user"} = Aspects
      /\ X \subseteq Aspects /\ "user" \notin X
  BY <1>1 DEF Aspects
<1>3. PICK t \in Ftp!Delete(s) : \E g :
        /\ g = IF t.ud = "null" THEN t ELSE [t EXCEPT !.ud = "dangling"]
        /\ u \in IF t.mode = "crashed" THEN {t}
                 ELSE {EpsvAll(g),
                       Ftp!Cause(Ftp!Reply(g), "epsv")}
                      \cup UNION {IF p[1] THEN Ftp!Listening(p[2])
                                  ELSE {Ftp!Cause(Ftp!Reply(p[2]), "epsv")}
                                  : p \in Ftp!SetupServerDataConnection(g)}
  BY Zenon DEF Ftp!CmdEpsv, EpsvAll
<1>4. On(t, 1, Aspects) /\ t.mode \in {s.mode, "crashed"}
  BY <1>2, <1>3, OnDelete
<1>5. CASE t.mode = "crashed"
  <2>1. u = t
    BY <1>3, <1>5
  <2>2. QED
    BY <1>4, <1>5, <2>1 DEF On, FtpOk, Aspects
<1>6. CASE t.mode # "crashed"
  <2>1. PICK g :
          /\ g = IF t.ud = "null" THEN t ELSE [t EXCEPT !.ud = "dangling"]
          /\ u \in {EpsvAll(g),
                    Ftp!Cause(Ftp!Reply(g), "epsv")}
                   \cup UNION {IF p[1] THEN Ftp!Listening(p[2])
                               ELSE {Ftp!Cause(Ftp!Reply(p[2]), "epsv")}
                               : p \in Ftp!SetupServerDataConnection(g)}
    BY <1>3, <1>6, Zenon
  <2>2. On(g, 1, X)
    <3>1. CASE t.ud = "null"
      BY <1>2, <1>4, <2>1, <3>1 DEF On
    <3>2. CASE t.ud # "null"
      <4>1. g = [t EXCEPT !.ud = "dangling"]
        BY <2>1, <3>2
      <4>2. PICK b \in FtpUserEnds : b = "dangling"
        BY DEF FtpUserEnds
      <4>3. t \in FtpSessions
        BY <1>4, OnType
      <4>4. t.sd \in FtpServerEnds /\ t.xfer \in FtpWays
        BY <4>3, FtpParts
      <4>5. g = Data(t, t.sd, b, t.xfer)
        BY <4>1, <4>2, <4>3, ZenonT(60) DEF Data, FtpSessions
      <4>6. /\ g \in FtpSessions /\ g.due = t.due /\ g.owed = t.owed /\ g.causes = t.causes
            /\ g.sd = t.sd /\ g.xfer = t.xfer /\ g.cfg = t.cfg /\ g.tls = t.tls
            /\ g.mode = t.mode /\ g.stack = t.stack /\ g.lost = t.lost /\ g.claim = t.claim
            /\ g.clear = t.clear /\ g.userfd = t.userfd /\ g.flags = t.flags
        BY <4>3, <4>4, <4>5, FtpData
      <4>7. FtpBase(g)
        BY <1>4, <4>6 DEF On, FtpBase, NameOk, Left
      <4>8. QED
        BY <1>2, <1>4, <4>6, <4>7 DEF On, Left, Loops, Accepted, StepAt, Quiet
    <3>3. QED
      BY <3>1, <3>2
  <2>3. ASSUME NEW v, NEW k, NEW x \in FtpEpsv, On(v, k, X), u = Ftp!Cause(v, x)
        PROVE  FtpOk(u)
    <3>1. x \in FtpOut /\ x \in FtpCauses
      BY FtpNames, FtpNamed
    <3>2. On(v, k, X \ {"step"})
      BY <2>3 DEF On
    <3>3. On(u, 0, X) /\ x \in u.causes
      BY <2>3, <3>1, <3>2, OnOut, OnCause
    <3>4. UserDataOk(u)
      BY <3>3 DEF UserDataOk, Left
    <3>5. On(u, 0, Aspects)
      BY <1>2, <3>3, <3>4 DEF On
    <3>6. QED
      BY <3>5, OnDone
  <2>4. CASE u = EpsvAll(g)
    <3>1. {"BLOCK"} \in SUBSET (Ftp!Flags \ {"SERVER_ACCEPT"})
      BY FtpFlags
    <3>2. On(Ftp!Set(g, {"BLOCK"}), 1, X)
      BY <2>2, <3>1, OnSet
    <3>3. "epsv all" \in FtpEpsv
      BY Zenon DEF FtpEpsv
    <3>4. QED
      BY <2>3, <2>4, <3>2, <3>3, Zenon DEF EpsvAll
  <2>5. CASE u = Ftp!Cause(Ftp!Reply(g), "epsv")
    <3>1. "epsv" \in FtpEpsv
      BY FtpNames
    <3>2. On(Ftp!Reply(g), 0, X)
      BY <2>2, OnAnswer
    <3>3. QED
      BY <2>3, <2>5, <3>1, <3>2, Zenon
  <2>6. ASSUME NEW p \in Ftp!SetupServerDataConnection(g),
               u \in IF p[1] THEN Ftp!Listening(p[2]) ELSE {Ftp!Cause(Ftp!Reply(p[2]), "epsv")}
        PROVE  FtpOk(u)
    <3>1. On(p[2], 1, X) /\ p[1] \in BOOLEAN
      BY <2>2, OnSetup
    <3>2. CASE p[1]
      <4>1. On(u, 0, X \cup {"user"})
        BY <2>6, <3>1, <3>2, OnListening
      <4>2. QED
        BY <1>2, <4>1, OnDone
    <3>3. CASE ~p[1]
      <4>1. "epsv" \in FtpEpsv
        BY FtpNames
      <4>2. On(Ftp!Reply(p[2]), 0, X)
        BY <3>1, OnAnswer
      <4>3. u = Ftp!Cause(Ftp!Reply(p[2]), "epsv")
        BY <2>6, <3>3
      <4>4. QED
        BY <2>3, <4>1, <4>2, <4>3, Zenon
    <3>4. QED
      BY <3>2, <3>3
  <2>7. QED
    BY <2>1, <2>4, <2>5, <2>6, Zenon
<1>7. QED
  BY <1>5, <1>6

\* CmdPort().
LEMMA CmdPortOk ==
  ASSUME NEW s, On(s, 1, Aspects), NEW u \in Ftp!CmdPort(s)
  PROVE  FtpOk(u)
<1>1. CASE u = Ftp!Reply(s)
  BY <1>1, OnAnswer, OnDone
<1>2. ASSUME NEW p \in Ftp!SetupServerDataConnection(s),
             u = IF p[1] THEN Ftp!Set(Ftp!Reply(p[2]), {"PORT"}) ELSE Ftp!Reply(p[2])
      PROVE  FtpOk(u)
  <2>1. On(Ftp!Reply(p[2]), 0, Aspects)
    BY OnSetup, OnAnswer
  <2>2. {"PORT"} \in SUBSET (Ftp!Flags \ {"SERVER_ACCEPT"})
    BY FtpFlags
  <2>3. On(Ftp!Set(Ftp!Reply(p[2]), {"PORT"}), 0, Aspects)
    BY <2>1, <2>2, OnSet
  <2>4. On(u, 0, Aspects)
    BY <1>2, <2>1, <2>3
  <2>5. QED
    BY <2>4, OnDone
<1>3. QED
  BY <1>1, <1>2, Zenon DEF Ftp!CmdPort

\* Both ends are thrown away.
LEMMA OnDrop ==
  ASSUME NEW s, NEW k, NEW X, On(s, k, X), NEW u, u = Ftp!Drop(s)
  PROVE  On(u, k, X \cup {"user"}) /\ u.causes = s.causes
<1>1. PICK a \in FtpServerEnds \ {"connected"} : a = "null"
  BY DEF FtpServerEnds
<1>2. PICK b \in FtpUserEnds \ {"dangling"} : b = "null"
  BY DEF FtpUserEnds
<1>3. PICK v : v = [s EXCEPT !.sd = a]
  OBVIOUS
<1>4. PICK w : w = [v EXCEPT !.ud = b]
  OBVIOUS
<1>5. On(v, k, X) /\ v.causes = s.causes
  BY <1>3, OnServerEnd
<1>6. On(w, k, X \cup {"user"}) /\ w.causes = v.causes
  BY <1>4, <1>5, OnUserEnd
<1>7. w = u
  BY <1>1, <1>2, <1>3, <1>4, Zenon DEF Ftp!Drop
<1>8. QED
  BY <1>5, <1>6, <1>7

\* ... and the transfer is given up.
LEMMA OnGiveUp ==
  ASSUME NEW s, NEW k, NEW X, On(s, k, X), NEW u, u = Ftp!Drop([s EXCEPT !.xfer = "no"])
  PROVE  On(u, k, X \cup Ends) /\ u.causes = s.causes
<1>1. PICK a \in FtpServerEnds : a = "null"
  BY DEF FtpServerEnds
<1>2. PICK b \in FtpUserEnds : b = "null"
  BY DEF FtpUserEnds
<1>3. PICK y \in FtpWays : y = "no"
  BY DEF FtpWays
<1>4. s \in FtpSessions
  BY OnType
<1>5. u = [[s EXCEPT !.xfer = y] EXCEPT !.sd = a, !.ud = b]
  BY <1>1, <1>2, <1>3, Zenon DEF Ftp!Drop
<1>6. u = Data(s, a, b, y)
  BY <1>4, <1>5 DEF Data, FtpSessions
<1>7. PICK Y : Y = X \cup Ends
  OBVIOUS
<1>8. "step" \in Y => "step" \in X
  BY <1>7, OnEnds
<1>9. a # "connected" /\ y = "no" /\ b # "dangling"
  BY <1>1, <1>2, <1>3
<1>10. On(u, k, Y) /\ u.causes = s.causes
  BY <1>6, <1>8, <1>9, OnData
<1>11. QED
  BY <1>7, <1>10

\* CmdAbor(): its reply is not passed on, so that the user is out of step.
LEMMA CmdAborOk ==
  ASSUME NEW s, On(s, 1, Aspects), NEW u \in Ftp!CmdAbor(s)
  PROVE  FtpOk(u)
<1>1. PICK t : t = Ftp!Clear(s, {"PORT", "PASV"})
  OBVIOUS
<1>2. PICK q : q = [t EXCEPT !.owed = IF t.xfer # "no" /\ t.srv = "up" THEN Append(@, "426")
                                      ELSE @, !.xfer = "no"]
  OBVIOUS
<1>3. PICK a \in Ftp!Ask(q, {"226"}) : u \in {Ftp!Cause(Ftp!Drop(v), "abor") : v \in Ftp!Delete(a[2])}
  BY <1>1, <1>2, Zenon DEF Ftp!CmdAbor
<1>4. PICK v \in Ftp!Delete(a[2]) : u = Ftp!Cause(Ftp!Drop(v), "abor")
  BY <1>3
<1>5. On(t, 1, Aspects)
  BY <1>1, OnClear
<1>6. On(t, 0, Ends) /\ t \in FtpSessions
  BY <1>5, OnEnds, OnType
<1>7. t.owed \in Seq(FtpReplies) /\ t.sd \in FtpServerEnds /\ "426" \in FtpReplies
  BY <1>6, FtpParts DEF FtpReplies
<1>8. Append(t.owed, "426") \in Seq(FtpReplies)
  BY <1>7, AppendProperties
<1>9. PICK x \in Seq(FtpReplies) : x = IF t.xfer # "no" /\ t.srv = "up" THEN Append(t.owed, "426")
                                       ELSE t.owed
  BY <1>7, <1>8
<1>10. PICK y \in FtpWays : y = "no"
  BY DEF FtpWays
<1>11. q = Refused(t, t.sd, y, x)
  BY <1>2, <1>6, <1>9, <1>10, ZenonT(60) DEF Refused, FtpSessions
<1>12. /\ q \in FtpSessions /\ q.causes = t.causes /\ q.due = t.due
       /\ q.sd = t.sd /\ q.xfer = y /\ q.cfg = t.cfg /\ q.tls = t.tls /\ q.ud = t.ud
       /\ q.mode = t.mode /\ q.stack = t.stack /\ q.lost = t.lost /\ q.claim = t.claim
       /\ q.clear = t.clear /\ q.userfd = t.userfd /\ q.flags = t.flags
  BY <1>6, <1>7, <1>11, FtpRefused
<1>13. Alike(t, q)
  BY <1>12 DEF Alike, Accepted
<1>14. (Quiet(t) => Quiet(q)) /\ (UserDataOk(t) => UserDataOk(q)) /\ "step" \notin Ends
  BY <1>10, <1>12, OnEnds DEF Quiet, UserDataOk, Left
<1>15. On(q, 0, Ends)
  BY <1>6, <1>12, <1>13, <1>14, AlikeOn
<1>16. {"226"} \subseteq FtpReplies
  BY DEF FtpReplies
<1>17. On(a[2], 0, Ends) /\ "user" \in Ends
  BY <1>3, <1>15, <1>16, OnAsk DEF Ends
<1>18. On(v, 0, Ends)
  BY <1>4, <1>17, OnDelete
<1>19. On(Ftp!Drop(v), 0, Ends \cup {"user"})
  BY <1>18, OnDrop
<1>20. On(Ftp!Drop(v), 0, Aspects \ {"step"})
  BY <1>19 DEF On, Ends, Aspects
<1>21. "abor" \in FtpOut
  BY FtpNames
<1>22. On(u, 0, Aspects)
  BY <1>4, <1>20, <1>21, OnOut
<1>23. QED
  BY <1>22, OnDone

\* The aspects of a handler that has a connection of the server, or had.
Steps == {"step", "user"}

\* These and those of Ends are all.
LEMMA OnSteps ==
  /\ "user" \in Steps /\ Steps \cup Ends = Aspects /\ Steps \subseteq Aspects
  /\ Steps \cup {"user"} = Steps /\ Aspects \ {"step"} = Ends /\ "step" \notin Ends
BY DEF Steps, Ends, Aspects

\* CannotOpen(): the server's reply is left unread.
LEMMA CannotOpenOk ==
  ASSUME NEW s, NEW k, On(s, k, {"user"}), NEW u \in Ftp!CannotOpen(s)
  PROVE  FtpOk(u)
<1>1. PICK t \in Ftp!Send(s, {"226"}) :
        u = Ftp!Reply(Ftp!Cause([t EXCEPT !.sd = "null", !.xfer = "no"], "aborted"))
  BY Zenon DEF Ftp!CannotOpen, Ftp!Abort
<1>2. {"226"} \subseteq FtpReplies
  BY DEF FtpReplies
<1>3. PICK X : X = {"user"}
  OBVIOUS
<1>4. "step" \notin X /\ "user" \in X /\ On(s, k, X)
  BY <1>3
<1>5. On(t, k, X)
  BY <1>1, <1>2, <1>4, OnSend
<1>6. t \in FtpSessions
  BY <1>5, OnType
<1>7. t.ud \in FtpUserEnds
  BY <1>6, FtpParts
<1>8. PICK a \in FtpServerEnds : a = "null"
  BY DEF FtpServerEnds
<1>9. PICK y \in FtpWays : y = "no"
  BY DEF FtpWays
<1>10. PICK v : v = [t EXCEPT !.sd = "null", !.xfer = "no"]
  OBVIOUS
<1>11. v = Data(t, a, t.ud, y)
  BY <1>6, <1>8, <1>9, <1>10, ZenonT(60) DEF Data, FtpSessions
<1>12. a # "connected" /\ y = "no"
  BY <1>8, <1>9
<1>13. On(v, k, Ends)
  BY <1>4, <1>5, <1>7, <1>11, <1>12, OnSteps, OnData
<1>14. "aborted" \in FtpOut
  BY FtpNames
<1>15. On(Ftp!Cause(v, "aborted"), 1, Aspects)
  BY <1>13, <1>14, OnSteps, OnOut
<1>16. On(u, 0, Aspects)
  BY <1>1, <1>10, <1>15, OnAnswer
<1>17. QED
  BY <1>16, OnDone

\* NotOpened(): what was to be transferred is given up, and the user is told.
LEMMA NotOpenedOk ==
  ASSUME NEW s, On(s, 1, Steps), NEW u \in Ftp!NotOpened(s)
  PROVE  FtpOk(u)
<1>1. PICK q : q = IF s.xfer = "no" THEN s ELSE Ftp!Cause(s, "aborted")
  OBVIOUS
<1>2. PICK a \in Ftp!Ask(q, {"226"}) :
        u \in {Ftp!Reply(Ftp!Drop([v EXCEPT !.xfer = "no"])) : v \in Ftp!Delete(a[2])}
  BY <1>1, Zenon DEF Ftp!NotOpened
<1>3. PICK v \in Ftp!Delete(a[2]) : u = Ftp!Reply(Ftp!Drop([v EXCEPT !.xfer = "no"]))
  BY <1>2
<1>4. "aborted" \in FtpCauses /\ {"226"} \subseteq FtpReplies
  BY FtpNamed DEF FtpReplies
<1>5. On(q, 1, Steps)
  BY <1>1, <1>4, OnCause
<1>6. On(a[2], 1, Steps)
  BY <1>2, <1>4, <1>5, OnAsk
<1>7. On(v, 1, Steps)
  BY <1>3, <1>6, OnSteps, OnDelete
<1>8. On(Ftp!Drop([v EXCEPT !.xfer = "no"]), 1, Aspects)
  BY <1>7, OnSteps, OnGiveUp
<1>9. On(u, 0, Aspects)
  BY <1>3, <1>8, OnAnswer
<1>10. QED
  BY <1>9, OnDone

\* The server's connection is there, for a transfer that it announced.
Joint(s) == Left(s, FtpOverlap) \/ (s.sd = "connected" /\ s.xfer # "no")

\* Opened(): the transfer begins when both ends are there.
LEMMA OpenedOk ==
  ASSUME NEW s, On(s, 1, Steps), Joint(s), s.ud = "connected" \/ Left(s, FtpOverlap),
         NEW u \in Ftp!Opened(s)
  PROVE  FtpOk(u)
<1>1. PICK c \in FtpWorth : c = "running"
  BY DEF FtpWorth
<1>2. s \in FtpSessions
  BY OnType
<1>3. s.xfer \in FtpWays
  BY <1>2, FtpParts
<1>4. u = [s EXCEPT !.claim = "running"]
  BY Zenon DEF Ftp!Opened
<1>5. u = Claims(s, s.xfer, c)
  BY <1>1, <1>2, <1>4, ZenonT(60) DEF Claims, FtpSessions
<1>6. /\ u \in FtpSessions /\ u.causes = s.causes /\ u.due = s.due /\ u.owed = s.owed
      /\ u.sd = s.sd /\ u.xfer = s.xfer /\ u.cfg = s.cfg /\ u.tls = s.tls /\ u.ud = s.ud
      /\ u.mode = s.mode /\ u.stack = s.stack /\ u.lost = s.lost /\ u.claim = c
      /\ u.clear = s.clear /\ u.userfd = s.userfd /\ u.flags = s.flags
  BY <1>2, <1>3, <1>5, FtpClaims
<1>7. FtpBase(u)
  BY <1>1, <1>6 DEF On, FtpBase, NameOk, Left
<1>8. UserDataOk(u)
  BY <1>6, OnSteps DEF On, UserDataOk, Left
<1>9. Phase(u)
  BY <1>1, <1>6 DEF On, Phase, Transfers, Joint, Loops, Accepted, StepAt, Left, Steps
<1>10. QED
  BY <1>7, <1>8, <1>9 DEF FtpOk

\* OpenClientDataConnection().
LEMMA OpenClientOk ==
  ASSUME NEW s, On(s, 1, Steps), Joint(s), NEW u \in Ftp!OpenClientDataConnection(s)
  PROVE  FtpOk(u)
<1>1. PICK t \in Ftp!Delete(s) :
        u \in IF t.mode = "crashed" THEN {t}
              ELSE Ftp!Opened([t EXCEPT !.ud = "connected"])
                   \cup Ftp!NotOpened([t EXCEPT !.ud = "broken"])
  BY Zenon DEF Ftp!OpenClientDataConnection
<1>2. On(t, 1, Steps) /\ SameEnds(s, t)
  BY <1>1, OnSteps, OnDelete
<1>3. Joint(t)
  BY <1>2, StaysLeft DEF Joint, SameEnds
<1>4. CASE u = t /\ t.mode = "crashed"
  BY <1>2, <1>4 DEF On, FtpOk, Steps
<1>5. CASE u \in Ftp!Opened([t EXCEPT !.ud = "connected"])
  <2>1. PICK v : v = [t EXCEPT !.ud = "connected"]
    OBVIOUS
  <2>2. PICK b \in FtpUserEnds \ {"dangling"} : b = "connected"
    BY DEF FtpUserEnds
  <2>3. v = [t EXCEPT !.ud = b]
    BY <2>1, <2>2
  <2>4. On(v, 1, Steps) /\ v.causes = t.causes /\ v.sd = t.sd /\ v.xfer = t.xfer /\ v.ud = b
    BY <1>2, <2>3, OnUserEnd, OnSteps
  <2>5. Joint(v) /\ v.ud = "connected"
    BY <1>3, <2>2, <2>4 DEF Joint, Left
  <2>6. QED
    BY <1>5, <2>1, <2>4, <2>5, OpenedOk
<1>6. CASE u \in Ftp!NotOpened([t EXCEPT !.ud = "broken"])
  <2>1. PICK v : v = [t EXCEPT !.ud = "broken"]
    OBVIOUS
  <2>2. PICK b \in FtpUserEnds \ {"dangling"} : b = "broken"
    BY DEF FtpUserEnds
  <2>3. v = [t EXCEPT !.ud = b]
    BY <2>1, <2>2
  <2>4. On(v, 1, Steps)
    BY <1>2, <2>3, OnUserEnd, OnSteps
  <2>5. QED
    BY <1>6, <2>1, <2>4, NotOpenedOk
<1>7. QED
  BY <1>1, <1>4, <1>5, <1>6, Zenon

\* What is noted when another socket is taken for the user's.
Stale(s) == Ftp!Cause(s, "stale accept")

\* The session has then left the protocol.
LEMMA OnStale ==
  ASSUME NEW s, NEW k, NEW X, On(s, k, X)
  PROVE  On(Stale(s), k, X) /\ Left(Stale(s), FtpOverlap)
<1>1. PICK x \in FtpOverlap : x = "stale accept"
  BY Zenon DEF FtpOverlap
<1>2. x \in FtpCauses
  BY FtpNamed
<1>3. Stale(s) = Ftp!Cause(s, x)
  BY <1>1, Zenon DEF Stale
<1>4. On(Ftp!Cause(s, x), k, X) /\ x \in Ftp!Cause(s, x).causes
  BY <1>2, OnCause
<1>5. QED
  BY <1>3, <1>4 DEF Left

\* The user's connection was accepted, if there is a socket.
Joins(s) == s.ud = "null" \/ Joint(s)

\* The transfer begins, or is not opened.
LEMMA ClientAcceptedOk ==
  ASSUME NEW s, On(s, 1, Steps), Joins(s), NEW u \in Ftp!ClientAccepted(s)
  PROVE  FtpOk(u)
<1>1. PICK t : t = Ftp!Clear(s, {"CLIENT_ACCEPT"})
  OBVIOUS
<1>2. /\ On(t, 1, Steps) /\ t.xfer = s.xfer /\ t.sd = s.sd /\ t.ud = s.ud
      /\ t.causes = s.causes
  BY <1>1, OnClear
<1>3. u \in IF s.ud = "null" THEN Ftp!NotOpened(t)
            ELSE Ftp!Opened(IF s.ud = "connected" THEN t ELSE Stale(t))
  BY <1>1, Zenon DEF Ftp!ClientAccepted, Stale
<1>4. CASE s.ud = "null"
  BY <1>2, <1>3, <1>4, NotOpenedOk
<1>5. CASE s.ud # "null" /\ s.ud = "connected"
  <2>1. Joint(t) /\ t.ud = "connected"
    BY <1>2, <1>5 DEF Joins, Joint, Left
  <2>2. QED
    BY <1>2, <1>3, <1>5, <2>1, OpenedOk
<1>6. CASE s.ud # "null" /\ s.ud # "connected"
  <2>1. On(Stale(t), 1, Steps) /\ Left(Stale(t), FtpOverlap)
    BY <1>2, OnStale
  <2>2. u \in Ftp!Opened(Stale(t))
    BY <1>3, <1>6
  <2>3. QED
    BY <2>1, <2>2, OpenedOk DEF Joint
<1>7. QED
  BY <1>4, <1>5, <1>6

\* What is noted when there is no socket for the user's connection.
NoEnd(s) == Ftp!Cause(s, "no end")

\* No aspect changes.
LEMMA OnNoEnd ==
  ASSUME NEW s, NEW k, NEW X, On(s, k, X)
  PROVE  /\ On(NoEnd(s), k, X) /\ NoEnd(s).xfer = s.xfer /\ NoEnd(s).sd = s.sd
         /\ s.causes \subseteq NoEnd(s).causes
<1>1. PICK x \in FtpCauses : x = "no end"
  BY Zenon DEF FtpCauses, FtpFatal
<1>2. NoEnd(s) = Ftp!Cause(s, x)
  BY <1>1, Zenon DEF NoEnd
<1>3. s \in FtpSessions
  BY OnType
<1>4. SameEnds(s, Ftp!Cause(s, x))
  BY <1>3, CauseAlike
<1>5. On(Ftp!Cause(s, x), k, X)
  BY OnCause
<1>6. QED
  BY <1>2, <1>4, <1>5 DEF SameEnds

\* A second call inside the first.
LEMMA AppendToOne ==
  ASSUME NEW a, NEW b, NEW s, s = <<a>>
  PROVE  Append(s, b) = <<a, b>>
<1>1. PICK t : t = Append(s, b)
  OBVIOUS
<1>2. s \in Seq({a, b}) /\ Len(s) = 1 /\ s[1] = a
  OBVIOUS
<1>3. t \in Seq({a, b}) /\ Len(t) = 2 /\ t[1] = a /\ t[2] = b
  BY <1>1, <1>2, AppendProperties
<1>4. PICK u : u = <<a, b>>
  OBVIOUS
<1>5. u \in Seq({a, b}) /\ Len(u) = 2 /\ u[1] = a /\ u[2] = b
  BY <1>4
<1>6. t = u
  BY <1>3, <1>5, SeqEqual
<1>7. QED
  BY <1>1, <1>4, <1>6

\* WaitClientDataConnection(): the child waits for it, inside the command.
LEMMA WaitClientOk ==
  ASSUME NEW s, On(s, 1, Steps), Joint(s), NEW u \in Ftp!WaitClientDataConnection(s)
  PROVE  FtpOk(u)
<1>1. CASE u \in Ftp!ClientAccepted(s)
  BY <1>1, ClientAcceptedOk DEF Joins
<1>2. ASSUME NEW t, t = IF s.ud = "null" THEN NoEnd(s) ELSE s,
             u = [t EXCEPT !.stack = Append(@, "client"), !.back = FALSE]
      PROVE  FtpOk(u)
  <2>1. On(t, 1, Steps) /\ t.xfer = s.xfer /\ t.sd = s.sd /\ s.causes \subseteq t.causes
    BY <1>2, OnNoEnd
  <2>2. Joint(t)
    BY <2>1, StaysLeft DEF Joint
  <2>3. t \in FtpSessions
    BY <2>1, OnType
  <2>4. t.stack \in Seq(FtpCalls) /\ "client" \in FtpCalls
    BY <2>3, FtpParts DEF FtpCalls
  <2>5. PICK k \in Seq(FtpCalls) : k = Append(t.stack, "client")
    BY <2>4, AppendProperties
  <2>6. PICK b \in Truths : b = FALSE
    BY DEF Truths
  <2>7. u = Waits(t, k, b)
    BY <1>2, <2>5, <2>6, Zenon DEF Waits
  <2>8. /\ u \in FtpSessions /\ u.causes = t.causes /\ u.due = t.due /\ u.owed = t.owed
        /\ u.sd = t.sd /\ u.xfer = t.xfer /\ u.cfg = t.cfg /\ u.tls = t.tls /\ u.ud = t.ud
        /\ u.mode = t.mode /\ u.stack = k /\ u.lost = t.lost /\ u.claim = t.claim
        /\ u.clear = t.clear /\ u.userfd = t.userfd /\ u.flags = t.flags
    BY <2>3, <2>7, FtpWaits
  <2>9. u.mode = "serving" => u.stack # <<>> /\ u.stack[1] = "loop"
    <3>1. t.mode = "serving" => t.stack # <<>> /\ t.stack[1] = "loop"
      BY <2>1 DEF On, FtpBase
    <3>2. t.stack # <<>> /\ t.stack[1] = "loop" => k # <<>> /\ k[1] = "loop"
      BY <2>4, <2>5, AppendProperties
    <3>3. QED
      BY <2>8, <3>1, <3>2
  <2>10. FtpBase(u)
    BY <2>1, <2>8, <2>9 DEF On, FtpBase, NameOk, Left
  <2>11. UserDataOk(u)
    BY <2>1, <2>8, OnSteps DEF On, UserDataOk, Left
  <2>12. ASSUME ~Left(t, FtpOverlap)
         PROVE  AwaitsClient(u)
    <3>1. Loops(t) /\ StepAt(t, 1) /\ t.sd = "connected" /\ t.xfer # "no"
      BY <2>1, <2>2, <2>12 DEF On, Joint, Steps
    <3>2. k = <<"loop", "client">>
      BY <2>5, <3>1, AppendToOne DEF Loops
    <3>3. QED
      BY <2>8, <3>1, <3>2 DEF AwaitsClient, Loops, Accepted, StepAt, Left
  <2>13. Phase(u)
    BY <2>8, <2>12 DEF Phase, Left
  <2>14. QED
    BY <2>10, <2>11, <2>13 DEF FtpOk
<1>3. \/ u \in Ftp!ClientAccepted(s)
      \/ \E t : /\ t = IF s.ud = "null" THEN NoEnd(s) ELSE s
                /\ u = [t EXCEPT !.stack = Append(@, "client"), !.back = FALSE]
  BY Zenon DEF Ftp!WaitClientDataConnection, NoEnd
<1>4. QED
  BY <1>1, <1>2, <1>3, Zenon

\* ServerReady().
LEMMA ServerReadyOk ==
  ASSUME NEW s, On(s, 1, Steps), Joint(s), NEW u \in Ftp!ServerReady(s)
  PROVE  FtpOk(u)
<1>1. \/ u \in Ftp!OpenClientDataConnection(s)
      \/ u \in Ftp!WaitClientDataConnection(s)
      \/ u \in Ftp!NotOpened(s)
  BY Zenon DEF Ftp!ServerReady
<1>2. QED
  BY <1>1, OpenClientOk, WaitClientOk, NotOpenedOk

\* A transfer that is announced, and the wait for the server's connection.
Announced(t, y) ==
  [t EXCEPT !.xfer = y, !.left = Blocks, !.lost = FALSE, !.stack = Append(@, "server"),
            !.back = FALSE]

\* The session waits for the server's connection.
LEMMA OpeningOk ==
  ASSUME NEW t, On(t, 1, Aspects), NEW y \in FtpWays, y = "no" \/ t.sd # "null",
         NEW u, u = Announced(t, y)
  PROVE  FtpOk(u)
<1>1. t \in FtpSessions
  BY OnType
<1>2. t.stack \in Seq(FtpCalls) /\ "server" \in FtpCalls
  BY <1>1, FtpParts DEF FtpCalls
<1>3. PICK k \in Seq(FtpCalls) : k = Append(t.stack, "server")
  BY <1>2, AppendProperties
<1>4. PICK b \in Truths : b = FALSE
  BY DEF Truths
<1>5. PICK l \in Int : l = Blocks
  BY SessionsAssumption DEF SessionsAssumption, Ftp!FtpAssumption
<1>6. u = Opening(t, y, l, b, k, b)
  BY <1>3, <1>4, <1>5, Zenon DEF Opening, Announced
<1>7. /\ u \in FtpSessions /\ u.causes = t.causes /\ u.due = t.due /\ u.owed = t.owed
      /\ u.sd = t.sd /\ u.xfer = y /\ u.cfg = t.cfg /\ u.tls = t.tls /\ u.ud = t.ud
      /\ u.mode = t.mode /\ u.stack = k /\ u.lost = b /\ u.claim = t.claim
      /\ u.clear = t.clear /\ u.userfd = t.userfd /\ u.flags = t.flags
  BY <1>1, <1>6, FtpOpening
<1>8. u.mode = "serving" => u.stack # <<>> /\ u.stack[1] = "loop"
  <2>1. t.mode = "serving" => t.stack # <<>> /\ t.stack[1] = "loop"
    BY DEF On, FtpBase
  <2>2. t.stack # <<>> /\ t.stack[1] = "loop" => k # <<>> /\ k[1] = "loop"
    BY <1>2, <1>3, AppendProperties
  <2>3. QED
    BY <1>7, <2>1, <2>2
<1>9. FtpBase(u)
  BY <1>4, <1>7, <1>8 DEF On, FtpBase, NameOk, Left
<1>10. UserDataOk(u)
  BY <1>7, OnSteps DEF On, UserDataOk, Left, Aspects
<1>11. ASSUME ~Left(t, FtpOverlap)
       PROVE  AwaitsServer(u)
  <2>1. Loops(t) /\ StepAt(t, 1) /\ t.sd # "connected"
    BY <1>11 DEF On, Quiet, Aspects
  <2>2. k = <<"loop", "server">>
    BY <1>3, <2>1, AppendToOne DEF Loops
  <2>3. QED
    BY <1>7, <2>1, <2>2 DEF AwaitsServer, Loops, Accepted, StepAt, Left
<1>12. Phase(u)
  BY <1>7, <1>11 DEF Phase, Left
<1>13. QED
  BY <1>9, <1>10, <1>12 DEF FtpOk

\* A transfer that the server takes for opened already.
AlreadyOpen(t, y) ==
  Ftp!Cause(Ftp!Reply([t EXCEPT !.xfer = y, !.left = Blocks, !.lost = FALSE]), "125")

\* The command is done, and the transfer goes on unnoticed.
LEMMA AlreadyOpenOk ==
  ASSUME NEW t, On(t, 1, Aspects), NEW y \in FtpWays,
         NEW u, u = AlreadyOpen(t, y)
  PROVE  FtpOk(u)
<1>1. t \in FtpSessions
  BY OnType
<1>2. PICK b \in Truths : b = FALSE
  BY DEF Truths
<1>3. PICK l \in Int : l = Blocks
  BY SessionsAssumption DEF SessionsAssumption, Ftp!FtpAssumption
<1>4. PICK v : v = [t EXCEPT !.xfer = y, !.left = Blocks, !.lost = FALSE]
  OBVIOUS
<1>5. v = Moving(t, y, l, b)
  BY <1>2, <1>3, <1>4, Zenon DEF Moving
<1>6. /\ v \in FtpSessions /\ v.causes = t.causes /\ v.due = t.due /\ v.owed = t.owed
      /\ v.sd = t.sd /\ v.xfer = y /\ v.cfg = t.cfg /\ v.tls = t.tls /\ v.ud = t.ud
      /\ v.mode = t.mode /\ v.stack = t.stack /\ v.lost = b /\ v.claim = t.claim
      /\ v.clear = t.clear /\ v.userfd = t.userfd /\ v.flags = t.flags
  BY <1>1, <1>5, FtpMoving
<1>7. FtpBase(v)
  BY <1>2, <1>6 DEF On, FtpBase, NameOk, Left
<1>8. On(v, 1, Steps)
  BY <1>6, <1>7 DEF On, Loops, Accepted, StepAt, UserDataOk, Left, Steps, Aspects
<1>9. "125" \in FtpOverlap /\ "125" \in FtpCauses
  BY FtpNames, FtpNamed
<1>10. On(Ftp!Reply(v), 0, Steps)
  BY <1>8, OnAnswer
<1>11. u = Ftp!Cause(Ftp!Reply(v), "125")
  BY <1>4, Zenon DEF AlreadyOpen
<1>12. On(u, 0, Steps) /\ "125" \in u.causes
  BY <1>9, <1>10, <1>11, OnCause
<1>13. On(u, 0, Aspects)
  BY <1>9, <1>12 DEF On, Quiet, Left, Steps, Aspects
<1>14. QED
  BY <1>13, OnDone

\* RETR and STOR: DataConnectionCmd().
LEMMA DataConnectionCmdOk ==
  ASSUME NEW s, On(s, 1, Aspects), NEW dir \in {"down", "up"},
         NEW u \in Ftp!DataConnectionCmd(s, dir)
  PROVE  FtpOk(u)
<1>1. CASE u = Ftp!Reply(s)
  BY <1>1, OnAnswer, OnDone
<1>2. PICK R : R = {"150", "500"} \cup (IF s.sd = "listening" THEN {"125"} ELSE {})
  OBVIOUS
<1>3. R \subseteq FtpReplies
  BY <1>2 DEF FtpReplies
<1>4. ASSUME NEW a \in Ftp!Ask(s, R), NEW t, t = a[2],
             u \in IF a[1] = "150" THEN {Announced(t, IF t.sd = "null" THEN "no" ELSE dir)}
                   ELSE IF a[1] = "125" THEN {AlreadyOpen(t, dir)} ELSE {Ftp!Reply(t)}
      PROVE  FtpOk(u)
  <2>1. On(t, 1, Aspects)
    BY <1>3, <1>4, OnAsk
  <2>2. PICK y \in FtpWays : y = IF t.sd = "null" THEN "no" ELSE dir
    BY DEF FtpWays
  <2>3. CASE u = Announced(t, IF t.sd = "null" THEN "no" ELSE dir)
    <3>1. u = Announced(t, y)
      BY <2>2, <2>3, Zenon
    <3>2. y = "no" \/ t.sd # "null"
      BY <2>2
    <3>3. QED
      BY <2>1, <3>1, <3>2, OpeningOk
  <2>4. CASE u = AlreadyOpen(t, dir)
    <3>1. dir \in FtpWays
      BY DEF FtpWays
    <3>2. QED
      BY <2>1, <2>4, <3>1, AlreadyOpenOk
  <2>5. CASE u = Ftp!Reply(t)
    BY <2>1, <2>5, OnAnswer, OnDone
  <2>6. QED
    BY <1>4, <2>3, <2>4, <2>5, Zenon
<1>5. \/ u = Ftp!Reply(s)
      \/ \E a \in Ftp!Ask(s, R) : \E t :
           /\ t = a[2]
           /\ u \in IF a[1] = "150" THEN {Announced(t, IF t.sd = "null" THEN "no" ELSE dir)}
                    ELSE IF a[1] = "125" THEN {AlreadyOpen(t, dir)} ELSE {Ftp!Reply(t)}
  BY <1>2, Zenon DEF Ftp!DataConnectionCmd, Ftp!OpenServerDataConnection, Announced, AlreadyOpen
<1>6. QED
  BY <1>1, <1>4, <1>5, Zenon

\* QUIT: the loop is told to end.
LEMMA CmdQuitOk ==
  ASSUME NEW s, On(s, 1, Aspects), NEW u, u = Ftp!Clear(Ftp!Reply(s), {"CONNECTED"})
  PROVE  FtpOk(u)
<1>1. PICK t : t = Ftp!Reply(s)
  OBVIOUS
<1>2. On(t, 0, Aspects)
  BY <1>1, OnAnswer
<1>3. u = Ftp!Clear(t, {"CONNECTED"})
  BY <1>1
<1>4. On(u, 0, Aspects)
  BY <1>2, <1>3, OnClear
<1>5. QED
  BY <1>4, OnDone

\* USER: one that is not refused at once connects to the server.
LEMMA CmdUserOk ==
  ASSUME NEW s, On(s, 1, Aspects), NEW u \in {Ftp!Reply(s)} \cup Ftp!ConnectToServer(s)
  PROVE  FtpOk(u)
<1>1. CASE u = Ftp!Reply(s)
  BY <1>1, OnAnswer, OnDone
<1>2. CASE u \in Ftp!ConnectToServer(s)
  BY <1>2, OnConnectToServer, OnDone
<1>3. QED
  BY <1>1, <1>2, Zenon

\* DispatchCmd(): every command, of a user to whom one reply is owed.
LEMMA DispatchOk ==
  ASSUME NEW s, On(s, 1, Aspects), NEW cmd, NEW u \in Ftp!DispatchCmd(s, cmd)
  PROVE  FtpOk(u)
<1>1. \/ u \in Ftp!CmdAuth(s)
      \/ u \in {Ftp!Reply(s)} \cup Ftp!ConnectToServer(s)
      \/ u \in Ftp!CmdPass(s)
      \/ u \in {Ftp!Clear(Ftp!Reply(s), {"CONNECTED"})}
      \/ u \in {Ftp!Reply(s)}
      \/ u \in Ftp!CmdPbsz(s) \/ u \in Ftp!CmdProt(s) \/ u \in Ftp!CmdPasv(s)
      \/ u \in Ftp!CmdEpsv(s) \/ u \in Ftp!CmdPort(s) \/ u \in Ftp!CmdAbor(s)
      \/ u \in Ftp!ForwardCmd(s) \/ u \in Ftp!DataConnectionCmd(s, "down")
      \/ u \in Ftp!DataConnectionCmd(s, "up")
  BY Zenon DEF Ftp!DispatchCmd
<1>2. CASE u = Ftp!Reply(s)
  BY <1>2, OnAnswer, OnDone
<1>3. CASE u \in Ftp!DataConnectionCmd(s, "down")
  BY <1>3, DataConnectionCmdOk
<1>4. CASE u \in Ftp!DataConnectionCmd(s, "up")
  BY <1>4, DataConnectionCmdOk
<1>5. QED
  BY <1>1, <1>2, <1>3, <1>4, CmdAuthOk, CmdUserOk, CmdPassOk, CmdQuitOk, CmdPbszOk,
     CmdProtOk, CmdPasvOk, CmdEpsvOk, CmdPortOk, CmdAborOk, ForwardCmdOk

\* A session whose wait goes on, or for another reason is done.
SameWait(s, u) ==
  u.back = TRUE \/ u.back = s.back \/ ~Accepted(s) \/ s.stack # <<"loop", "server">>

\* It keeps its phase.
LEMMA OkAlike ==
  ASSUME NEW s, FtpOk(s), NEW u \in FtpSessions, Alike(s, u), SameEnds(s, u),
         u.due = s.due, u.owed = s.owed, SameWait(s, u)
  PROVE  FtpOk(u)
<1>1. FtpBase(u)
  BY AlikeBase DEF FtpOk
<1>2. UserDataOk(u)
  BY StaysLeft DEF FtpOk, UserDataOk, SameEnds
<1>3. \A k : StepAt(s, k) => StepAt(u, k)
  BY StaysLeft DEF StepAt, SameEnds
<1>4. Left(s, FtpOverlap) => Left(u, FtpOverlap)
  BY StaysLeft DEF SameEnds
<1>5. Resting(s) => Resting(u)
  BY <1>3 DEF Resting, Loops, Alike, SameEnds
<1>6. AwaitsClient(s) => AwaitsClient(u)
  BY <1>3 DEF AwaitsClient, Alike, SameEnds
<1>7. Transfers(s) => Transfers(u)
  BY <1>3 DEF Transfers, Alike, SameEnds
<1>8. AwaitsServer(s) => AwaitsServer(u)
  BY StaysLeft DEF AwaitsServer, Alike, SameEnds, SameWait
<1>9. u.mode = "serving" => Phase(u)
  BY <1>4, <1>5, <1>6, <1>7, <1>8 DEF FtpOk, Phase, Alike
<1>10. QED
  BY <1>1, <1>2, <1>9 DEF FtpOk

\* The innermost WaitEvents() is told to return, or goes on.
LEMMA OkBack ==
  ASSUME NEW s, FtpOk(s), NEW b \in Truths, NEW u, u = [s EXCEPT !.back = b],
         SameWait(s, u)
  PROVE  FtpOk(u)
<1>1. s \in FtpSessions
  BY DEF FtpOk, FtpBase
<1>2. u = Waits(s, s.stack, b)
  <2>1. u = [s EXCEPT !.stack = s.stack, !.back = b]
    BY <1>1, ZenonT(60) DEF FtpSessions
  <2>2. QED
    BY <2>1, Zenon DEF Waits
<1>3. /\ u \in FtpSessions /\ u.causes = s.causes /\ u.due = s.due /\ u.owed = s.owed
      /\ u.sd = s.sd /\ u.xfer = s.xfer /\ u.cfg = s.cfg /\ u.tls = s.tls /\ u.ud = s.ud
      /\ u.mode = s.mode /\ u.stack = s.stack /\ u.lost = s.lost /\ u.claim = s.claim
      /\ u.clear = s.clear /\ u.userfd = s.userfd /\ u.flags = s.flags
  <2>1. PICK k : k = s.stack
    OBVIOUS
  <2>2. k \in Seq(FtpCalls) /\ u = Waits(s, k, b)
    BY <1>1, <1>2, <2>1, FtpParts
  <2>3. QED
    BY <1>1, <2>1, <2>2, FtpWaits
<1>4. Alike(s, u) /\ SameEnds(s, u)
  BY <1>3 DEF Alike, SameEnds, Accepted
<1>5. QED
  BY <1>3, <1>4, OkAlike

\* Flags that are cleared, other than that of a connection of the server.
LEMMA OkCleared ==
  ASSUME NEW s, FtpOk(s), NEW F, "SERVER_ACCEPT" \notin F, NEW u, u = Ftp!Clear(s, F)
  PROVE  FtpOk(u)
<1>1. s \in FtpSessions
  BY DEF FtpOk, FtpBase
<1>2. PICK f \in SUBSET Ftp!Flags : f = s.flags \ F
  BY <1>1, FtpParts
<1>3. u = Marked(s, f)
  BY <1>2, Zenon DEF Ftp!Clear, Marked
<1>4. /\ u \in FtpSessions /\ u.causes = s.causes /\ u.due = s.due /\ u.owed = s.owed
      /\ u.sd = s.sd /\ u.xfer = s.xfer /\ u.cfg = s.cfg /\ u.tls = s.tls /\ u.ud = s.ud
      /\ u.mode = s.mode /\ u.stack = s.stack /\ u.lost = s.lost /\ u.claim = s.claim
      /\ u.clear = s.clear /\ u.userfd = s.userfd /\ u.flags = f /\ u.back = s.back
  BY <1>1, <1>3, FtpMarked
<1>5. Alike(s, u) /\ SameEnds(s, u)
  BY <1>2, <1>4 DEF Alike, SameEnds, Accepted
<1>6. QED
  BY <1>4, <1>5, OkAlike DEF SameWait

\* What is left of the calls when the innermost returns.
Rest(k) == SubSeq(k, 1, Len(k) - 1)

\* One that is not the loop leaves the loop.
LEMMA RestOfCalls ==
  ASSUME NEW k \in Seq(FtpCalls), k # <<>>, k[1] = "loop", k[Len(k)] # "loop"
  PROVE  Rest(k) \in Seq(FtpCalls) /\ Rest(k) # <<>> /\ Rest(k)[1] = "loop"
<1>1. Len(k) \in Nat /\ Len(k) > 1
  BY EmptySeq
<1>2. /\ Rest(k) \in Seq(FtpCalls) /\ Len(Rest(k)) = Len(k) - 1
      /\ \A i \in 1 .. Len(k) - 1 : Rest(k)[i] = k[i]
  BY <1>1, SubSeqProperties DEF Rest
<1>3. QED
  BY <1>1, <1>2

\* Of two calls the first stays.
LEMMA RestOfTwo ==
  ASSUME NEW k, NEW a, NEW b, k = <<a, b>>
  PROVE  Rest(k) = <<a>> /\ k[Len(k)] = b
<1>1. k \in Seq({a, b}) /\ Len(k) = 2 /\ k[1] = a /\ k[2] = b
  OBVIOUS
<1>2. /\ Rest(k) \in Seq({a, b}) /\ Len(Rest(k)) = 1 /\ Rest(k)[1] = a
  BY <1>1, SubSeqProperties DEF Rest
<1>3. PICK u : u = <<a>>
  OBVIOUS
<1>4. u \in Seq({a, b}) /\ Len(u) = 1 /\ u[1] = a
  BY <1>3
<1>5. Rest(k) = u
  BY <1>2, <1>4, SeqEqual
<1>6. QED
  BY <1>1, <1>3, <1>5

\* A call that is alone.
LEMMA OneCall ==
  ASSUME NEW k, NEW a, k = <<a>>
  PROVE  k[Len(k)] = a
OBVIOUS

\* The session when the innermost call, which is not the loop's, returns.
Returned(s, b) == [s EXCEPT !.stack = SubSeq(@, 1, Len(@) - 1), !.back = b]

\* Nothing else differs.
LEMMA OkReturned ==
  ASSUME NEW s, FtpOk(s), s.mode = "serving", Ftp!Top(s) # "loop", NEW b \in Truths,
         NEW u, u = Returned(s, b)
  PROVE  /\ FtpBase(u) /\ UserDataOk(u) /\ u.mode = "serving" /\ u.stack = Rest(s.stack)
         /\ u.sd = s.sd /\ u.ud = s.ud /\ u.xfer = s.xfer /\ u.claim = s.claim
         /\ u.due = s.due /\ u.owed = s.owed /\ u.flags = s.flags /\ u.causes = s.causes
<1>1. s \in FtpSessions /\ FtpBase(s)
  BY DEF FtpOk, FtpBase
<1>2. s.stack \in Seq(FtpCalls) /\ s.stack # <<>> /\ s.stack[1] = "loop"
  BY <1>1, FtpParts DEF FtpBase
<1>3. PICK k \in Seq(FtpCalls) : k = Rest(s.stack)
  BY <1>2, RestOfCalls DEF Ftp!Top
<1>4. k # <<>> /\ k[1] = "loop"
  BY <1>2, <1>3, RestOfCalls DEF Ftp!Top
<1>5. u = Waits(s, k, b)
  BY <1>3, Zenon DEF Waits, Rest, Returned
<1>6. /\ u \in FtpSessions /\ u.causes = s.causes /\ u.due = s.due /\ u.owed = s.owed
      /\ u.sd = s.sd /\ u.xfer = s.xfer /\ u.cfg = s.cfg /\ u.tls = s.tls /\ u.ud = s.ud
      /\ u.mode = s.mode /\ u.stack = k /\ u.lost = s.lost /\ u.claim = s.claim
      /\ u.clear = s.clear /\ u.userfd = s.userfd /\ u.flags = s.flags
  BY <1>1, <1>5, FtpWaits
<1>7. FtpBase(u)
  BY <1>1, <1>4, <1>6 DEF FtpBase, NameOk, Left
<1>8. UserDataOk(u)
  BY <1>6 DEF FtpOk, UserDataOk, Left
<1>9. QED
  BY <1>3, <1>6, <1>7, <1>8

\* Which phase a wait is a part of.
LEMMA Innermost ==
  ASSUME NEW s, FtpOk(s), s.mode = "serving", ~Left(s, FtpOverlap)
  PROVE  /\ Ftp!Top(s) = "server" => AwaitsServer(s)
         /\ Ftp!Top(s) = "client" => AwaitsClient(s)
         /\ Ftp!Top(s) = "loop" => Resting(s) \/ Transfers(s)
<1>1. Resting(s) \/ AwaitsServer(s) \/ AwaitsClient(s) \/ Transfers(s)
  BY DEF FtpOk, Phase
<1>2. AwaitsServer(s) => Ftp!Top(s) = "server"
  BY RestOfTwo DEF AwaitsServer, Ftp!Top
<1>3. AwaitsClient(s) => Ftp!Top(s) = "client"
  BY RestOfTwo DEF AwaitsClient, Ftp!Top
<1>4. Resting(s) \/ Transfers(s) => Ftp!Top(s) = "loop"
  BY OneCall DEF Resting, Loops, Transfers, Ftp!Top
<1>5. QED
  BY <1>1, <1>2, <1>3, <1>4

\* The calls of a session that is served.
LEMMA Tops ==
  ASSUME NEW s, FtpOk(s), s.mode = "serving"
  PROVE  /\ Ftp!Top(s) \in FtpCalls
         /\ s.stack = <<"loop", "server">> => Ftp!Top(s) = "server"
<1>1. s.stack \in Seq(FtpCalls) /\ s.stack # <<>>
  BY FtpParts DEF FtpOk, FtpBase
<1>2. Len(s.stack) \in 1 .. Len(s.stack)
  BY <1>1, EmptySeq
<1>3. Ftp!Top(s) \in FtpCalls
  BY <1>1, <1>2 DEF Ftp!Top
<1>4. s.stack = <<"loop", "server">> => Ftp!Top(s) = "server"
  BY RestOfTwo DEF Ftp!Top
<1>5. QED
  BY <1>3, <1>4

\* A child that has no session.
LEMMA NoSessionOk == FtpOk(Ftp!NoSession)
<1>1. Ftp!NoSession \in FtpSessions
  <2>1. /\ FALSE \in Truths /\ TRUE \in Truths /\ 0 \in Int /\ 0 \in Nat
        /\ <<>> \in Seq(FtpCalls) /\ <<>> \in Seq(FtpReplies)
    BY DEF Truths
  <2>2. /\ "idle" \in FtpModes /\ "none" \in FtpServers /\ "null" \in FtpServerEnds
        /\ "null" \in FtpUserEnds /\ "no" \in FtpWays /\ "none" \in FtpWorth
    BY DEF FtpModes, FtpServers, FtpServerEnds, FtpUserEnds, FtpWays, FtpWorth
  <2>3. /\ {} \in SUBSET Ftp!Flags /\ {} \in SUBSET {"try", "require", "data"}
        /\ {} \in SUBSET FtpCauses
    OBVIOUS
  <2>4. QED
    BY <2>1, <2>2, <2>3, ZenonT(60) DEF FtpSessions, Ftp!NoSession
<1>2. /\ Ftp!NoSession.mode = "idle" /\ Ftp!NoSession.userfd = TRUE
      /\ Ftp!NoSession.lost = FALSE /\ Ftp!NoSession.claim = "none"
      /\ Ftp!NoSession.ud = "null" /\ Ftp!NoSession.clear = FALSE
  BY DEF Ftp!NoSession
<1>3. QED
  BY <1>1, <1>2 DEF FtpOk, FtpBase, UserDataOk, NameOk

\* The calls without the innermost.
Popped(s) == [s EXCEPT !.stack = SubSeq(@, 1, Len(@) - 1)]

\* Nothing else differs.
LEMMA PoppedOk ==
  ASSUME NEW s, FtpOk(s), s.mode = "serving", Ftp!Top(s) # "loop",
         NEW u, u = Popped(s)
  PROVE  /\ FtpBase(u) /\ UserDataOk(u) /\ u.mode = "serving" /\ u.stack = Rest(s.stack)
         /\ u.sd = s.sd /\ u.ud = s.ud /\ u.xfer = s.xfer /\ u.claim = s.claim
         /\ u.due = s.due /\ u.owed = s.owed /\ u.flags = s.flags /\ u.causes = s.causes
<1>1. s \in FtpSessions
  BY DEF FtpOk, FtpBase
<1>2. PICK b \in Truths : b = s.back
  BY <1>1, FtpParts
<1>3. u = [s EXCEPT !.stack = SubSeq(@, 1, Len(@) - 1), !.back = s.back]
  BY <1>1, ZenonT(60) DEF FtpSessions, Popped
<1>4. u = Returned(s, b)
  BY <1>2, <1>3, Zenon DEF Returned
<1>5. QED
  BY <1>4, OkReturned

\* The command that waited for the server's connection goes on for the loop, ...
LEMMA BackFromServer ==
  ASSUME NEW s, FtpOk(s), s.mode = "serving", Ftp!Top(s) = "server", ~Accepted(s),
         NEW u, FtpBase(u), UserDataOk(u), u.mode = "serving", u.stack = Rest(s.stack),
         u.claim = s.claim, u.flags = s.flags, u.causes = s.causes
  PROVE  On(u, 0, {"user"})
<1>1. ASSUME ~Left(u, FtpOverlap)
      PROVE  Loops(u)
  <2>1. AwaitsServer(s)
    BY <1>1, Innermost DEF Left
  <2>2. u.stack = <<"loop">>
    BY <2>1, RestOfTwo DEF AwaitsServer
  <2>3. QED
    BY <2>1, <2>2 DEF AwaitsServer, Loops, Accepted
<1>2. QED
  BY <1>1 DEF On

\* ... and so does the one that waited for the user's.
LEMMA BackFromClient ==
  ASSUME NEW s, FtpOk(s), s.mode = "serving", Ftp!Top(s) = "client",
         NEW u, FtpBase(u), UserDataOk(u), u.mode = "serving", u.stack = Rest(s.stack),
         u.claim = s.claim, u.flags = s.flags, u.causes = s.causes, u.sd = s.sd, u.ud = s.ud,
         u.xfer = s.xfer, u.due = s.due, u.owed = s.owed
  PROVE  On(u, 1, Steps) /\ Joins(u)
<1>1. ASSUME ~Left(u, FtpOverlap)
      PROVE  Loops(u) /\ StepAt(u, 1) /\ Joins(u)
  <2>1. AwaitsClient(s)
    BY <1>1, Innermost DEF Left
  <2>2. u.stack = <<"loop">>
    BY <2>1, RestOfTwo DEF AwaitsClient
  <2>3. StepAt(u, 1)
    BY <2>1 DEF AwaitsClient, StepAt, Left
  <2>4. QED
    BY <2>1, <2>2, <2>3 DEF AwaitsClient, Loops, Accepted, Joins, Joint
<1>2. Left(u, FtpOverlap) => StepAt(u, 1) /\ Joins(u)
  BY FtpNames DEF Left, StepAt, Joins, Joint
<1>3. QED
  BY <1>1, <1>2 DEF On, Steps

\* The connection was accepted: the command goes on when it is there.
LEMMA BackAccepted ==
  ASSUME NEW s, FtpOk(s), s.mode = "serving", Ftp!Top(s) = "server", Accepted(s),
         NEW p, FtpBase(p), UserDataOk(p), p.mode = "serving", p.stack = Rest(s.stack),
         p.claim = s.claim, p.flags = s.flags, p.causes = s.causes, p.sd = s.sd, p.ud = s.ud,
         p.xfer = s.xfer, p.due = s.due, p.owed = s.owed,
         NEW t, t = Ftp!Clear(p, {"SERVER_ACCEPT"})
  PROVE  On(t, 0, {"user"}) /\ (s.sd # "null" => On(t, 1, Steps) /\ Joint(t))
<1>1. p \in FtpSessions
  BY DEF FtpBase
<1>2. PICK f \in SUBSET Ftp!Flags : f = p.flags \ {"SERVER_ACCEPT"}
  BY <1>1, FtpParts
<1>3. t = Marked(p, f)
  BY <1>2, Zenon DEF Ftp!Clear, Marked
<1>4. /\ t \in FtpSessions /\ t.causes = p.causes /\ t.due = p.due /\ t.owed = p.owed
      /\ t.sd = p.sd /\ t.xfer = p.xfer /\ t.cfg = p.cfg /\ t.tls = p.tls /\ t.ud = p.ud
      /\ t.mode = p.mode /\ t.stack = p.stack /\ t.lost = p.lost /\ t.claim = p.claim
      /\ t.clear = p.clear /\ t.userfd = p.userfd /\ t.flags = f
  BY <1>1, <1>3, FtpMarked
<1>5. FtpBase(t)
  BY <1>4 DEF FtpBase, NameOk, Left
<1>6. UserDataOk(t)
  BY <1>4 DEF UserDataOk, Left
<1>7. ASSUME ~Left(t, FtpOverlap)
      PROVE  Loops(t) /\ (s.sd # "null" => StepAt(t, 1) /\ Joint(t))
  <2>1. AwaitsServer(s)
    BY <1>4, <1>7, Innermost DEF Left
  <2>2. t.stack = <<"loop">>
    BY <1>4, <2>1, RestOfTwo DEF AwaitsServer
  <2>3. Loops(t)
    BY <1>2, <1>4, <2>1, <2>2 DEF AwaitsServer, Loops, Accepted
  <2>4. s.sd # "null" => s.sd = "connected" /\ s.xfer # "no"
    <3>1. s.sd \in FtpServerEnds
      BY FtpParts DEF FtpOk, FtpBase
    <3>2. QED
      BY <2>1, <3>1 DEF AwaitsServer, FtpServerEnds
  <2>5. s.sd # "null" => StepAt(t, 1)
    BY <1>4, <2>1, <2>4 DEF AwaitsServer, StepAt, Left
  <2>6. QED
    BY <1>4, <2>3, <2>4, <2>5 DEF Joint
<1>8. Left(t, FtpOverlap) => StepAt(t, 1) /\ Joint(t)
  BY FtpNames DEF Left, StepAt, Joint
<1>9. QED
  BY <1>4, <1>5, <1>6, <1>7, <1>8 DEF On, Steps

\* OpenServerDataConnection() after its wait.
LEMMA ServerReturnOk ==
  ASSUME NEW s, FtpOk(s), s.mode = "serving", Ftp!Top(s) = "server",
         NEW u \in Ftp!ServerReturn(s)
  PROVE  FtpOk(u)
<1>1. PICK p : p = Popped(s)
  OBVIOUS
<1>2. /\ FtpBase(p) /\ UserDataOk(p) /\ p.mode = "serving" /\ p.stack = Rest(s.stack)
      /\ p.sd = s.sd /\ p.ud = s.ud /\ p.xfer = s.xfer /\ p.claim = s.claim
      /\ p.due = s.due /\ p.owed = s.owed /\ p.flags = s.flags /\ p.causes = s.causes
  BY <1>1, PoppedOk
<1>3. PICK t : t = Ftp!Clear(p, {"SERVER_ACCEPT"})
  OBVIOUS
<1>4. Ftp!IsSet(s, {"SERVER_ACCEPT"}) <=> Accepted(s)
  BY DEF Ftp!IsSet, Accepted
<1>5. u \in IF Ftp!IsSet(s, {"SERVER_ACCEPT"})
            THEN IF s.sd # "null" THEN Ftp!ServerReady(t) ELSE Ftp!CannotOpen(t)
            ELSE IF s.sd = "null" THEN Ftp!CannotOpen(p)
            ELSE {[s EXCEPT !.back = FALSE]}
  BY <1>1, <1>3, Zenon DEF Ftp!ServerReturn, Popped
<1>6. CASE Accepted(s)
  <2>1. On(t, 0, {"user"}) /\ (s.sd # "null" => On(t, 1, Steps) /\ Joint(t))
    BY <1>2, <1>3, <1>6, BackAccepted
  <2>2. u \in IF s.sd # "null" THEN Ftp!ServerReady(t) ELSE Ftp!CannotOpen(t)
    BY <1>4, <1>5, <1>6, Zenon
  <2>3. QED
    BY <2>1, <2>2, ServerReadyOk, CannotOpenOk
<1>7. CASE ~Accepted(s) /\ u \in Ftp!CannotOpen(p)
  <2>1. On(p, 0, {"user"})
    BY <1>2, <1>7, BackFromServer
  <2>2. QED
    BY <1>7, <2>1, CannotOpenOk
<1>8. CASE ~Accepted(s) /\ u = [s EXCEPT !.back = FALSE]
  <2>1. PICK b \in Truths : b = FALSE
    BY DEF Truths
  <2>2. u = [s EXCEPT !.back = b] /\ SameWait(s, u)
    BY <1>8, <2>1 DEF SameWait
  <2>3. QED
    BY <2>2, OkBack
<1>9. QED
  BY <1>4, <1>5, <1>6, <1>7, <1>8, Zenon

\* WaitClientDataConnection() after its wait.
LEMMA ClientReturnOk ==
  ASSUME NEW s, FtpOk(s), s.mode = "serving", Ftp!Top(s) = "client",
         NEW u \in Ftp!ClientReturn(s)
  PROVE  FtpOk(u)
<1>1. PICK p : p = Popped(s)
  OBVIOUS
<1>2. /\ FtpBase(p) /\ UserDataOk(p) /\ p.mode = "serving" /\ p.stack = Rest(s.stack)
      /\ p.sd = s.sd /\ p.ud = s.ud /\ p.xfer = s.xfer /\ p.claim = s.claim
      /\ p.due = s.due /\ p.owed = s.owed /\ p.flags = s.flags /\ p.causes = s.causes
  BY <1>1, PoppedOk
<1>3. On(p, 1, Steps) /\ Joins(p)
  BY <1>2, BackFromClient
<1>4. \/ u \in Ftp!ClientAccepted(p) \/ u \in Ftp!NotOpened(p)
      \/ u = [s EXCEPT !.back = FALSE]
  BY <1>1, Zenon DEF Ftp!ClientReturn, Popped
<1>5. CASE u = [s EXCEPT !.back = FALSE]
  <2>1. PICK b \in Truths : b = FALSE
    BY DEF Truths
  <2>2. s.stack # <<"loop", "server">>
    BY Tops
  <2>3. u = [s EXCEPT !.back = b] /\ SameWait(s, u)
    BY <1>5, <2>1, <2>2 DEF SameWait
  <2>4. QED
    BY <2>3, OkBack
<1>6. QED
  BY <1>3, <1>4, <1>5, ClientAcceptedOk, NotOpenedOk

\* The loop goes on, or the session is over and what it had is deleted.
LEMMA LoopReturnOk ==
  ASSUME NEW s, FtpOk(s), s.mode = "serving", Ftp!Top(s) = "loop",
         NEW u \in Ftp!LoopReturn(s)
  PROVE  FtpOk(u)
<1>1. CASE u = [s EXCEPT !.back = FALSE]
  <2>1. PICK b \in Truths : b = FALSE
    BY DEF Truths
  <2>2. s.stack # <<"loop", "server">>
    BY Tops
  <2>3. u = [s EXCEPT !.back = b] /\ SameWait(s, u)
    BY <1>1, <2>1, <2>2 DEF SameWait
  <2>4. QED
    BY <2>3, OkBack
<1>2. CASE u = Ftp!NoSession
  BY <1>2, NoSessionOk
<1>3. CASE s.ud = "dangling" /\ u = Ftp!Crash(s)
  <2>1. Left(s, FtpFatal)
    BY <1>3, FtpNames DEF FtpOk, UserDataOk, Left
  <2>2. QED
    BY <1>3, <2>1, CrashOk DEF FtpOk
<1>4. u = [s EXCEPT !.back = FALSE] \/ \E t \in Ftp!Delete(s) :
        u = IF t.mode = "crashed" THEN t ELSE Ftp!NoSession
  BY Zenon DEF Ftp!LoopReturn
<1>5. ASSUME NEW t \in Ftp!Delete(s), u = IF t.mode = "crashed" THEN t ELSE Ftp!NoSession
      PROVE  u = Ftp!NoSession \/ (s.ud = "dangling" /\ u = Ftp!Crash(s))
  BY <1>5 DEF Ftp!Delete
<1>6. QED
  BY <1>1, <1>2, <1>3, <1>4, <1>5, Zenon

\* WaitEvents() returns to its caller.
LEMMA WaitReturnsOk ==
  ASSUME NEW s, FtpOk(s), s.mode = "serving", NEW u \in Ftp!WaitReturns(s)
  PROVE  FtpOk(u)
<1>1. Ftp!Top(s) \in FtpCalls
  BY Tops
<1>2. CASE Ftp!Top(s) = "loop"
  BY <1>2, LoopReturnOk DEF Ftp!WaitReturns
<1>3. CASE Ftp!Top(s) = "server"
  BY <1>3, ServerReturnOk DEF Ftp!WaitReturns
<1>4. CASE Ftp!Top(s) = "client"
  BY <1>4, ClientReturnOk DEF Ftp!WaitReturns
<1>5. QED
  BY <1>1, <1>2, <1>3, <1>4 DEF FtpCalls

\* The timer of the innermost wait.
LEMMA TimedOutOk ==
  ASSUME NEW s, FtpOk(s), s.mode = "serving", ~s.back, NEW u \in Ftp!TimedOut(s)
  PROVE  FtpOk(u)
<1>1. Ftp!Top(s) \in FtpCalls
  BY Tops
<1>2. PICK b \in Truths : b = TRUE
  BY DEF Truths
<1>3. PICK p : p = Returned(s, b)
  OBVIOUS
<1>4. CASE Ftp!Top(s) = "loop"
  <2>1. PICK t : t = Ftp!Clear(s, {"CONNECTED"})
    OBVIOUS
  <2>2. FtpOk(t)
    BY <2>1, OkCleared
  <2>3. u = [t EXCEPT !.back = b]
    BY <1>2, <1>4, <2>1, Zenon DEF Ftp!TimedOut
  <2>4. u.back = TRUE
    <3>1. t \in FtpSessions
      BY <2>2 DEF FtpOk, FtpBase
    <3>2. u.back = b
      BY <2>3, <3>1, ZenonT(60) DEF FtpSessions
    <3>3. QED
      BY <1>2, <3>2
  <2>5. SameWait(t, u)
    BY <2>4 DEF SameWait
  <2>6. QED
    BY <2>2, <2>3, <2>5, OkBack
<1>5. ASSUME Ftp!Top(s) # "loop"
      PROVE  /\ FtpBase(p) /\ UserDataOk(p) /\ p.mode = "serving" /\ p.stack = Rest(s.stack)
             /\ p.sd = s.sd /\ p.ud = s.ud /\ p.xfer = s.xfer /\ p.claim = s.claim
             /\ p.due = s.due /\ p.owed = s.owed /\ p.flags = s.flags /\ p.causes = s.causes
  BY <1>3, <1>5, OkReturned
<1>6. CASE Ftp!Top(s) = "server"
  <2>1. u \in Ftp!CannotOpen(p)
    BY <1>2, <1>3, <1>6, Zenon DEF Ftp!TimedOut, Returned
  <2>2. ASSUME ~Left(p, FtpOverlap)
        PROVE  Loops(p)
    <3>1. AwaitsServer(s)
      BY <1>5, <1>6, <2>2, Innermost DEF Left
    <3>2. p.stack = <<"loop">>
      BY <1>5, <1>6, <3>1, RestOfTwo DEF AwaitsServer
    <3>3. QED
      BY <1>5, <1>6, <3>1, <3>2 DEF AwaitsServer, Loops, Accepted
  <2>3. On(p, 0, {"user"})
    BY <1>5, <1>6, <2>2 DEF On
  <2>4. QED
    BY <2>1, <2>3, CannotOpenOk
<1>7. CASE Ftp!Top(s) = "client"
  <2>1. PICK t : t = Ftp!Clear(p, {"CLIENT_ACCEPT"})
    OBVIOUS
  <2>2. u \in Ftp!NotOpened(t)
    BY <1>2, <1>3, <1>7, <2>1, Zenon DEF Ftp!TimedOut, Returned
  <2>3. On(p, 1, Steps)
    BY <1>5, <1>7, BackFromClient
  <2>4. On(t, 1, Steps)
    BY <2>1, <2>3, OnClear
  <2>5. QED
    BY <2>2, <2>4, NotOpenedOk
<1>8. QED
  BY <1>1, <1>4, <1>6, <1>7 DEF FtpCalls

\* What a block that is forwarded changes.
LEMMA OkMoved ==
  ASSUME NEW s, FtpOk(s), NEW l \in Int, NEW b \in Truths,
         b => "early" \in s.causes \/ Left(s, FtpOverlap),
         NEW u, u = Moving(s, s.xfer, l, b)
  PROVE  FtpOk(u)
<1>1. s \in FtpSessions
  BY DEF FtpOk, FtpBase
<1>2. PICK y \in FtpWays : y = s.xfer
  BY <1>1, FtpParts
<1>3. u = Moving(s, y, l, b)
  BY <1>2
<1>4. /\ u \in FtpSessions /\ u.causes = s.causes /\ u.due = s.due /\ u.owed = s.owed
      /\ u.sd = s.sd /\ u.xfer = y /\ u.cfg = s.cfg /\ u.tls = s.tls /\ u.ud = s.ud
      /\ u.mode = s.mode /\ u.stack = s.stack /\ u.lost = b /\ u.claim = s.claim
      /\ u.clear = s.clear /\ u.userfd = s.userfd /\ u.flags = s.flags /\ u.back = s.back
  BY <1>1, <1>3, FtpMoving
<1>5. FtpBase(u)
  BY <1>4 DEF FtpOk, FtpBase, NameOk, Left
<1>6. UserDataOk(u)
  BY <1>4 DEF FtpOk, UserDataOk, Left
<1>7. Phase(s) => Phase(u)
  BY <1>2, <1>4 DEF Phase, Resting, Loops, AwaitsServer, AwaitsClient, Transfers, Accepted,
     StepAt, Left
<1>8. QED
  BY <1>4, <1>5, <1>6, <1>7 DEF FtpOk

\* The other end is there, but where a command waits for the user's connection.
Linked(s, to) == Left(s, FtpOverlap) \/ Ftp!Top(s) = "client" \/ to = "connected"

\* ForwardData() with data.
LEMMA ForwardBlockOk ==
  ASSUME NEW s, FtpOk(s), s.mode = "serving", NEW to, Linked(s, to),
         NEW u \in Ftp!ForwardBlock(s, to)
  PROVE  FtpOk(u)
<1>1. PICK x \in FtpCauses : x = "early"
  BY FtpNamed
<1>2. PICK t : t = IF Ftp!Top(s) = "client" THEN Ftp!Cause(s, x) ELSE s
  OBVIOUS
<1>3. FtpOk(t) /\ (Ftp!Top(s) = "client" => x \in t.causes) /\ s.causes \subseteq t.causes
  <2>1. CASE Ftp!Top(s) = "client"
    <3>1. t = Ftp!Cause(s, x)
      BY <1>2, <2>1
    <3>2. /\ t \in FtpSessions /\ Alike(s, t) /\ SameEnds(s, t) /\ x \in t.causes
          /\ t.due = s.due /\ t.owed = s.owed /\ t.back = s.back
      BY <3>1, CauseAlike DEF FtpOk, FtpBase
    <3>3. FtpOk(t)
      BY <3>2, OkAlike DEF SameWait
    <3>4. QED
      BY <3>2, <3>3 DEF SameEnds
  <2>2. QED
    BY <1>2, <2>1
<1>4. to = "connected" \/ "early" \in t.causes \/ Left(t, FtpOverlap)
  BY <1>1, <1>3, StaysLeft DEF Linked
<1>5. CASE to = "null" /\ u = Ftp!Crash(t)
  <2>1. Left(t, FtpFatal)
    BY <1>4, <1>5, FtpNames DEF Left
  <2>2. QED
    BY <1>3, <1>5, <2>1, CrashOk DEF FtpOk
<1>6. CASE u = [t EXCEPT !.left = @ - 1, !.lost = @ \/ to # "connected"]
  <2>1. t \in FtpSessions
    BY <1>3 DEF FtpOk, FtpBase
  <2>2. PICK l \in Int : l = t.left - 1
    BY <2>1, FtpParts
  <2>3. PICK b \in Truths : b = (t.lost \/ to # "connected")
    BY DEF Truths
  <2>4. u = [t EXCEPT !.xfer = t.xfer, !.left = l, !.lost = b]
    BY <1>6, <2>1, <2>2, <2>3, ZenonT(60) DEF FtpSessions
  <2>5. u = Moving(t, t.xfer, l, b)
    BY <2>4, Zenon DEF Moving
  <2>6. b => "early" \in t.causes \/ Left(t, FtpOverlap)
    BY <1>3, <1>4, <2>3 DEF FtpOk, FtpBase
  <2>7. QED
    BY <1>3, <2>5, <2>6, OkMoved
<1>7. \/ to = "null" /\ u = Ftp!Crash(t)
      \/ u = [t EXCEPT !.left = @ - 1, !.lost = @ \/ to # "connected"]
  BY <1>1, <1>2, Zenon DEF Ftp!ForwardBlock
<1>8. QED
  BY <1>5, <1>6, <1>7, Zenon

\* A session that is like one that is like another is like that.
LEMMA AlikeTrans ==
  ASSUME NEW s, NEW t, NEW u, Alike(s, t), SameEnds(s, t), Alike(t, u), SameEnds(t, u)
  PROVE  Alike(s, u) /\ SameEnds(s, u)
BY DEF Alike, SameEnds

\* The data has ended: at most one more reply of the server is there, unless the session is
\* out of step or nobody asked for data.
Ending(s) ==
  \/ Left(s, FtpOverlap)
  \/ /\ s.claim = "running" /\ s.stack = <<"loop">> /\ ~Accepted(s)
     /\ \/ s.due = 1 /\ (s.owed = <<>> \/ \E r : s.owed = <<r>>)
        \/ Left(s, FtpOut)
  \/ /\ s.claim # "running"
     /\ \/ Loops(s) \/ s.stack = <<"loop", "server">>
        \/ s.stack = <<"loop", "client">> /\ ~Accepted(s)

\* The end of the data, which is a cut where it came too early.
Ended(s, whole) ==
  /\ FtpBase(s) /\ UserDataOk(s) /\ s.mode = "serving" /\ s.back = TRUE /\ Ending(s)
  /\ whole \/ "cut" \in s.causes

\* What is noted of it.
LEMMA EndNoted ==
  ASSUME NEW s, NEW whole, Ended(s, whole), NEW a, a = Ftp!RecvStatus(s),
         NEW v, v = IF a[1] = "226" THEN a[2] ELSE Ftp!Cause(a[2], "status"),
         NEW t, t = IF s.claim = "running" THEN v ELSE Ftp!Cause(v, "unasked")
  PROVE  /\ t \in FtpSessions /\ Alike(s, t) /\ SameEnds(s, t) /\ t.due = s.due
         /\ t.back = s.back /\ (s.owed = <<>> \/ (\E r : s.owed = <<r>>) => t.owed = <<>>)
         /\ a[1] = "226" \/ "status" \in t.causes
         /\ s.claim = "running" \/ "unasked" \in t.causes
<1>1. s \in FtpSessions
  BY DEF Ended, FtpBase
<1>2. PICK r : r = a[2]
  OBVIOUS
<1>3. /\ r \in FtpSessions /\ Alike(s, r) /\ SameEnds(s, r) /\ r.due = s.due /\ r.back = s.back
      /\ (s.owed = <<>> \/ (\E q : s.owed = <<q>>) => r.owed = <<>>)
  BY <1>1, <1>2, RecvAlike
<1>4. PICK x \in FtpCauses : x = "status"
  BY FtpNamed
<1>5. PICK y \in FtpCauses : y = "unasked"
  BY FtpNamed
<1>6. /\ v \in FtpSessions /\ Alike(s, v) /\ SameEnds(s, v) /\ v.due = s.due
      /\ v.back = s.back /\ v.owed = r.owed /\ (a[1] = "226" \/ x \in v.causes)
  <2>1. CASE a[1] = "226"
    BY <1>2, <1>3, <2>1
  <2>2. CASE a[1] # "226"
    <3>1. v = Ftp!Cause(r, x)
      BY <1>2, <1>4, <2>2
    <3>2. /\ v \in FtpSessions /\ Alike(r, v) /\ SameEnds(r, v) /\ x \in v.causes
          /\ v.due = r.due /\ v.owed = r.owed /\ v.back = r.back
      BY <1>3, <3>1, CauseAlike
    <3>3. Alike(s, v) /\ SameEnds(s, v)
      BY <1>3, <3>2, AlikeTrans
    <3>4. QED
      BY <1>3, <3>2, <3>3
  <2>3. QED
    BY <2>1, <2>2
<1>7. /\ t \in FtpSessions /\ Alike(s, t) /\ SameEnds(s, t) /\ t.due = s.due
      /\ t.back = s.back /\ t.owed = r.owed /\ v.causes \subseteq t.causes
      /\ (s.claim = "running" \/ y \in t.causes)
  <2>1. CASE s.claim = "running"
    BY <1>6, <2>1
  <2>2. CASE s.claim # "running"
    <3>1. t = Ftp!Cause(v, y)
      BY <1>5, <2>2
    <3>2. /\ t \in FtpSessions /\ Alike(v, t) /\ SameEnds(v, t) /\ y \in t.causes
          /\ t.due = v.due /\ t.owed = v.owed /\ t.back = v.back
      BY <1>6, <3>1, CauseAlike
    <3>3. Alike(s, t) /\ SameEnds(s, t)
      BY <1>6, <3>2, AlikeTrans
    <3>4. QED
      BY <1>6, <3>2, <3>3 DEF SameEnds
  <2>3. QED
    BY <2>1, <2>2
<1>8. QED
  BY <1>3, <1>4, <1>5, <1>6, <1>7

\* Both ends are closed and the user is told.
Closed(t, c) == Ftp!Reply([Ftp!Drop(t) EXCEPT !.xfer = "no", !.claim = c])

\* Nothing else differs.
LEMMA ClosedParts ==
  ASSUME NEW t \in FtpSessions, NEW c \in FtpWorth, NEW u, u = Closed(t, c)
  PROVE  /\ u \in FtpSessions
         /\ u.sd = "null" /\ u.ud = "null" /\ u.xfer = "no" /\ u.claim = c
         /\ u.due = t.due - 1 /\ u.owed = t.owed /\ u.causes = t.causes /\ u.back = t.back
         /\ u.mode = t.mode /\ u.stack = t.stack /\ u.flags = t.flags /\ u.cfg = t.cfg
         /\ u.lost = t.lost /\ u.clear = t.clear /\ u.userfd = t.userfd
<1>1. PICK a \in FtpServerEnds : a = "null"
  BY DEF FtpServerEnds
<1>2. PICK b \in FtpUserEnds : b = "null"
  BY DEF FtpUserEnds
<1>3. PICK y \in FtpWays : y = "no"
  BY DEF FtpWays
<1>4. PICK z \in FtpWays : z = t.xfer
  BY FtpParts
<1>5. PICK d : d = Ftp!Drop(t)
  OBVIOUS
<1>6. d = Data(t, a, b, z)
  <2>1. d = [t EXCEPT !.sd = "null", !.ud = "null", !.xfer = t.xfer]
    BY <1>5, ZenonT(60) DEF Ftp!Drop, FtpSessions
  <2>2. QED
    BY <1>1, <1>2, <1>4, <2>1, Zenon DEF Data
<1>7. /\ d \in FtpSessions /\ d.sd = a /\ d.ud = b /\ d.due = t.due /\ d.owed = t.owed
      /\ d.causes = t.causes /\ d.back = t.back /\ d.mode = t.mode /\ d.stack = t.stack
      /\ d.flags = t.flags /\ d.cfg = t.cfg /\ d.lost = t.lost /\ d.clear = t.clear
      /\ d.userfd = t.userfd
  BY <1>6, FtpData
<1>8. PICK e : e = [d EXCEPT !.xfer = "no", !.claim = c]
  OBVIOUS
<1>9. e = Claims(d, y, c)
  BY <1>3, <1>8, Zenon DEF Claims
<1>10. /\ e \in FtpSessions /\ e.sd = a /\ e.ud = b /\ e.due = t.due /\ e.owed = t.owed
       /\ e.xfer = y /\ e.claim = c
       /\ e.causes = t.causes /\ e.back = t.back /\ e.mode = t.mode /\ e.stack = t.stack
       /\ e.flags = t.flags /\ e.cfg = t.cfg /\ e.lost = t.lost /\ e.clear = t.clear
       /\ e.userfd = t.userfd
  BY <1>7, <1>9, FtpClaims
<1>11. PICK i \in Int : i = e.due - 1
  BY <1>10, FtpParts
<1>12. u = Owed(e, i)
  BY <1>5, <1>8, <1>11, Zenon DEF Closed, Owed, Ftp!Reply
<1>13. /\ u \in FtpSessions /\ u.sd = e.sd /\ u.ud = e.ud /\ u.due = i /\ u.owed = e.owed
       /\ u.xfer = e.xfer /\ u.claim = e.claim
       /\ u.causes = e.causes /\ u.back = e.back /\ u.mode = e.mode /\ u.stack = e.stack
       /\ u.flags = e.flags /\ u.cfg = e.cfg /\ u.lost = e.lost /\ u.clear = e.clear
       /\ u.userfd = e.userfd
  BY <1>10, <1>12, FtpOwed
<1>14. QED
  BY <1>1, <1>2, <1>3, <1>10, <1>11, <1>13

\* It keeps the session in one of its phases.
LEMMA ClosedOk ==
  ASSUME NEW s, NEW whole, Ended(s, whole), NEW t \in FtpSessions, Alike(s, t),
         SameEnds(s, t), t.due = s.due, t.back = s.back,
         s.owed = <<>> \/ (\E r : s.owed = <<r>>) => t.owed = <<>>,
         s.claim = "running" \/ "unasked" \in t.causes,
         NEW c \in {"whole", "short"}, c = "short" => Left(t, FtpFalse),
         NEW u, u = Closed(t, c)
  PROVE  FtpOk(u)
<1>1. c \in FtpWorth
  BY DEF FtpWorth
<1>2. /\ u \in FtpSessions
      /\ u.sd = "null" /\ u.ud = "null" /\ u.xfer = "no" /\ u.claim = c
      /\ u.due = t.due - 1 /\ u.owed = t.owed /\ u.causes = t.causes /\ u.back = t.back
      /\ u.mode = t.mode /\ u.stack = t.stack /\ u.flags = t.flags /\ u.cfg = t.cfg
      /\ u.lost = t.lost /\ u.clear = t.clear /\ u.userfd = t.userfd
  BY <1>1, ClosedParts
<1>3. FtpBase(t)
  BY AlikeBase DEF Ended
<1>4. FtpBase(u)
  BY <1>2, <1>3 DEF FtpBase, NameOk, Left
<1>5. UserDataOk(u)
  BY <1>2 DEF UserDataOk
<1>6. u.claim # "running"
  BY <1>2
<1>7. Left(s, FtpOverlap) => Left(u, FtpOverlap)
  BY <1>2, StaysLeft DEF SameEnds
<1>8. Accepted(u) <=> Accepted(s)
  BY <1>2 DEF Alike, Accepted
<1>9. ASSUME s.claim = "running", s.stack = <<"loop">>, ~Accepted(s),
             \/ s.due = 1 /\ (s.owed = <<>> \/ \E r : s.owed = <<r>>)
             \/ Left(s, FtpOut)
      PROVE  Resting(u)
  <2>1. Left(s, FtpOut) => Left(u, FtpOut)
    BY <1>2, StaysLeft DEF SameEnds
  <2>2. StepAt(u, 0)
    BY <1>2, <1>9, <2>1 DEF StepAt
  <2>3. Loops(u)
    BY <1>2, <1>6, <1>8, <1>9 DEF Loops, Alike
  <2>4. QED
    BY <1>2, <2>2, <2>3 DEF Resting
<1>10. ASSUME s.claim # "running"
       PROVE  Left(u, FtpOut)
  BY <1>2, <1>10, FtpNames DEF Left
<1>11. ASSUME s.claim # "running", Loops(s)
       PROVE  Resting(u)
  BY <1>2, <1>6, <1>8, <1>10, <1>11 DEF Resting, Loops, StepAt, Alike
<1>12. ASSUME s.claim # "running", s.stack = <<"loop", "server">>
       PROVE  AwaitsServer(u)
  BY <1>2, <1>6, <1>10, <1>12 DEF AwaitsServer, Alike, Ended
<1>13. ASSUME s.claim # "running", s.stack = <<"loop", "client">>, ~Accepted(s)
       PROVE  AwaitsClient(u)
  BY <1>2, <1>6, <1>8, <1>10, <1>13 DEF AwaitsClient, StepAt, Alike
<1>14. Phase(u)
  BY <1>7, <1>9, <1>11, <1>12, <1>13 DEF Phase, Ended, Ending
<1>15. QED
  BY <1>4, <1>5, <1>14 DEF FtpOk

\* ForwardData() at the end of the data.
LEMMA ForwardEndOk ==
  ASSUME NEW s, NEW whole \in BOOLEAN, Ended(s, whole), NEW u \in Ftp!ForwardEnd(s, whole)
  PROVE  FtpOk(u)
<1>1. PICK a : a = Ftp!RecvStatus(s)
  OBVIOUS
<1>2. PICK v : v = IF a[1] = "226" THEN a[2] ELSE Ftp!Cause(a[2], "status")
  OBVIOUS
<1>3. PICK t : t = IF s.claim = "running" THEN v ELSE Ftp!Cause(v, "unasked")
  OBVIOUS
<1>4. PICK c : c = IF whole /\ ~s.lost /\ a[1] = "226" THEN "whole" ELSE "short"
  OBVIOUS
<1>5. PICK d \in Ftp!Delete(t) : u = IF d.mode = "crashed" THEN d ELSE Closed(d, c)
  BY <1>1, <1>2, <1>3, <1>4, Zenon DEF Ftp!ForwardEnd, Closed
<1>6. /\ t \in FtpSessions /\ Alike(s, t) /\ SameEnds(s, t) /\ t.due = s.due
      /\ t.back = s.back /\ (s.owed = <<>> \/ (\E r : s.owed = <<r>>) => t.owed = <<>>)
      /\ a[1] = "226" \/ "status" \in t.causes
      /\ s.claim = "running" \/ "unasked" \in t.causes
  BY <1>1, <1>2, <1>3, EndNoted
<1>7. t.mode = "serving" /\ FtpBase(t) /\ UserDataOk(t)
  <2>1. FtpBase(t)
    BY <1>6, AlikeBase DEF Ended
  <2>2. UserDataOk(t)
    BY <1>6, StaysLeft DEF Ended, UserDataOk, SameEnds
  <2>3. QED
    BY <1>6, <2>1, <2>2 DEF Ended, Alike
<1>8. CASE d = t
  <2>1. u = Closed(t, c)
    BY <1>5, <1>7, <1>8
  <2>2. c \in {"whole", "short"}
    BY <1>4
  <2>3. c = "short" => Left(t, FtpFalse)
    <3>1. ASSUME c = "short"
          PROVE  ~whole \/ s.lost \/ a[1] # "226"
      BY <1>4, <3>1
    <3>2. ~whole => "cut" \in t.causes
      BY <1>6 DEF Ended, SameEnds
    <3>3. s.lost => "early" \in t.causes \/ Left(t, FtpOverlap)
      BY <1>6, StaysLeft DEF Ended, FtpBase, SameEnds
    <3>4. QED
      BY <1>6, <3>1, <3>2, <3>3, FtpNames DEF Left
  <2>4. QED
    BY <1>6, <2>1, <2>2, <2>3, ClosedOk
<1>9. CASE t.ud = "dangling" /\ d = Ftp!Crash(t)
  <2>1. Left(t, FtpFatal)
    BY <1>7, <1>9, FtpNames DEF UserDataOk, Left
  <2>2. FtpOk(d)
    BY <1>7, <1>9, <2>1, CrashOk
  <2>3. d.mode = "crashed"
    BY <1>6, <1>9, ZenonT(60) DEF Ftp!Crash, FtpSessions
  <2>4. QED
    BY <1>5, <2>2, <2>3
<1>10. d = t \/ (t.ud = "dangling" /\ d = Ftp!Crash(t))
  BY <1>5 DEF Ftp!Delete
<1>11. QED
  BY <1>8, <1>9, <1>10

\* The wait returns.
LEMMA OkWoken ==
  ASSUME NEW s, FtpOk(s), NEW u, u = [s EXCEPT !.back = TRUE]
  PROVE  FtpOk(u) /\ u = Woken(s, s.owed, TRUE)
<1>1. s \in FtpSessions
  BY DEF FtpOk, FtpBase
<1>2. PICK b \in Truths : b = TRUE
  BY DEF Truths
<1>3. u = [s EXCEPT !.back = b]
  BY <1>2
<1>4. u.back = b
  BY <1>1, <1>3, ZenonT(60) DEF FtpSessions
<1>5. SameWait(s, u)
  BY <1>2, <1>4 DEF SameWait
<1>6. FtpOk(u)
  BY <1>3, <1>5, OkBack
<1>7. u = Woken(s, s.owed, TRUE)
  <2>1. u = [s EXCEPT !.owed = s.owed, !.back = TRUE]
    BY <1>1, ZenonT(60) DEF FtpSessions
  <2>2. QED
    BY <2>1, Zenon DEF Woken
<1>8. QED
  BY <1>6, <1>7

\* So it does when the session is told to end.
LEMMA OkToldToEnd ==
  ASSUME NEW s, FtpOk(s), NEW u, u = [Ftp!Clear(s, {"CONNECTED"}) EXCEPT !.back = TRUE]
  PROVE  FtpOk(u)
<1>1. PICK t : t = Ftp!Clear(s, {"CONNECTED"})
  OBVIOUS
<1>2. FtpOk(t)
  BY <1>1, OkCleared
<1>3. u = [t EXCEPT !.back = TRUE]
  BY <1>1
<1>4. QED
  BY <1>2, <1>3, OkWoken

\* A session is served.
LEMMA FtpBegins == FtpInv /\ Ftp!Begin => FtpInv'
<1> SUFFICES ASSUME FtpInv, Ftp!Begin  PROVE FtpInv'
  OBVIOUS
<1>1. PICK k \in Configs :
        ftp' = [Ftp!NoSession EXCEPT !.mode = "serving", !.stack = <<"loop">>,
                                     !.flags = {"CONNECTED"}, !.cfg = k, !.here = TRUE]
  BY Zenon DEF Ftp!Begin
<1>2. PICK z : z = Ftp!NoSession
  OBVIOUS
<1>3. z \in FtpSessions
  BY <1>2, NoSessionOk DEF FtpOk, FtpBase
<1>4. /\ "serving" \in FtpModes /\ TRUE \in Truths /\ {"CONNECTED"} \in SUBSET Ftp!Flags
      /\ <<"loop">> \in Seq(FtpCalls)
  BY FtpFlags DEF FtpModes, Truths, FtpCalls
<1>5. k \in SUBSET {"try", "require", "data"}
  BY SessionsAssumption DEF SessionsAssumption, Ftp!FtpAssumption
<1>6. ftp' \in FtpSessions
  BY <1>1, <1>2, <1>3, <1>4, <1>5, ZenonT(60) DEF FtpSessions
<1>7. /\ ftp'.mode = "serving" /\ ftp'.stack = <<"loop">> /\ ftp'.flags = {"CONNECTED"}
      /\ ftp'.userfd = z.userfd /\ ftp'.lost = z.lost /\ ftp'.claim = z.claim
      /\ ftp'.ud = z.ud /\ ftp'.sd = z.sd /\ ftp'.xfer = z.xfer /\ ftp'.due = z.due
      /\ ftp'.owed = z.owed /\ ftp'.clear = z.clear
  BY <1>1, <1>2, <1>3, ZenonT(60) DEF FtpSessions
<1>8. /\ z.userfd = TRUE /\ z.lost = FALSE /\ z.claim = "none" /\ z.ud = "null"
      /\ z.sd = "null" /\ z.xfer = "no" /\ z.due = 0 /\ z.owed = <<>> /\ z.clear = FALSE
  BY <1>2 DEF Ftp!NoSession
<1>9. FtpBase(ftp')
  BY <1>6, <1>7, <1>8 DEF FtpBase, NameOk
<1>10. Resting(ftp') /\ UserDataOk(ftp')
  BY <1>7, <1>8 DEF Resting, Loops, Accepted, StepAt, UserDataOk
<1>11. QED
  BY <1>9, <1>10 DEF FtpInv, FtpOk, Phase

\* Two calls are more than one.
LEMMA TwoCalls ==
  ASSUME NEW k, NEW a, NEW c, k = <<a, c>>
  PROVE  Len(k) > 1
OBVIOUS

\* A command is one more reply that is owed, and one that comes while another is at work is
\* noted.
LEMMA FtpCommands == FtpInv /\ Ftp!UserCommand => FtpInv'
<1> SUFFICES ASSUME FtpInv, Ftp!UserCommand  PROVE FtpInv'
  OBVIOUS
<1>1. PICK x \in FtpCauses : x = "nested"
  BY FtpNamed
<1>2. PICK s : s = [ftp EXCEPT !.n = @ + 1, !.due = @ + 1, !.back = TRUE]
  OBVIOUS
<1>3. PICK w : w = IF Len(ftp.stack) > 1 \/ ftp.claim = "running" THEN Ftp!Cause(s, x) ELSE s
  OBVIOUS
<1>4. \E cmd : ftp' \in Ftp!DispatchCmd(w, cmd)
  BY <1>1, <1>2, <1>3, Zenon DEF Ftp!UserCommand
<1>5. FtpOk(ftp) /\ ftp \in FtpSessions /\ ftp.mode = "serving"
  BY DEF FtpInv, FtpOk, FtpBase, Ftp!UserCommand, Ftp!Serving
<1>6. PICK i \in Nat : i = ftp.n + 1
  BY <1>5, FtpParts
<1>7. PICK d \in Int : d = ftp.due + 1
  BY <1>5, FtpParts
<1>8. PICK b \in Truths : b = TRUE
  BY DEF Truths
<1>9. s = Begun(ftp, i, d, b)
  BY <1>2, <1>6, <1>7, <1>8, Zenon DEF Begun
<1>10. /\ s \in FtpSessions /\ s.causes = ftp.causes /\ s.due = d /\ s.owed = ftp.owed
       /\ s.sd = ftp.sd /\ s.xfer = ftp.xfer /\ s.cfg = ftp.cfg /\ s.ud = ftp.ud
       /\ s.mode = ftp.mode /\ s.stack = ftp.stack /\ s.lost = ftp.lost
       /\ s.claim = ftp.claim /\ s.clear = ftp.clear /\ s.userfd = ftp.userfd
       /\ s.flags = ftp.flags
  BY <1>5, <1>9, FtpBegun
<1>11. FtpBase(s)
  BY <1>5, <1>10 DEF FtpOk, FtpBase, NameOk, Left
<1>12. UserDataOk(s)
  BY <1>5, <1>10 DEF FtpOk, UserDataOk, Left
<1>13. CASE Len(ftp.stack) > 1 \/ ftp.claim = "running"
  <2>1. w = Ftp!Cause(s, x)
    BY <1>3, <1>13
  <2>2. w \in FtpSessions /\ Alike(s, w) /\ SameEnds(s, w) /\ x \in w.causes
    BY <1>10, <2>1, CauseAlike
  <2>3. FtpBase(w)
    BY <1>11, <2>2, AlikeBase
  <2>4. UserDataOk(w)
    BY <1>12, <2>2, StaysLeft DEF UserDataOk, SameEnds
  <2>5. Left(w, FtpOverlap) /\ Left(w, FtpOut)
    BY <1>1, <2>2, FtpNames DEF Left
  <2>6. w.mode = "serving"
    BY <1>5, <1>10, <2>2 DEF Alike
  <2>7. On(w, 1, Aspects)
    BY <2>3, <2>4, <2>5, <2>6 DEF On, StepAt, Quiet
  <2>8. QED
    BY <1>4, <2>7, DispatchOk DEF FtpInv
<1>14. CASE ~(Len(ftp.stack) > 1 \/ ftp.claim = "running")
  <2>1. w = s
    BY <1>3, <1>14
  <2>2. Left(ftp, FtpOverlap) \/ Resting(ftp)
    <3>1. ~AwaitsServer(ftp) /\ ~AwaitsClient(ftp)
      BY <1>14, TwoCalls DEF AwaitsServer, AwaitsClient
    <3>2. ~Transfers(ftp)
      BY <1>14 DEF Transfers
    <3>3. QED
      BY <1>5, <3>1, <3>2 DEF FtpOk, Phase
  <2>3. Left(s, FtpOverlap) \/ (Loops(s) /\ Quiet(s) /\ StepAt(s, 1))
    BY <1>7, <1>10, <2>2 DEF Resting, Loops, Accepted, Quiet, StepAt, Left
  <2>4. Left(s, FtpOverlap) => Quiet(s) /\ StepAt(s, 1)
    BY FtpNames DEF Left, Quiet, StepAt
  <2>5. On(s, 1, Aspects)
    BY <1>5, <1>10, <1>11, <1>12, <2>3, <2>4 DEF On
  <2>6. QED
    BY <1>4, <2>1, <2>5, DispatchOk DEF FtpInv
<1>15. QED
  BY <1>13, <1>14

\* The user closes his end.
LEMMA FtpLeaves == FtpInv /\ Ftp!UserLeaves => FtpInv'
<1> SUFFICES ASSUME FtpInv, Ftp!UserLeaves  PROVE FtpInv'
  OBVIOUS
<1>1. FtpOk(ftp) /\ ftp \in FtpSessions
  BY DEF FtpInv, FtpOk, FtpBase
<1>2. PICK b \in Truths : b = FALSE
  BY DEF Truths
<1>3. PICK u : u = ftp'
  OBVIOUS
<1>4. u = Here(ftp, b)
  BY <1>2, <1>3, Zenon DEF Here, Ftp!UserLeaves
<1>5. /\ u \in FtpSessions /\ u.causes = ftp.causes /\ u.due = ftp.due /\ u.owed = ftp.owed
      /\ u.sd = ftp.sd /\ u.xfer = ftp.xfer /\ u.cfg = ftp.cfg /\ u.ud = ftp.ud
      /\ u.mode = ftp.mode /\ u.stack = ftp.stack /\ u.lost = ftp.lost
      /\ u.claim = ftp.claim /\ u.clear = ftp.clear /\ u.userfd = ftp.userfd
      /\ u.flags = ftp.flags /\ u.back = ftp.back /\ u.tls = ftp.tls
  BY <1>1, <1>4, FtpHere
<1>6. Alike(ftp, u) /\ SameEnds(ftp, u)
  BY <1>5 DEF Alike, SameEnds, Accepted
<1>7. FtpOk(u)
  BY <1>1, <1>5, <1>6, OkAlike DEF SameWait
<1>8. QED
  BY <1>3, <1>7 DEF FtpInv

\* The loop is told of it.
LEMMA FtpEof == FtpInv /\ Ftp!UserEof => FtpInv'
<1> SUFFICES ASSUME FtpInv, Ftp!UserEof  PROVE FtpInv'
  OBVIOUS
<1>1. PICK u : u = ftp'
  OBVIOUS
<1>2. u = [Ftp!Clear(ftp, {"CONNECTED"}) EXCEPT !.back = TRUE]
  BY <1>1 DEF Ftp!UserEof
<1>3. FtpOk(u)
  BY <1>2, OkToldToEnd DEF FtpInv
<1>4. QED
  BY <1>1, <1>3 DEF FtpInv

\* An event for the socket that AUTH deleted.
LEMMA FtpDeleted == FtpInv /\ Ftp!UserDeleted => FtpInv'
<1> SUFFICES ASSUME FtpInv, Ftp!UserDeleted  PROVE FtpInv'
  OBVIOUS
<1>1. PICK u : u = ftp'
  OBVIOUS
<1>2. u = Ftp!Crash(ftp) \/ u = [ftp EXCEPT !.back = TRUE]
  BY <1>1, Zenon DEF Ftp!UserDeleted
<1>3. CASE u = Ftp!Crash(ftp)
  <2>1. Left(ftp, FtpFatal)
    BY FtpNames DEF FtpInv, FtpOk, FtpBase, Left, Ftp!UserDeleted
  <2>2. FtpOk(u)
    BY <1>3, <2>1, CrashOk DEF FtpInv, FtpOk
  <2>3. QED
    BY <1>1, <2>2 DEF FtpInv
<1>4. CASE u = [ftp EXCEPT !.back = TRUE]
  <2>1. FtpOk(u)
    BY <1>4, OkWoken DEF FtpInv
  <2>2. QED
    BY <1>1, <2>1 DEF FtpInv
<1>5. QED
  BY <1>2, <1>3, <1>4

\* WaitEvents() returns or its timer rings.
LEMMA FtpReturns == FtpInv /\ (Ftp!Return \/ Ftp!Timeout) => FtpInv'
<1> SUFFICES ASSUME FtpInv, Ftp!Return \/ Ftp!Timeout  PROVE FtpInv'
  OBVIOUS
<1>1. PICK u : u = ftp'
  OBVIOUS
<1>2. \/ u \in Ftp!WaitReturns(ftp)
      \/ ~ftp.back /\ u \in Ftp!TimedOut(ftp)
  BY <1>1 DEF Ftp!Return, Ftp!Timeout
<1>3. FtpOk(ftp) /\ ftp.mode = "serving"
  BY DEF FtpInv, Ftp!Return, Ftp!Timeout, Ftp!Serving
<1>4. FtpOk(u)
  BY <1>2, <1>3, WaitReturnsOk, TimedOutOk
<1>5. QED
  BY <1>1, <1>4 DEF FtpInv

\* A connection of the user is accepted or not.
LEMMA FtpUserAccepted == FtpInv /\ Ftp!AcceptUserData => FtpInv'
<1> SUFFICES ASSUME FtpInv, Ftp!AcceptUserData  PROVE FtpInv'
  OBVIOUS
<1>1. PICK to \in {"connected", "null"} :
        ftp' = [Ftp!Set(ftp, {"CLIENT_ACCEPT"}) EXCEPT !.ud = to, !.back = TRUE]
  BY Zenon DEF Ftp!AcceptUserData
<1>2. FtpOk(ftp) /\ ftp \in FtpSessions /\ ftp.mode = "serving" /\ ftp.ud = "listening"
  BY DEF FtpInv, FtpOk, FtpBase, Ftp!AcceptUserData, Ftp!Serving
<1>3. PICK f \in SUBSET Ftp!Flags : f = ftp.flags \cup {"CLIENT_ACCEPT"}
  <2>1. "CLIENT_ACCEPT" \in Ftp!Flags
    BY Zenon DEF Ftp!Flags
  <2>2. QED
    BY <1>2, <2>1, FtpParts
<1>4. PICK s : s = Ftp!Set(ftp, {"CLIENT_ACCEPT"})
  OBVIOUS
<1>5. s = Marked(ftp, f)
  BY <1>3, <1>4, Zenon DEF Marked, Ftp!Set
<1>6. /\ s \in FtpSessions /\ s.causes = ftp.causes /\ s.due = ftp.due /\ s.owed = ftp.owed
      /\ s.sd = ftp.sd /\ s.xfer = ftp.xfer /\ s.cfg = ftp.cfg
      /\ s.mode = ftp.mode /\ s.stack = ftp.stack /\ s.lost = ftp.lost
      /\ s.claim = ftp.claim /\ s.clear = ftp.clear /\ s.userfd = ftp.userfd
      /\ s.flags = f
  BY <1>2, <1>5, FtpMarked
<1>7. PICK b \in Truths : b = TRUE
  BY DEF Truths
<1>8. to \in FtpUserEnds
  BY DEF FtpUserEnds
<1>9. PICK u : u = ftp'
  OBVIOUS
<1>10. u = Joined(s, to, b)
  BY <1>1, <1>4, <1>7, <1>9, Zenon DEF Joined
<1>11. /\ u \in FtpSessions /\ u.causes = ftp.causes /\ u.due = ftp.due /\ u.owed = ftp.owed
       /\ u.sd = ftp.sd /\ u.xfer = ftp.xfer /\ u.cfg = ftp.cfg /\ u.ud = to /\ u.back = b
       /\ u.mode = ftp.mode /\ u.stack = ftp.stack /\ u.lost = ftp.lost
       /\ u.claim = ftp.claim /\ u.clear = ftp.clear /\ u.userfd = ftp.userfd
       /\ u.flags = f
  BY <1>6, <1>8, <1>10, FtpJoined
<1>12. FtpBase(u)
  BY <1>2, <1>11 DEF FtpOk, FtpBase, NameOk, Left
<1>13. UserDataOk(u)
  BY <1>11 DEF UserDataOk
<1>14. Accepted(u) <=> Accepted(ftp)
  BY <1>3, <1>11 DEF Accepted
<1>15. Phase(ftp)
  BY <1>2 DEF FtpOk
<1>16. Left(ftp, FtpOverlap) => Left(u, FtpOverlap)
  BY <1>11 DEF Left
<1>17. Resting(ftp) => Resting(u)
  BY <1>11, <1>14 DEF Resting, Loops, StepAt, Left
<1>18. AwaitsServer(ftp) => AwaitsServer(u)
  BY <1>7, <1>11, <1>14 DEF AwaitsServer, Left
<1>19. AwaitsClient(ftp) => AwaitsClient(u)
  BY <1>2, <1>11, <1>14 DEF AwaitsClient, StepAt, Left
<1>20. ~Transfers(ftp)
  BY <1>2 DEF Transfers
<1>21. Phase(u)
  BY <1>15, <1>16, <1>17, <1>18, <1>19, <1>20 DEF Phase
<1>22. FtpOk(u)
  BY <1>12, <1>13, <1>21 DEF FtpOk
<1>23. QED
  BY <1>9, <1>22 DEF FtpInv

\* The server's connection came, or did not: nothing but a wait for it goes on.
LEMMA ServerEndOk ==
  ASSUME NEW s, FtpOk(s), s.mode = "serving", s.sd = "listening", s.xfer # "no",
         NEW u \in FtpSessions,
         u.mode = s.mode, u.stack = s.stack, u.cfg = s.cfg, u.userfd = s.userfd,
         u.clear = s.clear, u.claim = s.claim, u.lost = s.lost, u.causes = s.causes,
         u.due = s.due, u.ud = s.ud,
         \/ Accepted(u) /\ u.back = TRUE /\ u.sd = "connected" /\ u.xfer = s.xfer
            /\ u.owed = s.owed
         \/ Accepted(u) /\ u.back = TRUE /\ u.sd = "null" /\ u.xfer = "no"
         \/ (Accepted(u) <=> Accepted(s)) /\ u.sd = "listening" /\ u.xfer = "no"
  PROVE  FtpOk(u)
<1>1. FtpBase(u)
  BY DEF FtpOk, FtpBase, NameOk, Left
<1>2. UserDataOk(u)
  BY DEF FtpOk, UserDataOk, Left
<1>3. Left(s, FtpOverlap) \/ AwaitsServer(s)
  BY DEF FtpOk, Phase, Resting, AwaitsClient, Transfers
<1>4. AwaitsServer(s) => AwaitsServer(u)
  BY DEF AwaitsServer, Left
<1>5. Phase(u)
  BY <1>3, <1>4 DEF Phase, Left
<1>6. QED
  BY <1>1, <1>2, <1>5 DEF FtpOk

\* One more reply of the server.
LEMMA OneMore ==
  ASSUME NEW s \in FtpSessions, NEW r \in FtpReplies
  PROVE  Append(s.owed, r) \in Seq(FtpReplies)
BY FtpParts, AppendProperties

\* It is accepted.
LEMMA FtpServerAccepted == FtpInv /\ Ftp!AcceptServerData => FtpInv'
<1> SUFFICES ASSUME FtpInv, Ftp!AcceptServerData  PROVE FtpInv'
  OBVIOUS
<1>1. PICK t : t = [Ftp!Set(ftp, {"SERVER_ACCEPT"}) EXCEPT !.back = TRUE]
  OBVIOUS
<1>2. PICK u : u = ftp'
  OBVIOUS
<1>3. \/ u = [t EXCEPT !.sd = "connected"]
      \/ u = [t EXCEPT !.sd = "null", !.xfer = "no", !.owed = Append(@, "425")]
  BY <1>1, <1>2, Zenon DEF Ftp!AcceptServerData
<1>4. /\ FtpOk(ftp) /\ ftp \in FtpSessions /\ ftp.mode = "serving" /\ ftp.sd = "listening"
      /\ ftp.xfer # "no"
  BY DEF FtpInv, FtpOk, FtpBase, Ftp!AcceptServerData, Ftp!Serving
<1>5. PICK f \in SUBSET Ftp!Flags : f = ftp.flags \cup {"SERVER_ACCEPT"}
  <2>1. "SERVER_ACCEPT" \in Ftp!Flags
    BY Zenon DEF Ftp!Flags
  <2>2. QED
    BY <1>4, <2>1, FtpParts
<1>6. PICK s : s = Ftp!Set(ftp, {"SERVER_ACCEPT"})
  OBVIOUS
<1>7. s = Marked(ftp, f)
  BY <1>5, <1>6, Zenon DEF Marked, Ftp!Set
<1>8. /\ s \in FtpSessions /\ s.causes = ftp.causes /\ s.due = ftp.due /\ s.owed = ftp.owed
      /\ s.sd = ftp.sd /\ s.xfer = ftp.xfer /\ s.cfg = ftp.cfg /\ s.ud = ftp.ud
      /\ s.mode = ftp.mode /\ s.stack = ftp.stack /\ s.lost = ftp.lost
      /\ s.claim = ftp.claim /\ s.clear = ftp.clear /\ s.userfd = ftp.userfd
      /\ s.flags = f
  BY <1>4, <1>7, FtpMarked
<1>9. PICK b \in Truths : b = TRUE
  BY DEF Truths
<1>10. PICK k \in Seq(FtpCalls) : k = s.stack
  BY <1>8, FtpParts
<1>11. t = Waits(s, k, b)
  <2>1. t = [s EXCEPT !.stack = s.stack, !.back = TRUE]
    BY <1>1, <1>6, <1>8, ZenonT(60) DEF FtpSessions
  <2>2. QED
    BY <1>9, <1>10, <2>1, Zenon DEF Waits
<1>12. /\ t \in FtpSessions /\ t.causes = ftp.causes /\ t.due = ftp.due /\ t.owed = ftp.owed
       /\ t.sd = ftp.sd /\ t.xfer = ftp.xfer /\ t.cfg = ftp.cfg /\ t.ud = ftp.ud
       /\ t.mode = ftp.mode /\ t.stack = ftp.stack /\ t.lost = ftp.lost /\ t.back = b
       /\ t.claim = ftp.claim /\ t.clear = ftp.clear /\ t.userfd = ftp.userfd
       /\ t.flags = f
  BY <1>8, <1>10, <1>11, FtpWaits
<1>13. ASSUME NEW a \in FtpServerEnds, NEW y \in FtpWays, NEW x \in Seq(FtpReplies),
              u = Refused(t, a, y, x)
       PROVE  /\ u \in FtpSessions /\ u.causes = ftp.causes /\ u.due = ftp.due /\ u.owed = x
              /\ u.sd = a /\ u.xfer = y /\ u.cfg = ftp.cfg /\ u.ud = ftp.ud
              /\ u.mode = ftp.mode /\ u.stack = ftp.stack /\ u.lost = ftp.lost
              /\ u.claim = ftp.claim /\ u.clear = ftp.clear /\ u.userfd = ftp.userfd
              /\ u.back = TRUE /\ Accepted(u)
  <2>1. /\ u \in FtpSessions /\ u.causes = t.causes /\ u.due = t.due /\ u.owed = x
        /\ u.sd = a /\ u.xfer = y /\ u.cfg = t.cfg /\ u.ud = t.ud
        /\ u.mode = t.mode /\ u.stack = t.stack /\ u.lost = t.lost
        /\ u.claim = t.claim /\ u.clear = t.clear /\ u.userfd = t.userfd
        /\ u.back = t.back /\ u.flags = t.flags
    BY <1>12, <1>13, FtpRefused
  <2>2. QED
    BY <1>5, <1>9, <1>12, <2>1 DEF Accepted
<1>14. CASE u = [t EXCEPT !.sd = "connected"]
  <2>1. PICK a \in FtpServerEnds : a = "connected"
    BY DEF FtpServerEnds
  <2>2. PICK y \in FtpWays : y = t.xfer
    BY <1>12, FtpParts
  <2>3. PICK x \in Seq(FtpReplies) : x = t.owed
    BY <1>12, FtpParts
  <2>4. u = Refused(t, a, y, x)
    <3>1. u = [t EXCEPT !.sd = "connected", !.xfer = t.xfer, !.owed = t.owed]
      BY <1>12, <1>14, ZenonT(60) DEF FtpSessions
    <3>2. QED
      BY <2>1, <2>2, <2>3, <3>1, Zenon DEF Refused
  <2>5. /\ u \in FtpSessions /\ u.causes = ftp.causes /\ u.due = ftp.due /\ u.owed = x
        /\ u.sd = a /\ u.xfer = y /\ u.cfg = ftp.cfg /\ u.ud = ftp.ud
        /\ u.mode = ftp.mode /\ u.stack = ftp.stack /\ u.lost = ftp.lost
        /\ u.claim = ftp.claim /\ u.clear = ftp.clear /\ u.userfd = ftp.userfd
        /\ u.back = TRUE /\ Accepted(u)
    BY <1>13, <2>4
  <2>6. y = ftp.xfer /\ x = ftp.owed
    BY <1>12, <2>2, <2>3
  <2>7. FtpOk(u)
    BY <1>4, <2>1, <2>5, <2>6, ServerEndOk
  <2>8. QED
    BY <1>2, <2>7 DEF FtpInv
<1>15. CASE u = [t EXCEPT !.sd = "null", !.xfer = "no", !.owed = Append(@, "425")]
  <2>1. PICK a \in FtpServerEnds : a = "null"
    BY DEF FtpServerEnds
  <2>2. PICK y \in FtpWays : y = "no"
    BY DEF FtpWays
  <2>3. PICK r \in FtpReplies : r = "425"
    BY DEF FtpReplies
  <2>4. PICK x \in Seq(FtpReplies) : x = Append(t.owed, r)
    BY <1>12, OneMore
  <2>5. u = Refused(t, a, y, x)
    BY <1>15, <2>1, <2>2, <2>3, <2>4, Zenon DEF Refused
  <2>6. /\ u \in FtpSessions /\ u.causes = ftp.causes /\ u.due = ftp.due /\ u.owed = x
        /\ u.sd = a /\ u.xfer = y /\ u.cfg = ftp.cfg /\ u.ud = ftp.ud
        /\ u.mode = ftp.mode /\ u.stack = ftp.stack /\ u.lost = ftp.lost
        /\ u.claim = ftp.claim /\ u.clear = ftp.clear /\ u.userfd = ftp.userfd
        /\ u.back = TRUE /\ Accepted(u)
    BY <1>13, <2>5
  <2>7. FtpOk(u)
    BY <1>4, <2>1, <2>2, <2>6, ServerEndOk
  <2>8. QED
    BY <1>2, <2>7 DEF FtpInv
<1>16. QED
  BY <1>3, <1>14, <1>15

\* The server cannot connect.
LEMMA FtpServerRefused == FtpInv /\ Ftp!ServerCannotConnect => FtpInv'
<1> SUFFICES ASSUME FtpInv, Ftp!ServerCannotConnect  PROVE FtpInv'
  OBVIOUS
<1>1. PICK u : u = ftp'
  OBVIOUS
<1>2. u = [ftp EXCEPT !.xfer = "no", !.owed = Append(@, "425")]
  BY <1>1 DEF Ftp!ServerCannotConnect
<1>3. /\ FtpOk(ftp) /\ ftp \in FtpSessions /\ ftp.mode = "serving" /\ ftp.sd = "listening"
      /\ ftp.xfer # "no"
  BY DEF FtpInv, FtpOk, FtpBase, Ftp!ServerCannotConnect, Ftp!Serving
<1>4. PICK a \in FtpServerEnds : a = ftp.sd
  BY <1>3, FtpParts
<1>5. PICK y \in FtpWays : y = "no"
  BY DEF FtpWays
<1>6. PICK r \in FtpReplies : r = "425"
  BY DEF FtpReplies
<1>7. PICK x \in Seq(FtpReplies) : x = Append(ftp.owed, r)
  BY <1>3, OneMore
<1>8. u = Refused(ftp, a, y, x)
  <2>1. u = [ftp EXCEPT !.sd = ftp.sd, !.xfer = "no", !.owed = Append(@, "425")]
    BY <1>2, <1>3, ZenonT(60) DEF FtpSessions
  <2>2. QED
    BY <1>4, <1>5, <1>6, <1>7, <2>1, Zenon DEF Refused
<1>9. /\ u \in FtpSessions /\ u.causes = ftp.causes /\ u.due = ftp.due
      /\ u.sd = a /\ u.xfer = y /\ u.cfg = ftp.cfg /\ u.ud = ftp.ud
      /\ u.mode = ftp.mode /\ u.stack = ftp.stack /\ u.lost = ftp.lost
      /\ u.claim = ftp.claim /\ u.clear = ftp.clear /\ u.userfd = ftp.userfd
      /\ u.flags = ftp.flags
  BY <1>3, <1>8, FtpRefused
<1>10. Accepted(u) <=> Accepted(ftp)
  BY <1>9 DEF Accepted
<1>11. FtpOk(u)
  BY <1>3, <1>4, <1>5, <1>9, <1>10, ServerEndOk
<1>12. QED
  BY <1>1, <1>11 DEF FtpInv

\* The server closes the control connection.
LEMMA FtpServerDrops == FtpInv /\ Ftp!ServerDrops => FtpInv'
<1> SUFFICES ASSUME FtpInv, Ftp!ServerDrops  PROVE FtpInv'
  OBVIOUS
<1>1. PICK u : u = ftp'
  OBVIOUS
<1>2. u = [ftp EXCEPT !.srv = "gone"]
  BY <1>1 DEF Ftp!ServerDrops
<1>3. FtpOk(ftp) /\ ftp \in FtpSessions
  BY DEF FtpInv, FtpOk, FtpBase
<1>4. PICK v \in FtpServers : v = "gone"
  BY DEF FtpServers
<1>5. PICK x \in Seq(FtpReplies) : x = ftp.owed
  BY <1>3, FtpParts
<1>6. u = Told(ftp, x, v)
  <2>1. u = [ftp EXCEPT !.owed = ftp.owed, !.srv = "gone"]
    BY <1>2, <1>3, ZenonT(60) DEF FtpSessions
  <2>2. QED
    BY <1>4, <1>5, <2>1, Zenon DEF Told
<1>7. /\ u \in FtpSessions /\ Alike(ftp, u) /\ SameEnds(ftp, u) /\ u.owed = x
      /\ u.due = ftp.due /\ u.back = ftp.back
  BY <1>3, <1>6, ToldAlike
<1>8. FtpOk(u)
  BY <1>3, <1>5, <1>7, OkAlike DEF SameWait
<1>9. QED
  BY <1>1, <1>8 DEF FtpInv

\* A block of the server's data, or of the user's.
LEMMA FtpBlocks == FtpInv /\ (Ftp!ServerBlock \/ Ftp!UserBlock) => FtpInv'
<1> SUFFICES ASSUME FtpInv, Ftp!ServerBlock \/ Ftp!UserBlock  PROVE FtpInv'
  OBVIOUS
<1>1. PICK u : u = ftp'
  OBVIOUS
<1>2. PICK s : s = [ftp EXCEPT !.back = TRUE]
  OBVIOUS
<1>3. /\ FtpOk(ftp) /\ ftp \in FtpSessions /\ ftp.mode = "serving" /\ ~ftp.back
  BY DEF FtpInv, FtpOk, FtpBase, Ftp!ServerBlock, Ftp!UserBlock, Ftp!Busy, Ftp!Serving
<1>4. FtpOk(s)
  BY <1>2, <1>3, OkWoken
<1>5. /\ s.mode = ftp.mode /\ s.stack = ftp.stack /\ s.causes = ftp.causes
  BY <1>2, <1>3, ZenonT(60) DEF FtpSessions
<1>6. Left(ftp, FtpOverlap) \/ Resting(ftp) \/ AwaitsServer(ftp) \/ AwaitsClient(ftp)
        \/ Transfers(ftp)
  BY <1>3 DEF FtpOk, Phase
<1>7. AwaitsClient(ftp) => Ftp!Top(s) = "client"
  BY <1>5, RestOfTwo DEF AwaitsClient, Ftp!Top
<1>8. Left(ftp, FtpOverlap) => Left(s, FtpOverlap)
  BY <1>5 DEF Left
<1>9. CASE Ftp!ServerBlock
  <2>1. ftp.xfer = "down" /\ ftp.sd = "connected" /\ u \in Ftp!ForwardBlock(s, ftp.ud)
    BY <1>1, <1>2, <1>9, Zenon DEF Ftp!ServerBlock
  <2>2. ~Resting(ftp) /\ ~AwaitsServer(ftp)
    BY <1>3, <2>1 DEF Resting, AwaitsServer
  <2>3. Transfers(ftp) => ftp.ud = "connected"
    BY DEF Transfers
  <2>4. PICK to : to = ftp.ud
    OBVIOUS
  <2>5. Linked(s, to) /\ u \in Ftp!ForwardBlock(s, to)
    BY <1>6, <1>7, <1>8, <2>1, <2>2, <2>3, <2>4 DEF Linked
  <2>6. FtpOk(u)
    BY <1>3, <1>4, <1>5, <2>5, ForwardBlockOk
  <2>7. QED
    BY <1>1, <2>6 DEF FtpInv
<1>10. CASE Ftp!UserBlock
  <2>1. ftp.claim = "running" /\ u \in Ftp!ForwardBlock(s, ftp.sd)
    BY <1>1, <1>2, <1>10, Zenon DEF Ftp!UserBlock
  <2>2. ~Resting(ftp) /\ ~AwaitsServer(ftp) /\ ~AwaitsClient(ftp)
    BY <2>1 DEF Resting, Loops, AwaitsServer, AwaitsClient
  <2>3. Transfers(ftp) => ftp.sd = "connected"
    BY DEF Transfers
  <2>4. PICK to : to = ftp.sd
    OBVIOUS
  <2>5. Linked(s, to) /\ u \in Ftp!ForwardBlock(s, to)
    BY <1>6, <1>8, <2>1, <2>2, <2>3, <2>4 DEF Linked
  <2>6. FtpOk(u)
    BY <1>3, <1>4, <1>5, <2>5, ForwardBlockOk
  <2>7. QED
    BY <1>1, <2>6 DEF FtpInv
<1>11. QED
  BY <1>9, <1>10

\* The first reply that is not read.
LEMMA FirstOwed ==
  ASSUME NEW s, NEW r, s = <<>>
  PROVE  Append(s, r) = <<r>>
OBVIOUS

\* The replies of the server, and at most one more.
MoreOwed(s, x) == x = s.owed \/ \E r : x = Append(s.owed, r)

\* The data ends, and the server may have something to say of it.
LEMMA WokenEnds ==
  ASSUME NEW s, FtpOk(s), s.mode = "serving", NEW x \in Seq(FtpReplies),
         MoreOwed(s, x), NEW b \in Truths, NEW u, u = Woken(s, x, b)
  PROVE  FtpBase(u) /\ UserDataOk(u) /\ u.mode = "serving" /\ u.back = b /\ Ending(u)
<1>1. s \in FtpSessions
  BY DEF FtpOk, FtpBase
<1>2. /\ u \in FtpSessions /\ u.causes = s.causes /\ u.due = s.due /\ u.owed = x
      /\ u.sd = s.sd /\ u.xfer = s.xfer /\ u.cfg = s.cfg /\ u.ud = s.ud /\ u.back = b
      /\ u.mode = s.mode /\ u.stack = s.stack /\ u.lost = s.lost
      /\ u.claim = s.claim /\ u.clear = s.clear /\ u.userfd = s.userfd
      /\ u.flags = s.flags
  BY <1>1, FtpWoken
<1>3. FtpBase(u)
  BY <1>2 DEF FtpOk, FtpBase, NameOk, Left
<1>4. UserDataOk(u)
  BY <1>2 DEF FtpOk, UserDataOk, Left
<1>5. Accepted(u) <=> Accepted(s)
  BY <1>2 DEF Accepted
<1>6. ASSUME Transfers(s)
      PROVE  Ending(u)
  <2>1. (s.due = 1 /\ s.owed = <<>>) \/ Left(s, FtpOut)
    BY <1>6 DEF Transfers, StepAt
  <2>2. ASSUME s.owed = <<>>
        PROVE  x = <<>> \/ \E r : x = <<r>>
    <3>1. x = s.owed \/ \E r : x = Append(s.owed, r)
      BY DEF MoreOwed
    <3>2. ASSUME NEW r, x = Append(s.owed, r)
          PROVE  x = <<r>>
      BY <2>2, <3>2, FirstOwed
    <3>3. QED
      BY <2>2, <3>1, <3>2
  <2>3. (u.due = 1 /\ (u.owed = <<>> \/ \E r : u.owed = <<r>>)) \/ Left(u, FtpOut)
    BY <1>2, <2>1, <2>2 DEF MoreOwed, Left
  <2>4. QED
    BY <1>2, <1>5, <1>6, <2>3 DEF Transfers, Ending
<1>7. Resting(s) \/ AwaitsServer(s) \/ AwaitsClient(s) => Ending(u)
  BY <1>2, <1>5 DEF Resting, Loops, AwaitsServer, AwaitsClient, Ending
<1>8. Left(s, FtpOverlap) => Ending(u)
  BY <1>2 DEF Ending, Left
<1>9. Ending(u)
  BY <1>6, <1>7, <1>8 DEF FtpOk, Phase
<1>10. QED
  BY <1>2, <1>3, <1>4, <1>9

\* A cut is noted.
LEMMA CutEnded ==
  ASSUME NEW s, FtpBase(s), UserDataOk(s), s.mode = "serving", s.back = TRUE, Ending(s),
         NEW whole \in BOOLEAN,
         NEW u, u = IF whole THEN s ELSE Ftp!Cause(s, "cut")
  PROVE  Ended(u, whole)
<1>1. s \in FtpSessions
  BY DEF FtpBase
<1>2. PICK x \in FtpCauses : x = "cut"
  BY FtpNamed
<1>3. CASE ~whole
  <2>1. u = Ftp!Cause(s, x)
    BY <1>2, <1>3
  <2>2. /\ u \in FtpSessions /\ Alike(s, u) /\ SameEnds(s, u) /\ x \in u.causes
        /\ u.due = s.due /\ u.owed = s.owed /\ u.back = s.back
    BY <1>1, <2>1, CauseAlike
  <2>3. FtpBase(u)
    BY <2>2, AlikeBase
  <2>4. UserDataOk(u)
    BY <2>2, StaysLeft DEF UserDataOk, SameEnds
  <2>5. Ending(u)
    BY <2>2, StaysLeft DEF Ending, Alike, SameEnds, Loops
  <2>6. QED
    BY <1>2, <2>2, <2>3, <2>4, <2>5 DEF Ended, Alike
<1>4. CASE whole
  <2>1. u = s
    BY <1>4
  <2>2. QED
    BY <1>4, <2>1 DEF Ended
<1>5. QED
  BY <1>3, <1>4

\* What a handler makes of the end of the data.
EndsWith(s, x, whole, u) ==
  \E t : /\ t = [s EXCEPT !.back = TRUE, !.owed = x]
         /\ u \in Ftp!ForwardEnd(IF whole THEN t ELSE Ftp!Cause(t, "cut"), whole)

\* The session is in one of its phases after it.
LEMMA DataEndsOk ==
  ASSUME NEW s, FtpOk(s), s.mode = "serving", NEW x \in Seq(FtpReplies), MoreOwed(s, x),
         NEW whole \in BOOLEAN, NEW u, EndsWith(s, x, whole, u)
  PROVE  FtpOk(u)
<1>1. PICK t : /\ t = [s EXCEPT !.back = TRUE, !.owed = x]
               /\ u \in Ftp!ForwardEnd(IF whole THEN t ELSE Ftp!Cause(t, "cut"), whole)
  BY DEF EndsWith
<1>2. PICK b \in Truths : b = TRUE
  BY DEF Truths
<1>3. t = Woken(s, x, b)
  <2>1. s \in FtpSessions
    BY DEF FtpOk, FtpBase
  <2>2. QED
    BY <1>1, <1>2, <2>1, ZenonT(60) DEF Woken, FtpSessions
<1>4. FtpBase(t) /\ UserDataOk(t) /\ t.mode = "serving" /\ t.back = b /\ Ending(t)
  BY <1>3, WokenEnds
<1>5. PICK w : w = IF whole THEN t ELSE Ftp!Cause(t, "cut")
  OBVIOUS
<1>6. Ended(w, whole)
  BY <1>2, <1>4, <1>5, CutEnded
<1>7. u \in Ftp!ForwardEnd(w, whole)
  BY <1>1, <1>5
<1>8. QED
  BY <1>6, <1>7, ForwardEndOk

\* The server closes its end of the data, or the user his.
LEMMA FtpEnds == FtpInv /\ (Ftp!ServerEnds \/ Ftp!UserEnds) => FtpInv'
<1> SUFFICES ASSUME FtpInv, Ftp!ServerEnds \/ Ftp!UserEnds  PROVE FtpInv'
  OBVIOUS
<1>1. PICK u : u = ftp'
  OBVIOUS
<1>2. /\ FtpOk(ftp) /\ ftp \in FtpSessions /\ ftp.mode = "serving" /\ ~ftp.back
  BY DEF FtpInv, FtpOk, FtpBase, Ftp!ServerEnds, Ftp!UserEnds, Ftp!Busy, Ftp!Serving
<1>5. {"226", "426"} \subseteq FtpReplies
  BY DEF FtpReplies
<1>6. ASSUME NEW P \in BOOLEAN, NEW r \in {"226", "426"}
      PROVE  /\ (IF P THEN ftp.owed ELSE Append(ftp.owed, r)) \in Seq(FtpReplies)
             /\ MoreOwed(ftp, IF P THEN ftp.owed ELSE Append(ftp.owed, r))
  BY <1>2, <1>5, <1>6, FtpParts, OneMore DEF MoreOwed
<1>7. CASE Ftp!ServerEnds
  <2>1. PICK done \in BOOLEAN : done = (ftp.xfer = "down" /\ ftp.left = 0)
    OBVIOUS
  <2>2. PICK P \in BOOLEAN : P = (ftp.srv # "up")
    OBVIOUS
  <2>3. PICK r \in {"226", "426"} : r = IF done THEN "226" ELSE "426"
    OBVIOUS
  <2>4. PICK x : x = IF P THEN ftp.owed ELSE Append(ftp.owed, r)
    OBVIOUS
  <2>5. PICK t : t = [ftp EXCEPT !.back = TRUE, !.owed = x]
    OBVIOUS
  <2>6. u \in Ftp!ForwardEnd(IF done THEN t ELSE Ftp!Cause(t, "cut"), done)
    BY <1>1, <1>7, <2>1, <2>2, <2>3, <2>4, <2>5, Zenon DEF Ftp!ServerEnds
  <2>7. x \in Seq(FtpReplies) /\ MoreOwed(ftp, x)
    BY <1>6, <2>4
  <2>8. EndsWith(ftp, x, done, u)
    BY <2>5, <2>6, Zenon DEF EndsWith
  <2>9. FtpOk(u)
    BY <1>2, <2>7, <2>8, DataEndsOk
  <2>10. QED
    BY <1>1, <2>9 DEF FtpInv
<1>8. CASE Ftp!UserEnds
  <2>1. PICK done \in BOOLEAN : done = (ftp.xfer = "up" /\ ftp.left = 0)
    OBVIOUS
  <2>2. PICK P \in BOOLEAN : P = (ftp.xfer = "no" \/ ftp.srv # "up")
    OBVIOUS
  <2>3. PICK r \in {"226", "426"} : r = IF ftp.xfer = "up" THEN "226" ELSE "426"
    OBVIOUS
  <2>4. PICK x : x = IF P THEN ftp.owed ELSE Append(ftp.owed, r)
    OBVIOUS
  <2>5. PICK t : t = [ftp EXCEPT !.back = TRUE, !.owed = x]
    OBVIOUS
  <2>6. u \in Ftp!ForwardEnd(IF done THEN t ELSE Ftp!Cause(t, "cut"), done)
    BY <1>1, <1>8, <2>1, <2>2, <2>3, <2>4, <2>5, Zenon DEF Ftp!UserEnds
  <2>7. x \in Seq(FtpReplies) /\ MoreOwed(ftp, x)
    BY <1>6, <2>4
  <2>8. EndsWith(ftp, x, done, u)
    BY <2>5, <2>6, Zenon DEF EndsWith
  <2>9. FtpOk(u)
    BY <1>2, <2>7, <2>8, DataEndsOk
  <2>10. QED
    BY <1>1, <2>9 DEF FtpInv
<1>9. QED
  BY <1>7, <1>8

\* At first no child has a session.
LEMMA FtpInit == Ftp!Init => FtpInv
BY NoSessionOk DEF Ftp!Init, FtpInv

\* Every step keeps the session in one of its phases.
LEMMA FtpStep == FtpInv /\ [Ftp!Next]_ftp => FtpInv'
<1> SUFFICES ASSUME FtpInv, [Ftp!Next]_ftp  PROVE FtpInv'
  OBVIOUS
<1>1. CASE ftp' = ftp
  BY <1>1 DEF FtpInv
<1>2. CASE Ftp!Next
  BY <1>2, FtpBegins, FtpCommands, FtpLeaves, FtpEof, FtpDeleted, FtpReturns,
     FtpUserAccepted, FtpServerAccepted, FtpServerRefused, FtpServerDrops, FtpBlocks, FtpEnds
     DEF Ftp!Next
<1>3. QED
  BY <1>1, <1>2

\* What the invariant says of a session.
LEMMA FtpSound ==
  FtpInv => Ftp!InStep /\ Ftp!Honest /\ Ftp!CrashCaused /\ Ftp!NameHidden
<1> SUFFICES ASSUME FtpInv
             PROVE  Ftp!InStep /\ Ftp!Honest /\ Ftp!CrashCaused /\ Ftp!NameHidden
  OBVIOUS
<1>1. FtpOk(ftp) /\ FtpBase(ftp)
  BY DEF FtpInv, FtpOk
<1>2. ASSUME Ftp!AtRest
      PROVE  (ftp.due = 0 /\ ftp.owed = <<>>) \/ Left(ftp, FtpOut)
  <2>1. Phase(ftp) /\ ftp.stack = <<"loop">> /\ ftp.claim # "running"
    BY <1>1, <1>2 DEF FtpOk, Ftp!AtRest, Ftp!Serving
  <2>2. Left(ftp, FtpOverlap) => Left(ftp, FtpOut)
    BY FtpNames DEF Left
  <2>3. ~Transfers(ftp)
    BY <2>1 DEF Transfers
  <2>4. Len(ftp.stack) = 1
    BY <2>1
  <2>5. ~AwaitsServer(ftp) /\ ~AwaitsClient(ftp)
    BY <2>4, TwoCalls DEF AwaitsServer, AwaitsClient
  <2>6. QED
    BY <2>1, <2>2, <2>3, <2>5 DEF Phase, Resting, StepAt
<1>3. Ftp!InStep
  BY <1>2, Zenon DEF Ftp!InStep, Left, FtpOut
<1>4. Ftp!Honest
  BY <1>1, Zenon DEF Ftp!Honest, FtpBase, Left, FtpFalse
<1>5. Ftp!CrashCaused
  BY <1>1, Zenon DEF Ftp!CrashCaused, FtpBase, Left, FtpFatal
<1>6. Ftp!NameHidden
  BY <1>1, Zenon DEF Ftp!NameHidden, FtpBase, NameOk
<1>7. QED
  BY <1>3, <1>4, <1>5, <1>6

-----------------------------------------------------------------------------
\* The four that the properties below speak of, together.
SessionsInv == SocksInv /\ FtpInv /\ PopInv /\ FilterInv

\* Each is kept by its own steps and by those of the others.
LEMMA SessionsAreKept == Spec => []SessionsInv
<1>1. Init => SessionsInv
  BY SocksInit, FtpInit, PopInit, FilterInit DEF Init, SessionsInv
<1>2. SessionsInv /\ [Next]_vars => SessionsInv'
  <2> SUFFICES ASSUME SessionsInv, [Next]_vars
               PROVE  SessionsInv'
    OBVIOUS
  <2>1. Socks!Next \/ UNCHANGED socksVars
    BY DEF Next, vars
  <2>2. [Ftp!Next]_ftp
    BY DEF Next, vars
  <2>3. [Pop!Next]_pop
    BY DEF Next, vars
  <2>4. Filter!Next \/ UNCHANGED filterVars
    BY DEF Next, vars
  <2>5. QED
    BY <2>1, <2>2, <2>3, <2>4, SocksStep, SocksFrame, FtpStep, PopStep, FilterStep, FilterFrame
       DEF SessionsInv
<1>3. QED
  BY <1>1, <1>2, PTL DEF Spec

\* The replies that a user of mod_socks5, mod_ftp and mod_pop3 has are those to what was
\* asked and done, however the sessions end and the calls nest, unless a session left the
\* protocol in a way that is noted: client.cpp of the three, ReadRequest(), DispatchCmd()
\* and what it calls.
THEOREM AnswersAreInStep == Spec => []AnswersInStep
<1>1. SessionsInv => AnswersInStep
  BY SocksSound, FtpSound, PopSound DEF SessionsInv, AnswersInStep
<1>2. QED
  BY <1>1, SessionsAreKept, PTL

\* "226 Transfer complete" is the truth, a message is retrieved as the server has it, dots
\* included, and what is used of a command's output is all of it: ForwardData() of mod_ftp,
\* FilterEMail() of mod_pop3 and the filter.
THEOREM DataIsHonest == Spec => []DataHonest
<1>1. SessionsInv => DataHonest
  BY FtpSound, PopSound, FilterSound DEF SessionsInv, DataHonest
<1>2. QED
  BY <1>1, SessionsAreKept, PTL

\* A child of mod_ftp or mod_pop3 crashes only in the sequences that are known, and the
\* user's name is not sent in clear where TLS is required: client.cpp of both.
THEOREM ChildrenAreSafe == Spec => []ChildrenSafe
<1>1. SessionsInv => ChildrenSafe
  BY FtpSound, PopSound DEF SessionsInv, ChildrenSafe
<1>2. QED
  BY <1>1, SessionsAreKept, PTL

=============================================================================
