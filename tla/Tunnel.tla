------------------------------- MODULE Tunnel -------------------------------
(***************************************************************************)
(* mod_tunnel: connections are accepted, the target is looked up and       *)
(* connected, and data is forwarded both ways.  The daemon is one thread:  *)
(* WaitEvents() finds the descriptors that are ready and calls a handler   *)
(* for each; a handler calls back, and the callback may call the socket    *)
(* again, so that the calls nest.                                          *)
(***************************************************************************)
EXTENDS Socket, FiniteSets

CONSTANTS
    Conn,      \* connections, numbered as they are accepted
    MaxSent,   \* units each peer sends (a bound)
    MaxSignals \* signals that interrupt a recv() (a bound)

Src(c)   == <<c, "src">>
Dest(c)  == <<c, "dest">>
Other(s) == IF s = Src(s[1]) THEN Dest(s[1]) ELSE Src(s[1])

ASSUME TunnelAssumption ==
    /\ Conn \subseteq Nat /\ MaxSent \in [Sock -> Nat] /\ MaxSignals \in Nat
    /\ Sock = {Src(c) : c \in Conn} \cup {Dest(c) : c \in Conn}
    /\ IsFiniteSet(Fds)

VARIABLES
    io,       \* the sockets and the dispatcher
    tun,      \* State of each connection's TunnelData, "new" before it and
              \* "deleted" after
    asked,    \* lookups under way: the name asked for, or None
    target,   \* TargetHost: 0, or 1 once the configuration has changed
    calls,    \* the calls that are due, the innermost first
    ready,    \* what select() found and Dispatch() has not looked at
    sent,     \* units each peer has sent
    signals,  \* signals that are still to come
    causes,   \* what befell the daemon that excuses it
    status    \* "up", "unloaded" or "crashed"

vars == <<io, tun, asked, target, calls, ready, sent, signals, causes, status>>

NothingReady == [r |-> {}, x |-> {}]

Init ==
    /\ io = NoSockets /\ tun = [c \in Conn |-> "new"]
    /\ asked = [c \in Conn |-> None] /\ target = 0
    /\ calls = <<>> /\ ready = NothingReady
    /\ sent = [s \in Sock |-> 0] /\ signals = MaxSignals
    /\ causes = {} /\ status = "up"

\* Between two handlers; in the main loop.
Between == status = "up" /\ calls = <<>>
InLoop  == Between /\ ready = NothingReady

\* The result of a method of s is the state and, before the rest of the
\* calls that are due, a callback; SocketEvent() has no case for WRITTEN.
Result(s, R, rest) ==
    \E m \in R :
        /\ io' = m.w
        /\ calls' = IF m.cb = <<>> \/ m.cb[1] \in {"WRITTEN", "EINTR"} THEN rest
                    ELSE <<<<"event", s, m.cb[1], m.cb[2]>>>> \o rest
        /\ signals' = IF m.cb = <<"EINTR">> THEN signals - 1 ELSE signals

\* Wrong: the other end stays.
DeleteSrc(c) ==
    /\ io' = Delete(io, Src(c))
    /\ tun' = [tun EXCEPT ![c] = "deleted"]

\* `delete Src': UserDataDestructor() deletes the other end, if there is one.
DeleteBoth(c) ==
    /\ io' = Delete(Delete(io, Src(c)), Dest(c))
    /\ tun' = [tun EXCEPT ![c] = "deleted"]

-----------------------------------------------------------------------------
\* The peers.

Sends(s) ==
    /\ status = "up" /\ io.conn[s] = "up" /\ s \in io.alive /\ s \notin io.eof
    /\ sent[s] < MaxSent[s]
    /\ sent' = [sent EXCEPT ![s] = @ + 1]
    /\ io' = [io EXCEPT !.inq[s] = Append(@, sent[s] + 1)]
    /\ UNCHANGED <<tun, asked, target, calls, ready, signals, causes, status>>

PeerActs(s) ==
    /\ status = "up" /\ s \in io.alive
    /\ \/ io.conn[s] = "connecting"
          /\ \E to \in {"up", "refused"} : io' = [io EXCEPT !.conn[s] = to]
       \/ io.conn[s] = "up" /\ s \notin io.eof
          /\ io' = [io EXCEPT !.eof = @ \cup {s}]
       \/ io.conn[s] = "up" /\ io' = [io EXCEPT !.conn[s] = "reset"]
    /\ UNCHANGED <<tun, asked, target, calls, ready, sent, signals, causes, status>>

-----------------------------------------------------------------------------
\* The module.

\* The listening socket's and the resolver's events come in any order.
Accept(c) ==
    /\ Between /\ tun[c] = "new" /\ \A d \in Conn : tun[d] = "new" => c <= d
    /\ LET w == New(io, Src(c), "up")
       IN IF w.fd[Src(c)] = -1
          THEN /\ tun' = [tun EXCEPT ![c] = "deleted"]
               /\ UNCHANGED <<io, asked>>
          ELSE /\ io' = w
               /\ tun' = [tun EXCEPT ![c] = "RESOLVING"]
               /\ asked' = [asked EXCEPT ![c] = target]
    /\ UNCHANGED <<target, calls, ready, sent, signals, causes, status>>

\* DNSCallback() follows the pointer to the TunnelData.
Resolved(c) ==
    /\ Between /\ asked[c] # None
    /\ asked' = [asked EXCEPT ![c] = None]
    /\ LET w == New(io, Dest(c), "none")
       IN \/ /\ tun[c] = "RESOLVING" /\ w.fd[Dest(c)] # -1
             /\ tun' = [tun EXCEPT ![c] = "CONNECTING"]
             /\ Result(Dest(c), AsyncConnect(w, Dest(c)), <<>>)
             /\ UNCHANGED <<causes, status>>
          \/ /\ tun[c] = "RESOLVING"          \* no address, or no socket
             /\ DeleteBoth(c) /\ UNCHANGED <<calls, signals, causes, status>>
          \/ /\ tun[c] = "deleted"
             /\ status' = "crashed"
             /\ UNCHANGED <<io, tun, calls, signals, causes>>
    /\ UNCHANGED <<target, ready, sent>>

Top == calls[1]
Rest == Tail(calls)

\* Connected() starts with the target's side, and looks at the user's after.
Connected ==
    /\ Top[1] = "event" /\ Top[3] = "CONNECTED" /\ Top[4] = 0
    /\ LET c == Top[2][1]
       IN /\ tun' = [tun EXCEPT ![c] = "FORWARDING"]
          /\ calls' = <<<<"recv", Dest(c)>>, <<"recv", Src(c)>>>> \o Rest
    /\ UNCHANGED <<io, signals, causes, status>>

\* An error, a timeout or the end of either side deletes both.
Close ==
    /\ Top[1] = "event"
    /\ \/ Top[3] \in {"ERROR", "TIMEOUT"}
       \/ Top[3] = "CONNECTED" /\ Top[4] # 0
       \/ Top[3] = "READ" /\ Top[4] = 0
    /\ DeleteBoth(Top[2][1]) /\ calls' = Rest
    /\ UNCHANGED <<signals, causes, status>>

\* Forward(); a length of -1 goes the way of the others.
Forward ==
    /\ Top[1] = "event" /\ Top[3] = "READ" /\ Top[4] # 0
    /\ \/ /\ Top[4] > 0 /\ io' = AsyncSend(io, Other(Top[2]), Top[4])
          /\ calls' = <<<<"recv", Top[2]>>>> \o Rest /\ status' = status
       \/ Top[4] = -1 /\ status' = "crashed" /\ UNCHANGED <<io, calls>>
    /\ UNCHANGED <<tun, signals, causes>>

\* AsyncRecv(): when it is interrupted nothing is registered.  Connected()
\* calls it for the user's end after the call for the target's, in which both
\* ends may have been deleted.
Recv ==
    /\ Top[1] = "recv"
    /\ \/ /\ Top[2] \in io.alive
          /\ Result(Top[2], AsyncRecv(io, Top[2], signals > 0), Rest)
          /\ causes' = IF signals' # signals THEN causes \cup {"EINTR"}
                       ELSE causes
          /\ UNCHANGED status
       \/ /\ Top[2] \notin io.alive /\ status' = "crashed"
          /\ UNCHANGED <<io, calls, signals, causes>>
    /\ UNCHANGED tun

Callback ==
    /\ status = "up" /\ calls # <<>>
    /\ Connected \/ Close \/ Forward \/ Recv
    /\ UNCHANGED <<asked, target, ready, sent>>

-----------------------------------------------------------------------------
\* The main loop.

WaitEvents ==
    /\ InLoop /\ Selected(io) # NothingReady
    /\ ready' = Selected(io)
    /\ UNCHANGED <<io, tun, asked, target, calls, sent, signals, causes, status>>

\* Dispatch() looks at the table again, so it skips what was removed; that
\* the descriptor has another owner now it does not see.
Dispatch ==
    /\ Between /\ ready # NothingReady
    /\ LET reading == ready.r # {}
           set == IF reading THEN ready.r ELSE ready.x
           e   == CHOOSE d \in set : \A g \in set : d[1] <= g[1]
           on  == e[1] \in (IF reading THEN io.rset ELSE io.wset)
           now == io.table[e[1]]
       IN /\ ready' = IF reading THEN [ready EXCEPT !.r = @ \ {e}]
                      ELSE [ready EXCEPT !.x = @ \ {e}]
          /\ IF ~on THEN UNCHANGED <<io, calls, signals, causes>>
             ELSE /\ Result(now,
                            IF reading THEN HandleRead(io, now, signals > 0)
                            ELSE HandleWrite(io, now), <<>>)
                  /\ causes' = IF now = e[2] THEN causes
                               ELSE causes \cup {"stale"}
    /\ UNCHANGED <<tun, asked, target, sent, status>>

CheckTimeouts ==
    /\ InLoop
    /\ \E s \in io.timer : Result(s, HandleTimeout(io, s), <<>>)
    /\ UNCHANGED <<tun, asked, target, ready, sent, causes, status>>

ReloadCfg ==
    /\ InLoop /\ target = 0 /\ target' = 1
    /\ UNCHANGED <<io, tun, asked, calls, ready, sent, signals, causes, status>>

\* Wrong: lookups are left alone.
CancelNone == asked

\* Lookups are taken back by the name that is configured now.
CancelRequests == [c \in Conn |-> IF asked[c] = target THEN None ELSE asked[c]]

Cleanup ==
    /\ InLoop /\ status' = "unloaded"
    /\ LET live == {c \in Conn : Src(c) \in io.alive}
       IN /\ io' = [NoSockets EXCEPT !.out = io.out]
          /\ tun' = [c \in Conn |-> IF c \in live THEN "deleted" ELSE tun[c]]
    /\ asked' = CancelRequests
    /\ causes' = IF \A c \in Conn : asked[c] \in {None, target} THEN causes
                 ELSE causes \cup {"renamed"}
    /\ UNCHANGED <<target, calls, ready, sent, signals>>

\* An answer that was not taken back comes after the module is gone.
LateAnswer ==
    /\ status = "unloaded" /\ \E c \in Conn : asked[c] # None
    /\ status' = "crashed"
    /\ UNCHANGED <<io, tun, asked, target, calls, ready, sent, signals, causes>>

Daemon == Callback \/ WaitEvents \/ Dispatch

Next ==
    \/ \E s \in Sock : Sends(s) \/ PeerActs(s)
    \/ \E c \in Conn : Accept(c) \/ Resolved(c)
    \/ Daemon \/ CheckTimeouts \/ ReloadCfg \/ Cleanup \/ LateAnswer

\* The main loop goes round for as long as something is ready.
Fairness == WF_vars(Callback) /\ WF_vars(WaitEvents) /\ WF_vars(Dispatch)

Spec == Init /\ [][Next]_vars /\ Fairness

-----------------------------------------------------------------------------
Forwarding(c) == tun[c] = "FORWARDING" /\ Src(c) \in io.alive

\* Units in the hands of the callbacks that are due, for the peer of s.
InHand(s) ==
    LET at == {i \in 1..Len(calls) : /\ calls[i][1] = "event"
                                     /\ calls[i][2] = Other(s)
                                     /\ calls[i][3] = "READ" /\ calls[i][4] > 0}
    IN IF at = {} THEN <<>> ELSE <<calls[CHOOSE i \in at : TRUE][4]>>

\* An error of c is about to be reported; its end has dropped what it queued.
Failing(c) ==
    \E i \in 1..Len(calls) : calls[i][2][1] = c /\ calls[i][1] = "event"
                            /\ calls[i][3] = "ERROR"

\* However handlers nest, what one peer has sent is, in order, what the other
\* was sent, what is queued for it, in a callback's hands, or unread: nothing
\* is lost or doubled while the connection is up.
InTransit ==
    \A s \in Sock :
        Forwarding(s[1]) /\ ~Failing(s[1]) =>
            io.out[s] \o io.buf[s] \o InHand(s) \o io.inq[Other(s)]
                = [i \in 1..sent[Other(s)] |-> i]

\* Whenever the daemon sleeps both ends of a connection are listened to,
\* unless a signal has made it forget one.
NeverDeaf ==
    /\ Between => Registered(io)
    /\ InLoop => \A c \in Conn : Forwarding(c) =>
                    \/ Is(io, Src(c), "RECVING") /\ Is(io, Dest(c), "RECVING")
                    \/ "EINTR" \in causes

\* Nothing that was deleted is used but in two sequences: a lookup outlives
\* the module when the name was changed before it was unloaded, and a target
\* that has closed by the time it is connected ends the tunnel in the middle
\* of Connected().  A connection is taken for one that is up before it is
\* only when it got the descriptor, and the event, of another.
EventsFindTheirOwner ==
    /\ status = "crashed" =>
           "renamed" \in causes \/ (calls # <<>> /\ Top[1] = "recv")
    /\ \A c \in Conn : Forwarding(c) =>
           io.conn[Dest(c)] # "connecting" \/ "stale" \in causes

\* A tunnel is a pair of pipes that are closed together.
Relay == INSTANCE Pipes WITH
    Pipe   <- Sock,
    put    <- [s \in Sock |-> [i \in 1..sent[s] |-> i]],
    taken  <- [s \in Sock |-> io.out[Other(s)]],
    closed <- {s \in Sock : tun[s[1]] = "deleted"}

PipesSpec == Relay!Spec

\* Again and again all that was sent into the tunnels has come out, as long
\* as no signal makes the daemon forget a socket and the target, taken for
\* connected, becomes so: nothing waits for ever.
AllForwarded ==
    \A s \in Sock :
        Forwarding(s[1]) => \/ Len(io.out[Other(s)]) = sent[s]
                            \/ "EINTR" \in causes \/ status # "up"
                            \/ io.conn[Other(s)] = "connecting"

EventuallyForwarded == []<>AllForwarded
=============================================================================
