---------------------------- MODULE HttpSession ----------------------------
(***************************************************************************)
(* One client of the HTTP proxy: an HTTPData and the methods of HTTPProxy  *)
(* that handle its events.  A client sends requests, perhaps several ahead;*)
(* each is answered by the proxy itself, from the cache, by a server, or   *)
(* through a tunnel to it.  Either side can fail or close at any time, and *)
(* the data is freed when both sockets are gone.                           *)
(*                                                                         *)
(* A method is an operator on the record h.  AsyncRecv(), AsyncConnect()   *)
(* and AsyncResolve() may call back at once; each such call is the last    *)
(* thing its method does but in InitTunnel(), so that the callback can be  *)
(* an action of its own.  The cache is what it answers (see HttpCache);    *)
(* FindConnection() finds nothing (see ConnectionMgr).                     *)
(***************************************************************************)
EXTENDS Naturals, Sequences, SequencesExt

CONSTANTS Scripts,   \* what clients send: sequences of tokens
          MaxUnits   \* bounds the units of a body or a tunnel

\* A token is the head of a request or what follows one.
Follows  == [POST |-> <<"body">>, CONNECT |-> <<"data">>, UNKNOWN |-> <<"headers">>]
Requests == {"GET", "GET10", "GETC", "HEAD", "POST", "CONNECT", "UNKNOWN"}
Whole(kind) == <<kind>> \o (IF kind \in DOMAIN Follows THEN Follows[kind] ELSE <<>>)

HttpSessionAssumption ==
    MaxUnits \in Nat /\ \A s \in Scripts : s # <<>> /\ s[1] \in Requests

VARIABLE h

NoResponse == [code |-> 0, keep |-> FALSE, entity |-> FALSE]

\* Accept().
Init ==
    \E s \in Scripts :
        h = [ \* the client: what it has yet to send, what is unread, whether
              \* it has closed; ClientSock, RECVING and SENDING
              script |-> s, inq |-> <<>>, eof |-> FALSE,
              client |-> TRUE, recving |-> TRUE, writing |-> FALSE,
              \* ServerSock, and RECVING
              server |-> FALSE, serverRecving |-> FALSE,
              state |-> "REQUEST", serverState |-> "REQUEST",
              lookup |-> FALSE, cached |-> "none",
              \* Client: Method, KeepAlive(), HeaderSent(), Data; Server
              method |-> "NONE", keep |-> FALSE, head |-> FALSE,
              rest |-> <<>>, resp |-> NoResponse, units |-> 0,
              \* HandleRequest() is due with what is in rest
              due |-> FALSE,
              status |-> "up", causes |-> {},
              \* requests read, and answers begun
              asked |-> 0, answered |-> 0]

Up(x) == x.status = "up"

-----------------------------------------------------------------------------
\* Closing.

FreeHTTPData(x) ==
    IF x.client \/ x.server THEN x
    ELSE [x EXCEPT !.status = "freed", !.cached = "none"]

CloseServerSocket(x) ==
    FreeHTTPData([x EXCEPT !.serverState = "CLOSING", !.server = FALSE,
                           !.serverRecving = FALSE,
                           \* an object that others may be reading has no end
                           !.causes = IF x.cached = "own"
                                      THEN @ \cup {"abandoned"} ELSE @])

\* Wrong: forgets the lookup that is under way.
CloseClientSocketOnly(x) ==
    LET y == [x EXCEPT !.state = "CLOSING"]
    IN FreeHTTPData(IF x.writing THEN y
                    ELSE [y EXCEPT !.client = FALSE, !.recving = FALSE])

CloseClientSocket(x) ==
    LET y == [x EXCEPT !.lookup = IF x.state = "RESOLVING" THEN FALSE ELSE @,
                       !.state = "CLOSING"]
    IN FreeHTTPData(IF x.writing THEN y
                    ELSE [y EXCEPT !.client = FALSE, !.recving = FALSE])

CloseBoth(x) ==
    LET y == CloseServerSocket(x)
    IN IF Up(y) THEN CloseClientSocket(y) ELSE y

\* The server's socket is kept for others or closed.
ResetServerConnection(x) ==
    IF x.server /\ x.resp.keep /\ x.serverState # "CLOSING"
    THEN [x EXCEPT !.serverState = "REQUEST", !.server = FALSE]
    ELSE CloseServerSocket(x)

\* The next request, which may have come with this one.
ResetConnection(x) ==
    LET y == ResetServerConnection(x)
    IN IF ~Up(y) THEN y
       ELSE IF ~y.client \/ y.state = "CLOSING" \/ ~y.keep
       THEN CloseClientSocket(y)
       ELSE [y EXCEPT !.cached = "none", !.state = "REQUEST",
                      !.method = "NONE", !.keep = FALSE, !.head = FALSE,
                      !.resp = NoResponse, !.units = 0,
                      !.due = x.rest # <<>>, !.recving = x.rest = <<>>]

\* SendHeader(), ErrorMsg(), Redirect().
Answer(x) == [x EXCEPT !.head = TRUE, !.writing = TRUE, !.answered = @ + 1]

\* Wrong: answers, and waits for nothing.
SendErrorOnly(x) ==
    LET y == IF x.client /\ x.serverState = "CLOSING" THEN CloseServerSocket(x)
             ELSE x
    IN IF ~x.client THEN ResetConnection(y)
       ELSE IF ~y.head THEN Answer(y) ELSE CloseClientSocket(y)

SendError(x) ==
    LET y == IF x.client /\ x.serverState = "CLOSING" THEN CloseServerSocket(x)
             ELSE x
        z == IF ~x.client THEN y
             ELSE IF ~y.head THEN Answer(y) ELSE CloseClientSocket(y)
    IN IF Up(z) THEN ResetConnection(z) ELSE z

-----------------------------------------------------------------------------
\* The cache.

\* The object is there, is being received, or cannot be opened.
SendFromCache(x) ==
    LET y == ResetServerConnection(x)
        z == Answer([y EXCEPT !.state = "BODY"])
    IN IF ~Up(y) THEN {y}
       ELSE IF x.cached = "none" THEN {[y EXCEPT !.status = "crashed",
                                               !.causes = @ \cup {"unasked_304"}]}
       ELSE {SendError(y)} \cup
            (IF x.method = "HEAD" THEN {ResetConnection(z)}
             ELSE {ResetConnection(z), [z EXCEPT !.cached = "joined"]})

\* CacheObjListener(): the end of the object, or an error.
ObjectEnds(x) == ResetConnection([x EXCEPT !.cached = "done"])
ObjectFails(x) ==
    SendError([x EXCEPT !.cached = "done", !.serverState = "CLOSING"])

-----------------------------------------------------------------------------
\* Requests.

\* GetOriginalDest() or HostMap give an address to connect to, a name to look
\* up, or nothing the proxy serves.
Connecting(x) == [x EXCEPT !.server = TRUE, !.state = "CONNECTING",
                           !.serverState = "CONNECTING"]
Resolved(x, found) ==
    IF x.client /\ found
    THEN {Connecting(x), SendError([x EXCEPT !.serverState = "CLOSING"])}
    ELSE {SendError(x)}

ConnectToServer(x) ==
    {SendError(x), Connecting(x),
     [x EXCEPT !.state = "RESOLVING", !.serverState = "RESOLVING", !.lookup = TRUE]}

Handle_GET_HEAD(x) ==
    (UNION {ConnectToServer([x EXCEPT !.cached = c]) : c \in {"none", "stale"}})
    \cup {ResetConnection(Answer([x EXCEPT !.cached = "fresh"]))}
    \cup SendFromCache([x EXCEPT !.cached = "fresh"])

Handle_CONNECT(x) == {SendError(x)} \cup ConnectToServer(x)

\* What is first is taken for a request whatever it is; a filter may answer.
HandleRequest(x, tokens) ==
    LET t == Head(tokens)
        y == [x EXCEPT !.rest = Tail(tokens), !.due = FALSE,
                       !.method = IF t \in Requests THEN t ELSE "UNKNOWN",
                       !.keep = t \in Requests \ {"GETC", "CONNECT"},
                       !.asked = IF t \in Requests THEN @ + 1 ELSE @,
                       !.causes = IF t \in Requests THEN @
                                  ELSE @ \cup {"not_a_request"}]
    IN {SendError(y)}
       \cup (IF t = "POST" THEN ConnectToServer(y)
             ELSE IF t = "CONNECT" THEN Handle_CONNECT(y)
             ELSE IF y.method = "UNKNOWN" THEN {} ELSE Handle_GET_HEAD(y))

-----------------------------------------------------------------------------
\* Tunnels and answers.

\* The body or what came with the request goes to the server.  AsyncRecv() for
\* the client says that all is well when it has read something, even if what
\* it called back has read the end and closed all.
InitTunnel(x) ==
    LET y == [x EXCEPT !.state = "TUNNELING", !.serverState = "TUNNELING",
                       !.rest = <<>>, !.inq = <<>>]
    IN IF ~x.eof THEN [y EXCEPT !.recving = TRUE, !.serverRecving = TRUE]
       ELSE IF x.inq = <<>> THEN CloseBoth(y)
       ELSE [y EXCEPT !.status = "crashed", !.causes = @ \cup {"early_close"}]

SendRequest(x) == [x EXCEPT !.serverState = "SERVER_RESPONSE",
                            !.serverRecving = TRUE]

Connected(x) ==
    IF x.method = "CONNECT" THEN InitTunnel(Answer(x))
    ELSE IF x.method = "POST" THEN InitTunnel([x EXCEPT !.answered = @ + 1])
    ELSE SendRequest(x)

InBody(x) == [x EXCEPT !.state = "BODY", !.serverState = "BODY"]

ForwardResponse(x) ==
    LET y == Answer(InBody([x EXCEPT !.cached = "none"]))
    IN IF x.method = "HEAD" \/ ~x.resp.entity THEN ResetConnection(y)
       ELSE [y EXCEPT !.serverRecving = TRUE]

\* Create() may fail and the object may be one that is not to be cached.
DownloadAndCache(x) ==
    {[Answer(InBody([x EXCEPT !.cached = c])) EXCEPT !.serverRecving = TRUE]
     : c \in {"none", "own"}}

HandleResponse(x) ==
    IF x.resp.code = 304 THEN SendFromCache(x)
    ELSE IF x.resp.code = 200 /\ x.method # "HEAD" THEN DownloadAndCache(x)
    ELSE {ForwardResponse(x)}

\* What the decoder says: there is more, this was all, or it is broken.
HandleBody(x, what) ==
    IF what = "more" THEN [x EXCEPT !.serverRecving = TRUE]
    ELSE IF x.cached = "own"
    THEN IF what = "done" THEN ObjectEnds(x) ELSE ObjectFails(x)
    ELSE IF what = "done" THEN ResetConnection(x)
    ELSE SendError([x EXCEPT !.serverState = "CLOSING"])

-----------------------------------------------------------------------------
\* Events.  IsCacheable() is asked again when the client goes, and looks at
\* the size of the chunk that is being received and at the filters of now.

ClientError(x) ==
    (IF x.serverState = "BODY" THEN {CloseClientSocket(x)} ELSE {}) \cup
    {CloseClientSocket(CloseServerSocket(
        [x EXCEPT !.causes = @ \cup {"not_cacheable"}]))}

ClientClosed(x) == ClientError(x)

ServerError(x) ==
    LET y == [x EXCEPT !.serverState = "CLOSING"]
    IN IF x.serverState \in {"CONNECTING", "SERVER_RESPONSE"} THEN SendError(y)
       ELSE IF x.serverState = "BODY" /\ x.cached = "own" THEN ObjectFails(y)
       ELSE CloseBoth(y)

\* At its end a body without a length is complete, another is broken.
ServerClosed(x) ==
    LET y == [x EXCEPT !.serverState = "CLOSING"]
    IN CASE x.serverState = "BODY" ->
                {HandleBody(y, what) : what \in {"done", "broken"}}
         [] x.serverState = "TUNNELING" -> {CloseBoth(x)}
         [] x.serverState = "SERVER_RESPONSE" /\ x.cached # "none" ->
                SendFromCache(y)
         [] OTHER -> {SendError(y)}

-----------------------------------------------------------------------------
Idle == Up(h) /\ ~h.due      \* in the main loop

ClientSends ==
    /\ Idle /\ h.client /\ ~h.eof
    /\ \/ h.script # <<>> /\ h' = [h EXCEPT !.script = Tail(@),
                                            !.inq = Append(@, Head(h.script))]
       \/ h' = [h EXCEPT !.eof = TRUE]

\* recv() takes any part of what has arrived.
ClientRead ==
    /\ Idle /\ h.recving /\ h.inq # <<>>
    /\ \E n \in 1..Len(h.inq) :
         LET data == SubSeq(h.inq, 1, n)
             x == [h EXCEPT !.inq = SubSeq(@, n + 1, Len(@)), !.recving = FALSE]
         IN IF h.state = "REQUEST" THEN h' \in HandleRequest(x, data)
            ELSE h' = [x EXCEPT !.recving = h.state = "TUNNELING"]

ClientEof ==
    /\ Idle /\ h.recving /\ h.inq = <<>> /\ h.eof
    /\ h' \in ClientClosed([h EXCEPT !.recving = FALSE])

\* An error, or a timeout of a recv().
ClientFails ==
    /\ Idle /\ (h.recving \/ h.writing)
    /\ h' \in ClientError([h EXCEPT !.recving = FALSE, !.writing = FALSE])

Written ==
    /\ Idle /\ h.writing
    /\ LET x == [h EXCEPT !.writing = FALSE]
       IN h' = IF h.state = "CLOSING" THEN CloseClientSocket(x) ELSE x

\* ResetConnection() with the beginning of the next request.
Pipelined ==
    /\ Up(h) /\ h.due
    /\ h' \in HandleRequest(h, h.rest)

Answered ==
    /\ Idle /\ h.lookup
    /\ \E found \in BOOLEAN : h' \in Resolved([h EXCEPT !.lookup = FALSE], found)

ServerConnected ==
    /\ Idle /\ h.server /\ h.serverState = "CONNECTING"
    /\ h' \in {Connected(h), ServerError(h)}

ServerResponds ==
    /\ Idle /\ h.serverRecving /\ h.serverState = "SERVER_RESPONSE"
    /\ \E r \in [code : {200, 304, 404}, keep : BOOLEAN, entity : BOOLEAN] :
          h' \in HandleResponse([h EXCEPT !.resp = r, !.serverRecving = FALSE])

ServerSends ==
    /\ Idle /\ h.serverRecving /\ h.serverState \in {"BODY", "TUNNELING"}
    /\ h.units < MaxUnits
    /\ LET x == [h EXCEPT !.units = @ + 1, !.writing = h.client,
                          !.serverRecving = FALSE]
       IN IF h.serverState = "TUNNELING"
          THEN h' = [x EXCEPT !.serverRecving = TRUE]
          ELSE h' \in {HandleBody(x, what) : what \in {"more", "done", "broken"}}

ServerGoes ==
    /\ Idle /\ h.serverRecving
    /\ LET x == [h EXCEPT !.serverRecving = FALSE]
       IN h' \in {ServerError(x)} \cup ServerClosed(x)

\* An object that another client receives.
OtherEnds ==
    /\ Idle /\ h.cached = "joined"
    /\ h' \in {ObjectEnds(h), ObjectFails(h)}

Next ==
    \/ ClientSends \/ ClientRead \/ ClientEof \/ ClientFails \/ Written
    \/ Pipelined \/ Answered \/ ServerConnected
    \/ ServerResponds \/ ServerSends \/ ServerGoes \/ OtherEnds

\* What does not wait for a client: the timeouts of a connection and of a
\* server end what does not end itself, a client that is alive reads what it
\* is sent, and the resolver answers.
Working == \/ Pipelined \/ Written \/ Answered \/ OtherEnds
           \/ ServerConnected
           \/ h.serverState # "TUNNELING" /\ ServerGoes

-----------------------------------------------------------------------------
\* The data is freed when both sockets are gone and not before, nothing calls
\* back into it after, and nothing that is gone is used but in two sequences:
\* a client that sends a body and closes before the server is connected, and a
\* server that says that what it was not asked about has not changed.  An object that
\* is being received is left without an end, which other clients of it would
\* wait for, only when IsCacheable() answers otherwise than it did before.
SessionSafe ==
    /\ h.status = "crashed" => h.causes \cap {"early_close", "unasked_304"} # {}
    /\ h.lookup <=> Up(h) /\ h.state = "RESOLVING"
    /\ h.status = "freed" <=> ~h.client /\ ~h.server
    /\ Up(h) /\ ~h.client => h.serverState = "BODY"
    /\ "abandoned" \in h.causes => "not_cacheable" \in h.causes

\* A client that waits has been answered once for each request, and nothing
\* else, but for the headers of a method that is not known and the body of a
\* POST that failed, which are taken for requests.
OneAnswerEach ==
    /\ Idle /\ h.state = "REQUEST" => (h.answered = h.asked
                                       \/ "not_a_request" \in h.causes)
    /\ Idle => h.answered <= h.asked + (IF "not_a_request" \in h.causes
                                        THEN 1 ELSE 0)

\* Nothing is left to do until the user sends something.
Settled == ~Up(h) \/ (h.recving /\ h.state \in {"REQUEST", "TUNNELING"})
=============================================================================
