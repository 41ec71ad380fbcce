---------------------------- MODULE MCHttpProxy ----------------------------
(***************************************************************************)
(* The parts of the HTTP proxy that meet through calls which HttpSession   *)
(* abstracts from: one run checks them, each behaviour one of them.        *)
(***************************************************************************)
EXTENDS HttpClients, FiniteSets

CONSTANTS
    TmpSize, CharMax, LongSizes,
    Cached, Index, BufSize, MaxOpened, MaxWritten, MaxFaults,
    MaxReloads, MaxPending, MaxPages

VARIABLES
    answer, unread, given, d,
    text, left, setup, filters, held, wire, ended,
    gz,
    fs,
    rt,
    nd

Requests == {"GET", "GET10", "GETC", "HEAD", "POST", "CONNECT", "UNKNOWN"}
Follows  == [POST |-> <<"body">>, CONNECT |-> <<"data">>, UNKNOWN |-> <<"headers">>]
Script(kind) == <<kind>> \o (IF kind \in DOMAIN Follows THEN Follows[kind] ELSE <<>>)
\* One request, or two sent without waiting for the answer to the first.
MCScripts == {Script(k) : k \in Requests} \cup
             {Script(k) \o Script(l) : k \in Requests \ {"CONNECT"}, l \in Requests}

Answers ==
    [version : {"HTTP/1.0", "HTTP/1.1"}, code : {200, 404},
     header : {<<"content-type">>, <<"length">>, <<"close", "content-type">>,
               <<"keep-alive", "length">>},
     bodies : {<<>>, <<<<"a", "b">>, <<"c">>>>}, trailer : {<<>>}]
    \cup
    [version : {"HTTP/1.1"}, code : {200, 404},
     header : {<<"chunked">>, <<"close", "chunked">>},
     bodies : {<<>>, <<<<"a", "b">>, <<"c">>>>, <<<<"a", "b", "c">>>>},
     trailer : {<<>>, <<"t">>}]

Words  == {<<>>, <<"<", "head">>, <<"w", "open", "(", "\"">>, <<"</", "html">>,
           <<".", "resize", "(">>, <<".", "move">>, <<"y">>, <<"NUL">>}
Texts  == {v \o w : v, w \in Words}
Setups == [filters : {<<>>, <<"popup">>, <<"resize">>, <<"popup", "resize">>},
           zip : BOOLEAN, is11 : BOOLEAN]

\* A text and headers longer than what TmpBuf holds, extra fields of which the first, the
\* second or no byte of the length is a negative char, and gzip streams of any kind of header.
Streams ==
    [kind : {"gzip"}, flags : SUBSET {"EXTRA", "NAME", "COMMENT", "CRC"},
     extra : {0, 1, 5, 8}, text : {1}, members : {1}]
    \cup [kind : {"gzip"}, flags : {{"EXTRA"}}, extra : {28, 32, 48}, text : {1}, members : {1}]
    \cup [kind : {"gzip"}, flags : {{"NAME"}, {"COMMENT", "CRC"}}, extra : {0}, text : {24, 32},
          members : {1}]
    \cup [kind : {"damaged"}, flags : {{}, {"NAME"}}, extra : {0}, text : {1}, members : {1}]
    \cup [kind : {"gzip"}, flags : {{}, {"NAME"}}, extra : {0}, text : {1}, members : {2}]
    \cup [kind : {"text"}, flags : {{}}, extra : {0}, text : {1}, members : {1, 4}]
    \cup [kind : {"stored"}, flags : {{}}, extra : {0}, text : {1}, members : {1}]
MaxPiece == 12

\* A host that is mapped to another, one whose name begins with that of another, filters
\* with several lines, with those of a browser, and with an empty one.
Size        == 2
ComputeHash == [n \in {<<"a">>, <<"b">>, <<"a", "c">>} |-> IF n[1] = "a" THEN 1 ELSE 2]
Digits      == {"80", "81", "443"}

To(name, target, port) == [name |-> name, target |-> target, port |-> port]
On(urls, action)       == [text |-> urls, action |-> action]
Settings ==
    {[hosts |-> <<>>, filters |-> <<>>, ports |-> <<>>],
     [hosts |-> <<<<To(<<"a">>, <<"b">>, <<"81">>)>>>>,
      filters |-> <<On(<<"q", "nl", "a">>, "nocache"), On(<<"x">>, "forbid")>>,
      ports |-> <<<<<<"443">>>>>>],
     [hosts |-> <<<<To(<<"a", "c">>, <<"b">>, <<"80">>), To(<<"a">>, <<"a">>, <<"80">>),
                    To(<<"b">>, <<"b">>, <<"81">>)>>>>,
      filters |-> <<On(<<"x", "cr", "nl", "b", "cr", "nl", "q">>, "redirect"),
                    On(<<"q", "nl">>, "nocache")>>,
      ports |-> <<>>],
     [hosts |-> <<<<>>>>, filters |-> <<On(<<"q", "cr", "nl">>, "nocache")>>, ports |-> <<<<>>>>]}

UrlOf == INSTANCE Url

Parts(scheme, user, password, host, port, path) ==
    [scheme |-> scheme, user |-> user, password |-> password, host |-> host, port |-> port,
     rest |-> <<"/">> \o path]

\* CONNECT has a host and a port only.
ToAsk(method, parts, header, origin) ==
    LET url == UrlOf!Encode(parts)
    IN [method |-> method, parts |-> parts, header |-> header, origin |-> origin,
        url |-> IF method = "CONNECT" THEN UrlOf!UpTo(url, UrlOf!Position(url, "/")) ELSE url]

Peer(name, port) == <<[name |-> name, port |-> port]>>
Local(path)      == Parts(<<>>, <<>>, <<>>, <<>>, <<>>, path)
Asks ==
    {ToAsk("GET", Parts(<<"http">>, <<>>, <<>>, to[1], <<>>, to[2]), <<>>, <<>>)
     : to \in {<<<<"a">>, <<>>>>, <<<<"a">>, <<"q">>>>, <<<<"b">>, <<"x">>>>, <<<<"b">>, <<"q">>>>,
               <<<<"a", "c">>, <<"q">>>>}}
    \cup
    {ToAsk("GET", Parts(<<"http">>, <<"u">>, <<"p">>, <<"a">>, <<"81">>, <<"x", ":", "/", "/", "b">>),
           <<>>, <<>>),
     ToAsk("GET", Parts(<<"ftp">>, <<"u">>, <<>>, <<"a">>, <<>>, <<"b", "@", "a">>), <<>>, <<>>),
     ToAsk("GET", Local(<<"q">>), Peer(<<"b">>, <<"81">>), <<>>),
     ToAsk("GET", Local(<<"b", ":", "/", "/", "a">>), Peer(<<"b">>, <<>>), <<>>),
     ToAsk("GET", Local(<<"q">>), <<>>, Peer(<<"o1">>, <<"80">>)),
     ToAsk("GET", Local(<<"q">>), <<>>, Peer(<<"o2">>, <<"80">>)),
     ToAsk("GET", Local(<<>>), <<>>, <<>>),
     ToAsk("CONNECT", Parts(<<>>, <<>>, <<>>, <<"b">>, <<"443">>, <<>>), <<>>, <<>>),
     ToAsk("CONNECT", Parts(<<>>, <<>>, <<>>, <<"a">>, <<"81">>, <<>>), Peer(<<"a">>, <<>>), <<>>)}

\* The first and the last of each field, and the years on both sides of a century.
Dates == [wday : {0, 6}, mday : {1, 31}, mon : {0, 11}, year : {70, 77, 78, 99, 100, 177, 178},
          hour : {0, 23}, min : {59}, sec : {0}]

Decoder == INSTANCE HttpDecoder
Sender  == INSTANCE BodySender
Codec   == INSTANCE GzipCodec
Store   == INSTANCE FileStore
Routing == INSTANCE HttpRouting
Date    == INSTANCE NetDate

ASSUME Decoder!HttpDecoderAssumption /\ Sender!BodySenderAssumption
ASSUME Codec!GzipCodecAssumption /\ Store!FileStoreAssumption
ASSUME Routing!HttpRoutingAssumption /\ Date!NetDateAssumption

decoderVars == <<answer, unread, given, d>>
senderVars  == <<text, left, setup, filters, held, wire, ended>>

diskVars    == <<gz, fs>>
textVars    == <<rt, nd>>

vars == <<part, clientVars, decoderVars, senderVars, diskVars, textVars>>

NoDecoder == answer = 0 /\ unread = 0 /\ given = 0 /\ d = 0
NoSender  == /\ text = 0 /\ left = 0 /\ setup = 0 /\ filters = 0
             /\ held = 0 /\ wire = 0 /\ ended = 0
NoDisk    == gz = 0 /\ fs = 0
NoText    == rt = 0 /\ nd = 0

Init ==
    \/ ClientsInit /\ NoDecoder /\ NoSender /\ NoDisk /\ NoText
    \/ part = "decoder" /\ NoClients /\ Decoder!Init /\ NoSender /\ NoDisk /\ NoText
    \/ part = "sender"  /\ NoClients /\ NoDecoder /\ Sender!Init /\ NoDisk /\ NoText
    \/ /\ part = "codec" /\ Codec!Init /\ fs = 0
       /\ NoClients /\ NoDecoder /\ NoSender /\ NoText
    \/ /\ part = "files" /\ Store!Init /\ gz = 0
       /\ NoClients /\ NoDecoder /\ NoSender /\ NoText
    \/ /\ part = "routing" /\ Routing!Init /\ nd = 0
       /\ NoClients /\ NoDecoder /\ NoSender /\ NoDisk
    \/ /\ part = "dates" /\ Date!Init /\ rt = 0
       /\ NoClients /\ NoDecoder /\ NoSender /\ NoDisk

Next ==
    /\ part' = part
    /\ \/ /\ ClientsNext
          /\ UNCHANGED <<decoderVars, senderVars, diskVars, textVars>>
       \/ /\ part = "decoder" /\ Decoder!Next
          /\ UNCHANGED <<clientVars, senderVars, diskVars, textVars>>
       \/ /\ part = "sender" /\ Sender!Next
          /\ UNCHANGED <<clientVars, decoderVars, diskVars, textVars>>
       \/ /\ part = "codec" /\ Codec!Next
          /\ UNCHANGED <<clientVars, decoderVars, senderVars, fs, textVars>>
       \/ /\ part = "files" /\ Store!Next
          /\ UNCHANGED <<clientVars, decoderVars, senderVars, gz, textVars>>
       \/ /\ part = "routing" /\ Routing!Next
          /\ UNCHANGED <<clientVars, decoderVars, senderVars, diskVars, nd>>
       \/ /\ part = "dates" /\ Date!Next
          /\ UNCHANGED <<clientVars, decoderVars, senderVars, diskVars, rt>>

\* Connections and servers time out, clients that are there read, and the timer
\* of the cache runs.
Working ==
    /\ part' = part
    /\ \/ /\ part = "session" /\ Session!Working
          /\ UNCHANGED <<poolVars, decoderVars, senderVars, diskVars, textVars>>
       \/ /\ part = "pool" /\ \E s \in Socks : Pool!Expire(s)
          /\ UNCHANGED <<h, decoderVars, senderVars, diskVars, textVars>>
       \/ /\ part = "decoder" /\ Decoder!Closed
          /\ UNCHANGED <<clientVars, senderVars, diskVars, textVars>>
       \/ /\ part = "files" /\ Store!Working
          /\ UNCHANGED <<clientVars, decoderVars, senderVars, gz, textVars>>

Spec == Init /\ [][Next]_vars /\ WF_vars(Working)

-----------------------------------------------------------------------------
\* Each request has one answer, from the server that the settings name or from its page in
\* the cache, filtered and chunked as it should be, the client can tell where it ends, and
\* its dates are what the server meant.
AnswersRight ==
    /\ part = "session" => Session!OneAnswerEach
    /\ part = "routing" => Routing!RoutedRight
    /\ part = "dates" => Date!DatesExact
    /\ part = "sender" => Sender!ChunksWellFormed

\* What a body is on the server, in a gzip stream, or in a file of the cache, is what
\* comes out of it, wherever it is cut and however much of it a write takes.
BytesExact ==
    /\ part = "decoder" => Decoder!BodyExact
    /\ part = "codec" => Codec!GzipExact
    /\ part = "files" => Store!FilesRight

\* A client ends, or waits for its user again; an answer ends; a connection is
\* not kept for ever, nor a file that was closed.
Settled ==
    /\ part = "session" => Session!Settled
    /\ part = "pool" => Pool!NoneKept
    /\ part = "decoder" => Decoder!AnswerEnds
    /\ part = "files" => Store!NoneClosing
SessionsFinish == []<>Settled
=============================================================================
