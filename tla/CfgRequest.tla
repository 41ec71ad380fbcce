----------------------------- MODULE CfgRequest -----------------------------
(***************************************************************************)
(* mod_cfg/cfgdata.cpp: how mod_cfg reads a request and answers it.        *)
(*                                                                         *)
(* What a browser sends are units: two for the text of a line, so that it  *)
(* can be cut in the middle, and "nl"; one for each byte of a body.  ReqBuf*)
(* starts with whatever was in memory.                                     *)
(***************************************************************************)
EXTENDS Naturals, Sequences, SequencesExt

CONSTANTS Requests,  \* [method, headers, body]: what browsers send
          Junk,      \* what may be in ReqBuf
          BufSize    \* sizeof( ReqBuf )

VARIABLE req

-----------------------------------------------------------------------------
\* Browsers.

\* "up": a page that "../" is in; "none": a line without a blank.
Text(t) == IF t = "long" THEN [i \in 1..BufSize |-> "long"] ELSE <<t, t>>
Line(t) == Append(Text(t), "nl")

\* A line is not longer than the buffer, but for one that is.
CfgRequestAssumption ==
    /\ \A r \in Requests : /\ r.method \in {"GET", "POST", "PUT", "up", "long", "none"}
                           /\ r.headers \in Seq({"length", "auth", "other"})
                           /\ r.body \in Seq(STRING)
    /\ Junk \subseteq {"junk", "nul", "nl"}
    /\ BufSize \in Nat /\ BufSize > Len(Line("GET"))

Wire(r) == Line(r.method)
           \o FlattenSeq([i \in 1..Len(r.headers) |-> Line(r.headers[i])])
           \o <<"nl">> \o r.body

Has(r, header) == header \in ToSet(r.headers)

\* What the body is for mod_cfg, without the end of its last line.
Trimmed(body) == IF body # <<>> /\ Last(body) = "nl" THEN Front(body) ELSE body

\* "off" is where the next piece goes, "size" what Body.GetSize() says.
Blank(r, junk) ==
    [sent |-> r, unread |-> Wire(r), state |-> "header", method |-> "none",
     buf |-> [i \in 1..BufSize |-> junk], len |-> 0, off |-> 0, size |-> 0, body |-> <<>>,
     auth |-> FALSE, answer |-> <<>>, junk |-> junk, refilled |-> FALSE, inline |-> FALSE,
     overrun |-> FALSE]

Init == \E r \in Requests, junk \in Junk : req = Blank(r, junk)

-----------------------------------------------------------------------------
SendError(v, code) == [v EXCEPT !.state = "closing", !.answer = Append(@, code)]

\* ParseRequest(): the page, for who may see it.
ParseRequest(v) ==
    SendError(v, IF v.auth THEN "page" ELSE "unauthorized")

\* ParseMethod()
ParseMethod(v, line) ==
    IF line \notin {Text(m) : m \in {"GET", "POST", "PUT", "up"}} THEN SendError(v, "bad request")
    ELSE IF line = Text("up") THEN SendError(v, "forbidden")
    ELSE IF line = Text("PUT") THEN SendError(v, "not implemented")
    ELSE [v EXCEPT !.method = line[1]]

\* ParseHeader(): the length counts a NUL.
ParseHeader(v, line) ==
    IF line = <<>>
    THEN IF v.method = "GET" \/ v.size = 0 THEN ParseRequest(v) ELSE [v EXCEPT !.state = "body"]
    ELSE IF line = Text("length") THEN [v EXCEPT !.size = Len(v.sent.body) + 1]
    ELSE [v EXCEPT !.auth = @ \/ line = Text("auth")]

\* AddBodyData()
AddBodyData(v, data) ==
    LET w == [v EXCEPT !.body = @ \o data]
    IN IF Len(w.body) >= w.size - 1 THEN ParseRequest([w EXCEPT !.body = Trimmed(@)]) ELSE w

\* What is left of the last piece of the header is of the body.
TakeBody(p) ==
    LET v    == p.v
        left == IF v.len - (p.start - 1) >= v.size THEN v.size - 1 ELSE v.len - (p.start - 1)
    IN IF v.state = "body" THEN AddBodyData(v, SubSeq(v.buf, p.start, p.start + left - 1)) ELSE v

\* strchr( start, '\n' ), 0 if there is none.
NextLine(buf, start) ==
    LET n == SelectInSubSeq(buf, start, Len(buf), LAMBDA u : u \in {"nl", "nul"})
    IN IF n > 0 /\ buf[n] = "nl" THEN n ELSE 0

\* The next line, if the header goes on and there is one.
TakeLine(p) ==
    LET v    == p.v
        end  == NextLine(v.buf, p.start)
        line == SubSeq(v.buf, p.start, end - 1)
        w    == [v EXCEPT !.buf[end] = "nul"]
    IN IF v.state = "header" /\ end > 0
       THEN [v     |-> IF v.method = "none" THEN ParseMethod(w, line) ELSE ParseHeader(w, line),
             start |-> end + 1]
       ELSE p

\* The lines, no more than ReqBuf has places, and then what of the body is behind them.
ParseLines(v) ==
    LET taken[n \in 0..BufSize] ==
            IF n = 0 THEN [v |-> v, start |-> 1] ELSE TakeLine(taken[n - 1])
    IN TakeBody(taken[BufSize])

\* AddHeaderData(): when lines were taken the next piece goes to the beginning of ReqBuf, but
\* ReqLen goes on.
AddHeaderData(v, data) ==
    LET len == v.len + Len(data)
        buf == [i \in 1..BufSize |-> IF i \in (v.off + 1)..(v.off + Len(data)) THEN data[i - v.off]
                                     ELSE IF i = len + 1 THEN "nul" ELSE v.buf[i]]
        w   == [v EXCEPT !.buf = buf, !.len = len]
        p   == ParseLines(w)
        cut == [w EXCEPT !.inline = @ \/ v.refilled]
    IN IF len >= BufSize THEN [w EXCEPT !.overrun = TRUE, !.state = "closing"]
       ELSE IF NextLine(buf, 1) > 0
       THEN IF p.state = "header"
            THEN [p EXCEPT !.off = 0, !.refilled = TRUE, !.inline = @ \/ (data # <<>> /\ Last(data) # "nl")]
            ELSE p
       ELSE IF len < BufSize - 1 THEN [cut EXCEPT !.off = len] ELSE SendError(cut, "bad request")

-----------------------------------------------------------------------------
Room(v) == IF v.state = "header" THEN BufSize - 1 - v.off ELSE v.size - Len(v.body) - 1

\* GotData()
Read ==
    /\ req.state \in {"header", "body"}
    /\ \E n \in 1..Len(req.unread) :
         /\ n <= Room(req)
         /\ LET v    == [req EXCEPT !.unread = SubSeq(@, n + 1, Len(@))]
                data == SubSeq(req.unread, 1, n)
            IN req' = IF req.state = "header" THEN AddHeaderData(v, data) ELSE AddBodyData(v, data)

\* The browser ends the connection: the callback with no data receives again, which calls
\* it, with no end.
Close ==
    /\ req.state \in {"header", "body"}
    /\ req' = [req EXCEPT !.state = "crash"]

\* Error() and SocketEvent(): an error, a timeout, or all that was to be sent is.
Delete ==
    /\ req.state \in {"header", "body", "closing"}
    /\ req' = [req EXCEPT !.state = "deleted"]

Next == Read \/ Close \/ Delete

-----------------------------------------------------------------------------
\* What the answer should be.
Expected(r) ==
    CASE r.method \in {"none", "long"} -> "bad request"
      [] r.method = "up"               -> "forbidden"
      [] r.method = "PUT"              -> "not implemented"
      [] OTHER                         -> IF Has(r, "auth") THEN "page" ELSE "unauthorized"

\* Everything that was sent was read, or the answer is on its way.
Over == req.state = "closing" \/ (req.state \in {"header", "body", "crash"} /\ req.unread = <<>>)

\* The header came in one piece from its second line on; or it was cut between lines, its
\* pieces are not more than the buffer, and no body follows.
InOnePiece == ~req.refilled
InLines    == ~req.inline /\ req.junk # "nl" /\ ~req.overrun /\ ~Has(req.sent, "length")

\* cfgdata.cpp, AddHeaderData() and AddBodyData(): a request is answered once, as it was sent,
\* with its body, wherever it is cut, but for a header that comes in several pieces.  So the
\* daemon is not lost when a browser has sent its whole request and ends the connection.
ReadAsSent ==
    /\ Len(req.answer) <= 1
    /\ Over /\ (InOnePiece \/ InLines) =>
         /\ req.answer = <<Expected(req.sent)>>
         /\ req.method = "POST" /\ Has(req.sent, "length") =>
              req.body = Trimmed(req.sent.body)

\* cfgdata.cpp, AddHeaderData(): nothing is written behind the buffer, unless the header came
\* in pieces.
InBuffer == req.overrun => req.refilled

RequestRight == ReadAsSent /\ InBuffer
=============================================================================
