---------------------------- MODULE HttpDecoder ----------------------------
(***************************************************************************)
(* How the proxy takes a server's answer apart: AddHeaderData() for its    *)
(* header, then DecodeBodyData() for a body that has a length, comes in    *)
(* chunks, or ends with the connection.  The answer arrives in pieces that *)
(* may end anywhere, and the server may close before its end.              *)
(*                                                                         *)
(* An answer is a sequence of tokens: a line is a token and CR and LF, the *)
(* sizes of chunks are the names of numbers, other tokens are data.  Of the*)
(* header, what says where the body ends is told apart.                    *)
(***************************************************************************)
EXTENDS Naturals, Sequences, SequencesExt

CONSTANTS Answers   \* records of version, code, header (a sequence), bodies
                    \* (the chunks, if it is in chunks) and trailer

Line(t) == <<t, "CR", "LF">>
EmptyLine == <<"CR", "LF">>
SizeOf  == [zero |-> 0, one |-> 1, two |-> 2, three |-> 3]
NameOf(n) == CHOOSE t \in DOMAIN SizeOf : SizeOf[t] = n

Body(a) == FlattenSeq(a.bodies)
Wire(a) ==
    Line(a.version) \o FlattenSeq([i \in DOMAIN a.header |-> Line(a.header[i])])
    \o EmptyLine
    \o (IF ~Contains(a.header, "chunked") THEN Body(a)
        ELSE FlattenSeq([i \in DOMAIN a.bodies |->
                 Line(NameOf(Len(a.bodies[i]))) \o a.bodies[i] \o EmptyLine])
             \o Line("zero") \o FlattenSeq([i \in DOMAIN a.trailer |->
                                               Line(a.trailer[i])])
             \o EmptyLine)

HttpDecoderAssumption ==
    \A a \in Answers :
        /\ a.version \in {"HTTP/1.0", "HTTP/1.1"} /\ a.code \in {200, 404}
        /\ ToSet(a.header) \subseteq {"length", "chunked", "close", "keep-alive",
                                     "content-type"}
        /\ \A i \in DOMAIN a.bodies : Len(a.bodies[i]) \in 1..3

VARIABLES answer,    \* what the server says,
          unread,    \* what of it has not been read,
          given,     \* what has been given to the client,
          d          \* the HTTP that decodes it, and what of its state is used

Init ==
    \E a \in Answers :
        /\ answer = a /\ unread = Wire(a) /\ given = <<>>
        /\ d = [ \* Method # M_NONE, the Headers, TmpBuf
                 started |-> FALSE, headers |-> <<>>, tmp |-> <<>>,
                 \* what follows the header, or is left of the last piece
                 data |-> <<>>,
                 mode |-> "header", last |-> FALSE,
                 size |-> 0, offset |-> 0,
                 \* what the header says: HTTPF_CHUNKED, ENTITY_BODY, KEEP_ALIVE
                 chunked |-> FALSE, entity |-> FALSE, keep |-> FALSE,
                 done |-> FALSE, error |-> FALSE, closed |-> FALSE]

From(s, n) == SubSeq(s, n, Len(s))

\* A piece up to its first LF, if it has one.
UpToLine(s) ==
    IF Contains(s, "LF") THEN SubSeq(s, 1, SelectInSeq(s, LAMBDA t : t = "LF"))
    ELSE s

\* The line that is complete in the buffer, without its end.
Text(buf) == SelectSeq(buf, LAMBDA t : t \notin {"CR", "LF"})

\* The first line, and the others.
ParseMethod(x, t) == [x EXCEPT !.started = TRUE, !.keep = t = "HTTP/1.1"]
ParseHeader(x, t) ==
    LET y == [x EXCEPT !.headers = Append(@, t)]
        n == Len(Body(answer))
    IN CASE t = "length"     -> [y EXCEPT !.size = n, !.entity = @ \/ n > 0]
         [] t = "chunked"    -> [y EXCEPT !.chunked = TRUE, !.entity = TRUE]
         [] t = "close"      -> [y EXCEPT !.keep = FALSE, !.entity = TRUE]
         [] t = "keep-alive" -> [y EXCEPT !.keep = TRUE]
         [] OTHER            -> y

\* A line may come in parts; what follows the empty one is kept as data.
RECURSIVE AddHeaderData(_, _)
AddHeaderData(x, piece) ==
    LET line == UpToLine(piece)
        rest == From(piece, Len(line) + 1)
        y    == [x EXCEPT !.tmp = @ \o line]
        z    == [y EXCEPT !.tmp = <<>>]
        next == IF ~x.started THEN ParseMethod(z, Text(y.tmp)[1])
                ELSE IF Text(y.tmp) = <<>>
                THEN [z EXCEPT !.mode = "size", !.data = rest]
                ELSE ParseHeader(z, Text(y.tmp)[1])
    IN IF Last(line) # "LF" THEN y
       ELSE IF next.mode = "size" \/ rest = <<>> THEN next
       ELSE AddHeaderData(next, rest)

-----------------------------------------------------------------------------
\* Bodies.

Broken(x) == [x EXCEPT !.done = TRUE, !.error = TRUE, !.keep = FALSE,
                       !.data = <<>>]

DecodeFixedLenData(x, piece) ==
    IF piece = <<>> THEN Broken(x)
    ELSE [x EXCEPT !.offset = @ + Len(piece), !.data = piece,
                   !.done = x.offset + Len(piece) >= x.size]

DecodeVarLenData(x, piece) ==
    [x EXCEPT !.data = piece, !.done = piece = <<>>]

\* DecodeChunkedData(): the data of a chunk, the footer that follows it and the
\* line with the next size, each as far as the piece goes.  The footer ends
\* with its first line, empty or not, since the loop sees the LF of a line that
\* is not as an empty one.  Where that is the last thing in a piece it stays in
\* TmpBuf, before the size, and sscanf() skips it.

\* What is left of the chunk.
Left(x) == x.size - x.offset

RECURSIVE DecodeChunkedData(_, _)
DecodeChunkedData(x, piece) ==
    LET Go(y, rest) == IF rest = <<>> THEN y ELSE DecodeChunkedData(y, rest)
        buf  == x.tmp \o piece
        InBody ==
            LET n == IF Len(piece) < Left(x) THEN Len(piece) ELSE Left(x)
                y == [x EXCEPT !.data = @ \o SubSeq(piece, 1, n),
                               !.offset = @ + n, !.tmp = <<>>]
            IN Go(IF y.offset < y.size THEN y
                  ELSE [y EXCEPT !.mode = "footer", !.size = 0, !.offset = 0],
                  From(piece, n + 1))
        InFooter ==
            LET rest == From(buf, Len(UpToLine(buf)) + 1)
            IN IF ~Contains(buf, "LF") THEN [x EXCEPT !.tmp = buf]
               ELSE IF x.last THEN [x EXCEPT !.done = TRUE, !.tmp = buf]
               ELSE Go([x EXCEPT !.mode = "size",
                                 !.tmp = IF rest = <<>> THEN buf ELSE <<>>], rest)
        InSize ==
            LET n == SizeOf[Head(Text(buf))]
                y == [x EXCEPT !.size = n, !.offset = 0, !.tmp = <<>>]
            IN IF ~Contains(piece, "LF") THEN [x EXCEPT !.tmp = buf]
               ELSE Go(IF n = 0 THEN [y EXCEPT !.mode = "footer", !.last = TRUE]
                       ELSE [y EXCEPT !.mode = "body"],
                       From(piece, Len(UpToLine(piece)) + 1))
    IN CASE x.mode = "body"   -> InBody
         [] x.mode = "footer" -> InFooter
         [] x.mode = "size"   -> InSize

DecodeBodyData(x, piece) ==
    IF x.chunked
    THEN IF piece = <<>> THEN Broken(x)
         ELSE DecodeChunkedData([x EXCEPT !.data = <<>>], piece)
    ELSE IF x.size # 0 THEN DecodeFixedLenData(x, piece)
    ELSE DecodeVarLenData(x, piece)

-----------------------------------------------------------------------------
\* HandleBody(): what has been decoded goes to the client.
HandleBody(x, piece) ==
    LET y == DecodeBodyData(x, piece)
    IN d' = y /\ given' = given \o (IF y.error THEN <<>> ELSE y.data)

\* HandleResponse(): ForwardResponse() for what is not 200 takes it for all of
\* the answer if the header does not speak of a body; otherwise the body may
\* have begun, see ProcessFirstData().
HandleResponse(x) ==
    IF answer.code # 200 /\ ~x.entity
    THEN d' = [x EXCEPT !.done = TRUE] /\ UNCHANGED given
    ELSE IF x.data = <<>> THEN d' = x /\ UNCHANGED given
    ELSE HandleBody(x, x.data)

\* GotData().
Read ==
    /\ ~d.done
    /\ \E n \in 1..Len(unread) :
         LET piece == SubSeq(unread, 1, n)
             x     == AddHeaderData(d, piece)
         IN /\ unread' = From(unread, n + 1)
            /\ IF d.mode # "header" THEN HandleBody(d, piece)
               ELSE IF x.mode = "header" THEN d' = x /\ UNCHANGED given
               ELSE HandleResponse(x)
    /\ UNCHANGED answer

\* SocketClosed(): the server closes, at the end or before it.
Closed ==
    /\ ~d.done
    /\ LET x == [d EXCEPT !.closed = TRUE]
       IN IF d.mode = "header" THEN d' = Broken(x) /\ UNCHANGED given
          ELSE HandleBody(x, <<>>)
    /\ UNCHANGED <<answer, unread>>

Next == Read \/ Closed

vars == <<answer, unread, given, d>>

-----------------------------------------------------------------------------
\* What the client is given is the beginning of what the server says, whatever
\* the pieces.  An answer is over, with the server still there, only where all of
\* its body has been given, but that of an answer other than 200 whose header
\* does not speak of one is not given at all; it is over when it all is there, if
\* its header tells its length and that is not 0; and it is broken only when the
\* server closes before.  A connection that can be kept is at the end of the
\* answer then, unless that has a trailer, of which all but the first line is
\* left there, or its body was not given.
BodyExact ==
    LET says  == \E t \in {"length", "chunked", "close"} : Contains(answer.header, t)
        lost  == answer.code # 200 /\ (says => Body(answer) = <<>>)
        known == /\ \/ Contains(answer.header, "chunked")
                    \/ Contains(answer.header, "length") /\ Body(answer) # <<>>
                 /\ ~lost
    IN /\ IsPrefix(given, Body(answer)) /\ IsPrefix(d.headers, answer.header)
       /\ d.done /\ ~d.closed =>
             /\ d.headers = answer.header
             /\ given = IF lost THEN <<>> ELSE Body(answer)
             /\ d.keep => lost \/ unread = <<>> \/ answer.trailer # <<>>
       /\ known /\ unread = <<>> => d.done /\ ~d.error
       /\ d.error => d.closed /\ ~d.keep /\ unread # <<>>

\* Every answer ends.
AnswerEnds == d.done
=============================================================================
