----------------------------- MODULE GzipCodec -----------------------------
(***************************************************************************)
(* mod_http/gzipcodec.cpp: a gzip stream taken apart in the pieces in which*)
(* a server sends it, and one put together for a client.                   *)
(*                                                                         *)
(* Until the header of a stream is over, all that came of it is collected  *)
(* in TmpBuf and looked at again from its beginning with every piece.  zlib*)
(* does the rest: to it the data are the units 1, 2, ..., each the inflated*)
(* one, and "end" the end of the deflated data.                            *)
(*                                                                         *)
(* A stream: the fields its flags announce after ten bytes, of which the   *)
(* kind says whether they are those of a gzip header; the length of the    *)
(* extra field, which two bytes give; that of the name and the comment; the*)
(* data, of one member or more.                                            *)
(***************************************************************************)
EXTENDS Integers, Sequences, SequencesExt, TLC

CONSTANTS Streams,   \* [kind, flags, extra, text, members]: what servers send
          TmpSize,   \* the size of TmpBuf
          MaxPiece,  \* what is decoded at once
          CharMax,   \* the largest char, which has a sign
          LongSizes  \* sizeof( long )

Bytes == 2 * (CharMax + 1)

GzipCodecAssumption ==
    /\ \A s \in Streams : /\ s.kind \in {"gzip", "damaged", "text", "stored"}
                          /\ s.flags \subseteq {"EXTRA", "NAME", "COMMENT", "CRC"}
                          /\ s.extra \in 0..(Bytes * Bytes - 1) /\ s.text \in Nat
    /\ {CharMax, TmpSize, MaxPiece} \subseteq Nat \ {0} /\ LongSizes \subseteq {4, 8}

VARIABLE gz

-----------------------------------------------------------------------------
\* What servers send.

Repeat(unit, n) == [i \in 1..n |-> unit]

Fixed(kind) == <<IF kind = "text" THEN "t" ELSE "magic">> \o Repeat("x", 9)

\* A member's header.
Header(s) ==
    Fixed(s.kind)
    \o (IF "EXTRA" \in s.flags THEN Repeat("x", 2 + s.extra) ELSE <<>>)
    \o (IF "NAME" \in s.flags THEN Repeat("n", s.text) \o <<"NUL">> ELSE <<>>)
    \o (IF "COMMENT" \in s.flags THEN Repeat("c", s.text) \o <<"NUL">> ELSE <<>>)
    \o (IF "CRC" \in s.flags THEN <<"x", "x">> ELSE <<>>)

Member(s) ==
    Header(s)
    \o CASE s.kind = "gzip"    -> <<"1", "2", "end">> \o Repeat("x", 8)
         [] s.kind = "damaged" -> <<"1", "x", "2", "end">>
         [] OTHER              -> Repeat("t", 4)

Stream(s) == FlattenSeq(Repeat(Member(s), s.members))

Decoding(s) ==
    [does |-> "decode", stream |-> s, unread |-> Stream(s),
     tmp |-> <<>>, flags |-> {"HEADER"}, out |-> <<>>, ok |-> TRUE,
     overrun |-> FALSE]

Encoding(n) ==
    [does |-> "encode", long |-> n, unread |-> <<"1", "2", "3">>,
     held |-> <<>>, flags |-> {"INIT"}, out |-> <<>>, overrun |-> FALSE]

Init == gz \in {Decoding(s) : s \in Streams} \cup {Encoding(n) : n \in LongSizes}

-----------------------------------------------------------------------------
\* Decoding.

Drop(r, n) == IF n >= Len(r) THEN <<>> ELSE SubSeq(r, n + 1, Len(r))

\* A text, up to its NUL.
AfterText(r, there) ==
    LET n == SelectInSeq(r, LAMBDA u : u = "NUL")
    IN IF ~there THEN r ELSE IF n = 0 THEN <<>> ELSE Drop(r, n)

Char(b) == IF b > CharMax THEN b - Bytes ELSE b

\* The length of the extra field, of two chars.
ExtraLen(s) == Char(s.extra % Bytes) + Bytes * Char(s.extra \div Bytes)

\* Where its end is looked for before TmpBuf.
Before(tmp, s) == "EXTRA" \in s.flags /\ Len(tmp) > 12 /\ 12 + ExtraLen(s) < 0

AfterExtra(tmp, s) ==
    IF "EXTRA" \notin s.flags THEN Drop(tmp, 10)
    ELSE IF Len(tmp) <= 12 THEN <<>> ELSE Drop(tmp, 12 + ExtraLen(s))

\* What follows the header, nothing if it is not over.
AfterHeader(tmp, s) ==
    LET name    == AfterText(AfterExtra(tmp, s), "NAME" \in s.flags)
        comment == AfterText(name, "COMMENT" \in s.flags)
    IN IF "CRC" \in s.flags THEN Drop(comment, 2) ELSE comment

\* Whatever its length is, a header is collected, and a text that is not gzipped like one,
\* for ever.
CheckGZipHeader(g, data) ==
    LET v == [g EXCEPT !.tmp = @ \o data,
                       !.overrun = @ \/ Len(g.tmp) + Len(data) > TmpSize]
        r == AfterHeader(v.tmp, v.stream)
    IN IF Len(v.tmp) <= 10 THEN v
       ELSE IF Head(v.tmp) # "magic"
       THEN [v EXCEPT !.flags = @ \cup {"NOT_GZIPPED"}]
       ELSE IF v.stream.kind = "stored" THEN [v EXCEPT !.ok = FALSE]
       ELSE IF Before(v.tmp, v.stream) THEN [v EXCEPT !.overrun = TRUE]
       ELSE IF r = <<>> THEN v
       ELSE [v EXCEPT !.flags = @ \ {"HEADER"}, !.tmp = r]

\* zlib ignores what follows the end.  Where it finds an error, what had not come out is
\* lost, inflateSync() looks for a mark, which these streams do not have, and it takes no
\* more: the error is seen with the next piece.
Inflate(g, data) ==
    LET n     == SelectInSeq(data, LAMBDA u : u \notin {"1", "2"})
        units == IF n = 0 THEN data ELSE SubSeq(data, 1, n - 1)
        v     == [g EXCEPT !.out = @ \o units]
    IN IF "LOST" \in g.flags THEN {[g EXCEPT !.ok = FALSE]}
       ELSE IF n = 0 THEN {v}
       ELSE IF data[n] = "end" THEN {[v EXCEPT !.flags = @ \cup {"DONE"}]}
       ELSE {[g EXCEPT !.out = @ \o SubSeq(units, 1, k), !.flags = @ \cup {"LOST"}] :
                k \in 0..Len(units)}

\* What was collected behind the header goes to zlib, or else the piece.
GZipDecodeData(g, data) ==
    LET head == "HEADER" \in g.flags
        v    == IF head THEN CheckGZipHeader(g, data) ELSE g
    IN IF ~v.ok \/ v.overrun \/ v.flags \cap {"HEADER", "DONE"} # {} THEN {v}
       ELSE IF head THEN Inflate([v EXCEPT !.tmp = <<>>], v.tmp)
       ELSE Inflate(v, data)

Decode ==
    /\ gz.does = "decode" /\ gz.ok /\ ~gz.overrun
    /\ \E n \in 1..MaxPiece :
         /\ n <= Len(gz.unread)
         /\ gz' \in GZipDecodeData([gz EXCEPT !.unread = Drop(@, n)],
                                   SubSeq(gz.unread, 1, n))

-----------------------------------------------------------------------------
\* Encoding.

\* time() stores a long in a header of ten bytes.
AddGZipHeader(g) ==
    [g EXCEPT !.out = @ \o Fixed("gzip"), !.flags = {}, !.overrun = 4 + g.long > 10]

\* zlib gives out any part of what it holds, and all at the end.
Deflate(g, data) ==
    LET held == g.held \o data
        n0   == IF data = <<>> THEN Len(held) ELSE 0
    IN {[g EXCEPT !.held = Drop(held, n),
                  !.out = @ \o SubSeq(held, 1, n)
                            \o (IF data = <<>> THEN <<"end">> ELSE <<>>)]
        : n \in n0..Len(held)}

\* The trailer: the check sum and the length.
GZipEncodeData(g, data) ==
    LET v == IF "INIT" \in g.flags THEN AddGZipHeader(g) ELSE g
    IN {IF data # <<>> THEN w
        ELSE [w EXCEPT !.out = @ \o Repeat("x", 4 + w.long),
                       !.flags = @ \cup {"DONE"}] : w \in Deflate(v, data)}

Encode ==
    /\ gz.does = "encode" /\ "DONE" \notin gz.flags
    /\ \E n \in (IF gz.unread = <<>> THEN {0} ELSE 1..Len(gz.unread)) :
         gz' \in GZipEncodeData([gz EXCEPT !.unread = Drop(@, n)],
                                SubSeq(gz.unread, 1, n))

Next == Decode \/ Encode

-----------------------------------------------------------------------------
\* What a stream cannot be for the codec to get it right: two members, an extra field of
\* which a byte of the length is a negative char, or a header that TmpBuf does not hold with
\* the piece in which it ends.
TwoMembers(s) == s.members > 1
Misread(s)    == "EXTRA" \in s.flags /\ ExtraLen(s) # s.extra
TooLong(s)    == Len(Header(s)) + MaxPiece > TmpSize

\* gzipcodec.cpp, GZipDecodeData(): wherever a stream is cut, all of its data come out,
\* once, nothing behind a damage, and a kind that is not known is refused; but an extra
\* field may be misread, a text that is not gzipped never comes out, and it and a header
\* that is too long overrun TmpBuf.
DecodedExact ==
    gz.does = "decode" =>
        LET s == gz.stream
        IN /\ gz.overrun => s.kind = "text" \/ Misread(s) \/ TooLong(s)
           /\ ~gz.ok => s.kind \in {"stored", "damaged"} \/ Misread(s)
           /\ s.kind = "damaged" /\ ~Misread(s) => gz.out \in {<<>>, <<"1">>}
           /\ gz.unread = <<>> /\ s.kind = "gzip" /\ ~Misread(s) /\ ~gz.overrun =>
                gz.out = <<"1", "2">> /\ (TwoMembers(s) \/ "DONE" \in gz.flags)

\* gzipcodec.cpp, GZipEncodeData(): what is sent is a stream of one member,
\* with a trailer of eight bytes where a long has four.
EncodedExact ==
    gz.does = "encode" /\ gz.long = 4 =>
        /\ ~gz.overrun
        /\ "DONE" \in gz.flags =>
             gz.out = Fixed("gzip") \o <<"1", "2", "3", "end">> \o Repeat("x", 8)

GzipExact == DecodedExact /\ EncodedExact
=============================================================================
