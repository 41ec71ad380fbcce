----------------------------- MODULE BodySender -----------------------------
(***************************************************************************)
(* How the proxy sends a body to its client: SendBodyData() puts each piece*)
(* through the filters, the StreamFilters that replace words of a page,    *)
(* and through the compressor, and marks the end.  The pieces are those in *)
(* which the body came, so that a word may be cut anywhere; a filter holds *)
(* back what could be the beginning of one.                                *)
(*                                                                         *)
(* Words are short here and keep what matters of the real ones: the longest*)
(* is more than a unit longer than "</html>", and what replaces that one   *)
(* and "<head>" contains it, but for "<head>" so far from the end that it  *)
(* is not held back.  The compressor is zlib's: it gives out what it has   *)
(* when it likes, and all of it and a tail at the end.                     *)
(***************************************************************************)
EXTENDS Integers, Sequences, SequencesExt

CONSTANTS Texts,    \* the bodies
          Setups    \* the filters of a body, and whether it is compressed

Replacing == [ \* PopupBlocker and ResizeBlocker
    popup  |-> << [search |-> <<"<", "head">>,
                   rep    |-> <<"<", "head", "script", "script", "script">>],
                  [search |-> <<"w", "open", "(", "\"">>,
                   rep    |-> <<"_", "w", "_open", "(", "\"">>],
                  [search |-> <<"</", "html">>,
                   rep    |-> <<"loaded", "</", "html">>] >>,
    resize |-> << [search |-> <<".", "resize", "(">>,
                   rep    |-> <<".", "scroll", "(">>],
                  [search |-> <<".", "move">>,
                   rep    |-> <<".", "scroll", "(">>] >>]

\* A text with a NUL is one to the functions for strings up to it.
BodySenderAssumption ==
    \A s \in Setups : \A i \in DOMAIN s.filters : s.filters[i] \in DOMAIN Replacing

VARIABLES text,     \* what is to be sent, of it what is left,
          left,
          setup,
          filters,  \* the Data of each filter
          held,     \* what the compressor holds
          wire,     \* what the client is sent; "0" is the chunk that ends it
          ended

vars == <<text, left, setup, filters, held, wire, ended>>

Init ==
    /\ text \in Texts /\ left = text /\ setup \in Setups
    /\ filters = [i \in DOMAIN setup.filters |-> <<>>]
    /\ held = <<>> /\ wire = <<>> /\ ended = FALSE

From(s, n) == SubSeq(s, n, Len(s))

-----------------------------------------------------------------------------
\* Filters.

Occurs(s, t) ==
    {i \in 1..(Len(t) - Len(s) + 1) : SubSeq(t, i, i + Len(s) - 1) = s}

RECURSIVE ReplaceWords(_, _, _)
ReplaceWords(t, search, rep) ==
    LET i == CHOOSE i \in Occurs(search, t) : \A j \in Occurs(search, t) : i <= j
    IN IF Occurs(search, t) = {} THEN t
       ELSE SubSeq(t, 1, i - 1) \o rep
            \o ReplaceWords(From(t, i + Len(search)), search, rep)

\* What follows a NUL goes if a word before it is replaced.
Replace(t, r) ==
    LET n == SelectInSeq(t, LAMBDA u : u = "NUL")
        s == IF n = 0 THEN t ELSE SubSeq(t, 1, n - 1)
    IN IF Occurs(r.search, s) = {} THEN t
       ELSE ReplaceWords(s, r.search, r.rep)

\* Wrong: holds nothing back.
FindNoPrefix(t, r) == Len(t)

\* The loop ends, at the latest, with what cannot be a whole word: that much
\* is held back whatever it is.
FindPrefix(t, r) == LET n == Len(t) - Len(r.search) + 1 IN IF n < 0 THEN 0 ELSE n

\* Process(): each word is replaced in what those before have left, and what
\* is ready is the least that any of them allows at its time.
RECURSIVE Process(_, _)
Process(t, words) ==
    IF words = <<>> THEN [data |-> t, ready |-> Len(t)]
    ELSE LET u    == Replace(t, Head(words))
             n    == FindPrefix(u, Head(words))
             rest == Process(u, Tail(words))
         IN [rest EXCEPT !.ready = IF n < @ THEN n ELSE @]

\* Filter(), GetSize() and Clean(): what one filter gives, and keeps.
Filtered(data, kind, piece, eof) ==
    LET p == IF piece = <<>> THEN [data |-> data, ready |-> 0]
             ELSE Process(data \o piece, Replacing[kind])
        n == IF eof THEN Len(p.data) ELSE p.ready
    IN [give |-> SubSeq(p.data, 1, n), keep |-> From(p.data, n + 1)]

\* All of them, the i-th and those after it, until one has nothing to give.
RECURSIVE Filters(_, _, _, _)
Filters(fs, i, piece, eof) ==
    IF i > Len(fs) \/ (i > 1 /\ piece = <<>> /\ ~eof)
    THEN [fs |-> fs, give |-> piece]
    ELSE LET f == Filtered(fs[i], setup.filters[i], piece, eof)
         IN Filters([fs EXCEPT ![i] = f.keep], i + 1, f.give, eof)

-----------------------------------------------------------------------------
\* What the compressor gives and keeps; no data is the end.
Compress(h, piece) ==
    IF piece = <<>> THEN {[give |-> Append(h, "tail"), keep |-> <<>>]}
    ELSE LET all == h \o piece
         IN {[give |-> SubSeq(all, 1, n), keep |-> From(all, n + 1)]
             : n \in 0..Len(all)}

Codec(h, piece) ==
    IF setup.zip THEN Compress(h, piece) ELSE {[give |-> piece, keep |-> h]}

Chunk(units) ==
    IF setup.is11 /\ units = <<>> THEN <<"0">> ELSE units

\* SendBodyData(), the results it may have.  At the end what the filters have
\* held back goes first, as if it were not the end, but for the compressor's
\* chunk at the end.
RECURSIVE SendBodyData(_, _, _)
SendBodyData(x, piece, eof) ==
    LET Sent(f, c) ==
            [fs |-> f.fs, held |-> c.keep,
             wire |-> IF f.give # <<>> /\ c.give = <<>> THEN x.wire
                      ELSE x.wire \o Chunk(c.give)
                           \o (IF setup.zip /\ setup.is11 /\ eof THEN <<"0">>
                               ELSE <<>>)]
        Sends(f) == {Sent(f, c) : c \in Codec(x.held, f.give)}
    IN UNION {IF f.give = <<>> /\ ~eof THEN {[x EXCEPT !.fs = f.fs]}
              ELSE IF f.give # <<>> /\ eof
              THEN UNION {SendBodyData(y, <<>>, TRUE) : y \in Sends(f)}
              ELSE Sends(f)
              : f \in {Filters(x.fs, 1, piece, eof)}}

Become(x) == filters' = x.fs /\ held' = x.held /\ wire' = x.wire
Now == [fs |-> filters, held |-> held, wire |-> wire]

SendPiece ==
    /\ \E n \in 1..Len(left) :
          /\ left' = From(left, n + 1)
          /\ \E x \in SendBodyData(Now, SubSeq(left, 1, n), FALSE) : Become(x)
    /\ UNCHANGED <<text, setup, ended>>

SendEnd ==
    /\ left = <<>> /\ ~ended
    /\ \E x \in SendBodyData(Now, <<>>, TRUE) : Become(x)
    /\ ended' = TRUE
    /\ UNCHANGED <<text, left, setup>>

Next == SendPiece \/ SendEnd

-----------------------------------------------------------------------------
RECURSIVE Whole(_, _)
Whole(t, kinds) ==
    IF kinds = <<>> THEN t
    ELSE Whole(Process(t, Replacing[Head(kinds)]).data, Tail(kinds))

Without(t, units) == SelectSeq(t, LAMBDA u : u \notin units)

\* The client gets the body that the filters make of all of it at once,
\* however it was cut, but for what replaces "</html>", which is held back and
\* then replaced again; and it gets one end, after all of it, but for a body
\* that is both filtered and compressed, where what the filters hold back may
\* come between two ends.
ChunksWellFormed ==
    LET marks == {"0", "tail"}
        units == Without(wire, marks)
        again == IF Contains(setup.filters, "popup") THEN {"loaded"} ELSE {}
        mixed == setup.zip /\ setup.filters # <<>>
    IN /\ ended /\ ~Contains(text, "NUL") =>
             Without(units, again) = Without(Whole(text, setup.filters), again)
       /\ ~mixed => \A i \in DOMAIN wire :
             /\ wire[i] = "0" => ended /\ i = Len(wire)
             /\ wire[i] = "tail" => ended /\ i >= Len(wire) - 1
       /\ ended => /\ setup.is11 => Last(wire) = "0"
                   /\ setup.zip  => Contains(wire, "tail")
=============================================================================
