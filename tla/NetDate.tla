------------------------------- MODULE NetDate -------------------------------
(***************************************************************************)
(* mod_http/netdate.cpp: the dates of HTTP headers, which decide whether a *)
(* page is fresh.  A text is a sequence of words, numbers and marks; the   *)
(* result are the fields of struct tm, which mktime() takes.               *)
(***************************************************************************)
EXTENDS Naturals, Sequences, SequencesExt

CONSTANT Dates  \* [wday, mday, mon, year, hour, min, sec], as gmtime() has them

NetDateAssumption ==
    Dates \subseteq [wday : 0..6, mday : 1..31, mon : 0..11, year : 70..200,
                     hour : 0..23, min : 0..59, sec : 0..60]

VARIABLE nd

Days   == <<"Sun", "Mon", "Tue", "Wed", "Thu", "Fri", "Sat">>
Months == <<"Jan", "Feb", "Mar", "Apr", "May", "Jun", "Jul", "Aug", "Sep", "Oct", "Nov", "Dec">>

Word(w) == [t |-> "word", of |-> w, n |-> 0]
Num(n)  == [t |-> "num", of |-> "", n |-> n]
Mark(m) == [t |-> "mark", of |-> m, n |-> 0]

-----------------------------------------------------------------------------
\* strtok(): what is before the next of "marks", and what is behind it.
Strtok(text, marks) ==
    LET IsMark(e) == e.t = "mark" /\ e.of \in marks
        from == SelectInSeq(text, LAMBDA e : ~IsMark(e))
        to   == SelectInSubSeq(text, from, Len(text), IsMark)
    IN IF from = 0 THEN [tok |-> <<>>, rest |-> <<>>]
       ELSE IF to = 0 THEN [tok |-> SubSeq(text, from, Len(text)), rest |-> <<>>]
       ELSE [tok |-> SubSeq(text, from, to - 1), rest |-> SubSeq(text, to + 1, Len(text))]

RECURSIVE Toks(_, _)

\* One call after the other, each with marks of its own.
Toks(text, marks) ==
    IF marks = <<>> THEN <<>>
    ELSE LET s == Strtok(text, marks[1]) IN <<s.tok>> \o Toks(s.rest, Tail(marks))

\* atoi()
Atoi(tok) ==
    LET i == SelectInSeq(tok, LAMBDA e : e # Mark(" "))
    IN IF i > 0 THEN tok[i].n ELSE 0

\* Where a name is in a table, from 0; 0 if it is not.
TableIndex(names, tok) ==
    LET i == SelectInSeq(names, LAMBDA n : tok # <<>> /\ tok[1] = Word(n))
    IN IF i = 0 THEN 0 ELSE i - 1

\* Years since 1900.
Year(n) == IF n > 1900 THEN n - 1900 ELSE IF n < 78 THEN n + 100 ELSE n

\* No date.
Now == <<>>

ParseRFC(text) ==
    LET k == Toks(text, <<{",", " "}, {" ", "-"}, {" ", "-"}, {" "}, {":"}, {":"}, {" "}>>)
    IN IF <<>> \in ToSet(k) THEN Now
       ELSE <<[wday |-> TableIndex(Days, k[1]), mday |-> Atoi(k[2]), mon |-> TableIndex(Months, k[3]),
               year |-> Year(Atoi(k[4])), hour |-> Atoi(k[5]), min |-> Atoi(k[6]), sec |-> Atoi(k[7])]>>

ParseAsctime(text) ==
    LET k == Toks(text, <<{" "}, {" "}, {" "}, {":"}, {":"}, {" "}, {" "}>>)
    IN IF <<>> \in ToSet(k) THEN Now
       ELSE <<[wday |-> TableIndex(Days, k[1]), mday |-> Atoi(k[3]), mon |-> TableIndex(Months, k[2]),
               year |-> Atoi(k[7]) - 1900, hour |-> Atoi(k[4]), min |-> Atoi(k[5]), sec |-> Atoi(k[6])]>>

\* ParseLame(): the day is looked for among the months, and the month is taken for the year.
ParseLame(text) ==
    LET k == Toks(text, <<{" "}, {" "}>>)
    IN IF Atoi(text) = 0 THEN Now
       ELSE <<[wday |-> 0, mday |-> Atoi(text), mon |-> TableIndex(Months, k[1]),
               year |-> Year(Atoi(k[2])), hour |-> 0, min |-> 0, sec |-> 0]>>

\* operator =
Parse(text) ==
    IF Mark(",") \in ToSet(text) THEN ParseRFC(text)
    ELSE IF Mark(":") \in ToSet(text) THEN ParseAsctime(text) ELSE ParseLame(text)

Time(d) == <<Num(d.hour), Mark(":"), Num(d.min), Mark(":"), Num(d.sec)>>

ToStr(d) ==
    <<Word(Days[d.wday + 1]), Mark(","), Mark(" "), Num(d.mday), Mark(" "), Word(Months[d.mon + 1]),
      Mark(" "), Num(d.year + 1900), Mark(" ")>> \o Time(d) \o <<Mark(" "), Word("GMT")>>

-----------------------------------------------------------------------------
\* What servers and browsers send; the day of RFC 850, which is written in full, is known by
\* its first letters, and its year has two digits.
Rfc850(d) ==
    <<Word(Days[d.wday + 1]), Mark(","), Mark(" "), Num(d.mday), Mark("-"), Word(Months[d.mon + 1]),
      Mark("-"), Num(d.year % 100), Mark(" ")>> \o Time(d) \o <<Mark(" "), Word("GMT")>>

Asctime(d) ==
    <<Word(Days[d.wday + 1]), Mark(" "), Word(Months[d.mon + 1]), Mark(" ")>>
    \o (IF d.mday < 10 THEN <<Mark(" ")>> ELSE <<>>)
    \o <<Num(d.mday), Mark(" ")>> \o Time(d) \o <<Mark(" "), Num(d.year + 1900)>>

Short(d) == <<Num(d.mday), Mark(" "), Word(Months[d.mon + 1]), Mark(" "), Num(d.year % 100)>>

Texts(d) == [rfc |-> ToStr(d), rfc850 |-> Rfc850(d), asctime |-> Asctime(d), short |-> Short(d)]

Blank == [sent |-> <<>>, form |-> "none", got |-> Now]

Init == nd = Blank

\* A header is read.
ReadDate ==
    /\ nd = Blank
    /\ \E d \in Dates, form \in {"rfc", "rfc850", "asctime", "short"} :
         nd' = [sent |-> <<d>>, form |-> form, got |-> Parse(Texts(d)[form])]

Next == ReadDate

-----------------------------------------------------------------------------
\* netdate.cpp, operator =: a date is read as it was meant, in each of the three forms of HTTP,
\* and in that which the proxy itself writes; two digits are a year from 1978 to 2077.  (The
\* short form is not: it is always a day of January 2000.)
DatesExact ==
    \/ nd.form \in {"none", "short"}
    \/ nd.got = nd.sent
    \/ nd.form = "rfc850" /\ nd.sent[1].year \notin 78..177
=============================================================================
