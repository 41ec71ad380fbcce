--------------------------------- MODULE Url ---------------------------------
(***************************************************************************)
(* mod_http/url.cpp: a URL is taken apart, and put together again.  A text *)
(* is a sequence of letters, numbers and marks.                            *)
(***************************************************************************)
EXTENDS Naturals, Sequences, SequencesExt

CONSTANT Digits  \* the letters that are numbers

\* strchr(), 0 if there is none.
Position(text, mark) == SelectInSeq(text, LAMBDA t : t = mark)
UpTo(text, n)  == IF n = 0 THEN text ELSE SubSeq(text, 1, n - 1)
After(text, n) == SubSeq(text, n + 1, Len(text))

\* atoi(), where <<>> is 0.
Number(text) == IF text # <<>> /\ text[1] \in Digits THEN <<text[1]>> ELSE <<>>

\* Decode(): a scheme is what is before the first ":" that "//" follows.
Decode(string) ==
    LET colon == Position(string, ":")
        names == colon > 0 /\ IsPrefix(<<"/", "/">>, After(string, colon))
        text  == IF names THEN After(string, colon + 2) ELSE string
        slash == Position(text, "/")
        at    == Position(UpTo(text, slash), "@")
        user  == UpTo(text, at)
        pwd   == Position(user, ":")
        host  == After(UpTo(text, slash), at)
        port  == Position(host, ":")
    IN [scheme   |-> IF names THEN UpTo(string, colon) ELSE <<>>,
        user     |-> IF at = 0 THEN <<>> ELSE UpTo(user, pwd),
        password |-> IF at = 0 \/ pwd = 0 THEN <<>> ELSE After(user, pwd),
        host     |-> UpTo(host, port),
        port     |-> IF port = 0 THEN <<"80">> ELSE Number(After(host, port)),
        rest     |-> <<"/">> \o (IF slash = 0 THEN <<>> ELSE After(text, slash))]

\* "mark text", or nothing.
Marked(mark, text) == IF text = <<>> THEN <<>> ELSE mark \o text

\* Encode()
Encode(url) ==
    IF url.host = <<>> THEN url.rest
    ELSE (IF url.scheme = <<>> THEN <<>> ELSE url.scheme \o <<":", "/", "/">>)
         \o (IF url.user = <<>> THEN <<>>
             ELSE url.user \o Marked(<<":">>, url.password) \o <<"@">>)
         \o url.host \o Marked(<<":">>, url.port) \o url.rest
=============================================================================
