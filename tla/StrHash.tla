------------------------------- MODULE StrHash -------------------------------
(***************************************************************************)
(* prometeo/strhash.cpp: a hash of names, in buckets, the newest item of   *)
(* each first.  A pointer is a sequence of none or one.                    *)
(***************************************************************************)
EXTENDS Naturals, Sequences, SequencesExt

CONSTANTS Size,        \* buckets
          ComputeHash  \* [name -> bucket]

StrHashAssumption == ComputeHash \in [DOMAIN ComputeHash -> 1..Size]

NoItems == [items |-> [b \in 1..Size |-> <<>>], num |-> 0]

Find(hash, str) ==
    LET list == hash.items[ComputeHash[str]]
        n    == SelectInSeq(list, LAMBDA item : item.str = str)
    IN IF n = 0 THEN <<>> ELSE <<list[n].data>>

Add(hash, str, data) ==
    IF Find(hash, str) # <<>> THEN hash
    ELSE [hash EXCEPT !.items[ComputeHash[str]] = <<[str |-> str, data |-> data]>> \o @,
                      !.num = @ + 1]

\* Clear(): NumItems stays.
Clear(hash) == [hash EXCEPT !.items = NoItems.items]

\* GetData() from 0 to Count() - 1 reads what is behind the last bucket.
Overruns(hash) == hash.num > Len(FlattenSeq(hash.items))
=============================================================================
