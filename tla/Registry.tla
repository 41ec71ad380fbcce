------------------------------ MODULE Registry ------------------------------
(***************************************************************************)
(* prometeo/registry.cpp and regkey.cpp: the tree of the settings, which   *)
(* expat's callbacks build from the configuration file, and the calls that *)
(* open a key, change it and close it, with a stack of those open before.  *)
(*                                                                         *)
(* A name is a sequence of letters, a path one of names, and a tree its    *)
(* nodes in the order in which they were made, each with its one value.    *)
(* The file is read in blocks, which "cuts" ends.  SIGHUP loads it again   *)
(* between any two calls; pointers to an older tree have its number.       *)
(***************************************************************************)
EXTENDS Naturals, Sequences, FiniteSets, FiniteSetsExt, SequencesExt

CONSTANTS Trees,     \* what users write in the file
          Paths,     \* what is opened, and deleted
          Texts,     \* the values that are set
          MaxDepth,  \* bounds the keys open at a time
          MaxLoads,  \* bounds the loads
          MaxOps     \* bounds the changes

RegistryAssumption ==
    /\ \A t \in Trees : t # <<>> /\ t[1].path = <<>>
    /\ \A p \in Paths : p # <<>>
    /\ {MaxDepth, MaxLoads, MaxOps} \subseteq Nat

VARIABLE reg

Root == <<"r", "o", "o", "t">>

-----------------------------------------------------------------------------
\* Files.

Token(t, of) == [t |-> t, of |-> of]
Elem(t) == <<Token(t, ""), Token("end", IF t = "unnamed" THEN "Key" ELSE IF t = "novalue" THEN "Value" ELSE "Other")>>

\* RegString::Save(): a value is written as it is.
Value(text) ==
    IF text = <<>> THEN <<>>
    ELSE <<Token("value", "")>>
         \o [i \in 1..Len(text) |-> IF text[i] = "<" THEN Token("bad", "") ELSE Token("text", text[i])]
         \o <<Token("end", "Value")>>

RECURSIVE Saved(_, _)

\* RegKey::Save()
Saved(tree, node) ==
    LET sub == SelectSeq(tree, LAMBDA n : n.path # <<>> /\ Front(n.path) = node.path)
    IN <<Token("key", IF node.path = <<>> THEN Root ELSE Last(node.path))>>
       \o Value(node.val)
       \o FlattenSeq([i \in 1..Len(sub) |-> Saved(tree, sub[i])])
       \o <<Token("end", "Key")>>

Document(tree) == Saved(tree, tree[1])

\* A file: what is in it, and the tree it stands for, none if it is not valid.
Valid(tree) == [doc |-> Document(tree), means |-> <<tree>>]
Invalid(doc) == [doc |-> doc, means |-> <<>>]

\* An element that is none, in any place.
Spoilt(doc) ==
    {Invalid(SubSeq(doc, 1, n) \o Elem(t) \o SubSeq(doc, n + 1, Len(doc)))
     : n \in 1..(Len(doc) - 1), t \in {"unnamed", "novalue", "other"}}

\* A file of which only a part was written.
Cut(doc) == {Invalid(Append(SubSeq(doc, 1, n), Token("bad", ""))) : n \in 0..(Len(doc) - 1)}

Files == UNION {{Valid(t)} \cup Spoilt(Document(t)) \cup Cut(Document(t)) : t \in Trees}

-----------------------------------------------------------------------------
\* Registry::Load().  A pointer is a sequence of none or one.

Empty == <<[path |-> <<>>, val |-> <<>>]>>

Parser(text) == [tree |-> <<Empty>>, cur |-> <<>>, value |-> FALSE, text |-> text,
                 parsing |-> TRUE, over |-> FALSE]

Clear(p) == [p EXCEPT !.tree = <<>>, !.cur = <<>>, !.value = FALSE, !.parsing = FALSE]

\* A key without one around it takes the place of the tree.
StartKey(p, name) ==
    IF p.cur = <<>> THEN [p EXCEPT !.tree = <<Empty>>, !.cur = <<<<>>>>]
    ELSE LET path == Append(p.cur[1], name)
         IN [p EXCEPT !.tree[1] = Append(@, [path |-> path, val |-> <<>>]), !.cur = <<path>>]

StartElement(p, e) ==
    CASE e.t = "key"   -> StartKey(p, e.of)
      [] e.t = "value" -> [p EXCEPT !.value = p.cur # <<>>]
      [] e.t = "other" -> [p EXCEPT !.parsing = FALSE]
      [] OTHER         -> p

Parent(cur) == IF cur[1] = <<>> THEN <<>> ELSE <<Front(cur[1])>>

SetValue(tree, path, val) ==
    [i \in 1..Len(tree) |-> IF tree[i].path = path THEN [tree[i] EXCEPT !.val = val] ELSE tree[i]]

\* The text is forgotten here, and nowhere else.
EndElement(p, tag) ==
    LET v == IF p.value /\ tag = "Value"
             THEN [p EXCEPT !.tree[1] = SetValue(@, p.cur[1], p.text), !.value = FALSE]
             ELSE IF p.cur # <<>> /\ tag = "Key" THEN [p EXCEPT !.cur = Parent(@)]
             ELSE Clear(p)
    IN [v EXCEPT !.text = <<>>]

Handle(p, e) ==
    CASE e.t = "end"  -> EndElement(p, e.of)
      [] e.t = "text" -> IF p.value THEN [p EXCEPT !.text = Append(@, e.of)] ELSE p
      [] e.t = "bad"  -> [Clear(p) EXCEPT !.over = TRUE]
      [] OTHER        -> StartElement(p, e)

\* Callbacks are called to the end of a block, whatever they find.
Parse(doc, cuts, text) ==
    FoldLeft(LAMBDA p, i : IF p.over THEN p
                           ELSE LET v == Handle(p, doc[i])
                                IN [v EXCEPT !.over = @ \/ (i \in cuts /\ ~v.parsing)],
             Parser(text), [i \in 1..Len(doc) |-> i])

\* The tree there was is kept if there is no new one.
Load(v, cuts) ==
    LET p == Parse(v.file.doc, cuts, v.text)
    IN [v EXCEPT !.tree = IF p.tree = <<>> THEN @ ELSE p.tree[1],
                 !.gen = IF p.tree = <<>> THEN @ ELSE @ + 1,
                 !.cur = <<>>, !.text = p.text,
                 !.last = [file |-> v.file, cuts |-> cuts, before |-> v.tree, text |-> v.text]]

-----------------------------------------------------------------------------
\* Keys.

\* The first child whose name begins with the one that is looked for.
Child(tree, path, name) ==
    SelectInSeq(tree, LAMBDA n : /\ n.path # <<>> /\ Front(n.path) = path
                                 /\ IsPrefix(name, Last(n.path)))

\* RegKey::FindKey(), from "path" down.
FindBelow(tree, path, names) ==
    FoldLeft(LAMBDA found, name :
                 IF found = <<>> THEN found
                 ELSE LET i == Child(tree, found[1], name)
                      IN IF i = 0 THEN <<>> ELSE <<tree[i].path>>,
             <<path>>, names)

Absolute(path) == path[1] = Root /\ Len(path) > 1

\* Registry::FindKey(): without an open key the first name is ignored.
FindKey(v, path) ==
    IF v.cur # <<>> /\ ~Absolute(path) THEN FindBelow(v.tree, v.cur[1].path, path)
    ELSE IF Len(path) = 1 THEN <<>>
    ELSE FindBelow(v.tree, <<>>, Tail(path))

\* The tree it points into is deleted.
Dangling(v, key) == key.gen # v.gen \/ ~\E i \in 1..Len(v.tree) : v.tree[i].path = key.path

Crash(v) == [v EXCEPT !.crash = TRUE]

\* What the names of "path" beyond the first n become, below "found".
Made(found, path, n) ==
    [i \in 1..(Len(path) - n) |-> [path |-> found \o SubSeq(path, n + 1, n + i), val |-> <<>>]]

\* OpenKey(): with "create", a key that is not there is made below the longest
\* part of the path that is, and each call within the call leaves CurrentKey on
\* the stack.
OpenKey(v, path, create) ==
    LET found(n) == FindKey(v, SubSeq(path, 1, n))
        there == {n \in (IF create /\ Last(path) # <<>> THEN 1 ELSE Len(path))..Len(path) : found(n) # <<>>}
        n     == Max(there)
        made  == Made(found(n)[1], path, n)
        key   == [gen |-> v.gen,
                  path |-> IF made = <<>> THEN found(n)[1] ELSE Last(made).path]
    IN IF v.cur # <<>> /\ ~Absolute(path) /\ Dangling(v, v.cur[1]) THEN Crash(v)
       ELSE IF there = {} THEN v
       ELSE [v EXCEPT !.tree = @ \o made,
                      !.stack = @ \o [i \in 1..(Len(made) + 1) |-> v.cur],
                      !.cur = <<key>>,
                      !.open = Append(@, [path |-> path, was |-> v.cur]),
                      !.leaked = @ \/ made # <<>>]

\* Wrong: the key that is open remains so.
CloseKeyStays(v) == [v EXCEPT !.stack = IF @ = <<>> THEN @ ELSE Front(@), !.open = Front(@)]

CloseKey(v) ==
    [v EXCEPT !.cur = IF v.stack = <<>> THEN <<>> ELSE Last(v.stack),
              !.stack = IF @ = <<>> THEN @ ELSE Front(@),
              !.open = Front(@)]

\* SetString()
SetString(v, text) ==
    IF v.cur = <<>> THEN v
    ELSE IF Dangling(v, v.cur[1]) THEN Crash(v)
    ELSE [v EXCEPT !.tree = SetValue(@, v.cur[1].path, text)]

\* DeleteKey()
DeleteKey(v, path) ==
    LET found == FindKey(v, path)
    IN IF found = <<>> THEN v
       ELSE [v EXCEPT !.tree = SelectSeq(@, LAMBDA n : ~IsPrefix(found[1], n.path))]

-----------------------------------------------------------------------------

\* Something else was done since the settings were loaded.
NoLoad == [file |-> Valid(Empty), cuts |-> {}, before |-> Empty, text |-> <<>>]

Blank(file) ==
    [file |-> file, tree |-> Empty, gen |-> 0, cur |-> <<>>, stack |-> <<>>, text |-> <<>>,
     open |-> <<>>, leaked |-> FALSE, reloaded |-> FALSE, crash |-> FALSE,
     last |-> NoLoad, loads |-> 0, ops |-> 0, changes |-> FALSE]

\* The daemon starts with a valid file.
Init == \E t \in Trees, changes \in BOOLEAN :
            reg = [Load(Blank(Valid(t)), {0}) EXCEPT !.last = NoLoad, !.changes = changes]

\* A user writes another file, and a valid one next if it was not, or else mod_cfg
\* changes keys and saves them.
Edit ==
    \E f \in Files :
        /\ reg.loads < MaxLoads /\ ~reg.changes /\ f # reg.file
        /\ f.means # <<>> \/ reg.file.means # <<>>
        /\ reg' = [reg EXCEPT !.file = f, !.last = NoLoad]

\* On SIGHUP and by mod_cfg's "apply".
Reload ==
    /\ reg.loads < MaxLoads
    /\ \E n \in 0..(Len(reg.file.doc) - 1) :
         reg' = [Load(reg, {n}) EXCEPT !.loads = @ + 1, !.reloaded = @ \/ reg.open # <<>>]

Change(v) == reg.changes /\ reg.ops < MaxOps /\ reg' = [v EXCEPT !.ops = @ + 1, !.last = NoLoad]

\* mod_cfg's "apply"; the daemon may end while the file is written.
Save ==
    \E f \in {Valid(reg.tree)} \cup Cut(Document(reg.tree)) :
        Change([reg EXCEPT !.file = f])

Open == \E p \in Paths, create \in BOOLEAN :
            Len(reg.open) < MaxDepth /\ Change(OpenKey(reg, p, create))
Close == reg.open # <<>> /\ reg' = CloseKey(reg)
Set == \E text \in Texts : reg.open # <<>> /\ Change(SetString(reg, text))
Delete == \E p \in Paths : reg.open = <<>> /\ Change(DeleteKey(reg, p))

Next == ~reg.crash /\ (Edit \/ Reload \/ Save \/ Open \/ Close \/ Set \/ Delete)

-----------------------------------------------------------------------------
\* The text of a value that a file that is not well-formed broke off is put in
\* front of the first value of the next; a "<" in a value is not escaped.
NoMarkup(tree) == \A i \in 1..Len(tree) : "<" \notin ToSet(tree[i].val)

\* registry.cpp, Load() and Save(): what a valid file says is what is loaded, also
\* one that was saved; an invalid one changes nothing, unless it is longer than a block.
LoadedAsWritten ==
    LET last == reg.last
    IN last # NoLoad /\ last.text = <<>> =>
         IF last.file.means # <<>> /\ NoMarkup(last.file.means[1])
         THEN ToSet(reg.tree) = ToSet(last.file.means[1])
         ELSE last.cuts = {0} => reg.tree = last.before

\* registry.cpp, OpenKey(): the key that is open is the one that was asked for, but for
\* another whose name begins like its.
OpensTheKey ==
    reg.open # <<>> /\ reg.cur # <<>> /\ ~reg.reloaded /\ ~reg.leaked =>
        LET names == Last(reg.open).path
            asked == IF Last(reg.open).was # <<>> /\ ~Absolute(names)
                     THEN Last(reg.open).was[1].path \o names ELSE Tail(names)
            got   == reg.cur[1].path
        IN /\ Len(got) = Len(asked)
           /\ \A i \in 1..Len(got) : IsPrefix(asked[i], got[i])
           /\ got # asked => \E i \in 1..Len(reg.tree) :
                              reg.tree[i].path = got /\ \A j \in 1..(i - 1) : reg.tree[j].path # asked

\* registry.cpp, CloseKey(): when all is closed that was opened no key is open, unless
\* one was made, or the settings were loaded, in between; without that no key is used
\* that was deleted.
Balanced ==
    /\ reg.open = <<>> => reg.leaked \/ reg.reloaded \/ (reg.cur = <<>> /\ reg.stack = <<>>)
    /\ reg.crash => reg.reloaded \/ reg.leaked

RegistrySound == LoadedAsWritten /\ OpensTheKey /\ Balanced
=============================================================================
