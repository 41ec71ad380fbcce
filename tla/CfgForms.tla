------------------------------ MODULE CfgForms ------------------------------
(***************************************************************************)
(* The pages of mod_cfg (cfgdata.cpp, pagemaker.cpp, option_*.cpp) and the *)
(* permissions of acl.cpp: one list of the settings - the items of a list  *)
(* option, the users, or the modules - that an administrator sees on a     *)
(* page and changes with its buttons, while another one does the same on   *)
(* pages of their own, and SIGHUP reads the file again.                    *)
(*                                                                         *)
(* An entry is a key of Registry with one value: the field of an item, the *)
(* one permission of a user, whether a module is enabled.  A name is a     *)
(* sequence of letters; what a form sends is a function of its arguments.  *)
(***************************************************************************)
EXTENDS Naturals, Sequences, FiniteSets, SequencesExt

CONSTANTS Names,     \* what administrators call entries, the empty name included
          MaxForms   \* bounds the forms sent

CfgFormsAssumption == <<>> \in Names /\ MaxForms \in Nat

VARIABLE frm

Keys == INSTANCE Registry
            WITH Trees <- {}, Paths <- {}, Texts <- {}, MaxDepth <- 1, MaxLoads <- 0, MaxOps <- 0,
                 reg <- frm

List == <<"l">>
Path(name) == <<Keys!Root, List, name>>

Yes == <<"1">>
No  == <<"0">>
Absent == <<>>       \* a key without the value
Default == <<"d">>   \* what a page has in its place

\* The settings with the entries "list", none of them open.
Settings(list) ==
    [tree |-> <<[path |-> <<>>, val |-> <<>>], [path |-> <<List>>, val |-> <<>>]>>
              \o [i \in 1..Len(list) |-> [path |-> <<List, list[i].name>>, val |-> list[i].val]],
     gen |-> 0, cur |-> <<>>, stack |-> <<>>, open |-> <<>>, leaked |-> FALSE, crash |-> FALSE]

Row(name, val) == [name |-> name, val |-> val]

\* EnumKeys()
Entries(tree) ==
    LET keys == SelectSeq(tree, LAMBDA n : Len(n.path) = 2)
    IN [i \in 1..Len(keys) |-> Row(keys[i].path[2], keys[i].val)]
Contents(tree) == ToSet(Entries(tree))
NamesIn(tree)  == {row.name : row \in Contents(tree)}

Value(cfg, path) == cfg.tree[CHOOSE i \in 1..Len(cfg.tree) : cfg.tree[i].path = path].val

-----------------------------------------------------------------------------
\* What pages show.

\* OpenKey() and GetString() or GetInteger()
Get(cfg, path) ==
    LET found == Keys!FindKey(cfg, path)
    IN IF found = <<>> THEN Absent ELSE Value(cfg, found[1])

\* StringOption::GetValue() opens the key without the last letter of its name, and
\* the list for an item that has none yet.
GetValue(cfg, name) ==
    LET val == IF name = <<>> THEN Absent ELSE Get(cfg, Path(Front(name)))
    IN IF val = Absent THEN Default ELSE val

UserPermission(cfg, user) == Get(cfg, Path(user)) = Yes

Page(kind, name, cfg) == [kind |-> kind, name |-> name, of |-> cfg.tree]
NoPage == [kind |-> "none", name |-> <<>>, of |-> <<>>]

-----------------------------------------------------------------------------
\* The forms: the address, the arguments, and what it is for, "put" a value or "drop".

Form(url, args, does, name, val) ==
    [url |-> url, args |-> args, does |-> does, name |-> name, val |-> val]

Opposite(val) == IF val = Yes THEN No ELSE Yes

\* ListOption::AddListRow(), BuildAclPage() and BuildModsPage()
RowForms(list, row) ==
    CASE list = "items" ->
           {Form("listitem/del", [item |-> row.name], "drop", row.name, Absent)}
      [] list = "users" ->
           {Form("acl/user/del", [user |-> row.name], "drop", row.name, Absent)}
      [] list = "mods" ->
           {Form("deletemod", [mod |-> row.name], "drop", row.name, Absent),
            Form(IF row.val = No THEN "enablemod" ELSE "disablemod", [mod |-> row.name],
                 "put", row.name, IF row.val = No THEN Yes ELSE No)}

\* The form below the list.  A new item is saved on the page of an item.
AddForms(list, names) ==
    CASE list = "items" -> {}
      [] list = "users" -> {Form("acl/user/add", [user |-> n], "add", n, Absent) : n \in names}
      [] list = "mods"  -> {Form("addmod", [name |-> n, enabled |-> on], "put", n, on)
                            : n \in names, on \in {Yes, No}}

\* BuildListItemPage() and BuildAclUserPage(): the name of an item can be typed if it
\* has none, and a permission has its buttons if the user has it.
ItemForms(list, name, cfg) ==
    CASE list = "items" ->
           {Form("listitem", [key |-> n, field |-> val], "put", n, val)
            : n \in IF name = <<>> THEN Names ELSE {name}, val \in {Yes, No, GetValue(cfg, name)}}
      [] list = "users" ->
           {Form("acl/user/perm/add", [user |-> name, grant |-> on], "put", name, on) : on \in {Yes, No}}
           \cup (IF Get(cfg, Path(name)) = Absent THEN {}
                 ELSE {Form("acl/user/perm/toggle", [user |-> name], "put", name,
                            Opposite(Get(cfg, Path(name)))),
                       Form("acl/user/perm/remove", [user |-> name], "put", name, Absent)})
      [] list = "mods" -> {}

\* The buttons of a page, as it was when it was made.
Forms(list, page) ==
    LET cfg == [Settings(<<>>) EXCEPT !.tree = page.of]
    IN CASE page.kind = "none" -> {}
         [] page.kind = "list" ->
              AddForms(list, Names)
              \cup UNION {RowForms(list, row) : row \in Contents(page.of)}
         [] page.kind = "item" -> ItemForms(list, page.name, cfg)

-----------------------------------------------------------------------------
\* What a form does.

DecodeArg(form, arg) == IF arg \in DOMAIN form.args THEN form.args[arg] ELSE <<>>

Op(op, name, val) == [op |-> op, name |-> name, val |-> val]

\* ProcessRequest(), and what each handler reads: a key to delete, to make, or to make and
\* set the value of.
Request(cfg, form) ==
    LET arg(name) == DecodeArg(form, name)
        toggled   == IF UserPermission(cfg, arg("user")) THEN No ELSE Yes
    IN CASE form.url = "listitem/del"         -> Op("delete", arg("key"), Absent)
         [] form.url = "listitem"             -> Op("set", arg("key"), arg("field"))
         [] form.url = "acl/user/del"         -> Op("delete", arg("user"), Absent)
         [] form.url = "acl/user/add"         -> Op("make", arg("user"), Absent)
         [] form.url = "acl/user/perm/add"    -> Op("set", arg("user"), arg("grant"))
         [] form.url = "acl/user/perm/toggle" -> Op("set", arg("user"), toggled)
         [] form.url = "acl/user/perm/remove" -> Op("set", arg("user"), Absent)
         [] form.url = "deletemod"            -> Op("delete", arg("mod"), Absent)
         [] form.url = "addmod"               -> Op("set", arg("name"), arg("enabled"))
         [] form.url = "enablemod"            -> Op("set", arg("mod"), Yes)
         [] form.url = "disablemod"           -> Op("set", arg("mod"), No)

\* OpenKey(), SetString() or SetInteger(), and CloseKey(), if there is a key.
Close(cfg, opened, o) ==
    IF opened = cfg THEN cfg
    ELSE Keys!CloseKey(IF o.op = "set" THEN Keys!SetString(opened, o.val) ELSE opened)

\* The settings that the request leaves: a set of one.
Done(cfg, o) ==
    IF o.op = "delete" THEN {Keys!DeleteKey(cfg, Path(o.name))}
    ELSE {Close(cfg, opened, o) : opened \in {Keys!OpenKey(cfg, Path(o.name), TRUE)}}

\* The page of the item or the user that was changed, or the list.
Answer(cfg, form) ==
    CASE form.url = "listitem"               -> Page("item", DecodeArg(form, "key"), cfg)
      [] form.url \in {"acl/user/perm/add", "acl/user/perm/toggle", "acl/user/perm/remove"} ->
           Page("item", DecodeArg(form, "user"), cfg)
      [] OTHER                               -> Page("list", <<>>, cfg)

-----------------------------------------------------------------------------

NoForm == Form("", [item |-> <<>>], "none", <<>>, Absent)
Nothing == [form |-> NoForm, before |-> <<>>]

\* Lists as they may be in the file.
Lists ==
    LET names == {<<>>} \cup {<<n>> : n \in Names \ {<<>>}}
                 \cup {p \in (Names \ {<<>>}) \X (Names \ {<<>>}) : p[1] # p[2]}
    IN {[i \in 1..Len(l) |-> Row(l[i], Yes)] : l \in names}

Init ==
    \E list \in {"items", "users", "mods"}, l \in Lists :
        frm = [list |-> list, cfg |-> Settings(l), file |-> Settings(l).tree, page |-> NoPage,
               last |-> Nothing, sent |-> 0]

\* A link to a list, or to an item of the list that is shown.
Go ==
    \E page \in {Page("list", <<>>, frm.cfg)}
                \cup (IF frm.page.kind # "list" \/ frm.list = "mods" THEN {}
                      ELSE {Page("item", n, frm.cfg) : n \in NamesIn(frm.page.of)}
                           \cup (IF frm.list = "items" THEN {Page("item", <<>>, frm.cfg)} ELSE {})) :
        frm' = [frm EXCEPT !.page = page, !.last = Nothing]

Did(form, cfg, page) ==
    frm' = [frm EXCEPT !.cfg = cfg, !.page = page, !.sent = @ + 1,
                       !.last = [form |-> form, before |-> frm.cfg.tree]]

\* The button of a page.
Send ==
    /\ frm.sent < MaxForms
    /\ \E form \in Forms(frm.list, frm.page) : \E o \in {Request(frm.cfg, form)} :
       \E cfg \in Done(frm.cfg, o) : Did(form, cfg, Answer(cfg, form))

\* Somebody else, on a page that is new.
OtherSends ==
    /\ frm.sent < MaxForms
    /\ \E page \in {Page("list", <<>>, frm.cfg)}
                   \cup {Page("item", n, frm.cfg) : n \in NamesIn(frm.cfg.tree)} :
       \E form \in Forms(frm.list, page) : \E o \in {Request(frm.cfg, form)} :
       \E cfg \in Done(frm.cfg, o) : Did(form, cfg, frm.page)

\* ProcessRequest(), "apply": what is saved is loaded.
Apply == frm' = [frm EXCEPT !.file = frm.cfg.tree, !.last = Nothing]

\* SIGHUP: what was not saved is gone.
Reload == frm' = [frm EXCEPT !.cfg.tree = frm.file, !.last = Nothing]

Next == Go \/ Send \/ OtherSends \/ Apply \/ Reload

-----------------------------------------------------------------------------
\* What is to become of the list.
Wanted(form, tree) ==
    LET others == {row \in Contents(tree) : row.name # form.name}
    IN CASE form.does = "drop" -> others
         [] form.does = "put"  -> others \cup {Row(form.name, form.val)}
         [] form.does = "add"  -> IF form.name \in NamesIn(tree) THEN Contents(tree)
                                  ELSE others \cup {Row(form.name, Absent)}

\* The first entry that begins with these letters is not the one of the name.
Mistaken(tree, letters, name) ==
    LET i == Keys!Child(tree, <<List>>, letters)
    IN i # 0 /\ tree[i].path[2] # name

\* The value that the form is to change is no more what the page says.
Stale(form, tree) ==
    form.url = "acl/user/perm/toggle" /\ Row(form.name, Opposite(form.val)) \notin Contents(tree)

\* cfgdata.cpp, ProcessRequest(), and pagemaker.cpp: a form does what its button says to
\* the entry it is about, also when another administrator changed the list since, but
\* for a name that another begins with, an empty one, the button that deletes an item
\* (which sends the name as an argument nobody reads), and a permission toggled twice.
FormsRight ==
    LET form   == frm.last.form
        before == frm.last.before
    IN frm.last # Nothing =>
         \/ Contents(frm.cfg.tree) = Wanted(form, before)
         \/ form.name = <<>> \/ Mistaken(before, form.name, form.name) \/ Stale(form, before)
         \/ form.url = "listitem/del"

\* Whatever is sent, one entry changes at most, and each has a name of its own.
OneEntry ==
    LET before == Contents(frm.last.before)
        after  == Contents(frm.cfg.tree)
    IN /\ frm.last # Nothing =>
            Cardinality({row.name : row \in (before \ after) \cup (after \ before)}) <= 1
       /\ Cardinality(NamesIn(frm.cfg.tree)) = Len(frm.cfg.tree) - 2
       /\ <<>> \notin NamesIn(frm.cfg.tree)
       /\ frm.cfg.cur = <<>> /\ ~frm.cfg.crash

\* option_string.cpp, GetValue(): the page of an item shows its value, but for another
\* that begins like it does without its last letter.
ShownRight ==
    LET page == frm.page
        cfg  == [frm.cfg EXCEPT !.tree = page.of]
    IN frm.list = "items" /\ page.kind = "item" /\ page.name \in NamesIn(page.of) =>
         \/ Row(page.name, GetValue(cfg, page.name)) \in Contents(page.of)
         \/ Get(cfg, Path(page.name)) = Absent
         \/ Mistaken(page.of, Front(page.name), page.name)

FormsSound == FormsRight /\ OneEntry /\ ShownRight
=============================================================================
