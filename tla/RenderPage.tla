----------------------------- MODULE RenderPage -----------------------------
(***************************************************************************)
(* From the rows of a page to its markup: the passes of render_public (the *)
(* canvas fragment of the builder runs the same ones), Tree::from_db_rows  *)
(* and Tree::render.  Each pass reads records as it goes, so records that  *)
(* come and go during the render are seen by some passes only.             *)
(*                                                                         *)
(* The tree of a page is an ArenaTree.  In the phase "library" that tree   *)
(* belongs to some other caller, who makes any call there is.              *)
(*                                                                         *)
(* Row ids are numbers, ordered as uuids are.  NoRow stands for NULL, and  *)
(* as a parent also for the synthetic #body that adopts the rows without   *)
(* one.  Attributes are the ones the passes read or write.                 *)
(***************************************************************************)
EXTENDS ArenaTree, SequencesExt

CONSTANTS
    Coll,               \* names of collections
    Loads,              \* pages as they may be met: rows in any order (there is
                        \* no ORDER BY), records of each collection, uuids
                        \* that new_v4 will return, and a bound on the records
                        \* added or deleted while the page is rendered
    LibraryUuid,        \* what a caller of the library passes
    LibraryContent,
    LibraryKeys         \* bound on the keys such a caller is handed

NoRow == 0
NoColl == "no collection"
Body == 0

ASSUME RenderAssumption ==
    /\ NoColl \notin Coll
    /\ Body \in Uuid
    /\ LibraryUuid \subseteq Uuid
    /\ LibraryContent \subseteq Content
    /\ {"#body", "box", "form", "input", "#text"} \subseteq Content

VARIABLES
    phase,      \* the pass that runs
    page,       \* history: the rows as they were loaded
    rows,       \* the rows the passes rewrite
    todo,       \* the pass's own list: repeaters, or indexes of bound rows
    cache,      \* coll_cache of the pass: the collections it has read
    listed,     \* history: the cache of expand_repeaters when it ended
    records,    \* the records of each collection, oldest first
    changes,    \* records that may still be added or deleted meanwhile
    supply,     \* uuids that new_v4 has yet to return
    groups,     \* ordered_children, less what the build has appended
    queue,      \* the build's queue of parents
    stack,      \* the renderer's stack: n is Open(n) and -n is Close(n)
    out         \* the markup: n opens row n (or is all of it), -n closes it

passVars == <<page, rows, todo, cache, listed, supply>>
buildVars == <<groups, queue>>
outVars == <<stack, out>>
recordVars == <<records, changes>>
vars == <<arenaVars, phase, passVars, buildVars, outVars, recordVars>>

-----------------------------------------------------------------------------
(* Rows *)

\* What a text or an attribute shows: nothing, a literal, a token still to be
\* filled ({{key}} of a field each record has or none has, or {{coll.field}}),
\* or the value of a record, by the pass that put it there.
Piece == [say : {"none", "plain", "key", "badkey", "ref", "empty",
                 "byKey", "byRef", "byBind"},
          coll : Coll \cup {NoColl}, of : Int]

Nothing == [say |-> "none", coll |-> NoColl, of |-> 0]
Value(pass, c, r) == [say |-> pass, coll |-> c, of |-> r]

Row == [id : Nat, parent : Nat, prev : Nat,
        tag : {"box", "form", "input", "#text"},
        repeat : Coll \cup {NoColl},    \* data-lovely-repeat
        bind : Coll \cup {NoColl},      \* data-lovely-bind="coll.field"
        coll : Coll \cup {NoColl},      \* data-lovely-collection
        field : BOOLEAN,                \* data-lovely-field is there
        name : {"", "field", "_csrf"},  \* the name attribute
        text : Piece, value : Piece,    \* text, and any other attribute
        of : Int]                       \* history: the record of a clone

IdsOf(rs) == {rs[i].id : i \in DOMAIN rs}

\* A text as it is stored: no pass has filled it yet.
Raw(x) ==
    /\ x.say \in {"none", "plain", "key", "badkey", "ref"}
    /\ x.say = "ref" => x.coll \in Coll

\* Uuids are never drawn twice.
ASSUME LoadsAssumption ==
    \A l \in Loads :
        /\ l.rows \in Seq(Row) /\ l.supply \in Seq(Nat)
        /\ IdsOf(l.rows) \cup ToSet(l.supply) \subseteq Uuid \ {Body}
        /\ IdsOf(l.rows) \cap ToSet(l.supply) = {}
        /\ \A i, j \in DOMAIN l.rows : l.rows[i].id = l.rows[j].id => i = j
        /\ IsInjective(l.supply)
        /\ \A i \in DOMAIN l.rows : Raw(l.rows[i].text) /\ Raw(l.rows[i].value)
        /\ l.records \in [Coll -> Seq(Int)] /\ l.changes \in Nat

\* No row that is stored refers to a uuid still to be drawn: parent_id and
\* prev_sibling are foreign keys.
ASSUME LinksAssumption ==
    \A l \in Loads : \A i \in DOMAIN l.rows :
        {l.rows[i].parent, l.rows[i].prev} \cap ToSet(l.supply) = {}

\* The members of a sequence that are in S, in their order.
Only(s, S) ==
    LET kept[k \in 0..Len(s)] ==
            IF k = 0 THEN <<>>
            ELSE IF s[k] \in S THEN Append(kept[k - 1], s[k]) ELSE kept[k - 1]
    IN  kept[Len(s)]

Under(rs, p) == Only(rs, {r \in ToSet(rs) : r.parent = p})

\* A slip: the template without its descendants.
SubtreeShallow(rs, top) == {top}

\* collect_subtree's ids: again and again the rows whose parent is included.
Subtree(rs, top) ==
    LET grown[k \in 0..Len(rs)] ==
            IF k = 0 THEN {top}
            ELSE LET S == grown[k - 1]
                 IN  S \cup {r.id : r \in {x \in ToSet(rs) : x.parent \in S}}
    IN  grown[Len(rs)]

\* The rows a walk over parent meets from id, id included.
Ancestry(rs, id) ==
    LET grown[k \in 0..Len(rs)] ==
            IF k = 0 THEN {id}
            ELSE LET S == grown[k - 1]
                 IN  S \cup {r.parent : r \in {x \in ToSet(rs) : x.id \in S}}
    IN  grown[Len(rs)]

\* A walk over parent from id leaves the rows: it does not run in a circle.
WalkEnds(rs, id) == ~ (Ancestry(rs, id) \subseteq IdsOf(rs))

-----------------------------------------------------------------------------
(* expand_repeaters *)

\* interpolate: {{key}} becomes the record's value, any other token nothing.
Interpolate(x, r) ==
    CASE x.say = "key" -> Value("byKey", NoColl, r)
      [] x.say \in {"badkey", "ref"} -> [Nothing EXCEPT !.say = "empty"]
      [] OTHER -> x

\* The first of the children without a left sibling.
Templates(rs, p) == Only(rs, {r \in ToSet(rs) : r.parent = p /\ r.prev = NoRow})

\* A slip: the new uuids are drawn once and serve every record.
NewUuidOnce(ids, m, c, j) == ids[j]

\* id_map: the new uuid of the j-th of the m rows in clone c.
NewUuid(ids, m, c, j) == ids[c * m + j]

\* One clone of the template per record, in record order: its rows get new
\* uuids, its root the repeater as parent and the previous clone as prev.
Clones(template, top, p, recs, ids) ==
    LET m == Len(template)
        nth(i) == (i - 1) \div m
        copied(i, x) == IF \E j \in 1..m : template[j].id = x
                        THEN NewUuid(ids, m, nth(i), CHOOSE j \in 1..m : template[j].id = x)
                        ELSE x
        rootOf(c) == NewUuid(ids, m, c, CHOOSE j \in 1..m : template[j].id = top)
    IN  [i \in 1..(m * Len(recs)) |->
            LET o == template[((i - 1) % m) + 1]
                r == recs[nth(i) + 1]
            IN  [o EXCEPT
                    !.id     = copied(i, @),
                    !.parent = IF o.id = top THEN p ELSE copied(i, @),
                    !.prev   = IF o.id # top THEN copied(i, @)
                               ELSE IF nth(i) = 0 THEN NoRow ELSE rootOf(nth(i) - 1),
                    !.text   = Interpolate(@, r),
                    !.value  = Interpolate(@, r),
                    !.of     = r]]

\* A slip: every repeater and every binding reads for itself.
ReadAgain(c) == records[c]

\* coll_cache: the first read of a collection in a pass is the one it keeps.
Read(c) == IF c \in DOMAIN cache THEN cache[c] ELSE records[c]

Cached(c) == [d \in DOMAIN cache \cup {c} |-> Read(d)]

Repeaters(rs) == Only(rs, {r \in ToSet(rs) : r.repeat # NoColl})

BoundRows(rs) ==
    Only([i \in DOMAIN rs |-> i], {i \in DOMAIN rs : rs[i].bind # NoColl})

\* One repeater: its records, then its first child as the template.  A
\* repeater without one, and one that went with another's template, is passed
\* over.
ExpandRepeater ==
    /\ phase = "repeat" /\ todo # <<>>
    /\ LET p    == Head(todo).id
           c    == Head(todo).repeat
           recs == Read(c)
       IN  /\ IF Templates(rows, p) = <<>>
              THEN UNCHANGED <<rows, supply>>
              ELSE LET top      == Head(Templates(rows, p)).id
                       gone     == Subtree(rows, top)
                       template == Only(rows, {r \in ToSet(rows) : r.id \in gone})
                       used     == Len(template) * Len(recs)
                   IN  /\ used <= Len(supply)
                       /\ rows' = Only(rows, {r \in ToSet(rows) : r.id \notin gone})
                                  \o Clones(template, top, p, recs, supply)
                       /\ supply' = SubSeq(supply, used + 1, Len(supply))
           /\ cache' = Cached(c)
    /\ todo' = Tail(todo)
    /\ UNCHANGED <<arenaVars, phase, page, listed, buildVars, outVars, recordVars>>

RepeatersDone ==
    /\ phase = "repeat" /\ todo = <<>>
    /\ phase' = "bind"
    /\ listed' = cache
    /\ cache' = <<>>
    /\ todo' = BoundRows(rows)
    /\ UNCHANGED <<arenaVars, page, rows, supply, buildVars, outVars, recordVars>>

-----------------------------------------------------------------------------
(* resolve_bindings, interpolate_collection_refs *)

\* One bound row gets the value of the first record: an input in its value
\* attribute, any other row in its text.
BindRow ==
    /\ phase = "bind" /\ todo # <<>>
    /\ LET i == Head(todo)
           c == rows[i].bind
           v == Value("byBind", c, Head(Read(c)))
       IN  /\ cache' = Cached(c)
           /\ rows' = IF Read(c) = <<>> THEN rows
                      ELSE IF rows[i].tag = "input" THEN [rows EXCEPT ![i].value = v]
                      ELSE [rows EXCEPT ![i].text = v]
    /\ todo' = Tail(todo)
    /\ UNCHANGED <<arenaVars, phase, page, listed, supply, buildVars, outVars, recordVars>>

BindingsDone ==
    /\ phase = "bind" /\ todo = <<>>
    /\ phase' = "refs"
    /\ cache' = <<>>
    /\ UNCHANGED <<arenaVars, page, rows, todo, listed, supply, buildVars, outVars, recordVars>>

\* collect_refs over all texts and attributes.
Seen == {x \in {rows[i].text : i \in DOMAIN rows} \cup {rows[i].value : i \in DOMAIN rows} :
            x.say = "ref"}

ReadRef(c) ==
    /\ phase = "refs"
    /\ c \in {x.coll : x \in Seen} \ DOMAIN cache
    /\ cache' = Cached(c)
    /\ UNCHANGED <<arenaVars, phase, page, rows, todo, listed, supply,
                   buildVars, outVars, recordVars>>

\* interpolate_named: a token whose collection has no record stays.
InterpolateNamed(x) ==
    IF x.say = "ref" /\ cache[x.coll] # <<>>
    THEN Value("byRef", x.coll, Head(cache[x.coll]))
    ELSE x

InterpolateCollectionRefs ==
    /\ phase = "refs"
    /\ {x.coll : x \in Seen} \subseteq DOMAIN cache
    /\ phase' = "wire"
    /\ rows' = [i \in DOMAIN rows |-> [rows[i] EXCEPT !.text = InterpolateNamed(@),
                                                      !.value = InterpolateNamed(@)]]
    /\ UNCHANGED <<arenaVars, page, todo, cache, listed, supply,
                   buildVars, outVars, recordVars>>

-----------------------------------------------------------------------------
(* auto_wire_forms *)

FormRows(rs) == Only(rs, {r \in ToSet(rs) : r.tag = "form" /\ r.coll # NoColl})
WiredForms(rs) == IdsOf(FormRows(rs))

InWiredForm(rs, r) == Ancestry(rs, r.parent) \cap WiredForms(rs) # {}

\* The last child of a form: the first of its rows that no row has as prev.
Tails(rs, form) ==
    Only(rs, {r \in ToSet(rs) : r.parent = form /\ \A x \in ToSet(rs) : x.prev # r.id})

\* A slip: the input goes next to the form.
CsrfBehindForm(rs, form, id) ==
    [id |-> id, parent |-> Head(Only(rs, {r \in ToSet(rs) : r.id = form})).parent,
     prev |-> form, tag |-> "input", repeat |-> NoColl, bind |-> NoColl, coll |-> NoColl,
     field |-> FALSE, name |-> "_csrf", text |-> Nothing, value |-> Nothing, of |-> 0]

CsrfInput(rs, form, id) ==
    [id |-> id, parent |-> form,
     prev |-> IF Tails(rs, form) = <<>> THEN NoRow ELSE Head(Tails(rs, form)).id,
     tag |-> "input", repeat |-> NoColl, bind |-> NoColl, coll |-> NoColl,
     field |-> FALSE, name |-> "_csrf", text |-> Nothing, value |-> Nothing, of |-> 0]

Named(rs) ==
    [i \in DOMAIN rs |-> IF rs[i].field /\ InWiredForm(rs, rs[i])
                         THEN [rs[i] EXCEPT !.name = "field"] ELSE rs[i]]

\* The walk to the nearest form of some field never ends.
WalkHangs(rs) ==
    \E r \in ToSet(rs) : r.field /\ ~ InWiredForm(rs, r) /\ ~ WalkEnds(rs, r.parent)

AutoWireForms ==
    /\ phase = "wire" /\ ~ WalkHangs(rows)
    /\ phase' = "group"
    /\ LET forms == FormRows(rows)
       IN  /\ Len(forms) <= Len(supply)
           /\ rows' = Named(rows)
                      \o [k \in DOMAIN forms |-> CsrfInput(rows, forms[k].id, supply[k])]
           /\ supply' = SubSeq(supply, Len(forms) + 1, Len(supply))
    /\ UNCHANGED <<arenaVars, page, todo, cache, listed, buildVars, outVars, recordVars>>

AutoWireHangs ==
    /\ phase = "wire" /\ WalkHangs(rows)
    /\ phase' = "hung"
    /\ UNCHANGED <<arenaVars, passVars, buildVars, outVars, recordVars>>

-----------------------------------------------------------------------------
(* Tree::from_db_rows *)

\* next_of: of the rows with one prev, the first in the input.
Following(g, prev) ==
    {i \in DOMAIN g : g[i].prev = prev /\ \A j \in 1..(i - 1) : g[j].prev # prev}

\* The chain from the head as far as it goes.
Chain(g) ==
    LET walked[k \in 0..Len(g)] ==
            IF k = 0 THEN <<>>
            ELSE LET w == walked[k - 1]
                     next == Following(g, IF w = <<>> THEN NoRow ELSE Last(w))
                 IN  IF next = {} THEN w ELSE Append(w, g[CHOOSE i \in next : TRUE].id)
    IN  walked[Len(g)]

\* A slip: what the chain does not reach is left out.
ChainOnly(g) == Chain(g)

Ascending(S) ==
    CHOOSE s \in [1..Cardinality(S) -> S] : \A i, j \in DOMAIN s : i < j => s[i] < s[j]

\* order_siblings: the chain, then the rows it does not reach, by uuid.
OrderSiblings(g) == Chain(g) \o Ascending(IdsOf(g) \ ToSet(Chain(g)))

GroupRows ==
    /\ phase = "group"
    /\ IF \E i \in DOMAIN rows : rows[i].parent \notin IdsOf(rows) \cup {Body}
       THEN /\ phase' = "failed"
            /\ UNCHANGED buildVars
       ELSE /\ phase' = "build"
            /\ groups' = [p \in IdsOf(rows) \cup {Body} |-> OrderSiblings(Under(rows, p))]
            /\ queue' = <<Body>>
    /\ UNCHANGED <<arenaVars, passVars, outVars, recordVars>>

RowOf(id) == rows[CHOOSE i \in DOMAIN rows : rows[i].id = id]

\* One append_child of the breadth-first build.
BuildNode ==
    /\ phase = "build" /\ queue # <<>>
    /\ groups[Head(queue)] # <<>>
    /\ LET p == Head(queue)
           u == Head(groups[p])
       IN  /\ AppendChild(by_uuid[p], u, RowOf(u).tag)
           /\ groups' = [groups EXCEPT ![p] = Tail(@)]
           /\ queue' = Append(queue, u)
    /\ UNCHANGED <<phase, passVars, outVars, recordVars>>

NextParent ==
    /\ phase = "build" /\ queue # <<>>
    /\ groups[Head(queue)] = <<>>
    /\ queue' = Tail(queue)
    /\ UNCHANGED <<arenaVars, phase, passVars, groups, outVars, recordVars>>

\* Rows that the build never met fail the page.
BuildDone ==
    /\ phase = "build" /\ queue = <<>>
    /\ IF DOMAIN by_uuid = IdsOf(rows) \cup {Body}
       THEN /\ phase' = "render"
            /\ stack' = <<root>>
       ELSE /\ phase' = "failed"
            /\ UNCHANGED stack
    /\ UNCHANGED <<arenaVars, passVars, buildVars, out, recordVars>>

-----------------------------------------------------------------------------
(* Tree::render *)

\* A slip: the close is pushed last, so it pops before the children.
InsideClosedFirst(n) ==
    (IF nodes[n].content = "#body" THEN <<>> ELSE <<-n>>) \o ChildList(nodes, n)

\* A slip: the children are pushed left to right, so they pop right to left.
InsideReversed(n) ==
    Reverse(ChildList(nodes, n)) \o (IF nodes[n].content = "#body" THEN <<>> ELSE <<-n>>)

\* What an opened node puts on the stack: its children left to right, then
\* its close, which #body does not have.
Inside(n) ==
    ChildList(nodes, n) \o (IF nodes[n].content = "#body" THEN <<>> ELSE <<-n>>)

\* render_iter takes one step from its stack, whose top is the head here.
RenderStep ==
    /\ phase = "render" /\ stack # <<>>
    /\ LET n    == Head(stack)
           open == IF n > 0 THEN n ELSE -n
           id   == nodes[open].uuid
       IN  CASE n < 0 ->
                    /\ out' = Append(out, -id)
                    /\ stack' = Tail(stack)
             [] n > 0 /\ nodes[n].content = "#text" ->
                    /\ out' = IF RowOf(id).text.say = "none" THEN out ELSE Append(out, id)
                    /\ stack' = Tail(stack)
             [] n > 0 /\ nodes[n].content = "input" ->
                    /\ out' = Append(out, id)
                    /\ stack' = Tail(stack)
             [] OTHER ->
                    /\ out' = IF nodes[n].content = "#body" THEN out ELSE Append(out, id)
                    /\ stack' = Inside(n) \o Tail(stack)
    /\ UNCHANGED <<arenaVars, phase, passVars, buildVars, recordVars>>

RenderDone ==
    /\ phase = "render" /\ stack = <<>>
    /\ phase' = "done"
    /\ UNCHANGED <<arenaVars, passVars, buildVars, outVars, recordVars>>

-----------------------------------------------------------------------------
(* Records come and go *)

RecordChanges ==
    /\ phase \in {"repeat", "bind", "refs"}
    /\ changes > 0
    /\ changes' = changes - 1
    /\ UNCHANGED <<arenaVars, phase, passVars, buildVars, outVars>>

\* The newest record is listed last.
AddRecord(c) ==
    /\ RecordChanges
    /\ records' = [records EXCEPT ![c] = Append(@, -changes)]

DropRecord(c, i) ==
    /\ RecordChanges
    /\ i \in DOMAIN records[c]
    /\ records' = [records EXCEPT ![c] = RemoveAt(@, i)]

-----------------------------------------------------------------------------
(* Specification *)

Idle ==
    /\ cache = <<>> /\ listed = <<>>
    /\ groups = <<>> /\ queue = <<>>
    /\ stack = <<>> /\ out = <<>>

RenderInit ==
    /\ phase = "repeat"
    /\ \E l \in Loads :
           /\ page = l.rows
           /\ records = l.records
           /\ supply = l.supply
           /\ changes = l.changes
    /\ rows = page
    /\ todo = Repeaters(rows)
    /\ NewTree(Body, "#body")
    /\ Idle

LibraryInit ==
    /\ phase = "library"
    /\ page = <<>> /\ rows = <<>> /\ todo = <<>> /\ supply = <<>>
    /\ records = [c \in Coll |-> <<>>] /\ changes = 0
    /\ \E u \in LibraryUuid : NewTree(u, "form")
    /\ Idle

Init == RenderInit \/ LibraryInit

LibraryCall ==
    /\ phase = "library"
    /\ ArenaCalls(LibraryUuid, LibraryContent)
    /\ handed' <= LibraryKeys
    /\ UNCHANGED <<phase, passVars, buildVars, outVars, recordVars>>

\* The answer is on its way, or never will be.
Answered ==
    /\ phase \in {"done", "failed", "hung"}
    /\ UNCHANGED vars

Next ==
    \/ LibraryCall
    \/ ExpandRepeater \/ RepeatersDone
    \/ BindRow \/ BindingsDone
    \/ \E c \in Coll : ReadRef(c)
    \/ InterpolateCollectionRefs
    \/ AutoWireForms \/ AutoWireHangs
    \/ GroupRows \/ BuildNode \/ NextParent \/ BuildDone
    \/ RenderStep \/ RenderDone
    \/ \E c \in Coll : AddRecord(c) \/ \E i \in DOMAIN records[c] : DropRecord(c, i)
    \/ Answered

Spec == Init /\ [][Next]_vars
-----------------------------------------------------------------------------
(* Properties *)

RenderTypeOK ==
    /\ phase \in {"library", "repeat", "bind", "refs", "wire", "group", "build",
                  "render", "done", "failed", "hung"}
    /\ ToSet(rows) \subseteq Row
    /\ Cardinality(IdsOf(rows)) = Len(rows)
    /\ IdsOf(rows) \cap ToSet(supply) = {}
    /\ \A i \in DOMAIN todo : phase = "bind" => todo[i] \in DOMAIN rows

Above(r) == Ancestry(rows, r.parent) \ {Body}

\* A row shows unless it is inside an input or a text, which show no children.
Shown(r) ==
    /\ \A id \in Above(r) : RowOf(id).tag \notin {"input", "#text"}
    /\ r.tag = "#text" => r.text.say # "none"

ShownRows == {r \in ToSet(rows) : Shown(r)}

Closes(r) == r.tag \notin {"input", "#text"}

Pos(x) == CHOOSE i \in DOMAIN out : out[i] = x

\* Every sibling list is one chain.
Sound(rs) == \A p \in IdsOf(rs) \cup {Body} : Len(Chain(Under(rs, p))) = Len(Under(rs, p))

\* Whatever the sibling links of the rows are, a page that is rendered shows
\* each row once, closes what it opens, and nests the rows as their parents
\* say (order_siblings: a corrupt chain loses and doubles nothing).
RendersEachRowOnce ==
    phase = "done" =>
        /\ Len(out) = Cardinality(ToSet(out))
        /\ ToSet(out) = {r.id : r \in ShownRows} \cup {-r.id : r \in {x \in ShownRows : Closes(x)}}
        /\ \A r, s \in ShownRows :
               r # s /\ Closes(r) =>
                   (r.id \in Above(s) <=> Pos(r.id) < Pos(s.id) /\ Pos(s.id) < Pos(-r.id))

\* On a page whose chains are whole the passes keep them whole, clones and
\* csrf inputs included, and the markup follows them: each row comes right
\* after its left sibling.  (Under a repeater, rows behind the template lose
\* their left sibling with it.)
SiblingsInOrder ==
    phase = "done" /\ Sound(page) =>
        \A r \in {x \in ShownRows : x.prev # NoRow} :
            \/ r.parent # Body /\ RowOf(r.parent).repeat # NoColl
            \/ \E s \in ToSet(rows) :
                  /\ s.id = r.prev /\ s.parent = r.parent
                  /\ Shown(s) => /\ Pos(s.id) < Pos(r.id)
                                /\ \A x \in ShownRows \ {r, s} :
                                       x.parent = r.parent =>
                                           ~ (Pos(s.id) < Pos(x.id) /\ Pos(x.id) < Pos(r.id))

\* The repeaters of a page show one reading of their collection, all of it,
\* in its order, whatever happens to the records meanwhile: two repeaters of
\* a collection never disagree (coll_cache).
RepeatersShowOneReading ==
    phase = "done" /\ Sound(page) =>
        \A p \in {r \in ShownRows : r.repeat # NoColl /\ r.of = 0} :
            Under(page, p.id) # <<>> =>
                LET clones == Only(out, {x \in ToSet(out) : /\ x > 0
                                                               /\ RowOf(x).parent = p.id
                                                               /\ RowOf(x).of # 0})
                IN  [i \in DOMAIN clones |-> RowOf(clones[i]).of] = listed[p.repeat]

Pieces == {r.text : r \in ToSet(rows)} \cup {r.value : r \in ToSet(rows)}

\* Texts filled by the same pass from the same collection show the same
\* record, and none of them stays a token while another is filled.
TextsAgree ==
    phase \in {"wire", "group", "build", "render", "done"} =>
        \A x, y \in Pieces :
            x.coll = y.coll =>
                /\ x.say = y.say /\ x.say \in {"byBind", "byRef"} => x.of = y.of
                /\ ~ (x.say = "ref" /\ y.say = "byRef")

\* Every form that submits to a collection carries one csrf input, inside the
\* form, and on a page whose chains are whole as its last child.
FormsSubmit ==
    phase = "done" =>
        \A f \in {r \in ShownRows : r.id \in WiredForms(rows)} :
            \E t \in ToSet(rows) :
                /\ t.parent = f.id /\ t.name = "_csrf"
                /\ Pos(f.id) < Pos(t.id) /\ Pos(t.id) < Pos(-f.id)
                /\ Sound(page) /\ f.repeat = NoColl =>
                       \A x \in {r \in ShownRows : r.parent = f.id} : Pos(x.id) <= Pos(t.id)
                /\ \A x \in ToSet(Under(rows, f.id)) : x.name = "_csrf" => x = t

\* Only rows that are their own ancestors, or that are below an element of
\* another page (create_element takes any element as the parent), take a page
\* render down: corrupt chains, repeaters, empty collections and records that
\* go never do.
FailsOnlyOnBadParents ==
    phase \in {"failed", "hung"} =>
        \E r \in ToSet(page) :
            ~ WalkEnds(page, r.id) \/ r.parent \notin IdsOf(page) \cup {Body}
=============================================================================
