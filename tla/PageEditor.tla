----------------------------- MODULE PageEditor -----------------------------
(***************************************************************************)
(* The builder's write handlers and the undo history of one page, one      *)
(* request at a time: every action is a whole handler, its statements, its *)
(* transaction and the snapshot it ends with.                              *)
(*                                                                         *)
(* Time is the number of requests handled so far.  It is what created_at   *)
(* (now() at the start of the transaction) and the BIGSERIAL seq of a      *)
(* revision are compared by, so one counter stands for both.               *)
(***************************************************************************)
EXTENDS ElementTable

CONSTANT MaxRequests    \* bound on the requests of a behaviour

ASSUME MaxRequestsAssumption == MaxRequests \in Nat

VARIABLES
    elements,       \* the rows of the page
    created,        \* created_at of each row
    root_element,   \* pages.root_element
    revisions,      \* element_revisions of the page: a function from seq
    cursor,         \* pages.revision_cursor
    now             \* requests handled so far

vars == <<elements, created, root_element, revisions, cursor, now>>

-----------------------------------------------------------------------------
(* Revisions *)

\* jsonb_agg(... ORDER BY created_at): rows with the same created_at come in
\* whatever order the scan meets them, which an UPDATE of a row changes.
SnapshotOrders(t, c) ==
    {o \in [1..Cardinality(DOMAIN t) -> DOMAIN t] :
        /\ \A i, j \in DOMAIN o : i < j => o[i] # o[j]
        /\ \A i, j \in DOMAIN o : i < j => c[o[i]] <= c[o[j]]}

\* A slip: snapshot_page without the DELETE of the redo branch.
SnapshotKeepsRedo ==
    LET seq == now + 1
    IN  \E o \in SnapshotOrders(elements', created') :
            /\ revisions' = [s \in DOMAIN revisions \cup {seq} |->
                                IF s = seq THEN [rows |-> elements', order |-> o]
                                ELSE revisions[s]]
            /\ cursor' = seq

\* snapshot_page, run after the edit: drop the redo branch, append a
\* revision of the new rows, point the cursor at it.
SnapshotPage ==
    LET seq  == now + 1
        kept == {s \in DOMAIN revisions : s <= cursor}
    IN  \E o \in SnapshotOrders(elements', created') :
            /\ revisions' = [s \in kept \cup {seq} |->
                                IF s = seq THEN [rows |-> elements', order |-> o]
                                ELSE revisions[s]]
            /\ cursor' = seq

\* The rows of a revision are re-inserted in their stored order, and each
\* INSERT checks the foreign keys of its row at once.
Restorable(r) ==
    \A i \in DOMAIN r.order :
        LET row == r.rows[r.order[i]]
        IN  {row.parent, row.prev} \subseteq {NoElem} \cup {r.order[j] : j \in 1..i}

\* The seq that step() moves to, none if there is nothing to step to.
UndoTargets ==
    {s \in DOMAIN revisions :
        s < cursor /\ \A u \in DOMAIN revisions : u < cursor => u <= s}

RedoTargets ==
    {s \in DOMAIN revisions :
        s > cursor /\ \A u \in DOMAIN revisions : u > cursor => u >= s}

-----------------------------------------------------------------------------
(* Shared parts of the handlers *)

Tick ==
    /\ now < MaxRequests
    /\ now' = now + 1

\* New ids are random uuids: never those of a row, living or remembered.
Unused ==
    Elem \ (DOMAIN elements \cup UNION {DOMAIN revisions[s].rows : s \in DOMAIN revisions})

StampNew(n) ==
    created' = [x \in DOMAIN created \cup {n} |-> IF x = n THEN now + 1 ELSE created[x]]

-----------------------------------------------------------------------------
(* Handlers *)

\* A new row at (p, q).  Only a #text row comes with content.
NewRows(p, q, tag) ==
    [parent : {p}, prev : {q}, tag : {tag},
     data : IF tag = TextTag THEN Data ELSE {Blank}]

\* post_add_element: append under p, or at the top level.  Leaf parents are
\* refused.  A page without a root_element takes a new top-level row as one.
AddElement(p, tag, n) ==
    /\ Tick
    /\ p # NoElem => p \in DOMAIN elements /\ elements[p].tag \notin LeafTag
    /\ \E q \in IF LastSiblings(elements, p) = {} THEN {NoElem}
                ELSE LastSiblings(elements, p) :
           \E r \in NewRows(p, q, tag) : elements' = Inserted(elements, n, r)
    /\ StampNew(n)
    /\ root_element' = IF p = NoElem /\ root_element = NoElem THEN n ELSE root_element
    /\ SnapshotPage

\* add_sibling with Position::After.
AddAfter(e, tag, n) ==
    /\ Tick
    /\ e \in DOMAIN elements
    /\ \E r \in NewRows(elements[e].parent, e, tag) :
           elements' = Inserted(elements, n, r)
    /\ StampNew(n)
    /\ UNCHANGED root_element
    /\ SnapshotPage

\* add_sibling with Position::Before: after the insert, a second UPDATE
\* points e at the new row.
AddBefore(e, tag, n) ==
    /\ Tick
    /\ e \in DOMAIN elements
    /\ \E r \in NewRows(elements[e].parent, elements[e].prev, tag) :
           elements' = SetPrev(Inserted(elements, n, r), {e}, n)
    /\ StampNew(n)
    /\ UNCHANGED root_element
    /\ SnapshotPage

\* post_duplicate_element: a copy of the row, without children, after it.
DuplicateElement(e, n) ==
    /\ Tick
    /\ e \in DOMAIN elements
    /\ elements' = Inserted(elements, n, [elements[e] EXCEPT !.prev = e])
    /\ StampNew(n)
    /\ UNCHANGED root_element
    /\ SnapshotPage

\* post_wrap_element.
WrapElement(e, tag, n) ==
    /\ Tick
    /\ e \in DOMAIN elements
    /\ tag # TextTag
    /\ elements' = Wrapped(elements, e, elements[e].parent, elements[e].prev, n, tag)
    /\ StampNew(n)
    /\ root_element' = IF e = root_element THEN n ELSE root_element
    /\ SnapshotPage

\* A slip: the handler and the foreign key leave pages.root_element alone.
DeleteElementKeepsRoot(e) ==
    /\ Tick
    /\ elements' = Deleted(elements, e)
    /\ created' = [x \in DOMAIN elements' |-> created[x]]
    /\ UNCHANGED root_element
    /\ SnapshotPage

\* post_delete_element: also of an id that is gone, which still snapshots.
\* pages.root_element is cleared by the handler, or by its foreign key when
\* the cascade takes the row it names.
DeleteElement(e) ==
    /\ Tick
    /\ elements' = Deleted(elements, e)
    /\ created' = [x \in DOMAIN elements' |-> created[x]]
    /\ root_element' = IF root_element \in DOMAIN elements' THEN root_element ELSE NoElem
    /\ SnapshotPage

\* post_move_element: the tree view sends a parent and the sibling that is
\* left of the drop.
MoveElement(e, p, q) ==
    /\ Tick
    /\ e \in DOMAIN elements
    /\ WalkAvoids(elements, p, e)
    /\ q \in (ChildrenOf(elements, p) \ {e}) \cup {NoElem}
    /\ elements' = Moved(elements, e, elements[e].parent, elements[e].prev, p, q)
    /\ UNCHANGED <<created, root_element>>
    /\ SnapshotPage

\* patch_element: a tag, or attributes and text.
PatchElement(e, tag, d) ==
    /\ Tick
    /\ e \in DOMAIN elements
    /\ elements' = [elements EXCEPT ![e].tag = tag, ![e].data = d]
    /\ UNCHANGED <<created, root_element>>
    /\ SnapshotPage

\* post_update_element: the text of a #text row.  No snapshot.
UpdateText(e, d) ==
    /\ Tick
    /\ e \in DOMAIN elements
    /\ elements[e].tag = TextTag
    /\ elements' = [elements EXCEPT ![e].data = d]
    /\ UNCHANGED <<created, root_element, revisions, cursor>>

\* A slip: step() that does not move the cursor.
StepToKeepsCursor(s) ==
    /\ Tick
    /\ Restorable(revisions[s])
    /\ elements' = revisions[s].rows
    /\ created' = [x \in DOMAIN elements' |-> now + 1]
    /\ root_element' = NoElem
    /\ UNCHANGED <<cursor, revisions>>

\* step(): DELETE every row of the page (its root_element key goes NULL with
\* them), re-INSERT those of the target, move the cursor.  A failed INSERT
\* rolls the transaction back.
StepTo(s) ==
    /\ Tick
    /\ Restorable(revisions[s])
    /\ elements' = revisions[s].rows
    /\ created' = [x \in DOMAIN elements' |-> now + 1]
    /\ root_element' = NoElem
    /\ cursor' = s
    /\ UNCHANGED revisions

StepFails(s) ==
    /\ ~Restorable(revisions[s])
    /\ UNCHANGED vars

Step(s) == StepTo(s) \/ StepFails(s)

Undo == \E s \in UndoTargets : Step(s)

Redo == \E s \in RedoTargets : Step(s)

-----------------------------------------------------------------------------

\* create_page: the page, its root row and the baseline revision.
Init ==
    \E r \in Elem, tag \in Tag \ LeafTag :
        LET t == [x \in {r} |-> [parent |-> NoElem, prev |-> NoElem,
                                 tag |-> tag, data |-> Blank]]
        IN  /\ elements = t
            /\ created = [x \in {r} |-> 0]
            /\ root_element = r
            /\ revisions = [s \in {0} |-> [rows |-> t, order |-> <<r>>]]
            /\ cursor = 0
            /\ now = 0

Next ==
    \/ \E p \in Ref, tag \in Tag, n \in Unused : AddElement(p, tag, n)
    \/ \E e \in Elem, tag \in Tag, n \in Unused : AddAfter(e, tag, n)
    \/ \E e \in Elem, tag \in Tag, n \in Unused : AddBefore(e, tag, n)
    \/ \E e \in Elem, n \in Unused : DuplicateElement(e, n)
    \/ \E e \in Elem, tag \in Tag, n \in Unused : WrapElement(e, tag, n)
    \/ \E e \in Elem : DeleteElement(e)
    \/ \E e \in Elem, p, q \in Ref : MoveElement(e, p, q)
    \/ \E e \in Elem, tag \in Tag, d \in Data : PatchElement(e, tag, d)
    \/ \E e \in Elem, d \in Data : UpdateText(e, d)
    \/ Undo
    \/ Redo

Spec == Init /\ [][Next]_vars

-----------------------------------------------------------------------------
(* Properties *)

TypeOK ==
    /\ IsTable(elements)
    /\ created \in [DOMAIN elements -> Nat]
    /\ root_element \in DOMAIN elements \cup {NoElem}
    /\ DOMAIN revisions \subseteq 0..now
    /\ \A s \in DOMAIN revisions : IsTable(revisions[s].rows)
    /\ cursor \in DOMAIN revisions
    /\ now \in Nat

\* Whatever the user does, and wherever undo and redo take the page, its rows
\* are one forest whose sibling lists are complete: from_db_rows renders every
\* row, in one order, and never falls back on its salvage path.
PageIsSound == SoundTable(elements)

\* The revision that revision_cursor names has the structure and the tags of
\* the page: what undo and redo count from is what the user sees.  (Text is
\* left out: post_update_element changes it without a snapshot.)
Shape(t) ==
    [x \in DOMAIN t |->
        [parent |-> t[x].parent, prev |-> t[x].prev, tag |-> t[x].tag]]

CursorShowsPage == Shape(elements) = Shape(revisions[cursor].rows)

\* "the page row holds a `revision_cursor` pointing at the current state"
\* (revisions.rs), text and attributes included.
CursorIsCurrentState == elements = revisions[cursor].rows

\* "Steps the cursor and replaces the page's elements from the target
\* revision's snapshot" (revisions.rs): the snapshot that the next undo or redo
\* goes to can be replayed row by row.
StepTargetsReplay ==
    \A s \in UndoTargets \cup RedoTargets : Restorable(revisions[s])

=============================================================================
