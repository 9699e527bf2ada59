-------------------------- MODULE ConcurrentEditor --------------------------
(***************************************************************************)
(* The builder's write handlers when requests on one page overlap: every   *)
(* statement outside a transaction is a step of its own, a snapshot is     *)
(* taken by later statements than the edit it records, and a request may   *)
(* be cut off at any await.  PageEditor has the same handlers one request  *)
(* at a time.                                                              *)
(*                                                                         *)
(* A transaction is the reads it starts with and one step for its writes.  *)
(* Postgres runs it read-committed, so the writes of two transactions may  *)
(* also mingle; but then each commits after the other's first read, and    *)
(* nothing is claimed of the rows of a page when that has happened.        *)
(***************************************************************************)
EXTENDS ElementTable

CONSTANTS
    Request,            \* slots for requests in flight
    Attr, Words,        \* attributes and texts: the members of a row's data
    Scenes              \* what may happen: records [menu, budget, cuts, page]

ASSUME ConcurrentEditorAssumption ==
    /\ Data = SUBSET (Attr \cup Words)
    /\ Blank = {}
    /\ "div" \in Tag

VARIABLES
    elements, root_element,
    revisions, cursor,  \* element_revisions, a function from seq to rows; pages.revision_cursor
    last_seq,           \* the BIGSERIAL of element_revisions
    call,               \* the requests in flight
    menu, budget,       \* the requests that may come, and how many more
    cuts,               \* how many more may be cut off
    behind,     \* history: requests that write from what has changed since they read it
    tangled,    \* history: such a request has written to the rows
    owed,       \* history: the last edit may not have been recorded
    kept,       \* history: attributes set by a patch and touched by nothing since
    smeared     \* history: rows with two patches at once

editorVars == <<elements, root_element, revisions, cursor, last_seq, call, menu, budget, cuts,
                behind, tangled, owed, kept, smeared>>

page == <<elements, root_element>>

history == <<revisions, cursor, last_seq, tangled, owed, kept, smeared>>

\* Between a read and the write that relies on it.  The tree view, that a move
\* is chosen in, is a read too.
Reading ==
    {"insert", "relink", "wrap", "walk", "move", "delete",
     "snapshot_cursor", "snapshot_write", "step"}

Relies(c) == c.pc \in Reading \/ (c.pc = "read_target" /\ c.op = "move")

\* Between an edit and the revision that records it.
Recording == {"relink", "set_root", "snapshot", "snapshot_cursor", "snapshot_write"}

-----------------------------------------------------------------------------
(* Requests, as the builder sends them *)

NoRequest == [op |-> "none", pc |-> "none"]

Request0(op, pc, e, p, q, arg) ==
    [op |-> op, pc |-> pc, e |-> e, p |-> p, q |-> q, arg |-> arg,
     root |-> NoElem, n |-> NoElem, from |-> <<NoElem, NoElem>>, data |-> Blank,
     rows |-> [x \in {} |-> 0], seq |-> 0]

Add(p, tag)      == Request0("add", "read_last", NoElem, p, NoElem, tag)
AddAfter(e)      == Request0("after", "read_target", e, NoElem, NoElem, "div")
AddBefore(e)     == Request0("before", "read_target", e, NoElem, NoElem, "div")
Duplicate(e)     == Request0("duplicate", "read_target", e, NoElem, NoElem, "")
Wrap(e)          == Request0("wrap", "read_target", e, NoElem, NoElem, "div")
Delete(e)        == Request0("delete", "clear_root", e, NoElem, NoElem, "")
Move(e, p, q)    == Request0("move", "read_target", e, p, q, "")
SetAttr(e, a)    == Request0("set_attr", "read_attrs", e, NoElem, NoElem, a)
ClearAttr(e, a)  == Request0("clear_attr", "read_attrs", e, NoElem, NoElem, a)
Retag(e, tag)    == Request0("retag", "patch", e, NoElem, NoElem, tag)
Text(e, w)       == Request0("text", "read_tag", e, NoElem, NoElem, w)
Undo             == Request0("undo", "read_cursor", NoElem, NoElem, NoElem, "")
Redo             == Request0("redo", "read_cursor", NoElem, NoElem, NoElem, "")

Requests ==
    {Undo, Redo}
    \cup {Add(p, tag) : p \in Ref, tag \in Tag} \cup {Retag(e, tag) : e \in Elem, tag \in Tag}
    \cup {AddAfter(e) : e \in Elem} \cup {AddBefore(e) : e \in Elem}
    \cup {Duplicate(e) : e \in Elem} \cup {Wrap(e) : e \in Elem} \cup {Delete(e) : e \in Elem}
    \cup {Move(e, p, q) : e \in Elem, p \in Ref, q \in Ref}
    \cup {SetAttr(e, a) : e \in Elem, a \in Attr} \cup {ClearAttr(e, a) : e \in Elem, a \in Attr}
    \cup {Text(e, w) : e \in Elem, w \in Words}

\* Scenes begin with a page and a history that edits one at a time lead to
\* (PageEditor): sound tables, and a cursor that names one of them.
ASSUME ScenesAssumption ==
    \A scene \in Scenes :
        LET past == scene.page.revisions
        IN  /\ scene.menu \subseteq Requests
            /\ scene.page.last \in Nat /\ DOMAIN past \subseteq 1..scene.page.last
            /\ scene.page.cursor \in DOMAIN past
            /\ scene.page.root \in DOMAIN past[scene.page.cursor] \cup {NoElem}
            /\ \A s \in DOMAIN past : IsTable(past[s]) /\ SoundTable(past[s])

\* An edit that is made and not yet recorded: which one it was no longer matters.
Unrecorded == Request0("edit", "snapshot", NoElem, NoElem, NoElem, "")

Reached(r, pc) == call[r].pc = pc

End(r) == call' = [call EXCEPT ![r] = NoRequest]

\* A tree view is drawn from the rows of one moment: what it drops, and where,
\* is there when the user looks.
Shown(c) ==
    c.op = "move" =>
        /\ {c.e, c.p} \subseteq DOMAIN elements \cup {NoElem}
        /\ c.q \in (ChildrenOf(elements, c.p) \ {c.e}) \cup {NoElem}

\* The page row is read first, with its root_element.  Slots are alike:
\* the first free one is taken.
Begin(r) ==
    /\ call[r] = NoRequest /\ r = CHOOSE q \in Request : call[q] = NoRequest
    /\ budget > 0
    /\ budget' = budget - 1
    /\ \E c \in menu :
           Shown(c) /\ call' = [call EXCEPT ![r] = [c EXCEPT !.root = root_element]]
    /\ UNCHANGED <<page, history, cuts>>

-----------------------------------------------------------------------------
(* Reads *)

\* r goes on as c, and nothing else changes.
Continue(r, c) ==
    /\ call' = [call EXCEPT ![r] = c]
    /\ UNCHANGED <<page, history>>

\* post_add_element: a leaf is refused as a parent, one that is gone is not;
\* then the last sibling, if any.
ReadLast(r) ==
    /\ Reached(r, "read_last")
    /\ LET c == call[r]
           leaf == c.p \in DOMAIN elements /\ elements[c.p].tag \in LeafTag
       IN  \/ leaf /\ Continue(r, NoRequest)
           \/ /\ ~leaf
              /\ \E q \in IF LastSiblings(elements, c.p) = {} THEN {NoElem}
                          ELSE LastSiblings(elements, c.p) :
                     Continue(r, [c EXCEPT !.q = q, !.pc = "insert"])

\* Where the target is, and what: 404 if it is gone.
ReadTarget(r) ==
    /\ Reached(r, "read_target")
    /\ LET c == call[r]
       IN  \/ c.e \notin DOMAIN elements /\ Continue(r, NoRequest)
           \/ /\ c.e \in DOMAIN elements
              /\ LET row == elements[c.e]
                     at  == [c EXCEPT !.p = row.parent, !.q = row.prev]
                 IN  Continue(r,
                        CASE c.op = "after"  -> [at EXCEPT !.q = c.e, !.pc = "insert"]
                          [] c.op = "before" -> [at EXCEPT !.pc = "insert"]
                          [] c.op = "wrap"   -> [at EXCEPT !.pc = "wrap"]
                          [] c.op = "duplicate" ->
                                 [at EXCEPT !.q = c.e, !.arg = row.tag, !.data = row.data,
                                            !.pc = "insert"]
                          [] c.op = "move" ->
                                 [c EXCEPT !.from = <<row.parent, row.prev>>, !.n = c.p,
                                           !.pc = "walk"])

\* A slip: a row that is gone is read again.
WalkRetries(r) ==
    /\ Reached(r, "walk")
    /\ LET c == call[r]
       IN  \/ c.n = NoElem /\ Continue(r, [c EXCEPT !.pc = "move"])
           \/ c.n = c.e /\ Continue(r, NoRequest)
           \/ /\ c.n \notin {c.e, NoElem}
              /\ Continue(r, IF c.n \in DOMAIN elements
                             THEN [c EXCEPT !.n = elements[c.n].parent] ELSE c)

\* One row of the walk from the new parent to the top: it must not meet the
\* element, and a row that is gone is a 404.
Walk(r) ==
    /\ Reached(r, "walk")
    /\ LET c == call[r]
       IN  \/ c.n = NoElem /\ Continue(r, [c EXCEPT !.pc = "move"])
           \/ c.n # NoElem /\ (c.n = c.e \/ c.n \notin DOMAIN elements) /\ Continue(r, NoRequest)
           \/ /\ c.n \in DOMAIN elements \ {c.e}
              /\ Continue(r, [c EXCEPT !.n = elements[c.n].parent])

\* delete_element, its SELECT; of a row that is gone nothing is deleted.
ReadDeleted(r) ==
    /\ Reached(r, "read_deleted")
    /\ LET c == call[r]
       IN  Continue(r, IF c.e \in DOMAIN elements
                       THEN [c EXCEPT !.p = elements[c.e].parent, !.q = elements[c.e].prev,
                                      !.pc = "delete"]
                       ELSE Unrecorded)

\* patch_element reads the attributes it will merge with; 404 if there is no row.
ReadAttrs(r) ==
    /\ Reached(r, "read_attrs")
    /\ LET c == call[r]
       IN  Continue(r, IF c.e \in DOMAIN elements
                       THEN [c EXCEPT !.data = elements[c.e].data \cap Attr, !.pc = "patch"]
                       ELSE NoRequest)

\* post_update_element: only #text rows.
ReadTag(r) ==
    /\ Reached(r, "read_tag")
    /\ LET c == call[r]
       IN  Continue(r, IF c.e \in DOMAIN elements /\ elements[c.e].tag = TextTag
                       THEN [c EXCEPT !.pc = "patch"] ELSE NoRequest)

-----------------------------------------------------------------------------
(* Writes *)

\* A slip: a schema without the foreign keys.
AnyAccepted(t) == TRUE

\* No foreign key names a row that is not there.
Accepted(t) == KeysResolve(t)

\* Ids are random uuids: no row, revision or request has it.
FreshIds ==
    {n \in Elem :
        /\ n \notin DOMAIN elements
        /\ \A s \in DOMAIN revisions : n \notin DOMAIN revisions[s]
        /\ \A r \in Request : call[r] # NoRequest =>
               n \notin {call[r].p, call[r].n} \cup DOMAIN call[r].rows}

NewId == CHOOSE n \in FreshIds : TRUE

Shape(t) == [x \in DOMAIN t |-> <<t[x].parent, t[x].prev>>]

\* r writes the rows t, and pages.root_element, and goes on as c; or a foreign
\* key refuses it, and the transaction and the request end.
Write(r, t, root, c) ==
    /\ IF Accepted(t)
       THEN /\ elements' = t
            /\ root_element' = IF root \in DOMAIN t THEN root ELSE NoElem
            /\ call' = [call EXCEPT ![r] = c]
            /\ tangled' = (tangled \/ (r \in behind /\ Shape(t) # Shape(elements)))
            /\ kept' = {k \in kept : k[1] \in DOMAIN t}
       ELSE End(r) /\ UNCHANGED <<page, tangled, kept>>
    /\ UNCHANGED <<revisions, cursor, last_seq, owed, smeared>>

\* insert_element.
InsertElement(r) ==
    /\ Reached(r, "insert") /\ FreshIds # {}
    /\ LET c == call[r]
           n == NewId
       IN  Write(r,
                 Inserted(elements, n, [parent |-> c.p, prev |-> c.q, tag |-> c.arg,
                                        data |-> c.data]),
                 root_element,
                 CASE c.op = "before" -> [c EXCEPT !.n = n, !.pc = "relink"]
                   [] c.op = "add" /\ c.p = NoElem /\ c.root = NoElem ->
                          [c EXCEPT !.n = n, !.pc = "set_root"]
                   [] OTHER -> Unrecorded)

\* add_sibling, its second UPDATE, with Position::Before.
RelinkTarget(r) ==
    /\ Reached(r, "relink")
    /\ Write(r, SetPrev(elements, {call[r].e} \cap DOMAIN elements, call[r].n), root_element,
             Unrecorded)

\* post_add_element on a page that had no root_element; refused if the new row
\* is gone again.
SetRoot(r) ==
    /\ Reached(r, "set_root")
    /\ IF call[r].n \in DOMAIN elements
       THEN Write(r, elements, call[r].n, Unrecorded)
       ELSE Continue(r, NoRequest)

WrapElement(r) ==
    /\ Reached(r, "wrap") /\ FreshIds # {}
    /\ LET c == call[r]
           n == NewId
       IN  Write(r, Wrapped(elements, c.e, c.p, c.q, n, c.arg),
                 IF c.e = c.root THEN n ELSE root_element, Unrecorded)

\* post_delete_element lets go of the root first.
ClearRoot(r) ==
    /\ Reached(r, "clear_root")
    /\ Write(r, elements, IF call[r].e = call[r].root THEN NoElem ELSE root_element,
             [call[r] EXCEPT !.pc = "read_deleted"])

\* A slip: the gap is left to ON DELETE SET NULL.
DeletesOnly(r) ==
    /\ Reached(r, "delete")
    /\ LET c == call[r]
       IN  Write(r, IF c.e \in DOMAIN elements
                    THEN DeleteRows(elements, Subtree(elements, c.e)) ELSE elements,
                 root_element, Unrecorded)

\* delete_element, from its UPDATE: it bypasses the row where the SELECT found it.
DeleteElement(r) ==
    /\ Reached(r, "delete")
    /\ LET c == call[r]
           bypassed == SetPrev(elements, At(elements, c.p, c.e), c.q)
       IN  Write(r, IF c.e \in DOMAIN elements
                    THEN DeleteRows(bypassed, Subtree(bypassed, c.e)) ELSE bypassed,
                 root_element, Unrecorded)

MoveElement(r) ==
    /\ Reached(r, "move")
    /\ LET c == call[r]
       IN  Write(r, Moved(elements, c.e, c.from[1], c.from[2], c.p, c.q), root_element,
                 Unrecorded)

\* A slip: the attributes are replaced by the one that was set.
PatchedAlone(c, row) ==
    IF c.op = "retag" THEN [row EXCEPT !.tag = c.arg]
    ELSE IF c.op = "text" THEN [row EXCEPT !.data = (@ \cap Attr) \cup {c.arg}]
    ELSE [row EXCEPT !.data = (@ \cap Words) \cup {c.arg}]

\* update_element: the columns that the patch has.
Patched(c, row) ==
    IF c.op = "retag" THEN [row EXCEPT !.tag = c.arg]
    ELSE IF c.op = "text" THEN [row EXCEPT !.data = (@ \cap Attr) \cup {c.arg}]
    ELSE [row EXCEPT !.data =
              (@ \cap Words) \cup IF c.op = "set_attr" THEN c.data \cup {c.arg}
                                                       ELSE c.data \ {c.arg}]

\* The text route takes no snapshot.  A row that is gone is an error.
PatchElement(r) ==
    /\ Reached(r, "patch")
    /\ LET c == call[r]
       IN  IF c.e \in DOMAIN elements
           THEN /\ elements' = [elements EXCEPT ![c.e] = Patched(c, @)]
                /\ call' = [call EXCEPT ![r] = IF c.op = "text" THEN NoRequest
                                               ELSE Unrecorded]
                /\ kept' = IF c.op = "set_attr" THEN kept \cup {<<c.e, c.arg>>}
                           ELSE kept \ {<<c.e, c.arg>>}
                /\ smeared' = IF c.op \in {"set_attr", "clear_attr"} /\ \E q \in Request \ {r} :
                                     Reached(q, "patch") /\ call[q].e = c.e
                                         /\ call[q].op \in {"set_attr", "clear_attr"}
                              THEN smeared \cup {c.e} ELSE smeared
                /\ UNCHANGED <<root_element, revisions, cursor, last_seq, tangled, owed>>
           ELSE Continue(r, NoRequest)

-----------------------------------------------------------------------------
(* Revisions *)

\* snapshot_page, a statement at a time up to the DELETE: the rows,
SnapshotRows(r) ==
    /\ Reached(r, "snapshot")
    /\ Continue(r, [call[r] EXCEPT !.rows = elements, !.pc = "snapshot_cursor"])

\* the cursor,
SnapshotCursor(r) ==
    /\ Reached(r, "snapshot_cursor")
    /\ Continue(r, [call[r] EXCEPT !.seq = cursor, !.pc = "snapshot_write"])

\* A slip: the cursor stays where it is.
SnapshotKeepsCursor(r) ==
    /\ Reached(r, "snapshot_write")
    /\ last_seq' = last_seq + 1
    /\ revisions' = [s \in {s \in DOMAIN revisions : s <= call[r].seq} \cup {last_seq'} |->
                        IF s = last_seq' THEN call[r].rows ELSE revisions[s]]
    /\ owed' = (r \in behind)
    /\ End(r)
    /\ UNCHANGED <<page, cursor, tangled, kept, smeared>>

\* and its writes: the redo branch goes, the revision comes, the cursor moves.
SnapshotWrite(r) ==
    /\ Reached(r, "snapshot_write")
    /\ last_seq' = last_seq + 1
    /\ revisions' = [s \in {s \in DOMAIN revisions : s <= call[r].seq} \cup {last_seq'} |->
                        IF s = last_seq' THEN call[r].rows ELSE revisions[s]]
    /\ cursor' = last_seq'
    /\ owed' = (r \in behind)
    /\ End(r)
    /\ UNCHANGED <<page, tangled, kept, smeared>>

\* The seqs next to c.
Targets(op, c) ==
    IF op = "undo" THEN {s \in DOMAIN revisions : s < c /\ ~\E u \in DOMAIN revisions : s < u /\ u < c}
    ELSE {s \in DOMAIN revisions : s > c /\ ~\E u \in DOMAIN revisions : s > u /\ u > c}

\* step, its reads.
StepReads(r) ==
    /\ Reached(r, "read_cursor")
    /\ LET found == Targets(call[r].op, cursor)
       IN  \/ found = {} /\ Continue(r, NoRequest)
           \/ \E s \in found :
                  Continue(r, [call[r] EXCEPT !.seq = s, !.rows = revisions[s], !.pc = "step"])

\* step, its writes.  A replay may fail on a row whose parent or left sibling
\* comes later (see PageEditor), and is rolled back.
StepWrites(r) ==
    /\ Reached(r, "step")
    /\ \/ /\ elements' = call[r].rows
          /\ root_element' = NoElem
          /\ cursor' = call[r].seq
          /\ owed' = (r \in behind)
          /\ kept' = {} /\ smeared' = {}
          /\ UNCHANGED <<revisions, last_seq, tangled>>
       \/ UNCHANGED <<page, history>>
    /\ End(r)

-----------------------------------------------------------------------------
(* The specification *)

Proceed(r) ==
    /\ \/ ReadLast(r) \/ ReadTarget(r) \/ Walk(r) \/ ReadDeleted(r) \/ ReadAttrs(r) \/ ReadTag(r)
       \/ InsertElement(r) \/ RelinkTarget(r) \/ SetRoot(r) \/ WrapElement(r)
       \/ ClearRoot(r) \/ DeleteElement(r) \/ MoveElement(r) \/ PatchElement(r)
       \/ SnapshotRows(r) \/ SnapshotCursor(r) \/ SnapshotWrite(r)
       \/ StepReads(r) \/ StepWrites(r)
    /\ UNCHANGED <<budget, cuts>>

\* The client hangs up, the database fails or the process dies, at an await.
CutOff(r) ==
    /\ call[r] # NoRequest
    /\ cuts > 0
    /\ cuts' = cuts - 1
    /\ End(r)
    /\ owed' = (owed \/ call[r].pc \in Recording)
    /\ UNCHANGED <<page, revisions, cursor, last_seq, tangled, kept, smeared, budget>>

\* Whose reading a step of r has made out of date.
Watch(r) ==
    behind' = {q \in Request :
        /\ Relies(call'[q])
        /\ \/ q \in behind /\ ~(q = r /\ elements' # elements)
           \/ q # r /\ Shape(elements') # Shape(elements)
           \/ q # r /\ call[q].pc = "step" /\ cursor' # cursor}

ConcurrentInit ==
    /\ \E scene \in Scenes :
           /\ menu = scene.menu /\ budget = scene.budget /\ cuts = scene.cuts
           /\ revisions = scene.page.revisions /\ cursor = scene.page.cursor
           /\ elements = revisions[cursor]
           /\ root_element = scene.page.root
           /\ last_seq = scene.page.last
    /\ call = [r \in Request |-> NoRequest]
    /\ behind = {} /\ tangled = FALSE /\ owed = FALSE /\ kept = {} /\ smeared = {}

ConcurrentNext ==
    \E r \in Request :
        /\ Begin(r) \/ Proceed(r) \/ CutOff(r)
        /\ Watch(r)
        /\ UNCHANGED menu

ConcurrentSpec ==
    /\ ConcurrentInit
    /\ [][ConcurrentNext]_editorVars
    /\ \A r \in Request : WF_call(Proceed(r))

-----------------------------------------------------------------------------
(* Properties *)

\* Rows have their columns, foreign keys resolve, and pages.root_element names
\* a row, whatever overlaps and wherever requests are cut off.
ConcurrentTypeOK ==
    /\ IsTable(elements) /\ KeysResolve(elements)
    /\ root_element \in DOMAIN elements \cup {NoElem}
    /\ \A s \in DOMAIN revisions : s \in 1..last_seq /\ IsTable(revisions[s])

\* The page is one forest of complete sibling lists unless a request wrote from
\* a position, a tree view or a walk that another one had changed since: a
\* request that is cut off, late with its snapshot or its second statement, or
\* overlapped by patches, does no harm to the structure.
RowsStaySound == tangled \/ SoundTable(elements)

\* When no edit is between its rows and its snapshot, the cursor names a
\* revision with the structure of the page, unless the last write of the cursor
\* was itself overtaken or cut off: one undisturbed edit, undo or redo puts
\* right whatever went before.
PageIsRecorded ==
    \/ owed \/ \E r \in Request : call[r].pc \in Recording
    \/ cursor \in DOMAIN revisions /\ Shape(elements) = Shape(revisions[cursor])

\* An attribute that was set stays in its row, through other patches, moves,
\* wraps and texts, until it is cleared, the row goes or the page is stepped;
\* but of two patches of one row at once either may lose.
PatchesStay ==
    \A k \in kept : k[2] \in elements[k[1]].data \/ k[1] \in smeared

\* Every request ends, but for a move into a page that has a circle of parents.
RequestsEndOnForests ==
    \A r \in Request : call[r] # NoRequest ~> call[r] = NoRequest \/ ~Forest(elements)

=============================================================================
