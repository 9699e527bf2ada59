---------------------------- MODULE ElementTable ----------------------------
(***************************************************************************)
(* The `elements` table of one page, and the SQL the program runs on it.   *)
(*                                                                         *)
(* A table is a function from the ids of the rows it holds to rows.  A row *)
(* names its parent and its left sibling: the two foreign keys of the      *)
(* schema (parent_id ON DELETE CASCADE, prev_sibling ON DELETE SET NULL).  *)
(* Every operator here is one statement, or the statements of one          *)
(* transaction, as a function from table to table.  The columns that no    *)
(* structural rule reads (attrs and payload) are the one field `data`.     *)
(***************************************************************************)
EXTENDS Integers, FiniteSets, Sequences

CONSTANTS
    Elem,       \* element ids (uuids)
    NoElem,     \* SQL NULL in parent_id, prev_sibling and pages.root_element
    Tag,        \* tag names of the whitelist that the model tells apart
    TextTag,    \* "#text"
    LeafTag,    \* the tags of ElementTag::is_leaf
    Data,       \* values of attrs + payload
    Blank       \* the attrs and payload of a new row

ASSUME ElementTableAssumption ==
    /\ NoElem \notin Elem
    /\ TextTag \in LeafTag
    /\ Blank \in Data

Ref == Elem \cup {NoElem}

Row == [parent : Ref, prev : Ref, tag : Tag, data : Data]

IsTable(t) == DOMAIN t \subseteq Elem /\ t \in [DOMAIN t -> Row]

-----------------------------------------------------------------------------
(* Statements *)

\* The rows a WHERE clause selects by (parent_id, prev_sibling), both
\* compared with IS NOT DISTINCT FROM: NULL matches NULL.
At(t, p, q) == {x \in DOMAIN t : t[x].parent = p /\ t[x].prev = q}

InsertRow(t, n, r) == [x \in DOMAIN t \cup {n} |-> IF x = n THEN r ELSE t[x]]

SetPrev(t, S, q) ==
    [x \in DOMAIN t |-> IF x \in S THEN [t[x] EXCEPT !.prev = q] ELSE t[x]]

SetPosition(t, e, p, q) ==
    [x \in DOMAIN t |->
        IF x = e THEN [t[x] EXCEPT !.parent = p, !.prev = q] ELSE t[x]]

\* e and everything below it: what the cascade over parent_id deletes.
Subtree(t, e) ==
    {x \in DOMAIN t :
        \A S \in SUBSET DOMAIN t :
            /\ e \in S
            /\ \A y \in DOMAIN t : t[y].parent \in S => y \in S
            => x \in S}

\* DELETE of the rows S, S closed under the cascade; prev_sibling keys that
\* referenced a deleted row become NULL.
DeleteRows(t, S) ==
    [x \in DOMAIN t \ S |->
        IF t[x].prev \in S THEN [t[x] EXCEPT !.prev = NoElem] ELSE t[x]]

-----------------------------------------------------------------------------
(* A slip that PageIsSound is known to catch *)

\* post_move_element without its first UPDATE.
MovedNoClose(t, e, op, oq, p, q) ==
    SetPosition(SetPrev(t, At(t, p, q) \ {e}, e), e, p, q)

-----------------------------------------------------------------------------
(* Transactions of the write handlers *)

\* insert_element: the new row n goes in at (parent, prev) of r, and the row
\* that was there is relinked behind it.
Inserted(t, n, r) ==
    LET u == InsertRow(t, n, r)
    IN  SetPrev(u, At(u, r.parent, r.prev) \ {n}, n)

\* delete_element: the followers of e bypass it, then e goes, and with it
\* its subtree.  Deleting an id that is not there does nothing.
Deleted(t, e) ==
    IF e \in DOMAIN t
    THEN LET u == SetPrev(t, At(t, t[e].parent, e), t[e].prev)
         IN  DeleteRows(u, Subtree(u, e))
    ELSE t

\* post_wrap_element: a wrapper n is inserted at the position (p, q) that was
\* read for e, the followers of e now follow n, and e becomes n's only child.
Wrapped(t, e, p, q, n, tag) ==
    LET u == InsertRow(t, n, [parent |-> p, prev |-> q, tag |-> tag, data |-> Blank])
        v == SetPrev(u, At(u, p, e) \ {n}, n)
    IN  SetPosition(v, e, n, NoElem)

\* post_move_element: close the hole at the position (op, oq) that was read
\* for e, open one at (p, q), and put e there.
Moved(t, e, op, oq, p, q) ==
    LET u == SetPrev(t, At(t, op, e) \ {e}, oq)
        v == SetPrev(u, At(u, p, q) \ {e}, e)
    IN  SetPosition(v, e, p, q)

-----------------------------------------------------------------------------
(* Queries *)

ChildrenOf(t, p) == {x \in DOMAIN t : t[x].parent = p}

\* The "no successor exists" query of post_add_element.
LastSiblings(t, p) ==
    {x \in ChildrenOf(t, p) : At(t, p, x) = {}}

\* The walk of post_move_element from the new parent p to the top meets
\* neither e nor a missing row: some set of rows holds p, is closed under
\* parent_id and does not hold e.
WalkAvoids(t, p, e) ==
    \E A \in SUBSET (DOMAIN t \ {e}) :
        /\ p \in A \cup {NoElem}
        /\ \A x \in A : t[x].parent \in A \cup {NoElem}

\* The list in which order_siblings puts the children of p when their chain
\* is sound: it starts with the one without a left sibling, and every other
\* one comes right behind its left sibling.
Ordered(t, p) ==
    LET C == ChildrenOf(t, p)
    IN  CHOOSE s \in [1..Cardinality(C) -> C] :
            \A i \in DOMAIN s : t[s[i]].prev = IF i = 1 THEN NoElem ELSE s[i - 1]

-----------------------------------------------------------------------------
(* What makes a table a page *)

\* Every foreign key names a row of the table.
KeysResolve(t) ==
    \A x \in DOMAIN t : {t[x].parent, t[x].prev} \subseteq DOMAIN t \cup {NoElem}

\* No cycle over parent_id: every non-empty set of rows has one whose parent
\* is outside it.  This is what from_db_rows needs to reach every row.
Forest(t) ==
    \A S \in SUBSET DOMAIN t : S # {} => \E x \in S : t[x].parent \notin S

\* A left sibling has the same parent and at most one right sibling, at most
\* one child of a parent has no left sibling, and no chain runs in a circle:
\* under every parent the siblings form one list.
SiblingsShareParent(t) ==
    \A x \in DOMAIN t :
        t[x].prev # NoElem => t[x].prev \in ChildrenOf(t, t[x].parent)

ChainsDoNotFork(t) ==
    \A x, y \in DOMAIN t :
        (t[x].parent = t[y].parent /\ t[x].prev = t[y].prev) => x = y

ChainsEnd(t) ==
    \A S \in SUBSET DOMAIN t : S # {} => \E x \in S : t[x].prev \notin S

SoundTable(t) ==
    /\ KeysResolve(t)
    /\ Forest(t)
    /\ SiblingsShareParent(t)
    /\ ChainsDoNotFork(t)
    /\ ChainsEnd(t)
=============================================================================
