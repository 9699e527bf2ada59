------------------------- MODULE PageEditor_proofs -------------------------
(***************************************************************************)
(* TypeOK, PageIsSound and CursorShowsPage hold of every behaviour of      *)
(* PageEditor, and every behaviour implements EditHistory, for any set of  *)
(* elements and any number of requests.                                    *)
(*                                                                         *)
(* None of the three invariants is inductive: undo brings back the rows of *)
(* an old revision, so those must be sound too, and a handler leaves the   *)
(* page sound only if its parents and siblings are rows.  IInv is the      *)
(* three with the soundness of every revision added.                       *)
(*                                                                         *)
(* The refinement needs one thing more.  EditHistory sees, for every row   *)
(* with children, the list of them, and PageHistory chooses that list by   *)
(* what it must be.  HInv adds to IInv that it exists, in the page and in  *)
(* every revision: each edit is shown to carry the lists it finds to the   *)
(* lists of the table it leaves.  That there is only one follows from      *)
(* PageIsSound, as a chain that does not fork can be read in one way.      *)
(***************************************************************************)
EXTENDS PageHistory, ElementTable_proofs, SequencesExt, SequenceTheorems,
        FiniteSetTheorems, WellFoundedInduction

RevisionsSound == \A s \in DOMAIN revisions : SoundTable(revisions[s].rows)

IInv == TypeOK /\ PageIsSound /\ RevisionsSound /\ CursorShowsPage

-----------------------------------------------------------------------------

LEMMA InitIInv == Init => IInv
<1> SUFFICES ASSUME Init
             PROVE  IInv
    OBVIOUS
<1>1. PICK r \in Elem, tag \in Tag \ LeafTag :
          LET t == [x \in {r} |-> [parent |-> NoElem, prev |-> NoElem,
                                   tag |-> tag, data |-> Blank]]
          IN  /\ elements = t
              /\ created = [x \in {r} |-> 0]
              /\ root_element = r
              /\ revisions = [s \in {0} |-> [rows |-> t, order |-> <<r>>]]
              /\ cursor = 0
              /\ now = 0
    BY DEF Init
<1> DEFINE row == [parent |-> NoElem, prev |-> NoElem, tag |-> tag, data |-> Blank]
<1>2. row \in Row /\ row.parent = NoElem /\ row.prev = NoElem
    BY ElementTableAssumption DEF Row, Ref
<1> HIDE DEF row
<1>3. /\ elements = [x \in {r} |-> row] /\ created = [x \in {r} |-> 0]
      /\ root_element = r /\ cursor = 0 /\ now = 0
      /\ DOMAIN revisions = {0} /\ revisions[0].rows = elements
    BY <1>1 DEF row
<1>4. IsTable(elements) /\ SoundTable(elements)
    BY <1>2, <1>3, OneRowSound
<1>5. TypeOK
    BY <1>3, <1>4 DEF TypeOK
<1>6. RevisionsSound /\ CursorShowsPage
    BY <1>3, <1>4 DEF RevisionsSound, CursorShowsPage
<1> QED
    BY <1>4, <1>5, <1>6 DEF IInv, PageIsSound

(***************************************************************************)
(* A handler that ends in a snapshot keeps IInv if what it wrote is sound: *)
(* the revisions that remain were sound, and the cursor names the new one. *)
(***************************************************************************)

LEMMA SnapshotKeepsIInv ==
    ASSUME IInv, Tick, SnapshotPage,
           IsTable(elements'), SoundTable(elements'),
           created' \in [DOMAIN elements' -> Nat],
           root_element' \in DOMAIN elements' \cup {NoElem}
    PROVE  IInv'
<1> DEFINE seq  == now + 1
           kept == {s \in DOMAIN revisions : s <= cursor}
<1>1. /\ now \in Nat /\ now' = seq /\ DOMAIN revisions \subseteq 0..now
      /\ \A s \in DOMAIN revisions : IsTable(revisions[s].rows)
    BY DEF IInv, TypeOK, Tick
<1>2. PICK o \in SnapshotOrders(elements', created') :
          /\ revisions' = [s \in kept \cup {seq} |->
                              IF s = seq THEN [rows |-> elements', order |-> o]
                              ELSE revisions[s]]
          /\ cursor' = seq
    BY DEF SnapshotPage
<1>3. /\ DOMAIN revisions' = kept \cup {seq} /\ cursor' = seq
      /\ revisions'[seq].rows = elements'
      /\ \A s \in kept : s # seq => revisions'[s].rows = revisions[s].rows
    BY <1>2
<1>4. kept \subseteq DOMAIN revisions /\ seq \notin kept
    BY <1>1
<1> HIDE DEF kept
<1>5. DOMAIN revisions' \subseteq 0..now' /\ cursor' \in DOMAIN revisions' /\ now' \in Nat
    BY <1>1, <1>3, <1>4
<1>6. \A s \in DOMAIN revisions' : IsTable(revisions'[s].rows)
    BY <1>1, <1>3, <1>4
<1>7. \A s \in DOMAIN revisions' : SoundTable(revisions'[s].rows)
    BY <1>3, <1>4 DEF IInv, RevisionsSound
<1>8. Shape(elements') = Shape(revisions'[cursor'].rows)
    BY <1>3
<1> QED
    BY <1>5, <1>6, <1>7, <1>8 DEF IInv, TypeOK, PageIsSound, RevisionsSound, CursorShowsPage

(***************************************************************************)
(* The handlers that insert a row.                                         *)
(***************************************************************************)

LEMMA StampNewType ==
    ASSUME IInv, NEW n, StampNew(n), DOMAIN elements' = DOMAIN elements \cup {n}
    PROVE  created' \in [DOMAIN elements' -> Nat]
BY DEF IInv, TypeOK, StampNew

LEMMA UnusedIsFresh ==
    ASSUME NEW n \in Unused
    PROVE  n \in Elem /\ n \notin DOMAIN elements
BY DEF Unused

LEMMA InsertKeepsIInv ==
    ASSUME IInv, Tick, SnapshotPage, NEW n \in Unused, StampNew(n), NEW r \in Row,
           r.parent \in DOMAIN elements \cup {NoElem},
           r.prev \in ChildrenOf(elements, r.parent) \cup {NoElem},
           elements' = Inserted(elements, n, r),
           root_element' \in {root_element, n}
    PROVE  IInv'
<1>1. IsTable(elements) /\ SoundTable(elements)
    BY DEF IInv, TypeOK, PageIsSound
<1>2. n \in Elem /\ n \notin DOMAIN elements
    BY UnusedIsFresh
<1>3. /\ IsTable(elements') /\ SoundTable(elements')
      /\ DOMAIN elements' = DOMAIN elements \cup {n}
    BY <1>1, <1>2, InsertedSound
<1>4. created' \in [DOMAIN elements' -> Nat]
    BY <1>3, StampNewType
<1>5. root_element' \in DOMAIN elements' \cup {NoElem}
    BY <1>3 DEF IInv, TypeOK
<1> QED
    BY <1>3, <1>4, <1>5, SnapshotKeepsIInv

LEMMA NewRowsAreRows ==
    ASSUME NEW p \in Ref, NEW q \in Ref, NEW tag \in Tag, NEW r \in NewRows(p, q, tag)
    PROVE  r \in Row /\ r.parent = p /\ r.prev = q
BY ElementTableAssumption DEF NewRows, Row

LEMMA AddElementKeepsIInv ==
    ASSUME IInv, NEW p \in Ref, NEW tag \in Tag, NEW n \in Unused, AddElement(p, tag, n)
    PROVE  IInv'
<1>1. /\ Tick /\ SnapshotPage /\ StampNew(n)
      /\ p # NoElem => p \in DOMAIN elements
      /\ root_element' \in {root_element, n}
    BY DEF AddElement
<1>2. PICK q \in IF LastSiblings(elements, p) = {} THEN {NoElem}
                 ELSE LastSiblings(elements, p) :
          \E r \in NewRows(p, q, tag) : elements' = Inserted(elements, n, r)
    BY DEF AddElement
<1>3. PICK r \in NewRows(p, q, tag) : elements' = Inserted(elements, n, r)
    BY <1>2
<1>4. q \in ChildrenOf(elements, p) \cup {NoElem}
    BY <1>2 DEF LastSiblings
<1>5. q \in Ref
    BY <1>4 DEF ChildrenOf, IInv, TypeOK, IsTable, Ref
<1>6. r \in Row /\ r.parent = p /\ r.prev = q
    BY <1>3, <1>5, NewRowsAreRows
<1> QED
    BY <1>1, <1>3, <1>4, <1>6, InsertKeepsIInv

LEMMA AddAfterKeepsIInv ==
    ASSUME IInv, NEW e \in Elem, NEW tag \in Tag, NEW n \in Unused, AddAfter(e, tag, n)
    PROVE  IInv'
<1> DEFINE p == elements[e].parent
<1>1. /\ Tick /\ e \in DOMAIN elements /\ StampNew(n) /\ SnapshotPage
      /\ root_element' = root_element
    BY DEF AddAfter
<1>2. IsTable(elements) /\ SoundTable(elements)
    BY DEF IInv, TypeOK, PageIsSound
<1>3. p \in Ref /\ e \in Ref
    BY <1>1, <1>2, RowFields DEF Ref
<1>4. PICK r \in NewRows(p, e, tag) : elements' = Inserted(elements, n, r)
    BY DEF AddAfter
<1>5. p \in DOMAIN elements \cup {NoElem} /\ e \in ChildrenOf(elements, p)
    BY <1>1, <1>2 DEF SoundTable, KeysResolve, ChildrenOf
<1> HIDE DEF p
<1>6. r \in Row /\ r.parent = p /\ r.prev = e
    BY <1>3, <1>4, NewRowsAreRows
<1> QED
    BY <1>1, <1>4, <1>5, <1>6, InsertKeepsIInv

\* The second UPDATE of add_sibling finds its work done (InsertedBefore).
LEMMA AddBeforeKeepsIInv ==
    ASSUME IInv, NEW e \in Elem, NEW tag \in Tag, NEW n \in Unused, AddBefore(e, tag, n)
    PROVE  IInv'
<1> DEFINE p == elements[e].parent
           q == elements[e].prev
<1>1. /\ Tick /\ e \in DOMAIN elements /\ StampNew(n) /\ SnapshotPage
      /\ root_element' = root_element
    BY DEF AddBefore
<1>2. IsTable(elements) /\ SoundTable(elements)
    BY DEF IInv, TypeOK, PageIsSound
<1>3. p \in Ref /\ q \in Ref
    BY <1>1, <1>2, RowFields
<1>4. PICK r \in NewRows(p, q, tag) : elements' = SetPrev(Inserted(elements, n, r), {e}, n)
    BY DEF AddBefore
<1>5. /\ p \in DOMAIN elements \cup {NoElem}
      /\ q \in ChildrenOf(elements, p) \cup {NoElem}
    BY <1>1, <1>2 DEF SoundTable, KeysResolve, SiblingsShareParent
<1>6. elements[e].parent = p /\ elements[e].prev = q
    OBVIOUS
<1> HIDE DEF p, q
<1>7. r \in Row /\ r.parent = p /\ r.prev = q
    BY <1>3, <1>4, NewRowsAreRows
<1>8. elements' = Inserted(elements, n, r)
    BY <1>1, <1>2, <1>4, <1>6, <1>7, UnusedIsFresh, InsertedBefore
<1> QED
    BY <1>1, <1>5, <1>7, <1>8, InsertKeepsIInv

LEMMA DuplicateElementKeepsIInv ==
    ASSUME IInv, NEW e \in Elem, NEW n \in Unused, DuplicateElement(e, n)
    PROVE  IInv'
<1> DEFINE r == [elements[e] EXCEPT !.prev = e]
<1>1. /\ Tick /\ e \in DOMAIN elements /\ StampNew(n) /\ SnapshotPage
      /\ elements' = Inserted(elements, n, r) /\ root_element' = root_element
    BY DEF DuplicateElement
<1>2. IsTable(elements) /\ SoundTable(elements)
    BY DEF IInv, TypeOK, PageIsSound
<1>3. elements[e] \in Row
    BY <1>1, <1>2, RowFields
<1>4. r \in Row /\ r.parent = elements[e].parent /\ r.prev = e
    BY <1>3 DEF Row, Ref
<1> HIDE DEF r
<1>5. r.parent \in DOMAIN elements \cup {NoElem}
    BY <1>1, <1>2, <1>4 DEF SoundTable, KeysResolve
<1>6. r.prev \in ChildrenOf(elements, r.parent) \cup {NoElem}
    BY <1>1, <1>4 DEF ChildrenOf
<1> QED
    BY <1>1, <1>4, <1>5, <1>6, InsertKeepsIInv

(***************************************************************************)
(* The other handlers.                                                     *)
(***************************************************************************)

LEMMA WrapElementKeepsIInv ==
    ASSUME IInv, NEW e \in Elem, NEW tag \in Tag, NEW n \in Unused,
           WrapElement(e, tag, n)
    PROVE  IInv'
<1> DEFINE p == elements[e].parent
           q == elements[e].prev
           u == Wrapped(elements, e, p, q, n, tag)
<1>1. /\ Tick /\ e \in DOMAIN elements /\ StampNew(n) /\ SnapshotPage
      /\ elements' = u
      /\ root_element' \in {root_element, n}
    BY DEF WrapElement
<1>2. IsTable(elements) /\ SoundTable(elements) /\ n \in Elem /\ n \notin DOMAIN elements
    BY UnusedIsFresh DEF IInv, TypeOK, PageIsSound
<1>3. SoundTable(u)
    BY <1>1, <1>2, WrappedSound
<1>4. IsTable(u) /\ DOMAIN u = DOMAIN elements \cup {n}
    <2> p \in Ref /\ q \in Ref
        BY <1>1, <1>2, RowFields
    <2> HIDE DEF p, q
    <2> QED
        BY <1>1, <1>2, WrappedRows
<1> HIDE DEF u
<1>5. created' \in [DOMAIN elements' -> Nat]
    BY <1>1, <1>4, StampNewType
<1>6. root_element' \in DOMAIN elements' \cup {NoElem}
    BY <1>1, <1>4 DEF IInv, TypeOK
<1> QED
    BY <1>1, <1>3, <1>4, <1>5, <1>6, SnapshotKeepsIInv

LEMMA DeleteElementKeepsIInv ==
    ASSUME IInv, NEW e \in Elem, DeleteElement(e)
    PROVE  IInv'
<1>1. /\ Tick /\ SnapshotPage
      /\ elements' = Deleted(elements, e)
      /\ created' = [x \in DOMAIN elements' |-> created[x]]
      /\ root_element' \in DOMAIN elements' \cup {NoElem}
    BY DEF DeleteElement
<1>2. /\ IsTable(elements) /\ SoundTable(elements)
      /\ created \in [DOMAIN elements -> Nat]
    BY DEF IInv, TypeOK, PageIsSound
<1>3. /\ IsTable(elements') /\ SoundTable(elements')
      /\ DOMAIN elements' \subseteq DOMAIN elements
    BY <1>1, <1>2, DeletedSound
<1>4. created' \in [DOMAIN elements' -> Nat]
    BY <1>1, <1>2, <1>3
<1> QED
    BY <1>1, <1>3, <1>4, SnapshotKeepsIInv

LEMMA MoveElementKeepsIInv ==
    ASSUME IInv, NEW e \in Elem, NEW p \in Ref, NEW q \in Ref, MoveElement(e, p, q)
    PROVE  IInv'
<1> DEFINE u == Moved(elements, e, elements[e].parent, elements[e].prev, p, q)
<1>1. /\ Tick /\ SnapshotPage /\ e \in DOMAIN elements
      /\ WalkAvoids(elements, p, e)
      /\ q \in (ChildrenOf(elements, p) \ {e}) \cup {NoElem}
      /\ elements' = u
      /\ created' = created /\ root_element' = root_element
    BY DEF MoveElement
<1>2. IsTable(elements) /\ SoundTable(elements)
    BY DEF IInv, TypeOK, PageIsSound
<1>3. IsTable(u) /\ SoundTable(u)
    BY <1>1, <1>2, MovedSound
<1>4. DOMAIN u = DOMAIN elements
    BY <1>1, <1>2, MovedRows
<1> HIDE DEF u
<1>5. /\ created' \in [DOMAIN elements' -> Nat]
      /\ root_element' \in DOMAIN elements' \cup {NoElem}
    BY <1>1, <1>4 DEF IInv, TypeOK
<1> QED
    BY <1>1, <1>3, <1>5, SnapshotKeepsIInv

\* An edit of one row that leaves its keys alone.
LEMMA RowEdited ==
    ASSUME IInv, NEW e \in DOMAIN elements, NEW tag \in Tag, NEW d \in Data,
           elements' = [elements EXCEPT ![e].tag = tag, ![e].data = d]
    PROVE  /\ IsTable(elements') /\ SoundTable(elements')
           /\ DOMAIN elements' = DOMAIN elements
<1>1. IsTable(elements) /\ SoundTable(elements)
    BY DEF IInv, TypeOK, PageIsSound
<1>2. elements[e] \in Row
    BY <1>1, RowFields
<1> DEFINE row == [elements[e] EXCEPT !.tag = tag, !.data = d]
<1>3. /\ row \in Row /\ row.parent = elements[e].parent /\ row.prev = elements[e].prev
    BY <1>2 DEF Row
<1>4. elements' = [elements EXCEPT ![e] = row]
    BY <1>1 DEF IsTable
<1> HIDE DEF row
<1>5. IsTable(elements') /\ DOMAIN elements' = DOMAIN elements
    BY <1>1, <1>3, <1>4 DEF IsTable
<1>6. \A x \in DOMAIN elements :
          elements'[x].parent = elements[x].parent /\ elements'[x].prev = elements[x].prev
    BY <1>1, <1>3, <1>4 DEF IsTable
<1> QED
    BY <1>1, <1>5, <1>6, SameKeysSound

LEMMA PatchElementKeepsIInv ==
    ASSUME IInv, NEW e \in Elem, NEW tag \in Tag, NEW d \in Data,
           PatchElement(e, tag, d)
    PROVE  IInv'
<1>1. /\ Tick /\ SnapshotPage /\ e \in DOMAIN elements
      /\ elements' = [elements EXCEPT ![e].tag = tag, ![e].data = d]
      /\ created' = created /\ root_element' = root_element
    BY DEF PatchElement
<1>2. /\ IsTable(elements') /\ SoundTable(elements')
      /\ DOMAIN elements' = DOMAIN elements
    BY <1>1, RowEdited
<1>3. /\ created' \in [DOMAIN elements' -> Nat]
      /\ root_element' \in DOMAIN elements' \cup {NoElem}
    BY <1>1, <1>2 DEF IInv, TypeOK
<1> QED
    BY <1>1, <1>2, <1>3, SnapshotKeepsIInv

\* No snapshot: the revision of the cursor has the keys and tags it had.
LEMMA UpdateTextKeepsIInv ==
    ASSUME IInv, NEW e \in Elem, NEW d \in Data, UpdateText(e, d)
    PROVE  IInv'
<1>1. /\ Tick /\ e \in DOMAIN elements
      /\ elements' = [elements EXCEPT ![e].data = d]
      /\ created' = created /\ root_element' = root_element
      /\ revisions' = revisions /\ cursor' = cursor
    BY DEF UpdateText
<1>2. IsTable(elements) /\ elements[e] \in Row
    BY <1>1, RowFields DEF IInv, TypeOK
<1>3. elements' = [elements EXCEPT ![e].tag = elements[e].tag, ![e].data = d]
    BY <1>1, <1>2 DEF IsTable, Row
<1>4. IsTable(elements') /\ SoundTable(elements') /\ DOMAIN elements' = DOMAIN elements
    BY <1>1, <1>2, <1>3, RowEdited DEF Row
<1>5. Shape(elements') = Shape(elements)
    <2>1. \A x \in DOMAIN elements :
              /\ elements'[x].parent = elements[x].parent
              /\ elements'[x].prev = elements[x].prev
              /\ elements'[x].tag = elements[x].tag
        BY <1>1, <1>2 DEF IsTable, Row
    <2> QED
        BY <1>4, <2>1 DEF Shape
<1>6. TypeOK'
    BY <1>1, <1>4 DEF IInv, TypeOK, Tick
<1>7. RevisionsSound'
    BY <1>1 DEF IInv, RevisionsSound
<1>8. CursorShowsPage'
    BY <1>1, <1>5 DEF IInv, CursorShowsPage
<1> QED
    BY <1>4, <1>6, <1>7, <1>8 DEF IInv, PageIsSound

(***************************************************************************)
(* Undo and redo bring back the rows of a revision, which are sound.       *)
(***************************************************************************)

LEMMA StepKeepsIInv ==
    ASSUME IInv, NEW s \in DOMAIN revisions, Step(s)
    PROVE  IInv'
<1>1. CASE StepTo(s)
    <2>1. /\ Tick /\ elements' = revisions[s].rows
          /\ created' = [x \in DOMAIN elements' |-> now + 1]
          /\ root_element' = NoElem /\ cursor' = s /\ revisions' = revisions
        BY <1>1 DEF StepTo
    <2>2. IsTable(elements') /\ SoundTable(elements')
        BY <2>1 DEF IInv, TypeOK, RevisionsSound
    <2>3. TypeOK'
        BY <2>1, <2>2 DEF IInv, TypeOK, Tick
    <2>4. RevisionsSound'
        BY <2>1 DEF IInv, RevisionsSound
    <2>5. CursorShowsPage'
        BY <2>1 DEF CursorShowsPage
    <2> QED
        BY <2>2, <2>3, <2>4, <2>5 DEF IInv, PageIsSound
<1>2. CASE StepFails(s)
    BY <1>2 DEF StepFails, vars, IInv, TypeOK, PageIsSound, RevisionsSound, CursorShowsPage
<1> QED
    BY <1>1, <1>2 DEF Step

-----------------------------------------------------------------------------

LEMMA NextKeepsIInv == IInv /\ [Next]_vars => IInv'
<1> SUFFICES ASSUME IInv, [Next]_vars
             PROVE  IInv'
    OBVIOUS
<1>1. ASSUME NEW p \in Ref, NEW tag \in Tag, NEW n \in Unused, AddElement(p, tag, n)
      PROVE  IInv'
    BY <1>1, AddElementKeepsIInv
<1>2. ASSUME NEW e \in Elem, NEW tag \in Tag, NEW n \in Unused, AddAfter(e, tag, n)
      PROVE  IInv'
    BY <1>2, AddAfterKeepsIInv
<1>3. ASSUME NEW e \in Elem, NEW tag \in Tag, NEW n \in Unused, AddBefore(e, tag, n)
      PROVE  IInv'
    BY <1>3, AddBeforeKeepsIInv
<1>4. ASSUME NEW e \in Elem, NEW n \in Unused, DuplicateElement(e, n)
      PROVE  IInv'
    BY <1>4, DuplicateElementKeepsIInv
<1>5. ASSUME NEW e \in Elem, NEW tag \in Tag, NEW n \in Unused, WrapElement(e, tag, n)
      PROVE  IInv'
    BY <1>5, WrapElementKeepsIInv
<1>6. ASSUME NEW e \in Elem, DeleteElement(e)
      PROVE  IInv'
    BY <1>6, DeleteElementKeepsIInv
<1>7. ASSUME NEW e \in Elem, NEW p \in Ref, NEW q \in Ref, MoveElement(e, p, q)
      PROVE  IInv'
    BY <1>7, MoveElementKeepsIInv
<1>8. ASSUME NEW e \in Elem, NEW tag \in Tag, NEW d \in Data, PatchElement(e, tag, d)
      PROVE  IInv'
    BY <1>8, PatchElementKeepsIInv
<1>9. ASSUME NEW e \in Elem, NEW d \in Data, UpdateText(e, d)
      PROVE  IInv'
    BY <1>9, UpdateTextKeepsIInv
<1>10. CASE Undo \/ Redo
    BY <1>10, StepKeepsIInv DEF Undo, Redo, UndoTargets, RedoTargets
<1>11. CASE UNCHANGED vars
    BY <1>11 DEF vars, IInv, TypeOK, PageIsSound, RevisionsSound, CursorShowsPage
<1> QED
    BY <1>1, <1>2, <1>3, <1>4, <1>5, <1>6, <1>7, <1>8, <1>9, <1>10, <1>11 DEF Next

\* IInv is an inductive invariant of the editor.
THEOREM EditorInvariant == Spec => []IInv
BY InitIInv, NextKeepsIInv, PTL DEF Spec

\* Every table and every revision holds rows, root_element names a row of the
\* page or nothing, and revision_cursor names a revision that exists: step()
\* always finds where it stands.
THEOREM EditorTypeOK == Spec => []TypeOK
<1>1. IInv => TypeOK
    BY DEF IInv
<1> QED
    BY <1>1, EditorInvariant, PTL

\* No sequence of add, wrap, duplicate, delete, move, undo and redo requests,
\* handled one at a time, can make a parent cycle, fork a sibling chain or
\* leave a row out of it.
THEOREM EditorPageIsSound == Spec => []PageIsSound
<1>1. IInv => PageIsSound
    BY DEF IInv
<1> QED
    BY <1>1, EditorInvariant, PTL

\* The revision the cursor names has the structure and the tags of the page,
\* after every edit, undo and redo.
THEOREM EditorCursorShowsPage == Spec => []CursorShowsPage
<1>1. IInv => CursorShowsPage
    BY DEF IInv
<1> QED
    BY <1>1, EditorInvariant, PTL

-----------------------------------------------------------------------------
(* Numbers and sequences: the least of a set of numbers, and the operators *)
(* of SequencesExt read place by place.                                    *)

Less == {ss \in Nat \X Nat : ss[1] < ss[2]}

LEMMA LeastNat ==
    ASSUME NEW S \in SUBSET Nat, S # {}
    PROVE  \E n \in S : \A m \in S : n <= m
<1>1. IsWellFoundedOn(Less, Nat)
    BY NatLessThanWellFounded DEF OpToRel, Less
<1>2. PICK x \in S : \A y \in S : ~ (<<y, x>> \in Less)
    BY <1>1, WFMin
<1>3. \A y \in S : ~ (y < x)
    BY <1>2 DEF Less
<1> QED
    BY <1>3

\* w is s with n at place i.
IsInserted(w, X, s, i, n) ==
    /\ w \in Seq(X)
    /\ Len(w) = Len(s) + 1
    /\ \A j \in 1..Len(s) + 1 : w[j] = IF j < i THEN s[j] ELSE IF j = i THEN n ELSE s[j - 1]

LEMMA InsertAtForm ==
    ASSUME NEW X, NEW s \in Seq(X), NEW i \in 1..Len(s) + 1, NEW n \in X
    PROVE  IsInserted(InsertAt(s, i, n), X, s, i, n)
<1> DEFINE a == SubSeq(s, 1, i - 1)
           b == SubSeq(s, i, Len(s))
<1>1. Len(s) \in Nat /\ \A j \in 1..Len(s) : s[j] \in X
    BY LenProperties, ElementOfSeq
<1>2. /\ a \in Seq(X) /\ Len(a) = i - 1
      /\ \A j \in 1..i - 1 : a[j] = s[j]
    BY <1>1, SubSeqProperties
<1>3. /\ b \in Seq(X) /\ Len(b) = Len(s) - i + 1
      /\ \A j \in 1..Len(s) - i + 1 : b[j] = s[i + j - 1]
    BY <1>1, SubSeqProperties
<1>4. InsertAt(s, i, n) = (a \o <<n>>) \o b
    BY DEF InsertAt
<1> HIDE DEF a, b
<1>5. /\ a \o <<n>> \in Seq(X) /\ Len(a \o <<n>>) = i
      /\ \A j \in 1..i : (a \o <<n>>)[j] = IF j < i THEN s[j] ELSE n
    <2>1. <<n>> \in Seq(X) /\ Len(<<n>>) = 1 /\ <<n>>[1] = n
        OBVIOUS
    <2> QED
        BY <1>1, <1>2, <2>1, ConcatProperties
<1> DEFINE c == a \o <<n>>
<1> HIDE DEF c
<1>6. /\ c \o b \in Seq(X) /\ Len(c \o b) = Len(s) + 1
      /\ \A j \in 1..Len(s) + 1 : (c \o b)[j] = IF j <= i THEN c[j] ELSE b[j - i]
    <2>1. c \in Seq(X) /\ Len(c) = i /\ b \in Seq(X) /\ Len(b) = Len(s) - i + 1
        BY <1>3, <1>5 DEF c
    <2>2. /\ c \o b \in Seq(X) /\ Len(c \o b) = Len(c) + Len(b)
          /\ \A j \in 1..Len(c) + Len(b) :
                 (c \o b)[j] = IF j <= Len(c) THEN c[j] ELSE b[j - Len(c)]
        BY <2>1, ConcatProperties
    <2> QED
        BY <1>1, <2>1, <2>2
<1>7. ASSUME NEW j \in 1..Len(s) + 1
      PROVE  (c \o b)[j] = IF j < i THEN s[j] ELSE IF j = i THEN n ELSE s[j - 1]
    <2>1. CASE j <= i
        BY <1>5, <1>6, <2>1 DEF c
    <2>2. CASE j > i
        <3>1. j - i \in 1..Len(s) - i + 1
            BY <1>1, <2>2
        <3>2. b[j - i] = s[i + (j - i) - 1]
            BY <1>3, <3>1
        <3>3. i + (j - i) - 1 = j - 1
            BY <1>1
        <3> QED
            BY <1>1, <1>6, <2>2, <3>2, <3>3
    <2>3. j <= i \/ j > i
        BY <1>1
    <2> QED
        BY <2>1, <2>2, <2>3
<1> QED
    BY <1>4, <1>6, <1>7 DEF c, IsInserted

LEMMA RemoveAtForm ==
    ASSUME NEW X, NEW s \in Seq(X), NEW i \in 1..Len(s)
    PROVE  /\ RemoveAt(s, i) \in Seq(X)
           /\ Len(RemoveAt(s, i)) = Len(s) - 1
           /\ \A j \in 1..Len(s) - 1 : RemoveAt(s, i)[j] = IF j < i THEN s[j] ELSE s[j + 1]
<1> DEFINE a == SubSeq(s, 1, i - 1)
           b == SubSeq(s, i + 1, Len(s))
<1>1. Len(s) \in Nat /\ \A j \in 1..Len(s) : s[j] \in X
    BY LenProperties, ElementOfSeq
<1>2. /\ a \in Seq(X) /\ Len(a) = i - 1
      /\ \A j \in 1..i - 1 : a[j] = s[j]
    BY <1>1, SubSeqProperties
<1>3. /\ b \in Seq(X) /\ Len(b) = Len(s) - i
      /\ \A j \in 1..Len(s) - i : b[j] = s[i + j]
    <2>1. Len(b) = IF i + 1 <= Len(s) THEN Len(s) - (i + 1) + 1 ELSE 0
        BY <1>1, SubSeqProperties
    <2>2. b \in Seq(X) /\ \A j \in 1..Len(s) - (i + 1) + 1 : b[j] = s[(i + 1) + j - 1]
        BY <1>1, SubSeqProperties
    <2> HIDE DEF b
    <2>3. ASSUME NEW j \in 1..Len(s) - i
          PROVE  b[j] = s[i + j]
        <3>1. j \in 1..Len(s) - (i + 1) + 1 /\ (i + 1) + j - 1 = i + j
            BY <1>1
        <3> QED
            BY <2>2, <3>1
    <2> QED
        BY <1>1, <2>1, <2>2, <2>3
<1>4. RemoveAt(s, i) = a \o b
    BY DEF RemoveAt
<1> HIDE DEF a, b
<1>5. /\ a \o b \in Seq(X) /\ Len(a \o b) = Len(s) - 1
      /\ \A j \in 1..Len(s) - 1 : (a \o b)[j] = IF j <= i - 1 THEN a[j] ELSE b[j - (i - 1)]
    <2>1. /\ a \o b \in Seq(X) /\ Len(a \o b) = Len(a) + Len(b)
          /\ \A j \in 1..Len(a) + Len(b) :
                 (a \o b)[j] = IF j <= Len(a) THEN a[j] ELSE b[j - Len(a)]
        BY <1>2, <1>3, ConcatProperties
    <2> QED
        BY <1>1, <1>2, <1>3, <2>1
<1>6. ASSUME NEW j \in 1..Len(s) - 1
      PROVE  (a \o b)[j] = IF j < i THEN s[j] ELSE s[j + 1]
    <2>1. CASE j < i
        BY <1>1, <1>2, <1>5, <2>1
    <2>2. CASE j >= i
        <3>1. j - (i - 1) \in 1..Len(s) - i /\ i + (j - (i - 1)) = j + 1
            BY <1>1, <2>2
        <3> QED
            BY <1>1, <1>3, <1>5, <2>2, <3>1
    <2>3. j < i \/ j >= i
        BY <1>1
    <2> QED
        BY <2>1, <2>2, <2>3
<1> QED
    BY <1>4, <1>5, <1>6

\* The place of an element that is in a list once.
LEMMA RemoveFirstForm ==
    ASSUME NEW X, NEW s \in Seq(X), NEW i \in 1..Len(s),
           \A j \in 1..Len(s) : s[j] = s[i] => j = i
    PROVE  RemoveFirst(s, s[i]) = RemoveAt(s, i)
<1> DEFINE I == {j \in 1..Len(s) : s[j] = s[i]}
<1>1. I = {i}
    OBVIOUS
<1>2. Min(I) = i
    <2> i \in Nat
        BY LenProperties
    <2> QED
        BY <1>1 DEF Min
<1>3. SelectInSeq(s, LAMBDA v : v = s[i]) = Min(I)
    BY <1>1 DEF SelectInSeq
<1> HIDE DEF I
<1> QED
    BY <1>2, <1>3 DEF RemoveFirst


-----------------------------------------------------------------------------
(* Lists: what the list of the children of a row is, and that a table has  *)
(* at most one for each row.                                               *)

\* s lists the children of p in the order of their left-sibling keys.
IsList(t, p, s) ==
    /\ s \in Seq(ChildrenOf(t, p))
    /\ \A i, j \in 1..Len(s) : s[i] = s[j] => i = j
    /\ \A x \in ChildrenOf(t, p) : \E i \in 1..Len(s) : s[i] = x
    /\ \A i \in 1..Len(s) : t[s[i]].prev = IF i = 1 THEN NoElem ELSE s[i - 1]

LEMMA ListFields ==
    ASSUME NEW t, NEW p, NEW s, IsList(t, p, s)
    PROVE  /\ Len(s) \in Nat /\ DOMAIN s = 1..Len(s)
           /\ s \in [1..Len(s) -> ChildrenOf(t, p)]
           /\ ToSet(s) = ChildrenOf(t, p)
<1>1. s \in Seq(ChildrenOf(t, p))
    BY DEF IsList
<1>2. Len(s) \in Nat /\ DOMAIN s = 1..Len(s) /\ s \in [1..Len(s) -> ChildrenOf(t, p)]
    BY <1>1, LenProperties
<1>3. \A x \in ChildrenOf(t, p) : \E i \in 1..Len(s) : s[i] = x
    BY DEF IsList
<1> QED
    BY <1>2, <1>3 DEF ToSet

\* A table whose chains do not fork has one list under each parent, so Ordered
\* is that one.
LEMMA OrderedIsTheList ==
    ASSUME NEW t, ChainsDoNotFork(t), NEW p, NEW s, IsList(t, p, s)
    PROVE  Ordered(t, p) = s
<1> DEFINE C == ChildrenOf(t, p)
           n == Len(s)
           In(f) == \A i \in DOMAIN f : t[f[i]].prev = IF i = 1 THEN NoElem ELSE f[i - 1]
<1>1. n \in Nat /\ DOMAIN s = 1..n /\ s \in [1..n -> C] /\ In(s)
    <2>1. n \in Nat /\ DOMAIN s = 1..n /\ s \in [1..n -> C]
        BY ListFields
    <2>2. \A i \in 1..n : t[s[i]].prev = IF i = 1 THEN NoElem ELSE s[i - 1]
        BY DEF IsList
    <2> QED
        BY <2>1, <2>2
<1>2. Cardinality(C) = n
    <2>1. s \in Injection(1..n, C) /\ s \in Surjection(1..n, C)
        BY <1>1 DEF IsList, Injection, IsInjective, Surjection
    <2>2. ExistsBijection(1..n, C)
        BY <2>1 DEF Bijection, ExistsBijection
    <2>3. IsFiniteSet(1..n) /\ Cardinality(1..n) = n
        BY <1>1, FS_Interval
    <2> HIDE DEF C, n
    <2> QED
        BY <2>2, <2>3, FS_Bijection
<1>3. Ordered(t, p) = CHOOSE f \in [1..n -> C] : In(f)
    BY <1>2 DEF Ordered
<1>4. ASSUME NEW f \in [1..n -> C], In(f), NEW i \in 1..n, f[i] # s[i]
      PROVE  FALSE
    <2> DEFINE Bad == {k \in 1..n : f[k] # s[k]}
    <2>1. Bad \in SUBSET Nat /\ Bad # {}
        BY <1>1, <1>4
    <2>2. PICK k \in Bad : \A m \in Bad : k <= m
        BY <2>1, LeastNat
    <2>3. k \in 1..n /\ f[k] # s[k] /\ \A m \in 1..n : m < k => f[m] = s[m]
        BY <2>2
    <2>4. k # 1 => k - 1 \in 1..n /\ k - 1 < k
        BY <1>1, <2>3
    <2>5. t[f[k]].prev = t[s[k]].prev
        BY <1>1, <1>4, <2>3, <2>4
    <2>6. f[k] \in C /\ s[k] \in C
        BY <1>1, <1>4, <2>3
    <2>7. /\ f[k] \in DOMAIN t /\ s[k] \in DOMAIN t
          /\ t[f[k]].parent = p /\ t[s[k]].parent = p
        BY <2>6 DEF ChildrenOf
    <2> QED
        BY <2>3, <2>5, <2>7 DEF ChainsDoNotFork
<1>5. \A f \in [1..n -> C] : In(f) => f = s
    <2> SUFFICES ASSUME NEW f \in [1..n -> C], In(f)
                 PROVE  f = s
        OBVIOUS
    <2>1. \A i \in 1..n : f[i] = s[i]
        BY <1>4
    <2> QED
        BY <1>1, <2>1
<1> HIDE DEF In, C, n
<1> QED
    BY <1>1, <1>3, <1>5

\* Every parent has a list.
Listed(t) == \A p \in DOMAIN t \cup {NoElem} : \E s : IsList(t, p, s)

\* The lists of a table are the ones that are lists.
LEMMA ListsAre ==
    ASSUME NEW t, ChainsDoNotFork(t), NEW l, l = [p \in DOMAIN l |-> l[p]],
           DOMAIN l = DOMAIN t \cup {NoElem},
           \A p \in DOMAIN t \cup {NoElem} : IsList(t, p, l[p])
    PROVE  Listed(t) /\ Lists(t) = l
<1>1. \A p \in DOMAIN t \cup {NoElem} : Ordered(t, p) = l[p]
    BY OrderedIsTheList
<1>2. Lists(t) = l
    BY <1>1 DEF Lists
<1> QED
    BY <1>2 DEF Listed

LEMMA ListsAreLists ==
    ASSUME NEW t, ChainsDoNotFork(t), Listed(t), NEW p \in DOMAIN t \cup {NoElem}
    PROVE  IsList(t, p, Lists(t)[p])
<1>1. PICK s : IsList(t, p, s)
    BY DEF Listed
<1>2. Ordered(t, p) = s
    BY <1>1, OrderedIsTheList
<1> QED
    BY <1>1, <1>2 DEF Lists

\* Lists depend on the keys alone.
LEMMA ListKept ==
    ASSUME NEW t, NEW u, NEW p, NEW s, IsList(t, p, s),
           ChildrenOf(u, p) = ChildrenOf(t, p),
           \A x \in ChildrenOf(t, p) : u[x].prev = t[x].prev
    PROVE  IsList(u, p, s)
<1>1. \A i \in 1..Len(s) : s[i] \in ChildrenOf(t, p)
    BY ListFields
<1> QED
    BY <1>1 DEF IsList

LEMMA SameKeysLists ==
    ASSUME NEW t, NEW u, ChainsDoNotFork(t), Listed(t), DOMAIN u = DOMAIN t,
           \A x \in DOMAIN t : u[x].parent = t[x].parent /\ u[x].prev = t[x].prev
    PROVE  Listed(u) /\ Lists(u) = Lists(t)
<1>1. \A p : ChildrenOf(u, p) = ChildrenOf(t, p)
    BY DEF ChildrenOf
<1>2. ChainsDoNotFork(u)
    BY DEF ChainsDoNotFork
<1>3. \A p \in DOMAIN t \cup {NoElem} : \A x \in ChildrenOf(t, p) : u[x].prev = t[x].prev
    BY DEF ChildrenOf
<1>4. \A p \in DOMAIN t \cup {NoElem} : IsList(u, p, Lists(t)[p])
    BY <1>1, <1>3, ListsAreLists, ListKept
<1>5. Lists(t) = [p \in DOMAIN Lists(t) |-> Lists(t)[p]] /\ DOMAIN Lists(t) = DOMAIN u \cup {NoElem}
    BY DEF Lists
<1> QED
    BY <1>2, <1>4, <1>5, ListsAre

-----------------------------------------------------------------------------
(* A child more: the list grows where the new row points.                  *)

\* What stands to the left of place i.
LeftOf(s, i) == IF i = 1 THEN NoElem ELSE s[i - 1]

LEMMA PlaceBehind ==
    ASSUME NEW t, NEW p, NEW s, IsList(t, p, s), NEW q \in ChildrenOf(t, p) \cup {NoElem}
    PROVE  \E i \in 1..Len(s) + 1 : q = LeftOf(s, i)
<1>1. Len(s) \in Nat
    BY ListFields
<1>2. CASE q = NoElem
    BY <1>1, <1>2 DEF LeftOf
<1>3. CASE q \in ChildrenOf(t, p)
    <2>1. PICK i \in 1..Len(s) : s[i] = q
        BY <1>3 DEF IsList
    <2>2. i + 1 \in 1..Len(s) + 1 /\ i + 1 # 1 /\ (i + 1) - 1 = i
        BY <1>1
    <2>3. q = LeftOf(s, i + 1)
        BY <2>1, <2>2 DEF LeftOf
    <2> QED
        BY <2>2, <2>3
<1> QED
    BY <1>2, <1>3

LEMMA FollowerPlace ==
    ASSUME NEW t, NoElem \notin DOMAIN t, NEW p, NEW s, IsList(t, p, s),
           NEW i \in 1..Len(s) + 1, NEW x \in ChildrenOf(t, p)
    PROVE  t[x].prev = LeftOf(s, i) <=> (i <= Len(s) /\ x = s[i])
<1>1. Len(s) \in Nat /\ \A j \in 1..Len(s) : s[j] \in DOMAIN t
    BY ListFields DEF ChildrenOf
<1>2. PICK j \in 1..Len(s) : x = s[j]
    BY DEF IsList
<1>3. t[x].prev = LeftOf(s, j)
    BY <1>2 DEF IsList, LeftOf
<1>4. ASSUME LeftOf(s, j) = LeftOf(s, i)
      PROVE  i = j
    <2>1. CASE i = 1 \/ j = 1
        <3>1. ASSUME NEW m \in 2..Len(s) + 1
              PROVE  LeftOf(s, m) \in DOMAIN t
            <4>1. m # 1 /\ m - 1 \in 1..Len(s)
                BY <1>1
            <4> QED
                BY <1>1, <4>1 DEF LeftOf
        <3>2. LeftOf(s, 1) = NoElem
            BY DEF LeftOf
        <3> QED
            BY <1>1, <1>4, <2>1, <3>1, <3>2
    <2>2. CASE i # 1 /\ j # 1
        <3>1. i - 1 \in 1..Len(s) /\ j - 1 \in 1..Len(s)
            BY <1>1, <2>2
        <3>2. s[i - 1] = s[j - 1]
            BY <1>4, <2>2 DEF LeftOf
        <3>3. i - 1 = j - 1
            BY <3>1, <3>2 DEF IsList
        <3> QED
            BY <1>1, <3>3
    <2> QED
        BY <2>1, <2>2
<1>5. (i <= Len(s) /\ x = s[i]) => i = j
    <2> SUFFICES ASSUME i <= Len(s), x = s[i]
                 PROVE  i = j
        OBVIOUS
    <2>1. i \in 1..Len(s) /\ s[i] = s[j]
        BY <1>1, <1>2
    <2> QED
        BY <2>1 DEF IsList
<1> QED
    BY <1>1, <1>2, <1>3, <1>4, <1>5

\* A child n comes in at place i, and the one that stood there follows it.
LEMMA ListGrows ==
    ASSUME NEW t, NEW u, NoElem \notin DOMAIN t, NEW p, NEW s, IsList(t, p, s),
           NEW i \in 1..Len(s) + 1, NEW n, n \notin ChildrenOf(t, p),
           ChildrenOf(u, p) = ChildrenOf(t, p) \cup {n},
           u[n].prev = LeftOf(s, i),
           \A x \in ChildrenOf(t, p) :
               u[x].prev = IF t[x].prev = LeftOf(s, i) THEN n ELSE t[x].prev
    PROVE  IsList(u, p, InsertAt(s, i, n))
<1> DEFINE C == ChildrenOf(t, p)
           w == InsertAt(s, i, n)
<1>1. /\ Len(s) \in Nat /\ s \in Seq(C) /\ \A j \in 1..Len(s) : s[j] \in C
      /\ \A j, k \in 1..Len(s) : s[j] = s[k] => j = k
      /\ \A x \in C : \E j \in 1..Len(s) : s[j] = x
      /\ \A j \in 1..Len(s) : t[s[j]].prev = IF j = 1 THEN NoElem ELSE s[j - 1]
    BY ListFields DEF IsList
<1> HIDE DEF C
<1>2. /\ w \in Seq(C \cup {n}) /\ Len(w) = Len(s) + 1
      /\ \A j \in 1..Len(s) + 1 : w[j] = IF j < i THEN s[j] ELSE IF j = i THEN n ELSE s[j - 1]
    <2>1. s \in Seq(C \cup {n})
        BY <1>1, SeqMonotonic
    <2> DEFINE X == C \cup {n}
    <2>2. s \in Seq(X) /\ n \in X
        BY <2>1
    <2> HIDE DEF X, w
    <2>3. IsInserted(InsertAt(s, i, n), X, s, i, n)
        BY <2>2, InsertAtForm
    <2>4. IsInserted(w, X, s, i, n)
        BY <2>3 DEF w
    <2> QED
        BY <2>4 DEF IsInserted, X
<1>3. \A x \in C : t[x].prev = LeftOf(s, i) <=> (i <= Len(s) /\ x = s[i])
    BY FollowerPlace DEF C
<1>4. \A x \in C : u[x].prev = IF i <= Len(s) /\ x = s[i] THEN n ELSE t[x].prev
    BY <1>3 DEF C
<1> HIDE DEF w
<1>0. Len(s) \in Nat /\ i \in Nat /\ i >= 1 /\ i <= Len(s) + 1 /\ Len(w) = Len(s) + 1
    <2>1. Len(s) \in Nat
        BY <1>1
    <2> QED
        BY <1>2, <2>1
<1>5. \A j \in 1..Len(s) : j < i => w[j] = s[j]
    BY <1>1, <1>2
<1>6. \A j \in 1..Len(s) : j >= i => w[j + 1] = s[j] /\ j + 1 \in 1..Len(s) + 1
    <2> SUFFICES ASSUME NEW j \in 1..Len(s), j >= i
                 PROVE  w[j + 1] = s[j] /\ j + 1 \in 1..Len(s) + 1
        OBVIOUS
    <2>1. j + 1 \in 1..Len(s) + 1 /\ ~(j + 1 < i) /\ j + 1 # i /\ (j + 1) - 1 = j
        BY <1>1
    <2> QED
        BY <1>2, <2>1
<1>7. w[i] = n
    BY <1>1, <1>2
<1>8. n \notin C
    BY DEF C
<1>9. \A j, k \in 1..Len(w) : w[j] = w[k] => j = k
    <2> SUFFICES ASSUME NEW j \in 1..Len(s) + 1, NEW k \in 1..Len(s) + 1, w[j] = w[k]
                 PROVE  j = k
        BY <1>2
    <2> DEFINE old(m) == IF m < i THEN m ELSE m - 1
    <2>1. ASSUME NEW m \in 1..Len(s) + 1, m # i
          PROVE  old(m) \in 1..Len(s) /\ w[m] = s[old(m)]
        <3>1. CASE m < i
            <4>1. old(m) = m /\ m \in 1..Len(s)
                BY <1>1, <3>1
            <4> QED
                BY <1>5, <3>1, <4>1
        <3>2. CASE m > i
            <4>1. old(m) = m - 1 /\ m - 1 \in 1..Len(s) /\ ~ (m < i)
                BY <1>1, <3>2
            <4> QED
                BY <1>2, <2>1, <4>1
        <3>3. m < i \/ m > i
            BY <1>1, <2>1
        <3> QED
            BY <3>1, <3>2, <3>3
    <2>4. ASSUME NEW m \in 1..Len(s) + 1, NEW o \in 1..Len(s) + 1, m # i, o # i,
                 old(m) = old(o)
          PROVE  m = o
        <3>1. i \in Nat /\ m \in Nat /\ o \in Nat
            BY <1>1
        <3>2. (m < i \/ m > i) /\ (o < i \/ o > i)
            BY <2>4, <3>1
        <3>3. (IF m < i THEN m ELSE m - 1) = IF o < i THEN o ELSE o - 1
            BY <2>4
        <3> QED
            BY <3>1, <3>2, <3>3
    <2> HIDE DEF old
    <2>2. CASE j = i \/ k = i
        <3>1. \A m \in 1..Len(s) + 1 : m # i => w[m] # n
            <4> SUFFICES ASSUME NEW m \in 1..Len(s) + 1, m # i
                         PROVE  w[m] # n
                OBVIOUS
            <4>1. w[m] \in C
                BY <1>1, <2>1
            <4> QED
                BY <1>8, <4>1
        <3> QED
            BY <1>7, <2>2, <3>1
    <2>3. CASE j # i /\ k # i
        <3>1. old(j) \in 1..Len(s) /\ old(k) \in 1..Len(s) /\ s[old(j)] = s[old(k)]
            BY <2>1, <2>3
        <3>2. old(j) = old(k)
            BY <1>1, <3>1
        <3> QED
            BY <2>3, <2>4, <3>2
    <2> QED
        BY <2>2, <2>3
<1>10. \A x \in C \cup {n} : \E j \in 1..Len(w) : w[j] = x
    <2> SUFFICES ASSUME NEW x \in C
                 PROVE  \E j \in 1..Len(w) : w[j] = x
        BY <1>1, <1>2, <1>7
    <2>1. PICK j \in 1..Len(s) : s[j] = x
        BY <1>1
    <2>2. CASE j < i
        <3>1. j \in 1..Len(w)
            BY <1>0
        <3> QED
            BY <1>5, <2>1, <2>2, <3>1
    <2>3. CASE j >= i
        <3>1. j + 1 \in 1..Len(w) /\ w[j + 1] = x
            BY <1>2, <1>6, <2>1, <2>3
        <3> QED
            BY <3>1
    <2>4. j < i \/ j >= i
        BY <1>1
    <2> QED
        BY <2>2, <2>3, <2>4
<1>11. ASSUME NEW j \in 1..Len(w)
       PROVE  u[w[j]].prev = IF j = 1 THEN NoElem ELSE w[j - 1]
    <2>1. j \in 1..Len(s) + 1 /\ j \in Nat /\ i \in Nat
        BY <1>1, <1>2
    <2>2. CASE j < i
        <3>1. j \in 1..Len(s) /\ w[j] = s[j] /\ s[j] \in C
            BY <1>1, <1>5, <2>1, <2>2
        <3>2. ~(i <= Len(s) /\ s[j] = s[i])
            BY <1>1, <2>1, <2>2
        <3>3. u[w[j]].prev = t[s[j]].prev
            BY <1>4, <3>1, <3>2
        <3>4. j # 1 => w[j - 1] = s[j - 1]
            BY <1>1, <1>5, <2>1, <2>2
        <3> QED
            BY <1>1, <3>1, <3>3, <3>4
    <2>3. CASE j = i
        <3>1. u[w[j]].prev = LeftOf(s, i)
            BY <1>7, <2>3
        <3>2. j # 1 => w[j - 1] = s[j - 1]
            BY <1>1, <1>5, <2>1, <2>3
        <3> QED
            BY <2>3, <3>1, <3>2 DEF LeftOf
    <2>4. CASE j > i
        <3> DEFINE m == j - 1
        <3>1. m \in 1..Len(s) /\ m >= i /\ m + 1 = j /\ j # 1
            BY <1>0, <2>1, <2>4
        <3> HIDE DEF m
        <3>2. w[j] = s[m] /\ s[m] \in C
            BY <1>1, <1>6, <3>1
        <3>3. CASE m = i
            <4>1. u[w[j]].prev = n
                BY <1>1, <1>4, <3>1, <3>2, <3>3
            <4>2. j - 1 = i
                BY <2>1, <3>1, <3>3
            <4> QED
                BY <1>7, <3>1, <4>1, <4>2
        <3>4. CASE m # i
            <4>1. ~(i <= Len(s) /\ s[m] = s[i])
                <5> SUFFICES ASSUME i <= Len(s), s[m] = s[i]
                             PROVE  FALSE
                    OBVIOUS
                <5>1. i \in 1..Len(s)
                    BY <1>0
                <5>2. m = i
                    BY <1>1, <3>1, <5>1
                <5> QED
                    BY <3>4, <5>2
            <4>2. u[w[j]].prev = t[s[m]].prev
                BY <1>4, <3>2, <4>1
            <4>3. m # 1 /\ m - 1 \in 1..Len(s) /\ m - 1 >= i /\ (m - 1) + 1 = j - 1
                BY <1>0, <2>1, <3>1, <3>4
            <4>4. w[j - 1] = s[m - 1]
                BY <1>6, <4>3
            <4> QED
                BY <1>1, <3>1, <4>2, <4>3, <4>4
        <3> QED
            BY <3>3, <3>4
    <2> QED
        BY <2>1, <2>2, <2>3, <2>4
<1>12. ChildrenOf(u, p) = C \cup {n}
    BY DEF C
<1> QED
    BY <1>2, <1>9, <1>10, <1>11, <1>12 DEF IsList, w

-----------------------------------------------------------------------------
(* A child less, and a child for another: the list shrinks, or keeps its   *)
(* length.                                                                 *)

\* A child e goes, and the one behind it moves up.
LEMMA ListShrinks ==
    ASSUME NEW t, NEW u, NEW p, NEW s, IsList(t, p, s), NoElem \notin DOMAIN t,
           NEW i \in 1..Len(s), 
           ChildrenOf(u, p) = ChildrenOf(t, p) \ {s[i]},
           \A x \in ChildrenOf(u, p) : u[x].prev = PrevWithout(t, s[i], x)
    PROVE  IsList(u, p, RemoveAt(s, i))
<1> DEFINE C == ChildrenOf(t, p)
           w == RemoveAt(s, i)
           e == s[i]
<1>1. /\ Len(s) \in Nat /\ s \in Seq(C) /\ \A j \in 1..Len(s) : s[j] \in C
      /\ \A j, k \in 1..Len(s) : s[j] = s[k] => j = k
      /\ \A x \in C : \E j \in 1..Len(s) : s[j] = x
      /\ \A j \in 1..Len(s) : t[s[j]].prev = IF j = 1 THEN NoElem ELSE s[j - 1]
    BY ListFields DEF IsList
<1>2. NoElem \notin C
    BY DEF ChildrenOf
<1>3. \A x \in C \ {e} : u[x].prev = IF t[x].prev = e THEN t[e].prev ELSE t[x].prev
    BY DEF PrevWithout
<1>4. ChildrenOf(u, p) = C \ {e}
    OBVIOUS
<1> HIDE DEF C
<1>5. /\ w \in Seq(C) /\ Len(w) = Len(s) - 1
      /\ \A j \in 1..Len(s) - 1 : w[j] = IF j < i THEN s[j] ELSE s[j + 1]
    <2>1. s \in Seq(C) /\ i \in 1..Len(s)
        BY <1>1
    <2> QED
        BY <2>1, RemoveAtForm
<1> HIDE DEF w, e
<1> DEFINE old(m) == IF m < i THEN m ELSE m + 1
<1>6. ASSUME NEW m \in 1..Len(w)
      PROVE  old(m) \in 1..Len(s) /\ old(m) # i /\ w[m] = s[old(m)]
    <2>1. m \in 1..Len(s) - 1 /\ i \in Nat
        BY <1>1, <1>5
    <2>2. CASE m < i
        <3>1. old(m) = m /\ m \in 1..Len(s) /\ m # i
            BY <1>1, <2>1, <2>2
        <3> QED
            BY <1>5, <2>1, <2>2, <3>1
    <2>3. CASE m >= i
        <3>1. old(m) = m + 1 /\ m + 1 \in 1..Len(s) /\ m + 1 # i /\ ~ (m < i)
            BY <1>1, <2>1, <2>3
        <3> QED
            BY <1>5, <2>1, <3>1
    <2>4. m < i \/ m >= i
        BY <2>1
    <2> QED
        BY <2>2, <2>3, <2>4
<1>7. ASSUME NEW m \in 1..Len(w), NEW o \in 1..Len(w), old(m) = old(o)
      PROVE  m = o
    <2>1. i \in Nat /\ m \in Nat /\ o \in Nat
        BY <1>1, <1>5
    <2>2. (IF m < i THEN m ELSE m + 1) = IF o < i THEN o ELSE o + 1
        BY <1>7
    <2> QED
        BY <2>1, <2>2
<1>8. ASSUME NEW j \in 1..Len(s), j # i
      PROVE  \E m \in 1..Len(w) : old(m) = j
    <2>1. i \in Nat /\ j \in Nat
        BY <1>1
    <2>2. CASE j < i
        <3>1. j \in 1..Len(w) /\ old(j) = j
            BY <1>1, <1>5, <2>1, <2>2
        <3> QED
            BY <3>1
    <2>3. CASE j > i
        <3>1. j - 1 \in 1..Len(w) /\ old(j - 1) = j
            BY <1>1, <1>5, <2>1, <2>3
        <3> QED
            BY <3>1
    <2>4. j < i \/ j > i
        BY <1>8, <2>1
    <2> QED
        BY <2>2, <2>3, <2>4
<1>9. \A m \in 1..Len(w) : w[m] \in C \ {e}
    <2> SUFFICES ASSUME NEW m \in 1..Len(w)
                 PROVE  w[m] \in C \ {e}
        OBVIOUS
    <2> HIDE DEF old
    <2>1. s[old(m)] # s[i]
        BY <1>1, <1>6
    <2> QED
        BY <1>1, <1>6, <2>1 DEF e
<1>10. w \in Seq(C \ {e})
    <2>1. Len(w) \in Nat /\ w \in [1..Len(w) -> C]
        BY <1>5, LenProperties
    <2>2. w = [m \in 1..Len(w) |-> w[m]]
        BY <2>1
    <2>3. [m \in 1..Len(w) |-> w[m]] \in Seq(C \ {e})
        BY <1>9, <2>1, IsASeq
    <2> QED
        BY <2>2, <2>3
<1>11. \A j, k \in 1..Len(w) : w[j] = w[k] => j = k
    <2> SUFFICES ASSUME NEW j \in 1..Len(w), NEW k \in 1..Len(w), w[j] = w[k]
                 PROVE  j = k
        OBVIOUS
    <2> HIDE DEF old
    <2>1. /\ old(j) \in 1..Len(s) /\ w[j] = s[old(j)]
          /\ old(k) \in 1..Len(s) /\ w[k] = s[old(k)]
        BY <1>6
    <2>2. s[old(j)] = s[old(k)]
        BY <2>1
    <2>4. \A a, b \in 1..Len(s) : s[a] = s[b] => a = b
        BY <1>1
    <2>3. old(j) = old(k)
        BY <2>1, <2>2, <2>4
    <2> QED
        BY <1>7, <2>3
<1>12. \A x \in C \ {e} : \E j \in 1..Len(w) : w[j] = x
    <2> SUFFICES ASSUME NEW x \in C \ {e}
                 PROVE  \E j \in 1..Len(w) : w[j] = x
        OBVIOUS
    <2> HIDE DEF old
    <2>1. PICK j \in 1..Len(s) : s[j] = x
        BY <1>1
    <2>2. j # i
        BY <2>1 DEF e
    <2> QED
        BY <1>6, <1>8, <2>1, <2>2
<1>14. Len(s) \in Nat /\ i \in Nat /\ i >= 1 /\ i <= Len(s)
    <2>1. Len(s) \in Nat
        BY <1>1
    <2> QED
        BY <2>1
<1>13. ASSUME NEW m \in 1..Len(w)
       PROVE  u[w[m]].prev = IF m = 1 THEN NoElem ELSE w[m - 1]
    <2>1. m \in Nat /\ m >= 1 /\ i \in Nat /\ i <= Len(s) /\ m <= Len(s) - 1
        BY <1>1, <1>5
    <2>2. w[m] \in C \ {e}
        BY <1>9
    <2>3. CASE m < i
        <3>1. m \in 1..Len(s) /\ w[m] = s[m]
            <4>1. m \in 1..Len(s) /\ m \in 1..Len(s) - 1
                BY <1>14, <2>1
            <4> QED
                BY <1>5, <2>3, <4>1
        <3>2. m # 1 => /\ m - 1 \in 1..Len(s) /\ m - 1 # i
                       /\ w[m - 1] = s[m - 1] /\ s[m - 1] # s[i]
            <4> SUFFICES ASSUME m # 1
                         PROVE  /\ m - 1 \in 1..Len(s) /\ m - 1 # i
                                /\ w[m - 1] = s[m - 1] /\ s[m - 1] # s[i]
                OBVIOUS
            <4>1. m - 1 \in 1..Len(s) - 1 /\ m - 1 \in 1..Len(s) /\ m - 1 # i /\ m - 1 < i
                BY <1>14, <2>1, <2>3
            <4>2. w[m - 1] = s[m - 1]
                BY <1>5, <4>1
            <4>3. s[m - 1] # s[i]
                BY <1>1, <4>1
            <4> QED
                BY <4>1, <4>2, <4>3
        <3>3. t[s[m]].prev # e
            <4>1. t[s[m]].prev = IF m = 1 THEN NoElem ELSE s[m - 1]
                BY <1>1, <3>1
            <4>2. e # NoElem
                BY <1>1, <1>2 DEF e
            <4> QED
                BY <3>2, <4>1, <4>2 DEF e
        <3>4. u[w[m]].prev = t[s[m]].prev
            BY <1>3, <2>2, <3>1, <3>3
        <3> QED
            BY <1>1, <3>1, <3>2, <3>4
    <2>4. CASE m >= i
        <3>1. m + 1 \in 1..Len(s) /\ w[m] = s[m + 1] /\ m + 1 # 1 /\ (m + 1) - 1 = m
            BY <1>1, <1>5, <2>1, <2>4
        <3>2. t[s[m + 1]].prev = s[m]
            <4>1. t[s[m + 1]].prev = IF m + 1 = 1 THEN NoElem ELSE s[(m + 1) - 1]
                BY <1>1, <3>1
            <4> QED
                BY <3>1, <4>1
        <3>3. CASE m = i
            <4>1. u[w[m]].prev = t[s[i]].prev
                BY <1>3, <2>2, <3>1, <3>2, <3>3 DEF e
            <4>2. m # 1 => w[m - 1] = s[m - 1]
                <5> SUFFICES ASSUME m # 1
                             PROVE  w[m - 1] = s[m - 1]
                    OBVIOUS
                <5>1. m - 1 \in 1..Len(s) - 1 /\ m - 1 < i
                    BY <1>1, <2>1, <3>3
                <5> QED
                    BY <1>5, <5>1
            <4> QED
                BY <1>1, <3>3, <4>1, <4>2
        <3>4. CASE m # i
            <4>1. m - 1 \in 1..Len(s) - 1 /\ ~ (m - 1 < i) /\ (m - 1) + 1 = m /\ m # 1
                BY <1>14, <2>1, <2>4, <3>4
            <4>2. w[m - 1] = s[m]
                BY <1>5, <4>1
            <4>3. m \in 1..Len(s)
                BY <1>1, <2>1
            <4>4. s[m] # e
                BY <1>1, <3>4, <4>3 DEF e
            <4>5. u[w[m]].prev = s[m]
                BY <1>3, <2>2, <3>1, <3>2, <4>4
            <4> QED
                BY <4>1, <4>2, <4>5
        <3> QED
            BY <3>3, <3>4
    <2>5. m < i \/ m >= i
        BY <2>1
    <2> QED
        BY <2>3, <2>4, <2>5
<1> QED
    BY <1>4, <1>10, <1>11, <1>12, <1>13 DEF IsList, w

\* The list of x once e is bypassed, whether e is a child of x or not.
LEMMA ListWithout ==
    ASSUME NEW t, IsTable(t), SoundTable(t), NEW e \in DOMAIN t,
           NEW u, NEW x, NEW s, IsList(t, x, s),
           ChildrenOf(u, x) = ChildrenOf(t, x) \ {e},
           \A y \in ChildrenOf(u, x) : u[y].prev = PrevWithout(t, e, y)
    PROVE  IsList(u, x, RemoveFirst(s, e))
<1>1. NoElem \notin DOMAIN t
    BY ElementTableAssumption DEF IsTable
<1>2. CASE t[e].parent = x
    <2>1. e \in ChildrenOf(t, x)
        BY <1>2 DEF ChildrenOf
    <2>2. PICK i \in 1..Len(s) : s[i] = e
        BY <2>1 DEF IsList
    <2>3. RemoveFirst(s, e) = RemoveAt(s, i)
        BY <2>2, RemoveFirstForm DEF IsList
    <2> QED
        BY <1>1, <2>2, <2>3, ListShrinks
<1>3. CASE t[e].parent # x
    <2>1. e \notin ChildrenOf(t, x)
        BY <1>3 DEF ChildrenOf
    <2>2. \A j \in 1..Len(s) : s[j] # e
        BY <2>1, ListFields
    <2>3. RemoveFirst(s, e) = s
        BY <2>2 DEF RemoveFirst
    <2>4. \A y \in ChildrenOf(t, x) : t[y].prev # e
        BY <1>1, <1>3 DEF SoundTable, SiblingsShareParent, ChildrenOf
    <2>5. \A y \in ChildrenOf(t, x) : u[y].prev = t[y].prev
        BY <2>1, <2>4 DEF PrevWithout
    <2>6. ChildrenOf(u, x) = ChildrenOf(t, x)
        BY <2>1
    <2> QED
        BY <2>3, <2>5, <2>6, ListKept
<1> QED
    BY <1>2, <1>3

\* n takes the place of the child e.
LEMMA ListReplaced ==
    ASSUME NEW t, NEW u, NoElem \notin DOMAIN t, NEW p, NEW s, IsList(t, p, s),
           NEW e \in ChildrenOf(t, p), NEW n, n \notin ChildrenOf(t, p),
           ChildrenOf(u, p) = (ChildrenOf(t, p) \ {e}) \cup {n},
           u[n].prev = t[e].prev,
           \A x \in ChildrenOf(t, p) \ {e} :
               u[x].prev = IF t[x].prev = e THEN n ELSE t[x].prev
    PROVE  IsList(u, p, ReplaceAll(s, e, n))
<1> DEFINE C == ChildrenOf(t, p)
           w == ReplaceAll(s, e, n)
<1>1. /\ Len(s) \in Nat /\ s \in Seq(C) /\ \A j \in 1..Len(s) : s[j] \in C
      /\ \A j, k \in 1..Len(s) : s[j] = s[k] => j = k
      /\ \A x \in C : \E j \in 1..Len(s) : s[j] = x
      /\ \A j \in 1..Len(s) : t[s[j]].prev = IF j = 1 THEN NoElem ELSE s[j - 1]
    BY ListFields DEF IsList
<1>2. NoElem \notin C
    BY DEF ChildrenOf
<1>3. w = [j \in 1..Len(s) |-> IF s[j] = e THEN n ELSE s[j]]
    BY DEF ReplaceAll
<1> HIDE DEF w
<1>4. e \in C /\ n \notin C
    OBVIOUS
<1>5. ChildrenOf(u, p) = (C \ {e}) \cup {n}
    OBVIOUS
<1>6. \A x \in C \ {e} : u[x].prev = IF t[x].prev = e THEN n ELSE t[x].prev
    OBVIOUS
<1> HIDE DEF C
<1>7. w \in Seq((C \ {e}) \cup {n}) /\ Len(w) = Len(s)
    <2>1. \A j \in 1..Len(s) : (IF s[j] = e THEN n ELSE s[j]) \in (C \ {e}) \cup {n}
        BY <1>1
    <2>2. [j \in 1..Len(s) |-> IF s[j] = e THEN n ELSE s[j]] \in Seq((C \ {e}) \cup {n})
        BY <1>1, <2>1, IsASeq
    <2>3. DOMAIN w = 1..Len(s) /\ DOMAIN w = 1..Len(w) /\ Len(w) \in Nat
        BY <1>3, <2>2, LenProperties
    <2>4. Len(w) = Len(s)
        BY <1>1, <2>3
    <2> QED
        BY <1>3, <2>2, <2>4
<1>8. \A j, k \in 1..Len(w) : w[j] = w[k] => j = k
    <2>1. \A j \in 1..Len(s) : s[j] # n
        BY <1>1, <1>4
    <2> QED
        BY <1>1, <1>3, <1>7, <2>1
<1>9. \A x \in (C \ {e}) \cup {n} : \E j \in 1..Len(w) : w[j] = x
    BY <1>1, <1>3, <1>4, <1>7
<1>10. ASSUME NEW j \in 1..Len(w)
       PROVE  u[w[j]].prev = IF j = 1 THEN NoElem ELSE w[j - 1]
    <2>1. j \in 1..Len(s) /\ (j # 1 => j - 1 \in 1..Len(s))
        BY <1>1, <1>7
    <2>2. j # 1 => w[j - 1] = IF s[j - 1] = e THEN n ELSE s[j - 1]
        BY <1>3, <2>1
    <2>3. t[s[j]].prev = IF j = 1 THEN NoElem ELSE s[j - 1]
        BY <1>1, <2>1
    <2>4. CASE s[j] = e
        <3>1. u[w[j]].prev = t[s[j]].prev
            BY <1>3, <2>1, <2>4
        <3>2. j # 1 => s[j - 1] # e
            <4> SUFFICES ASSUME j # 1, s[j - 1] = s[j]
                         PROVE  FALSE
                BY <2>4
            <4>1. j - 1 = j
                BY <1>1, <2>1
            <4> QED
                BY <2>1, <4>1
        <3> QED
            BY <2>2, <2>3, <3>1, <3>2
    <2>5. CASE s[j] # e
        <3>1. w[j] = s[j] /\ s[j] \in C \ {e}
            BY <1>1, <1>3, <2>1, <2>5
        <3>2. u[w[j]].prev = IF t[s[j]].prev = e THEN n ELSE t[s[j]].prev
            BY <1>6, <3>1
        <3> QED
            BY <1>2, <1>4, <2>2, <2>3, <3>2
    <2> QED
        BY <2>4, <2>5
<1> QED
    BY <1>5, <1>7, <1>8, <1>9, <1>10 DEF IsList, w

-----------------------------------------------------------------------------
(* The statements of the element table, as edits of the lists.             *)

LEMMA InsertIs ==
    ASSUME NEW k, NEW n, NEW p, NEW i
    PROVE  History!Insert(k, n, p, i) =
               [x \in DOMAIN k \cup {n} |->
                   IF x = n THEN <<>> ELSE IF x = p THEN InsertAt(k[p], i, n) ELSE k[x]]
BY DEF History!Insert, History!InsertAt, InsertAt

LEMMA WrapIs ==
    ASSUME NEW k, NEW n, NEW e
    PROVE  History!Wrap(k, e, n) =
               [x \in DOMAIN k \cup {n} |-> IF x = n THEN <<e>> ELSE ReplaceAll(k[x], e, n)]
BY DEF History!Wrap, History!ReplaceAll, ReplaceAll

LEMMA RemoveFirstIs ==
    ASSUME NEW s, NEW e
    PROVE  History!RemoveFirst(s, e) = RemoveFirst(s, e)
BY DEF History!RemoveFirst, RemoveFirst, History!RemoveAt, RemoveAt,
       History!SelectInSeq, SelectInSeq, History!Min, Min

LEMMA DropIs ==
    ASSUME NEW k, NEW e
    PROVE  History!Drop(k, e) =
               [x \in DOMAIN k \ History!Below(k, e) |-> RemoveFirst(k[x], e)]
BY RemoveFirstIs DEF History!Drop

LEMMA RelocateIs ==
    ASSUME NEW k, NEW e, NEW p, NEW i
    PROVE  History!Relocate(k, e, p, i) =
               [x \in DOMAIN k |->
                   IF x = p THEN InsertAt(RemoveFirst(k[x], e), i, e) ELSE RemoveFirst(k[x], e)]
BY RemoveFirstIs DEF History!Relocate, History!InsertAt, InsertAt

SoundLists(t) == IsTable(t) /\ SoundTable(t) /\ Listed(t)

LEMMA ListOf ==
    ASSUME NEW t, SoundLists(t), NEW x \in DOMAIN t \cup {NoElem}
    PROVE  IsList(t, x, Lists(t)[x])
BY ListsAreLists DEF SoundLists, SoundTable

LEMMA NoElemIsNoRow ==
    ASSUME NEW t, IsTable(t)
    PROVE  NoElem \notin DOMAIN t
BY ElementTableAssumption DEF IsTable

LEMMA NoChildrenNoList ==
    ASSUME NEW t, NEW p, ChildrenOf(t, p) = {}
    PROVE  IsList(t, p, <<>>)
<1>1. <<>> \in Seq(ChildrenOf(t, p)) /\ Len(<<>>) = 0
    BY EmptySeq
<1> QED
    BY <1>1 DEF IsList

LEMMA InsertedLists ==
    ASSUME NEW t, SoundLists(t), NEW n \in Elem, n \notin DOMAIN t, NEW r \in Row,
           r.parent \in DOMAIN t \cup {NoElem},
           r.prev \in ChildrenOf(t, r.parent) \cup {NoElem}
    PROVE  /\ Listed(Inserted(t, n, r))
           /\ \E i \in 1..Len(Lists(t)[r.parent]) + 1 :
                  Lists(Inserted(t, n, r)) = History!Insert(Lists(t), n, r.parent, i)
<1> DEFINE p == r.parent
           u == Inserted(t, n, r)
           k == Lists(t)
<1>1. IsTable(t) /\ SoundTable(t) /\ NoElem \notin DOMAIN t /\ n # NoElem
    BY ElementTableAssumption, NoElemIsNoRow DEF SoundLists
<1>2. /\ DOMAIN u = DOMAIN t \cup {n}
      /\ u[n].parent = p /\ u[n].prev = r.prev
      /\ \A x \in DOMAIN t :
             /\ u[x].parent = t[x].parent
             /\ u[x].prev = IF t[x].parent = p /\ t[x].prev = r.prev THEN n ELSE t[x].prev
    <2>1. IsTable(t)
        BY <1>1
    <2> QED
        BY <2>1, InsertedRows
<1>3. SoundTable(u)
    BY <1>1, InsertedSound
<1>4. DOMAIN k = DOMAIN t \cup {NoElem} /\ \A x \in DOMAIN t \cup {NoElem} : IsList(t, x, k[x])
    BY ListOf DEF Lists
<1> HIDE DEF u, k
<1>5. PICK i \in 1..Len(k[p]) + 1 : r.prev = LeftOf(k[p], i)
    <2>1. IsList(t, p, k[p]) /\ r.prev \in ChildrenOf(t, p) \cup {NoElem}
        BY <1>4
    <2> HIDE DEF p
    <2> QED
        BY <2>1, PlaceBehind
<1> DEFINE l == History!Insert(k, n, p, i)
<1>6. l = [x \in DOMAIN k \cup {n} |->
               IF x = n THEN <<>> ELSE IF x = p THEN InsertAt(k[p], i, n) ELSE k[x]]
    BY InsertIs
<1> HIDE DEF l
<1>7. ASSUME NEW x \in DOMAIN u \cup {NoElem}
      PROVE  IsList(u, x, l[x])
    <2>1. CASE x = n
        <3>1. \A y \in DOMAIN t : t[y].parent # n
            BY <1>1 DEF SoundTable, KeysResolve
        <3>2. ChildrenOf(u, n) = {}
            BY <1>1, <1>2, <3>1 DEF ChildrenOf
        <3>3. l[x] = <<>>
            BY <1>6, <2>1
        <3> QED
            BY <2>1, <3>2, <3>3, NoChildrenNoList
    <2>2. CASE x = p
        <3>1. ChildrenOf(u, p) = ChildrenOf(t, p) \cup {n} /\ n \notin ChildrenOf(t, p)
            BY <1>2 DEF ChildrenOf
        <3>2. \A y \in ChildrenOf(t, p) :
                  u[y].prev = IF t[y].prev = LeftOf(k[p], i) THEN n ELSE t[y].prev
            BY <1>2, <1>5 DEF ChildrenOf
        <3>3. l[x] = InsertAt(k[p], i, n)
            BY <1>1, <1>4, <1>6, <2>2
        <3>4. IsList(t, p, k[p]) /\ u[n].prev = LeftOf(k[p], i)
            BY <1>2, <1>4, <1>5
        <3>5. IsList(u, p, InsertAt(k[p], i, n))
            BY <1>1, <3>1, <3>2, <3>4, ListGrows
        <3> QED
            BY <2>2, <3>3, <3>5
    <2>3. CASE x # n /\ x # p
        <3>1. ChildrenOf(u, x) = ChildrenOf(t, x)
            BY <1>2, <2>3 DEF ChildrenOf
        <3>2. \A y \in ChildrenOf(t, x) : u[y].prev = t[y].prev
            BY <1>2, <2>3 DEF ChildrenOf
        <3>3. x \in DOMAIN t \cup {NoElem}
            BY <1>2, <2>3
        <3>4. l[x] = k[x]
            BY <1>4, <1>6, <2>3, <3>3
        <3>5. IsList(t, x, k[x])
            BY <1>4, <3>3
        <3> QED
            BY <3>1, <3>2, <3>4, <3>5, ListKept
    <2> QED
        BY <2>1, <2>2, <2>3
<1>8. l = [x \in DOMAIN l |-> l[x]] /\ DOMAIN l = DOMAIN u \cup {NoElem}
    BY <1>2, <1>4, <1>6
<1>9. Listed(u) /\ Lists(u) = l
    BY <1>3, <1>7, <1>8, ListsAre DEF SoundTable
<1> QED
    BY <1>9 DEF u, k, l

LEMMA OneChildList ==
    ASSUME NEW t, NEW p, NEW e, ChildrenOf(t, p) = {e}, t[e].prev = NoElem
    PROVE  IsList(t, p, <<e>>)
<1>1. <<e>> \in Seq(ChildrenOf(t, p)) /\ Len(<<e>>) = 1 /\ <<e>>[1] = e
    OBVIOUS
<1> HIDE DEF ChildrenOf
<1> QED
    BY <1>1 DEF IsList

LEMMA WrappedLists ==
    ASSUME NEW t, SoundLists(t), NEW n \in Elem, n \notin DOMAIN t, NEW tag \in Tag,
           NEW e \in DOMAIN t
    PROVE  LET u == Wrapped(t, e, t[e].parent, t[e].prev, n, tag)
           IN  Listed(u) /\ Lists(u) = History!Wrap(Lists(t), e, n)
<1> DEFINE p == t[e].parent
           q == t[e].prev
           u == Wrapped(t, e, p, q, n, tag)
           k == Lists(t)
           l == History!Wrap(k, e, n)
<1>1. IsTable(t) /\ SoundTable(t) /\ NoElem \notin DOMAIN t /\ n # NoElem
    BY ElementTableAssumption, NoElemIsNoRow DEF SoundLists
<1>2. /\ DOMAIN u = DOMAIN t \cup {n}
      /\ u[n].parent = p /\ u[n].prev = q
      /\ u[e].parent = n /\ u[e].prev = NoElem
      /\ \A x \in DOMAIN t \ {e} :
             /\ u[x].parent = t[x].parent
             /\ u[x].prev = IF t[x].parent = p /\ t[x].prev = e THEN n ELSE t[x].prev
    <2>1. p \in Ref /\ q \in Ref
        BY <1>1, RowFields
    <2> HIDE DEF p, q
    <2> QED
        BY <1>1, <2>1, WrappedRows
<1>3. SoundTable(u)
    BY <1>1, WrappedSound
<1>4. DOMAIN k = DOMAIN t \cup {NoElem} /\ \A x \in DOMAIN t \cup {NoElem} : IsList(t, x, k[x])
    BY ListOf DEF Lists
<1> HIDE DEF k
<1>5. l = [x \in DOMAIN k \cup {n} |-> IF x = n THEN <<e>> ELSE ReplaceAll(k[x], e, n)]
    BY WrapIs
<1>6. e \in ChildrenOf(t, p) /\ p \in DOMAIN t \cup {NoElem} /\ p # n /\ p # e
    BY <1>1, BypassSound DEF ChildrenOf, SoundTable, KeysResolve
<1>7. t[e].parent = p /\ t[e].prev = q
    OBVIOUS
<1> HIDE DEF u, l, p, q
<1>8. \A y \in DOMAIN t : t[y].parent # n
    BY <1>1 DEF SoundTable, KeysResolve
<1>9. ASSUME NEW x \in DOMAIN u \cup {NoElem}
      PROVE  IsList(u, x, l[x])
    <2>1. CASE x = n
        <3>1. ChildrenOf(u, n) = {e}
            BY <1>2, <1>6, <1>8 DEF ChildrenOf
        <3>2. l[x] = <<e>>
            BY <1>5, <2>1
        <3> QED
            BY <1>2, <2>1, <3>1, <3>2, OneChildList
    <2>2. CASE x = p
        <3>1. ChildrenOf(u, p) = (ChildrenOf(t, p) \ {e}) \cup {n} /\ n \notin ChildrenOf(t, p)
            BY <1>2, <1>6 DEF ChildrenOf
        <3>2. \A y \in ChildrenOf(t, p) \ {e} :
                  u[y].prev = IF t[y].prev = e THEN n ELSE t[y].prev
            BY <1>2 DEF ChildrenOf
        <3>3. l[x] = ReplaceAll(k[p], e, n)
            BY <1>4, <1>5, <1>6, <2>2
        <3>4. IsList(t, p, k[p])
            BY <1>4, <1>6
        <3>5. IsList(u, p, ReplaceAll(k[p], e, n))
            BY <1>1, <1>2, <1>6, <1>7, <3>1, <3>2, <3>4, ListReplaced
        <3> QED
            BY <2>2, <3>3, <3>5
    <2>3. CASE x # n /\ x # p
        <3>1. ChildrenOf(u, x) = ChildrenOf(t, x)
            BY <1>2, <1>7, <2>3 DEF ChildrenOf
        <3>2. e \notin ChildrenOf(t, x) /\ \A y \in ChildrenOf(t, x) : u[y].prev = t[y].prev
            BY <1>2, <1>7, <2>3 DEF ChildrenOf
        <3>3. x \in DOMAIN t \cup {NoElem}
            BY <1>2, <2>3
        <3>4. IsList(t, x, k[x])
            BY <1>4, <3>3
        <3>5. l[x] = k[x]
            <4>1. /\ Len(k[x]) \in Nat /\ DOMAIN k[x] = 1..Len(k[x])
                  /\ k[x] \in [1..Len(k[x]) -> ChildrenOf(t, x)]
                BY <3>4, ListFields
            <4>2. \A j \in 1..Len(k[x]) : k[x][j] # e
                BY <3>2, <4>1
            <4>3. ReplaceAll(k[x], e, n) = k[x]
                BY <4>1, <4>2 DEF ReplaceAll
            <4> QED
                BY <1>4, <1>5, <2>3, <3>3, <4>3
        <3> QED
            BY <3>1, <3>2, <3>4, <3>5, ListKept
    <2> QED
        BY <2>1, <2>2, <2>3
<1>10. l = [x \in DOMAIN l |-> l[x]] /\ DOMAIN l = DOMAIN u \cup {NoElem}
    BY <1>2, <1>4, <1>5
<1>11. Listed(u) /\ Lists(u) = l
    BY <1>3, <1>9, <1>10, ListsAre DEF SoundTable
<1> QED
    BY <1>11 DEF u, k, l, p, q

-----------------------------------------------------------------------------
(* Deleting a subtree and moving a row, as edits of the lists.             *)

LEMMA BelowIsSubtree ==
    ASSUME NEW t, SoundLists(t), NEW e
    PROVE  History!Below(Lists(t), e) = Subtree(t, e)
<1> DEFINE k == Lists(t)
<1>1. NoElem \notin DOMAIN t /\ DOMAIN k = DOMAIN t \cup {NoElem}
    BY NoElemIsNoRow DEF SoundLists, Lists
<1>2. \A x \in DOMAIN t : ToSet(k[x]) = ChildrenOf(t, x)
    BY ListOf, ListFields
<1> HIDE DEF k
<1>3. History!Live(k) = DOMAIN t
    BY <1>1 DEF History!Live
<1>4. ASSUME NEW D \in SUBSET DOMAIN t
      PROVE  (\A y \in D : ToSet(k[y]) \subseteq D)
                 <=> (\A y \in DOMAIN t : t[y].parent \in D => y \in D)
    BY <1>2 DEF ChildrenOf
<1>5. History!Below(k, e) =
          {x \in DOMAIN t :
              \A D \in SUBSET DOMAIN t :
                  (e \in D /\ \A y \in D : ToSet(k[y]) \subseteq D) => x \in D}
    BY <1>3 DEF History!Below, History!ToSet, ToSet
<1>6. ASSUME NEW x \in DOMAIN t
      PROVE  x \in History!Below(k, e) <=> x \in Subtree(t, e)
    <2>1. x \in History!Below(k, e) <=>
              \A D \in SUBSET DOMAIN t :
                  (e \in D /\ \A y \in D : ToSet(k[y]) \subseteq D) => x \in D
        BY <1>5
    <2>2. x \in Subtree(t, e) <=>
              \A D \in SUBSET DOMAIN t :
                  (e \in D /\ \A y \in DOMAIN t : t[y].parent \in D => y \in D) => x \in D
        BY DEF Subtree
    <2> QED
        BY <1>4, <2>1, <2>2
<1>7. Subtree(t, e) \subseteq DOMAIN t /\ History!Below(k, e) \subseteq DOMAIN t
    BY <1>5 DEF Subtree
<1>8. History!Below(k, e) = Subtree(t, e)
    BY <1>6, <1>7
<1> QED
    BY <1>8 DEF k

LEMMA DeletedLists ==
    ASSUME NEW t, SoundLists(t), NEW e \in DOMAIN t
    PROVE  /\ Listed(Deleted(t, e)) /\ Lists(Deleted(t, e)) = History!Drop(Lists(t), e)
           /\ e \notin DOMAIN Deleted(t, e)
<1> DEFINE u == Deleted(t, e)
           k == Lists(t)
           l == History!Drop(k, e)
<1>1. IsTable(t) /\ SoundTable(t) /\ NoElem \notin DOMAIN t
    BY NoElemIsNoRow DEF SoundLists
<1>2. PICK D \in SUBSET DOMAIN t :
          /\ D = Subtree(t, e) /\ e \in D
          /\ IsTable(u)
          /\ DOMAIN u = DOMAIN t \ D
          /\ \A x \in DOMAIN t \ D :
                 /\ t[x].parent \notin D /\ PrevWithout(t, e, x) \notin D
                 /\ u[x].parent = t[x].parent
                 /\ u[x].prev = PrevWithout(t, e, x)
    BY <1>1, DeletedRows
<1>3. SoundTable(u)
    BY <1>1, DeletedSound
<1>4. DOMAIN k = DOMAIN t \cup {NoElem} /\ \A x \in DOMAIN t \cup {NoElem} : IsList(t, x, k[x])
    BY ListOf DEF Lists
<1>5. History!Below(k, e) = D
    BY <1>2, BelowIsSubtree
<1> HIDE DEF u, k
<1>6. l = [x \in DOMAIN k \ D |-> RemoveFirst(k[x], e)]
    BY <1>5, DropIs
<1> HIDE DEF l
<1>7. \A y \in D : y # e => t[y].parent \in D
    BY <1>2, SubtreeClosed
<1>8. ASSUME NEW x \in DOMAIN u \cup {NoElem}
      PROVE  IsList(u, x, l[x])
    <2>1. x \in DOMAIN t \cup {NoElem} /\ x \notin D
        BY <1>1, <1>2
    <2>2. ChildrenOf(u, x) = ChildrenOf(t, x) \ {e}
        BY <1>2, <1>7, <2>1 DEF ChildrenOf
    <2>3. \A y \in ChildrenOf(u, x) : u[y].prev = PrevWithout(t, e, y)
        BY <1>2 DEF ChildrenOf
    <2>4. l[x] = RemoveFirst(k[x], e) /\ IsList(t, x, k[x])
        BY <1>4, <1>6, <2>1
    <2> QED
        BY <1>1, <2>2, <2>3, <2>4, ListWithout
<1>9. l = [x \in DOMAIN l |-> l[x]] /\ DOMAIN l = DOMAIN u \cup {NoElem}
    BY <1>1, <1>2, <1>4, <1>6
<1>10. Listed(u) /\ Lists(u) = l
    BY <1>3, <1>8, <1>9, ListsAre DEF SoundTable
<1> QED
    BY <1>2, <1>10 DEF u, k, l

LEMMA MovedLists ==
    ASSUME NEW t, SoundLists(t), NEW e \in DOMAIN t, NEW p \in Ref, WalkAvoids(t, p, e),
           NEW q \in (ChildrenOf(t, p) \ {e}) \cup {NoElem}
    PROVE  LET w == Moved(t, e, t[e].parent, t[e].prev, p, q)
               k == Lists(t)
           IN  /\ Listed(w) /\ DOMAIN w = DOMAIN t
               /\ p \in DOMAIN t \cup {NoElem} /\ p \notin History!Below(k, e)
               /\ \E s : IsList(w, p, s) /\ \E j \in 1..Len(s) : s[j] = e
               /\ \E i \in 1..Len(RemoveFirst(k[p], e)) + 1 :
                      Lists(w) = History!Relocate(k, e, p, i)
<1> DEFINE w == Moved(t, e, t[e].parent, t[e].prev, p, q)
           k == Lists(t)
           m == [x \in DOMAIN t \ {e} |->
                    [parent |-> t[x].parent, prev |-> PrevWithout(t, e, x)]]
<1>1. IsTable(t) /\ SoundTable(t) /\ NoElem \notin DOMAIN t /\ e # NoElem
    BY NoElemIsNoRow DEF SoundLists
<1>2. /\ DOMAIN w = DOMAIN t
      /\ w[e].parent = p /\ w[e].prev = q
      /\ \A x \in DOMAIN t \ {e} :
             /\ w[x].parent = t[x].parent
             /\ w[x].prev = IF t[x].parent = p /\ PrevWithout(t, e, x) = q
                            THEN e ELSE PrevWithout(t, e, x)
    <2>1. q \in Ref
        BY <1>1 DEF ChildrenOf, IsTable, Ref
    <2>2. IsTable(t) /\ SoundTable(t)
        BY <1>1
    <2> QED
        BY <2>1, <2>2, MovedRows
<1>3. SoundTable(w)
    BY <1>1, MovedSound
<1>4. DOMAIN k = DOMAIN t \cup {NoElem} /\ \A x \in DOMAIN t \cup {NoElem} : IsList(t, x, k[x])
    BY ListOf DEF Lists
<1>5. p \in DOMAIN t \cup {NoElem} /\ p \notin History!Below(k, e)
    <2>1. PICK A \in SUBSET (DOMAIN t \ {e}) :
              p \in A \cup {NoElem} /\ \A x \in A : t[x].parent \in A \cup {NoElem}
        BY DEF WalkAvoids
    <2>2. e \in DOMAIN t \ A /\ \A y \in DOMAIN t : t[y].parent \in DOMAIN t \ A => y \in DOMAIN t \ A
        BY <1>1, <2>1
    <2>3. Subtree(t, e) \subseteq DOMAIN t \ A
        BY <2>2 DEF Subtree
    <2> QED
        BY <1>1, <2>1, <2>3, BelowIsSubtree
<1> HIDE DEF w, k
<1>6. /\ DOMAIN m = DOMAIN t \ {e}
      /\ \A x \in DOMAIN t \ {e} : m[x].parent = t[x].parent /\ m[x].prev = PrevWithout(t, e, x)
    OBVIOUS
<1> HIDE DEF m
<1>7. \A x : ChildrenOf(m, x) = ChildrenOf(t, x) \ {e}
    BY <1>6 DEF ChildrenOf
<1>8. ASSUME NEW x \in DOMAIN t \cup {NoElem}
      PROVE  IsList(m, x, RemoveFirst(k[x], e))
    <2>1. \A y \in ChildrenOf(m, x) : m[y].prev = PrevWithout(t, e, y)
        BY <1>6 DEF ChildrenOf
    <2>2. IsList(t, x, k[x])
        BY <1>4
    <2> QED
        BY <1>1, <1>7, <2>1, <2>2, ListWithout
<1> DEFINE s == RemoveFirst(k[p], e)
<1>9. IsList(m, p, s)
    BY <1>5, <1>8
<1> HIDE DEF s
<1>10. q \in ChildrenOf(m, p) \cup {NoElem}
    BY <1>7
<1>11. PICK i \in 1..Len(s) + 1 : q = LeftOf(s, i)
    BY <1>9, <1>10, PlaceBehind
<1> DEFINE l == History!Relocate(k, e, p, i)
<1>12. l = [x \in DOMAIN k |->
               IF x = p THEN InsertAt(RemoveFirst(k[x], e), i, e) ELSE RemoveFirst(k[x], e)]
    BY RelocateIs
<1> HIDE DEF l
<1>13. IsList(w, p, InsertAt(s, i, e))
    <2>1. e \notin ChildrenOf(m, p) /\ NoElem \notin DOMAIN m
        BY <1>1, <1>6, <1>7
    <2>2. ChildrenOf(w, p) = ChildrenOf(m, p) \cup {e}
        BY <1>2, <1>6 DEF ChildrenOf
    <2>3. \A x \in ChildrenOf(m, p) : w[x].prev = IF m[x].prev = LeftOf(s, i) THEN e ELSE m[x].prev
        BY <1>2, <1>6, <1>11 DEF ChildrenOf
    <2>4. w[e].prev = LeftOf(s, i)
        BY <1>2, <1>11
    <2> QED
        BY <1>9, <2>1, <2>2, <2>3, <2>4, ListGrows
<1>14. ASSUME NEW x \in DOMAIN w \cup {NoElem}
       PROVE  IsList(w, x, l[x])
    <2>1. x \in DOMAIN k /\ x \in DOMAIN t \cup {NoElem}
        BY <1>2, <1>4
    <2>2. CASE x = p
        <3>1. l[x] = InsertAt(s, i, e)
            BY <1>12, <2>1, <2>2 DEF s
        <3> QED
            BY <1>13, <2>2, <3>1
    <2>3. CASE x # p
        <3>1. l[x] = RemoveFirst(k[x], e)
            BY <1>12, <2>1, <2>3
        <3>2. ChildrenOf(w, x) = ChildrenOf(m, x)
            BY <1>2, <1>6, <2>3 DEF ChildrenOf
        <3>3. \A y \in ChildrenOf(m, x) : w[y].prev = m[y].prev
            BY <1>2, <1>6, <2>3 DEF ChildrenOf
        <3> QED
            BY <1>8, <2>1, <3>1, <3>2, <3>3, ListKept
    <2> QED
        BY <2>2, <2>3
<1>15. l = [x \in DOMAIN l |-> l[x]] /\ DOMAIN l = DOMAIN w \cup {NoElem}
    BY <1>2, <1>4, <1>12
<1>16. Listed(w) /\ Lists(w) = l
    BY <1>3, <1>14, <1>15, ListsAre DEF SoundTable
<1>17. \E j \in 1..Len(InsertAt(s, i, e)) : InsertAt(s, i, e)[j] = e
    <2>1. e \in ChildrenOf(w, p)
        BY <1>2 DEF ChildrenOf
    <2> QED
        BY <1>13, <2>1 DEF IsList
<1>18. \E i_1 \in 1..Len(s) + 1 : Lists(w) = History!Relocate(k, e, p, i_1)
    BY <1>16 DEF l
<1> QED
    BY <1>2, <1>5, <1>13, <1>16, <1>17, <1>18 DEF w, k, s

-----------------------------------------------------------------------------
(* Revisions: the number of a revision is the count of those before it.    *)

\* How many of the numbers R are at most s.
Rank(R, s) == Cardinality({u \in R : u <= s})

LEMMA RankBounds ==
    ASSUME NEW R \in SUBSET Nat, IsFiniteSet(R), NEW s \in R
    PROVE  Rank(R, s) \in 1..Cardinality(R) /\ Cardinality(R) \in Nat
<1> DEFINE S == {u \in R : u <= s}
<1>1. S \in SUBSET R /\ s \in S
    OBVIOUS
<1> HIDE DEF S
<1>2. IsFiniteSet(S) /\ Cardinality(S) <= Cardinality(R)
    BY <1>1, FS_Subset
<1>3. Cardinality(S) \in Nat /\ Cardinality(R) \in Nat
    BY <1>2, FS_CardinalityType
<1>4. Cardinality(S) # 0
    BY <1>1, <1>2, FS_EmptySet
<1> QED
    BY <1>2, <1>3, <1>4 DEF Rank, S

LEMMA RankGrows ==
    ASSUME NEW R \in SUBSET Nat, IsFiniteSet(R), NEW s \in R, NEW v \in R, s < v
    PROVE  Rank(R, s) < Rank(R, v)
<1> DEFINE S == {u \in R : u <= s}
           V == {u \in R : u <= v}
<1>1. S \in SUBSET V /\ v \in V /\ v \notin S /\ V \in SUBSET R
    <2>1. \A u \in R : u <= s => u <= v
        OBVIOUS
    <2>2. v <= v /\ ~ (v <= s)
        OBVIOUS
    <2> QED
        BY <2>1, <2>2
<1> HIDE DEF S, V
<1>2. IsFiniteSet(V)
    BY <1>1, FS_Subset
<1>3. IsFiniteSet(S) /\ Cardinality(S) <= Cardinality(V) /\ Cardinality(S) # Cardinality(V)
    BY <1>1, <1>2, FS_Subset
<1>4. Cardinality(S) \in Nat /\ Cardinality(V) \in Nat
    BY <1>2, <1>3, FS_CardinalityType
<1> QED
    BY <1>3, <1>4 DEF Rank, S, V

LEMMA RankIsOneToOne ==
    ASSUME NEW R \in SUBSET Nat, IsFiniteSet(R), NEW s \in R, NEW v \in R,
           Rank(R, s) = Rank(R, v)
    PROVE  s = v
<1>1. Rank(R, s) \in Nat /\ Rank(R, v) \in Nat
    BY RankBounds
<1>2. ~ (s < v) /\ ~ (v < s)
    BY <1>1, RankGrows
<1> QED
    BY <1>2

LEMMA RankIsOnto ==
    ASSUME NEW R \in SUBSET Nat, IsFiniteSet(R), NEW i \in 1..Cardinality(R)
    PROVE  \E s \in R : Rank(R, s) = i
<1> DEFINE n == Cardinality(R)
           f == [s \in R |-> Rank(R, s)]
<1>1. n \in Nat
    BY FS_CardinalityType
<1>2. f \in [R -> 1..n]
    BY RankBounds
<1>3. \A s, v \in DOMAIN f : f[s] = f[v] => s = v
    BY RankIsOneToOne
<1>4. IsFiniteSet(1..n) /\ Cardinality(1..n) = n
    BY <1>1, FS_Interval
<1> HIDE DEF f
<1>5. f \in Injection(R, 1..n)
    BY <1>2, <1>3 DEF Injection, IsInjective
<1>6. f \in Surjection(R, 1..n)
    BY <1>4, <1>5, FS_Injection
<1> QED
    BY <1>6 DEF Surjection, f

-----------------------------------------------------------------------------
(* The revisions r as a list of forests *)

Numbered(r) == DOMAIN r \in SUBSET Nat /\ IsFiniteSet(DOMAIN r)

Forests(r) ==
    [i \in 1..Cardinality(DOMAIN r) |->
        Lists(r[CHOOSE s \in DOMAIN r : Rank(DOMAIN r, s) = i].rows)]

LEMMA ForestOf ==
    ASSUME NEW r, Numbered(r), NEW s \in DOMAIN r
    PROVE  /\ Rank(DOMAIN r, s) \in DOMAIN Forests(r)
           /\ Forests(r)[Rank(DOMAIN r, s)] = Lists(r[s].rows)
<1> DEFINE R == DOMAIN r
           i == Rank(R, s)
           c == CHOOSE v \in R : Rank(R, v) = i
<1>1. R \in SUBSET Nat /\ IsFiniteSet(R)
    BY DEF Numbered
<1>2. i \in 1..Cardinality(R)
    BY <1>1, RankBounds
<1>3. c \in R /\ Rank(R, c) = i
    OBVIOUS
<1> HIDE DEF c
<1>4. c = s
    BY <1>1, <1>3, RankIsOneToOne
<1>5. Forests(r)[i] = Lists(r[c].rows)
    BY <1>2 DEF Forests, c
<1> QED
    BY <1>2, <1>4, <1>5 DEF Forests

LEMMA ForestsAreASeq ==
    ASSUME NEW r, Numbered(r)
    PROVE  /\ Cardinality(DOMAIN r) \in Nat
           /\ DOMAIN Forests(r) = 1..Cardinality(DOMAIN r)
           /\ Len(Forests(r)) = Cardinality(DOMAIN r)
           /\ Forests(r) \in Seq({Forests(r)[i] : i \in 1..Cardinality(DOMAIN r)})
           /\ \A i \in 1..Cardinality(DOMAIN r) : \E s \in DOMAIN r : Rank(DOMAIN r, s) = i
<1> DEFINE n == Cardinality(DOMAIN r)
           X == {Forests(r)[i] : i \in 1..n}
<1>1. n \in Nat
    BY FS_CardinalityType DEF Numbered
<1>2. DOMAIN Forests(r) = 1..n
    BY DEF Forests
<1>3. Forests(r) = [i \in 1..n |-> Forests(r)[i]]
    BY DEF Forests
<1>4. [i \in 1..n |-> Forests(r)[i]] \in Seq(X)
    <2>1. \A i \in 1..n : Forests(r)[i] \in X
        OBVIOUS
    <2> HIDE DEF X, n
    <2> QED
        BY <1>1, <2>1, IsASeq
<1>5. Forests(r) \in Seq(X)
    BY <1>3, <1>4
<1>6. Len(Forests(r)) = n
    <2> HIDE DEF X, n
    <2>1. DOMAIN Forests(r) = 1..Len(Forests(r)) /\ Len(Forests(r)) \in Nat
        BY <1>5, LenProperties
    <2> QED
        BY <1>1, <1>2, <2>1
<1>7. \A i \in 1..n : \E s \in DOMAIN r : Rank(DOMAIN r, s) = i
    BY RankIsOnto DEF Numbered
<1> QED
    BY <1>1, <1>2, <1>5, <1>6, <1>7

\* q holds the revisions of r up to the cursor c, and a new one, v.
ReplacesRedo(r, c, v, q) ==
    /\ c \in DOMAIN r /\ v \in Nat /\ \A s \in DOMAIN r : s < v
    /\ DOMAIN q = {s \in DOMAIN r : s <= c} \cup {v}
    /\ \A s \in DOMAIN r : s <= c => q[s].rows = r[s].rows

Recorded(r, c, v, q) ==
    /\ Rank(DOMAIN q, v) = Rank(DOMAIN r, c) + 1
    /\ Forests(q) = Append(SubSeq(Forests(r), 1, Rank(DOMAIN r, c)), Lists(q[v].rows))

\* A snapshot forgets what comes after the cursor c and appends its rows.
LEMMA SnapshotForests ==
    ASSUME NEW r, Numbered(r), NEW c, NEW v, NEW q, ReplacesRedo(r, c, v, q)
    PROVE  Recorded(r, c, v, q)
<1> DEFINE R == DOMAIN r
           Q == DOMAIN q
           K == {s \in R : s <= c}
           a == Rank(R, c)
           F == Forests(r)
           G == Forests(q)
           X == {F[i] : i \in 1..Cardinality(R)} \cup {Lists(q[v].rows)}
           w == Append(SubSeq(F, 1, a), Lists(q[v].rows))
<1>0. /\ c \in R /\ v \in Nat /\ \A s \in R : s < v
      /\ DOMAIN q = {s \in R : s <= c} \cup {v}
      /\ \A s \in R : s <= c => q[s].rows = r[s].rows
    BY DEF ReplacesRedo
<1>1. R \in SUBSET Nat /\ IsFiniteSet(R) /\ Q = K \cup {v} /\ v \notin K
    BY <1>0 DEF Numbered
<1>2. a \in 1..Cardinality(R) /\ Cardinality(R) \in Nat /\ a = Cardinality(K)
    BY <1>0, <1>1, RankBounds DEF Rank
<1>3. IsFiniteSet(K) /\ K \subseteq R
    BY <1>0, <1>1, FS_Subset
<1>4. Q \in SUBSET Nat /\ IsFiniteSet(Q) /\ Cardinality(Q) = a + 1
    <2> HIDE DEF K, Q, a
    <2>1. IsFiniteSet(K \cup {v}) /\ Cardinality(K \cup {v}) = Cardinality(K) + 1
        BY <1>0, <1>1, <1>3, FS_AddElement
    <2> QED
        BY <1>0, <1>1, <1>2, <1>3, <2>1
<1>5. Numbered(q)
    BY <1>4 DEF Numbered
<1>6. Rank(Q, v) = a + 1
    <2>1. {u \in Q : u <= v} = Q
        BY <1>0, <1>1
    <2> QED
        BY <1>4, <2>1 DEF Rank
<1>7. \A s \in K : Rank(Q, s) = Rank(R, s)
    <2> SUFFICES ASSUME NEW s \in K
                 PROVE  Rank(Q, s) = Rank(R, s)
        OBVIOUS
    <2>1. {u \in Q : u <= s} = {u \in R : u <= s}
        BY <1>0, <1>1
    <2> QED
        BY <2>1 DEF Rank
<1>8. ASSUME NEW s \in R, Rank(R, s) <= a
      PROVE  s \in K
    <2>1. ~ (c < s)
        <3> SUFFICES ASSUME c < s
                     PROVE  FALSE
            OBVIOUS
        <3>1. Rank(R, c) < Rank(R, s) /\ Rank(R, c) \in Nat /\ Rank(R, s) \in Nat
            BY <1>0, <1>1, RankGrows, RankBounds
        <3> QED
            BY <1>8, <3>1
    <2> QED
        BY <1>0, <1>1, <2>1
<1> HIDE DEF R, Q, K, a
<1>9. /\ DOMAIN F = 1..Cardinality(R) /\ Len(F) = Cardinality(R)
      /\ \A i \in 1..Cardinality(R) : \E s \in R : Rank(R, s) = i
    BY ForestsAreASeq DEF R
<1>10. F \in Seq(X)
    <2>1. F \in Seq({F[i] : i \in 1..Cardinality(R)})
        BY ForestsAreASeq DEF R
    <2> HIDE DEF F
    <2>2. {F[i] : i \in 1..Cardinality(R)} \subseteq X
        OBVIOUS
    <2> HIDE DEF X
    <2> QED
        BY <2>1, <2>2, SeqMonotonic
<1>11. Lists(q[v].rows) \in X
    OBVIOUS
<1> HIDE DEF F, X
<1>12. /\ SubSeq(F, 1, a) \in Seq(X) /\ Len(SubSeq(F, 1, a)) = a
       /\ \A i \in 1..a : SubSeq(F, 1, a)[i] = F[i]
    <2>1. \A i \in 1..a : F[i] \in X
        <3>1. \A i \in 1..Len(F) : F[i] \in X
            BY <1>10, ElementOfSeq
        <3> QED
            BY <1>2, <1>9, <3>1
    <2>2. /\ SubSeq(F, 1, a) \in Seq(X)
          /\ Len(SubSeq(F, 1, a)) = IF 1 <= a THEN a - 1 + 1 ELSE 0
          /\ \A i \in 1..a - 1 + 1 : SubSeq(F, 1, a)[i] = F[1 + i - 1]
        BY <1>2, <2>1, SubSeqProperties
    <2> QED
        BY <1>2, <2>2
<1>13. /\ w \in Seq(X) /\ Len(w) = a + 1
       /\ \A i \in 1..a : w[i] = F[i]
       /\ w[a + 1] = Lists(q[v].rows)
    <2> DEFINE b == SubSeq(F, 1, a)
               y == Lists(q[v].rows)
    <2> HIDE DEF b, y
    <2>1. b \in Seq(X) /\ y \in X /\ Len(b) = a /\ a \in Nat
        BY <1>2, <1>11, <1>12 DEF b, y
    <2>2. /\ Append(b, y) \in Seq(X) /\ Len(Append(b, y)) = a + 1
          /\ \A i \in 1..a : Append(b, y)[i] = b[i]
          /\ Append(b, y)[a + 1] = y
        BY <2>1
    <2> QED
        BY <1>12, <2>2 DEF b, y
<1>14. DOMAIN w = 1..a + 1
    <2> HIDE DEF w
    <2> QED
        BY <1>13, LenProperties
<1>15. DOMAIN G = 1..a + 1
    BY <1>4, <1>5, ForestsAreASeq DEF Q
<1>16. ASSUME NEW i \in 1..a + 1
       PROVE  G[i] = w[i]
    <2>1. CASE i = a + 1
        <3>1. v \in Q
            BY <1>0, <1>1
        <3>2. G[Rank(Q, v)] = Lists(q[v].rows)
            BY <1>5, <3>1, ForestOf DEF Q
        <3> QED
            BY <1>6, <1>13, <2>1, <3>2
    <2>2. CASE i # a + 1
        <3>1. i \in 1..a /\ i \in 1..Cardinality(R) /\ i <= a
            BY <1>2, <2>2
        <3>2. PICK s \in R : Rank(R, s) = i
            BY <1>9, <3>1
        <3>3. s \in K /\ s \in Q
            BY <1>0, <1>1, <1>8, <3>1, <3>2
        <3>4. G[Rank(Q, s)] = Lists(q[s].rows)
            BY <1>5, <3>3, ForestOf DEF Q
        <3>5. F[Rank(R, s)] = Lists(r[s].rows)
            BY ForestOf, <3>2 DEF F, R
        <3>6. q[s].rows = r[s].rows
            BY <1>0, <3>3 DEF K, R
        <3> QED
            BY <1>7, <1>13, <3>1, <3>2, <3>3, <3>4, <3>5, <3>6
    <2> QED
        BY <2>1, <2>2
<1>17. G = [i \in DOMAIN G |-> G[i]] /\ w = [i \in DOMAIN w |-> w[i]]
    <2>1. G = [i \in DOMAIN G |-> G[i]]
        BY DEF Forests
    <2>2. w = [i \in DOMAIN w |-> w[i]]
        <3> HIDE DEF w
        <3>1. w \in [1..Len(w) -> X]
            BY <1>13, LenProperties
        <3> QED
            BY <3>1
    <2> QED
        BY <2>1, <2>2
<1> HIDE DEF G, w
<1>18. G = w
    BY <1>14, <1>15, <1>16, <1>17
<1> QED
    BY <1>6, <1>18 DEF G, w, F, Q, R, a, Recorded

\* What undo goes back to is one place to the left.
LEMMA NeighbourRank ==
    ASSUME NEW R \in SUBSET Nat, IsFiniteSet(R), NEW s \in R, NEW c \in R, s < c,
           \A u \in R : u < c => u <= s
    PROVE  Rank(R, c) = Rank(R, s) + 1
<1> DEFINE S == {u \in R : u <= s}
<1>1. {u \in R : u <= c} = S \cup {c} /\ c \notin S /\ S \in SUBSET R
    <2>1. \A u \in R : u <= c <=> (u <= s \/ u = c)
        OBVIOUS
    <2>2. ~ (c <= s)
        OBVIOUS
    <2> QED
        BY <2>1, <2>2
<1> HIDE DEF S
<1>2. IsFiniteSet(S)
    BY <1>1, FS_Subset
<1>3. Cardinality(S \cup {c}) = Cardinality(S) + 1
    BY <1>1, <1>2, FS_AddElement
<1> QED
    BY <1>1, <1>3 DEF Rank, S

-----------------------------------------------------------------------------
(* The invariant of the refinement.                                        *)

\* Every table, past or present, has its lists.
HistoryListed == Listed(elements) /\ \A s \in DOMAIN revisions : Listed(revisions[s].rows)

HInv == IInv /\ HistoryListed

LEMMA MappingIs ==
    /\ \A s : UpTo(s) = Rank(DOMAIN revisions, s)
    /\ HistoryOfForests = Forests(revisions)
BY DEF UpTo, Rank, HistoryOfForests, Forests

LEMMA NextMappingIs ==
    /\ \A s : UpTo(s)' = Rank(DOMAIN revisions', s)
    /\ HistoryOfForests' = Forests(revisions')
    /\ Lists(elements)' = Lists(elements')
BY DEF UpTo, Rank, HistoryOfForests, Forests, Lists, Ordered, ChildrenOf

LEMMA RevisionsNumbered ==
    ASSUME IInv
    PROVE  /\ Numbered(revisions) /\ cursor \in DOMAIN revisions
           /\ DOMAIN revisions \subseteq 0..now /\ now \in Nat
<1>1. DOMAIN revisions \subseteq 0..now /\ now \in Nat /\ cursor \in DOMAIN revisions
    BY DEF IInv, TypeOK
<1>2. IsFiniteSet(0..now)
    BY <1>1, FS_Interval
<1>3. IsFiniteSet(DOMAIN revisions)
    BY <1>1, <1>2, FS_Subset
<1> QED
    BY <1>1, <1>3 DEF Numbered

LEMMA HInvLists ==
    ASSUME HInv
    PROVE  SoundLists(elements) /\ \A s \in DOMAIN revisions : SoundLists(revisions[s].rows)
BY DEF HInv, HistoryListed, SoundLists, IInv, TypeOK, PageIsSound, RevisionsSound

-----------------------------------------------------------------------------

\* A handler that ends in a snapshot is an edit, if its rows are.
LEMMA SnapshotIsEdit ==
    ASSUME HInv, Tick, SnapshotPage, Listed(elements'), DOMAIN elements' \subseteq Elem,
           History!MayBecome(Lists(elements), Lists(elements'))
    PROVE  History!Edit /\ HistoryListed'
<1> DEFINE R == DOMAIN revisions
           v == now + 1
           kept == {s \in R : s <= cursor}
<1>1. /\ Numbered(revisions) /\ cursor \in R /\ R \subseteq 0..now /\ now \in Nat
    BY RevisionsNumbered DEF HInv
<1>2. PICK o \in SnapshotOrders(elements', created') :
          /\ revisions' = [s \in kept \cup {v} |->
                              IF s = v THEN [rows |-> elements', order |-> o]
                              ELSE revisions[s]]
          /\ cursor' = v
    BY DEF SnapshotPage
<1>3. v \in Nat /\ \A s \in R : s < v
    BY <1>1
<1>4. /\ DOMAIN revisions' = kept \cup {v} /\ cursor' = v
      /\ revisions'[v].rows = elements'
      /\ \A s \in R : s <= cursor => revisions'[s].rows = revisions[s].rows
    BY <1>2, <1>3
<1> HIDE DEF v
<1>5. /\ Rank(DOMAIN revisions', v) = Rank(R, cursor) + 1
      /\ Forests(revisions') =
             Append(SubSeq(Forests(revisions), 1, Rank(R, cursor)), Lists(revisions'[v].rows))
    <2> DEFINE q == revisions'
    <2> HIDE DEF q
    <2>1. ReplacesRedo(revisions, cursor, v, q)
        BY <1>1, <1>3, <1>4 DEF ReplacesRedo, q
    <2>5. Recorded(revisions, cursor, v, q)
        BY <1>1, <2>1, SnapshotForests
    <2> QED
        BY <2>5 DEF q, Recorded
<1>6. History!Record
    <2>1. Forests(revisions') =
              Append(SubSeq(Forests(revisions), 1, UpTo(cursor)), Lists(elements'))
        BY <1>4, <1>5, MappingIs
    <2>2. UpTo(cursor)' = UpTo(cursor) + 1
        <3>1. UpTo(cursor)' = Rank(DOMAIN revisions', cursor')
            BY DEF UpTo, Rank
        <3> QED
            BY <1>4, <1>5, <3>1, MappingIs
    <2> QED
        BY <2>1, <2>2, MappingIs, NextMappingIs DEF History!Record
<1>7. History!Live(Lists(elements')) \subseteq Elem
    BY DEF History!Live, Lists
<1>8. History!Edit
    BY <1>6, <1>7, NextMappingIs DEF History!Edit
<1>9. HistoryListed'
    <2>1. \A s \in DOMAIN revisions' : Listed(revisions'[s].rows)
        BY <1>4 DEF HInv, HistoryListed
    <2> QED
        BY <2>1 DEF HistoryListed
<1> QED
    BY <1>8, <1>9

-----------------------------------------------------------------------------
(* Each handler is an edit of EditHistory.                                 *)

LEMMA MayInsert ==
    ASSUME NEW k, NEW l, NEW n, n \in DOMAIN l, n \notin DOMAIN k, NEW p \in DOMAIN k,
           NEW i \in 1..Len(k[p]) + 1, l = History!Insert(k, n, p, i)
    PROVE  History!MayBecome(k, l)
BY DEF History!MayBecome

LEMMA MayWrap ==
    ASSUME NEW k, NEW l, NEW n, n \in DOMAIN l, n \notin DOMAIN k,
           NEW e \in History!Live(k), l = History!Wrap(k, e, n)
    PROVE  History!MayBecome(k, l)
BY DEF History!MayBecome

LEMMA MayDrop ==
    ASSUME NEW k, NEW l, NEW e, e \in History!Live(k), e \notin DOMAIN l,
           l = History!Drop(k, e)
    PROVE  History!MayBecome(k, l)
BY DEF History!MayBecome

LEMMA MayRelocate ==
    ASSUME NEW k, NEW l, DOMAIN l = DOMAIN k, NEW p \in DOMAIN k, NEW e, e \in ToSet(l[p]),
           NEW i \in 1..Len(RemoveFirst(k[p], e)) + 1,
           l = History!Relocate(k, e, p, i), p \notin History!Below(k, e)
    PROVE  History!MayBecome(k, l)
<1>1. History!RemoveFirst(k[p], e) = RemoveFirst(k[p], e)
    BY RemoveFirstIs
<1>2. e \in History!ToSet(l[p])
    BY DEF History!ToSet, ToSet
<1> QED
    BY <1>1, <1>2 DEF History!MayBecome

-----------------------------------------------------------------------------

LEMMA InsertIsEdit ==
    ASSUME HInv, Tick, SnapshotPage, NEW n \in Unused, NEW r \in Row,
           r.parent \in DOMAIN elements \cup {NoElem},
           r.prev \in ChildrenOf(elements, r.parent) \cup {NoElem},
           elements' = Inserted(elements, n, r)
    PROVE  History!Edit /\ HistoryListed'
<1> DEFINE p == r.parent
           k == Lists(elements)
           l == Lists(elements')
<1>1. SoundLists(elements) /\ n \in Elem /\ n \notin DOMAIN elements /\ n # NoElem
    BY HInvLists, UnusedIsFresh, ElementTableAssumption
<1>2. IsTable(elements) /\ SoundTable(elements)
    BY <1>1 DEF SoundLists
<1>3. DOMAIN elements' = DOMAIN elements \cup {n}
    BY <1>1, <1>2, InsertedSound
<1>4. Listed(elements') /\ \E i \in 1..Len(k[p]) + 1 : l = History!Insert(k, n, p, i)
    BY <1>1, InsertedLists
<1>5. /\ n \in DOMAIN l /\ n \notin DOMAIN k /\ p \in DOMAIN k
      /\ DOMAIN elements' \subseteq Elem
    BY <1>1, <1>2, <1>3 DEF Lists, IsTable
<1> HIDE DEF k, l, p
<1>6. History!MayBecome(k, l)
    BY <1>4, <1>5, MayInsert
<1> QED
    BY <1>4, <1>5, <1>6, SnapshotIsEdit DEF k, l

LEMMA AddElementIsEdit ==
    ASSUME HInv, NEW p \in Ref, NEW tag \in Tag, NEW n \in Unused, AddElement(p, tag, n)
    PROVE  History!Edit /\ HistoryListed'
<1>1. /\ Tick /\ SnapshotPage
      /\ p # NoElem => p \in DOMAIN elements
    BY DEF AddElement
<1>2. PICK q \in IF LastSiblings(elements, p) = {} THEN {NoElem}
                 ELSE LastSiblings(elements, p) :
          \E r \in NewRows(p, q, tag) : elements' = Inserted(elements, n, r)
    BY DEF AddElement
<1>3. PICK r \in NewRows(p, q, tag) : elements' = Inserted(elements, n, r)
    BY <1>2
<1>4. q \in ChildrenOf(elements, p) \cup {NoElem}
    BY <1>2 DEF LastSiblings
<1>5. q \in Ref
    BY <1>4 DEF ChildrenOf, HInv, IInv, TypeOK, IsTable, Ref
<1>6. r \in Row /\ r.parent = p /\ r.prev = q
    BY <1>3, <1>5, NewRowsAreRows
<1> QED
    BY <1>1, <1>3, <1>4, <1>6, InsertIsEdit

LEMMA AddAfterIsEdit ==
    ASSUME HInv, NEW e \in Elem, NEW tag \in Tag, NEW n \in Unused, AddAfter(e, tag, n)
    PROVE  History!Edit /\ HistoryListed'
<1> DEFINE p == elements[e].parent
<1>1. Tick /\ e \in DOMAIN elements /\ SnapshotPage
    BY DEF AddAfter
<1>2. IsTable(elements) /\ SoundTable(elements)
    BY DEF HInv, IInv, TypeOK, PageIsSound
<1>3. p \in Ref /\ e \in Ref
    BY <1>1, <1>2, RowFields DEF Ref
<1>4. PICK r \in NewRows(p, e, tag) : elements' = Inserted(elements, n, r)
    BY DEF AddAfter
<1>5. p \in DOMAIN elements \cup {NoElem} /\ e \in ChildrenOf(elements, p)
    BY <1>1, <1>2 DEF SoundTable, KeysResolve, ChildrenOf
<1> HIDE DEF p
<1>6. r \in Row /\ r.parent = p /\ r.prev = e
    BY <1>3, <1>4, NewRowsAreRows
<1> QED
    BY <1>1, <1>4, <1>5, <1>6, InsertIsEdit

LEMMA AddBeforeIsEdit ==
    ASSUME HInv, NEW e \in Elem, NEW tag \in Tag, NEW n \in Unused, AddBefore(e, tag, n)
    PROVE  History!Edit /\ HistoryListed'
<1> DEFINE p == elements[e].parent
           q == elements[e].prev
<1>1. Tick /\ e \in DOMAIN elements /\ SnapshotPage
    BY DEF AddBefore
<1>2. IsTable(elements) /\ SoundTable(elements)
    BY DEF HInv, IInv, TypeOK, PageIsSound
<1>3. p \in Ref /\ q \in Ref
    BY <1>1, <1>2, RowFields
<1>4. PICK r \in NewRows(p, q, tag) : elements' = SetPrev(Inserted(elements, n, r), {e}, n)
    BY DEF AddBefore
<1>5. /\ p \in DOMAIN elements \cup {NoElem}
      /\ q \in ChildrenOf(elements, p) \cup {NoElem}
    BY <1>1, <1>2 DEF SoundTable, KeysResolve, SiblingsShareParent
<1>6. elements[e].parent = p /\ elements[e].prev = q
    OBVIOUS
<1> HIDE DEF p, q
<1>7. r \in Row /\ r.parent = p /\ r.prev = q
    BY <1>3, <1>4, NewRowsAreRows
<1>8. elements' = Inserted(elements, n, r)
    BY <1>1, <1>2, <1>4, <1>6, <1>7, UnusedIsFresh, InsertedBefore
<1> QED
    BY <1>1, <1>5, <1>7, <1>8, InsertIsEdit

LEMMA DuplicateElementIsEdit ==
    ASSUME HInv, NEW e \in Elem, NEW n \in Unused, DuplicateElement(e, n)
    PROVE  History!Edit /\ HistoryListed'
<1> DEFINE r == [elements[e] EXCEPT !.prev = e]
<1>1. /\ Tick /\ e \in DOMAIN elements /\ SnapshotPage
      /\ elements' = Inserted(elements, n, r)
    BY DEF DuplicateElement
<1>2. IsTable(elements) /\ SoundTable(elements)
    BY DEF HInv, IInv, TypeOK, PageIsSound
<1>3. elements[e] \in Row
    BY <1>1, <1>2, RowFields
<1>4. r \in Row /\ r.parent = elements[e].parent /\ r.prev = e
    BY <1>3 DEF Row, Ref
<1> HIDE DEF r
<1>5. r.parent \in DOMAIN elements \cup {NoElem}
    BY <1>1, <1>2, <1>4 DEF SoundTable, KeysResolve
<1>6. r.prev \in ChildrenOf(elements, r.parent) \cup {NoElem}
    BY <1>1, <1>4 DEF ChildrenOf
<1> QED
    BY <1>1, <1>4, <1>5, <1>6, InsertIsEdit

LEMMA WrapElementIsEdit ==
    ASSUME HInv, NEW e \in Elem, NEW tag \in Tag, NEW n \in Unused,
           WrapElement(e, tag, n)
    PROVE  History!Edit /\ HistoryListed'
<1> DEFINE p == elements[e].parent
           q == elements[e].prev
           u == Wrapped(elements, e, p, q, n, tag)
           k == Lists(elements)
<1>1. Tick /\ e \in DOMAIN elements /\ SnapshotPage /\ elements' = u
    BY DEF WrapElement
<1>2. SoundLists(elements) /\ n \in Elem /\ n \notin DOMAIN elements /\ n # NoElem
    BY HInvLists, UnusedIsFresh, ElementTableAssumption
<1>3. IsTable(elements) /\ SoundTable(elements)
    BY <1>2 DEF SoundLists
<1>4. DOMAIN u = DOMAIN elements \cup {n}
    <2>1. p \in Ref /\ q \in Ref
        BY <1>1, <1>3, RowFields
    <2> HIDE DEF p, q
    <2> QED
        BY <1>1, <1>2, <1>3, <2>1, WrappedRows
<1>5. Listed(u) /\ Lists(u) = History!Wrap(k, e, n)
    BY <1>1, <1>2, WrappedLists
<1> HIDE DEF u
<1>6. /\ n \in DOMAIN Lists(u) /\ n \notin DOMAIN k /\ e \in History!Live(k)
      /\ DOMAIN u \subseteq Elem
    BY <1>1, <1>2, <1>3, <1>4, NoElemIsNoRow DEF Lists, IsTable, History!Live
<1> HIDE DEF k
<1>7. History!MayBecome(k, Lists(u))
    BY <1>5, <1>6, MayWrap
<1> QED
    BY <1>1, <1>5, <1>6, <1>7, SnapshotIsEdit DEF k

LEMMA MayStay ==
    ASSUME NEW k
    PROVE  History!MayBecome(k, k)
BY DEF History!MayBecome

LEMMA DeleteElementIsEdit ==
    ASSUME HInv, NEW e \in Elem, DeleteElement(e)
    PROVE  History!Edit /\ HistoryListed'
<1> DEFINE k == Lists(elements)
           u == Deleted(elements, e)
<1>1. Tick /\ SnapshotPage /\ elements' = u
    BY DEF DeleteElement
<1>2. SoundLists(elements) /\ IsTable(elements) /\ SoundTable(elements)
    BY HInvLists DEF SoundLists
<1>3. DOMAIN u \subseteq Elem
    BY <1>2, DeletedSound DEF IsTable
<1>4. CASE e \notin DOMAIN elements
    <2>1. u = elements
        BY <1>4 DEF Deleted
    <2>2. Listed(u) /\ History!MayBecome(k, Lists(u))
        BY <1>2, <2>1, MayStay DEF SoundLists
    <2> QED
        BY <1>1, <1>3, <2>2, SnapshotIsEdit
<1>5. CASE e \in DOMAIN elements
    <2>1. Listed(u) /\ Lists(u) = History!Drop(k, e) /\ e \notin DOMAIN u
        BY <1>2, <1>5, DeletedLists
    <2> HIDE DEF u
    <2>2. e \in History!Live(k) /\ e \notin DOMAIN Lists(u)
        BY <1>2, <1>5, <2>1, NoElemIsNoRow DEF Lists, History!Live
    <2>3. History!MayBecome(k, Lists(u))
        BY <2>1, <2>2, MayDrop
    <2> QED
        BY <1>1, <1>3, <2>1, <2>3, SnapshotIsEdit
<1> QED
    BY <1>4, <1>5

LEMMA MoveElementIsEdit ==
    ASSUME HInv, NEW e \in Elem, NEW p \in Ref, NEW q \in Ref, MoveElement(e, p, q)
    PROVE  History!Edit /\ HistoryListed'
<1> DEFINE w == Moved(elements, e, elements[e].parent, elements[e].prev, p, q)
           k == Lists(elements)
<1>1. /\ Tick /\ SnapshotPage /\ e \in DOMAIN elements
      /\ WalkAvoids(elements, p, e)
      /\ q \in (ChildrenOf(elements, p) \ {e}) \cup {NoElem}
      /\ elements' = w
    BY DEF MoveElement
<1>2. SoundLists(elements) /\ IsTable(elements) /\ SoundTable(elements)
    BY HInvLists DEF SoundLists
<1>3. /\ Listed(w) /\ DOMAIN w = DOMAIN elements
      /\ p \in DOMAIN elements \cup {NoElem} /\ p \notin History!Below(k, e)
      /\ \E s : IsList(w, p, s) /\ \E j \in 1..Len(s) : s[j] = e
      /\ \E i \in 1..Len(RemoveFirst(k[p], e)) + 1 : Lists(w) = History!Relocate(k, e, p, i)
    BY <1>1, <1>2, MovedLists
<1>4. SoundTable(w)
    BY <1>1, <1>2, MovedSound
<1> HIDE DEF w
<1>5. DOMAIN Lists(w) = DOMAIN k /\ p \in DOMAIN k /\ DOMAIN w \subseteq Elem
    BY <1>2, <1>3 DEF Lists, IsTable
<1>6. e \in ToSet(Lists(w)[p])
    <2>1. PICK s : IsList(w, p, s) /\ \E j \in 1..Len(s) : s[j] = e
        BY <1>3
    <2>2. Ordered(w, p) = s
        BY <1>4, <2>1, OrderedIsTheList DEF SoundTable
    <2>3. Lists(w)[p] = s
        BY <1>3, <2>2 DEF Lists
    <2>4. DOMAIN s = 1..Len(s)
        BY <2>1, ListFields
    <2> QED
        BY <2>1, <2>3, <2>4 DEF ToSet
<1> HIDE DEF k
<1>7. History!MayBecome(k, Lists(w))
    <2>1. PICK i \in 1..Len(RemoveFirst(k[p], e)) + 1 : Lists(w) = History!Relocate(k, e, p, i)
        BY <1>3
    <2> QED
        BY <1>3, <1>5, <1>6, <2>1, MayRelocate
<1> QED
    BY <1>1, <1>3, <1>5, <1>7, SnapshotIsEdit DEF k

-----------------------------------------------------------------------------
(* The refinement.                                                         *)

\* An edit of one row that leaves its keys alone leaves the lists alone.
LEMMA RowEditedLists ==
    ASSUME HInv, NEW e \in DOMAIN elements, NEW tag \in Tag, NEW d \in Data,
           elements' = [elements EXCEPT ![e].tag = tag, ![e].data = d]
    PROVE  /\ Listed(elements') /\ Lists(elements') = Lists(elements)
           /\ DOMAIN elements' \subseteq Elem
<1>1. IsTable(elements) /\ Listed(elements) /\ ChainsDoNotFork(elements)
    BY HInvLists DEF SoundLists, SoundTable
<1>2. DOMAIN elements' = DOMAIN elements
    BY <1>1 DEF IsTable
<1>3. elements[e] \in Row
    BY <1>1, RowFields
<1> DEFINE row == [elements[e] EXCEPT !.tag = tag, !.data = d]
<1>4. row.parent = elements[e].parent /\ row.prev = elements[e].prev
    BY <1>3 DEF Row
<1>5. elements' = [elements EXCEPT ![e] = row]
    BY <1>1 DEF IsTable
<1> HIDE DEF row
<1>6. \A x \in DOMAIN elements :
          elements'[x].parent = elements[x].parent /\ elements'[x].prev = elements[x].prev
    BY <1>1, <1>4, <1>5 DEF IsTable
<1> QED
    BY <1>1, <1>2, <1>6, SameKeysLists DEF IsTable

LEMMA PatchElementIsEdit ==
    ASSUME HInv, NEW e \in Elem, NEW tag \in Tag, NEW d \in Data, PatchElement(e, tag, d)
    PROVE  History!Edit /\ HistoryListed'
<1>1. /\ Tick /\ SnapshotPage /\ e \in DOMAIN elements
      /\ elements' = [elements EXCEPT ![e].tag = tag, ![e].data = d]
    BY DEF PatchElement
<1>2. /\ Listed(elements') /\ Lists(elements') = Lists(elements)
      /\ DOMAIN elements' \subseteq Elem
    BY <1>1, RowEditedLists
<1>3. History!MayBecome(Lists(elements), Lists(elements'))
    BY <1>2, MayStay
<1> QED
    BY <1>1, <1>2, <1>3, SnapshotIsEdit

\* The text of a row is in no forest.
LEMMA UpdateTextIsStutter ==
    ASSUME HInv, NEW e \in Elem, NEW d \in Data, UpdateText(e, d)
    PROVE  UNCHANGED History!vars /\ HistoryListed'
<1>1. /\ e \in DOMAIN elements
      /\ elements' = [elements EXCEPT ![e].data = d]
      /\ revisions' = revisions /\ cursor' = cursor
    BY DEF UpdateText
<1>2. IsTable(elements) /\ elements[e] \in Row
    BY <1>1, RowFields DEF HInv, IInv, TypeOK
<1>3. elements' = [elements EXCEPT ![e].tag = elements[e].tag, ![e].data = d]
    BY <1>1, <1>2 DEF IsTable, Row
<1>4. Listed(elements') /\ Lists(elements') = Lists(elements)
    BY <1>1, <1>2, <1>3, RowEditedLists DEF Row
<1>5. HistoryOfForests' = HistoryOfForests /\ UpTo(cursor)' = UpTo(cursor)
    BY <1>1 DEF HistoryOfForests, UpTo
<1>6. UNCHANGED History!vars
    BY <1>4, <1>5, NextMappingIs DEF History!vars
<1>7. HistoryListed'
    BY <1>1, <1>4 DEF HInv, HistoryListed
<1> QED
    BY <1>6, <1>7

\* A step of undo or redo that succeeds shows a forest of the history.
LEMMA StepShowsForest ==
    ASSUME HInv, NEW s \in DOMAIN revisions, StepTo(s)
    PROVE  /\ Rank(DOMAIN revisions, s) \in 1..Len(HistoryOfForests)
           /\ Lists(elements)' = HistoryOfForests[Rank(DOMAIN revisions, s)]
           /\ UpTo(cursor)' = Rank(DOMAIN revisions, s)
           /\ HistoryOfForests' = HistoryOfForests
           /\ HistoryListed'
<1>1. elements' = revisions[s].rows /\ cursor' = s /\ revisions' = revisions
    BY DEF StepTo
<1>2. Numbered(revisions)
    BY RevisionsNumbered DEF HInv
<1>3. /\ Rank(DOMAIN revisions, s) \in DOMAIN Forests(revisions)
      /\ Forests(revisions)[Rank(DOMAIN revisions, s)] = Lists(revisions[s].rows)
    BY <1>2, ForestOf
<1>4. DOMAIN Forests(revisions) = 1..Len(Forests(revisions))
    BY <1>2, ForestsAreASeq
<1>5. UpTo(cursor)' = Rank(DOMAIN revisions, s)
    BY <1>1 DEF UpTo, Rank
<1>6. HistoryOfForests' = HistoryOfForests
    BY <1>1 DEF HistoryOfForests, UpTo
<1>7. HistoryListed'
    BY <1>1 DEF HInv, HistoryListed
<1>8. Lists(elements)' = Lists(revisions[s].rows)
    BY <1>1, NextMappingIs
<1> QED
    BY <1>3, <1>4, <1>5, <1>6, <1>7, <1>8, MappingIs

LEMMA StepFailsIsStutter ==
    ASSUME HInv, NEW s, StepFails(s)
    PROVE  UNCHANGED History!vars /\ HistoryListed'
<1>1. elements' = elements /\ revisions' = revisions /\ cursor' = cursor
    BY DEF StepFails, vars
<1>2. Lists(elements)' = Lists(elements)
    BY <1>1, NextMappingIs
<1>3. HistoryOfForests' = HistoryOfForests /\ UpTo(cursor)' = UpTo(cursor)
    BY <1>1 DEF HistoryOfForests, UpTo
<1> QED
    BY <1>1, <1>2, <1>3 DEF History!vars, HInv, HistoryListed

LEMMA UndoIsUndo ==
    ASSUME HInv, NEW s \in UndoTargets, StepTo(s)
    PROVE  History!Undo /\ HistoryListed'
<1> DEFINE R == DOMAIN revisions
           a == Rank(R, s)
<1>1. s \in R /\ s < cursor /\ \A u \in R : u < cursor => u <= s
    BY DEF UndoTargets
<1>2. Numbered(revisions) /\ cursor \in R
    BY RevisionsNumbered DEF HInv
<1>3. Rank(R, cursor) = a + 1
    BY <1>1, <1>2, NeighbourRank DEF Numbered
<1>4. /\ a \in 1..Len(HistoryOfForests)
      /\ Lists(elements)' = HistoryOfForests[a]
      /\ UpTo(cursor)' = a
      /\ HistoryOfForests' = HistoryOfForests
      /\ HistoryListed'
    BY <1>1, StepShowsForest
<1>5. UpTo(cursor) = a + 1
    BY <1>3, MappingIs
<1> HIDE DEF a
<1>6. a \in Nat /\ a + 1 > 1 /\ (a + 1) - 1 = a
    BY <1>4
<1> QED
    BY <1>4, <1>5, <1>6 DEF History!Undo

LEMMA RedoIsRedo ==
    ASSUME HInv, NEW s \in RedoTargets, StepTo(s)
    PROVE  History!Redo /\ HistoryListed'
<1> DEFINE R == DOMAIN revisions
           a == Rank(R, cursor)
<1>1. s \in R /\ s > cursor /\ \A u \in R : u > cursor => u >= s
    BY DEF RedoTargets
<1>2. Numbered(revisions) /\ cursor \in R
    BY RevisionsNumbered DEF HInv
<1>3. Rank(R, s) = a + 1 /\ a \in Nat
    <2>1. R \in SUBSET Nat /\ IsFiniteSet(R) /\ cursor < s /\ s \in R
        BY <1>1, <1>2 DEF Numbered
    <2>2. \A u \in R : u < s => u <= cursor
        BY <1>1, <1>2, <2>1
    <2>3. a \in Nat
        BY <1>2, <2>1, RankBounds
    <2> HIDE DEF R
    <2> QED
        BY <1>2, <2>1, <2>2, <2>3, NeighbourRank
<1>4. /\ Rank(R, s) \in 1..Len(HistoryOfForests)
      /\ Lists(elements)' = HistoryOfForests[Rank(R, s)]
      /\ UpTo(cursor)' = Rank(R, s)
      /\ HistoryOfForests' = HistoryOfForests
      /\ HistoryListed'
    BY <1>1, StepShowsForest
<1>5. UpTo(cursor) = a
    BY MappingIs
<1> HIDE DEF a, R
<1>6. Len(HistoryOfForests) \in Nat
    BY <1>2, ForestsAreASeq, MappingIs
<1>7. a < Len(HistoryOfForests)
    BY <1>3, <1>4, <1>6
<1> QED
    BY <1>3, <1>4, <1>5, <1>7 DEF History!Redo

LEMMA InitIsHistory ==
    ASSUME Init
    PROVE  History!Init /\ HInv
<1>1. PICK r \in Elem, tag \in Tag \ LeafTag :
          LET t == [x \in {r} |-> [parent |-> NoElem, prev |-> NoElem,
                                   tag |-> tag, data |-> Blank]]
          IN  /\ elements = t
              /\ created = [x \in {r} |-> 0]
              /\ root_element = r
              /\ revisions = [s \in {0} |-> [rows |-> t, order |-> <<r>>]]
              /\ cursor = 0
              /\ now = 0
    BY DEF Init
<1>2. /\ DOMAIN elements = {r} /\ elements[r].parent = NoElem /\ elements[r].prev = NoElem
      /\ DOMAIN revisions = {0} /\ revisions[0].rows = elements /\ cursor = 0
    BY <1>1
<1> DEFINE k == [x \in {NoElem, r} |-> IF x = NoElem THEN <<r>> ELSE <<>>]
<1>3. r # NoElem
    BY ElementTableAssumption
<1>4. IInv
    BY InitIInv
<1>5. ChainsDoNotFork(elements)
    BY <1>4 DEF IInv, PageIsSound, SoundTable
<1>6. ChildrenOf(elements, NoElem) = {r} /\ ChildrenOf(elements, r) = {}
    BY <1>2, <1>3 DEF ChildrenOf
<1>7. IsList(elements, NoElem, <<r>>)
    BY <1>2, <1>6, OneChildList
<1>8. IsList(elements, r, <<>>)
    BY <1>6, NoChildrenNoList
<1>9. /\ k = [x \in DOMAIN k |-> k[x]] /\ DOMAIN k = DOMAIN elements \cup {NoElem}
      /\ \A x \in DOMAIN elements \cup {NoElem} : IsList(elements, x, k[x])
    BY <1>2, <1>3, <1>7, <1>8
<1>10. Listed(elements) /\ Lists(elements) = k
    <2> HIDE DEF k
    <2> QED
        BY <1>5, <1>9, ListsAre
<1>11. HInv
    BY <1>2, <1>4, <1>10 DEF HInv, HistoryListed
<1>12. Cardinality({0}) = 1
    BY FS_Singleton
<1>13. UpTo(cursor) = 1
    <2>1. {u \in DOMAIN revisions : u <= cursor} = {0}
        BY <1>2
    <2> QED
        BY <1>12, <2>1 DEF UpTo
<1>14. HistoryOfForests = <<k>>
    <2>1. Numbered(revisions) /\ 0 \in DOMAIN revisions
        BY <1>2, <1>4, RevisionsNumbered
    <2>2. Rank(DOMAIN revisions, 0) = 1
        BY <1>2, <1>13, MappingIs
    <2>3. Forests(revisions)[1] = k
        BY <1>2, <1>10, <2>1, <2>2, ForestOf
    <2>4. DOMAIN Forests(revisions) = 1..1
        BY <1>2, <1>12, <2>1, ForestsAreASeq
    <2>5. Forests(revisions) = [i \in 1..1 |-> Forests(revisions)[i]]
        BY <2>4 DEF Forests
    <2> HIDE DEF k
    <2>6. Forests(revisions) = <<k>>
        BY <2>3, <2>5
    <2> QED
        BY <2>6, MappingIs
<1>15. History!Init
    <2>1. k = [x \in {NoElem, r} |-> IF x = NoElem THEN <<r>> ELSE <<>>]
        OBVIOUS
    <2> HIDE DEF k
    <2> QED
        BY <1>10, <1>13, <1>14, <2>1 DEF History!Init
<1> QED
    BY <1>11, <1>15

LEMMA NextIsHistory ==
    ASSUME HInv, [Next]_vars
    PROVE  [History!Next]_History!vars /\ HInv'
<1>1. ASSUME NEW p \in Ref, NEW tag \in Tag, NEW n \in Unused, AddElement(p, tag, n)
      PROVE  History!Edit /\ HistoryListed'
    BY <1>1, AddElementIsEdit
<1>2. ASSUME NEW e \in Elem, NEW tag \in Tag, NEW n \in Unused, AddAfter(e, tag, n)
      PROVE  History!Edit /\ HistoryListed'
    BY <1>2, AddAfterIsEdit
<1>3. ASSUME NEW e \in Elem, NEW tag \in Tag, NEW n \in Unused, AddBefore(e, tag, n)
      PROVE  History!Edit /\ HistoryListed'
    BY <1>3, AddBeforeIsEdit
<1>4. ASSUME NEW e \in Elem, NEW n \in Unused, DuplicateElement(e, n)
      PROVE  History!Edit /\ HistoryListed'
    BY <1>4, DuplicateElementIsEdit
<1>5. ASSUME NEW e \in Elem, NEW tag \in Tag, NEW n \in Unused, WrapElement(e, tag, n)
      PROVE  History!Edit /\ HistoryListed'
    BY <1>5, WrapElementIsEdit
<1>6. ASSUME NEW e \in Elem, DeleteElement(e)
      PROVE  History!Edit /\ HistoryListed'
    BY <1>6, DeleteElementIsEdit
<1>7. ASSUME NEW e \in Elem, NEW p \in Ref, NEW q \in Ref, MoveElement(e, p, q)
      PROVE  History!Edit /\ HistoryListed'
    BY <1>7, MoveElementIsEdit
<1>8. ASSUME NEW e \in Elem, NEW tag \in Tag, NEW d \in Data, PatchElement(e, tag, d)
      PROVE  History!Edit /\ HistoryListed'
    BY <1>8, PatchElementIsEdit
<1>9. ASSUME NEW e \in Elem, NEW d \in Data, UpdateText(e, d)
      PROVE  UNCHANGED History!vars /\ HistoryListed'
    BY <1>9, UpdateTextIsStutter
<1>10. ASSUME Undo
       PROVE  (History!Undo \/ UNCHANGED History!vars) /\ HistoryListed'
    BY <1>10, UndoIsUndo, StepFailsIsStutter DEF Undo, Step
<1>11. ASSUME Redo
       PROVE  (History!Redo \/ UNCHANGED History!vars) /\ HistoryListed'
    BY <1>11, RedoIsRedo, StepFailsIsStutter DEF Redo, Step
<1>12. ASSUME UNCHANGED vars
       PROVE  UNCHANGED History!vars /\ HistoryListed'
    <2>1. elements' = elements /\ revisions' = revisions /\ cursor' = cursor
        BY <1>12 DEF vars
    <2>2. Lists(elements)' = Lists(elements)
        BY <2>1, NextMappingIs
    <2>3. HistoryOfForests' = HistoryOfForests /\ UpTo(cursor)' = UpTo(cursor)
        BY <2>1 DEF HistoryOfForests, UpTo
    <2> QED
        BY <2>1, <2>2, <2>3 DEF History!vars, HInv, HistoryListed
<1>13. (History!Edit \/ History!Undo \/ History!Redo \/ UNCHANGED History!vars) /\ HistoryListed'
    BY <1>1, <1>2, <1>3, <1>4, <1>5, <1>6, <1>7, <1>8, <1>9, <1>10, <1>11, <1>12 DEF Next
<1>14. IInv'
    BY NextKeepsIInv DEF HInv
<1> QED
    BY <1>13, <1>14 DEF HInv, History!Next

\* The editor implements EditHistory: every handler does to the ordered forest
\* what its button says and nothing else, and undo and redo walk exactly the
\* forests the user has seen.
THEOREM EditorImplementsHistory == Spec => ImplementsEditHistory
<1>1. Init => History!Init /\ HInv
    BY InitIsHistory
<1>2. HInv /\ [Next]_vars => [History!Next]_History!vars /\ HInv'
    BY NextIsHistory
<1> QED
    BY <1>1, <1>2, PTL DEF Spec, ImplementsEditHistory, History!Spec
=============================================================================
