------------------------ MODULE ElementTable_proofs ------------------------
(***************************************************************************)
(* Every transaction of the write handlers takes a sound table to a sound  *)
(* table, for any set of elements.  Each operator has two lemmas: what the *)
(* rows of its result are, and, from the rows alone, that it is sound.     *)
(*                                                                         *)
(* Forest and ChainsEnd say that every non-empty set of rows S has a row   *)
(* whose key leads out of S.  To prove one of the new table, take S to a   *)
(* set of the old table by adding or taking away the rows that moved, take *)
(* the row the old table gives, and if the operation redirected its key    *)
(* into S, the row it was redirected to leads out of S in its place.       *)
(***************************************************************************)
EXTENDS ElementTable, TLAPS

(***************************************************************************)
(* What the statements do to the rows.                                     *)
(***************************************************************************)

LEMMA RowFields ==
    ASSUME NEW t, IsTable(t), NEW x \in DOMAIN t
    PROVE  /\ t[x] \in Row
           /\ t[x].parent \in Ref /\ t[x].prev \in Ref
           /\ t[x].tag \in Tag /\ t[x].data \in Data
           /\ x \in Elem /\ x # NoElem
BY ElementTableAssumption DEF IsTable, Row

LEMMA SetPrevRows ==
    ASSUME NEW t, IsTable(t), NEW S, NEW q \in Ref
    PROVE  /\ IsTable(SetPrev(t, S, q))
           /\ DOMAIN SetPrev(t, S, q) = DOMAIN t
           /\ \A x \in DOMAIN t :
                  /\ SetPrev(t, S, q)[x].parent = t[x].parent
                  /\ SetPrev(t, S, q)[x].prev = IF x \in S THEN q ELSE t[x].prev
                  /\ SetPrev(t, S, q)[x].tag = t[x].tag
                  /\ SetPrev(t, S, q)[x].data = t[x].data
<1> DEFINE u == SetPrev(t, S, q)
<1>1. DOMAIN u = DOMAIN t
    BY DEF SetPrev
<1>2. ASSUME NEW x \in DOMAIN t
      PROVE  /\ u[x] \in Row
             /\ u[x].parent = t[x].parent
             /\ u[x].prev = IF x \in S THEN q ELSE t[x].prev
             /\ u[x].tag = t[x].tag
             /\ u[x].data = t[x].data
    <2>1. t[x] \in Row
        BY RowFields
    <2>2. u[x] = IF x \in S THEN [t[x] EXCEPT !.prev = q] ELSE t[x]
        BY DEF SetPrev
    <2> QED
        BY <2>1, <2>2 DEF Row
<1>3. IsTable(u)
    <2>1. u = [x \in DOMAIN t |-> u[x]]
        BY DEF SetPrev
    <2> QED
        BY <1>1, <1>2, <2>1 DEF IsTable
<1> QED
    BY <1>1, <1>2, <1>3

LEMMA SetPositionRows ==
    ASSUME NEW t, IsTable(t), NEW e, NEW p \in Ref, NEW q \in Ref
    PROVE  /\ IsTable(SetPosition(t, e, p, q))
           /\ DOMAIN SetPosition(t, e, p, q) = DOMAIN t
           /\ \A x \in DOMAIN t :
                  /\ SetPosition(t, e, p, q)[x].parent = IF x = e THEN p ELSE t[x].parent
                  /\ SetPosition(t, e, p, q)[x].prev = IF x = e THEN q ELSE t[x].prev
<1> DEFINE u == SetPosition(t, e, p, q)
<1>1. DOMAIN u = DOMAIN t
    BY DEF SetPosition
<1>2. ASSUME NEW x \in DOMAIN t
      PROVE  /\ u[x] \in Row
             /\ u[x].parent = IF x = e THEN p ELSE t[x].parent
             /\ u[x].prev = IF x = e THEN q ELSE t[x].prev
    <2>1. t[x] \in Row
        BY RowFields
    <2>2. u[x] = IF x = e THEN [t[x] EXCEPT !.parent = p, !.prev = q] ELSE t[x]
        BY DEF SetPosition
    <2> QED
        BY <2>1, <2>2 DEF Row
<1>3. IsTable(u)
    <2>1. u = [x \in DOMAIN t |-> u[x]]
        BY DEF SetPosition
    <2> QED
        BY <1>1, <1>2, <2>1 DEF IsTable
<1> QED
    BY <1>1, <1>2, <1>3

LEMMA InsertRowRows ==
    ASSUME NEW t, IsTable(t), NEW n \in Elem, n \notin DOMAIN t, NEW r \in Row
    PROVE  /\ IsTable(InsertRow(t, n, r))
           /\ DOMAIN InsertRow(t, n, r) = DOMAIN t \cup {n}
           /\ InsertRow(t, n, r)[n] = r
           /\ \A x \in DOMAIN t : InsertRow(t, n, r)[x] = t[x]
BY RowFields DEF IsTable, InsertRow

(***************************************************************************)
(* insert_element.                                                         *)
(***************************************************************************)

LEMMA InsertedRows ==
    ASSUME NEW t, IsTable(t), NEW n \in Elem, n \notin DOMAIN t, NEW r \in Row
    PROVE  LET u == Inserted(t, n, r)
           IN  /\ IsTable(u)
               /\ DOMAIN u = DOMAIN t \cup {n}
               /\ u[n].parent = r.parent /\ u[n].prev = r.prev
               /\ \A x \in DOMAIN t :
                      /\ u[x].parent = t[x].parent
                      /\ u[x].prev = IF t[x].parent = r.parent /\ t[x].prev = r.prev
                                     THEN n ELSE t[x].prev
<1> DEFINE v == InsertRow(t, n, r)
           S == At(v, r.parent, r.prev) \ {n}
           u == SetPrev(v, S, n)
<1>1. /\ IsTable(v) /\ DOMAIN v = DOMAIN t \cup {n} /\ v[n] = r
      /\ \A x \in DOMAIN t : v[x] = t[x]
    BY InsertRowRows
<1>2. n \in Ref
    BY DEF Ref
<1>3. /\ IsTable(u) /\ DOMAIN u = DOMAIN v
      /\ \A x \in DOMAIN v :
             /\ u[x].parent = v[x].parent
             /\ u[x].prev = IF x \in S THEN n ELSE v[x].prev
    <2> HIDE DEF v, S
    <2> QED
        BY <1>1, <1>2, SetPrevRows
<1>4. n \notin S /\ \A x \in DOMAIN t :
          x \in S <=> t[x].parent = r.parent /\ t[x].prev = r.prev
    <2> HIDE DEF v
    <2> QED
        BY <1>1 DEF At
<1>5. Inserted(t, n, r) = u
    BY DEF Inserted
<1> HIDE DEF u, v, S
<1> QED
    BY <1>1, <1>3, <1>4, <1>5

LEMMA InsertedSound ==
    ASSUME NEW t, IsTable(t), SoundTable(t),
           NEW n \in Elem, n \notin DOMAIN t, NEW r \in Row,
           r.parent \in DOMAIN t \cup {NoElem},
           r.prev \in ChildrenOf(t, r.parent) \cup {NoElem}
    PROVE  /\ IsTable(Inserted(t, n, r)) /\ SoundTable(Inserted(t, n, r))
           /\ DOMAIN Inserted(t, n, r) = DOMAIN t \cup {n}
<1> DEFINE u == Inserted(t, n, r)
           p == r.parent
           q == r.prev
<1>0. IsTable(Inserted(t, n, r))
    BY InsertedRows
<1>1. /\ DOMAIN u = DOMAIN t \cup {n}
      /\ u[n].parent = p /\ u[n].prev = q
      /\ \A x \in DOMAIN t :
             /\ u[x].parent = t[x].parent
             /\ u[x].prev = IF t[x].parent = p /\ t[x].prev = q THEN n ELSE t[x].prev
    BY InsertedRows
<1>2. /\ n # NoElem
      /\ \A x \in DOMAIN t : x # NoElem /\ x # n
    BY RowFields, ElementTableAssumption
<1>3. p \in DOMAIN t \cup {NoElem} /\ q \in DOMAIN t \cup {NoElem}
      /\ (q # NoElem => t[q].parent = p)
    BY DEF ChildrenOf
<1> HIDE DEF u, p, q
<1>4. KeysResolve(u)
    BY <1>1, <1>3 DEF KeysResolve, SoundTable
<1>5. SiblingsShareParent(u)
    BY <1>1, <1>2, <1>3 DEF SiblingsShareParent, ChildrenOf, SoundTable, KeysResolve
<1>6. ChainsDoNotFork(u)
    BY <1>1, <1>2, <1>3 DEF ChainsDoNotFork, SoundTable, KeysResolve
<1>7. Forest(u)
    <2> SUFFICES ASSUME NEW S \in SUBSET DOMAIN u, S # {}
                 PROVE  \E x \in S : u[x].parent \notin S
        BY DEF Forest
    <2>1. CASE S \ {n} = {}
        BY <2>1, <1>1, <1>2, <1>3
    <2>2. CASE S \ {n} # {}
        \* x is a row whose old parent is outside of S; n is nobody's parent.
        <3>1. PICK x \in S \ {n} : t[x].parent \notin S \ {n}
            BY <2>2, <1>1 DEF SoundTable, Forest
        <3>2. x \in DOMAIN t /\ t[x].parent # n
            BY <3>1, <1>1, <1>2 DEF SoundTable, KeysResolve
        <3> QED
            BY <3>1, <3>2, <1>1
    <2> QED
        BY <2>1, <2>2
<1>8. ChainsEnd(u)
    <2> SUFFICES ASSUME NEW S \in SUBSET DOMAIN u, S # {}
                 PROVE  \E x \in S : u[x].prev \notin S
        BY DEF ChainsEnd
    <2>1. CASE S \ {n} = {}
        BY <2>1, <1>1, <1>2, <1>3
    <2>2. CASE S \ {n} # {}
        <3>1. PICK x \in S \ {n} : t[x].prev \notin S \ {n}
            BY <2>2, <1>1 DEF SoundTable, ChainsEnd
        <3>2. x \in DOMAIN t /\ t[x].prev # n
            BY <3>1, <1>1, <1>2 DEF SoundTable, KeysResolve
        <3>3. CASE u[x].prev = t[x].prev
            BY <3>1, <3>2, <3>3
        <3>4. CASE u[x].prev # t[x].prev
            \* x follows n now: if n is in S, then n leads to q, where x led.
            <4>1. u[x].prev = n /\ t[x].prev = q
                BY <3>2, <3>4, <1>1
            <4>2. n # q
                BY <3>2, <4>1
            <4> QED
                BY <3>1, <4>1, <4>2, <1>1
        <3> QED
            BY <3>3, <3>4
    <2> QED
        BY <2>1, <2>2
<1> QED
    BY <1>0, <1>1, <1>4, <1>5, <1>6, <1>7, <1>8 DEF SoundTable, u

\* add_sibling's second UPDATE points e at the new row.  insert_element has
\* done that already: e was at the position the new row took.
LEMMA InsertedBefore ==
    ASSUME NEW t, IsTable(t), NEW n \in Elem, n \notin DOMAIN t, NEW r \in Row,
           NEW e \in DOMAIN t, r.parent = t[e].parent, r.prev = t[e].prev
    PROVE  SetPrev(Inserted(t, n, r), {e}, n) = Inserted(t, n, r)
<1> DEFINE u == Inserted(t, n, r)
<1>1. IsTable(u) /\ e \in DOMAIN u /\ u[e].prev = n
    <2>1. /\ IsTable(u) /\ DOMAIN u = DOMAIN t \cup {n}
          /\ \A x \in DOMAIN t :
                 u[x].prev = IF t[x].parent = r.parent /\ t[x].prev = r.prev
                             THEN n ELSE t[x].prev
        BY InsertedRows
    <2> HIDE DEF u
    <2> QED
        BY <2>1
<1>2. u[e] = [u[e] EXCEPT !.prev = n]
    <2>1. u[e] \in Row
        BY <1>1, RowFields
    <2> HIDE DEF u
    <2> QED
        BY <1>1, <2>1 DEF Row
<1>3. u = [x \in DOMAIN u |-> u[x]]
    BY <1>1 DEF IsTable
<1> HIDE DEF u
<1>4. SetPrev(u, {e}, n) = u
    BY <1>2, <1>3 DEF SetPrev
<1> QED
    BY <1>4 DEF u

(***************************************************************************)
(* post_wrap_element.                                                      *)
(***************************************************************************)

LEMMA WrappedRows ==
    ASSUME NEW t, IsTable(t), NEW n \in Elem, n \notin DOMAIN t, NEW tag \in Tag,
           NEW e \in DOMAIN t, NEW p \in Ref, NEW q \in Ref
    PROVE  LET u == Wrapped(t, e, p, q, n, tag)
           IN  /\ IsTable(u)
               /\ DOMAIN u = DOMAIN t \cup {n}
               /\ u[n].parent = p /\ u[n].prev = q
               /\ u[e].parent = n /\ u[e].prev = NoElem
               /\ \A x \in DOMAIN t \ {e} :
                      /\ u[x].parent = t[x].parent
                      /\ u[x].prev = IF t[x].parent = p /\ t[x].prev = e
                                     THEN n ELSE t[x].prev
<1> DEFINE r == [parent |-> p, prev |-> q, tag |-> tag, data |-> Blank]
           v == InsertRow(t, n, r)
           S == At(v, p, e) \ {n}
           w == SetPrev(v, S, n)
           u == SetPosition(w, e, n, NoElem)
<1>0. r \in Row /\ n \in Ref /\ NoElem \in Ref
    BY ElementTableAssumption DEF Ref, Row
<1>1. /\ IsTable(v) /\ DOMAIN v = DOMAIN t \cup {n} /\ v[n] = r
      /\ \A x \in DOMAIN t : v[x] = t[x]
    <2> HIDE DEF r
    <2> QED
        BY <1>0, InsertRowRows
<1>2. /\ IsTable(w) /\ DOMAIN w = DOMAIN v
      /\ \A x \in DOMAIN v :
             /\ w[x].parent = v[x].parent
             /\ w[x].prev = IF x \in S THEN n ELSE v[x].prev
    <2> HIDE DEF v, S
    <2> QED
        BY <1>0, <1>1, SetPrevRows
<1>3. /\ IsTable(u) /\ DOMAIN u = DOMAIN w
      /\ \A x \in DOMAIN w :
             /\ u[x].parent = IF x = e THEN n ELSE w[x].parent
             /\ u[x].prev = IF x = e THEN NoElem ELSE w[x].prev
    <2> HIDE DEF w
    <2> QED
        BY <1>0, <1>2, SetPositionRows
<1>4. n \notin S /\ \A x \in DOMAIN t : x \in S <=> t[x].parent = p /\ t[x].prev = e
    <2> HIDE DEF v, r
    <2> QED
        BY <1>1 DEF At
<1>5. Wrapped(t, e, p, q, n, tag) = u
    BY DEF Wrapped
<1>6. r.parent = p /\ r.prev = q
    OBVIOUS
<1> HIDE DEF u, v, w, S, r
<1> QED
    BY <1>1, <1>2, <1>3, <1>4, <1>5, <1>6

LEMMA WrappedSound ==
    ASSUME NEW t, IsTable(t), SoundTable(t), NEW n \in Elem, n \notin DOMAIN t,
           NEW tag \in Tag, NEW e \in DOMAIN t
    PROVE  SoundTable(Wrapped(t, e, t[e].parent, t[e].prev, n, tag))
<1> DEFINE p == t[e].parent
           q == t[e].prev
           u == Wrapped(t, e, p, q, n, tag)
<1>1. /\ DOMAIN u = DOMAIN t \cup {n}
      /\ u[n].parent = p /\ u[n].prev = q
      /\ u[e].parent = n /\ u[e].prev = NoElem
      /\ \A x \in DOMAIN t \ {e} :
             /\ u[x].parent = t[x].parent
             /\ u[x].prev = IF t[x].parent = p /\ t[x].prev = e THEN n ELSE t[x].prev
    <2>1. p \in Ref /\ q \in Ref
        BY RowFields
    <2> HIDE DEF p, q
    <2> QED
        BY <2>1, WrappedRows
<1>2. /\ n # NoElem
      /\ \A x \in DOMAIN t : x # NoElem /\ x # n
    BY RowFields, ElementTableAssumption
<1>3. /\ p \in DOMAIN t \cup {NoElem} /\ q \in DOMAIN t \cup {NoElem}
      /\ q # NoElem => t[q].parent = p
      /\ p # e /\ q # e
    <2>1. \E x \in {e} : t[x].parent \notin {e}
        BY DEF SoundTable, Forest
    <2>2. \E x \in {e} : t[x].prev \notin {e}
        BY DEF SoundTable, ChainsEnd
    <2> QED
        BY <2>1, <2>2 DEF SoundTable, KeysResolve, SiblingsShareParent, ChildrenOf
<1>4. \A x \in DOMAIN t : t[x].prev = e => t[x].parent = p
    BY <1>2 DEF SoundTable, SiblingsShareParent, ChildrenOf
<1>5. t[e].parent = p /\ t[e].prev = q
    OBVIOUS
<1> HIDE DEF u, p, q
<1>6. KeysResolve(u)
    BY <1>1, <1>3 DEF KeysResolve, SoundTable
<1>7. SiblingsShareParent(u)
    BY <1>1, <1>2, <1>3, <1>4 DEF SiblingsShareParent, ChildrenOf, SoundTable, KeysResolve
<1>8. ChainsDoNotFork(u)
    BY <1>1, <1>2, <1>3, <1>4, <1>5 DEF ChainsDoNotFork, SoundTable, KeysResolve
<1>9. Forest(u)
    <2> SUFFICES ASSUME NEW S \in SUBSET DOMAIN u, S # {}
                 PROVE  \E x \in S : u[x].parent \notin S
        BY DEF Forest
    <2>1. CASE S \ {n} = {}
        BY <2>1, <1>1, <1>2, <1>3
    <2>2. CASE S \ {n} # {}
        <3>1. PICK x \in S \ {n} : t[x].parent \notin S \ {n}
            BY <2>2, <1>1 DEF SoundTable, Forest
        <3>2. x \in DOMAIN t /\ t[x].parent # n
            BY <3>1, <1>1, <1>2 DEF SoundTable, KeysResolve
        <3>3. CASE x # e
            BY <3>1, <3>2, <3>3, <1>1
        <3>4. CASE x = e
            \* e is under n now, and n is under the old parent of e.
            BY <3>1, <3>2, <3>4, <1>1, <1>5
        <3> QED
            BY <3>3, <3>4
    <2> QED
        BY <2>1, <2>2
<1>10. ChainsEnd(u)
    <2> SUFFICES ASSUME NEW S \in SUBSET DOMAIN u, S # {}
                 PROVE  \E x \in S : u[x].prev \notin S
        BY DEF ChainsEnd
    <2>1. CASE e \in S
        BY <2>1, <1>1, <1>2
    <2>2. CASE e \notin S /\ n \notin S
        <3>1. PICK x \in S : t[x].prev \notin S
            BY <2>2, <1>1 DEF SoundTable, ChainsEnd
        <3> QED
            BY <2>2, <3>1, <1>1
    <2>3. CASE e \notin S /\ n \in S
        \* n has the old place of e: look at S with e for n.
        <3>1. PICK x \in (S \ {n}) \cup {e} : t[x].prev \notin (S \ {n}) \cup {e}
            <4>1. (S \ {n}) \cup {e} \in SUBSET DOMAIN t /\ (S \ {n}) \cup {e} # {}
                BY <1>1
            <4> QED
                BY <4>1 DEF SoundTable, ChainsEnd
        <3>2. x \in DOMAIN t /\ t[x].prev # n
            BY <3>1, <1>1, <1>2 DEF SoundTable, KeysResolve
        <3>3. CASE x = e
            BY <2>3, <3>1, <3>2, <3>3, <1>1, <1>5
        <3>4. CASE x # e
            BY <2>3, <3>1, <3>2, <3>4, <1>1
        <3> QED
            BY <3>3, <3>4
    <2> QED
        BY <2>1, <2>2, <2>3
<1> QED
    BY <1>6, <1>7, <1>8, <1>9, <1>10 DEF SoundTable, u, p, q

(***************************************************************************)
(* Taking e out of its chain, which a delete and a move begin with.        *)
(***************************************************************************)

\* The left sibling of x once e is bypassed.
PrevWithout(t, e, x) == IF t[x].prev = e THEN t[e].prev ELSE t[x].prev

LEMMA BypassRows ==
    ASSUME NEW t, IsTable(t), SoundTable(t), NEW e \in DOMAIN t
    PROVE  LET u == SetPrev(t, At(t, t[e].parent, e), t[e].prev)
           IN  /\ IsTable(u)
               /\ DOMAIN u = DOMAIN t
               /\ \A x \in DOMAIN t :
                      /\ u[x].parent = t[x].parent
                      /\ u[x].prev = PrevWithout(t, e, x)
<1> DEFINE S == At(t, t[e].parent, e)
           u == SetPrev(t, S, t[e].prev)
<1>1. /\ IsTable(u) /\ DOMAIN u = DOMAIN t
      /\ \A x \in DOMAIN t :
             /\ u[x].parent = t[x].parent
             /\ u[x].prev = IF x \in S THEN t[e].prev ELSE t[x].prev
    <2> t[e].prev \in Ref
        BY RowFields
    <2> HIDE DEF S
    <2> QED
        BY SetPrevRows
<1>2. \A x \in DOMAIN t : x \in S <=> t[x].prev = e
    <2> e # NoElem
        BY RowFields
    <2> QED
        BY DEF At, SoundTable, SiblingsShareParent, ChildrenOf
<1>3. \A x \in DOMAIN t :
          u[x].parent = t[x].parent /\ u[x].prev = PrevWithout(t, e, x)
    <2> HIDE DEF u, S
    <2> QED
        BY <1>1, <1>2 DEF PrevWithout
<1> QED
    BY <1>1, <1>3

\* Without e the siblings are lists as they were.
LEMMA BypassSound ==
    ASSUME NEW t, IsTable(t), SoundTable(t), NEW e \in DOMAIN t
    PROVE  /\ t[e].parent # e /\ t[e].prev # e
           /\ \A x \in DOMAIN t \ {e} :
                  LET y == PrevWithout(t, e, x)
                  IN  /\ y # e
                      /\ y \in DOMAIN t \cup {NoElem}
                      /\ y # NoElem => t[y].parent = t[x].parent
           /\ \A x, y \in DOMAIN t \ {e} :
                  t[x].parent = t[y].parent /\ PrevWithout(t, e, x) = PrevWithout(t, e, y)
                      => x = y
           /\ \A S \in SUBSET (DOMAIN t \ {e}) :
                  S # {} => \E x \in S : PrevWithout(t, e, x) \notin S
<1>1. t[e].parent # e /\ t[e].prev # e
    <2>1. \E x \in {e} : t[x].parent \notin {e}
        BY DEF SoundTable, Forest
    <2>2. \E x \in {e} : t[x].prev \notin {e}
        BY DEF SoundTable, ChainsEnd
    <2> QED
        BY <2>1, <2>2
<1>2. e # NoElem
    BY RowFields
<1>3. ASSUME NEW x \in DOMAIN t \ {e}
      PROVE  LET y == PrevWithout(t, e, x)
             IN  /\ y # e
                 /\ y \in DOMAIN t \cup {NoElem}
                 /\ y # NoElem => t[y].parent = t[x].parent
    BY <1>1, <1>2 DEF PrevWithout, SoundTable, KeysResolve, SiblingsShareParent, ChildrenOf
<1>4. ASSUME NEW x \in DOMAIN t \ {e}, NEW y \in DOMAIN t \ {e},
             t[x].parent = t[y].parent, PrevWithout(t, e, x) = PrevWithout(t, e, y)
      PROVE  x = y
    <2>1. \A z \in DOMAIN t : t[z].prev = e => t[z].parent = t[e].parent
        BY <1>2 DEF SoundTable, SiblingsShareParent, ChildrenOf
    <2> QED
        BY <1>4, <2>1 DEF PrevWithout, SoundTable, ChainsDoNotFork
<1>5. ASSUME NEW S \in SUBSET (DOMAIN t \ {e}), S # {}
      PROVE  \E x \in S : PrevWithout(t, e, x) \notin S
    <2>1. PICK x \in S : t[x].prev \notin S
        BY <1>5 DEF SoundTable, ChainsEnd
    <2>2. PICK y \in S \cup {e} : t[y].prev \notin S \cup {e}
        <3>1. S \cup {e} \in SUBSET DOMAIN t /\ S \cup {e} # {}
            OBVIOUS
        <3> QED
            BY <3>1 DEF SoundTable, ChainsEnd
    <2> QED
        \* x leads out of S unless it followed e and e follows S; y does then.
        BY <2>1, <2>2 DEF PrevWithout
<1> QED
    BY <1>1, <1>3, <1>4, <1>5

(***************************************************************************)
(* delete_element.                                                         *)
(***************************************************************************)

\* The cascade takes e, the children of what it takes, and nothing else.
LEMMA SubtreeClosed ==
    ASSUME NEW t, NEW e \in DOMAIN t
    PROVE  /\ e \in Subtree(t, e)
           /\ Subtree(t, e) \subseteq DOMAIN t
           /\ \A y \in DOMAIN t : t[y].parent \in Subtree(t, e) => y \in Subtree(t, e)
           /\ \A y \in Subtree(t, e) : y # e => t[y].parent \in Subtree(t, e)
<1> DEFINE D == Subtree(t, e)
           Closed(S) == e \in S /\ \A y \in DOMAIN t : t[y].parent \in S => y \in S
<1>1. \A x \in DOMAIN t : x \in D <=> \A S \in SUBSET DOMAIN t : Closed(S) => x \in S
    BY DEF Subtree
<1>2. D \subseteq DOMAIN t
    BY DEF Subtree
<1>3. e \in D
    BY <1>1
<1>4. ASSUME NEW y \in DOMAIN t, t[y].parent \in D
      PROVE  y \in D
    <2>1. t[y].parent \in DOMAIN t
        BY <1>2, <1>4
    <2>2. ASSUME NEW S \in SUBSET DOMAIN t, Closed(S)
          PROVE  y \in S
        <3>1. t[y].parent \in S
            BY <1>1, <1>4, <2>1, <2>2
        <3> QED
            BY <2>2, <3>1
    <2> QED
        BY <1>1, <2>2
<1>5. ASSUME NEW y \in D, y # e
      PROVE  t[y].parent \in D
    <2>1. SUFFICES ASSUME t[y].parent \notin D
                   PROVE  FALSE
        OBVIOUS
    \* Then y could be left out: the rest of D is closed without it.
    <2>2. Closed(D \ {y})
        BY <1>3, <1>4, <1>5, <2>1
    <2>3. D \ {y} \in SUBSET DOMAIN t /\ y \in DOMAIN t
        BY <1>2
    <2>4. y \in D \ {y}
        <3> HIDE DEF Closed, D
        <3> QED
            BY <1>1, <2>2, <2>3
    <2> QED
        BY <2>4
<1> QED
    BY <1>2, <1>3, <1>4, <1>5

LEMMA SubtreeByParents ==
    ASSUME NEW t, NEW u, DOMAIN u = DOMAIN t, NEW e,
           \A x \in DOMAIN t : u[x].parent = t[x].parent
    PROVE  Subtree(u, e) = Subtree(t, e)
<1>1. \A S : (\A y \in DOMAIN t : t[y].parent \in S => y \in S)
                 <=> (\A y \in DOMAIN u : u[y].parent \in S => y \in S)
    OBVIOUS
<1> QED
    BY <1>1 DEF Subtree

LEMMA DeletedRows ==
    ASSUME NEW t, IsTable(t), SoundTable(t), NEW e \in DOMAIN t
    PROVE  \E D \in SUBSET DOMAIN t :
               /\ D = Subtree(t, e) /\ e \in D
               /\ IsTable(Deleted(t, e))
               /\ DOMAIN Deleted(t, e) = DOMAIN t \ D
               /\ \A x \in DOMAIN t \ D :
                      /\ t[x].parent \notin D /\ PrevWithout(t, e, x) \notin D
                      /\ Deleted(t, e)[x].parent = t[x].parent
                      /\ Deleted(t, e)[x].prev = PrevWithout(t, e, x)
<1> DEFINE u == SetPrev(t, At(t, t[e].parent, e), t[e].prev)
           D == Subtree(u, e)
           w == DeleteRows(u, D)
<1>1. /\ IsTable(u) /\ DOMAIN u = DOMAIN t
      /\ \A x \in DOMAIN t :
             u[x].parent = t[x].parent /\ u[x].prev = PrevWithout(t, e, x)
    BY BypassRows
<1>2. Deleted(t, e) = w
    BY DEF Deleted
<1>0. D = Subtree(t, e)
    <2> HIDE DEF u
    <2> QED
        BY <1>1, SubtreeByParents
<1> HIDE DEF u
<1>3. /\ e \in D /\ D \subseteq DOMAIN t
      /\ \A y \in DOMAIN t : t[y].parent \in D => y \in D
      /\ \A y \in D : y # e => t[y].parent \in D
    BY <1>1, SubtreeClosed
<1> HIDE DEF D
<1>4. ASSUME NEW x \in DOMAIN t \ D
      PROVE  t[x].parent \notin D /\ PrevWithout(t, e, x) \notin D
    \* A left sibling in D other than e has its parent, that of x, in D.
    <2>1. NoElem \notin D
        BY <1>3, RowFields
    <2> QED
        BY <1>3, <2>1, BypassSound
<1>5. DOMAIN w = DOMAIN t \ D /\ \A x \in DOMAIN w : w[x] = u[x]
    BY <1>1, <1>4 DEF DeleteRows
<1>6. IsTable(w)
    <2>1. w = [x \in DOMAIN w |-> w[x]]
        BY DEF DeleteRows
    <2> HIDE DEF w
    <2> QED
        BY <1>1, <1>5, <2>1, RowFields DEF IsTable
<1> HIDE DEF w
<1> QED
    BY <1>0, <1>1, <1>2, <1>3, <1>4, <1>5, <1>6

LEMMA DeletedSound ==
    ASSUME NEW t, IsTable(t), SoundTable(t), NEW e
    PROVE  /\ IsTable(Deleted(t, e)) /\ SoundTable(Deleted(t, e))
           /\ DOMAIN Deleted(t, e) \subseteq DOMAIN t
<1>1. CASE e \notin DOMAIN t
    BY <1>1 DEF Deleted
<1>2. CASE e \in DOMAIN t
    <2> DEFINE u == Deleted(t, e)
    <2>1. PICK D \in SUBSET DOMAIN t :
              /\ D = Subtree(t, e) /\ e \in D
              /\ IsTable(u)
              /\ DOMAIN u = DOMAIN t \ D
              /\ \A x \in DOMAIN t \ D :
                     /\ t[x].parent \notin D /\ PrevWithout(t, e, x) \notin D
                     /\ u[x].parent = t[x].parent
                     /\ u[x].prev = PrevWithout(t, e, x)
        <3>1. e \in DOMAIN t
            BY <1>2
        <3> QED
            BY <3>1, DeletedRows
    <2>2. /\ \A x \in DOMAIN u :
                 LET y == PrevWithout(t, e, x)
                 IN  /\ y \in DOMAIN t \cup {NoElem}
                     /\ y # NoElem => t[y].parent = t[x].parent
          /\ \A x, y \in DOMAIN u :
                 t[x].parent = t[y].parent /\ PrevWithout(t, e, x) = PrevWithout(t, e, y)
                     => x = y
          /\ \A S \in SUBSET DOMAIN u :
                 S # {} => \E x \in S : PrevWithout(t, e, x) \notin S
        BY <1>2, <2>1, BypassSound
    <2> HIDE DEF u
    <2>3. KeysResolve(u)
        BY <2>1, <2>2 DEF KeysResolve, SoundTable
    <2>4. Forest(u)
        BY <2>1 DEF Forest, SoundTable
    <2>5. SiblingsShareParent(u)
        BY <2>1, <2>2 DEF SiblingsShareParent, ChildrenOf
    <2>6. ChainsDoNotFork(u)
        BY <2>1, <2>2 DEF ChainsDoNotFork
    <2>7. ChainsEnd(u)
        BY <2>1, <2>2 DEF ChainsEnd
    <2> QED
        BY <2>1, <2>3, <2>4, <2>5, <2>6, <2>7 DEF SoundTable, u
<1> QED
    BY <1>1, <1>2

(***************************************************************************)
(* post_move_element.                                                      *)
(***************************************************************************)

LEMMA MovedRows ==
    ASSUME NEW t, IsTable(t), SoundTable(t), NEW e \in DOMAIN t,
           NEW p \in Ref, NEW q \in Ref
    PROVE  LET w == Moved(t, e, t[e].parent, t[e].prev, p, q)
           IN  /\ IsTable(w)
               /\ DOMAIN w = DOMAIN t
               /\ w[e].parent = p /\ w[e].prev = q
               /\ \A x \in DOMAIN t \ {e} :
                      /\ w[x].parent = t[x].parent
                      /\ w[x].prev = IF t[x].parent = p /\ PrevWithout(t, e, x) = q
                                     THEN e ELSE PrevWithout(t, e, x)
<1> DEFINE u == SetPrev(t, At(t, t[e].parent, e), t[e].prev)
           S == At(u, p, q) \ {e}
           v == SetPrev(u, S, e)
           w == SetPosition(v, e, p, q)
<1>1. /\ IsTable(u) /\ DOMAIN u = DOMAIN t
      /\ \A x \in DOMAIN t :
             u[x].parent = t[x].parent /\ u[x].prev = PrevWithout(t, e, x)
    BY BypassRows
<1>2. At(t, t[e].parent, e) \ {e} = At(t, t[e].parent, e)
    BY BypassSound DEF At
<1>3. Moved(t, e, t[e].parent, t[e].prev, p, q) = w
    BY <1>2 DEF Moved
<1> HIDE DEF u
<1>4. /\ IsTable(v) /\ DOMAIN v = DOMAIN u
      /\ \A x \in DOMAIN u :
             /\ v[x].parent = u[x].parent
             /\ v[x].prev = IF x \in S THEN e ELSE u[x].prev
    <2> e \in Ref
        BY RowFields DEF Ref
    <2> HIDE DEF S
    <2> QED
        BY <1>1, SetPrevRows
<1>5. \A x \in DOMAIN t \ {e} :
          x \in S <=> t[x].parent = p /\ PrevWithout(t, e, x) = q
    BY <1>1 DEF At
<1> HIDE DEF S, v
<1>6. /\ IsTable(w) /\ DOMAIN w = DOMAIN v
      /\ \A x \in DOMAIN v :
             /\ w[x].parent = IF x = e THEN p ELSE v[x].parent
             /\ w[x].prev = IF x = e THEN q ELSE v[x].prev
    BY <1>4, SetPositionRows
<1> HIDE DEF w
<1> QED
    BY <1>1, <1>3, <1>4, <1>5, <1>6

\* The walk over the parents of p is what keeps e out of its own subtree.
LEMMA MovedForest ==
    ASSUME NEW t, IsTable(t), SoundTable(t), NEW e \in DOMAIN t,
           NEW p \in Ref, WalkAvoids(t, p, e), NEW w,
           DOMAIN w = DOMAIN t, w[e].parent = p,
           \A x \in DOMAIN t \ {e} : w[x].parent = t[x].parent
    PROVE  Forest(w)
<1> SUFFICES ASSUME NEW S \in SUBSET DOMAIN t, S # {}
             PROVE  \E x \in S : w[x].parent \notin S
    BY DEF Forest
<1>1. PICK x \in S : t[x].parent \notin S
    BY DEF SoundTable, Forest
<1>2. CASE x # e
    BY <1>1, <1>2
<1>3. CASE x = e
    <2>1. PICK A \in SUBSET (DOMAIN t \ {e}) :
              /\ p \in A \cup {NoElem}
              /\ \A y \in A : t[y].parent \in A \cup {NoElem}
        BY DEF WalkAvoids
    <2>2. CASE S \cap A = {}
        BY <1>3, <2>1, <2>2, RowFields
    <2>3. CASE S \cap A # {}
        \* The ancestors of p lead out of S by themselves.
        <3>1. PICK y \in S \cap A : t[y].parent \notin S \cap A
            BY <2>3 DEF SoundTable, Forest
        <3>2. t[y].parent \notin S
            BY <2>1, <3>1, RowFields
        <3> QED
            BY <2>1, <3>1, <3>2
    <2> QED
        BY <2>2, <2>3
<1> QED
    BY <1>2, <1>3

LEMMA MovedSound ==
    ASSUME NEW t, IsTable(t), SoundTable(t), NEW e \in DOMAIN t,
           NEW p \in Ref, WalkAvoids(t, p, e),
           NEW q \in (ChildrenOf(t, p) \ {e}) \cup {NoElem}
    PROVE  /\ IsTable(Moved(t, e, t[e].parent, t[e].prev, p, q))
           /\ SoundTable(Moved(t, e, t[e].parent, t[e].prev, p, q))
<1> DEFINE w == Moved(t, e, t[e].parent, t[e].prev, p, q)
           b(x) == PrevWithout(t, e, x)
<1>1. q \in Ref
    BY RowFields DEF ChildrenOf, Ref
<1>2. /\ IsTable(w) /\ DOMAIN w = DOMAIN t
      /\ w[e].parent = p /\ w[e].prev = q
      /\ \A x \in DOMAIN t \ {e} :
             /\ w[x].parent = t[x].parent
             /\ w[x].prev = IF t[x].parent = p /\ b(x) = q THEN e ELSE b(x)
    BY <1>1, MovedRows
<1>3. /\ p # e /\ p \in DOMAIN t \cup {NoElem}
      /\ q # e /\ q \in DOMAIN t \cup {NoElem}
      /\ q # NoElem => t[q].parent = p
    BY RowFields DEF WalkAvoids, ChildrenOf
<1>4. /\ \A x \in DOMAIN t \ {e} :
             /\ b(x) # e
             /\ b(x) \in DOMAIN t \cup {NoElem}
             /\ b(x) # NoElem => t[b(x)].parent = t[x].parent
      /\ \A x, y \in DOMAIN t \ {e} :
             t[x].parent = t[y].parent /\ b(x) = b(y) => x = y
      /\ \A S \in SUBSET (DOMAIN t \ {e}) :
             S # {} => \E x \in S : b(x) \notin S
    BY BypassSound
<1>5. \A x \in DOMAIN t : x # NoElem
    BY RowFields
<1> HIDE DEF w, b
<1>6. KeysResolve(w)
    BY <1>2, <1>3, <1>4 DEF KeysResolve, SoundTable
<1>7. Forest(w)
    BY <1>2, MovedForest
<1>8. SiblingsShareParent(w)
    BY <1>2, <1>3, <1>4, <1>5 DEF SiblingsShareParent, ChildrenOf
<1>9. ChainsDoNotFork(w)
    BY <1>2, <1>3, <1>4 DEF ChainsDoNotFork
<1>10. ChainsEnd(w)
    <2> SUFFICES ASSUME NEW S \in SUBSET DOMAIN t, S # {}
                 PROVE  \E x \in S : w[x].prev \notin S
        BY <1>2 DEF ChainsEnd
    <2>1. CASE S \ {e} = {}
        BY <2>1, <1>2, <1>3
    <2>2. CASE S \ {e} # {}
        <3>1. PICK x \in S \ {e} : b(x) \notin S \ {e}
            BY <2>2, <1>4
        <3>2. b(x) \notin S
            BY <3>1, <1>4
        <3>3. CASE w[x].prev = b(x)
            BY <3>1, <3>2, <3>3
        <3>4. CASE w[x].prev # b(x)
            \* x follows e now: if e is in S, then e leads to q, where x led.
            <4>1. w[x].prev = e /\ b(x) = q
                BY <3>1, <3>4, <1>2
            <4> QED
                BY <3>1, <3>2, <4>1, <1>2
        <3> QED
            BY <3>3, <3>4
    <2> QED
        BY <2>1, <2>2
<1> QED
    BY <1>2, <1>6, <1>7, <1>8, <1>9, <1>10 DEF SoundTable, w

(***************************************************************************)
(* Changes that leave the keys alone, and the page as it is created.       *)
(***************************************************************************)

LEMMA SameKeysSound ==
    ASSUME NEW t, SoundTable(t), NEW u, DOMAIN u = DOMAIN t,
           \A x \in DOMAIN t : u[x].parent = t[x].parent /\ u[x].prev = t[x].prev
    PROVE  SoundTable(u)
<1>1. KeysResolve(u)
    BY DEF SoundTable, KeysResolve
<1>2. Forest(u)
    BY DEF SoundTable, Forest
<1>3. SiblingsShareParent(u)
    BY DEF SoundTable, SiblingsShareParent, ChildrenOf, KeysResolve
<1>4. ChainsDoNotFork(u)
    BY DEF SoundTable, ChainsDoNotFork
<1>5. ChainsEnd(u)
    BY DEF SoundTable, ChainsEnd
<1> QED
    BY <1>1, <1>2, <1>3, <1>4, <1>5 DEF SoundTable

LEMMA OneRowSound ==
    ASSUME NEW r \in Elem, NEW row \in Row, row.parent = NoElem, row.prev = NoElem
    PROVE  IsTable([x \in {r} |-> row]) /\ SoundTable([x \in {r} |-> row])
<1> DEFINE t == [x \in {r} |-> row]
<1>1. DOMAIN t = {r} /\ t[r].parent = NoElem /\ t[r].prev = NoElem /\ r # NoElem
    BY ElementTableAssumption
<1>2. IsTable(t)
    BY DEF IsTable
<1> HIDE DEF t
<1>3. KeysResolve(t) /\ SiblingsShareParent(t) /\ ChainsDoNotFork(t)
    BY <1>1 DEF KeysResolve, SiblingsShareParent, ChainsDoNotFork
<1>4. Forest(t)
    BY <1>1 DEF Forest
<1>5. ChainsEnd(t)
    BY <1>1 DEF ChainsEnd
<1> QED
    BY <1>2, <1>3, <1>4, <1>5 DEF SoundTable, t
=============================================================================
