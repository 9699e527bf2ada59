------------------------- MODULE ArenaTree_proofs -------------------------
(***************************************************************************)
(* Whatever calls are made, the refused and the half-done ones included:   *)
(* the tree keeps its types, its index is exact, its links agree, its      *)
(* child lists are complete, and as long as no caller strays every node    *)
(* hangs below the root.  For every set of uuids and any number of nodes.  *)
(*                                                                         *)
(* Every operation is put together from three changes of the links: a node *)
(* comes in unlinked (WithNode), a node is taken out of its list (Loose),  *)
(* a node without links is put between two neighbours (Linked).  Each has  *)
(* a lemma that it keeps the links whole; an operation cites the lemmas of *)
(* its changes.                                                            *)
(*                                                                         *)
(* What the calls do to the lists of children (OrderedTree) rests on four  *)
(* facts.  The walk over first and next meets every child once             *)
(* (ChildListIsExact), and since links do not fork, a sequence of all the  *)
(* children in the order of their prev links is that walk (OneList).  So a *)
(* change of links need only be shown to put one place into one list       *)
(* (LinkedLists) or to take one out of it (LooseLists).  The index turns   *)
(* keys into uuids one to one (KidsNow), which carries both over to the    *)
(* lists of uuids (NamesInserted, NamesRemoved).  And what remove() takes  *)
(* is what OrderedTree calls Below (RemoveDrops), which the walk up of     *)
(* move_to stays clear of (MayMoveIsNotBelow).                             *)
(***************************************************************************)
EXTENDS ArenaOrder, SequencesExt, SequenceTheorems, FiniteSetTheorems, WellFoundedInduction, TLAPS

Typed(f) == f \in [DOMAIN f -> Node] /\ DOMAIN f \subseteq Nat \ {0}

LeftLinks(f) ==
    \A n \in DOMAIN f : f[n].prev # NoNode =>
        /\ f[n].prev \in DOMAIN f
        /\ f[f[n].prev].next = n
        /\ f[f[n].prev].parent = f[n].parent

RightLinks(f) ==
    \A n \in DOMAIN f : f[n].next # NoNode =>
        /\ f[n].next \in DOMAIN f
        /\ f[f[n].next].prev = n

UpLinks(f) ==
    \A n \in DOMAIN f : f[n].parent # NoNode =>
        /\ f[n].parent \in DOMAIN f
        /\ f[n].prev = NoNode => f[f[n].parent].first = n
        /\ f[n].next = NoNode => f[f[n].parent].last = n

DownLinks(f) ==
    \A n \in DOMAIN f :
        /\ f[n].first # NoNode => /\ f[n].first \in DOMAIN f
                                  /\ f[f[n].first].parent = n
                                  /\ f[f[n].first].prev = NoNode
        /\ f[n].last # NoNode => /\ f[n].last \in DOMAIN f
                                 /\ f[f[n].last].parent = n
                                 /\ f[f[n].last].next = NoNode
        /\ f[n].first = NoNode <=> f[n].last = NoNode

Unlisted(f) ==
    \A n \in DOMAIN f : f[n].parent = NoNode => f[n].prev = NoNode /\ f[n].next = NoNode

NoRing(f) ==
    \A S \in SUBSET DOMAIN f : S # {} => \E x \in S : f[x].prev \notin S

\* The links of f are whole.
Whole(f) ==
    /\ LeftLinks(f) /\ RightLinks(f)
    /\ UpLinks(f) /\ DownLinks(f)
    /\ Unlisted(f) /\ NoRing(f)

\* id is in f, and no link leads to it or from it but those to its children.
Isolated(f, id) ==
    /\ id \in DOMAIN f
    /\ f[id].parent = NoNode

\* l and r are neighbours in the list of p, or its ends.
Neighbours(f, p, l, r) ==
    /\ p \in DOMAIN f
    /\ l # NoNode => l \in DOMAIN f /\ f[l].parent = p /\ f[l].next = r
    /\ r # NoNode => r \in DOMAIN f /\ f[r].parent = p /\ f[r].prev = l
    /\ l = NoNode => f[p].first = r
    /\ r = NoNode => f[p].last = l

-----------------------------------------------------------------------------
(* What the changes of links do, field by field *)

IsLinked(f, g, id, p, l, r) ==
    /\ DOMAIN g = DOMAIN f
    /\ Typed(g)
    /\ \A n \in DOMAIN f :
          /\ g[n].uuid = f[n].uuid
          /\ g[n].parent = IF n = id THEN p ELSE f[n].parent
          /\ g[n].prev = IF n = id THEN l ELSE IF n = r THEN id ELSE f[n].prev
          /\ g[n].next = IF n = id THEN r ELSE IF n = l THEN id ELSE f[n].next
          /\ g[n].first = IF n = p /\ l = NoNode THEN id ELSE f[n].first
          /\ g[n].last = IF n = p /\ r = NoNode THEN id ELSE f[n].last

IsLoose(f, g, id) ==
    /\ DOMAIN g = DOMAIN f
    /\ Typed(g)
    /\ \A n \in DOMAIN f :
          /\ g[n].uuid = f[n].uuid
          /\ g[n].parent = IF n = id THEN NoNode ELSE f[n].parent
          /\ g[n].prev = IF n = id THEN NoNode
                         ELSE IF n = f[id].next THEN f[id].prev ELSE f[n].prev
          /\ g[n].next = IF n = id THEN NoNode
                         ELSE IF n = f[id].prev THEN f[id].next ELSE f[n].next
          /\ g[n].first = IF n = f[id].parent /\ f[n].first = id
                          THEN f[id].next ELSE f[n].first
          /\ g[n].last = IF n = f[id].parent /\ f[n].last = id
                         THEN f[id].prev ELSE f[n].last

LEMMA LinkedFields ==
    ASSUME NEW f, Typed(f), NEW id \in DOMAIN f, NEW p \in DOMAIN f,
           NEW l \in Nat, NEW r \in Nat
    PROVE  IsLinked(f, Linked(f, id, p, l, r), id, p, l, r)
<1> DEFINE g == Linked(f, id, p, l, r)
<1>1. DOMAIN g = DOMAIN f
  BY DEF Linked
<1>2. id \in Nat /\ p \in Nat
  BY DEF Typed
<1>3. ASSUME NEW n \in DOMAIN f
      PROVE  /\ g[n] \in Node
             /\ g[n].uuid = f[n].uuid
             /\ g[n].parent = IF n = id THEN p ELSE f[n].parent
             /\ g[n].prev = IF n = id THEN l ELSE IF n = r THEN id ELSE f[n].prev
             /\ g[n].next = IF n = id THEN r ELSE IF n = l THEN id ELSE f[n].next
             /\ g[n].first = IF n = p /\ l = NoNode THEN id ELSE f[n].first
             /\ g[n].last = IF n = p /\ r = NoNode THEN id ELSE f[n].last
  <2>1. f[n] \in Node
    BY <1>3 DEF Typed
  <2> QED
    BY <1>2, <1>3, <2>1 DEF Linked, Node
<1>4. g = [n \in DOMAIN f |-> g[n]]
  BY DEF Linked
<1>5. Typed(g)
  BY <1>1, <1>3, <1>4 DEF Typed
<1> HIDE DEF g
<1>6. IsLinked(f, g, id, p, l, r)
  BY <1>1, <1>3, <1>5 DEF IsLinked
<1> QED
  BY <1>6 DEF g

LEMMA LooseFields ==
    ASSUME NEW f, Typed(f), NEW id \in DOMAIN f
    PROVE  IsLoose(f, Loose(f, id), id)
<1> DEFINE d == Detached(f, id)
           g == Loose(f, id)
<1>1. DOMAIN d = DOMAIN f /\ f[id] \in Node
  BY DEF Detached, Typed
<1>2. ASSUME NEW n \in DOMAIN f
      PROVE  /\ d[n] \in Node
             /\ d[n].uuid = f[n].uuid
             /\ d[n].parent = f[n].parent
             /\ d[n].prev = IF n = f[id].next THEN f[id].prev ELSE f[n].prev
             /\ d[n].next = IF n = f[id].prev THEN f[id].next ELSE f[n].next
             /\ d[n].first = IF n = f[id].parent /\ f[n].first = id
                             THEN f[id].next ELSE f[n].first
             /\ d[n].last = IF n = f[id].parent /\ f[n].last = id
                            THEN f[id].prev ELSE f[n].last
  <2>1. f[n] \in Node
    BY <1>2 DEF Typed
  <2> QED
    BY <1>1, <1>2, <2>1 DEF Detached, Node
<1>3. DOMAIN g = DOMAIN f
  BY <1>1 DEF Loose
<1>4. ASSUME NEW n \in DOMAIN f, n # id
      PROVE  g[n] = d[n]
  BY <1>1, <1>4 DEF Loose
<1>5. /\ g[id] \in Node
      /\ g[id].uuid = d[id].uuid /\ g[id].first = d[id].first /\ g[id].last = d[id].last
      /\ g[id].parent = NoNode /\ g[id].prev = NoNode /\ g[id].next = NoNode
  BY <1>1, <1>2 DEF Loose, Node, NoNode
<1>6. g = [n \in DOMAIN f |-> g[n]]
  BY <1>1 DEF Loose, Detached
<1>7. Typed(g)
  BY <1>2, <1>3, <1>4, <1>5, <1>6 DEF Typed
<1> HIDE DEF g, d
<1>8. IsLoose(f, g, id)
  BY <1>2, <1>3, <1>4, <1>5, <1>7 DEF IsLoose
<1> QED
  BY <1>8 DEF g
-----------------------------------------------------------------------------
(* Each change keeps the links whole *)

\* Taking a node out of its list.
LEMMA LooseIsWhole ==
    ASSUME NEW f, Typed(f), Whole(f), NEW id \in DOMAIN f
    PROVE  Whole(Loose(f, id)) /\ Isolated(Loose(f, id), id)
<1> DEFINE g == Loose(f, id)
           D == DOMAIN f
<1>1. /\ DOMAIN g = D
      /\ \A n \in D :
            /\ g[n].parent = IF n = id THEN NoNode ELSE f[n].parent
            /\ g[n].prev = IF n = id THEN NoNode
                           ELSE IF n = f[id].next THEN f[id].prev ELSE f[n].prev
            /\ g[n].next = IF n = id THEN NoNode
                           ELSE IF n = f[id].prev THEN f[id].next ELSE f[n].next
            /\ g[n].first = IF n = f[id].parent /\ f[n].first = id
                            THEN f[id].next ELSE f[n].first
            /\ g[n].last = IF n = f[id].parent /\ f[n].last = id
                           THEN f[id].prev ELSE f[n].last
  <2>1. IsLoose(f, g, id)
    BY LooseFields
  <2> QED
    BY <2>1 DEF IsLoose
<1>2. NoNode \notin D
  BY DEF Typed, NoNode
<1> HIDE DEF g
<1>3. LeftLinks(g)
  BY <1>1, <1>2 DEF LeftLinks, RightLinks, Whole
<1>4. RightLinks(g)
  BY <1>1, <1>2 DEF LeftLinks, RightLinks, Whole
<1>5. UpLinks(g)
  BY <1>1, <1>2 DEF UpLinks, LeftLinks, RightLinks, Whole
<1>6. DownLinks(g)
  BY <1>1, <1>2 DEF UpLinks, DownLinks, LeftLinks, RightLinks, Whole
<1>7. Unlisted(g)
  BY <1>1, <1>2 DEF Unlisted, LeftLinks, RightLinks, Whole
<1>8. NoRing(g)
  <2> SUFFICES ASSUME NEW S \in SUBSET D, S # {}, \A x \in S : g[x].prev \in S
               PROVE  FALSE
    BY <1>1 DEF NoRing
  <2>1. id \notin S
    BY <1>1, <1>2
  <2>2. CASE f[id].next \in S
    <3>1. \A x \in S \cup {id} : f[x].prev \in S \cup {id}
      BY <1>1, <1>2, <2>1, <2>2 DEF Whole, RightLinks
    <3> QED
      BY <3>1 DEF Whole, NoRing
  <2>3. CASE f[id].next \notin S
    <3>1. \A x \in S : f[x].prev \in S
      BY <1>1, <2>1, <2>3
    <3> QED
      BY <3>1 DEF Whole, NoRing
  <2> QED
    BY <2>2, <2>3
<1>9. Isolated(g, id)
  BY <1>1 DEF Isolated
<1> QED
  BY <1>3, <1>4, <1>5, <1>6, <1>7, <1>8, <1>9 DEF Whole, g

\* Putting a node without links between two neighbours.
LEMMA LinkedIsWhole ==
    ASSUME NEW f, Typed(f), Whole(f), NEW id, Isolated(f, id),
           NEW p, NEW l \in Nat, NEW r \in Nat, Neighbours(f, p, l, r)
    PROVE  Whole(Linked(f, id, p, l, r))
<1> DEFINE g == Linked(f, id, p, l, r)
           D == DOMAIN f
<1>0. id \in D /\ p \in D /\ f[id].parent = NoNode /\ f[id].prev = NoNode /\ f[id].next = NoNode
  BY DEF Isolated, Neighbours, Whole, Unlisted
<1>1. /\ DOMAIN g = D
      /\ \A n \in D :
            /\ g[n].parent = IF n = id THEN p ELSE f[n].parent
            /\ g[n].prev = IF n = id THEN l ELSE IF n = r THEN id ELSE f[n].prev
            /\ g[n].next = IF n = id THEN r ELSE IF n = l THEN id ELSE f[n].next
            /\ g[n].first = IF n = p /\ l = NoNode THEN id ELSE f[n].first
            /\ g[n].last = IF n = p /\ r = NoNode THEN id ELSE f[n].last
  <2>1. id \in DOMAIN f /\ p \in DOMAIN f
    BY <1>0
  <2>2. IsLinked(f, g, id, p, l, r)
    BY <2>1, LinkedFields
  <2> QED
    BY <2>2 DEF IsLinked
<1>2. NoNode \notin D
  BY DEF Typed, NoNode
<1>3. l # id /\ r # id
  BY <1>0, <1>2 DEF Neighbours
<1> HIDE DEF g
<1>4. LeftLinks(g)
  BY <1>0, <1>1, <1>2, <1>3 DEF LeftLinks, RightLinks, Whole, Neighbours
<1>5. RightLinks(g)
  BY <1>0, <1>1, <1>2, <1>3 DEF LeftLinks, RightLinks, Whole, Neighbours
<1>6. UpLinks(g)
  BY <1>0, <1>1, <1>2, <1>3 DEF UpLinks, LeftLinks, RightLinks, Whole, Neighbours
<1>7. DownLinks(g)
  BY <1>0, <1>1, <1>2, <1>3 DEF UpLinks, DownLinks, LeftLinks, RightLinks, Whole, Neighbours
<1>8. Unlisted(g)
  BY <1>0, <1>1, <1>2, <1>3 DEF Unlisted, LeftLinks, RightLinks, Whole, Neighbours
<1>9. NoRing(g)
  <2> SUFFICES ASSUME NEW S \in SUBSET D, S # {}, \A x \in S : g[x].prev \in S
               PROVE  FALSE
    BY <1>1 DEF NoRing
  <2>1. CASE S = {id}
    BY <2>1, <1>0, <1>1, <1>2, <1>3 DEF Neighbours
  <2>2. CASE S # {id}
    <3>1. \A x \in S \ {id} : f[x].prev \in S \ {id}
      <4> SUFFICES ASSUME NEW x \in S, x # id
                   PROVE  f[x].prev \in S \ {id}
        OBVIOUS
      <4>1. CASE x = r
        <5>1. id \in S /\ l \in S
          BY <4>1, <1>0, <1>1, <1>3
        <5> QED
          BY <4>1, <5>1, <1>0, <1>2, <1>3 DEF Neighbours
      <4>2. CASE x # r
        <5>1. f[x].prev \in S
          BY <4>2, <1>0, <1>1
        <5>2. f[x].prev # id
          BY <5>1, <1>0, <1>2 DEF Whole, LeftLinks
        <5> QED
          BY <5>1, <5>2
      <4> QED
        BY <4>1, <4>2
    <3>2. S \ {id} # {} /\ S \ {id} \in SUBSET D
      BY <2>2
    <3> QED
      BY <3>1, <3>2 DEF Whole, NoRing
  <2> QED
    BY <2>1, <2>2
<1> QED
  BY <1>4, <1>5, <1>6, <1>7, <1>8, <1>9 DEF Whole, g

\* A new node.
LEMMA WithNodeIsWhole ==
    ASSUME NEW f, Typed(f), Whole(f), NEW id \in Nat \ DOMAIN f, id # NoNode,
           NEW u \in Uuid, NEW c \in Content
    PROVE  LET g == WithNode(f, id, u, c)
           IN  /\ DOMAIN g = DOMAIN f \cup {id}
               /\ Typed(g) /\ Whole(g) /\ Isolated(g, id)
               /\ \A n \in DOMAIN f : g[n] = f[n]
               /\ g[id].uuid = u
<1> DEFINE g == WithNode(f, id, u, c)
           D == DOMAIN f
<1>1. /\ DOMAIN g = D \cup {id}
      /\ \A n \in D : g[n] = f[n]
      /\ g[id] = [uuid |-> u, content |-> c, parent |-> NoNode, first |-> NoNode,
                  last |-> NoNode, prev |-> NoNode, next |-> NoNode]
  BY DEF WithNode
<1>2. NoNode \notin D
  BY DEF Typed, NoNode
<1>3. Typed(g)
  <2>1. g[id] \in Node
    BY <1>1 DEF Node, NoNode
  <2>2. \A n \in D : g[n] \in Node
    BY <1>1 DEF Typed
  <2>3. g = [n \in D \cup {id} |-> g[n]]
    BY DEF WithNode
  <2> QED
    BY <1>1, <2>1, <2>2, <2>3 DEF Typed, NoNode
<1>4. /\ g[id].uuid = u /\ g[id].parent = NoNode /\ g[id].prev = NoNode /\ g[id].next = NoNode
      /\ g[id].first = NoNode /\ g[id].last = NoNode
  BY <1>1
<1> HIDE DEF g
<1>5. LeftLinks(g) /\ RightLinks(g)
  BY <1>1, <1>2, <1>4 DEF LeftLinks, RightLinks, Whole
<1>6. UpLinks(g) /\ DownLinks(g)
  BY <1>1, <1>2, <1>4 DEF UpLinks, DownLinks, Whole
<1>7. Unlisted(g)
  BY <1>1, <1>4 DEF Unlisted, Whole
<1>8. NoRing(g)
  <2> SUFFICES ASSUME NEW S \in SUBSET (D \cup {id}), S # {}, \A x \in S : g[x].prev \in S
               PROVE  FALSE
    BY <1>1 DEF NoRing
  <2>1. id \notin S
    BY <1>2, <1>4
  <2> QED
    BY <1>1, <2>1 DEF Whole, NoRing
<1> QED
  BY <1>1, <1>3, <1>4, <1>5, <1>6, <1>7, <1>8 DEF Whole, Isolated, g
-----------------------------------------------------------------------------
(* What remove() takes along *)

\* S holds id and the child lists of its members.
Closed(f, id, S) ==
    /\ id \in S
    /\ \A y \in S : f[y].first \in S \cup {NoNode}
    /\ \A y \in S \ {id} : f[y].next \in S \cup {NoNode}

LEMMA DownwardIsLeast ==
    ASSUME NEW f, NEW id
    PROVE  /\ Downward(f, id) \subseteq DOMAIN f
           /\ \A S \in SUBSET DOMAIN f : Closed(f, id, S) => Downward(f, id) \subseteq S
           /\ \A x \in DOMAIN f :
                 (\A S \in SUBSET DOMAIN f : Closed(f, id, S) => x \in S) => x \in Downward(f, id)
BY DEF Downward, Closed

LEMMA DownwardIsClosed ==
    ASSUME NEW f, Typed(f), Whole(f), NEW id \in DOMAIN f
    PROVE  Closed(f, id, Downward(f, id))
<1> DEFINE G == Downward(f, id)
<1>1. id \in G
  BY DownwardIsLeast DEF Closed
<1>2. ASSUME NEW y \in G
      PROVE  f[y].first \in G \cup {NoNode}
  <2>1. y \in DOMAIN f
    BY <1>2, DownwardIsLeast
  <2>2. \A S \in SUBSET DOMAIN f : Closed(f, id, S) => f[y].first \in S \cup {NoNode}
    BY <1>2, DownwardIsLeast DEF Closed
  <2>3. f[y].first \in DOMAIN f \cup {NoNode}
    BY <2>1 DEF Whole, DownLinks
  <2> QED
    BY <2>2, <2>3, DownwardIsLeast
<1>3. ASSUME NEW y \in G \ {id}
      PROVE  f[y].next \in G \cup {NoNode}
  <2>1. y \in DOMAIN f
    BY <1>3, DownwardIsLeast
  <2>2. \A S \in SUBSET DOMAIN f : Closed(f, id, S) => f[y].next \in S \cup {NoNode}
    BY <1>3, DownwardIsLeast DEF Closed
  <2>3. f[y].next \in DOMAIN f \cup {NoNode}
    BY <2>1 DEF Whole, RightLinks
  <2> QED
    BY <2>2, <2>3, DownwardIsLeast
<1> QED
  BY <1>1, <1>2, <1>3 DEF Closed

\* From a node without links, remove() takes whole lists: no node that stays
\* is linked to one that goes, and a root other than id stays.
LEMMA DownwardIsCut ==
    ASSUME NEW f, Typed(f), Whole(f), NEW id, Isolated(f, id)
    PROVE  LET G == Downward(f, id)
           IN  /\ \A n \in DOMAIN f \ G :
                    /\ f[n].parent \notin G
                    /\ f[n].prev \notin G /\ f[n].next \notin G
                    /\ f[n].first \notin G /\ f[n].last \notin G
               /\ \A rt \in DOMAIN f \ {id} : f[rt].parent = NoNode => rt \notin G
<1> DEFINE D == DOMAIN f
           G == Downward(f, id)
<1>1. G \subseteq D /\ Closed(f, id, G) /\ NoNode \notin D
  BY DownwardIsLeast, DownwardIsClosed DEF Isolated, Typed, NoNode
<1>2. id \in D /\ f[id].parent = NoNode /\ f[id].prev = NoNode /\ f[id].next = NoNode
  BY DEF Isolated, Whole, Unlisted
<1>3. G \subseteq {id} \cup {x \in G : f[x].parent \in G /\ f[x].prev \in G \cup {NoNode}}
  <2> DEFINE T == {id} \cup {x \in G : f[x].parent \in G /\ f[x].prev \in G \cup {NoNode}}
  <2>1. T \in SUBSET D
    BY <1>1, <1>2
  <2>2. T \subseteq G
    BY <1>1 DEF Closed
  <2>3. ASSUME NEW y \in T
        PROVE  f[y].first \in T \cup {NoNode}
    <3>1. f[y].first \in G \cup {NoNode}
      BY <1>1, <2>2, <2>3 DEF Closed
    <3>2. ASSUME f[y].first # NoNode
          PROVE  f[f[y].first].parent = y /\ f[f[y].first].prev = NoNode
      BY <2>1, <2>3, <3>2 DEF Whole, DownLinks
    <3> QED
      BY <2>2, <3>1, <3>2
  <2>4. ASSUME NEW y \in T \ {id}
        PROVE  f[y].next \in T \cup {NoNode}
    <3>1. f[y].next \in G \cup {NoNode}
      BY <1>1, <2>2, <2>4 DEF Closed
    <3>2. ASSUME f[y].next # NoNode
          PROVE  f[f[y].next].parent = f[y].parent /\ f[f[y].next].prev = y
      <4>1. f[y].next \in D /\ f[f[y].next].prev = y
        BY <2>1, <2>4, <3>2 DEF Whole, RightLinks
      <4>2. y # NoNode
        BY <2>1, <1>1
      <4> QED
        BY <4>1, <4>2 DEF Whole, LeftLinks
    <3> QED
      BY <2>2, <2>4, <3>1, <3>2
  <2>5. Closed(f, id, T)
    BY <2>3, <2>4 DEF Closed
  <2> HIDE DEF T
  <2>6. G \subseteq T
    BY <2>1, <2>5, DownwardIsLeast
  <2> QED
    BY <2>6 DEF T
<1>4. \A n \in D \ G : f[n].parent \notin G
  <2> SUFFICES ASSUME NEW y \in G, {z \in D \ G : f[z].parent = y} # {}
               PROVE  FALSE
    OBVIOUS
  <2> DEFINE S == {z \in D \ G : f[z].parent = y}
  <2>1. PICK z \in S : f[z].prev \notin S
    <3>1. S \in SUBSET D
      OBVIOUS
    <3> QED
      BY <3>1 DEF Whole, NoRing
  <2>2. y # NoNode /\ z \in D /\ z \notin G /\ f[z].parent = y
    BY <1>1, <2>1
  <2>3. CASE f[z].prev = NoNode
    <3>1. f[y].first = z
      BY <2>2, <2>3 DEF Whole, UpLinks
    <3> QED
      BY <1>1, <2>2, <3>1 DEF Closed
  <2>4. CASE f[z].prev # NoNode
    <3>1. f[z].prev \in D /\ f[f[z].prev].next = z /\ f[f[z].prev].parent = y
      BY <2>2, <2>4 DEF Whole, LeftLinks
    <3>2. f[z].prev \in G
      BY <2>1, <3>1
    <3>3. f[z].prev # id
      BY <1>2, <2>2, <3>1
    <3> QED
      BY <1>1, <2>2, <3>1, <3>2, <3>3 DEF Closed
  <2> QED
    BY <2>3, <2>4
<1>5. ASSUME NEW n \in D \ G
      PROVE  f[n].prev \notin G
  <2> SUFFICES ASSUME f[n].prev \in G
               PROVE  FALSE
    OBVIOUS
  <2>1. f[f[n].prev].next = n
    BY <1>1 DEF Whole, LeftLinks
  <2>2. f[n].prev # id
    BY <1>1, <1>2, <2>1
  <2> QED
    BY <1>1, <2>1, <2>2 DEF Closed
<1>6. ASSUME NEW n \in D \ G
      PROVE  f[n].next \notin G
  <2> SUFFICES ASSUME f[n].next \in G
               PROVE  FALSE
    OBVIOUS
  <2>1. f[f[n].next].prev = n
    BY <1>1 DEF Whole, RightLinks
  <2> QED
    BY <1>1, <1>2, <1>3, <2>1
<1>7. ASSUME NEW n \in D \ G
      PROVE  f[n].first \notin G /\ f[n].last \notin G
  <2>1. ASSUME f[n].first \in G
        PROVE  FALSE
    <3>1. f[f[n].first].parent = n
      BY <1>1, <2>1 DEF Whole, DownLinks
    <3> QED
      BY <1>1, <1>2, <1>3, <2>1, <3>1
  <2>2. ASSUME f[n].last \in G
        PROVE  FALSE
    <3>1. f[f[n].last].parent = n
      BY <1>1, <2>2 DEF Whole, DownLinks
    <3> QED
      BY <1>1, <1>2, <1>3, <2>2, <3>1
  <2> QED
    BY <2>1, <2>2
<1>8. \A rt \in D \ {id} : f[rt].parent = NoNode => rt \notin G
  BY <1>1, <1>3
<1> QED
  BY <1>4, <1>5, <1>6, <1>7, <1>8

LEMMA RestrictedIsWhole ==
    ASSUME NEW f, Typed(f), Whole(f), NEW G,
           \A n \in DOMAIN f \ G :
              /\ f[n].parent \notin G
              /\ f[n].prev \notin G /\ f[n].next \notin G
              /\ f[n].first \notin G /\ f[n].last \notin G
    PROVE  LET g == [n \in DOMAIN f \ G |-> f[n]]
           IN  Typed(g) /\ Whole(g)
<1> DEFINE D == DOMAIN f \ G
           g == [n \in D |-> f[n]]
<1>1. DOMAIN g = D /\ \A n \in D : g[n] = f[n]
  OBVIOUS
<1>2. Typed(g)
  BY DEF Typed
<1>3. \A n \in D : /\ f[n].parent \in DOMAIN f => f[n].parent \in D
                   /\ f[n].prev \in DOMAIN f => f[n].prev \in D
                   /\ f[n].next \in DOMAIN f => f[n].next \in D
                   /\ f[n].first \in DOMAIN f => f[n].first \in D
                   /\ f[n].last \in DOMAIN f => f[n].last \in D
  OBVIOUS
<1> HIDE DEF g
<1>4. LeftLinks(g) /\ RightLinks(g)
  BY <1>1, <1>3 DEF Whole, LeftLinks, RightLinks
<1>5. UpLinks(g) /\ DownLinks(g)
  BY <1>1, <1>3 DEF Whole, UpLinks, DownLinks
<1>6. Unlisted(g) /\ NoRing(g)
  BY <1>1 DEF Whole, Unlisted, NoRing
<1> QED
  BY <1>2, <1>4, <1>5, <1>6 DEF Whole, g
-----------------------------------------------------------------------------
(* The invariant, and the operations *)

TreeInv ==
    /\ ArenaTypeOK /\ Typed(nodes) /\ Whole(nodes)
    /\ IndexIsExact
    /\ nodes[root].parent = NoNode

\* Neighbours of a list, as the operations pick them.
LEMMA EndIsNeighbour ==
    ASSUME NEW f, Typed(f), Whole(f), NEW p \in DOMAIN f
    PROVE  /\ Neighbours(f, p, f[p].last, NoNode)
           /\ Neighbours(f, p, NoNode, f[p].first)
           /\ f[p].last \in Nat /\ f[p].first \in Nat
<1>1. f[p].last \in Nat /\ f[p].first \in Nat
  BY DEF Typed, Node
<1> QED
  BY <1>1 DEF Neighbours, Whole, DownLinks

LEMMA SiblingIsNeighbour ==
    ASSUME NEW f, Typed(f), Whole(f), NEW s \in DOMAIN f, f[s].parent # NoNode
    PROVE  /\ Neighbours(f, f[s].parent, f[s].prev, s)
           /\ Neighbours(f, f[s].parent, s, f[s].next)
           /\ f[s].prev \in Nat /\ f[s].next \in Nat /\ s \in Nat
<1>1. f[s].prev \in Nat /\ f[s].next \in Nat /\ s \in Nat /\ s # NoNode
  BY DEF Typed, Node, NoNode
<1>2. Neighbours(f, f[s].parent, f[s].prev, s)
  BY <1>1 DEF Neighbours, Whole, LeftLinks, UpLinks
<1>3. f[s].next # NoNode => f[s].next \in DOMAIN f /\ f[f[s].next].prev = s /\ f[f[s].next].parent = f[s].parent
  BY <1>1 DEF Whole, RightLinks, LeftLinks
<1>4. Neighbours(f, f[s].parent, s, f[s].next)
  BY <1>1, <1>3 DEF Neighbours, Whole, UpLinks
<1> QED
  BY <1>1, <1>2, <1>4

LEMMA InsertKeepsTreeInv ==
    ASSUME TreeInv, NEW u \in Uuid, NEW c \in Content,
           NEW p, NEW l \in Nat, NEW r \in Nat, Neighbours(nodes, p, l, r),
           Insert(p, l, r, u, c)
    PROVE  TreeInv'
<1> DEFINE id == handed + 1
           g == WithNode(nodes, id, u, c)
           h == Linked(g, id, p, l, r)
<1>0. Typed(nodes) /\ Whole(nodes) /\ handed \in Nat /\ DOMAIN nodes \subseteq 1..handed
      /\ root \in DOMAIN nodes
  BY DEF TreeInv, ArenaTypeOK
<1>1. id \in Nat \ DOMAIN nodes /\ id # NoNode
  BY <1>0 DEF NoNode
<1> HIDE DEF id
<1>2. /\ DOMAIN g = DOMAIN nodes \cup {id}
      /\ Typed(g) /\ Whole(g) /\ Isolated(g, id)
      /\ \A n \in DOMAIN nodes : g[n] = nodes[n]
      /\ g[id].uuid = u
  <2>1. Typed(nodes) /\ Whole(nodes) /\ id \in Nat \ DOMAIN nodes /\ id # NoNode
    BY <1>0, <1>1
  <2> HIDE <1>0, <1>1
  <2> QED
    BY <2>1, WithNodeIsWhole
<1> HIDE DEF g
<1>3. Neighbours(g, p, l, r) /\ p \in DOMAIN g /\ id \in DOMAIN g /\ p \in DOMAIN nodes
  BY <1>1, <1>2 DEF Neighbours
<1>4. Whole(h)
  BY <1>2, <1>3, LinkedIsWhole
<1>5. /\ DOMAIN h = DOMAIN g /\ Typed(h)
      /\ \A n \in DOMAIN g : /\ h[n].uuid = g[n].uuid
                             /\ h[n].parent = IF n = id THEN p ELSE g[n].parent
  <2>1. Typed(g) /\ p \in DOMAIN g /\ id \in DOMAIN g
    BY <1>2, <1>3
  <2>2. IsLinked(g, h, id, p, l, r)
    BY <2>1, LinkedFields
  <2> QED
    BY <2>2 DEF IsLinked
<1>6. /\ nodes' = h /\ handed' = id /\ root' = root /\ strayed' = strayed
      /\ u \notin DOMAIN by_uuid
      /\ by_uuid' = [v \in DOMAIN by_uuid \cup {u} |-> IF v = u THEN id ELSE by_uuid[v]]
  BY DEF Insert, id, g
<1> HIDE DEF h
<1>7. ArenaTypeOK'
  <2>1. DOMAIN nodes' \subseteq 1..handed'
    BY <1>0, <1>2, <1>5, <1>6 DEF id
  <2>2. nodes' \in [DOMAIN nodes' -> Node]
    BY <1>5, <1>6 DEF Typed
  <2>3. handed' \in Nat /\ root' \in DOMAIN nodes' /\ strayed' \in BOOLEAN
    BY <1>0, <1>1, <1>2, <1>5, <1>6 DEF TreeInv, ArenaTypeOK
  <2> QED
    BY <2>1, <2>2, <2>3 DEF ArenaTypeOK
<1>8. IndexIsExact'
  <2>1. \A n \in DOMAIN nodes : h[n].uuid = nodes[n].uuid
    BY <1>2, <1>5
  <2>2. h[id].uuid = u
    BY <1>2, <1>5
  <2>3. DOMAIN by_uuid = {nodes[n].uuid : n \in DOMAIN nodes}
        /\ \A n \in DOMAIN nodes : by_uuid[nodes[n].uuid] = n
    BY DEF TreeInv, IndexIsExact
  <2>4. DOMAIN by_uuid' = {h[n].uuid : n \in DOMAIN h}
    BY <1>2, <1>5, <1>6, <2>1, <2>2, <2>3
  <2>5. ASSUME NEW n \in DOMAIN h
        PROVE  by_uuid'[h[n].uuid] = n
    <3>1. CASE n = id
      BY <1>6, <2>2, <3>1
    <3>2. CASE n \in DOMAIN nodes
      <4>1. nodes[n].uuid \in DOMAIN by_uuid /\ by_uuid[nodes[n].uuid] = n
        BY <2>3, <3>2
      <4> QED
        BY <1>6, <2>1, <3>2, <4>1
    <3> QED
      BY <1>2, <1>5, <3>1, <3>2
  <2>6. nodes' = h
    BY <1>6
  <2> HIDE <1>6
  <2> QED
    BY <2>4, <2>5, <2>6 DEF IndexIsExact
<1>9. nodes'[root'].parent = NoNode
  BY <1>0, <1>1, <1>2, <1>5, <1>6 DEF TreeInv
<1> QED
  BY <1>4, <1>5, <1>6, <1>7, <1>8, <1>9 DEF TreeInv

LEMMA MoveKeepsTreeInv ==
    ASSUME TreeInv, NEW id \in DOMAIN nodes \ {root},
           NEW p, NEW l \in Nat, NEW r \in Nat, Neighbours(Loose(nodes, id), p, l, r),
           MoveTo(id, p, l, r), strayed' \in BOOLEAN
    PROVE  TreeInv'
<1> DEFINE g == Loose(nodes, id)
           h == Linked(g, id, p, l, r)
<1>0. Typed(nodes) /\ Whole(nodes)
  BY DEF TreeInv
<1>1. /\ DOMAIN g = DOMAIN nodes /\ Typed(g)
      /\ \A n \in DOMAIN nodes : /\ g[n].uuid = nodes[n].uuid
                                 /\ n # id => g[n].parent = nodes[n].parent
  <2>1. IsLoose(nodes, g, id)
    BY <1>0, LooseFields
  <2> QED
    BY <2>1 DEF IsLoose
<1>2. Whole(g) /\ Isolated(g, id)
  BY <1>0, LooseIsWhole
<1>3. nodes' = h /\ root' = root /\ by_uuid' = by_uuid /\ handed' = handed
  BY DEF MoveTo
<1>4. Neighbours(g, p, l, r)
  OBVIOUS
<1> HIDE DEF g
<1>5. Whole(h)
  BY <1>1, <1>2, <1>4, LinkedIsWhole
<1>6. p \in DOMAIN g /\ id \in DOMAIN g
  BY <1>2, <1>4 DEF Neighbours, Isolated
<1>7. /\ DOMAIN h = DOMAIN g /\ Typed(h)
      /\ \A n \in DOMAIN g : /\ h[n].uuid = g[n].uuid
                             /\ h[n].parent = IF n = id THEN p ELSE g[n].parent
  <2>1. IsLinked(g, h, id, p, l, r)
    BY <1>1, <1>6, LinkedFields
  <2> QED
    BY <2>1 DEF IsLinked
<1> HIDE DEF h
<1>8. ArenaTypeOK'
  BY <1>1, <1>3, <1>7 DEF TreeInv, ArenaTypeOK, Typed
<1>9. IndexIsExact'
  <2>1. DOMAIN h = DOMAIN nodes /\ \A n \in DOMAIN nodes : h[n].uuid = nodes[n].uuid
    BY <1>1, <1>7
  <2>2. {h[n].uuid : n \in DOMAIN h} = {nodes[n].uuid : n \in DOMAIN nodes}
    BY <2>1
  <2> QED
    BY <1>3, <2>1, <2>2 DEF TreeInv, IndexIsExact
<1>10. nodes'[root'].parent = NoNode
  <2>1. root \in DOMAIN nodes /\ nodes[root].parent = NoNode
    BY DEF TreeInv, ArenaTypeOK
  <2> QED
    BY <1>1, <1>3, <1>7, <2>1
<1> QED
  BY <1>3, <1>5, <1>7, <1>8, <1>9, <1>10 DEF TreeInv

\* remove() keeps its links until the end, and walks as Loose would.
LEMMA DetachedIsLoose ==
    ASSUME NEW f, Typed(f), NEW id \in DOMAIN f
    PROVE  /\ DOMAIN Detached(f, id) = DOMAIN f
           /\ \A n \in DOMAIN f \ {id} : Detached(f, id)[n] = Loose(f, id)[n]
           /\ Detached(f, id)[id].first = Loose(f, id)[id].first
           /\ Downward(Detached(f, id), id) = Downward(Loose(f, id), id)
           /\ \A n \in DOMAIN f : Detached(f, id)[n].uuid = f[n].uuid
<1> DEFINE d == Detached(f, id)
           g == Loose(f, id)
<1>1. DOMAIN d = DOMAIN f /\ DOMAIN g = DOMAIN f
  BY DEF Detached, Loose
<1>2. \A n \in DOMAIN f \ {id} : d[n] = g[n]
  BY <1>1 DEF Loose
<1>3. ASSUME NEW n \in DOMAIN f
      PROVE  d[n] \in [uuid : Uuid, content : Content, parent : Nat,
                       first : Nat, last : Nat, prev : Nat, next : Nat] /\ d[n].uuid = f[n].uuid
  <2>1. f[n] \in Node /\ f[id] \in Node
    BY <1>3 DEF Typed
  <2> QED
    BY <1>3, <2>1 DEF Detached, Node
<1>4. d[id].first = g[id].first
  BY <1>1, <1>3 DEF Loose
<1>5. \A S \in SUBSET DOMAIN f : Closed(d, id, S) <=> Closed(g, id, S)
  BY <1>1, <1>2, <1>4 DEF Closed
<1> HIDE DEF d, g
<1>6. Downward(d, id) = Downward(g, id)
  <2>1. \A x \in DOMAIN f : x \in Downward(d, id) <=>
            \A S \in SUBSET DOMAIN f : Closed(d, id, S) => x \in S
    BY <1>1, DownwardIsLeast
  <2>2. \A x \in DOMAIN f : x \in Downward(g, id) <=>
            \A S \in SUBSET DOMAIN f : Closed(g, id, S) => x \in S
    BY <1>1, DownwardIsLeast
  <2>3. Downward(d, id) \subseteq DOMAIN f /\ Downward(g, id) \subseteq DOMAIN f
    BY <1>1, DownwardIsLeast
  <2> QED
    BY <1>5, <2>1, <2>2, <2>3
<1> QED
  BY <1>1, <1>2, <1>3, <1>4, <1>6 DEF d, g

LEMMA RemoveKeepsTreeInv ==
    ASSUME TreeInv, NEW id, RemoveNode(id)
    PROVE  TreeInv'
<1> DEFINE d == Detached(nodes, id)
           g == Loose(nodes, id)
           G == Downward(d, id)
           h == [n \in DOMAIN nodes \ G |-> g[n]]
<1>0. Typed(nodes) /\ Whole(nodes) /\ id \in DOMAIN nodes /\ id # root
      /\ root \in DOMAIN nodes /\ nodes[root].parent = NoNode
  BY DEF TreeInv, ArenaTypeOK, RemoveNode
<1>1. /\ DOMAIN g = DOMAIN nodes /\ Typed(g)
      /\ \A n \in DOMAIN nodes : /\ g[n].uuid = nodes[n].uuid
                                 /\ n # id => g[n].parent = nodes[n].parent
  <2>1. IsLoose(nodes, g, id)
    BY <1>0, LooseFields
  <2> QED
    BY <2>1 DEF IsLoose
<1>2. Whole(g) /\ Isolated(g, id)
  BY <1>0, LooseIsWhole
<1>3. /\ DOMAIN d = DOMAIN nodes /\ G = Downward(g, id)
      /\ \A n \in DOMAIN nodes \ {id} : d[n] = g[n]
      /\ \A n \in DOMAIN nodes : d[n].uuid = nodes[n].uuid
  BY <1>0, DetachedIsLoose
<1>4. id \in G /\ G \subseteq DOMAIN nodes
  BY <1>0, <1>1, <1>2, <1>3, DownwardIsClosed, DownwardIsLeast DEF Closed
<1>5. /\ nodes' = [n \in DOMAIN d \ G |-> d[n]]
      /\ by_uuid' = [u \in DOMAIN by_uuid \ {d[n].uuid : n \in G} |-> by_uuid[u]]
      /\ root' = root /\ handed' = handed /\ strayed' = strayed
  BY DEF RemoveNode
<1> HIDE DEF d, g, G
<1>6. nodes' = h
  BY <1>3, <1>4, <1>5
<1>7. /\ \A n \in DOMAIN g \ G :
            /\ g[n].parent \notin G
            /\ g[n].prev \notin G /\ g[n].next \notin G
            /\ g[n].first \notin G /\ g[n].last \notin G
      /\ root \notin G
  BY <1>0, <1>1, <1>2, <1>3, DownwardIsCut
<1>8. Typed(h) /\ Whole(h)
  BY <1>1, <1>2, <1>7, RestrictedIsWhole
<1>9. /\ DOMAIN h = DOMAIN nodes \ G
      /\ \A n \in DOMAIN h : h[n].uuid = nodes[n].uuid /\ h[n].parent = nodes[n].parent
  BY <1>1, <1>4
<1> HIDE DEF h
<1>10. ArenaTypeOK'
  BY <1>0, <1>5, <1>6, <1>7, <1>8, <1>9 DEF TreeInv, ArenaTypeOK, Typed
<1>11. IndexIsExact'
  <2>1. DOMAIN by_uuid = {nodes[n].uuid : n \in DOMAIN nodes}
        /\ \A n \in DOMAIN nodes : by_uuid[nodes[n].uuid] = n
    BY DEF TreeInv, IndexIsExact
  <2>2. {d[n].uuid : n \in G} = {nodes[n].uuid : n \in G}
    BY <1>3, <1>4
  <2>3. \A n \in DOMAIN nodes \ G : nodes[n].uuid \notin {nodes[m].uuid : m \in G}
    BY <1>4, <2>1
  <2>4. DOMAIN by_uuid' = {nodes[n].uuid : n \in DOMAIN nodes \ G}
    BY <1>5, <2>1, <2>2, <2>3
  <2>5. {h[n].uuid : n \in DOMAIN h} = {nodes[n].uuid : n \in DOMAIN nodes \ G}
    BY <1>9
  <2>6. \A n \in DOMAIN h : by_uuid'[h[n].uuid] = n
    BY <1>5, <1>9, <2>1, <2>4
  <2> QED
    BY <1>6, <2>4, <2>5, <2>6 DEF IndexIsExact
<1>12. nodes'[root'].parent = NoNode
  BY <1>0, <1>5, <1>6, <1>7, <1>9
<1> QED
  BY <1>6, <1>8, <1>10, <1>11, <1>12 DEF TreeInv

LEMMA UpdateKeepsTreeInv ==
    ASSUME TreeInv, NEW id, NEW c \in Content, Update(id, c)
    PROVE  TreeInv' /\ DOMAIN nodes' = DOMAIN nodes
           /\ \A n \in DOMAIN nodes : nodes'[n].parent = nodes[n].parent
<1>1. /\ id \in DOMAIN nodes /\ nodes' = [nodes EXCEPT ![id].content = c]
      /\ root' = root /\ by_uuid' = by_uuid /\ handed' = handed /\ strayed' = strayed
  BY DEF Update
<1>2. Typed(nodes) /\ Whole(nodes)
  BY DEF TreeInv
<1>3. DOMAIN nodes' = DOMAIN nodes
  BY <1>1
<1>4. ASSUME NEW n \in DOMAIN nodes
      PROVE  /\ nodes'[n] \in Node
             /\ nodes'[n].uuid = nodes[n].uuid /\ nodes'[n].parent = nodes[n].parent
             /\ nodes'[n].prev = nodes[n].prev /\ nodes'[n].next = nodes[n].next
             /\ nodes'[n].first = nodes[n].first /\ nodes'[n].last = nodes[n].last
  <2>1. nodes[n] \in Node
    BY <1>2 DEF Typed
  <2> QED
    BY <1>1, <2>1 DEF Node
<1>5. nodes' = [n \in DOMAIN nodes |-> nodes'[n]]
  BY <1>1
<1>6. Typed(nodes')
  BY <1>2, <1>3, <1>4, <1>5 DEF Typed
<1>7. LeftLinks(nodes') /\ RightLinks(nodes')
  BY <1>2, <1>3, <1>4 DEF Whole, LeftLinks, RightLinks
<1>8. UpLinks(nodes') /\ DownLinks(nodes')
  BY <1>2, <1>3, <1>4 DEF Whole, UpLinks, DownLinks
<1>9. Unlisted(nodes') /\ NoRing(nodes')
  BY <1>2, <1>3, <1>4 DEF Whole, Unlisted, NoRing
<1>10. ArenaTypeOK' /\ nodes'[root'].parent = NoNode
  BY <1>1, <1>3, <1>4, <1>6 DEF TreeInv, ArenaTypeOK, Typed
<1>11. IndexIsExact'
  <2>1. {nodes'[n].uuid : n \in DOMAIN nodes'} = {nodes[n].uuid : n \in DOMAIN nodes}
    BY <1>3, <1>4
  <2> QED
    BY <1>1, <1>3, <1>4, <2>1 DEF TreeInv, IndexIsExact
<1> QED
  BY <1>3, <1>4, <1>6, <1>7, <1>8, <1>9, <1>10, <1>11 DEF TreeInv, Whole
-----------------------------------------------------------------------------
(* The theorems *)

LEMMA ArenaInitTreeInv == ArenaInit => TreeInv
<1> SUFFICES ASSUME NEW u \in Uuid, NEW c \in Content, NewTree(u, c)
             PROVE  TreeInv
  BY DEF ArenaInit
<1>1. /\ DOMAIN nodes = {1} /\ nodes[1].uuid = u /\ nodes[1].parent = NoNode
      /\ nodes[1] \in Node /\ nodes = [n \in {1} |-> nodes[n]]
      /\ nodes[1].prev = NoNode /\ nodes[1].next = NoNode
      /\ nodes[1].first = NoNode /\ nodes[1].last = NoNode
  BY DEF NewTree, WithNode, Node, NoNode
<1>2. root = 1 /\ handed = 1 /\ strayed = FALSE /\ by_uuid = [v \in {u} |-> 1]
  BY DEF NewTree
<1>3. ArenaTypeOK /\ Typed(nodes)
  <2>1. \A n \in {1} : nodes[n] \in Node
    BY <1>1
  <2>2. nodes \in [{1} -> Node]
    BY <1>1, <2>1
  <2>3. {1} \subseteq 1..1 /\ {1} \subseteq Nat \ {0} /\ 1 \in {1}
    OBVIOUS
  <2> QED
    BY <1>1, <1>2, <2>2, <2>3 DEF ArenaTypeOK, Typed
<1>4. LeftLinks(nodes) /\ RightLinks(nodes) /\ UpLinks(nodes) /\ DownLinks(nodes)
  BY <1>1 DEF LeftLinks, RightLinks, UpLinks, DownLinks
<1>5. Unlisted(nodes) /\ NoRing(nodes)
  BY <1>1 DEF Unlisted, NoRing, NoNode
<1>6. IndexIsExact
  BY <1>1, <1>2 DEF IndexIsExact
<1> QED
  BY <1>1, <1>2, <1>3, <1>4, <1>5, <1>6 DEF TreeInv, Whole

LEMMA MovesKeepTreeInv ==
    ASSUME TreeInv, NEW id, NEW p, NEW s,
           \/ MoveAppend(id, p) \/ MovePrepend(id, p)
           \/ MoveBefore(id, p, s) \/ MoveAfter(id, p, s)
    PROVE  TreeInv'
<1> DEFINE g == Loose(nodes, id)
<1>1. id \in DOMAIN nodes \ {root} /\ p \in DOMAIN nodes
  BY DEF MoveAppend, MovePrepend, MoveBefore, MoveAfter, MayMove
<1>2. Typed(nodes) /\ Whole(nodes) /\ strayed \in BOOLEAN
  BY DEF TreeInv, ArenaTypeOK
<1>3. Typed(g) /\ Whole(g) /\ DOMAIN g = DOMAIN nodes
  <2>1. IsLoose(nodes, g, id)
    BY <1>1, <1>2, LooseFields
  <2>2. Whole(g)
    BY <1>1, <1>2, LooseIsWhole
  <2> QED
    BY <2>1, <2>2 DEF IsLoose
<1>4. CASE MoveAppend(id, p) \/ MovePrepend(id, p)
  <2>1. /\ Neighbours(g, p, g[p].last, NoNode)
        /\ Neighbours(g, p, NoNode, g[p].first)
        /\ g[p].last \in Nat /\ g[p].first \in Nat /\ NoNode \in Nat
    BY <1>1, <1>3, EndIsNeighbour DEF NoNode
  <2>2. strayed' \in BOOLEAN
    BY <1>2, <1>4 DEF MoveAppend, MovePrepend
  <2>3. MoveTo(id, p, g[p].last, NoNode) \/ MoveTo(id, p, NoNode, g[p].first)
    BY <1>4 DEF MoveAppend, MovePrepend
  <2> QED
    BY <1>1, <2>1, <2>2, <2>3, MoveKeepsTreeInv
<1>5. CASE MoveBefore(id, p, s) \/ MoveAfter(id, p, s)
  <2>1. s \in DOMAIN g /\ g[s].parent # NoNode
    BY <1>5 DEF MoveBefore, MoveAfter
  <2>2. /\ Neighbours(g, g[s].parent, g[s].prev, s)
        /\ Neighbours(g, g[s].parent, s, g[s].next)
        /\ g[s].prev \in Nat /\ g[s].next \in Nat /\ s \in Nat
    BY <1>3, <2>1, SiblingIsNeighbour
  <2>3. strayed' \in BOOLEAN
    BY <1>2, <1>5 DEF MoveBefore, MoveAfter
  <2>4. \/ MoveTo(id, g[s].parent, g[s].prev, s)
        \/ MoveTo(id, g[s].parent, s, g[s].next)
    BY <1>5 DEF MoveBefore, MoveAfter
  <2> QED
    BY <1>1, <2>2, <2>3, <2>4, MoveKeepsTreeInv
<1> QED
  BY <1>4, <1>5

LEMMA MoveLosesNodeKeepsTreeInv ==
    ASSUME TreeInv, NEW id, NEW p, NEW s, MoveLosesNode(id, p, s)
    PROVE  TreeInv'
<1> DEFINE g == Loose(nodes, id)
<1>1. Typed(nodes) /\ Whole(nodes) /\ id \in DOMAIN nodes
  BY DEF TreeInv, MoveLosesNode, MayMove
<1>2. /\ Typed(g) /\ Whole(g) /\ DOMAIN g = DOMAIN nodes
      /\ \A n \in DOMAIN nodes : /\ g[n].uuid = nodes[n].uuid
                                 /\ g[n].parent = IF n = id THEN NoNode ELSE nodes[n].parent
  <2>1. IsLoose(nodes, g, id)
    BY <1>1, LooseFields
  <2>2. Whole(g)
    BY <1>1, LooseIsWhole
  <2> QED
    BY <2>1, <2>2 DEF IsLoose
<1>3. nodes' = g /\ strayed' = TRUE /\ root' = root /\ by_uuid' = by_uuid /\ handed' = handed
  BY DEF MoveLosesNode
<1> HIDE DEF g
<1>4. ArenaTypeOK'
  BY <1>2, <1>3 DEF TreeInv, ArenaTypeOK, Typed
<1>5. IndexIsExact'
  <2>1. {g[n].uuid : n \in DOMAIN g} = {nodes[n].uuid : n \in DOMAIN nodes}
    BY <1>2
  <2> QED
    BY <1>2, <1>3, <2>1 DEF TreeInv, IndexIsExact
<1>6. nodes'[root'].parent = NoNode
  BY <1>2, <1>3 DEF TreeInv, ArenaTypeOK
<1> QED
  BY <1>2, <1>3, <1>4, <1>5, <1>6 DEF TreeInv

LEMMA InsertionsKeepTreeInv ==
    ASSUME TreeInv, NEW p, NEW u \in Uuid, NEW c \in Content,
           AppendChild(p, u, c) \/ InsertBefore(p, u, c) \/ InsertAfter(p, u, c)
    PROVE  TreeInv'
<1>1. Typed(nodes) /\ Whole(nodes) /\ p \in DOMAIN nodes
  BY DEF TreeInv, AppendChild, InsertBefore, InsertAfter
<1>2. CASE AppendChild(p, u, c)
  <2>1. Neighbours(nodes, p, nodes[p].last, NoNode) /\ nodes[p].last \in Nat /\ NoNode \in Nat
    BY <1>1, EndIsNeighbour DEF NoNode
  <2>2. Insert(p, nodes[p].last, NoNode, u, c)
    BY <1>2 DEF AppendChild
  <2> QED
    BY <2>1, <2>2, InsertKeepsTreeInv
<1>3. CASE InsertBefore(p, u, c) \/ InsertAfter(p, u, c)
  <2>1. nodes[p].parent # NoNode
    BY <1>3 DEF InsertBefore, InsertAfter
  <2>2. /\ Neighbours(nodes, nodes[p].parent, nodes[p].prev, p)
        /\ Neighbours(nodes, nodes[p].parent, p, nodes[p].next)
        /\ nodes[p].prev \in Nat /\ nodes[p].next \in Nat /\ p \in Nat
    BY <1>1, <2>1, SiblingIsNeighbour
  <2>3. \/ Insert(nodes[p].parent, nodes[p].prev, p, u, c)
        \/ Insert(nodes[p].parent, p, nodes[p].next, u, c)
    BY <1>3 DEF InsertBefore, InsertAfter
  <2> QED
    BY <2>2, <2>3, InsertKeepsTreeInv
<1> QED
  BY <1>2, <1>3

LEMMA CallsKeepTreeInv ==
    TreeInv /\ [ArenaCalls(Uuid, Content)]_arenaVars => TreeInv'
<1> SUFFICES ASSUME TreeInv, [ArenaCalls(Uuid, Content)]_arenaVars
             PROVE  TreeInv'
  OBVIOUS
<1>1. CASE \E p \in Key, u \in Uuid, c \in Content :
              AppendChild(p, u, c) \/ InsertBefore(p, u, c) \/ InsertAfter(p, u, c)
  BY <1>1, InsertionsKeepTreeInv
<1>2. CASE \E id \in Key : RemoveNode(id)
  BY <1>2, RemoveKeepsTreeInv
<1>3. CASE \E id, p \in Key : MoveAppend(id, p) \/ MovePrepend(id, p)
  BY <1>3, MovesKeepTreeInv
<1>4. CASE \E id, p, s \in Key :
              MoveBefore(id, p, s) \/ MoveAfter(id, p, s) \/ MoveLosesNode(id, p, s)
  BY <1>4, MovesKeepTreeInv, MoveLosesNodeKeepsTreeInv
<1>5. CASE \E id \in Key, c \in Content : Update(id, c)
  BY <1>5, UpdateKeepsTreeInv
<1>6. CASE UNCHANGED arenaVars
  BY <1>6 DEF arenaVars, TreeInv, ArenaTypeOK, IndexIsExact
<1> QED
  BY <1>1, <1>2, <1>3, <1>4, <1>5, <1>6 DEF ArenaCalls

LEMMA TreeInvIsInvariant == ArenaSpec => []TreeInv
BY ArenaInitTreeInv, CallsKeepTreeInv, PTL DEF ArenaSpec

\* Whatever a caller does with a tree, its nodes keep their shape, its keys
\* stay below the last one handed out and the root is never removed.
THEOREM ArenaTyping == ArenaSpec => []ArenaTypeOK
<1>1. TreeInv => ArenaTypeOK
  BY DEF TreeInv
<1> QED
  BY <1>1, TreeInvIsInvariant, PTL

\* check_invariants never fails after any sequence of calls of append_child,
\* insert_before, insert_after, remove, move_to and the setters, those that
\* return Err halfway included.
THEOREM ArenaInvariantsHold == ArenaSpec => []InvariantsHold
<1>1. TreeInv => InvariantsHold
  BY DEF TreeInv, InvariantsHold, LinksAgree, Whole, LeftLinks, RightLinks, UpLinks
<1> QED
  BY <1>1, TreeInvIsInvariant, PTL

\* What check_invariants does not look at holds as well: first_child starts
\* the list of the node's own children, and no sibling list runs in a ring.
THEOREM ArenaListsAreComplete == ArenaSpec => []ListsAreComplete
<1>1. TreeInv => ListsAreComplete
  BY DEF TreeInv, ListsAreComplete, Whole, DownLinks, NoRing, ChildrenOf
<1> QED
  BY <1>1, TreeInvIsInvariant, PTL

-----------------------------------------------------------------------------
(* Nothing is lost *)

Rooted(f, rt) ==
    \A S \in SUBSET (DOMAIN f \ {rt}) :
        S # {} => \E x \in S : f[x].parent \in DOMAIN f \ S

LEMMA UpwardIsClosed ==
    ASSUME NEW f, Typed(f), Whole(f), NEW p \in DOMAIN f
    PROVE  /\ p \in Upward(f, p)
           /\ \A y \in Upward(f, p) : f[y].parent \in Upward(f, p) \cup {NoNode}
<1>1. p \in Upward(f, p)
  BY DEF Upward
<1>2. ASSUME NEW y \in Upward(f, p), f[y].parent # NoNode
      PROVE  f[y].parent \in Upward(f, p)
  <2>1. f[y].parent \in DOMAIN f
    BY <1>2 DEF Upward, Whole, UpLinks
  <2> QED
    BY <1>2, <2>1 DEF Upward
<1> QED
  BY <1>1, <1>2

\* A node put under p hangs below the root if no walk upward from p meets it.
LEMMA MoveKeepsRooted ==
    ASSUME NEW f, Typed(f), Whole(f), NEW rt \in DOMAIN f, Rooted(f, rt),
           NEW id \in DOMAIN f, NEW p \in DOMAIN f, id \notin Upward(f, p),
           NEW h, DOMAIN h = DOMAIN f,
           \A n \in DOMAIN f : h[n].parent = IF n = id THEN p ELSE f[n].parent
    PROVE  Rooted(h, rt)
<1> DEFINE D == DOMAIN f
           U == Upward(f, p)
<1> SUFFICES ASSUME NEW S \in SUBSET (D \ {rt}), S # {}
             PROVE  \E x \in S : h[x].parent \in D \ S
  BY DEF Rooted
<1>1. CASE id \notin S
  <2>1. PICK x \in S : f[x].parent \in D \ S
    BY DEF Rooted
  <2> QED
    BY <1>1, <2>1
<1>2. CASE id \in S /\ p \notin S
  BY <1>2
<1>3. CASE id \in S /\ p \in S
  <2>1. p \in U /\ \A y \in U : f[y].parent \in U \cup {NoNode}
    BY UpwardIsClosed
  <2>2. S \cap U # {} /\ S \cap U \in SUBSET (D \ {rt}) /\ id \notin S \cap U
    BY <1>3, <2>1
  <2>3. PICK x \in S \cap U : f[x].parent \in D \ (S \cap U)
    BY <2>2 DEF Rooted
  <2>4. NoNode \notin D
    BY DEF Typed, NoNode
  <2> HIDE DEF U
  <2>5. f[x].parent \in D \ S /\ x # id
    BY <2>1, <2>2, <2>3, <2>4
  <2> QED
    BY <2>3, <2>5
<1> QED
  BY <1>1, <1>2, <1>3

BelowInv == TreeInv /\ (~strayed => Rooted(nodes, root))

LEMMA InsertKeepsBelowInv ==
    ASSUME BelowInv, NEW p \in Key, NEW u \in Uuid, NEW c \in Content,
           AppendChild(p, u, c) \/ InsertBefore(p, u, c) \/ InsertAfter(p, u, c)
    PROVE  BelowInv'
<1> DEFINE id == handed + 1
           g == WithNode(nodes, id, u, c)
<1>1. Typed(nodes) /\ Whole(nodes) /\ handed \in Nat /\ DOMAIN nodes \subseteq 1..handed
      /\ p \in DOMAIN nodes
  BY DEF BelowInv, TreeInv, ArenaTypeOK, AppendChild, InsertBefore, InsertAfter
<1>2. id \in Nat \ DOMAIN nodes
  BY <1>1
<1>3. PICK q \in DOMAIN nodes, l \in Nat, r \in Nat : Insert(q, l, r, u, c)
  <2>1. nodes[p] \in Node /\ p \in Nat
    BY <1>1 DEF Typed
  <2>2. nodes[p].last \in Nat /\ nodes[p].prev \in Nat /\ nodes[p].next \in Nat /\ NoNode \in Nat
    BY <2>1 DEF Node, NoNode
  <2>3. nodes[p].parent # NoNode => nodes[p].parent \in DOMAIN nodes
    BY <1>1 DEF Whole, UpLinks
  <2> QED
    BY <1>1, <2>1, <2>2, <2>3 DEF AppendChild, InsertBefore, InsertAfter
<1>4. nodes' = Linked(g, id, q, l, r) /\ root' = root /\ strayed' = strayed
  BY <1>3 DEF Insert
<1>5. /\ DOMAIN nodes' = DOMAIN nodes \cup {id}
      /\ nodes'[id].parent = q
      /\ \A n \in DOMAIN nodes : nodes'[n].parent = nodes[n].parent
  <2>1. DOMAIN g = DOMAIN nodes \cup {id} /\ \A n \in DOMAIN nodes : g[n] = nodes[n]
    BY <1>2 DEF WithNode
  <2>2. Typed(g)
    <3>1. id \in Nat \ DOMAIN nodes /\ id # NoNode
      BY <1>1, <1>2 DEF NoNode
    <3> HIDE DEF id
    <3> QED
      BY <1>1, <3>1, WithNodeIsWhole
  <2>3. q \in DOMAIN g /\ id \in DOMAIN g
    BY <2>1
  <2> DEFINE h == Linked(g, id, q, l, r)
  <2>4. /\ DOMAIN h = DOMAIN g
        /\ \A n \in DOMAIN g : h[n].parent = IF n = id THEN q ELSE g[n].parent
    <3> HIDE DEF g, id
    <3>1. q \in DOMAIN g /\ id \in DOMAIN g /\ Typed(g)
      BY <2>2, <2>3
    <3>2. IsLinked(g, h, id, q, l, r)
      BY <3>1, LinkedFields
    <3> QED
      BY <3>2 DEF IsLinked
  <2>5. nodes' = h
    BY <1>4
  <2> HIDE DEF g, h, id
  <2> QED
    BY <1>2, <2>1, <2>3, <2>4, <2>5
<1> HIDE DEF id
<1>6. ASSUME ~strayed'
      PROVE  Rooted(nodes', root')
  <2>1. Rooted(nodes, root)
    BY <1>4, <1>6 DEF BelowInv
  <2> SUFFICES ASSUME NEW S \in SUBSET ((DOMAIN nodes \cup {id}) \ {root}), S # {}
               PROVE  \E x \in S : nodes'[x].parent \in (DOMAIN nodes \cup {id}) \ S
    BY <1>4, <1>5 DEF Rooted
  <2>2. CASE S = {id}
    BY <1>2, <1>5, <2>2
  <2>3. CASE S # {id}
    <3> DEFINE T == S \ {id}
    <3>1. T # {} /\ T \in SUBSET (DOMAIN nodes \ {root})
      BY <2>3
    <3> HIDE DEF T
    <3>2. PICK x \in T : nodes[x].parent \in DOMAIN nodes \ T
      BY <2>1, <3>1 DEF Rooted
    <3> QED
      BY <1>2, <1>5, <3>2 DEF T
  <2> QED
    BY <2>2, <2>3
<1>7. TreeInv'
  BY InsertionsKeepTreeInv DEF BelowInv
<1> QED
  BY <1>6, <1>7 DEF BelowInv

LEMMA RemoveKeepsBelowInv ==
    ASSUME BelowInv, NEW id, RemoveNode(id)
    PROVE  BelowInv'
<1> DEFINE d == Detached(nodes, id)
           g == Loose(nodes, id)
           G == Downward(d, id)
<1>1. /\ Typed(nodes) /\ Whole(nodes) /\ id \in DOMAIN nodes
      /\ root \in DOMAIN nodes /\ nodes[root].parent = NoNode /\ id # root
  BY DEF BelowInv, TreeInv, ArenaTypeOK, RemoveNode
<1>2. /\ DOMAIN g = DOMAIN nodes /\ Typed(g) /\ Whole(g) /\ Isolated(g, id)
      /\ \A n \in DOMAIN nodes \ {id} : g[n].parent = nodes[n].parent
  <2>1. IsLoose(nodes, g, id)
    BY <1>1, LooseFields
  <2>2. Whole(g) /\ Isolated(g, id)
    BY <1>1, LooseIsWhole
  <2> QED
    BY <2>1, <2>2 DEF IsLoose
<1>3. /\ DOMAIN d = DOMAIN nodes /\ G = Downward(g, id)
      /\ \A n \in DOMAIN nodes \ {id} : d[n] = g[n]
  BY <1>1, DetachedIsLoose
<1>4. nodes' = [n \in DOMAIN d \ G |-> d[n]] /\ root' = root /\ strayed' = strayed
  BY DEF RemoveNode
<1> HIDE DEF d, g, G
<1>5. id \in G /\ \A n \in DOMAIN nodes \ G : g[n].parent \notin G
  <2>1. id \in G
    BY <1>1, <1>2, <1>3, DownwardIsClosed DEF Closed
  <2>2. \A n \in DOMAIN g \ G : g[n].parent \notin G
    BY <1>1, <1>2, <1>3, DownwardIsCut
  <2> QED
    BY <1>2, <2>1, <2>2
<1>6. /\ DOMAIN nodes' = DOMAIN nodes \ G
      /\ \A n \in DOMAIN nodes' : nodes'[n].parent = nodes[n].parent /\ nodes[n].parent \notin G
  BY <1>2, <1>3, <1>4, <1>5
<1>7. ASSUME ~strayed'
      PROVE  Rooted(nodes', root')
  <2> SUFFICES ASSUME NEW S \in SUBSET (DOMAIN nodes' \ {root}), S # {}
               PROVE  \E x \in S : nodes'[x].parent \in DOMAIN nodes' \ S
    BY <1>4 DEF Rooted
  <2>1. PICK x \in S : nodes[x].parent \in DOMAIN nodes \ S
    BY <1>4, <1>6, <1>7 DEF BelowInv, Rooted
  <2> QED
    BY <1>6, <2>1
<1>8. TreeInv'
  BY RemoveKeepsTreeInv DEF BelowInv
<1> QED
  BY <1>7, <1>8 DEF BelowInv

LEMMA MovesKeepBelowInv ==
    ASSUME BelowInv, NEW id, NEW p, NEW s,
           \/ MoveAppend(id, p) \/ MovePrepend(id, p)
           \/ MoveBefore(id, p, s) \/ MoveAfter(id, p, s)
    PROVE  BelowInv'
<1> DEFINE g == Loose(nodes, id)
<1>1. /\ Typed(nodes) /\ Whole(nodes) /\ strayed \in BOOLEAN
      /\ id \in DOMAIN nodes /\ p \in DOMAIN nodes /\ id \notin Upward(nodes, p)
      /\ root \in DOMAIN nodes
  BY DEF BelowInv, TreeInv, ArenaTypeOK, MoveAppend, MovePrepend, MoveBefore, MoveAfter, MayMove
<1>2. /\ DOMAIN g = DOMAIN nodes /\ Typed(g) /\ Whole(g)
      /\ \A n \in DOMAIN nodes : g[n].parent = IF n = id THEN NoNode ELSE nodes[n].parent
  <2>1. IsLoose(nodes, g, id)
    BY <1>1, LooseFields
  <2>2. Whole(g)
    BY <1>1, LooseIsWhole
  <2> QED
    BY <2>1, <2>2 DEF IsLoose
<1>3. ASSUME ~strayed'
      PROVE  ~strayed /\ \E l, r \in Nat : MoveTo(id, p, l, r)
  <2>1. CASE MoveAppend(id, p) \/ MovePrepend(id, p)
    <3>1. ~strayed
      BY <1>3, <2>1 DEF MoveAppend, MovePrepend
    <3>2. g[p].last \in Nat /\ g[p].first \in Nat /\ NoNode \in Nat
      BY <1>1, <1>2, EndIsNeighbour DEF NoNode
    <3>3. MoveTo(id, p, g[p].last, NoNode) \/ MoveTo(id, p, NoNode, g[p].first)
      BY <2>1 DEF MoveAppend, MovePrepend
    <3> QED
      BY <3>1, <3>2, <3>3
  <2>2. CASE MoveBefore(id, p, s) \/ MoveAfter(id, p, s)
    <3>1. ~strayed /\ ~Stray(id, p, s)
      BY <1>3, <2>2 DEF MoveBefore, MoveAfter
    <3>2. s \in DOMAIN g /\ g[s].parent # NoNode
      BY <2>2 DEF MoveBefore, MoveAfter
    <3>3. g[s].parent = p
      BY <1>2, <3>1, <3>2 DEF Stray, ChildrenOf
    <3>4. g[s].prev \in Nat /\ g[s].next \in Nat /\ s \in Nat
      BY <1>2, <3>2, SiblingIsNeighbour
    <3>5. MoveTo(id, g[s].parent, g[s].prev, s) \/ MoveTo(id, g[s].parent, s, g[s].next)
      BY <2>2 DEF MoveBefore, MoveAfter
    <3> QED
      BY <3>1, <3>3, <3>4, <3>5
  <2> QED
    BY <2>1, <2>2
<1>4. ASSUME ~strayed'
      PROVE  Rooted(nodes', root')
  <2>1. PICK l, r \in Nat : MoveTo(id, p, l, r)
    BY <1>3, <1>4
  <2>2. nodes' = Linked(g, id, p, l, r) /\ root' = root
    BY <2>1 DEF MoveTo
  <2>3. /\ DOMAIN nodes' = DOMAIN nodes
        /\ \A n \in DOMAIN nodes : nodes'[n].parent = IF n = id THEN p ELSE nodes[n].parent
    <3> DEFINE h == Linked(g, id, p, l, r)
    <3>1. Typed(g) /\ id \in DOMAIN g /\ p \in DOMAIN g
      BY <1>1, <1>2
    <3>2. /\ DOMAIN h = DOMAIN g
          /\ \A n \in DOMAIN g : h[n].parent = IF n = id THEN p ELSE g[n].parent
      <4>1. IsLinked(g, h, id, p, l, r)
        <5> HIDE DEF g
        <5> QED
          BY <3>1, LinkedFields
      <4> QED
        BY <4>1 DEF IsLinked
    <3>3. nodes' = h
      BY <2>2
    <3> HIDE DEF g, h
    <3> QED
      BY <1>2, <3>2, <3>3
  <2>4. Rooted(nodes, root)
    BY <1>3, <1>4 DEF BelowInv
  <2>5. Rooted(nodes', root)
    BY <1>1, <2>3, <2>4, MoveKeepsRooted
  <2> QED
    BY <2>2, <2>5
<1>5. TreeInv'
  BY MovesKeepTreeInv DEF BelowInv
<1> QED
  BY <1>4, <1>5 DEF BelowInv

LEMMA CallsKeepBelowInv ==
    BelowInv /\ [ArenaCalls(Uuid, Content)]_arenaVars => BelowInv'
<1> SUFFICES ASSUME BelowInv, [ArenaCalls(Uuid, Content)]_arenaVars
             PROVE  BelowInv'
  OBVIOUS
<1>1. CASE \E p \in Key, u \in Uuid, c \in Content :
              AppendChild(p, u, c) \/ InsertBefore(p, u, c) \/ InsertAfter(p, u, c)
  BY <1>1, InsertKeepsBelowInv
<1>2. CASE \E id \in Key : RemoveNode(id)
  BY <1>2, RemoveKeepsBelowInv
<1>3. CASE \E id, p \in Key : MoveAppend(id, p) \/ MovePrepend(id, p)
  BY <1>3, MovesKeepBelowInv
<1>4. CASE \E id, p, s \in Key :
              MoveBefore(id, p, s) \/ MoveAfter(id, p, s) \/ MoveLosesNode(id, p, s)
  <2>1. CASE \E id, p, s \in Key : MoveLosesNode(id, p, s)
    BY <2>1, MoveLosesNodeKeepsTreeInv DEF BelowInv, MoveLosesNode
  <2> QED
    BY <1>4, <2>1, MovesKeepBelowInv
<1>5. CASE \E id \in Key, c \in Content : Update(id, c)
  <2>1. PICK id \in Key, c \in Content : Update(id, c)
    BY <1>5
  <2>2. TreeInv' /\ DOMAIN nodes' = DOMAIN nodes
        /\ \A n \in DOMAIN nodes : nodes'[n].parent = nodes[n].parent
    BY <2>1, UpdateKeepsTreeInv DEF BelowInv
  <2>3. root' = root /\ strayed' = strayed
    BY <2>1 DEF Update
  <2>4. Rooted(nodes, root) => Rooted(nodes', root')
    BY <2>2, <2>3 DEF Rooted
  <2> QED
    BY <2>2, <2>3, <2>4 DEF BelowInv
<1>6. CASE UNCHANGED arenaVars
  <2>1. TreeInv'
    BY CallsKeepTreeInv DEF BelowInv
  <2> QED
    BY <1>6, <2>1 DEF arenaVars, BelowInv, Rooted
<1> QED
  BY <1>1, <1>2, <1>3, <1>4, <1>5, <1>6 DEF ArenaCalls

LEMMA InitBelowInv == ArenaInit => BelowInv
<1> SUFFICES ASSUME ArenaInit
             PROVE  BelowInv
    OBVIOUS
<1>1. DOMAIN nodes = {1} /\ root = 1
    BY DEF ArenaInit, NewTree, WithNode
<1> QED
    BY <1>1, ArenaInitTreeInv DEF BelowInv, Rooted

\* As long as every Before or After names a child of new_parent other than the
\* moved node, every node hangs below the root: move_to's walk is enough to
\* keep the arena free of parent cycles, and remove() leaves no orphan.
THEOREM ArenaAllBelowRoot == ArenaSpec => []AllBelowRoot
<1>1. BelowInv => AllBelowRoot
  BY DEF BelowInv, AllBelowRoot, Rooted
<1> QED
  BY <1>1, InitBelowInv, CallsKeepBelowInv, PTL DEF ArenaSpec

-----------------------------------------------------------------------------
(* Recursion and induction over numbers *)

Less == {ss \in Nat \X Nat : ss[1] < ss[2]}

LEMMA LeastNat ==
    ASSUME NEW S \in SUBSET Nat, S # {}
    PROVE  \E n \in S : \A m \in S : n <= m
<1>1. IsWellFoundedOn(Less, Nat)
    BY NatLessThanWellFounded DEF OpToRel, Less
<1>2. PICK x \in S : \A y \in S : ~ (<<y, x>> \in Less)
    BY <1>1, WFMin
<1>3. \A y \in S : ~ (y < x)
    BY <1>2 DEF Less
<1> QED
    BY <1>3

\* What holds at 0 and goes on with each step holds all the way: T is where it
\* holds.
LEMMA StepByStep ==
    ASSUME NEW n \in Nat, NEW T, 0 \in T, \A k \in 1..n : k - 1 \in T => k \in T
    PROVE  0..n \subseteq T
<1> DEFINE Bad == {m \in 0..n : m \notin T}
<1>1. ASSUME Bad # {}
      PROVE  FALSE
    <2>1. PICK m \in Bad : \A j \in Bad : m <= j
        <3>1. Bad \in SUBSET Nat
            OBVIOUS
        <3> QED
            BY <1>1, <3>1, LeastNat
    <2> QED
        BY <2>1
<1> QED
    BY <1>1

Iterates(st, v, n, g) ==
    g[0] = v /\ \A k \in 1..n : g[k] = st[<<k, g[k - 1]>>]

LEMMA RecursionEnds ==
    ASSUME NEW V, NEW v \in V, NEW n \in Nat, NEW st \in [(1..n) \X V -> V]
    PROVE  \E g \in [0..n -> V] : Iterates(st, v, n, g)
<1> DEFINE T == {m \in 0..n : \E g \in [0..m -> V] : Iterates(st, v, m, g)}
<1>1. 0 \in T
    <2>1. [k \in 0..0 |-> v] \in [0..0 -> V] /\ Iterates(st, v, 0, [k \in 0..0 |-> v])
        BY DEF Iterates
    <2> QED
        BY <2>1
<1>2. ASSUME NEW m \in 1..n, m - 1 \in T
      PROVE  m \in T
    <2>1. PICK g \in [0..(m - 1) -> V] : Iterates(st, v, m - 1, g)
        BY <1>2
    <2>2. PICK x \in V : x = st[<<m, g[m - 1]>>]
        OBVIOUS
    <2> DEFINE h == [k \in 0..m |-> IF k = m THEN x ELSE g[k]]
    <2>3. h \in [0..m -> V]
        BY <2>2
    <2>4. \A k \in 0..(m - 1) : h[k] = g[k]
        OBVIOUS
    <2>5. h[m] = x
        OBVIOUS
    <2>6. Iterates(st, v, m, h)
        <3> HIDE DEF h
        <3> QED
            BY <2>1, <2>2, <2>4, <2>5 DEF Iterates
    <2> QED
        BY <2>3, <2>6
<1>3. 0..n \subseteq T
    <2> HIDE DEF T
    <2> QED
        BY <1>1, <1>2, StepByStep
<1> QED
    BY <1>3

-----------------------------------------------------------------------------
(* The operators of SequencesExt, place by place *)

\* w is s with n at place i.
IsInserted(w, X, s, i, n) ==
    /\ w \in Seq(X)
    /\ Len(w) = Len(s) + 1
    /\ \A j \in 1..Len(s) + 1 : w[j] = IF j < i THEN s[j] ELSE IF j = i THEN n ELSE s[j - 1]

LEMMA InsertAtForm ==
    ASSUME NEW X, NEW s \in Seq(X), NEW i \in 1..Len(s) + 1, NEW n \in X
    PROVE  IsInserted(InsertAt(s, i, n), X, s, i, n)
<1> DEFINE a == SubSeq(s, 1, i - 1)
           b == SubSeq(s, i, Len(s))
<1>1. Len(s) \in Nat /\ \A j \in 1..Len(s) : s[j] \in X
    BY LenProperties, ElementOfSeq
<1>2. /\ a \in Seq(X) /\ Len(a) = i - 1
      /\ \A j \in 1..i - 1 : a[j] = s[j]
    BY <1>1, SubSeqProperties
<1>3. /\ b \in Seq(X) /\ Len(b) = Len(s) - i + 1
      /\ \A j \in 1..Len(s) - i + 1 : b[j] = s[i + j - 1]
    BY <1>1, SubSeqProperties
<1>4. InsertAt(s, i, n) = (a \o <<n>>) \o b
    BY DEF InsertAt
<1> HIDE DEF a, b
<1>5. /\ a \o <<n>> \in Seq(X) /\ Len(a \o <<n>>) = i
      /\ \A j \in 1..i : (a \o <<n>>)[j] = IF j < i THEN s[j] ELSE n
    <2>1. <<n>> \in Seq(X) /\ Len(<<n>>) = 1 /\ <<n>>[1] = n
        OBVIOUS
    <2> QED
        BY <1>1, <1>2, <2>1, ConcatProperties
<1> DEFINE c == a \o <<n>>
<1> HIDE DEF c
<1>6. /\ c \o b \in Seq(X) /\ Len(c \o b) = Len(s) + 1
      /\ \A j \in 1..Len(s) + 1 : (c \o b)[j] = IF j <= i THEN c[j] ELSE b[j - i]
    <2>1. c \in Seq(X) /\ Len(c) = i /\ b \in Seq(X) /\ Len(b) = Len(s) - i + 1
        BY <1>3, <1>5 DEF c
    <2>2. /\ c \o b \in Seq(X) /\ Len(c \o b) = Len(c) + Len(b)
          /\ \A j \in 1..Len(c) + Len(b) :
                 (c \o b)[j] = IF j <= Len(c) THEN c[j] ELSE b[j - Len(c)]
        BY <2>1, ConcatProperties
    <2> QED
        BY <1>1, <2>1, <2>2
<1>7. ASSUME NEW j \in 1..Len(s) + 1
      PROVE  (c \o b)[j] = IF j < i THEN s[j] ELSE IF j = i THEN n ELSE s[j - 1]
    <2>1. CASE j <= i
        BY <1>5, <1>6, <2>1 DEF c
    <2>2. CASE j > i
        <3>1. j - i \in 1..Len(s) - i + 1
            BY <1>1, <2>2
        <3>2. b[j - i] = s[i + (j - i) - 1]
            BY <1>3, <3>1
        <3>3. i + (j - i) - 1 = j - 1
            BY <1>1
        <3> QED
            BY <1>1, <1>6, <2>2, <3>2, <3>3
    <2>3. j <= i \/ j > i
        BY <1>1
    <2> QED
        BY <2>1, <2>2, <2>3
<1> QED
    BY <1>4, <1>6, <1>7 DEF c, IsInserted

LEMMA RemoveAtForm ==
    ASSUME NEW X, NEW s \in Seq(X), NEW i \in 1..Len(s)
    PROVE  /\ RemoveAt(s, i) \in Seq(X)
           /\ Len(RemoveAt(s, i)) = Len(s) - 1
           /\ \A j \in 1..Len(s) - 1 : RemoveAt(s, i)[j] = IF j < i THEN s[j] ELSE s[j + 1]
<1> DEFINE a == SubSeq(s, 1, i - 1)
           b == SubSeq(s, i + 1, Len(s))
<1>1. Len(s) \in Nat /\ \A j \in 1..Len(s) : s[j] \in X
    BY LenProperties, ElementOfSeq
<1>2. /\ a \in Seq(X) /\ Len(a) = i - 1
      /\ \A j \in 1..i - 1 : a[j] = s[j]
    BY <1>1, SubSeqProperties
<1>3. /\ b \in Seq(X) /\ Len(b) = Len(s) - i
      /\ \A j \in 1..Len(s) - i : b[j] = s[i + j]
    <2>1. Len(b) = IF i + 1 <= Len(s) THEN Len(s) - (i + 1) + 1 ELSE 0
        BY <1>1, SubSeqProperties
    <2>2. b \in Seq(X) /\ \A j \in 1..Len(s) - (i + 1) + 1 : b[j] = s[(i + 1) + j - 1]
        BY <1>1, SubSeqProperties
    <2> HIDE DEF b
    <2>3. ASSUME NEW j \in 1..Len(s) - i
          PROVE  b[j] = s[i + j]
        <3>1. j \in 1..Len(s) - (i + 1) + 1 /\ (i + 1) + j - 1 = i + j
            BY <1>1
        <3> QED
            BY <2>2, <3>1
    <2> QED
        BY <1>1, <2>1, <2>2, <2>3
<1>4. RemoveAt(s, i) = a \o b
    BY DEF RemoveAt
<1> HIDE DEF a, b
<1>5. /\ a \o b \in Seq(X) /\ Len(a \o b) = Len(s) - 1
      /\ \A j \in 1..Len(s) - 1 : (a \o b)[j] = IF j <= i - 1 THEN a[j] ELSE b[j - (i - 1)]
    <2>1. /\ a \o b \in Seq(X) /\ Len(a \o b) = Len(a) + Len(b)
          /\ \A j \in 1..Len(a) + Len(b) :
                 (a \o b)[j] = IF j <= Len(a) THEN a[j] ELSE b[j - Len(a)]
        BY <1>2, <1>3, ConcatProperties
    <2> QED
        BY <1>1, <1>2, <1>3, <2>1
<1>6. ASSUME NEW j \in 1..Len(s) - 1
      PROVE  (a \o b)[j] = IF j < i THEN s[j] ELSE s[j + 1]
    <2>1. CASE j < i
        BY <1>1, <1>2, <1>5, <2>1
    <2>2. CASE j >= i
        <3>1. j - (i - 1) \in 1..Len(s) - i /\ i + (j - (i - 1)) = j + 1
            BY <1>1, <2>2
        <3> QED
            BY <1>1, <1>3, <1>5, <2>2, <3>1
    <2>3. j < i \/ j >= i
        BY <1>1
    <2> QED
        BY <2>1, <2>2, <2>3
<1> QED
    BY <1>4, <1>5, <1>6

\* The place of an element that is in a list once.
LEMMA RemoveFirstForm ==
    ASSUME NEW X, NEW s \in Seq(X), NEW i \in 1..Len(s),
           \A j \in 1..Len(s) : s[j] = s[i] => j = i
    PROVE  RemoveFirst(s, s[i]) = RemoveAt(s, i)
<1> DEFINE I == {j \in 1..Len(s) : s[j] = s[i]}
<1>1. I = {i}
    OBVIOUS
<1>2. Min(I) = i
    <2> i \in Nat
        BY LenProperties
    <2> QED
        BY <1>1 DEF Min
<1>3. SelectInSeq(s, LAMBDA v : v = s[i]) = Min(I)
    BY <1>1 DEF SelectInSeq
<1> HIDE DEF I
<1> QED
    BY <1>2, <1>3 DEF RemoveFirst

-----------------------------------------------------------------------------
(* The child list of a node: every child, once *)

LEMMA ChildListSteps ==
    ASSUME NEW f, Typed(f), NEW p \in DOMAIN f, Cardinality(ChildrenOf(f, p)) \in Nat
    PROVE  LET n == Cardinality(ChildrenOf(f, p))
               at == ChildList(f, p)
           IN  /\ DOMAIN at = 1..n /\ at = [i \in 1..n |-> at[i]]
               /\ n > 0 => at[1] = f[p].first
               /\ \A i \in 2..n : at[i] = IF at[i - 1] \in DOMAIN f THEN f[at[i - 1]].next ELSE NoNode
<1> DEFINE n == Cardinality(ChildrenOf(f, p))
           one == f[p].first
           more(x) == IF x \in DOMAIN f THEN f[x].next ELSE NoNode
           st == [q \in (1..n) \X Nat |-> IF q[1] = 1 THEN one ELSE more(q[2])]
<1>1. /\ one \in Nat /\ \A x : more(x) \in Nat
    BY DEF Typed, Node, NoNode
<1>2. n \in Nat
    OBVIOUS
<1> HIDE DEF n, one, more
<1>3. st \in [(1..n) \X Nat -> Nat]
    BY <1>1
<1>4. PICK g \in [0..n -> Nat] : Iterates(st, 0, n, g)
    <2> HIDE DEF st
    <2> QED
        BY <1>2, <1>3, RecursionEnds
<1> DEFINE h == [i \in 1..n |-> g[i]]
<1>5. h = [i \in 1..n |-> IF i = 1 THEN one ELSE more(h[i - 1])]
    <2>1. ASSUME NEW i \in 1..n PROVE h[i] = IF i = 1 THEN one ELSE more(h[i - 1])
        <3>1. i - 1 \in 0..n
            BY <1>2
        <3>2. <<i, g[i - 1]>> \in (1..n) \X Nat
            BY <3>1
        <3>3. g[i] = IF i = 1 THEN one ELSE more(g[i - 1])
            BY <1>4, <3>2 DEF Iterates
        <3>4. i # 1 => i - 1 \in 1..n
            BY <1>2
        <3> QED
            BY <3>3, <3>4
    <2> QED
        BY <2>1
<1> DEFINE at == CHOOSE a : a = [i \in 1..n |-> IF i = 1 THEN one ELSE more(a[i - 1])]
<1>6. at = [i \in 1..n |-> IF i = 1 THEN one ELSE more(at[i - 1])]
    <2> HIDE DEF h
    <2> QED
        BY <1>5
<1>7. ChildList(f, p) = at
    BY DEF ChildList, n, one, more
<1> HIDE DEF at
<1>8. DOMAIN at = 1..n /\ at = [i \in 1..n |-> at[i]]
    BY <1>6
<1>9. n > 0 => at[1] = one
    <2>1. n > 0 => 1 \in 1..n
        BY <1>2
    <2> QED
        BY <1>6, <2>1
<1>10. \A i \in 2..n : at[i] = more(at[i - 1])
    <2>1. \A i \in 2..n : i \in 1..n /\ i # 1
        BY <1>2
    <2> QED
        BY <1>6, <2>1
<1> QED
    BY <1>7, <1>8, <1>9, <1>10 DEF n, one, more

LEMMA ChildListIsExact ==
    ASSUME NEW f, Typed(f), Whole(f), IsFiniteSet(DOMAIN f), NEW p \in DOMAIN f
    PROVE  LET l == ChildList(f, p)
           IN  /\ l \in Seq(ChildrenOf(f, p)) /\ ToSet(l) = ChildrenOf(f, p)
               /\ \A i, j \in DOMAIN l : l[i] = l[j] => i = j
               /\ \A i \in DOMAIN l : f[l[i]].prev = IF i = 1 THEN NoNode ELSE l[i - 1]
<1> DEFINE C == ChildrenOf(f, p)
           n == Cardinality(C)
           at == ChildList(f, p)
<1>0. C \subseteq DOMAIN f /\ \A x \in DOMAIN f : x \in C <=> f[x].parent = p
    BY DEF ChildrenOf
<1>1. IsFiniteSet(C) /\ n \in Nat
    BY <1>0, FS_Subset, FS_CardinalityType
<1>2. /\ DOMAIN at = 1..n /\ at = [i \in 1..n |-> at[i]]
      /\ n > 0 => at[1] = f[p].first
      /\ \A i \in 2..n : at[i] = IF at[i - 1] \in DOMAIN f THEN f[at[i - 1]].next ELSE NoNode
    BY <1>1, ChildListSteps
<1>3. \A x \in C : /\ f[x].prev # NoNode => f[x].prev \in C /\ f[f[x].prev].next = x
                   /\ f[x].next # NoNode => f[x].next \in C /\ f[f[x].next].prev = x
                   /\ f[x].prev = NoNode => f[p].first = x
                   /\ x # NoNode
    <2>1. \A x \in C : x # NoNode /\ p # NoNode /\ f[x].parent = p
        BY <1>0 DEF Typed, NoNode
    <2>2. \A x \in C : f[x].prev # NoNode => f[x].prev \in DOMAIN f /\ f[f[x].prev].next = x
                                            /\ f[f[x].prev].parent = p
        BY <1>0, <2>1 DEF Whole, LeftLinks
    <2>3. \A x \in C : f[x].next # NoNode => f[x].next \in DOMAIN f /\ f[f[x].next].prev = x
        BY <1>0, <2>1 DEF Whole, RightLinks
    <2>4. \A x \in C : f[x].next # NoNode => f[f[x].next].parent = p
        BY <1>0, <2>1, <2>3 DEF Whole, LeftLinks
    <2>5. \A x \in C : f[x].prev = NoNode => f[p].first = x
        BY <1>0, <2>1 DEF Whole, UpLinks
    <2> QED
        BY <1>0, <2>1, <2>2, <2>3, <2>4, <2>5
<1>4. \A S \in SUBSET C : S # {} => \E x \in S : f[x].prev \notin S
    BY <1>0 DEF Whole, NoRing
<1>5. f[p].first # NoNode => f[p].first \in C /\ f[f[p].first].prev = NoNode
    BY <1>0 DEF Whole, DownLinks
<1> HIDE DEF C, n, at
<1> DEFINE \* the first k entries are right
           Good(k) == /\ \A i \in 1..k : at[i] \in C
                      /\ \A i \in 1..k : f[at[i]].prev = IF i = 1 THEN NoNode ELSE at[i - 1]
                      /\ \A i, j \in 1..k : at[i] = at[j] => i = j
           T == {k \in 0..n : Good(k)}
<1>6. 0 \in T
    BY <1>1
<1>7. ASSUME NEW k \in 1..n, k - 1 \in T
      PROVE  k \in T
    <2>0. k - 1 \in 0..n /\ Good(k - 1) /\ k \in 0..n
        BY <1>1, <1>7
    <2>1. CASE k = 1
        <3>1. C # {}
            BY <1>1, <2>1, FS_EmptySet DEF n
        <3>2. PICK x \in C : f[x].prev \notin C
            BY <1>4, <3>1
        <3>3. at[1] = x /\ f[x].prev = NoNode
            BY <1>1, <1>2, <1>3, <2>1, <3>2
        <3>4. 1..k = {1}
            BY <2>1
        <3> QED
            BY <2>0, <3>3, <3>4
    <2>2. CASE k # 1
        <3> DEFINE m == k - 1
                   A == {at[i] : i \in 1..m}
        <3>0. m \in Nat /\ m >= 1 /\ m \in 1..n /\ k \in 2..n /\ k = m + 1
              /\ 1..k = (1..m) \cup {k} /\ k \notin 1..m
            BY <1>1, <2>2
        <3>00. \A i \in 1..m : i # 1 => i - 1 \in 1..m /\ i - 1 # m
            BY <3>0
        <3>g. /\ \A i \in 1..m : at[i] \in C
              /\ \A i \in 1..m : f[at[i]].prev = IF i = 1 THEN NoNode ELSE at[i - 1]
              /\ \A i, j \in 1..m : at[i] = at[j] => i = j
            BY <2>0
        <3> HIDE DEF m
        <3>1. Cardinality(A) = m /\ IsFiniteSet(A)
            <4> DEFINE a == [i \in 1..m |-> at[i]]
            <4>1. a \in Surjection(1..m, A)
                BY DEF Surjection
            <4>2. \A i, j \in 1..m : a[i] = a[j] => i = j
                BY <3>g
            <4>3. IsFiniteSet(1..m) /\ Cardinality(1..m) = m
                BY <3>0, FS_Interval
            <4>4. a \in Injection(1..m, A)
                BY <4>1, <4>2 DEF Injection, Surjection, IsInjective
            <4> HIDE DEF a, A
            <4> QED
                BY <4>1, <4>3, <4>4, FS_Surjection
        <3>2. C \ A # {}
            <4>1. A # C
                BY <1>1, <3>0, <3>1 DEF n
            <4>2. A \subseteq C
                BY <3>g
            <4> QED
                BY <4>1, <4>2
        <3>3. PICK x \in C \ A : f[x].prev \notin C \ A
            BY <1>4, <3>2
        <3>4. f[x].prev # NoNode
            <4>1. 1 \in 1..m /\ at[1] = f[p].first
                BY <1>1, <1>2, <3>0
            <4> QED
                BY <1>3, <3>3, <4>1
        <3>5. PICK i \in 1..m : f[x].prev = at[i]
            BY <1>3, <3>3, <3>4
        <3>6. f[at[i]].next = x
            BY <1>3, <3>3, <3>4, <3>5
        <3>7. i = m
            <4> SUFFICES ASSUME i # m PROVE FALSE
                OBVIOUS
            <4>1. i + 1 \in 1..m /\ i + 1 \in 2..n /\ (i + 1) - 1 = i
                <5>1. \A a, b, d \in Nat : a \in 1..b /\ a # b /\ b \in 1..d =>
                          a + 1 \in 1..b /\ a + 1 \in 2..d /\ (a + 1) - 1 = a
                    OBVIOUS
                <5>2. i \in Nat /\ n \in Nat
                    BY <1>1, <3>0
                <5> QED
                    BY <3>0, <5>1, <5>2
            <4>2. at[i] \in DOMAIN f
                BY <1>0, <3>g DEF C
            <4>3. at[i + 1] = x
                BY <1>2, <3>6, <4>1, <4>2
            <4> QED
                BY <3>3, <4>1, <4>3
        <3>8. at[k] = x
            <4>1. at[m] \in DOMAIN f
                BY <1>0, <3>0, <3>g DEF C
            <4>2. k - 1 = m
                BY <3>0
            <4>3. at[k] = f[at[m]].next
                BY <1>2, <3>0, <4>1, <4>2
            <4> QED
                BY <3>6, <3>7, <4>3
        <3>9. \A j \in 1..m : at[j] # at[k]
            BY <3>3, <3>8
        <3>10. Good(k)
            <4>1. \A j \in 1..k : at[j] \in C
                BY <3>0, <3>3, <3>8, <3>g
            <4>2. \A j \in 1..k : f[at[j]].prev = IF j = 1 THEN NoNode ELSE at[j - 1]
                BY <2>2, <3>0, <3>5, <3>7, <3>8, <3>g
            <4>3. \A j, l \in 1..k : at[j] = at[l] => j = l
                BY <3>0, <3>9, <3>g
            <4> QED
                BY <4>1, <4>2, <4>3
        <3> QED
            BY <2>0, <3>10
    <2> QED
        BY <2>1, <2>2
<1> HIDE DEF T
<1>8. 0..n \subseteq T
    BY <1>1, <1>6, <1>7, StepByStep
<1>9. Good(n)
    BY <1>1, <1>8 DEF T
<1>10. at \in Seq(C)
    BY <1>1, <1>2, <1>9
<1>11. ToSet(at) = C
    <2>1. at \in Surjection(1..n, ToSet(at)) /\ at \in Injection(1..n, ToSet(at))
        BY <1>2, <1>9 DEF Surjection, Injection, IsInjective, ToSet
    <2>2. IsFiniteSet(1..n) /\ Cardinality(1..n) = n
        BY <1>1, FS_Interval
    <2>3. Cardinality(ToSet(at)) = n
        BY <2>1, <2>2, FS_Surjection
    <2>4. ToSet(at) \subseteq C
        BY <1>2, <1>9 DEF ToSet
    <2> QED
        BY <1>1, <2>3, <2>4, FS_Subset DEF n
<1>12. /\ \A i, j \in DOMAIN at : at[i] = at[j] => i = j
       /\ \A i \in DOMAIN at : f[at[i]].prev = IF i = 1 THEN NoNode ELSE at[i - 1]
    BY <1>2, <1>9
<1> QED
    BY <1>10, <1>11, <1>12 DEF C, at

-----------------------------------------------------------------------------
(* One list: what a child more or a child less makes of it *)

\* s lists the children of p in the order of their left-sibling links.
IsList(f, p, s) ==
    /\ s \in Seq(ChildrenOf(f, p))
    /\ \A i, j \in 1..Len(s) : s[i] = s[j] => i = j
    /\ \A x \in ChildrenOf(f, p) : \E i \in 1..Len(s) : s[i] = x
    /\ \A i \in 1..Len(s) : f[s[i]].prev = IF i = 1 THEN NoNode ELSE s[i - 1]

LEMMA ListFields ==
    ASSUME NEW f, NEW p, NEW s, IsList(f, p, s)
    PROVE  /\ Len(s) \in Nat /\ DOMAIN s = 1..Len(s)
           /\ s \in [1..Len(s) -> ChildrenOf(f, p)]
           /\ ToSet(s) = ChildrenOf(f, p)
<1>1. s \in Seq(ChildrenOf(f, p))
    BY DEF IsList
<1>2. Len(s) \in Nat /\ DOMAIN s = 1..Len(s) /\ s \in [1..Len(s) -> ChildrenOf(f, p)]
    BY <1>1, LenProperties
<1>3. \A x \in ChildrenOf(f, p) : \E i \in 1..Len(s) : s[i] = x
    BY DEF IsList
<1> QED
    BY <1>2, <1>3 DEF ToSet

\* Lists depend on the keys alone.
LEMMA ListKept ==
    ASSUME NEW f, NEW h, NEW p, NEW s, IsList(f, p, s),
           ChildrenOf(h, p) = ChildrenOf(f, p),
           \A x \in ChildrenOf(f, p) : h[x].prev = f[x].prev
    PROVE  IsList(h, p, s)
<1>1. \A i \in 1..Len(s) : s[i] \in ChildrenOf(f, p)
    BY ListFields
<1> QED
    BY <1>1 DEF IsList

\* What stands to the left of place i.
LeftOf(s, i) == IF i = 1 THEN NoNode ELSE s[i - 1]

LEMMA PlaceBehind ==
    ASSUME NEW f, NEW p, NEW s, IsList(f, p, s), NEW q \in ChildrenOf(f, p) \cup {NoNode}
    PROVE  \E i \in 1..Len(s) + 1 : q = LeftOf(s, i)
<1>1. Len(s) \in Nat
    BY ListFields
<1>2. CASE q = NoNode
    BY <1>1, <1>2 DEF LeftOf
<1>3. CASE q \in ChildrenOf(f, p)
    <2>1. PICK i \in 1..Len(s) : s[i] = q
        BY <1>3 DEF IsList
    <2>2. i + 1 \in 1..Len(s) + 1 /\ i + 1 # 1 /\ (i + 1) - 1 = i
        BY <1>1
    <2>3. q = LeftOf(s, i + 1)
        BY <2>1, <2>2 DEF LeftOf
    <2> QED
        BY <2>2, <2>3
<1> QED
    BY <1>2, <1>3

LEMMA FollowerPlace ==
    ASSUME NEW f, NoNode \notin DOMAIN f, NEW p, NEW s, IsList(f, p, s),
           NEW i \in 1..Len(s) + 1, NEW x \in ChildrenOf(f, p)
    PROVE  f[x].prev = LeftOf(s, i) <=> (i <= Len(s) /\ x = s[i])
<1>1. Len(s) \in Nat /\ \A j \in 1..Len(s) : s[j] \in DOMAIN f
    BY ListFields DEF ChildrenOf
<1>2. PICK j \in 1..Len(s) : x = s[j]
    BY DEF IsList
<1>3. f[x].prev = LeftOf(s, j)
    BY <1>2 DEF IsList, LeftOf
<1>4. ASSUME LeftOf(s, j) = LeftOf(s, i)
      PROVE  i = j
    <2>1. CASE i = 1 \/ j = 1
        <3>1. ASSUME NEW m \in 2..Len(s) + 1
              PROVE  LeftOf(s, m) \in DOMAIN f
            <4>1. m # 1 /\ m - 1 \in 1..Len(s)
                BY <1>1
            <4> QED
                BY <1>1, <4>1 DEF LeftOf
        <3>2. LeftOf(s, 1) = NoNode
            BY DEF LeftOf
        <3> QED
            BY <1>1, <1>4, <2>1, <3>1, <3>2
    <2>2. CASE i # 1 /\ j # 1
        <3>1. i - 1 \in 1..Len(s) /\ j - 1 \in 1..Len(s)
            BY <1>1, <2>2
        <3>2. s[i - 1] = s[j - 1]
            BY <1>4, <2>2 DEF LeftOf
        <3>3. i - 1 = j - 1
            BY <3>1, <3>2 DEF IsList
        <3> QED
            BY <1>1, <3>3
    <2> QED
        BY <2>1, <2>2
<1>5. (i <= Len(s) /\ x = s[i]) => i = j
    <2> SUFFICES ASSUME i <= Len(s), x = s[i]
                 PROVE  i = j
        OBVIOUS
    <2>1. i \in 1..Len(s) /\ s[i] = s[j]
        BY <1>1, <1>2
    <2> QED
        BY <2>1 DEF IsList
<1> QED
    BY <1>1, <1>2, <1>3, <1>4, <1>5

\* A child n comes in at place i, and the one that stood there follows it.
LEMMA ListGrows ==
    ASSUME NEW f, NEW h, NoNode \notin DOMAIN f, NEW p, NEW s, IsList(f, p, s),
           NEW i \in 1..Len(s) + 1, NEW n, n \notin ChildrenOf(f, p),
           ChildrenOf(h, p) = ChildrenOf(f, p) \cup {n},
           h[n].prev = LeftOf(s, i),
           \A x \in ChildrenOf(f, p) :
               h[x].prev = IF f[x].prev = LeftOf(s, i) THEN n ELSE f[x].prev
    PROVE  IsList(h, p, InsertAt(s, i, n))
<1> DEFINE C == ChildrenOf(f, p)
           w == InsertAt(s, i, n)
<1>1. /\ Len(s) \in Nat /\ s \in Seq(C) /\ \A j \in 1..Len(s) : s[j] \in C
      /\ \A j, k \in 1..Len(s) : s[j] = s[k] => j = k
      /\ \A x \in C : \E j \in 1..Len(s) : s[j] = x
      /\ \A j \in 1..Len(s) : f[s[j]].prev = IF j = 1 THEN NoNode ELSE s[j - 1]
    BY ListFields DEF IsList
<1> HIDE DEF C
<1>2. /\ w \in Seq(C \cup {n}) /\ Len(w) = Len(s) + 1
      /\ \A j \in 1..Len(s) + 1 : w[j] = IF j < i THEN s[j] ELSE IF j = i THEN n ELSE s[j - 1]
    <2>1. s \in Seq(C \cup {n})
        BY <1>1, SeqMonotonic
    <2> DEFINE X == C \cup {n}
    <2>2. s \in Seq(X) /\ n \in X
        BY <2>1
    <2> HIDE DEF X, w
    <2>3. IsInserted(InsertAt(s, i, n), X, s, i, n)
        BY <2>2, InsertAtForm
    <2>4. IsInserted(w, X, s, i, n)
        BY <2>3 DEF w
    <2> QED
        BY <2>4 DEF IsInserted, X
<1>3. \A x \in C : f[x].prev = LeftOf(s, i) <=> (i <= Len(s) /\ x = s[i])
    BY FollowerPlace DEF C
<1>4. \A x \in C : h[x].prev = IF i <= Len(s) /\ x = s[i] THEN n ELSE f[x].prev
    BY <1>3 DEF C
<1> HIDE DEF w
<1>0. Len(s) \in Nat /\ i \in Nat /\ i >= 1 /\ i <= Len(s) + 1 /\ Len(w) = Len(s) + 1
    <2>1. Len(s) \in Nat
        BY <1>1
    <2> QED
        BY <1>2, <2>1
<1>5. \A j \in 1..Len(s) : j < i => w[j] = s[j]
    BY <1>1, <1>2
<1>6. \A j \in 1..Len(s) : j >= i => w[j + 1] = s[j] /\ j + 1 \in 1..Len(s) + 1
    <2> SUFFICES ASSUME NEW j \in 1..Len(s), j >= i
                 PROVE  w[j + 1] = s[j] /\ j + 1 \in 1..Len(s) + 1
        OBVIOUS
    <2>1. j + 1 \in 1..Len(s) + 1 /\ ~(j + 1 < i) /\ j + 1 # i /\ (j + 1) - 1 = j
        BY <1>1
    <2> QED
        BY <1>2, <2>1
<1>7. w[i] = n
    BY <1>1, <1>2
<1>8. n \notin C
    BY DEF C
<1>9. \A j, k \in 1..Len(w) : w[j] = w[k] => j = k
    <2> SUFFICES ASSUME NEW j \in 1..Len(s) + 1, NEW k \in 1..Len(s) + 1, w[j] = w[k]
                 PROVE  j = k
        BY <1>2
    <2> DEFINE old(m) == IF m < i THEN m ELSE m - 1
    <2>1. ASSUME NEW m \in 1..Len(s) + 1, m # i
          PROVE  old(m) \in 1..Len(s) /\ w[m] = s[old(m)]
        <3>1. CASE m < i
            <4>1. old(m) = m /\ m \in 1..Len(s)
                BY <1>1, <3>1
            <4> QED
                BY <1>5, <3>1, <4>1
        <3>2. CASE m > i
            <4>1. old(m) = m - 1 /\ m - 1 \in 1..Len(s) /\ ~ (m < i)
                BY <1>1, <3>2
            <4> QED
                BY <1>2, <2>1, <4>1
        <3>3. m < i \/ m > i
            BY <1>1, <2>1
        <3> QED
            BY <3>1, <3>2, <3>3
    <2>4. ASSUME NEW m \in 1..Len(s) + 1, NEW o \in 1..Len(s) + 1, m # i, o # i,
                 old(m) = old(o)
          PROVE  m = o
        <3>1. i \in Nat /\ m \in Nat /\ o \in Nat
            BY <1>1
        <3>2. (m < i \/ m > i) /\ (o < i \/ o > i)
            BY <2>4, <3>1
        <3>3. (IF m < i THEN m ELSE m - 1) = IF o < i THEN o ELSE o - 1
            BY <2>4
        <3> QED
            BY <3>1, <3>2, <3>3
    <2> HIDE DEF old
    <2>2. CASE j = i \/ k = i
        <3>1. \A m \in 1..Len(s) + 1 : m # i => w[m] # n
            <4> SUFFICES ASSUME NEW m \in 1..Len(s) + 1, m # i
                         PROVE  w[m] # n
                OBVIOUS
            <4>1. w[m] \in C
                BY <1>1, <2>1
            <4> QED
                BY <1>8, <4>1
        <3> QED
            BY <1>7, <2>2, <3>1
    <2>3. CASE j # i /\ k # i
        <3>1. old(j) \in 1..Len(s) /\ old(k) \in 1..Len(s) /\ s[old(j)] = s[old(k)]
            BY <2>1, <2>3
        <3>2. old(j) = old(k)
            BY <1>1, <3>1
        <3> QED
            BY <2>3, <2>4, <3>2
    <2> QED
        BY <2>2, <2>3
<1>10. \A x \in C \cup {n} : \E j \in 1..Len(w) : w[j] = x
    <2> SUFFICES ASSUME NEW x \in C
                 PROVE  \E j \in 1..Len(w) : w[j] = x
        BY <1>1, <1>2, <1>7
    <2>1. PICK j \in 1..Len(s) : s[j] = x
        BY <1>1
    <2>2. CASE j < i
        <3>1. j \in 1..Len(w)
            BY <1>0
        <3> QED
            BY <1>5, <2>1, <2>2, <3>1
    <2>3. CASE j >= i
        <3>1. j + 1 \in 1..Len(w) /\ w[j + 1] = x
            BY <1>2, <1>6, <2>1, <2>3
        <3> QED
            BY <3>1
    <2>4. j < i \/ j >= i
        BY <1>1
    <2> QED
        BY <2>2, <2>3, <2>4
<1>11. ASSUME NEW j \in 1..Len(w)
       PROVE  h[w[j]].prev = IF j = 1 THEN NoNode ELSE w[j - 1]
    <2>1. j \in 1..Len(s) + 1 /\ j \in Nat /\ i \in Nat
        BY <1>1, <1>2
    <2>2. CASE j < i
        <3>1. j \in 1..Len(s) /\ w[j] = s[j] /\ s[j] \in C
            BY <1>1, <1>5, <2>1, <2>2
        <3>2. ~(i <= Len(s) /\ s[j] = s[i])
            BY <1>1, <2>1, <2>2
        <3>3. h[w[j]].prev = f[s[j]].prev
            BY <1>4, <3>1, <3>2
        <3>4. j # 1 => w[j - 1] = s[j - 1]
            BY <1>1, <1>5, <2>1, <2>2
        <3> QED
            BY <1>1, <3>1, <3>3, <3>4
    <2>3. CASE j = i
        <3>1. h[w[j]].prev = LeftOf(s, i)
            BY <1>7, <2>3
        <3>2. j # 1 => w[j - 1] = s[j - 1]
            BY <1>1, <1>5, <2>1, <2>3
        <3> QED
            BY <2>3, <3>1, <3>2 DEF LeftOf
    <2>4. CASE j > i
        <3> DEFINE m == j - 1
        <3>1. m \in 1..Len(s) /\ m >= i /\ m + 1 = j /\ j # 1
            BY <1>0, <2>1, <2>4
        <3> HIDE DEF m
        <3>2. w[j] = s[m] /\ s[m] \in C
            BY <1>1, <1>6, <3>1
        <3>3. CASE m = i
            <4>1. h[w[j]].prev = n
                BY <1>1, <1>4, <3>1, <3>2, <3>3
            <4>2. j - 1 = i
                BY <2>1, <3>1, <3>3
            <4> QED
                BY <1>7, <3>1, <4>1, <4>2
        <3>4. CASE m # i
            <4>1. ~(i <= Len(s) /\ s[m] = s[i])
                <5> SUFFICES ASSUME i <= Len(s), s[m] = s[i]
                             PROVE  FALSE
                    OBVIOUS
                <5>1. i \in 1..Len(s)
                    BY <1>0
                <5>2. m = i
                    BY <1>1, <3>1, <5>1
                <5> QED
                    BY <3>4, <5>2
            <4>2. h[w[j]].prev = f[s[m]].prev
                BY <1>4, <3>2, <4>1
            <4>3. m # 1 /\ m - 1 \in 1..Len(s) /\ m - 1 >= i /\ (m - 1) + 1 = j - 1
                BY <1>0, <2>1, <3>1, <3>4
            <4>4. w[j - 1] = s[m - 1]
                BY <1>6, <4>3
            <4> QED
                BY <1>1, <3>1, <4>2, <4>3, <4>4
        <3> QED
            BY <3>3, <3>4
    <2> QED
        BY <2>1, <2>2, <2>3, <2>4
<1>12. ChildrenOf(h, p) = C \cup {n}
    BY DEF C
<1> QED
    BY <1>2, <1>9, <1>10, <1>11, <1>12 DEF IsList, w

\* A child e goes, and the one behind it moves up.
LEMMA ListShrinks ==
    ASSUME NEW f, NEW h, NEW p, NEW s, IsList(f, p, s), NoNode \notin DOMAIN f,
           NEW i \in 1..Len(s),
           ChildrenOf(h, p) = ChildrenOf(f, p) \ {s[i]},
           \A x \in ChildrenOf(h, p) :
               h[x].prev = IF f[x].prev = s[i] THEN f[s[i]].prev ELSE f[x].prev
    PROVE  IsList(h, p, RemoveAt(s, i))
<1> DEFINE C == ChildrenOf(f, p)
           w == RemoveAt(s, i)
           e == s[i]
<1>1. /\ Len(s) \in Nat /\ s \in Seq(C) /\ \A j \in 1..Len(s) : s[j] \in C
      /\ \A j, k \in 1..Len(s) : s[j] = s[k] => j = k
      /\ \A x \in C : \E j \in 1..Len(s) : s[j] = x
      /\ \A j \in 1..Len(s) : f[s[j]].prev = IF j = 1 THEN NoNode ELSE s[j - 1]
    BY ListFields DEF IsList
<1>2. NoNode \notin C
    BY DEF ChildrenOf
<1>3. \A x \in C \ {e} : h[x].prev = IF f[x].prev = e THEN f[e].prev ELSE f[x].prev
    OBVIOUS
<1>4. ChildrenOf(h, p) = C \ {e}
    OBVIOUS
<1> HIDE DEF C
<1>5. /\ w \in Seq(C) /\ Len(w) = Len(s) - 1
      /\ \A j \in 1..Len(s) - 1 : w[j] = IF j < i THEN s[j] ELSE s[j + 1]
    <2>1. s \in Seq(C) /\ i \in 1..Len(s)
        BY <1>1
    <2> QED
        BY <2>1, RemoveAtForm
<1> HIDE DEF w, e
<1> DEFINE old(m) == IF m < i THEN m ELSE m + 1
<1>6. ASSUME NEW m \in 1..Len(w)
      PROVE  old(m) \in 1..Len(s) /\ old(m) # i /\ w[m] = s[old(m)]
    <2>1. m \in 1..Len(s) - 1 /\ i \in Nat
        BY <1>1, <1>5
    <2>2. CASE m < i
        <3>1. old(m) = m /\ m \in 1..Len(s) /\ m # i
            BY <1>1, <2>1, <2>2
        <3> QED
            BY <1>5, <2>1, <2>2, <3>1
    <2>3. CASE m >= i
        <3>1. old(m) = m + 1 /\ m + 1 \in 1..Len(s) /\ m + 1 # i /\ ~ (m < i)
            BY <1>1, <2>1, <2>3
        <3> QED
            BY <1>5, <2>1, <3>1
    <2>4. m < i \/ m >= i
        BY <2>1
    <2> QED
        BY <2>2, <2>3, <2>4
<1>7. ASSUME NEW m \in 1..Len(w), NEW o \in 1..Len(w), old(m) = old(o)
      PROVE  m = o
    <2>1. i \in Nat /\ m \in Nat /\ o \in Nat
        BY <1>1, <1>5
    <2>2. (IF m < i THEN m ELSE m + 1) = IF o < i THEN o ELSE o + 1
        BY <1>7
    <2> QED
        BY <2>1, <2>2
<1>8. ASSUME NEW j \in 1..Len(s), j # i
      PROVE  \E m \in 1..Len(w) : old(m) = j
    <2>1. i \in Nat /\ j \in Nat
        BY <1>1
    <2>2. CASE j < i
        <3>1. j \in 1..Len(w) /\ old(j) = j
            BY <1>1, <1>5, <2>1, <2>2
        <3> QED
            BY <3>1
    <2>3. CASE j > i
        <3>1. j - 1 \in 1..Len(w) /\ old(j - 1) = j
            BY <1>1, <1>5, <2>1, <2>3
        <3> QED
            BY <3>1
    <2>4. j < i \/ j > i
        BY <1>8, <2>1
    <2> QED
        BY <2>2, <2>3, <2>4
<1>9. \A m \in 1..Len(w) : w[m] \in C \ {e}
    <2> SUFFICES ASSUME NEW m \in 1..Len(w)
                 PROVE  w[m] \in C \ {e}
        OBVIOUS
    <2> HIDE DEF old
    <2>1. s[old(m)] # s[i]
        BY <1>1, <1>6
    <2> QED
        BY <1>1, <1>6, <2>1 DEF e
<1>10. w \in Seq(C \ {e})
    <2>1. Len(w) \in Nat /\ w \in [1..Len(w) -> C]
        BY <1>5, LenProperties
    <2>2. w = [m \in 1..Len(w) |-> w[m]]
        BY <2>1
    <2>3. [m \in 1..Len(w) |-> w[m]] \in Seq(C \ {e})
        BY <1>9, <2>1, IsASeq
    <2> QED
        BY <2>2, <2>3
<1>11. \A j, k \in 1..Len(w) : w[j] = w[k] => j = k
    <2> SUFFICES ASSUME NEW j \in 1..Len(w), NEW k \in 1..Len(w), w[j] = w[k]
                 PROVE  j = k
        OBVIOUS
    <2> HIDE DEF old
    <2>1. /\ old(j) \in 1..Len(s) /\ w[j] = s[old(j)]
          /\ old(k) \in 1..Len(s) /\ w[k] = s[old(k)]
        BY <1>6
    <2>2. s[old(j)] = s[old(k)]
        BY <2>1
    <2>4. \A a, b \in 1..Len(s) : s[a] = s[b] => a = b
        BY <1>1
    <2>3. old(j) = old(k)
        BY <2>1, <2>2, <2>4
    <2> QED
        BY <1>7, <2>3
<1>12. \A x \in C \ {e} : \E j \in 1..Len(w) : w[j] = x
    <2> SUFFICES ASSUME NEW x \in C \ {e}
                 PROVE  \E j \in 1..Len(w) : w[j] = x
        OBVIOUS
    <2> HIDE DEF old
    <2>1. PICK j \in 1..Len(s) : s[j] = x
        BY <1>1
    <2>2. j # i
        BY <2>1 DEF e
    <2> QED
        BY <1>6, <1>8, <2>1, <2>2
<1>14. Len(s) \in Nat /\ i \in Nat /\ i >= 1 /\ i <= Len(s)
    <2>1. Len(s) \in Nat
        BY <1>1
    <2> QED
        BY <2>1
<1>13. ASSUME NEW m \in 1..Len(w)
       PROVE  h[w[m]].prev = IF m = 1 THEN NoNode ELSE w[m - 1]
    <2>1. m \in Nat /\ m >= 1 /\ i \in Nat /\ i <= Len(s) /\ m <= Len(s) - 1
        BY <1>1, <1>5
    <2>2. w[m] \in C \ {e}
        BY <1>9
    <2>3. CASE m < i
        <3>1. m \in 1..Len(s) /\ w[m] = s[m]
            <4>1. m \in 1..Len(s) /\ m \in 1..Len(s) - 1
                BY <1>14, <2>1
            <4> QED
                BY <1>5, <2>3, <4>1
        <3>2. m # 1 => /\ m - 1 \in 1..Len(s) /\ m - 1 # i
                       /\ w[m - 1] = s[m - 1] /\ s[m - 1] # s[i]
            <4> SUFFICES ASSUME m # 1
                         PROVE  /\ m - 1 \in 1..Len(s) /\ m - 1 # i
                                /\ w[m - 1] = s[m - 1] /\ s[m - 1] # s[i]
                OBVIOUS
            <4>1. m - 1 \in 1..Len(s) - 1 /\ m - 1 \in 1..Len(s) /\ m - 1 # i /\ m - 1 < i
                BY <1>14, <2>1, <2>3
            <4>2. w[m - 1] = s[m - 1]
                BY <1>5, <4>1
            <4>3. s[m - 1] # s[i]
                BY <1>1, <4>1
            <4> QED
                BY <4>1, <4>2, <4>3
        <3>3. f[s[m]].prev # e
            <4>1. f[s[m]].prev = IF m = 1 THEN NoNode ELSE s[m - 1]
                BY <1>1, <3>1
            <4>2. e # NoNode
                BY <1>1, <1>2 DEF e
            <4> QED
                BY <3>2, <4>1, <4>2 DEF e
        <3>4. h[w[m]].prev = f[s[m]].prev
            BY <1>3, <2>2, <3>1, <3>3
        <3> QED
            BY <1>1, <3>1, <3>2, <3>4
    <2>4. CASE m >= i
        <3>1. m + 1 \in 1..Len(s) /\ w[m] = s[m + 1] /\ m + 1 # 1 /\ (m + 1) - 1 = m
            BY <1>1, <1>5, <2>1, <2>4
        <3>2. f[s[m + 1]].prev = s[m]
            <4>1. f[s[m + 1]].prev = IF m + 1 = 1 THEN NoNode ELSE s[(m + 1) - 1]
                BY <1>1, <3>1
            <4> QED
                BY <3>1, <4>1
        <3>3. CASE m = i
            <4>1. h[w[m]].prev = f[s[i]].prev
                BY <1>3, <2>2, <3>1, <3>2, <3>3 DEF e
            <4>2. m # 1 => w[m - 1] = s[m - 1]
                <5> SUFFICES ASSUME m # 1
                             PROVE  w[m - 1] = s[m - 1]
                    OBVIOUS
                <5>1. m - 1 \in 1..Len(s) - 1 /\ m - 1 < i
                    BY <1>1, <2>1, <3>3
                <5> QED
                    BY <1>5, <5>1
            <4> QED
                BY <1>1, <3>3, <4>1, <4>2
        <3>4. CASE m # i
            <4>1. m - 1 \in 1..Len(s) - 1 /\ ~ (m - 1 < i) /\ (m - 1) + 1 = m /\ m # 1
                BY <1>14, <2>1, <2>4, <3>4
            <4>2. w[m - 1] = s[m]
                BY <1>5, <4>1
            <4>3. m \in 1..Len(s)
                BY <1>1, <2>1
            <4>4. s[m] # e
                BY <1>1, <3>4, <4>3 DEF e
            <4>5. h[w[m]].prev = s[m]
                BY <1>3, <2>2, <3>1, <3>2, <4>4
            <4> QED
                BY <4>1, <4>2, <4>5
        <3> QED
            BY <3>3, <3>4
    <2>5. m < i \/ m >= i
        BY <2>1
    <2> QED
        BY <2>3, <2>4, <2>5
<1> QED
    BY <1>4, <1>10, <1>11, <1>12, <1>13 DEF IsList, w

-----------------------------------------------------------------------------
(* Each change of links, list by list *)

\* Whole links between finitely many nodes.
IsForest(f) == Typed(f) /\ Whole(f) /\ IsFiniteSet(DOMAIN f)

LEMMA ChildListIsList ==
    ASSUME NEW f, IsForest(f), NEW p \in DOMAIN f
    PROVE  IsList(f, p, ChildList(f, p))
<1> DEFINE l == ChildList(f, p)
<1>1. /\ l \in Seq(ChildrenOf(f, p)) /\ ToSet(l) = ChildrenOf(f, p)
      /\ \A i, j \in DOMAIN l : l[i] = l[j] => i = j
      /\ \A i \in DOMAIN l : f[l[i]].prev = IF i = 1 THEN NoNode ELSE l[i - 1]
    BY ChildListIsExact DEF IsForest
<1>2. DOMAIN l = 1..Len(l)
    BY <1>1, LenProperties
<1>3. \A x \in ChildrenOf(f, p) : \E i \in DOMAIN l : l[i] = x
    BY <1>1 DEF ToSet
<1> HIDE DEF l
<1>4. IsList(f, p, l)
    BY <1>1, <1>2, <1>3 DEF IsList
<1> QED
    BY <1>4 DEF l

LEMMA ListLength ==
    ASSUME NEW f, NEW p, NEW s, IsList(f, p, s)
    PROVE  Cardinality(ChildrenOf(f, p)) = Len(s)
<1> DEFINE C == ChildrenOf(f, p)
           n == Len(s)
<1>1. n \in Nat /\ s \in [1..n -> C] /\ \A x \in C : \E i \in 1..n : s[i] = x
    BY ListFields DEF IsList
<1>2. s \in Injection(1..n, C) /\ s \in Surjection(1..n, C)
    BY <1>1 DEF IsList, Injection, IsInjective, Surjection
<1>3. ExistsBijection(1..n, C)
    BY <1>2 DEF Bijection, ExistsBijection
<1>6. n \in Nat
    BY <1>1
<1> HIDE DEF C, n
<1>4. IsFiniteSet(1..n) /\ Cardinality(1..n) = n
    BY <1>6, FS_Interval
<1>5. Cardinality(C) = n
    BY <1>3, <1>4, FS_Bijection
<1> QED
    BY <1>5 DEF C, n

\* Links that answer each other do not fork, so a node has one list.
LEMMA OneList ==
    ASSUME NEW f, IsForest(f), NEW p \in DOMAIN f, NEW s, IsList(f, p, s)
    PROVE  ChildList(f, p) = s
<1> DEFINE l == ChildList(f, p)
           n == Len(s)
<1>1. IsList(f, p, l)
    BY ChildListIsList
<1> HIDE DEF l
<1>2. Len(l) = n
    BY <1>1, ListLength
<1>3. /\ n \in Nat /\ DOMAIN s = 1..n /\ s \in [1..n -> ChildrenOf(f, p)]
      /\ DOMAIN l = 1..n /\ l \in [1..n -> ChildrenOf(f, p)]
    BY <1>1, <1>2, ListFields
<1>4. \A i \in 1..n : /\ f[s[i]].prev = IF i = 1 THEN NoNode ELSE s[i - 1]
                      /\ f[l[i]].prev = IF i = 1 THEN NoNode ELSE l[i - 1]
    BY <1>1, <1>2 DEF IsList
<1> HIDE DEF n
<1>5. ASSUME NEW x \in ChildrenOf(f, p), NEW y \in ChildrenOf(f, p), f[x].prev = f[y].prev
      PROVE  x = y
    <2>1. /\ x \in DOMAIN f /\ f[x].parent = p /\ y \in DOMAIN f /\ f[y].parent = p
          /\ p # NoNode
        BY DEF ChildrenOf, IsForest, Typed, NoNode
    <2> QED
        BY <1>5, <2>1 DEF IsForest, Whole, UpLinks, LeftLinks
<1>6. ASSUME NEW i \in 1..n, l[i] # s[i]
      PROVE  FALSE
    <2> DEFINE Bad == {k \in 1..n : l[k] # s[k]}
    <2>1. Bad \in SUBSET Nat /\ Bad # {}
        BY <1>3, <1>6
    <2>2. PICK k \in Bad : \A m \in Bad : k <= m
        BY <2>1, LeastNat
    <2>3. k \in 1..n /\ l[k] # s[k] /\ \A m \in 1..n : m < k => l[m] = s[m]
        BY <2>2
    <2>4. k # 1 => k - 1 \in 1..n /\ k - 1 < k
        BY <1>3, <2>3
    <2>5. f[l[k]].prev = f[s[k]].prev
        BY <1>4, <2>3, <2>4
    <2>6. l[k] \in ChildrenOf(f, p) /\ s[k] \in ChildrenOf(f, p)
        BY <1>3, <2>3
    <2> QED
        BY <1>5, <2>3, <2>5, <2>6
<1>7. l = s
    BY <1>3, <1>6
<1> QED
    BY <1>7 DEF l

\* A node that is taken out leaves the list it was in, if it was in one.
LEMMA LooseLists ==
    ASSUME NEW f, IsForest(f), NEW id \in DOMAIN f, NEW q \in DOMAIN f
    PROVE  ChildList(Loose(f, id), q) = RemoveFirst(ChildList(f, q), id)
<1> DEFINE g == Loose(f, id)
           s == ChildList(f, q)
<1>1. Typed(f) /\ Whole(f) /\ NoNode \notin DOMAIN f
    BY DEF IsForest, Typed, NoNode
<1>2. IsLoose(f, g, id) /\ Whole(g)
    BY <1>1, LooseFields, LooseIsWhole
<1>3. IsList(f, q, s)
    BY ChildListIsList
<1> HIDE DEF g, s
<1>4. DOMAIN g = DOMAIN f /\ IsForest(g)
    BY <1>2 DEF IsForest, IsLoose
<1>5. ChildrenOf(g, q) = ChildrenOf(f, q) \ {id}
    BY <1>1, <1>2, <1>4 DEF IsLoose, ChildrenOf
<1>6. ASSUME NEW x \in ChildrenOf(f, q) \ {id}
      PROVE  g[x].prev = IF f[x].prev = id THEN f[id].prev ELSE f[x].prev
    <2>1. x \in DOMAIN f /\ x # id
        BY DEF ChildrenOf
    <2>2. g[x].prev = IF x = f[id].next THEN f[id].prev ELSE f[x].prev
        BY <1>2, <2>1 DEF IsLoose
    <2>3. x = f[id].next <=> f[x].prev = id
        BY <1>1, <2>1 DEF Whole, LeftLinks, RightLinks
    <2> QED
        BY <2>2, <2>3
<1>7. IsList(g, q, RemoveFirst(s, id))
    <2>1. CASE f[id].parent = q
        <3>1. id \in ChildrenOf(f, q)
            BY <2>1 DEF ChildrenOf
        <3>2. PICK i \in 1..Len(s) : s[i] = id
            BY <1>3, <3>1 DEF IsList
        <3>3. RemoveFirst(s, id) = RemoveAt(s, i)
            BY <1>3, <3>2, RemoveFirstForm DEF IsList
        <3> QED
            BY <1>1, <1>3, <1>5, <1>6, <3>2, <3>3, ListShrinks
    <2>2. CASE f[id].parent # q
        <3>1. id \notin ChildrenOf(f, q)
            BY <2>2 DEF ChildrenOf
        <3>2. \A j \in 1..Len(s) : s[j] # id
            BY <1>3, <3>1, ListFields
        <3>3. RemoveFirst(s, id) = s
            BY <3>2 DEF RemoveFirst
        <3>4. \A x \in ChildrenOf(f, q) : f[x].prev # id
            BY <1>1, <2>2 DEF Whole, LeftLinks, ChildrenOf
        <3>5. /\ ChildrenOf(g, q) = ChildrenOf(f, q)
              /\ \A x \in ChildrenOf(f, q) : g[x].prev = f[x].prev
            BY <1>5, <1>6, <3>1, <3>4
        <3> QED
            BY <1>3, <3>3, <3>5, ListKept
    <2> QED
        BY <2>1, <2>2
<1>8. ChildList(g, q) = RemoveFirst(s, id)
    BY <1>4, <1>7, OneList
<1> QED
    BY <1>8 DEF g, s

\* The lists of h are those of f, and id is the i-th in that of p.
ListsWith(f, h, p, i, id) ==
    \A q \in DOMAIN f :
        ChildList(h, q) = IF q = p THEN InsertAt(ChildList(f, p), i, id) ELSE ChildList(f, q)

\* A node that is linked comes into the list of its parent.
LEMMA LinkedLists ==
    ASSUME NEW f, IsForest(f), NEW id, Isolated(f, id),
           NEW p, NEW l \in Nat, NEW r \in Nat, Neighbours(f, p, l, r)
    PROVE  \E i \in 1..Len(ChildList(f, p)) + 1 : ListsWith(f, Linked(f, id, p, l, r), p, i, id)
<1> DEFINE h == Linked(f, id, p, l, r)
           s == ChildList(f, p)
<1>1. /\ Typed(f) /\ Whole(f) /\ NoNode \notin DOMAIN f /\ p \in DOMAIN f /\ p # NoNode
      /\ id \in DOMAIN f /\ f[id].parent = NoNode
    BY DEF IsForest, Typed, NoNode, Isolated, Neighbours
<1>2. IsLinked(f, h, id, p, l, r) /\ Whole(h)
    BY <1>1, LinkedFields, LinkedIsWhole
<1>3. IsList(f, p, s)
    BY <1>1, ChildListIsList
<1> HIDE DEF h, s
<1>4. DOMAIN h = DOMAIN f /\ IsForest(h)
    BY <1>2 DEF IsForest, IsLinked
<1>5. /\ l \in ChildrenOf(f, p) \cup {NoNode} /\ r \in ChildrenOf(f, p) \cup {NoNode}
      /\ id \notin ChildrenOf(f, p)
    BY <1>1 DEF Neighbours, ChildrenOf
<1>6. PICK i \in 1..Len(s) + 1 : l = LeftOf(s, i)
    BY <1>3, <1>5, PlaceBehind
<1>7. ChildrenOf(h, p) = ChildrenOf(f, p) \cup {id} /\ h[id].prev = l
    BY <1>1, <1>2, <1>4 DEF IsLinked, ChildrenOf
<1>8. ASSUME NEW x \in ChildrenOf(f, p)
      PROVE  h[x].prev = IF f[x].prev = l THEN id ELSE f[x].prev
    <2>1. x \in DOMAIN f /\ f[x].parent = p /\ x # id /\ x # NoNode
        BY <1>1 DEF ChildrenOf
    <2>2. h[x].prev = IF x = r THEN id ELSE f[x].prev
        BY <1>2, <2>1 DEF IsLinked
    <2>3. x = r => f[x].prev = l
        BY <2>1 DEF Neighbours
    <2>4. f[x].prev = l => x = r
        BY <1>1, <2>1 DEF Neighbours, Whole, LeftLinks, UpLinks
    <2> QED
        BY <2>2, <2>3, <2>4
<1>9. ChildList(h, p) = InsertAt(s, i, id)
    <2>1. IsList(h, p, InsertAt(s, i, id))
        BY <1>1, <1>3, <1>5, <1>6, <1>7, <1>8, ListGrows
    <2> QED
        BY <1>1, <1>4, <2>1, OneList
<1>10. ASSUME NEW q \in DOMAIN f, q # p
       PROVE  ChildList(h, q) = ChildList(f, q)
    <2>1. ChildrenOf(h, q) = ChildrenOf(f, q)
        BY <1>1, <1>2, <1>4, <1>10 DEF IsLinked, ChildrenOf
    <2>2. ASSUME NEW x \in ChildrenOf(f, q)
          PROVE  h[x].prev = f[x].prev
        <3>1. x \in DOMAIN f /\ f[x].parent = q /\ x # id /\ x # r
            BY <1>1, <1>5, <1>10 DEF ChildrenOf
        <3> QED
            BY <1>2, <3>1 DEF IsLinked
    <2>3. IsList(f, q, ChildList(f, q))
        BY ChildListIsList
    <2>4. IsList(h, q, ChildList(f, q))
        BY <2>1, <2>2, <2>3, ListKept
    <2> QED
        BY <1>4, <2>4, OneList
<1>11. ListsWith(f, h, p, i, id)
    BY <1>9, <1>10 DEF ListsWith, s
<1> QED
    BY <1>6, <1>11 DEF h, s

\* A new node has no children, and nobody's child yet.
LEMMA WithNodeLists ==
    ASSUME NEW f, IsForest(f), NEW id \in Nat \ DOMAIN f, id # NoNode,
           NEW u \in Uuid, NEW c \in Content
    PROVE  LET g == WithNode(f, id, u, c)
           IN  /\ IsForest(g) /\ ChildList(g, id) = <<>>
               /\ \A q \in DOMAIN f : ChildList(g, q) = ChildList(f, q)
<1> DEFINE g == WithNode(f, id, u, c)
<1>1. Typed(f) /\ Whole(f) /\ IsFiniteSet(DOMAIN f) /\ NoNode \notin DOMAIN f
    BY DEF IsForest, Typed, NoNode
<1>2. /\ DOMAIN g = DOMAIN f \cup {id}
      /\ Typed(g) /\ Whole(g) /\ Isolated(g, id)
      /\ \A n \in DOMAIN f : g[n] = f[n]
    BY <1>1, WithNodeIsWhole
<1> HIDE DEF g
<1>3. IsForest(g)
    <2>1. IsFiniteSet(DOMAIN f \cup {id})
        BY <1>1, FS_AddElement
    <2> QED
        BY <1>2, <2>1 DEF IsForest
<1>4. g[id].parent = NoNode /\ id \in DOMAIN g
    BY <1>2 DEF Isolated
<1>5. ChildList(g, id) = <<>>
    <2>1. \A n \in DOMAIN g : g[n].parent # id
        BY <1>1, <1>2, <1>4 DEF Whole, UpLinks
    <2>2. ChildrenOf(g, id) = {}
        BY <2>1 DEF ChildrenOf
    <2>3. IsList(g, id, <<>>)
        BY <2>2 DEF IsList
    <2> QED
        BY <1>3, <1>4, <2>3, OneList
<1>6. ASSUME NEW q \in DOMAIN f
      PROVE  ChildList(g, q) = ChildList(f, q)
    <2>1. ChildrenOf(g, q) = ChildrenOf(f, q)
        BY <1>1, <1>2, <1>4 DEF ChildrenOf
    <2>2. \A x \in ChildrenOf(f, q) : g[x].prev = f[x].prev
        BY <1>2 DEF ChildrenOf
    <2>3. IsList(f, q, ChildList(f, q))
        BY ChildListIsList
    <2>4. IsList(g, q, ChildList(f, q))
        BY <2>1, <2>2, <2>3, ListKept
    <2> QED
        BY <1>2, <1>3, <2>4, OneList
<1> QED
    BY <1>3, <1>5, <1>6 DEF g

\* What the links of two arenas share, their lists share.
LEMMA SameLists ==
    ASSUME NEW f, IsForest(f), NEW h, IsForest(h), DOMAIN h \subseteq DOMAIN f,
           NEW q \in DOMAIN h,
           \A x \in DOMAIN h : h[x].parent = f[x].parent /\ h[x].prev = f[x].prev,
           \A x \in DOMAIN f \ DOMAIN h : f[x].parent # q
    PROVE  ChildList(h, q) = ChildList(f, q)
<1>1. ChildrenOf(h, q) = ChildrenOf(f, q)
    BY DEF ChildrenOf
<1>2. \A x \in ChildrenOf(f, q) : h[x].prev = f[x].prev
    BY <1>1 DEF ChildrenOf
<1>3. IsList(f, q, ChildList(f, q))
    BY ChildListIsList
<1>4. IsList(h, q, ChildList(f, q))
    BY <1>1, <1>2, <1>3, ListKept
<1> QED
    BY <1>4, OneList

-----------------------------------------------------------------------------
(* The lists by uuid *)

\* The uuids of the nodes in s.
Names(f, s) == [i \in DOMAIN s |-> f[s[i]].uuid]

NamesOf(w, f, s) ==
    /\ w \in Seq(Uuid) /\ Len(w) = Len(s) /\ Len(s) \in Nat
    /\ DOMAIN w = 1..Len(s) /\ w = [i \in 1..Len(s) |-> w[i]]
    /\ \A i \in 1..Len(s) : s[i] \in DOMAIN f /\ w[i] = f[s[i]].uuid

LEMMA NamesFields ==
    ASSUME NEW f, Typed(f), NEW s \in Seq(DOMAIN f)
    PROVE  NamesOf(Names(f, s), f, s)
<1> DEFINE w == Names(f, s)
<1>1. Len(s) \in Nat /\ DOMAIN s = 1..Len(s) /\ \A i \in 1..Len(s) : s[i] \in DOMAIN f
    BY LenProperties
<1>2. w = [i \in 1..Len(s) |-> f[s[i]].uuid]
    BY <1>1 DEF Names
<1>3. \A x \in DOMAIN f : f[x].uuid \in Uuid
    BY DEF Typed, Node
<1>4. w \in Seq(Uuid)
    <2>1. \A i \in 1..Len(s) : f[s[i]].uuid \in Uuid
        BY <1>1, <1>3
    <2> QED
        BY <1>1, <1>2, <2>1, IsASeq
<1> HIDE DEF w
<1>5. DOMAIN w = 1..Len(s) /\ \A i \in 1..Len(s) : w[i] = f[s[i]].uuid
    BY <1>2
<1>6. Len(w) = Len(s)
    <2>1. DOMAIN w = 1..Len(w) /\ Len(w) \in Nat
        BY <1>4, LenProperties
    <2> QED
        BY <1>1, <1>5, <2>1
<1>7. w = [i \in 1..Len(s) |-> w[i]]
    BY <1>2, <1>5
<1>8. NamesOf(w, f, s)
    BY <1>1, <1>4, <1>5, <1>6, <1>7 DEF NamesOf
<1> QED
    BY <1>8 DEF w

LEMMA NamesInserted ==
    ASSUME NEW f, Typed(f), NEW s \in Seq(DOMAIN f), NEW i \in 1..Len(s) + 1, NEW n \in DOMAIN f
    PROVE  Names(f, InsertAt(s, i, n)) = InsertAt(Names(f, s), i, f[n].uuid)
<1> DEFINE D == DOMAIN f
           u == f[n].uuid
           w == Names(f, s)
           a == InsertAt(s, i, n)
           b == Names(f, a)
           c == InsertAt(w, i, u)
<1>1. NamesOf(w, f, s)
    BY NamesFields
<1>2. IsInserted(a, D, s, i, n)
    BY InsertAtForm
<1>3. u \in Uuid
    BY DEF Typed, Node
<1> HIDE DEF w, a, u
<1>4. IsInserted(c, Uuid, w, i, u)
    <2>1. w \in Seq(Uuid) /\ i \in 1..Len(w) + 1
        BY <1>1 DEF NamesOf
    <2> QED
        BY <1>3, <2>1, InsertAtForm
<1>5. NamesOf(b, f, a)
    <2>1. a \in Seq(DOMAIN f)
        BY <1>2 DEF IsInserted
    <2> QED
        BY <2>1, NamesFields
<1> HIDE DEF b, c
<1>0. Len(s) \in Nat /\ i \in Nat /\ i >= 1 /\ i <= Len(s) + 1
    <2>1. Len(s) \in Nat
        BY <1>1 DEF NamesOf
    <2> QED
        BY <2>1
<1>6. Len(b) = Len(s) + 1 /\ DOMAIN b = 1..Len(s) + 1 /\ b = [j \in 1..Len(s) + 1 |-> b[j]]
    BY <1>2, <1>5 DEF NamesOf, IsInserted
<1>7. Len(c) = Len(s) + 1 /\ DOMAIN c = 1..Len(s) + 1 /\ c = [j \in 1..Len(s) + 1 |-> c[j]]
    <2>1. c \in Seq(Uuid) /\ Len(c) = Len(s) + 1
        BY <1>1, <1>4 DEF NamesOf, IsInserted
    <2>2. c \in [1..Len(s) + 1 -> Uuid]
        BY <2>1, LenProperties
    <2> QED
        BY <2>1, <2>2
<1>8. ASSUME NEW j \in 1..Len(s) + 1
      PROVE  b[j] = c[j]
    <2>1. b[j] = f[a[j]].uuid
        BY <1>2, <1>5 DEF NamesOf, IsInserted
    <2>2. a[j] = IF j < i THEN s[j] ELSE IF j = i THEN n ELSE s[j - 1]
        BY <1>2 DEF IsInserted
    <2>3. c[j] = IF j < i THEN w[j] ELSE IF j = i THEN u ELSE w[j - 1]
        BY <1>1, <1>4 DEF NamesOf, IsInserted
    <2>4. \A k \in 1..Len(s) : w[k] = f[s[k]].uuid
        BY <1>1 DEF NamesOf
    <2>5. j < i => j \in 1..Len(s)
        BY <1>0
    <2>6. ~(j < i) /\ j # i => j - 1 \in 1..Len(s)
        BY <1>0
    <2> QED
        BY <2>1, <2>2, <2>3, <2>4, <2>5, <2>6 DEF u
<1>9. b = c
    BY <1>6, <1>7, <1>8
<1> QED
    BY <1>9 DEF a, b, c, w, u

LEMMA NamesRemoved ==
    ASSUME NEW f, Typed(f), \A x, y \in DOMAIN f : f[x].uuid = f[y].uuid => x = y,
           NEW s \in Seq(DOMAIN f), \A j, k \in 1..Len(s) : s[j] = s[k] => j = k,
           NEW n \in DOMAIN f
    PROVE  Names(f, RemoveFirst(s, n)) = RemoveFirst(Names(f, s), f[n].uuid)
<1> DEFINE D == DOMAIN f
           u == f[n].uuid
           w == Names(f, s)
<1>1. NamesOf(w, f, s)
    BY NamesFields
<1>2. \A j \in 1..Len(s) : w[j] = u <=> s[j] = n
    BY <1>1 DEF NamesOf
<1> HIDE DEF w, u
<1>3. CASE \A j \in 1..Len(s) : s[j] # n
    <2>1. RemoveFirst(s, n) = s
        BY <1>3 DEF RemoveFirst
    <2>2. \A j \in 1..Len(w) : w[j] # u
        BY <1>1, <1>2, <1>3 DEF NamesOf
    <2>3. RemoveFirst(w, u) = w
        BY <2>2 DEF RemoveFirst
    <2> QED
        BY <2>1, <2>3 DEF w, u
<1>4. CASE \E j \in 1..Len(s) : s[j] = n
    <2>1. PICK i \in 1..Len(s) : s[i] = n
        BY <1>4
    <2> DEFINE a == RemoveAt(s, i)
               b == Names(f, a)
               c == RemoveAt(w, i)
    <2>2. RemoveFirst(s, n) = a
        BY <2>1, RemoveFirstForm
    <2>3. RemoveFirst(w, u) = c
        <3>1. w \in Seq(Uuid) /\ i \in 1..Len(w) /\ w[i] = u
            BY <1>1, <1>2, <2>1 DEF NamesOf
        <3>2. \A j \in 1..Len(w) : w[j] = w[i] => j = i
            BY <1>1, <1>2, <2>1, <3>1 DEF NamesOf
        <3> HIDE DEF c
        <3>3. RemoveFirst(w, w[i]) = RemoveAt(w, i)
            BY <3>1, <3>2, RemoveFirstForm
        <3> QED
            BY <3>1, <3>3 DEF c
    <2>4. /\ a \in Seq(D) /\ Len(a) = Len(s) - 1
          /\ \A j \in 1..Len(s) - 1 : a[j] = IF j < i THEN s[j] ELSE s[j + 1]
        BY RemoveAtForm
    <2>5. /\ c \in Seq(Uuid) /\ Len(c) = Len(s) - 1
          /\ \A j \in 1..Len(s) - 1 : c[j] = IF j < i THEN w[j] ELSE w[j + 1]
        <3>1. w \in Seq(Uuid) /\ i \in 1..Len(w) /\ Len(w) = Len(s)
            BY <1>1 DEF NamesOf
        <3>2. /\ RemoveAt(w, i) \in Seq(Uuid)
              /\ Len(RemoveAt(w, i)) = Len(w) - 1
              /\ \A j \in 1..Len(w) - 1 : RemoveAt(w, i)[j] = IF j < i THEN w[j] ELSE w[j + 1]
            BY <3>1, RemoveAtForm
        <3> QED
            BY <3>1, <3>2
    <2> HIDE DEF a, c
    <2>6. NamesOf(b, f, a)
        BY <2>4, NamesFields
    <2> HIDE DEF b
    <2>7. DOMAIN b = 1..Len(s) - 1 /\ b = [j \in 1..Len(s) - 1 |-> b[j]]
        BY <2>4, <2>6 DEF NamesOf
    <2>8. DOMAIN c = 1..Len(s) - 1 /\ c = [j \in 1..Len(s) - 1 |-> c[j]]
        <3>1. c \in [1..Len(s) - 1 -> Uuid]
            BY <2>5, LenProperties
        <3> QED
            BY <3>1
    <2>9. ASSUME NEW j \in 1..Len(s) - 1
          PROVE  b[j] = c[j]
        <3>1. b[j] = f[a[j]].uuid
            BY <2>4, <2>6 DEF NamesOf
        <3>2. a[j] = IF j < i THEN s[j] ELSE s[j + 1]
            BY <2>4
        <3>3. c[j] = IF j < i THEN w[j] ELSE w[j + 1]
            BY <2>5
        <3>4. \A k \in 1..Len(s) : w[k] = f[s[k]].uuid
            BY <1>1 DEF NamesOf
        <3>5. Len(s) \in Nat
            BY <1>1 DEF NamesOf
        <3>6. j \in 1..Len(s) /\ j + 1 \in 1..Len(s)
            BY <3>5
        <3> QED
            BY <3>1, <3>2, <3>3, <3>4, <3>6
    <2>10. b = c
        BY <2>7, <2>8, <2>9
    <2> QED
        BY <2>2, <2>3, <2>10 DEF b, w, u
<1> QED
    BY <1>3, <1>4

-----------------------------------------------------------------------------

\* The lists that an arena with nodes f and index ix shows.
KidsIn(f, ix) == [u \in DOMAIN ix |-> Names(f, ChildList(f, ix[u]))]

\* The index ix names every node of f by its uuid, and no other.
Exact(f, ix) ==
    /\ DOMAIN ix = {f[n].uuid : n \in DOMAIN f}
    /\ \A n \in DOMAIN f : ix[f[n].uuid] = n

LEMMA KidsOfIsKidsIn ==
    /\ KidsOf = KidsIn(nodes, by_uuid)
    /\ KidsOf' = KidsIn(nodes', by_uuid')
BY DEF KidsOf, KidsIn, Names

LEMMA KidsAre ==
    ASSUME NEW f, NEW ix, Exact(f, ix)
    PROVE  /\ DOMAIN KidsIn(f, ix) = {f[n].uuid : n \in DOMAIN f}
           /\ \A n \in DOMAIN f : KidsIn(f, ix)[f[n].uuid] = Names(f, ChildList(f, n))
           /\ \A m, n \in DOMAIN f : f[m].uuid = f[n].uuid => m = n
BY DEF Exact, KidsIn

LEMMA ListIsSeq ==
    ASSUME NEW f, IsForest(f), NEW n \in DOMAIN f
    PROVE  /\ ChildList(f, n) \in Seq(DOMAIN f) /\ Len(ChildList(f, n)) \in Nat
           /\ \A j, k \in 1..Len(ChildList(f, n)) : ChildList(f, n)[j] = ChildList(f, n)[k] => j = k
           /\ Len(Names(f, ChildList(f, n))) = Len(ChildList(f, n))
           /\ ToSet(Names(f, ChildList(f, n))) = {f[x].uuid : x \in ChildrenOf(f, n)}
<1> DEFINE s == ChildList(f, n)
           C == ChildrenOf(f, n)
<1>1. IsList(f, n, s)
    BY ChildListIsList
<1> HIDE DEF s
<1>2. Len(s) \in Nat /\ s \in Seq(C) /\ \A x \in C : \E i \in 1..Len(s) : s[i] = x
    BY <1>1, ListFields DEF IsList
<1>3. s \in Seq(DOMAIN f)
    <2>1. C \subseteq DOMAIN f
        BY DEF ChildrenOf
    <2> HIDE DEF C
    <2> QED
        BY <1>2, <2>1, SeqMonotonic
<1>4. NamesOf(Names(f, s), f, s)
    BY <1>3, NamesFields DEF IsForest
<1>5. \A i \in 1..Len(s) : s[i] \in C
    BY <1>1, ListFields
<1>6. ToSet(Names(f, s)) = {f[x].uuid : x \in C}
    <2> DEFINE w == Names(f, s)
    <2>1. DOMAIN w = 1..Len(s) /\ \A i \in 1..Len(s) : w[i] = f[s[i]].uuid
        BY <1>4 DEF NamesOf
    <2> HIDE DEF w, C
    <2>2. ToSet(w) = {w[i] : i \in 1..Len(s)}
        BY <2>1 DEF ToSet
    <2> QED
        BY <1>2, <1>5, <2>1, <2>2 DEF w
<1>7. \A j, k \in 1..Len(s) : s[j] = s[k] => j = k
    BY <1>1 DEF IsList
<1>8. Len(Names(f, s)) = Len(s)
    BY <1>4 DEF NamesOf
<1> QED
    BY <1>2, <1>3, <1>6, <1>7, <1>8 DEF s

-----------------------------------------------------------------------------
(* The edits of OrderedTree, by what they make of the lists *)

\* OrderedTree's own copies of the operators on sequences.
LEMMA AbstractToSetIs ==
    ASSUME NEW s
    PROVE  Abstract!ToSet(s) = ToSet(s)
BY DEF Abstract!ToSet, ToSet

LEMMA AbstractInsertAtIs ==
    ASSUME NEW s, NEW i, NEW e
    PROVE  Abstract!InsertAt(s, i, e) = InsertAt(s, i, e)
BY DEF Abstract!InsertAt, InsertAt

LEMMA AbstractRemoveFirstIs ==
    ASSUME NEW s, NEW e
    PROVE  Abstract!RemoveFirst(s, e) = RemoveFirst(s, e)
BY DEF Abstract!RemoveFirst, RemoveFirst, Abstract!RemoveAt, RemoveAt,
       Abstract!SelectInSeq, SelectInSeq, Abstract!Min, Min

\* What Below takes the least of: u, and with an element its children.
KidsClosed(S, u) ==
    /\ S \in SUBSET DOMAIN KidsOf
    /\ u \in S
    /\ \A v \in S : ToSet(KidsOf[v]) \subseteq S

LEMMA BelowIsLeast ==
    ASSUME NEW u
    PROVE  Abstract!Below(u) = {x \in DOMAIN KidsOf : \A S : KidsClosed(S, u) => x \in S}
BY AbstractToSetIs DEF Abstract!Below, KidsClosed

\* An element that stands in a list is not the root.
LEMMA NotTheRoot ==
    ASSUME NEW u, NEW v \in DOMAIN KidsOf, u \in ToSet(KidsOf[v])
    PROVE  ~ Abstract!IsRoot(u)
BY AbstractToSetIs DEF Abstract!IsRoot

\* The edits of OrderedTree, by what they make of the lists.
LEMMA IsAdd ==
    ASSUME NEW u \in Uuid, u \notin DOMAIN KidsOf, NEW p \in DOMAIN KidsOf,
           NEW i \in 1..(Len(KidsOf[p]) + 1),
           DOMAIN KidsOf' = DOMAIN KidsOf \cup {u}, KidsOf'[u] = <<>>,
           KidsOf'[p] = InsertAt(KidsOf[p], i, u),
           \A v \in DOMAIN KidsOf \ {p} : KidsOf'[v] = KidsOf[v]
    PROVE  Abstract!TreeNext
<1> DEFINE k == KidsOf
           new == [v \in DOMAIN k \cup {u} |->
                      IF v = u THEN <<>> ELSE IF v = p THEN InsertAt(k[p], i, u) ELSE k[v]]
<1>1. KidsOf' = [v \in DOMAIN KidsOf' |-> KidsOf'[v]]
    BY DEF KidsOf
<1> HIDE DEF k
<1>2. KidsOf' = new
    BY <1>1 DEF k
<1>3. Abstract!AddElement(u, p, i)
    BY <1>2, AbstractInsertAtIs DEF Abstract!AddElement, k
<1>4. i \in Abstract!Places(p)
    BY DEF Abstract!Places
<1>5. u \in (DOMAIN KidsOf' \ DOMAIN KidsOf) \cap Uuid
    OBVIOUS
<1> QED
    BY <1>3, <1>4, <1>5 DEF Abstract!TreeNext

LEMMA IsDrop ==
    ASSUME NEW u \in DOMAIN KidsOf, ~ Abstract!IsRoot(u),
           u \in Abstract!Below(u),
           DOMAIN KidsOf' = DOMAIN KidsOf \ Abstract!Below(u),
           \A v \in DOMAIN KidsOf' : KidsOf'[v] = RemoveFirst(KidsOf[v], u)
    PROVE  Abstract!TreeNext
<1> DEFINE B == Abstract!Below(u)
<1>1. KidsOf' = [v \in DOMAIN KidsOf' |-> KidsOf'[v]]
    BY DEF KidsOf
<1>2. \A v \in DOMAIN KidsOf : Abstract!Without(u)[v] = RemoveFirst(KidsOf[v], u)
    BY AbstractRemoveFirstIs DEF Abstract!Without
<1> HIDE DEF B
<1>3. KidsOf' = [v \in DOMAIN KidsOf \ B |-> Abstract!Without(u)[v]]
    BY <1>1, <1>2 DEF B
<1>4. Abstract!DropElement(u)
    BY <1>3 DEF Abstract!DropElement, B
<1>5. u \in DOMAIN KidsOf \ DOMAIN KidsOf'
    OBVIOUS
<1> QED
    BY <1>4, <1>5 DEF Abstract!TreeNext

LEMMA IsMove ==
    ASSUME NEW u \in DOMAIN KidsOf, ~ Abstract!IsRoot(u),
           NEW p \in DOMAIN KidsOf, p \notin Abstract!Below(u),
           NEW i \in 1..(Len(RemoveFirst(KidsOf[p], u)) + 1),
           i \in 1..(Len(KidsOf[p]) + 1),
           DOMAIN KidsOf' = DOMAIN KidsOf,
           KidsOf'[p] = InsertAt(RemoveFirst(KidsOf[p], u), i, u),
           \A v \in DOMAIN KidsOf \ {p} : KidsOf'[v] = RemoveFirst(KidsOf[v], u)
    PROVE  Abstract!TreeNext
<1> DEFINE W == Abstract!Without(u)
<1>1. KidsOf' = [v \in DOMAIN KidsOf' |-> KidsOf'[v]]
    BY DEF KidsOf
<1>2. /\ DOMAIN W = DOMAIN KidsOf
      /\ \A v \in DOMAIN KidsOf : W[v] = RemoveFirst(KidsOf[v], u)
      /\ W = [v \in DOMAIN KidsOf |-> W[v]]
    BY AbstractRemoveFirstIs DEF Abstract!Without
<1> HIDE DEF W
<1>3. KidsOf' = [W EXCEPT ![p] = InsertAt(@, i, u)]
    BY <1>1, <1>2
<1>4. i \in 1..(Len(W[p]) + 1)
    BY <1>2
<1>5. Abstract!MoveElement(u, p, i)
    BY <1>3, <1>4, AbstractInsertAtIs DEF Abstract!MoveElement, W
<1>6. i \in Abstract!Places(p)
    BY DEF Abstract!Places
<1> QED
    BY <1>5, <1>6 DEF Abstract!TreeNext

LEMMA NamesKept ==
    ASSUME NEW f, NEW h, NEW s \in Seq(DOMAIN f), \A x \in DOMAIN f : h[x].uuid = f[x].uuid
    PROVE  Names(h, s) = Names(f, s)
<1>1. \A i \in DOMAIN s : s[i] \in DOMAIN f
    BY LenProperties
<1> QED
    BY <1>1 DEF Names

LEMMA TreeInvForest ==
    ASSUME TreeInv
    PROVE  IsForest(nodes) /\ Exact(nodes, by_uuid)
<1>1. IsFiniteSet(DOMAIN nodes)
    <2>1. handed \in Nat /\ DOMAIN nodes \subseteq 1..handed
        BY DEF TreeInv, ArenaTypeOK
    <2>2. IsFiniteSet(1..handed)
        BY <2>1, FS_Interval
    <2> QED
        BY <2>1, <2>2, FS_Subset
<1> QED
    BY <1>1 DEF TreeInv, IsForest, Exact, IndexIsExact

LEMMA TreeInvForestPrime ==
    ASSUME TreeInv'
    PROVE  IsForest(nodes') /\ Exact(nodes', by_uuid')
<1>1. IsFiniteSet(DOMAIN nodes')
    <2>1. handed' \in Nat /\ DOMAIN nodes' \subseteq 1..handed'
        BY DEF TreeInv, ArenaTypeOK
    <2>2. IsFiniteSet(1..handed')
        BY <2>1, FS_Interval
    <2> QED
        BY <2>1, <2>2, FS_Subset
<1> QED
    BY <1>1 DEF TreeInv, IsForest, Exact, IndexIsExact

-----------------------------------------------------------------------------
(* Insertions *)

\* What the lists of uuids are, now and after the step.
KidsNow ==
    /\ DOMAIN KidsOf = {nodes[n].uuid : n \in DOMAIN nodes}
    /\ \A n \in DOMAIN nodes : KidsOf[nodes[n].uuid] = Names(nodes, ChildList(nodes, n))
    /\ \A m, n \in DOMAIN nodes : nodes[m].uuid = nodes[n].uuid => m = n

KidsNext ==
    /\ DOMAIN KidsOf' = {nodes'[n].uuid : n \in DOMAIN nodes'}
    /\ \A n \in DOMAIN nodes' : KidsOf'[nodes'[n].uuid] = Names(nodes', ChildList(nodes', n))

LEMMA KidsNowAre == TreeInv => KidsNow
BY TreeInvForest, KidsOfIsKidsIn, KidsAre DEF KidsNow

LEMMA KidsNextAre == TreeInv' => KidsNext
BY TreeInvForestPrime, KidsOfIsKidsIn, KidsAre DEF KidsNext

\* id comes without children to one place of the list of p, before r; the
\* other lists stay as they are.
ComesIn(f, h, p, r, u, id) ==
    /\ p \in DOMAIN f /\ id \notin DOMAIN f
    /\ DOMAIN h = DOMAIN f \cup {id}
    /\ h[id].uuid = u /\ h[id].next = r
    /\ \A n \in DOMAIN f : h[n].uuid = f[n].uuid
    /\ ChildList(h, id) = <<>>
    /\ \A q \in DOMAIN f \ {p} : ChildList(h, q) = ChildList(f, q)
    /\ \E i \in 1..Len(ChildList(f, p)) + 1 :
          ChildList(h, p) = InsertAt(ChildList(f, p), i, id)

LEMMA InsertLists ==
    ASSUME TreeInv, NEW u \in Uuid, NEW c \in Content,
           NEW p, NEW l \in Nat, NEW r \in Nat, Neighbours(nodes, p, l, r),
           Insert(p, l, r, u, c), NEW id, id = handed + 1
    PROVE  TreeInv' /\ ComesIn(nodes, nodes', p, r, u, id)
<1> DEFINE g == WithNode(nodes, id, u, c)
           h == Linked(g, id, p, l, r)
<1>1. /\ IsForest(nodes) /\ Typed(nodes) /\ Whole(nodes)
      /\ id \in Nat \ DOMAIN nodes /\ id # NoNode
    BY TreeInvForest DEF TreeInv, ArenaTypeOK, NoNode
<1>2. TreeInv'
    BY InsertKeepsTreeInv
<1>3. nodes' = h
    BY DEF Insert
<1>4. /\ DOMAIN g = DOMAIN nodes \cup {id}
      /\ Typed(g) /\ Whole(g) /\ Isolated(g, id)
      /\ \A n \in DOMAIN nodes : g[n] = nodes[n]
      /\ g[id].uuid = u
    BY <1>1, WithNodeIsWhole
<1>5. /\ IsForest(g) /\ ChildList(g, id) = <<>>
      /\ \A q \in DOMAIN nodes : ChildList(g, q) = ChildList(nodes, q)
    BY <1>1, WithNodeLists
<1> HIDE DEF g
<1>6. Neighbours(g, p, l, r) /\ p \in DOMAIN nodes /\ p # id
    BY <1>1, <1>4 DEF Neighbours
<1>7. PICK i \in 1..Len(ChildList(g, p)) + 1 : ListsWith(g, h, p, i, id)
    BY <1>4, <1>5, <1>6, LinkedLists
<1>8. DOMAIN h = DOMAIN g /\ h[id].next = r /\ \A n \in DOMAIN g : h[n].uuid = g[n].uuid
    <2>1. Typed(g) /\ p \in DOMAIN g /\ id \in DOMAIN g
        BY <1>4, <1>6
    <2>2. IsLinked(g, h, id, p, l, r)
        BY <2>1, LinkedFields
    <2> QED
        BY <2>1, <2>2 DEF IsLinked
<1> HIDE DEF h
<1>9. /\ ChildList(h, id) = <<>>
      /\ ChildList(h, p) = InsertAt(ChildList(nodes, p), i, id)
      /\ \A q \in DOMAIN nodes \ {p} : ChildList(h, q) = ChildList(nodes, q)
    BY <1>4, <1>5, <1>6, <1>7 DEF ListsWith
<1>10. i \in 1..Len(ChildList(nodes, p)) + 1
    BY <1>5, <1>6
<1>11. ComesIn(nodes, h, p, r, u, id)
    BY <1>1, <1>4, <1>6, <1>8, <1>9, <1>10 DEF ComesIn
<1> QED
    BY <1>2, <1>3, <1>11

\* An insertion is an element more.
LEMMA InsertAdds ==
    ASSUME TreeInv, NEW u \in Uuid, NEW c \in Content,
           NEW p, NEW l \in Nat, NEW r \in Nat, Neighbours(nodes, p, l, r),
           Insert(p, l, r, u, c)
    PROVE  Abstract!TreeNext
<1> DEFINE id == handed + 1
<1>1. IsForest(nodes) /\ KidsNow /\ u \notin DOMAIN by_uuid
    BY TreeInvForest, KidsNowAre DEF Insert
<1>2. TreeInv' /\ KidsNext /\ IsForest(nodes')
    BY InsertKeepsTreeInv, KidsNextAre, TreeInvForestPrime
<1>3. ComesIn(nodes, nodes', p, r, u, id)
    BY InsertLists
<1>4. /\ p \in DOMAIN nodes /\ p # id /\ ChildList(nodes', id) = <<>>
      /\ \A q \in DOMAIN nodes \ {p} : ChildList(nodes', q) = ChildList(nodes, q)
      /\ \A n \in DOMAIN nodes : nodes'[n].uuid = nodes[n].uuid
      /\ nodes'[id].uuid = u /\ DOMAIN nodes' = DOMAIN nodes \cup {id}
    BY <1>3 DEF ComesIn
<1> HIDE DEF id
<1>5. /\ \A q \in DOMAIN nodes : ChildList(nodes, q) \in Seq(DOMAIN nodes)
      /\ Len(Names(nodes, ChildList(nodes, p))) = Len(ChildList(nodes, p))
    BY <1>1, <1>4, ListIsSeq
<1> PICK i \in 1..Len(ChildList(nodes, p)) + 1 :
          ChildList(nodes', p) = InsertAt(ChildList(nodes, p), i, id)
    BY <1>3 DEF ComesIn
<1> DEFINE v == nodes[p].uuid
<1>6. u \notin DOMAIN KidsOf
    BY <1>1 DEF KidsOf
<1>7. v \in DOMAIN KidsOf /\ i \in 1..(Len(KidsOf[v]) + 1)
    BY <1>1, <1>4, <1>5 DEF KidsNow
<1>8. DOMAIN KidsOf' = DOMAIN KidsOf \cup {u}
    BY <1>1, <1>2, <1>4 DEF KidsNow, KidsNext
<1>9. KidsOf'[u] = <<>>
    <2>1. KidsOf'[u] = Names(nodes', <<>>)
        BY <1>2, <1>4 DEF KidsNext
    <2> QED
        BY <2>1 DEF Names
<1>10. KidsOf'[v] = InsertAt(KidsOf[v], i, u)
    <2>1. KidsOf'[v] = Names(nodes', InsertAt(ChildList(nodes, p), i, id))
        BY <1>2, <1>4 DEF KidsNext
    <2>2. Typed(nodes') /\ id \in DOMAIN nodes'
        BY <1>2, <1>4 DEF IsForest
    <2>3. ChildList(nodes, p) \in Seq(DOMAIN nodes')
        <3>1. DOMAIN nodes \subseteq DOMAIN nodes' /\ ChildList(nodes, p) \in Seq(DOMAIN nodes)
            BY <1>4, <1>5
        <3> QED
            BY <3>1, SeqMonotonic
    <2>4. KidsOf'[v] = InsertAt(Names(nodes', ChildList(nodes, p)), i, u)
        BY <1>4, <2>1, <2>2, <2>3, NamesInserted
    <2>5. Names(nodes', ChildList(nodes, p)) = Names(nodes, ChildList(nodes, p))
        BY <1>4, <1>5, NamesKept
    <2> QED
        BY <1>1, <1>4, <2>4, <2>5 DEF KidsNow
<1>11. ASSUME NEW w \in DOMAIN KidsOf \ {v}
       PROVE  KidsOf'[w] = KidsOf[w]
    <2>1. PICK q \in DOMAIN nodes : w = nodes[q].uuid
        BY <1>1 DEF KidsNow
    <2>2. KidsOf'[w] = Names(nodes', ChildList(nodes', q))
        BY <1>2, <1>4, <2>1 DEF KidsNext
    <2>3. ChildList(nodes', q) = ChildList(nodes, q)
        BY <1>4, <1>11, <2>1
    <2>4. Names(nodes', ChildList(nodes, q)) = Names(nodes, ChildList(nodes, q))
        BY <1>4, <1>5, NamesKept
    <2> QED
        BY <1>1, <2>1, <2>2, <2>3, <2>4 DEF KidsNow
<1> HIDE DEF v
<1> QED
    BY <1>6, <1>7, <1>8, <1>9, <1>10, <1>11, IsAdd

LEMMA InsertionsAdd ==
    ASSUME TreeInv, NEW p \in Key, NEW u \in Uuid, NEW c \in Content,
           AppendChild(p, u, c) \/ InsertBefore(p, u, c) \/ InsertAfter(p, u, c)
    PROVE  Abstract!TreeNext
<1>1. Typed(nodes) /\ Whole(nodes) /\ p \in DOMAIN nodes
    BY DEF TreeInv, AppendChild, InsertBefore, InsertAfter
<1>2. CASE AppendChild(p, u, c)
    <2>1. Neighbours(nodes, p, nodes[p].last, NoNode) /\ nodes[p].last \in Nat /\ NoNode \in Nat
        BY <1>1, EndIsNeighbour DEF NoNode
    <2>2. Insert(p, nodes[p].last, NoNode, u, c)
        BY <1>2 DEF AppendChild
    <2> QED
        BY <2>1, <2>2, InsertAdds
<1>3. CASE InsertBefore(p, u, c) \/ InsertAfter(p, u, c)
    <2>1. nodes[p].parent # NoNode
        BY <1>3 DEF InsertBefore, InsertAfter
    <2>2. /\ Neighbours(nodes, nodes[p].parent, nodes[p].prev, p)
          /\ Neighbours(nodes, nodes[p].parent, p, nodes[p].next)
          /\ nodes[p].prev \in Nat /\ nodes[p].next \in Nat /\ p \in Nat
        BY <1>1, <2>1, SiblingIsNeighbour
    <2>3. \/ Insert(nodes[p].parent, nodes[p].prev, p, u, c)
          \/ Insert(nodes[p].parent, p, nodes[p].next, u, c)
        BY <1>3 DEF InsertBefore, InsertAfter
    <2> QED
        BY <2>2, <2>3, InsertAdds
<1> QED
    BY <1>2, <1>3

\* A node that hangs somewhere stands in the list of its parent.
LEMMA HasParent ==
    ASSUME BelowInv, ~strayed, NEW id \in DOMAIN nodes \ {root}
    PROVE  ~ Abstract!IsRoot(nodes[id].uuid)
<1>1. IsForest(nodes) /\ KidsNow
    BY TreeInvForest, KidsNowAre DEF BelowInv
<1>2. nodes[id].parent \in DOMAIN nodes
    <2>1. Rooted(nodes, root)
        BY DEF BelowInv
    <2>2. {id} \in SUBSET (DOMAIN nodes \ {root}) /\ {id} # {}
        OBVIOUS
    <2> QED
        BY <2>1, <2>2 DEF Rooted
<1> DEFINE p == nodes[id].parent
<1>3. id \in ChildrenOf(nodes, p)
    BY DEF ChildrenOf
<1>4. ToSet(Names(nodes, ChildList(nodes, p))) = {nodes[x].uuid : x \in ChildrenOf(nodes, p)}
    BY <1>1, <1>2, ListIsSeq
<1>5. nodes[p].uuid \in DOMAIN KidsOf /\ nodes[id].uuid \in ToSet(KidsOf[nodes[p].uuid])
    BY <1>1, <1>2, <1>3, <1>4 DEF KidsNow
<1> QED
    BY <1>5, NotTheRoot

\* A node that no walk upward from p meets is not below p.
LEMMA MayMoveIsNotBelow ==
    ASSUME TreeInv, NEW id \in DOMAIN nodes, NEW p \in DOMAIN nodes, id \notin Upward(nodes, p)
    PROVE  nodes[p].uuid \notin Abstract!Below(nodes[id].uuid)
<1>1. IsForest(nodes) /\ KidsNow /\ Typed(nodes) /\ Whole(nodes)
    BY TreeInvForest, KidsNowAre DEF TreeInv
<1> DEFINE U == Upward(nodes, p)
           S == {nodes[x].uuid : x \in DOMAIN nodes \ U}
<1>2. p \in U /\ \A y \in U : nodes[y].parent \in U \cup {NoNode}
    BY <1>1, UpwardIsClosed
<1> HIDE DEF U
<1>3. KidsClosed(S, nodes[id].uuid)
    <2>1. S \in SUBSET DOMAIN KidsOf
        BY <1>1 DEF KidsNow
    <2>2. nodes[id].uuid \in S
        BY DEF U
    <2>3. ASSUME NEW v \in S
          PROVE  ToSet(KidsOf[v]) \subseteq S
        <3>1. PICK x \in DOMAIN nodes \ U : v = nodes[x].uuid
            BY <2>3
        <3>2. ToSet(KidsOf[v]) = {nodes[y].uuid : y \in ChildrenOf(nodes, x)}
            <4>1. KidsOf[v] = Names(nodes, ChildList(nodes, x))
                BY <1>1, <3>1 DEF KidsNow
            <4>2. ToSet(Names(nodes, ChildList(nodes, x))) = {nodes[y].uuid : y \in ChildrenOf(nodes, x)}
                BY <1>1, <3>1, ListIsSeq
            <4> QED
                BY <4>1, <4>2
        <3>3. ChildrenOf(nodes, x) \subseteq DOMAIN nodes \ U
            <4>1. \A y \in ChildrenOf(nodes, x) : y \in DOMAIN nodes /\ nodes[y].parent = x /\ x # NoNode
                BY <1>1, <3>1 DEF ChildrenOf, Typed, NoNode
            <4> QED
                BY <1>2, <3>1, <4>1
        <3> QED
            BY <3>2, <3>3
    <2> QED
        BY <2>1, <2>2, <2>3 DEF KidsClosed
<1>4. nodes[p].uuid \notin S
    BY <1>1, <1>2 DEF KidsNow
<1> HIDE DEF S
<1> QED
    BY <1>3, <1>4, BelowIsLeast

-----------------------------------------------------------------------------
(* Moves and removals *)

\* No list grows when a node is taken out.
LEMMA LooseIsShorter ==
    ASSUME NEW f, IsForest(f), NEW id \in DOMAIN f, NEW p \in DOMAIN f
    PROVE  /\ IsForest(Loose(f, id)) /\ DOMAIN Loose(f, id) = DOMAIN f
           /\ ChildList(Loose(f, id), p) \in Seq(DOMAIN f)
           /\ Len(ChildList(Loose(f, id), p)) \in Nat
           /\ Len(ChildList(Loose(f, id), p)) <= Len(ChildList(f, p))
<1> DEFINE g == Loose(f, id)
<1>1. IsLoose(f, g, id) /\ Whole(g)
    BY LooseFields, LooseIsWhole DEF IsForest
<1> HIDE DEF g
<1>2. DOMAIN g = DOMAIN f /\ IsForest(g)
    BY <1>1 DEF IsForest, IsLoose
<1>3. ChildList(g, p) \in Seq(DOMAIN f) /\ Len(ChildList(g, p)) \in Nat
    BY <1>2, ListIsSeq
<1>4. Len(ChildList(g, p)) <= Len(ChildList(f, p))
    <2>1. ChildrenOf(g, p) \subseteq ChildrenOf(f, p)
        BY <1>1, <1>2 DEF IsLoose, ChildrenOf, IsForest, Typed, NoNode
    <2>2. IsFiniteSet(ChildrenOf(f, p))
        <3>1. ChildrenOf(f, p) \subseteq DOMAIN f
            BY DEF ChildrenOf
        <3> QED
            BY <3>1, FS_Subset DEF IsForest
    <2>3. Cardinality(ChildrenOf(g, p)) <= Cardinality(ChildrenOf(f, p))
        BY <2>1, <2>2, FS_Subset
    <2>4. /\ Cardinality(ChildrenOf(g, p)) = Len(ChildList(g, p))
          /\ Cardinality(ChildrenOf(f, p)) = Len(ChildList(f, p))
        BY <1>2, ChildListIsList, ListLength
    <2> QED
        BY <2>3, <2>4
<1> QED
    BY <1>2, <1>3, <1>4 DEF g

\* What the list of q becomes when id leaves its place, by name.
LEMMA LooseNames ==
    ASSUME TreeInv, NEW id \in DOMAIN nodes, NEW q \in DOMAIN nodes
    PROVE  Names(nodes, ChildList(Loose(nodes, id), q)) =
               RemoveFirst(KidsOf[nodes[q].uuid], nodes[id].uuid)
<1>1. IsForest(nodes) /\ Typed(nodes) /\ KidsNow
    BY TreeInvForest, KidsNowAre DEF TreeInv
<1> DEFINE s == ChildList(nodes, q)
<1>2. ChildList(Loose(nodes, id), q) = RemoveFirst(s, id)
    BY <1>1, LooseLists
<1>3. s \in Seq(DOMAIN nodes) /\ \A j, k \in 1..Len(s) : s[j] = s[k] => j = k
    BY <1>1, ListIsSeq
<1>4. KidsOf[nodes[q].uuid] = Names(nodes, s)
    BY <1>1 DEF KidsNow
<1>5. \A x, y \in DOMAIN nodes : nodes[x].uuid = nodes[y].uuid => x = y
    BY <1>1 DEF KidsNow
<1> HIDE DEF s
<1>6. Names(nodes, RemoveFirst(s, id)) = RemoveFirst(Names(nodes, s), nodes[id].uuid)
    BY <1>1, <1>3, <1>5, NamesRemoved
<1> QED
    BY <1>2, <1>4, <1>6

\* A move is an element in another place.
LEMMA MoveMoves ==
    ASSUME BelowInv, ~strayed, NEW id \in DOMAIN nodes \ {root},
           NEW p \in DOMAIN nodes, id \notin Upward(nodes, p),
           NEW l \in Nat, NEW r \in Nat, Neighbours(Loose(nodes, id), p, l, r),
           MoveTo(id, p, l, r), TreeInv'
    PROVE  Abstract!TreeNext
<1> DEFINE g == Loose(nodes, id)
           h == Linked(g, id, p, l, r)
           u == nodes[id].uuid
           v == nodes[p].uuid
<1>1. /\ TreeInv /\ IsForest(nodes) /\ Typed(nodes) /\ Whole(nodes) /\ KidsNow
      /\ IsForest(nodes') /\ KidsNext
    BY TreeInvForest, TreeInvForestPrime, KidsNowAre, KidsNextAre DEF BelowInv, TreeInv
<1>2. IsLoose(nodes, g, id) /\ Isolated(g, id)
    BY <1>1, LooseFields, LooseIsWhole
<1>3. /\ IsForest(g) /\ DOMAIN g = DOMAIN nodes
      /\ \A q \in DOMAIN nodes : ChildList(g, q) \in Seq(DOMAIN nodes)
      /\ Len(ChildList(g, p)) \in Nat /\ Len(ChildList(g, p)) <= Len(ChildList(nodes, p))
    BY <1>1, LooseIsShorter
<1>4. \A q \in DOMAIN nodes : Names(nodes, ChildList(g, q)) = RemoveFirst(KidsOf[nodes[q].uuid], u)
    BY <1>1, LooseNames
<1>5. nodes' = h
    BY DEF MoveTo
<1> HIDE DEF g
<1>6. PICK i \in 1..Len(ChildList(g, p)) + 1 : ListsWith(g, h, p, i, id)
    <2>1. Neighbours(g, p, l, r)
        BY DEF g
    <2> QED
        BY <1>2, <1>3, <2>1, LinkedLists
<1>7. DOMAIN h = DOMAIN nodes /\ \A n \in DOMAIN nodes : h[n].uuid = nodes[n].uuid
    <2>1. IsLinked(g, h, id, p, l, r)
        BY <1>3, LinkedFields DEF IsForest
    <2> QED
        BY <1>2, <1>3, <2>1 DEF IsLinked, IsLoose
<1> HIDE DEF h
<1>8. DOMAIN KidsOf' = DOMAIN KidsOf
    BY <1>1, <1>5, <1>7 DEF KidsNow, KidsNext
<1>9. \A q \in DOMAIN nodes : KidsOf'[nodes[q].uuid] = Names(nodes', ChildList(nodes', q))
    BY <1>1, <1>5, <1>7 DEF KidsNext
<1>10. \A q \in DOMAIN nodes : Names(nodes', ChildList(g, q)) = Names(nodes, ChildList(g, q))
    BY <1>3, <1>5, <1>7, NamesKept
<1>11. KidsOf'[v] = InsertAt(RemoveFirst(KidsOf[v], u), i, u)
    <2>1. ChildList(nodes', p) = InsertAt(ChildList(g, p), i, id)
        BY <1>3, <1>5, <1>6 DEF ListsWith
    <2>2. /\ Typed(nodes') /\ id \in DOMAIN nodes' /\ nodes'[id].uuid = u
          /\ ChildList(g, p) \in Seq(DOMAIN nodes')
        BY <1>1, <1>3, <1>5, <1>7 DEF IsForest
    <2>3. Names(nodes', InsertAt(ChildList(g, p), i, id)) = InsertAt(Names(nodes', ChildList(g, p)), i, u)
        BY <2>2, NamesInserted
    <2> QED
        BY <1>4, <1>9, <1>10, <2>1, <2>3
<1>12. ASSUME NEW w \in DOMAIN KidsOf \ {v}
       PROVE  KidsOf'[w] = RemoveFirst(KidsOf[w], u)
    <2>1. PICK q \in DOMAIN nodes : w = nodes[q].uuid
        BY <1>1 DEF KidsNow
    <2>2. ChildList(nodes', q) = ChildList(g, q)
        BY <1>3, <1>5, <1>6, <1>12, <2>1 DEF ListsWith
    <2> QED
        BY <1>4, <1>9, <1>10, <2>1, <2>2
<1>13. /\ i \in 1..(Len(RemoveFirst(KidsOf[v], u)) + 1)
       /\ i \in 1..(Len(KidsOf[v]) + 1)
    <2>1. NamesOf(Names(nodes, ChildList(g, p)), nodes, ChildList(g, p))
        BY <1>1, <1>3, NamesFields
    <2>2. Len(RemoveFirst(KidsOf[v], u)) = Len(ChildList(g, p))
        BY <1>4, <2>1 DEF NamesOf
    <2>3. Len(KidsOf[v]) = Len(ChildList(nodes, p)) /\ Len(ChildList(nodes, p)) \in Nat
        <3>1. KidsOf[v] = Names(nodes, ChildList(nodes, p))
            BY <1>1 DEF KidsNow
        <3> QED
            BY <1>1, <3>1, ListIsSeq
    <2> QED
        BY <1>3, <2>2, <2>3
<1>14. u \in DOMAIN KidsOf /\ v \in DOMAIN KidsOf
    BY <1>1 DEF KidsNow
<1>15. ~ Abstract!IsRoot(u)
    BY HasParent
<1>16. v \notin Abstract!Below(u)
    BY <1>1, MayMoveIsNotBelow
<1> HIDE DEF u, v
<1> QED
    BY <1>8, <1>11, <1>12, <1>13, <1>14, <1>15, <1>16, IsMove

\* Each move of a caller that does not stray is one.
LEMMA MovesMove ==
    ASSUME BelowInv, ~strayed', NEW id, NEW p, NEW s,
           \/ MoveAppend(id, p) \/ MovePrepend(id, p)
           \/ MoveBefore(id, p, s) \/ MoveAfter(id, p, s)
    PROVE  Abstract!TreeNext
<1> DEFINE g == Loose(nodes, id)
<1>1. /\ Typed(nodes) /\ Whole(nodes) /\ strayed \in BOOLEAN
      /\ id \in DOMAIN nodes \ {root} /\ p \in DOMAIN nodes /\ id \notin Upward(nodes, p)
    BY DEF BelowInv, TreeInv, ArenaTypeOK, MoveAppend, MovePrepend, MoveBefore, MoveAfter, MayMove
<1>2. /\ DOMAIN g = DOMAIN nodes /\ Typed(g) /\ Whole(g)
      /\ \A n \in DOMAIN nodes : g[n].parent = IF n = id THEN NoNode ELSE nodes[n].parent
    <2>1. IsLoose(nodes, g, id)
        BY <1>1, LooseFields
    <2>2. Whole(g)
        BY <1>1, LooseIsWhole
    <2> QED
        BY <2>1, <2>2 DEF IsLoose
<1>3. ~strayed /\ \E l, r \in Nat : MoveTo(id, p, l, r) /\ Neighbours(g, p, l, r)
    <2>1. CASE MoveAppend(id, p) \/ MovePrepend(id, p)
        <3>1. ~strayed
            BY <2>1 DEF MoveAppend, MovePrepend
        <3>2. MoveTo(id, p, g[p].last, NoNode) \/ MoveTo(id, p, NoNode, g[p].first)
            BY <2>1 DEF MoveAppend, MovePrepend
        <3> HIDE DEF g
        <3>3. /\ Neighbours(g, p, g[p].last, NoNode) /\ Neighbours(g, p, NoNode, g[p].first)
              /\ g[p].last \in Nat /\ g[p].first \in Nat /\ NoNode \in Nat
            BY <1>1, <1>2, EndIsNeighbour DEF NoNode
        <3> QED
            BY <3>1, <3>2, <3>3
    <2>2. CASE MoveBefore(id, p, s) \/ MoveAfter(id, p, s)
        <3>1. ~strayed /\ ~Stray(id, p, s)
            BY <2>2 DEF MoveBefore, MoveAfter
        <3>2. s \in DOMAIN g /\ g[s].parent # NoNode
            BY <2>2 DEF MoveBefore, MoveAfter
        <3>3. g[s].parent = p
            BY <1>2, <3>1, <3>2 DEF Stray, ChildrenOf
        <3>5. MoveTo(id, g[s].parent, g[s].prev, s) \/ MoveTo(id, g[s].parent, s, g[s].next)
            BY <2>2 DEF MoveBefore, MoveAfter
        <3> HIDE DEF g
        <3>4. /\ Neighbours(g, g[s].parent, g[s].prev, s) /\ Neighbours(g, g[s].parent, s, g[s].next)
              /\ g[s].prev \in Nat /\ g[s].next \in Nat /\ s \in Nat
            BY <1>2, <3>2, SiblingIsNeighbour
        <3> QED
            BY <3>1, <3>3, <3>4, <3>5
    <2> QED
        BY <2>1, <2>2
<1>4. PICK l, r \in Nat : MoveTo(id, p, l, r) /\ Neighbours(g, p, l, r)
    BY <1>3
<1>5. TreeInv'
    BY MovesKeepTreeInv DEF BelowInv
<1> QED
    BY <1>1, <1>3, <1>4, <1>5, MoveMoves

\* remove() takes an element with all below it.
LEMMA RemoveDrops ==
    ASSUME BelowInv, ~strayed, NEW id, RemoveNode(id)
    PROVE  Abstract!TreeNext
<1> DEFINE d == Detached(nodes, id)
           g == Loose(nodes, id)
           G == Downward(d, id)
           u == nodes[id].uuid
<1>1. /\ TreeInv /\ IsForest(nodes) /\ Typed(nodes) /\ Whole(nodes) /\ KidsNow
      /\ id \in DOMAIN nodes \ {root}
    BY TreeInvForest, KidsNowAre DEF BelowInv, TreeInv, RemoveNode
<1>2. TreeInv' /\ IsForest(nodes') /\ KidsNext
    BY <1>1, RemoveKeepsTreeInv, TreeInvForestPrime, KidsNextAre
<1>3. IsLoose(nodes, g, id) /\ Isolated(g, id) /\ Whole(g)
    BY <1>1, LooseFields, LooseIsWhole
<1>4. /\ DOMAIN d = DOMAIN nodes /\ G = Downward(g, id)
      /\ \A n \in DOMAIN nodes \ {id} : d[n] = g[n]
    BY <1>1, DetachedIsLoose
<1>5. nodes' = [n \in DOMAIN d \ G |-> d[n]]
    BY DEF RemoveNode
<1>6. /\ IsForest(g) /\ DOMAIN g = DOMAIN nodes
      /\ \A q \in DOMAIN nodes : ChildList(g, q) \in Seq(DOMAIN nodes)
    BY <1>1, LooseIsShorter
<1>7. \A q \in DOMAIN nodes : Names(nodes, ChildList(g, q)) = RemoveFirst(KidsOf[nodes[q].uuid], u)
    BY <1>1, LooseNames
<1> HIDE DEF d, g, G
<1>8. Closed(g, id, G) /\ G \subseteq DOMAIN nodes
    BY <1>3, <1>4, <1>6, DownwardIsClosed, DownwardIsLeast DEF IsForest, Isolated
<1>9. \A n \in DOMAIN nodes \ G : g[n].parent \notin G
    BY <1>3, <1>4, <1>6, DownwardIsCut DEF IsForest
<1>10. id \in G
    BY <1>8 DEF Closed
<1>11. /\ DOMAIN nodes' = DOMAIN nodes \ G
       /\ \A n \in DOMAIN nodes' : nodes'[n] = g[n] /\ nodes'[n].uuid = nodes[n].uuid
    BY <1>3, <1>4, <1>5, <1>10 DEF IsLoose
<1>12. \A n \in DOMAIN nodes \ {id} : g[n].parent = nodes[n].parent
    BY <1>3 DEF IsLoose
<1>13. ASSUME NEW n \in G \ {id}
       PROVE  nodes[n].parent \in G
    <2> DEFINE T == {x \in G : x = id \/ g[x].parent \in G}
    <2>1. Closed(g, id, T)
        <3>1. \A y \in T : g[y].first \in T \cup {NoNode}
            <4> SUFFICES ASSUME NEW y \in T, g[y].first # NoNode
                         PROVE  g[y].first \in T
                OBVIOUS
            <4>1. y \in DOMAIN g /\ y \in G
                BY <1>6, <1>8
            <4>2. g[g[y].first].parent = y
                BY <1>3, <4>1 DEF Whole, DownLinks
            <4>3. g[y].first \in G
                BY <1>8, <4>1 DEF Closed
            <4> QED
                BY <4>1, <4>2, <4>3
        <3>2. \A y \in T \ {id} : g[y].next \in T \cup {NoNode}
            <4> SUFFICES ASSUME NEW y \in T \ {id}, g[y].next # NoNode
                         PROVE  g[y].next \in T
                OBVIOUS
            <4>1. y \in DOMAIN g /\ y \in G /\ g[y].parent \in G
                BY <1>6, <1>8
            <4>0. y # NoNode
                BY <1>6, <4>1 DEF IsForest, Typed, NoNode
            <4>2. g[y].next \in G
                BY <1>8, <4>1 DEF Closed
            <4>3. g[g[y].next].parent = g[y].parent
                BY <1>3, <4>0, <4>1 DEF Whole, RightLinks, LeftLinks
            <4> QED
                BY <4>1, <4>2, <4>3
        <3>3. id \in T
            BY <1>10
        <3> QED
            BY <3>1, <3>2, <3>3 DEF Closed
    <2>2. T \in SUBSET DOMAIN g
        BY <1>6, <1>8
    <2> HIDE DEF T
    <2>3. G \subseteq T
        BY <1>4, <2>1, <2>2, DownwardIsLeast
    <2> QED
        BY <1>8, <1>12, <2>3 DEF T
<1> DEFINE B == {nodes[n].uuid : n \in G}
<1>14. Abstract!Below(u) = B
    <2>1. KidsClosed(B, u)
        <3>1. B \in SUBSET DOMAIN KidsOf
            BY <1>1, <1>8 DEF KidsNow
        <3>2. u \in B
            BY <1>10
        <3>3. ASSUME NEW v \in B
              PROVE  ToSet(KidsOf[v]) \subseteq B
            <4>1. PICK n \in G : v = nodes[n].uuid
                BY <3>3
            <4>2. KidsOf[v] = Names(nodes, ChildList(nodes, n)) /\ n \in DOMAIN nodes
                BY <1>1, <1>8, <4>1 DEF KidsNow
            <4>3. ToSet(Names(nodes, ChildList(nodes, n))) = {nodes[x].uuid : x \in ChildrenOf(nodes, n)}
                BY <1>1, <4>2, ListIsSeq
            <4>4. ChildrenOf(nodes, n) \subseteq G
                BY <1>9, <1>10, <1>12, <4>1 DEF ChildrenOf
            <4> QED
                BY <4>2, <4>3, <4>4
        <3> QED
            BY <3>1, <3>2, <3>3 DEF KidsClosed
    <2>2. ASSUME NEW S, KidsClosed(S, u)
          PROVE  B \subseteq S
        <3> DEFINE T == {n \in G : nodes[n].uuid \in S /\ (n = id \/ nodes[nodes[n].parent].uuid \in S)}
        <3>1. \A n \in G, x \in G \ {id} : nodes[n].uuid \in S /\ nodes[x].parent = n => x \in T
            <4> SUFFICES ASSUME NEW n \in G, NEW x \in G \ {id},
                                nodes[n].uuid \in S, nodes[x].parent = n
                         PROVE  x \in T
                OBVIOUS
            <4>1. n \in DOMAIN nodes /\ x \in ChildrenOf(nodes, n)
                BY <1>8 DEF ChildrenOf
            <4>2. KidsOf[nodes[n].uuid] = Names(nodes, ChildList(nodes, n))
                BY <1>1, <4>1 DEF KidsNow
            <4>3. ToSet(Names(nodes, ChildList(nodes, n))) = {nodes[y].uuid : y \in ChildrenOf(nodes, n)}
                BY <1>1, <4>1, ListIsSeq
            <4>4. nodes[x].uuid \in ToSet(KidsOf[nodes[n].uuid])
                BY <4>1, <4>2, <4>3
            <4> QED
                BY <2>2, <4>4 DEF KidsClosed
        <3>2. Closed(g, id, T)
            <4>0. id \in T
                BY <1>10, <2>2 DEF KidsClosed
            <4>1. \A y \in T : g[y].first \in T \cup {NoNode}
                <5> SUFFICES ASSUME NEW y \in T, g[y].first # NoNode
                             PROVE  g[y].first \in T
                    OBVIOUS
                <5>1. y \in DOMAIN g /\ y \in G /\ y # NoNode
                    BY <1>6, <1>8 DEF IsForest, Typed, NoNode
                <5>2. g[g[y].first].parent = y /\ g[y].first \in DOMAIN g
                    BY <1>3, <5>1 DEF Whole, DownLinks
                <5>3. g[y].first \in G /\ g[y].first # id
                    BY <1>3, <1>8, <5>1, <5>2 DEF Closed, Isolated
                <5>4. nodes[g[y].first].parent = y
                    BY <1>6, <1>12, <5>2, <5>3
                <5>5. nodes[y].uuid \in S
                    OBVIOUS
                <5> HIDE DEF T
                <5> QED
                    BY <3>1, <5>1, <5>3, <5>4, <5>5
            <4>2. \A y \in T \ {id} : g[y].next \in T \cup {NoNode}
                <5> SUFFICES ASSUME NEW y \in T \ {id}, g[y].next # NoNode
                             PROVE  g[y].next \in T
                    OBVIOUS
                <5>1. y \in DOMAIN g /\ y \in G /\ y # NoNode /\ nodes[y].parent \in G
                    BY <1>6, <1>8, <1>13 DEF IsForest, Typed, NoNode
                <5>2. /\ g[y].next \in DOMAIN g
                      /\ g[g[y].next].parent = g[y].parent /\ g[g[y].next].prev = y
                    BY <1>3, <5>1 DEF Whole, RightLinks, LeftLinks
                <5>3. g[y].next \in G /\ g[y].next # id
                    BY <1>3, <1>8, <5>1, <5>2 DEF Closed, IsLoose
                <5>4. nodes[g[y].next].parent = nodes[y].parent
                    BY <1>6, <1>12, <5>1, <5>2, <5>3
                <5>5. nodes[nodes[y].parent].uuid \in S
                    OBVIOUS
                <5> HIDE DEF T
                <5> QED
                    BY <3>1, <5>1, <5>3, <5>4, <5>5
            <4> QED
                BY <4>0, <4>1, <4>2 DEF Closed
        <3>3. T \in SUBSET DOMAIN g
            BY <1>6, <1>8
        <3> HIDE DEF T
        <3>4. G \subseteq T
            BY <1>4, <3>2, <3>3, DownwardIsLeast
        <3> QED
            BY <3>4 DEF T
    <2>3. B \subseteq DOMAIN KidsOf
        BY <2>1 DEF KidsClosed
    <2> HIDE DEF B
    <2> QED
        BY <2>1, <2>2, <2>3, BelowIsLeast
<1> HIDE DEF B
<1>15. u \in DOMAIN KidsOf /\ u \in Abstract!Below(u)
    BY <1>1, <1>10, <1>14 DEF KidsNow, B
<1>16. DOMAIN KidsOf' = DOMAIN KidsOf \ Abstract!Below(u)
    <2>1. DOMAIN KidsOf' = {nodes[n].uuid : n \in DOMAIN nodes \ G}
        BY <1>2, <1>11 DEF KidsNext
    <2>2. \A m, n \in DOMAIN nodes : nodes[m].uuid = nodes[n].uuid => m = n
        BY <1>1 DEF KidsNow
    <2>3. DOMAIN KidsOf = {nodes[n].uuid : n \in DOMAIN nodes}
        BY <1>1 DEF KidsNow
    <2> QED
        BY <1>8, <1>14, <2>1, <2>2, <2>3 DEF B
<1>17. ASSUME NEW q \in DOMAIN nodes'
       PROVE  KidsOf'[nodes'[q].uuid] = RemoveFirst(KidsOf[nodes'[q].uuid], u)
    <2>1. q \in DOMAIN nodes /\ q \notin G /\ nodes'[q].uuid = nodes[q].uuid
        BY <1>11
    <2>2. \A x \in DOMAIN g \ DOMAIN nodes' : g[x].parent # q
        <3>1. g[id].parent = NoNode /\ q # NoNode
            BY <1>1, <1>3, <2>1 DEF Isolated, Typed, NoNode
        <3>2. \A x \in G \ {id} : g[x].parent \in G
            BY <1>8, <1>12, <1>13
        <3> QED
            BY <1>6, <1>11, <2>1, <3>1, <3>2
    <2>3. ChildList(nodes', q) = ChildList(g, q)
        BY <1>2, <1>6, <1>11, <2>2, SameLists
    <2>4. ChildList(nodes', q) \in Seq(DOMAIN nodes')
        BY <1>2, ListIsSeq
    <2>5. Names(nodes', ChildList(nodes', q)) = Names(nodes, ChildList(nodes', q))
        BY <1>11, <2>4, NamesKept
    <2> QED
        BY <1>2, <1>7, <2>1, <2>3, <2>5 DEF KidsNext
<1>18. \A v \in DOMAIN KidsOf' : KidsOf'[v] = RemoveFirst(KidsOf[v], u)
    BY <1>2, <1>17 DEF KidsNext
<1>19. ~ Abstract!IsRoot(u)
    BY <1>1, HasParent
<1> HIDE DEF u
<1> QED
    BY <1>15, <1>16, <1>18, <1>19, IsDrop

-----------------------------------------------------------------------------
(* Every call *)

\* update() changes what a node holds, and no list.
LEMMA UpdateKeepsLists ==
    ASSUME TreeInv, NEW id, NEW c \in Content, Update(id, c)
    PROVE  KidsOf' = KidsOf
<1>1. TreeInv' /\ DOMAIN nodes' = DOMAIN nodes
    BY UpdateKeepsTreeInv
<1>2. /\ IsForest(nodes) /\ IsForest(nodes')
      /\ Exact(nodes, by_uuid) /\ by_uuid' = by_uuid
    BY <1>1, TreeInvForest, TreeInvForestPrime DEF Update
<1>3. \A n \in DOMAIN nodes : /\ nodes'[n].parent = nodes[n].parent
                              /\ nodes'[n].prev = nodes[n].prev
                              /\ nodes'[n].uuid = nodes[n].uuid
    BY <1>2 DEF Update, IsForest, Typed, Node
<1>4. ASSUME NEW q \in DOMAIN nodes
      PROVE  Names(nodes', ChildList(nodes', q)) = Names(nodes, ChildList(nodes, q))
    <2>1. ChildList(nodes', q) = ChildList(nodes, q)
        BY <1>1, <1>2, <1>3, SameLists
    <2>2. ChildList(nodes, q) \in Seq(DOMAIN nodes)
        BY <1>2, ListIsSeq
    <2> QED
        BY <1>3, <2>1, <2>2, NamesKept
<1>5. \A u \in DOMAIN by_uuid : by_uuid[u] \in DOMAIN nodes
    BY <1>2 DEF Exact
<1>6. KidsIn(nodes', by_uuid') = KidsIn(nodes, by_uuid)
    BY <1>2, <1>4, <1>5 DEF KidsIn
<1> QED
    BY <1>6, KidsOfIsKidsIn

\* A call on the tree is an edit of it, or leaves the lists as they are.
LEMMA CallsAreEdits ==
    ASSUME BelowInv, [ArenaCalls(Uuid, Content)]_arenaVars, ~ strayed'
    PROVE  Abstract!TreeNext \/ KidsOf' = KidsOf
<1>1. CASE \E p \in Key, u \in Uuid, c \in Content :
               AppendChild(p, u, c) \/ InsertBefore(p, u, c) \/ InsertAfter(p, u, c)
    BY <1>1, InsertionsAdd DEF BelowInv
<1>2. CASE \E id \in Key : RemoveNode(id)
    <2>1. ~ strayed
        BY <1>2 DEF RemoveNode
    <2> QED
        BY <1>2, <2>1, RemoveDrops
<1>3. CASE \E id, p \in Key : MoveAppend(id, p) \/ MovePrepend(id, p)
    BY <1>3, MovesMove
<1>4. CASE \E id, p, s \in Key :
               MoveBefore(id, p, s) \/ MoveAfter(id, p, s) \/ MoveLosesNode(id, p, s)
    <2>1. ~ \E id, p, s \in Key : MoveLosesNode(id, p, s)
        BY DEF MoveLosesNode
    <2> QED
        BY <1>4, <2>1, MovesMove
<1>5. CASE \E id \in Key, c \in Content : Update(id, c)
    BY <1>5, UpdateKeepsLists DEF BelowInv
<1>6. CASE UNCHANGED arenaVars
    BY <1>6, KidsOfIsKidsIn DEF arenaVars
<1> QED
    BY <1>1, <1>2, <1>3, <1>4, <1>5, <1>6 DEF ArenaCalls

\* A new tree is one element without children.
LEMMA NewTreeIsOrdered == ArenaInit => Abstract!TreeInit
<1> SUFFICES ASSUME NEW u \in Uuid, NEW c \in Content, NewTree(u, c)
             PROVE  Abstract!TreeInit
    BY DEF ArenaInit
<1>1. TreeInv /\ IsForest(nodes) /\ KidsNow
    <2>1. ArenaInit
        BY DEF ArenaInit
    <2> QED
        BY <2>1, ArenaInitTreeInv, TreeInvForest, KidsNowAre
<1>2. DOMAIN nodes = {1} /\ nodes[1].uuid = u /\ nodes[1].parent = NoNode
    BY DEF NewTree, WithNode
<1>3. ChildList(nodes, 1) = <<>>
    <2>1. ChildrenOf(nodes, 1) = {}
        BY <1>2 DEF ChildrenOf, NoNode
    <2>2. IsList(nodes, 1, <<>>)
        BY <2>1 DEF IsList
    <2> QED
        BY <1>1, <1>2, <2>2, OneList
<1>4. DOMAIN KidsOf = {u} /\ KidsOf[u] = <<>>
    BY <1>1, <1>2, <1>3 DEF KidsNow, Names
<1>5. KidsOf = [v \in DOMAIN KidsOf |-> KidsOf[v]]
    BY DEF KidsOf
<1>6. KidsOf = [v \in {u} |-> <<>>]
    BY <1>4, <1>5
<1> QED
    BY <1>6 DEF Abstract!TreeInit

\* Every call on a tree, by whatever caller, does to the lists of children of
\* the uuids what its name says: the keys, links and index of arena.rs
\* implement OrderedTree, as long as no caller strays.
THEOREM ArenaIsOrderedTree == ArenaSpec => Abstract!TreeInit /\ OrderedTreeSteps
<1>1. BelowInv /\ [ArenaCalls(Uuid, Content)]_arenaVars
          => [~ strayed' => Abstract!TreeNext]_KidsOf
    BY CallsAreEdits
<1> QED
    BY <1>1, InitBelowInv, NewTreeIsOrdered, CallsKeepBelowInv, PTL DEF ArenaSpec, OrderedTreeSteps

=============================================================================
