------------------------- MODULE RenderPage_proofs -------------------------
(***************************************************************************)
(* RenderPage for any loads and any records that come and go: the types,   *)
(* the texts, the tree that is built, the markup it becomes, what takes a  *)
(* page render down, and the order of the siblings.                        *)
(*                                                                         *)
(* What the passes do to the rows is done by recursive functions.  Each is *)
(* a function on 0..n (RecursionEnds), and what it computes is shown by    *)
(* going up from 0 (StepByStep): OnlyEffect and OnlyMembers for filters,   *)
(* ClonesEffect for the clones of a template, SubtreeReached and           *)
(* AncestryReached for the walks up and down, OrderSiblingsMembers for the *)
(* chain and its salvage.  ChildListIsExact is that of ArenaTree_proofs.   *)
(* The walks take as many rounds as there are rows, which are enough       *)
(* because a round that adds nothing is the last (RoundsEnd).              *)
(*                                                                         *)
(* The invariants, in the order they are built on each other:              *)
(*   PassInv    the ids of the rows stay distinct, and no uuid that is     *)
(*              still to be drawn is among them;                           *)
(*   TextInv    which pass has filled a text and from which record;        *)
(*   BuildInv   what is not in the tree is still in a group, and the       *)
(*              nodes are rows under the nodes of their parents;           *)
(*   RenderInv  what the renderer has opened and closed, by its stack;     *)
(*   CauseInv   rows that can be built stay so through the passes;         *)
(*   LinkInv    the siblings of a page whose chains are whole stay chains  *)
(*              through the passes, but under a repeater;                  *)
(*   OrderInv   the children of a node and what is left of its group are   *)
(*              the order of its rows;                                     *)
(*   SideInv    siblings are opened, stacked and shown in the order of the *)
(*              tree.                                                      *)
(***************************************************************************)
EXTENDS RenderPage, ArenaTree_proofs

-----------------------------------------------------------------------------
(* Sequences of which some members are taken *)

KeptSteps(s, S, g) ==
    /\ g[0] = <<>>
    /\ \A k \in 1..Len(s) : g[k] = IF s[k] \in S THEN Append(g[k - 1], s[k]) ELSE g[k - 1]

LEMMA OnlyIsKept ==
    ASSUME NEW X, NEW s \in Seq(X), NEW S
    PROVE  \E g \in [0..Len(s) -> Seq(X)] : KeptSteps(s, S, g) /\ Only(s, S) = g[Len(s)]
<1>0. Len(s) \in Nat
    OBVIOUS
<1> DEFINE st == [p \in (1..Len(s)) \X Seq(X) |->
                     IF s[p[1]] \in S THEN Append(p[2], s[p[1]]) ELSE p[2]]
<1>1. st \in [(1..Len(s)) \X Seq(X) -> Seq(X)]
    OBVIOUS
<1>2. PICK g \in [0..Len(s) -> Seq(X)] : Iterates(st, <<>>, Len(s), g)
    <2> HIDE DEF st
    <2>1. <<>> \in Seq(X)
        OBVIOUS
    <2> QED
        BY <1>0, <1>1, <2>1, RecursionEnds
<1>3. KeptSteps(s, S, g)
    <2>1. ASSUME NEW k \in 1..Len(s)
          PROVE  g[k] = IF s[k] \in S THEN Append(g[k - 1], s[k]) ELSE g[k - 1]
        <3>1. k - 1 \in 0..Len(s)
            BY <1>0
        <3>2. <<k, g[k - 1]>> \in (1..Len(s)) \X Seq(X)
            BY <3>1
        <3> QED
            BY <1>2, <3>2 DEF Iterates
    <2> QED
        BY <1>2, <2>1 DEF Iterates, KeptSteps
<1>4. g = [k \in 0..Len(s) |->
              IF k = 0 THEN <<>>
              ELSE IF s[k] \in S THEN Append(g[k - 1], s[k]) ELSE g[k - 1]]
    <2>1. ASSUME NEW k \in 0..Len(s)
          PROVE  g[k] = IF k = 0 THEN <<>>
                        ELSE IF s[k] \in S THEN Append(g[k - 1], s[k]) ELSE g[k - 1]
        <3>1. k = 0 \/ k \in 1..Len(s)
            BY <1>0
        <3> QED
            BY <1>3, <3>1 DEF KeptSteps
    <2> QED
        BY <2>1
<1> DEFINE kept == CHOOSE h : h = [k \in 0..Len(s) |->
                       IF k = 0 THEN <<>>
                       ELSE IF s[k] \in S THEN Append(h[k - 1], s[k]) ELSE h[k - 1]]
<1>5. kept = [k \in 0..Len(s) |->
                 IF k = 0 THEN <<>>
                 ELSE IF s[k] \in S THEN Append(kept[k - 1], s[k]) ELSE kept[k - 1]]
    BY <1>4
<1>6. Only(s, S) = kept[Len(s)]
    BY DEF Only
<1> HIDE DEF kept
<1>7. 0..Len(s) \subseteq {k \in 0..Len(s) : kept[k] = g[k]}
    <2> DEFINE T == {k \in 0..Len(s) : kept[k] = g[k]}
    <2>1. 0 \in T
        BY <1>0, <1>3, <1>5 DEF KeptSteps
    <2>2. ASSUME NEW k \in 1..Len(s), k - 1 \in T
          PROVE  k \in T
        <3>0. k \in 0..Len(s) /\ k # 0
            BY <1>0
        <3>1. kept[k] = IF s[k] \in S THEN Append(kept[k - 1], s[k]) ELSE kept[k - 1]
            BY <1>5, <3>0
        <3> QED
            BY <1>3, <2>2, <3>1 DEF KeptSteps
    <2> HIDE DEF T
    <2>3. 0..Len(s) \subseteq T
        BY <1>0, <2>1, <2>2, StepByStep
    <2> QED
        BY <2>3 DEF T
<1>8. Only(s, S) = g[Len(s)]
    BY <1>0, <1>6, <1>7
<1> QED
    BY <1>3, <1>8

\* h tells where in the first k members of s the members of w come from.
Picks(h, s, S, k, w) ==
    /\ h \in [1..Len(w) -> 1..k]
    /\ \A i \in 1..Len(w) : s[h[i]] = w[i] /\ w[i] \in S
    /\ \A i, j \in 1..Len(w) : i < j => h[i] < h[j]
    /\ \A a \in 1..k : s[a] \in S => \E i \in 1..Len(w) : h[i] = a

LEMMA PicksMore ==
    ASSUME NEW X, NEW s \in Seq(X), NEW S, NEW k \in 1..Len(s),
           NEW w \in Seq(X), NEW h, Picks(h, s, S, k - 1, w)
    PROVE  \E g : Picks(g, s, S, k, IF s[k] \in S THEN Append(w, s[k]) ELSE w)
<1>0. k \in Nat /\ s[k] \in X /\ Len(w) \in Nat /\ k \in 1..k
    OBVIOUS
<1>1. \A a \in 1..k : a \in 1..(k - 1) \/ a = k
    BY <1>0
<1>2. 1..(k - 1) \subseteq 1..k /\ \A a \in 1..(k - 1) : a < k
    BY <1>0
<1>3. CASE s[k] \notin S
    <2>1. Picks(h, s, S, k, w)
        <3>1. h \in [1..Len(w) -> 1..k]
            BY <1>2 DEF Picks
        <3>2. \A a \in 1..k : s[a] \in S => \E i \in 1..Len(w) : h[i] = a
            BY <1>1, <1>3 DEF Picks
        <3> QED
            BY <3>1, <3>2 DEF Picks
    <2> QED
        BY <1>3, <2>1
<1>4. CASE s[k] \in S
    <2> DEFINE v == Append(w, s[k])
               n == Len(w)
               g == [i \in 1..(n + 1) |-> IF i = n + 1 THEN k ELSE h[i]]
    <2>1. Len(v) = n + 1 /\ v[n + 1] = s[k] /\ \A i \in 1..n : v[i] = w[i]
        BY <1>0
    <2>2. \A i \in 1..(n + 1) : i \in 1..n \/ i = n + 1
        BY <1>0
    <2>3. 1..n \subseteq 1..(n + 1) /\ n + 1 \in 1..(n + 1) /\ \A i \in 1..n : i < n + 1
        BY <1>0
    <2>4. g[n + 1] = k /\ \A i \in 1..n : g[i] = h[i]
        BY <1>0
    <2>5. g \in [1..(n + 1) -> 1..k]
        BY <1>0, <1>2, <2>2 DEF Picks
    <2>6. n \in Nat /\ \A i, j \in 1..n : i < j => h[i] < h[j]
        BY <1>0 DEF Picks
    <2>7. \A i \in 1..n : h[i] \in 1..(k - 1) /\ s[h[i]] = w[i] /\ w[i] \in S
        BY DEF Picks
    <2>8. \A a \in 1..(k - 1) : s[a] \in S => \E i \in 1..n : h[i] = a
        BY DEF Picks
    <2> HIDE DEF n, v, g
    <2>9. \A i \in 1..(n + 1) : s[g[i]] = v[i] /\ v[i] \in S
        BY <1>4, <2>1, <2>2, <2>4, <2>7
    <2>10. ASSUME NEW i \in 1..(n + 1), NEW j \in 1..(n + 1), i < j
           PROVE  g[i] < g[j]
        <3>1. i \in 1..n
            BY <2>6, <2>10
        <3> QED
            BY <1>2, <2>2, <2>4, <2>6, <2>7, <2>10, <3>1
    <2>11. \A a \in 1..k : s[a] \in S => \E i \in 1..(n + 1) : g[i] = a
        BY <1>1, <2>3, <2>4, <2>8
    <2>12. Picks(g, s, S, k, v)
        BY <2>1, <2>5, <2>9, <2>10, <2>11 DEF Picks
    <2> QED
        BY <1>4, <2>12 DEF v
<1> QED
    BY <1>3, <1>4

\* Only keeps the members of s that are in S, in their order.
LEMMA OnlyEffect ==
    ASSUME NEW X, NEW s \in Seq(X), NEW S
    PROVE  Only(s, S) \in Seq(X) /\ \E h : Picks(h, s, S, Len(s), Only(s, S))
<1> PICK g \in [0..Len(s) -> Seq(X)] : KeptSteps(s, S, g) /\ Only(s, S) = g[Len(s)]
    BY OnlyIsKept
<1>0. Len(s) \in Nat
    OBVIOUS
<1> DEFINE T == {k \in 0..Len(s) : \E h : Picks(h, s, S, k, g[k])}
<1>1. 0 \in T
    <2>1. g[0] = <<>>
        BY DEF KeptSteps
    <2>2. Picks(<<>>, s, S, 0, <<>>)
        BY DEF Picks
    <2> QED
        BY <1>0, <2>1, <2>2
<1>2. ASSUME NEW k \in 1..Len(s), k - 1 \in T
      PROVE  k \in T
    <2>0. k \in 0..Len(s) /\ k - 1 \in 0..Len(s)
        BY <1>0
    <2>1. PICK h : Picks(h, s, S, k - 1, g[k - 1])
        BY <1>2
    <2>2. g[k - 1] \in Seq(X)
        BY <2>0
    <2>3. g[k] = IF s[k] \in S THEN Append(g[k - 1], s[k]) ELSE g[k - 1]
        BY DEF KeptSteps
    <2>4. \E f : Picks(f, s, S, k, g[k])
        BY <2>1, <2>2, <2>3, PicksMore
    <2> QED
        BY <2>0, <2>4
<1>3. 0..Len(s) \subseteq T
    <2> HIDE DEF T
    <2> QED
        BY <1>0, <1>1, <1>2, StepByStep
<1>4. Len(s) \in T
    <2> HIDE DEF T
    <2> QED
        BY <1>0, <1>3
<1>5. Only(s, S) \in Seq(X)
    BY <1>0
<1> QED
    BY <1>4, <1>5

LEMMA OnlyMembers ==
    ASSUME NEW X, NEW s \in Seq(X), NEW S
    PROVE  ToSet(Only(s, S)) = ToSet(s) \cap S
<1> DEFINE w == Only(s, S)
<1>1. w \in Seq(X) /\ \E h : Picks(h, s, S, Len(s), w)
    BY OnlyEffect
<1> HIDE DEF w
<1>2. PICK h : Picks(h, s, S, Len(s), w)
    BY <1>1
<1>3. DOMAIN s = 1..Len(s) /\ DOMAIN w = 1..Len(w)
    BY <1>1
<1>4. \A i \in 1..Len(w) : h[i] \in 1..Len(s) /\ s[h[i]] = w[i] /\ w[i] \in S
    BY <1>2 DEF Picks
<1>5. \A a \in 1..Len(s) : s[a] \in S => \E i \in 1..Len(w) : h[i] = a
    BY <1>2 DEF Picks
<1>6. ToSet(w) \subseteq ToSet(s) \cap S
    BY <1>3, <1>4 DEF ToSet
<1>7. ToSet(s) \cap S \subseteq ToSet(w)
    <2> SUFFICES ASSUME NEW a \in 1..Len(s), s[a] \in S
                 PROVE  s[a] \in ToSet(w)
        BY <1>3 DEF ToSet
    <2>1. PICK i \in 1..Len(w) : h[i] = a
        BY <1>5
    <2> QED
        BY <1>3, <1>4, <2>1 DEF ToSet
<1> QED
    BY <1>6, <1>7 DEF w

-----------------------------------------------------------------------------
(* Rows and the uuids still to be drawn *)

Distinct(rs) == \A i, j \in DOMAIN rs : rs[i].id = rs[j].id => i = j

RowsOK(rs, ids) ==
    /\ rs \in Seq(Row) /\ Distinct(rs)
    /\ ids \in Seq(Nat) /\ IsInjective(ids)
    /\ IdsOf(rs) \cup ToSet(ids) \subseteq Uuid \ {Body}
    /\ IdsOf(rs) \cap ToSet(ids) = {}

LEMMA OnlyKeepsDistinct ==
    ASSUME NEW rs \in Seq(Row), Distinct(rs), NEW S
    PROVE  /\ Only(rs, S) \in Seq(Row)
           /\ Distinct(Only(rs, S))
           /\ IdsOf(Only(rs, S)) = {r.id : r \in ToSet(rs) \cap S}
<1> DEFINE w == Only(rs, S)
<1>1. w \in Seq(Row) /\ \E h : Picks(h, rs, S, Len(rs), w)
    BY OnlyEffect
<1>2. ToSet(w) = ToSet(rs) \cap S
    BY OnlyMembers
<1> HIDE DEF w
<1>3. PICK h : Picks(h, rs, S, Len(rs), w)
    BY <1>1
<1>4. DOMAIN rs = 1..Len(rs) /\ DOMAIN w = 1..Len(w) /\ Len(w) \in Nat /\ Len(rs) \in Nat
    BY <1>1
<1>5. \A i \in 1..Len(w) : h[i] \in 1..Len(rs) /\ rs[h[i]] = w[i]
    BY <1>3 DEF Picks
<1>6. \A i, j \in 1..Len(w) : i < j => h[i] < h[j]
    BY <1>3 DEF Picks
<1>7. \A i, j \in 1..Len(w) : h[i] = h[j] => i = j
    BY <1>4, <1>5, <1>6
<1>8. Distinct(w)
    BY <1>4, <1>5, <1>7 DEF Distinct
<1>9. IdsOf(w) = {r.id : r \in ToSet(w)}
    BY DEF IdsOf, ToSet
<1> QED
    BY <1>1, <1>2, <1>8, <1>9 DEF w

LEMMA IdsAreOfRows ==
    ASSUME NEW rs PROVE IdsOf(rs) = {r.id : r \in ToSet(rs)}
BY DEF IdsOf, ToSet

LEMMA Joined ==
    ASSUME NEW X, NEW s \in Seq(X), NEW t \in Seq(X)
    PROVE  /\ s \o t \in Seq(X)
           /\ ToSet(s \o t) = ToSet(s) \cup ToSet(t)
<1>1. Len(s) \in Nat /\ Len(t) \in Nat /\ Len(s \o t) = Len(s) + Len(t)
    OBVIOUS
<1>2. \A i \in 1..Len(s) : (s \o t)[i] = s[i]
    OBVIOUS
<1>3. \A i \in 1..Len(t) : (s \o t)[Len(s) + i] = t[i] /\ Len(s) + i \in 1..(Len(s) + Len(t))
    OBVIOUS
<1>4. \A i \in 1..(Len(s) + Len(t)) : i \in 1..Len(s) \/ \E j \in 1..Len(t) : i = Len(s) + j
    <2> SUFFICES ASSUME NEW i \in 1..(Len(s) + Len(t)), i \notin 1..Len(s)
                 PROVE  \E j \in 1..Len(t) : i = Len(s) + j
        OBVIOUS
    <2>1. i - Len(s) \in 1..Len(t) /\ i = Len(s) + (i - Len(s))
        BY <1>1
    <2> QED
        BY <2>1
<1>5. DOMAIN s = 1..Len(s) /\ DOMAIN t = 1..Len(t) /\ DOMAIN (s \o t) = 1..(Len(s) + Len(t))
    OBVIOUS
<1>6. 1..Len(s) \subseteq 1..(Len(s) + Len(t))
    BY <1>1
<1> DEFINE u == s \o t
<1>7. s \o t \in Seq(X)
    OBVIOUS
<1> HIDE DEF u
<1>8. ToSet(u) \subseteq ToSet(s) \cup ToSet(t)
    BY <1>2, <1>3, <1>4, <1>5 DEF ToSet, u
<1>9. ToSet(s) \subseteq ToSet(u)
    BY <1>2, <1>5, <1>6 DEF ToSet, u
<1>10. ToSet(t) \subseteq ToSet(u)
    BY <1>3, <1>5 DEF ToSet, u
<1> QED
    BY <1>7, <1>8, <1>9, <1>10 DEF u

LEMMA JoinedDistinct ==
    ASSUME NEW s \in Seq(Row), NEW t \in Seq(Row), Distinct(s), Distinct(t),
           IdsOf(s) \cap IdsOf(t) = {}
    PROVE  /\ s \o t \in Seq(Row)
           /\ Distinct(s \o t)
           /\ IdsOf(s \o t) = IdsOf(s) \cup IdsOf(t)
<1>1. Len(s) \in Nat /\ Len(t) \in Nat /\ Len(s \o t) = Len(s) + Len(t)
    OBVIOUS
<1>2. \A i \in 1..Len(s) : (s \o t)[i] = s[i]
    OBVIOUS
<1>3. \A i \in 1..Len(t) : (s \o t)[Len(s) + i] = t[i]
    OBVIOUS
<1>4. \A i \in 1..(Len(s) + Len(t)) : i \in 1..Len(s) \/ \E j \in 1..Len(t) : i = Len(s) + j
    <2> SUFFICES ASSUME NEW i \in 1..(Len(s) + Len(t)), i \notin 1..Len(s)
                 PROVE  \E j \in 1..Len(t) : i = Len(s) + j
        OBVIOUS
    <2>1. i - Len(s) \in 1..Len(t) /\ i = Len(s) + (i - Len(s))
        BY <1>1
    <2> QED
        BY <2>1
<1>5. DOMAIN s = 1..Len(s) /\ DOMAIN t = 1..Len(t) /\ DOMAIN (s \o t) = 1..(Len(s) + Len(t))
    OBVIOUS
<1>6. s \o t \in Seq(Row) /\ ToSet(s \o t) = ToSet(s) \cup ToSet(t)
    BY Joined
<1>7. IdsOf(s \o t) = IdsOf(s) \cup IdsOf(t)
    BY <1>6, IdsAreOfRows
<1>8. \A i \in 1..Len(s), j \in 1..Len(t) : s[i].id # t[j].id
    BY <1>5 DEF IdsOf
<1> DEFINE u == s \o t
<1> HIDE DEF u
<1>9. \A i \in 1..(Len(s) + Len(t)) :
          \/ i \in 1..Len(s) /\ u[i] = s[i]
          \/ \E j \in 1..Len(t) : i = Len(s) + j /\ u[i] = t[j]
    BY <1>2, <1>3, <1>4 DEF u
<1>10. ASSUME NEW i \in 1..(Len(s) + Len(t)), NEW j \in 1..(Len(s) + Len(t)),
              u[i].id = u[j].id
       PROVE  i = j
    <2>1. CASE i \in 1..Len(s) /\ u[i] = s[i] /\ j \in 1..Len(s) /\ u[j] = s[j]
        BY <1>5, <1>10, <2>1 DEF Distinct
    <2>2. ASSUME NEW a \in 1..Len(t), i = Len(s) + a, u[i] = t[a],
                 NEW b \in 1..Len(t), j = Len(s) + b, u[j] = t[b]
          PROVE  i = j
        BY <1>5, <1>10, <2>2 DEF Distinct
    <2> QED
        BY <1>8, <1>9, <1>10, <2>1, <2>2
<1>11. Distinct(s \o t)
    BY <1>5, <1>10 DEF Distinct, u
<1> QED
    BY <1>6, <1>7, <1>11

\* What remains after the first uuids are drawn.
LEMMA Drawn ==
    ASSUME NEW ids \in Seq(Nat), IsInjective(ids), NEW u \in Nat, u <= Len(ids)
    PROVE  /\ SubSeq(ids, u + 1, Len(ids)) \in Seq(Nat)
           /\ IsInjective(SubSeq(ids, u + 1, Len(ids)))
           /\ ToSet(SubSeq(ids, u + 1, Len(ids))) \subseteq ToSet(ids)
           /\ \A i \in 1..u : ids[i] \in ToSet(ids) \ ToSet(SubSeq(ids, u + 1, Len(ids)))
<1> DEFINE left == SubSeq(ids, u + 1, Len(ids))
<1>1. Len(ids) \in Nat /\ DOMAIN ids = 1..Len(ids)
    OBVIOUS
<1>2. left \in Seq(Nat) /\ Len(left) = Len(ids) - u
    <2>1. \A i \in (u + 1)..Len(ids) : ids[i] \in Nat
        BY <1>1
    <2>2. Len(left) = (IF u + 1 <= Len(ids) THEN Len(ids) - (u + 1) + 1 ELSE 0)
        BY <1>1, <2>1, SubSeqProperties
    <2>3. left \in Seq(Nat)
        BY <1>1, <2>1, SubSeqProperties
    <2>4. (IF u + 1 <= Len(ids) THEN Len(ids) - (u + 1) + 1 ELSE 0) = Len(ids) - u
        <3>1. \A n \in Nat : u <= n => (IF u + 1 <= n THEN n - (u + 1) + 1 ELSE 0) = n - u
            OBVIOUS
        <3> QED
            BY <1>1, <3>1
    <2> HIDE DEF left
    <2> QED
        BY <2>2, <2>3, <2>4
<1>3. \A i \in 1..Len(left) : u + i \in 1..Len(ids) /\ left[i] = ids[u + i]
    BY <1>1
<1>4. DOMAIN left = 1..Len(left)
    BY <1>2
<1> HIDE DEF left
<1>5. \A i, j \in 1..Len(left) : u + i = u + j => i = j
    BY <1>1, <1>2
<1>6. IsInjective(left)
    BY <1>1, <1>3, <1>4, <1>5 DEF IsInjective
<1>7. ToSet(left) \subseteq ToSet(ids)
    BY <1>1, <1>3, <1>4 DEF ToSet
<1>8. ASSUME NEW i \in 1..u
      PROVE  ids[i] \in ToSet(ids) \ ToSet(left)
    <2>1. i \in 1..Len(ids) /\ \A j \in 1..Len(left) : u + j # i
        BY <1>1, <1>2
    <2>2. \A j \in 1..Len(left) : left[j] # ids[i]
        BY <1>1, <1>3, <2>1 DEF IsInjective
    <2> QED
        BY <1>1, <1>4, <2>1, <2>2 DEF ToSet
<1> QED
    BY <1>2, <1>6, <1>7, <1>8 DEF left

-----------------------------------------------------------------------------
(* The clones of a template: m rows in each of n clones *)

LEMMA Grid ==
    ASSUME NEW m \in Nat \ {0}, NEW n \in Nat, NEW i \in 1..(m * n)
    PROVE  /\ (i - 1) \div m \in 0..(n - 1)
           /\ (i - 1) % m \in 0..(m - 1)
           /\ i = ((i - 1) \div m) * m + ((i - 1) % m) + 1
<1>1. m * n \in Nat
    BY SMT
<1>2. i - 1 \in Nat /\ i - 1 < m * n
    BY <1>1
<1> DEFINE q == (i - 1) \div m
           r == (i - 1) % m
<1>3. q \in Nat /\ r \in 0..(m - 1) /\ i - 1 = q * m + r
    BY <1>2, SMT
<1>4. q < n
    <2> HIDE DEF q, r
    <2> SUFFICES ASSUME q >= n PROVE FALSE
        BY <1>3
    <2>1. q * m >= n * m
        BY <1>3, SMT
    <2> QED
        BY <1>2, <1>3, <2>1, SMT
<1>5. (i - 1) \div m \in 0..(n - 1)
    BY <1>3, <1>4
<1> QED
    BY <1>2, <1>3, <1>5, SMT

LEMMA GridSpot ==
    ASSUME NEW m \in Nat \ {0}, NEW n \in Nat, NEW q \in 0..(n - 1), NEW j \in 1..m
    PROVE  /\ q * m + j \in 1..(m * n)
           /\ (q * m + j - 1) \div m = q
           /\ (q * m + j - 1) % m = j - 1
<1>1. q \in Nat /\ n - 1 - q \in Nat
    BY SMT
<1>2. m * n = q * m + (n - 1 - q) * m + m
    BY <1>1, SMT
<1>3. (n - 1 - q) * m \in Nat /\ q * m \in Nat
    BY <1>1, SMT
<1>4. q * m + j \in 1..(m * n)
    BY <1>2, <1>3, SMT
<1>5. (q * m + j - 1) \div m = q /\ (q * m + j - 1) % m = j - 1
    BY <1>1, <1>3, SMT
<1> QED
    BY <1>4, <1>5

LEMMA Spot ==
    ASSUME NEW rs \in Seq(Row), Distinct(rs), NEW j \in 1..Len(rs)
    PROVE  (CHOOSE k \in 1..Len(rs) : rs[k].id = rs[j].id) = j
<1>1. DOMAIN rs = 1..Len(rs)
    OBVIOUS
<1>2. \A k \in 1..Len(rs) : rs[k].id = rs[j].id => k = j
    BY <1>1 DEF Distinct
<1> QED
    BY <1>2

\* What the i-th clone row is made of.
Origin(template, i) == template[((i - 1) % Len(template)) + 1]
Serial(template, i) == (i - 1) \div Len(template)

CloneRow(x, i, template, top, p, recs, ids) ==
    LET o == Origin(template, i)
        r == recs[Serial(template, i) + 1]
    IN  /\ x.id = ids[i]
        /\ o \in ToSet(template) /\ r \in Int
        /\ x.tag = o.tag /\ x.repeat = o.repeat
        /\ x.bind = o.bind /\ x.coll = o.coll
        /\ x.field = o.field /\ x.name = o.name
        /\ x.text = Interpolate(o.text, r)
        /\ x.value = Interpolate(o.value, r)
        /\ x.of = r
        /\ o.id = top => x.parent = p
        /\ o.id # top => \A j \in 1..Len(template) :
               template[j].id = o.parent =>
                   x.parent = ids[Serial(template, i) * Len(template) + j]
        /\ o.id # top /\ o.parent \notin IdsOf(template) => x.parent = o.parent

\* And what its left sibling is.
ClonePrev(x, i, template, top, ids) ==
    LET o == Origin(template, i)
        c == Serial(template, i)
        m == Len(template)
    IN  /\ o.id # top => /\ \A j \in 1..m : template[j].id = o.prev => x.prev = ids[c * m + j]
                         /\ o.prev \notin IdsOf(template) => x.prev = o.prev
        /\ o.id = top /\ c = 0 => x.prev = NoRow
        /\ o.id = top /\ c # 0 =>
               \A j \in 1..m : template[j].id = top => x.prev = ids[(c - 1) * m + j]

LEMMA RowFields ==
    ASSUME NEW r \in Row
    PROVE  /\ r.id \in Nat /\ r.parent \in Nat /\ r.prev \in Nat
           /\ r.tag \in {"box", "form", "input", "#text"}
           /\ r.repeat \in Coll \cup {NoColl} /\ r.bind \in Coll \cup {NoColl}
           /\ r.coll \in Coll \cup {NoColl}
           /\ r.field \in BOOLEAN /\ r.name \in {"", "field", "_csrf"}
           /\ r.text \in Piece /\ r.value \in Piece /\ r.of \in Int
BY DEF Row

LEMMA Rewritten ==
    ASSUME NEW o \in Row, NEW i \in Nat, NEW p \in Nat, NEW q \in Nat,
           NEW x \in Piece, NEW y \in Piece, NEW r \in Int
    PROVE  [o EXCEPT !.id = i, !.parent = p, !.prev = q, !.text = x, !.value = y, !.of = r]
               \in Row
BY DEF Row

LEMMA InterpolateTyped ==
    ASSUME NEW x \in Piece, NEW r \in Int PROVE Interpolate(x, r) \in Piece
<1>1. CASE x.say = "key"
    BY <1>1 DEF Interpolate, Value, Piece
<1>2. CASE x.say \in {"badkey", "ref"}
    BY <1>2 DEF Interpolate, Nothing, Piece
<1>3. CASE x.say \notin {"key", "badkey", "ref"}
    BY <1>3 DEF Interpolate
<1> QED
    BY <1>1, <1>2, <1>3

LEMMA ClonesEffect ==
    ASSUME NEW template \in Seq(Row), Distinct(template), template # <<>>,
           NEW top \in IdsOf(template), NEW p \in Nat,
           NEW recs \in Seq(Int), NEW ids \in Seq(Nat),
           Len(template) * Len(recs) <= Len(ids),
           NEW cl, cl = Clones(template, top, p, recs, ids)
    PROVE  /\ cl \in Seq(Row)
           /\ Len(cl) = Len(template) * Len(recs)
           /\ \A i \in 1..(Len(template) * Len(recs)) :
                  /\ CloneRow(cl[i], i, template, top, p, recs, ids)
                  /\ ClonePrev(cl[i], i, template, top, ids)
<1> DEFINE m == Len(template)
           n == Len(recs)
           nth(i) == (i - 1) \div m
           spot(x) == CHOOSE j \in 1..m : template[j].id = x
           copied(i, x) == IF \E j \in 1..m : template[j].id = x
                           THEN NewUuid(ids, m, nth(i), spot(x)) ELSE x
           rootOf(c) == NewUuid(ids, m, c, spot(top))
           prevOf(i, o) == IF o.id # top THEN copied(i, o.prev)
                           ELSE IF nth(i) = 0 THEN NoRow ELSE rootOf(nth(i) - 1)
           made(i) == LET o == template[((i - 1) % m) + 1]
                          r == recs[nth(i) + 1]
                      IN  [o EXCEPT
                              !.id     = copied(i, o.id),
                              !.parent = IF o.id = top THEN p ELSE copied(i, o.parent),
                              !.prev   = prevOf(i, o),
                              !.text   = Interpolate(o.text, r),
                              !.value  = Interpolate(o.value, r),
                              !.of     = r]
<1>1. m \in Nat \ {0} /\ n \in Nat /\ DOMAIN template = 1..m /\ DOMAIN recs = 1..n
    BY EmptySeq
<1>0. /\ \A k \in 1..m : template[k] \in Row
      /\ \A k \in 1..n : recs[k] \in Int
    OBVIOUS
<1>2. m * n \in Nat
    BY <1>1, SMT
<1>3. cl = [i \in 1..(m * n) |-> made(i)]
    BY DEF Clones
<1>4. \A j \in 1..m : spot(template[j].id) = j
    BY Spot
<1> HIDE DEF spot
<1>5. ASSUME NEW c \in 0..(n - 1), NEW j \in 1..m
      PROVE  c * m + j \in 1..(m * n) /\ ids[c * m + j] \in Nat
    <2>1. c * m + j \in 1..(m * n)
        BY <1>1, GridSpot
    <2>2. c * m + j \in 1..Len(ids)
        <3>1. Len(ids) \in Nat /\ m * n <= Len(ids)
            OBVIOUS
        <3>2. \A a, b \in Nat : a <= b => 1..a \subseteq 1..b
            OBVIOUS
        <3> QED
            BY <1>2, <2>1, <3>1, <3>2
    <2> QED
        BY <2>1, <2>2
<1>6. ASSUME NEW c, NEW j \in 1..m, NEW x, template[j].id = x
      PROVE  NewUuid(ids, m, c, spot(x)) = ids[c * m + j]
    BY <1>4, <1>6 DEF NewUuid
<1>7. \A i \in 1..(m * n) : /\ nth(i) \in 0..(n - 1) /\ nth(i) + 1 \in 1..n
                             /\ ((i - 1) % m) + 1 \in 1..m
                             /\ nth(i) * m + (((i - 1) % m) + 1) = i
    <2> SUFFICES ASSUME NEW i \in 1..(m * n)
                 PROVE  /\ nth(i) \in 0..(n - 1) /\ nth(i) + 1 \in 1..n
                        /\ ((i - 1) % m) + 1 \in 1..m
                        /\ nth(i) * m + (((i - 1) % m) + 1) = i
        OBVIOUS
    <2>1. /\ nth(i) \in 0..(n - 1)
          /\ (i - 1) % m \in 0..(m - 1)
          /\ i = nth(i) * m + ((i - 1) % m) + 1
        BY <1>1, Grid
    <2> DEFINE q == (i - 1) \div m
               r == (i - 1) % m
    <2>2. q \in 0..(n - 1) /\ r \in 0..(m - 1) /\ i = q * m + r + 1
        BY <2>1
    <2> HIDE DEF q, r, m, n
    <2>3. q + 1 \in 1..n /\ r + 1 \in 1..m /\ q * m + (r + 1) = i
        BY <1>1, <2>2, SMT
    <2> QED
        BY <2>2, <2>3 DEF q, r
<1>8. ASSUME NEW i \in 1..(m * n), NEW x \in Nat
      PROVE  /\ copied(i, x) \in Nat
             /\ \A j \in 1..m : template[j].id = x => copied(i, x) = ids[nth(i) * m + j]
             /\ x \notin IdsOf(template) => copied(i, x) = x
    <2>1. CASE \E j \in 1..m : template[j].id = x
        <3>1. PICK j \in 1..m : template[j].id = x
            BY <2>1
        <3>0. NewUuid(ids, m, nth(i), spot(x)) = ids[nth(i) * m + j]
            <4> HIDE DEF m, n
            <4> QED
                BY <1>6, <3>1
        <3>2. copied(i, x) = ids[nth(i) * m + j] /\ nth(i) \in 0..(n - 1)
            BY <1>7, <2>1, <3>0
        <3>3. copied(i, x) \in Nat
            BY <1>5, <3>2
        <3>4. \A k \in 1..m : template[k].id = x => k = j
            BY <1>1, <3>1 DEF Distinct
        <3>5. x \in IdsOf(template)
            BY <1>1, <3>1 DEF IdsOf
        <3> HIDE DEF copied, nth
        <3> QED
            BY <3>2, <3>3, <3>4, <3>5
    <2>2. CASE ~ \E j \in 1..m : template[j].id = x
        BY <2>2
    <2> QED
        BY <2>1, <2>2
<1>9. /\ \A c \in 0..(n - 1) : rootOf(c) \in Nat
      /\ \A c, j \in Int : j \in 1..m /\ template[j].id = top => rootOf(c) = ids[c * m + j]
    <2>1. PICK j \in 1..m : template[j].id = top
        BY <1>1 DEF IdsOf
    <2>2. ASSUME NEW c, NEW k \in 1..m, template[k].id = top
          PROVE  NewUuid(ids, m, c, spot(top)) = ids[c * m + k]
        <3> HIDE DEF m, n
        <3> QED
            BY <1>6, <2>2
    <2> QED
        BY <1>5, <2>1, <2>2
<1> HIDE DEF m, n, copied, rootOf, nth
<1>10. ASSUME NEW i \in 1..(m * n), NEW o \in Row
       PROVE  /\ prevOf(i, o) \in Nat
              /\ o.id # top => prevOf(i, o) = copied(i, o.prev)
              /\ o.id = top /\ nth(i) = 0 => prevOf(i, o) = NoRow
              /\ o.id = top /\ nth(i) # 0 => prevOf(i, o) = rootOf(nth(i) - 1)
    <2>1. nth(i) # 0 => nth(i) - 1 \in 0..(n - 1)
        <3>1. \A q \in 0..(n - 1) : q # 0 => q - 1 \in 0..(n - 1)
            BY <1>1
        <3> QED
            BY <1>7, <3>1
    <2> QED
        BY <1>8, <1>9, <2>1, RowFields DEF NoRow
<1> HIDE DEF prevOf
<1>11. ASSUME NEW i \in 1..(m * n)
       PROVE  /\ made(i) \in Row /\ CloneRow(made(i), i, template, top, p, recs, ids)
              /\ ClonePrev(made(i), i, template, top, ids)
    <2> DEFINE j == ((i - 1) % m) + 1
               o == template[j]
               r == recs[nth(i) + 1]
    <2>1. j \in 1..m /\ nth(i) + 1 \in 1..n /\ nth(i) * m + j = i
        BY <1>7
    <2> HIDE DEF j
    <2>2. o \in Row /\ r \in Int /\ o \in ToSet(template)
        BY <1>0, <1>1, <2>1 DEF ToSet
    <2> HIDE DEF o, r
    <2>3. o.id \in Nat /\ o.parent \in Nat /\ o.text \in Piece /\ o.value \in Piece
        BY <2>2, RowFields
    <2>4. copied(i, o.id) \in Nat /\ copied(i, o.id) = ids[i]
        <3>1. template[j].id = o.id
            BY DEF o
        <3>2. ids[nth(i) * m + j] = ids[i]
            BY <2>1, Zenon
        <3>3. copied(i, o.id) \in Nat /\ copied(i, o.id) = ids[nth(i) * m + j]
            BY <1>8, <2>1, <2>3, <3>1, Zenon
        <3> QED
            BY <3>2, <3>3, Zenon
    <2>5. /\ copied(i, o.parent) \in Nat
          /\ \A k \in 1..m : template[k].id = o.parent =>
                 copied(i, o.parent) = ids[nth(i) * m + k]
          /\ o.parent \notin IdsOf(template) => copied(i, o.parent) = o.parent
        BY <1>8, <2>3
    <2> DEFINE par == IF o.id = top THEN p ELSE copied(i, o.parent)
               x == Interpolate(o.text, r)
               y == Interpolate(o.value, r)
               nr == [o EXCEPT !.id = copied(i, o.id), !.parent = par,
                               !.prev = prevOf(i, o), !.text = x, !.value = y, !.of = r]
    <2>6. par \in Nat /\ prevOf(i, o) \in Nat /\ x \in Piece /\ y \in Piece
        BY <1>10, <2>2, <2>3, <2>5, InterpolateTyped
    <2>7. made(i) = nr
        BY DEF o, r, j
    <2> HIDE DEF par, x, y, made
    <2>8. nr \in Row
        BY <2>2, <2>4, <2>6, Rewritten
    <2>9. /\ nr.id = copied(i, o.id) /\ nr.parent = par
          /\ nr.text = x /\ nr.value = y /\ nr.of = r
          /\ nr.tag = o.tag /\ nr.repeat = o.repeat /\ nr.bind = o.bind
          /\ nr.coll = o.coll /\ nr.field = o.field /\ nr.name = o.name
        BY <2>2 DEF Row
    <2> HIDE DEF nr
    <2>10. /\ o.id = top => par = p
           /\ o.id # top => par = copied(i, o.parent)
        BY DEF par
    <2>11. /\ made(i) \in Row
           /\ o \in ToSet(template) /\ r \in Int
           /\ made(i).id = ids[i]
           /\ made(i).tag = o.tag /\ made(i).repeat = o.repeat
           /\ made(i).bind = o.bind /\ made(i).coll = o.coll
           /\ made(i).field = o.field /\ made(i).name = o.name
           /\ made(i).text = Interpolate(o.text, r)
           /\ made(i).value = Interpolate(o.value, r)
           /\ made(i).of = r
           /\ o.id = top => made(i).parent = p
           /\ o.id # top => \A k \in 1..m :
                  template[k].id = o.parent => made(i).parent = ids[nth(i) * m + k]
           /\ o.id # top /\ o.parent \notin IdsOf(template) => made(i).parent = o.parent
        BY <2>2, <2>4, <2>5, <2>7, <2>8, <2>9, <2>10 DEF x, y
    <2>12. /\ o = Origin(template, i) /\ r = recs[Serial(template, i) + 1]
           /\ nth(i) = Serial(template, i)
        BY DEF o, r, j, m, nth, Origin, Serial
    <2>13. ClonePrev(made(i), i, template, top, ids)
        <3> DEFINE q == nth(i)
        <3>1. made(i).prev = prevOf(i, o)
            <4>1. nr.prev = prevOf(i, o)
                BY <2>2 DEF nr, Row
            <4> QED
                BY <2>7, <4>1
        <3>2. q \in Int /\ q - 1 \in Int /\ 1..m \subseteq Int
            BY <1>1, <1>7
        <3>3. o.id # top => /\ \A k \in 1..m : template[k].id = o.prev => made(i).prev = ids[q * m + k]
                            /\ o.prev \notin IdsOf(template) => made(i).prev = o.prev
            BY <1>8, <1>10, <2>2, <3>1, RowFields
        <3>4. /\ o.id = top /\ q = 0 => made(i).prev = NoRow
              /\ o.id = top /\ q # 0 => made(i).prev = rootOf(q - 1)
            BY <1>10, <2>2, <3>1
        <3>5. \A k \in 1..m : template[k].id = top => rootOf(q - 1) = ids[(q - 1) * m + k]
            <4> HIDE DEF q
            <4> QED
                BY <1>9, <3>2
        <3> HIDE DEF q
        <3>6. q = Serial(template, i) /\ o = Origin(template, i) /\ m = Len(template)
            BY <2>12 DEF q, m
        <3> QED
            BY <3>3, <3>4, <3>5, <3>6 DEF ClonePrev
    <2> QED
        BY <2>11, <2>12, <2>13 DEF CloneRow, m
<1> HIDE DEF made
<1>12. /\ cl \in Seq(Row) /\ Len(cl) = m * n
       /\ \A i \in 1..(m * n) : cl[i] = made(i)
    <2>1. \A i \in 1..(m * n) : made(i) \in Row
        BY <1>11
    <2>2. cl \in [1..(m * n) -> Row]
        BY <1>3, <2>1
    <2>3. cl \in Seq(Row) /\ Len(cl) = m * n
        BY <1>2, <2>2
    <2> QED
        BY <1>3, <2>3
<1> QED
    BY <1>11, <1>12 DEF m, n

-----------------------------------------------------------------------------
(* The passes: types and texts *)

Phases == {"library", "repeat", "bind", "refs", "wire", "group", "build",
           "render", "done", "failed", "hung"}

Repeating == {r \in Row : r.repeat \in Coll}
Bound(rs) == {i \in DOMAIN rs : rs[i].bind \in Coll}

PassInv ==
    /\ phase \in Phases
    /\ RowsOK(rows, supply)
    /\ cache \in [DOMAIN cache -> Seq(Int)] /\ DOMAIN cache \subseteq Coll
    /\ records \in [Coll -> Seq(Int)] /\ changes \in Nat
    /\ phase = "repeat" => todo \in Seq(Repeating)
    /\ phase = "bind" => todo \in Seq(Bound(rows))

PiecesOf(rs) == {r.text : r \in ToSet(rs)} \cup {r.value : r \in ToSet(rs)}

\* What TextsAgree says of the pieces of a page.
Agree(P) ==
    \A x, y \in P :
        x.coll = y.coll =>
            /\ x.say = y.say /\ x.say \in {"byBind", "byRef"} => x.of = y.of
            /\ ~ (x.say = "ref" /\ y.say = "byRef")

TextInv ==
    /\ phase = "repeat" => \A x \in PiecesOf(rows) : x.say \notin {"byBind", "byRef"}
    /\ phase = "bind" =>
           \A x \in PiecesOf(rows) :
               /\ x.say # "byRef"
               /\ x.say = "byBind" => /\ x.coll \in DOMAIN cache
                                      /\ x.of = Head(cache[x.coll])
    /\ phase = "refs" =>
           /\ \A x \in PiecesOf(rows) : x.say # "byRef"
           /\ Agree(PiecesOf(rows))
    /\ phase \in {"wire", "group", "build", "render", "done", "failed", "hung"} =>
           Agree(PiecesOf(rows))

LEMMA PageInit == Init => PassInv /\ TextInv
<1> SUFFICES ASSUME Init PROVE PassInv /\ TextInv
    OBVIOUS
<1>1. CASE RenderInit
    <2>1. PICK l \in Loads : page = l.rows /\ records = l.records /\ supply = l.supply
                              /\ changes = l.changes
        BY <1>1 DEF RenderInit
    <2>2. /\ rows = l.rows /\ phase = "repeat" /\ todo = Repeaters(rows) /\ cache = <<>>
        BY <1>1, <2>1 DEF RenderInit, Idle
    <2>3. /\ rows \in Seq(Row) /\ supply \in Seq(Nat) /\ IsInjective(supply)
          /\ IdsOf(rows) \cup ToSet(supply) \subseteq Uuid \ {Body}
          /\ IdsOf(rows) \cap ToSet(supply) = {}
          /\ Distinct(rows)
          /\ records \in [Coll -> Seq(Int)] /\ changes \in Nat
          /\ \A i \in DOMAIN rows : Raw(rows[i].text) /\ Raw(rows[i].value)
        BY <2>1, <2>2, LoadsAssumption DEF Distinct
    <2>4. cache \in [DOMAIN cache -> Seq(Int)] /\ DOMAIN cache = {}
        BY <2>2
    <2>5. todo \in Seq(Repeating)
        <3> DEFINE S == {r \in ToSet(rows) : r.repeat # NoColl}
        <3>1. Only(rows, S) \in Seq(Row) /\ ToSet(Only(rows, S)) = ToSet(rows) \cap S
            BY <2>3, OnlyEffect, OnlyMembers
        <3>2. todo = Only(rows, S)
            BY <2>2 DEF Repeaters
        <3>3. todo \in Seq(Row) /\ \A i \in DOMAIN todo : todo[i] \in S
            BY <3>1, <3>2 DEF ToSet
        <3> HIDE DEF S
        <3>4. \A i \in 1..Len(todo) : todo[i] \in Repeating
            <4>1. \A i \in 1..Len(todo) : todo[i] \in Row /\ todo[i].repeat # NoColl
                BY <3>3 DEF S
            <4> QED
                BY <4>1, RowFields DEF Repeating
        <3> QED
            BY <3>3, <3>4
    <2>6. \A x \in PiecesOf(rows) : x.say \notin {"byBind", "byRef"}
        BY <2>3 DEF PiecesOf, ToSet, Raw
    <2> QED
        BY <2>2, <2>3, <2>4, <2>5, <2>6 DEF PassInv, TextInv, RowsOK, Phases
<1>2. CASE LibraryInit
    <2>1. /\ phase = "library" /\ rows = <<>> /\ supply = <<>> /\ cache = <<>>
          /\ records = [c \in Coll |-> <<>>] /\ changes = 0
        BY <1>2 DEF LibraryInit, Idle
    <2>2. RowsOK(<<>>, <<>>)
        BY DEF RowsOK, Distinct, IsInjective, IdsOf, ToSet
    <2>3. records \in [Coll -> Seq(Int)] /\ changes \in Nat
        BY <2>1
    <2> QED
        BY <2>1, <2>2, <2>3 DEF PassInv, TextInv, Phases
<1> QED
    BY <1>1, <1>2 DEF Init

LEMMA TailOf ==
    ASSUME NEW X, NEW s \in Seq(X), s # <<>>
    PROVE  Head(s) \in X /\ Tail(s) \in Seq(X)
OBVIOUS

LEMMA ReadTyped ==
    ASSUME PassInv, NEW c \in Coll
    PROVE  /\ Read(c) \in Seq(Int)
           /\ Cached(c) \in [DOMAIN cache \cup {c} -> Seq(Int)]
           /\ DOMAIN Cached(c) = DOMAIN cache \cup {c}
           /\ DOMAIN Cached(c) \subseteq Coll
           /\ \A d \in DOMAIN cache : Cached(c)[d] = cache[d]
           /\ Cached(c)[c] = Read(c)
<1>1. cache \in [DOMAIN cache -> Seq(Int)] /\ DOMAIN cache \subseteq Coll
      /\ records \in [Coll -> Seq(Int)]
    BY DEF PassInv
<1>2. \A d \in DOMAIN cache \cup {c} : Read(d) \in Seq(Int)
    BY <1>1 DEF Read
<1> QED
    BY <1>1, <1>2 DEF Cached, Read

-----------------------------------------------------------------------------
(* What is reached along the edges E in n rounds *)

Shut(E, S) == \A e \in E : e[1] \in S => e[2] \in S

Reached(E, v, S) ==
    /\ v \in S /\ Shut(E, S)
    /\ \A T : v \in T /\ Shut(E, T) => S \subseteq T

Rounds(E, v, n, g) ==
    /\ g[0] = {v}
    /\ \A k \in 1..n : g[k] = g[k - 1] \cup {e[2] : e \in {d \in E : d[1] \in g[k - 1]}}

\* n rounds are enough where the edges lead to no more than n places.
LEMMA RoundsEnd ==
    ASSUME NEW E, NEW v, NEW n \in Nat, NEW g, Rounds(E, v, n, g),
           NEW T, IsFiniteSet(T), Cardinality(T) <= n, \A e \in E : e[2] \in T
    PROVE  Reached(E, v, g[n])
<1> DEFINE L == {k \in 0..n : /\ v \in g[k] /\ g[k] \subseteq T \cup {v}
                              /\ Shut(E, g[k]) \/ Cardinality(g[k] \ {v}) >= k}
<1>0. n \in 0..n /\ n \in 0..n
    OBVIOUS
<1>1. 0 \in L
    <2>1. g[0] = {v} /\ g[0] \ {v} = {}
        BY DEF Rounds
    <2> QED
        BY <2>1, FS_EmptySet
<1>2. ASSUME NEW k \in 1..n, k - 1 \in L
      PROVE  k \in L
    <2>0. k \in 0..n /\ k - 1 \in 0..n /\ k \in Nat
        OBVIOUS
    <2>1. g[k] = g[k - 1] \cup {e[2] : e \in {d \in E : d[1] \in g[k - 1]}}
        BY DEF Rounds
    <2>2. v \in g[k - 1] /\ g[k - 1] \subseteq T \cup {v}
        BY <1>2
    <2>3. v \in g[k] /\ g[k] \subseteq T \cup {v} /\ g[k - 1] \subseteq g[k]
        BY <2>1, <2>2
    <2>4. CASE Shut(E, g[k - 1])
        <3>1. g[k] = g[k - 1]
            BY <2>1, <2>4 DEF Shut
        <3> QED
            BY <2>0, <2>3, <2>4, <3>1
    <2>5. CASE ~ Shut(E, g[k - 1])
        <3>1. PICK e \in E : e[1] \in g[k - 1] /\ e[2] \notin g[k - 1]
            BY <2>5 DEF Shut
        <3>2. e[2] \in g[k] \ {v} /\ e[2] \notin g[k - 1] \ {v}
            BY <2>1, <2>2, <3>1
        <3> DEFINE A == g[k - 1] \ {v}
                   B == g[k] \ {v}
        <3>3. B \in SUBSET T /\ A \in SUBSET T /\ A \cup {e[2]} \in SUBSET B /\ e[2] \notin A
            BY <2>2, <2>3, <3>2
        <3>35. Cardinality(A) >= k - 1
            BY <1>2, <2>5
        <3> HIDE DEF A, B
        <3>4. IsFiniteSet(B) /\ IsFiniteSet(A)
            BY <3>3, FS_Subset
        <3>5. IsFiniteSet(A \cup {e[2]}) /\ Cardinality(A \cup {e[2]}) = Cardinality(A) + 1
            BY <3>3, <3>4, FS_AddElement
        <3>6. Cardinality(A \cup {e[2]}) <= Cardinality(B)
            BY <3>3, <3>4, FS_Subset
        <3>7. Cardinality(A) \in Nat /\ Cardinality(B) \in Nat
            BY <3>4, FS_CardinalityType
        <3>8. Cardinality(B) >= k
            BY <2>0, <3>35, <3>5, <3>6, <3>7
        <3> QED
            BY <2>0, <2>3, <3>8 DEF B
    <2> QED
        BY <2>4, <2>5
<1>3. n \in L
    <2> HIDE DEF L
    <2>1. 0..n \subseteq L
        BY <1>1, <1>2, StepByStep
    <2> QED
        BY <1>0, <2>1
<1>4. Shut(E, g[n])
    <2>1. CASE Cardinality(g[n] \ {v}) >= n
        <3> DEFINE B == g[n] \ {v}
        <3>1. B \in SUBSET T /\ v \in g[n]
            BY <1>3
        <3>2. Cardinality(B) >= n
            BY <2>1
        <3> HIDE DEF B
        <3>3. IsFiniteSet(B) /\ Cardinality(B) <= Cardinality(T)
            BY <3>1, FS_Subset
        <3>4. Cardinality(B) \in Nat /\ Cardinality(T) \in Nat
            BY <3>3, FS_CardinalityType
        <3>5. Cardinality(T) = Cardinality(B)
            BY <3>2, <3>3, <3>4
        <3>6. T = B
            BY <3>1, <3>5, FS_Subset
        <3> QED
            BY <3>6 DEF B, Shut
    <2> QED
        BY <1>3, <2>1
<1>5. ASSUME NEW S, v \in S, Shut(E, S)
      PROVE  g[n] \subseteq S
    <2> DEFINE M == {k \in 0..n : g[k] \subseteq S}
    <2>1. 0 \in M
        BY <1>5 DEF Rounds
    <2>2. ASSUME NEW k \in 1..n, k - 1 \in M
          PROVE  k \in M
        <3>1. g[k] = g[k - 1] \cup {e[2] : e \in {d \in E : d[1] \in g[k - 1]}}
            BY DEF Rounds
        <3>2. k \in 0..n /\ g[k - 1] \subseteq S
            BY <2>2
        <3> QED
            BY <1>5, <3>1, <3>2 DEF Shut
    <2>3. n \in M
        <3> HIDE DEF M
        <3>1. 0..n \subseteq M
            BY <2>1, <2>2, StepByStep
        <3> QED
            BY <1>0, <3>1
    <2> QED
        BY <2>3
<1> QED
    BY <1>3, <1>4, <1>5 DEF Reached

LEMMA SetOfSeq ==
    ASSUME NEW X, NEW s \in Seq(X) PROVE ToSet(s) \subseteq X
BY DEF ToSet

UpEdges(rs) == {<<r.id, r.parent>> : r \in ToSet(rs)}
DownEdges(rs) == {<<r.parent, r.id>> : r \in ToSet(rs)}

LEMMA FieldsAreFew ==
    ASSUME NEW rs \in Seq(Row)
    PROVE  /\ IsFiniteSet(IdsOf(rs)) /\ Cardinality(IdsOf(rs)) <= Len(rs)
           /\ IsFiniteSet({rs[i].parent : i \in DOMAIN rs})
           /\ Cardinality({rs[i].parent : i \in DOMAIN rs}) <= Len(rs)
<1>1. Len(rs) \in Nat /\ DOMAIN rs = 1..Len(rs)
    OBVIOUS
<1>2. IsFiniteSet(1..Len(rs)) /\ Cardinality(1..Len(rs)) = Len(rs)
    BY <1>1, FS_Interval
<1>3. ASSUME NEW S, NEW f \in [1..Len(rs) -> S], \A x \in S : \E i \in 1..Len(rs) : f[i] = x
      PROVE  IsFiniteSet(S) /\ Cardinality(S) <= Len(rs)
    <2>1. f \in Surjection(1..Len(rs), S)
        BY <1>3 DEF Surjection
    <2> QED
        BY <1>2, <2>1, FS_Surjection
<1>4. IsFiniteSet(IdsOf(rs)) /\ Cardinality(IdsOf(rs)) <= Len(rs)
    <2> DEFINE f == [i \in 1..Len(rs) |-> rs[i].id]
    <2>1. f \in [1..Len(rs) -> IdsOf(rs)]
        BY <1>1 DEF IdsOf
    <2>2. \A x \in IdsOf(rs) : \E i \in 1..Len(rs) : f[i] = x
        BY <1>1 DEF IdsOf
    <2> HIDE DEF f
    <2> QED
        BY <1>3, <2>1, <2>2
<1>5. IsFiniteSet({rs[i].parent : i \in DOMAIN rs})
      /\ Cardinality({rs[i].parent : i \in DOMAIN rs}) <= Len(rs)
    <2> DEFINE f == [i \in 1..Len(rs) |-> rs[i].parent]
               S == {rs[i].parent : i \in DOMAIN rs}
    <2>1. f \in [1..Len(rs) -> S]
        BY <1>1
    <2>2. \A x \in S : \E i \in 1..Len(rs) : f[i] = x
        BY <1>1
    <2> HIDE DEF f, S
    <2>3. IsFiniteSet(S) /\ Cardinality(S) <= Len(rs)
        BY <1>3, <2>1, <2>2
    <2> QED
        BY <2>3 DEF S
<1> QED
    BY <1>4, <1>5

LEMMA AncestryReached ==
    ASSUME NEW rs \in Seq(Row), NEW id
    PROVE  Reached(UpEdges(rs), id, Ancestry(rs, id))
<1>0. Len(rs) \in Nat
    OBVIOUS
<1> DEFINE more(S) == {r.parent : r \in {x \in ToSet(rs) : x.id \in S}}
           V == SUBSET (Nat \cup {id})
           st == [p \in (1..Len(rs)) \X V |-> p[2] \cup more(p[2])]
<1>1. st \in [(1..Len(rs)) \X V -> V]
    <2>0. ToSet(rs) \subseteq Row
        BY SetOfSeq
    <2>1. \A r \in ToSet(rs) : r.parent \in Nat
        BY <2>0, RowFields
    <2> QED
        BY <2>1
<1>2. PICK g \in [0..Len(rs) -> V] : Iterates(st, {id}, Len(rs), g)
    <2> HIDE DEF st
    <2>1. {id} \in V
        OBVIOUS
    <2> HIDE DEF V
    <2> QED
        BY <1>0, <1>1, <2>1, RecursionEnds
<1>3. g[0] = {id} /\ \A k \in 1..Len(rs) : g[k] = g[k - 1] \cup more(g[k - 1])
    <2>1. ASSUME NEW k \in 1..Len(rs)
          PROVE  g[k] = g[k - 1] \cup more(g[k - 1])
        <3>1. k - 1 \in 0..Len(rs)
            BY <1>0
        <3>2. <<k, g[k - 1]>> \in (1..Len(rs)) \X V
            BY <3>1
        <3> HIDE DEF V, more
        <3>3. g[k] = st[<<k, g[k - 1]>>]
            BY <1>2 DEF Iterates
        <3> QED
            BY <3>2, <3>3
    <2> QED
        BY <1>2, <2>1 DEF Iterates
<1> HIDE DEF V, st
<1>4. g = [k \in 0..Len(rs) |-> IF k = 0 THEN {id} ELSE g[k - 1] \cup more(g[k - 1])]
    <2> HIDE DEF more
    <2>1. ASSUME NEW k \in 0..Len(rs)
          PROVE  g[k] = IF k = 0 THEN {id} ELSE g[k - 1] \cup more(g[k - 1])
        <3>1. k = 0 \/ k \in 1..Len(rs)
            BY <1>0
        <3> QED
            BY <1>3, <3>1
    <2> QED
        BY <2>1
<1> DEFINE grown == CHOOSE h : h = [k \in 0..Len(rs) |->
                        IF k = 0 THEN {id} ELSE h[k - 1] \cup more(h[k - 1])]
<1>5. grown = [k \in 0..Len(rs) |->
                  IF k = 0 THEN {id} ELSE grown[k - 1] \cup more(grown[k - 1])]
    <2> HIDE DEF more
    <2> QED
        BY <1>4
<1>6. Ancestry(rs, id) = grown[Len(rs)]
    BY DEF Ancestry
<1> HIDE DEF grown
<1>7. Rounds(UpEdges(rs), id, Len(rs), grown)
    <2>1. grown[0] = {id}
        <3> HIDE DEF more
        <3>1. 0 \in 0..Len(rs)
            BY <1>0
        <3> QED
            BY <1>5, <3>1
    <2>2. ASSUME NEW k \in 1..Len(rs)
          PROVE  grown[k] = grown[k - 1]
                     \cup {e[2] : e \in {d \in UpEdges(rs) : d[1] \in grown[k - 1]}}
        <3>1. k \in 0..Len(rs) /\ k # 0
            BY <1>0
        <3>2. grown[k] = grown[k - 1] \cup more(grown[k - 1])
            <4> HIDE DEF more
            <4> QED
                BY <1>5, <3>1
        <3>3. ASSUME NEW S
              PROVE  more(S) = {e[2] : e \in {d \in UpEdges(rs) : d[1] \in S}}
            <4>1. ASSUME NEW r \in ToSet(rs), r.id \in S
                  PROVE  r.parent \in {e[2] : e \in {d \in UpEdges(rs) : d[1] \in S}}
                <5>1. <<r.id, r.parent>> \in {d \in UpEdges(rs) : d[1] \in S}
                    BY <4>1 DEF UpEdges
                <5> QED
                    BY <5>1
            <4>2. ASSUME NEW e \in UpEdges(rs), e[1] \in S
                  PROVE  e[2] \in more(S)
                BY <4>2 DEF UpEdges
            <4> QED
                BY <4>1, <4>2
        <3> HIDE DEF more
        <3> QED
            BY <3>2, <3>3
    <2> QED
        BY <2>1, <2>2 DEF Rounds
<1>8. /\ IsFiniteSet({rs[i].parent : i \in DOMAIN rs}) /\ Cardinality({rs[i].parent : i \in DOMAIN rs}) <= Len(rs)
      /\ \A e \in UpEdges(rs) : e[2] \in {rs[i].parent : i \in DOMAIN rs}
    BY FieldsAreFew DEF UpEdges, IdsOf, ToSet
<1> QED
    BY <1>0, <1>6, <1>7, <1>8, RoundsEnd

LEMMA SubtreeReached ==
    ASSUME NEW rs \in Seq(Row), NEW top
    PROVE  Reached(DownEdges(rs), top, Subtree(rs, top))
<1>0. Len(rs) \in Nat
    OBVIOUS
<1> DEFINE more(S) == {r.id : r \in {x \in ToSet(rs) : x.parent \in S}}
           V == SUBSET (Nat \cup {top})
           st == [p \in (1..Len(rs)) \X V |-> p[2] \cup more(p[2])]
<1>1. st \in [(1..Len(rs)) \X V -> V]
    <2>0. ToSet(rs) \subseteq Row
        BY SetOfSeq
    <2>1. \A r \in ToSet(rs) : r.id \in Nat
        BY <2>0, RowFields
    <2> QED
        BY <2>1
<1>2. PICK g \in [0..Len(rs) -> V] : Iterates(st, {top}, Len(rs), g)
    <2> HIDE DEF st
    <2>1. {top} \in V
        OBVIOUS
    <2> HIDE DEF V
    <2> QED
        BY <1>0, <1>1, <2>1, RecursionEnds
<1>3. g[0] = {top} /\ \A k \in 1..Len(rs) : g[k] = g[k - 1] \cup more(g[k - 1])
    <2>1. ASSUME NEW k \in 1..Len(rs)
          PROVE  g[k] = g[k - 1] \cup more(g[k - 1])
        <3>1. k - 1 \in 0..Len(rs)
            BY <1>0
        <3>2. <<k, g[k - 1]>> \in (1..Len(rs)) \X V
            BY <3>1
        <3> HIDE DEF V, more
        <3>3. g[k] = st[<<k, g[k - 1]>>]
            BY <1>2 DEF Iterates
        <3> QED
            BY <3>2, <3>3
    <2> QED
        BY <1>2, <2>1 DEF Iterates
<1> HIDE DEF V, st
<1>4. g = [k \in 0..Len(rs) |-> IF k = 0 THEN {top} ELSE g[k - 1] \cup more(g[k - 1])]
    <2> HIDE DEF more
    <2>1. ASSUME NEW k \in 0..Len(rs)
          PROVE  g[k] = IF k = 0 THEN {top} ELSE g[k - 1] \cup more(g[k - 1])
        <3>1. k = 0 \/ k \in 1..Len(rs)
            BY <1>0
        <3> QED
            BY <1>3, <3>1
    <2> QED
        BY <2>1
<1> DEFINE grown == CHOOSE h : h = [k \in 0..Len(rs) |->
                        IF k = 0 THEN {top} ELSE h[k - 1] \cup more(h[k - 1])]
<1>5. grown = [k \in 0..Len(rs) |->
                  IF k = 0 THEN {top} ELSE grown[k - 1] \cup more(grown[k - 1])]
    <2> HIDE DEF more
    <2> QED
        BY <1>4
<1>6. Subtree(rs, top) = grown[Len(rs)]
    BY DEF Subtree
<1> HIDE DEF grown
<1>7. Rounds(DownEdges(rs), top, Len(rs), grown)
    <2>1. grown[0] = {top}
        <3> HIDE DEF more
        <3>1. 0 \in 0..Len(rs)
            BY <1>0
        <3> QED
            BY <1>5, <3>1
    <2>2. ASSUME NEW k \in 1..Len(rs)
          PROVE  grown[k] = grown[k - 1]
                     \cup {e[2] : e \in {d \in DownEdges(rs) : d[1] \in grown[k - 1]}}
        <3>1. k \in 0..Len(rs) /\ k # 0
            BY <1>0
        <3>2. grown[k] = grown[k - 1] \cup more(grown[k - 1])
            <4> HIDE DEF more
            <4> QED
                BY <1>5, <3>1
        <3>3. ASSUME NEW S
              PROVE  more(S) = {e[2] : e \in {d \in DownEdges(rs) : d[1] \in S}}
            <4>1. ASSUME NEW r \in ToSet(rs), r.parent \in S
                  PROVE  r.id \in {e[2] : e \in {d \in DownEdges(rs) : d[1] \in S}}
                <5>1. <<r.parent, r.id>> \in {d \in DownEdges(rs) : d[1] \in S}
                    BY <4>1 DEF DownEdges
                <5> QED
                    BY <5>1
            <4>2. ASSUME NEW e \in DownEdges(rs), e[1] \in S
                  PROVE  e[2] \in more(S)
                BY <4>2 DEF DownEdges
            <4> QED
                BY <4>1, <4>2
        <3> HIDE DEF more
        <3> QED
            BY <3>2, <3>3
    <2> QED
        BY <2>1, <2>2 DEF Rounds
<1>8. /\ IsFiniteSet(IdsOf(rs)) /\ Cardinality(IdsOf(rs)) <= Len(rs)
      /\ \A e \in DownEdges(rs) : e[2] \in IdsOf(rs)
    BY FieldsAreFew DEF DownEdges, IdsOf, ToSet
<1> QED
    BY <1>0, <1>6, <1>7, <1>8, RoundsEnd

-----------------------------------------------------------------------------
(* expand_repeaters *)

Kept(rs, gone) == Only(rs, {r \in ToSet(rs) : r.id \notin gone})
Template(rs, gone) == Only(rs, {r \in ToSet(rs) : r.id \in gone})

LEMMA SplitRows ==
    ASSUME NEW rs \in Seq(Row), Distinct(rs), NEW gone
    PROVE  /\ Template(rs, gone) \in Seq(Row) /\ Kept(rs, gone) \in Seq(Row)
           /\ Distinct(Template(rs, gone)) /\ Distinct(Kept(rs, gone))
           /\ IdsOf(Template(rs, gone)) = IdsOf(rs) \cap gone
           /\ IdsOf(Kept(rs, gone)) = IdsOf(rs) \ gone
           /\ ToSet(Template(rs, gone)) = {r \in ToSet(rs) : r.id \in gone}
           /\ ToSet(Kept(rs, gone)) = {r \in ToSet(rs) : r.id \notin gone}
<1> DEFINE A == {r \in ToSet(rs) : r.id \in gone}
           B == {r \in ToSet(rs) : r.id \notin gone}
<1>1. IdsOf(rs) = {r.id : r \in ToSet(rs)}
    BY IdsAreOfRows
<1>2. ToSet(rs) \cap A = A /\ ToSet(rs) \cap B = B
    OBVIOUS
<1>3. {r.id : r \in A} = IdsOf(rs) \cap gone /\ {r.id : r \in B} = IdsOf(rs) \ gone
    BY <1>1
<1>4. Template(rs, gone) = Only(rs, A) /\ Kept(rs, gone) = Only(rs, B)
    BY DEF Template, Kept
<1> HIDE DEF A, B
<1>5. /\ Only(rs, A) \in Seq(Row) /\ Distinct(Only(rs, A))
      /\ IdsOf(Only(rs, A)) = IdsOf(rs) \cap gone /\ ToSet(Only(rs, A)) = A
    <2>1. /\ Only(rs, A) \in Seq(Row) /\ Distinct(Only(rs, A))
          /\ IdsOf(Only(rs, A)) = {r.id : r \in ToSet(rs) \cap A}
        BY OnlyKeepsDistinct
    <2>2. ToSet(Only(rs, A)) = ToSet(rs) \cap A
        BY OnlyMembers
    <2> QED
        BY <1>2, <1>3, <2>1, <2>2
<1>6. /\ Only(rs, B) \in Seq(Row) /\ Distinct(Only(rs, B))
      /\ IdsOf(Only(rs, B)) = IdsOf(rs) \ gone /\ ToSet(Only(rs, B)) = B
    <2>1. /\ Only(rs, B) \in Seq(Row) /\ Distinct(Only(rs, B))
          /\ IdsOf(Only(rs, B)) = {r.id : r \in ToSet(rs) \cap B}
        BY OnlyKeepsDistinct
    <2>2. ToSet(Only(rs, B)) = ToSet(rs) \cap B
        BY OnlyMembers
    <2> QED
        BY <1>2, <1>3, <2>1, <2>2
<1> QED
    BY <1>4, <1>5, <1>6 DEF A, B

\* One repeater, all at once.
Expanded(rs, top, p, recs, ids) ==
    Kept(rs, Subtree(rs, top))
        \o Clones(Template(rs, Subtree(rs, top)), top, p, recs, ids)

Used(rs, top, recs) == Len(Template(rs, Subtree(rs, top))) * Len(recs)

LEMMA TemplateIsFit ==
    ASSUME NEW rs \in Seq(Row), Distinct(rs), NEW top \in IdsOf(rs)
    PROVE  LET template == Template(rs, Subtree(rs, top))
           IN  /\ template \in Seq(Row) /\ Distinct(template) /\ template # <<>>
               /\ top \in IdsOf(template) /\ Len(template) \in Nat \ {0}
<1> DEFINE template == Template(rs, Subtree(rs, top))
<1>1. top \in Subtree(rs, top)
    BY SubtreeReached DEF Reached
<1>2. template \in Seq(Row) /\ Distinct(template) /\ top \in IdsOf(template)
    BY <1>1, SplitRows
<1> HIDE DEF template
<1>3. template # <<>>
    BY <1>2 DEF IdsOf
<1>4. Len(template) \in Nat \ {0}
    BY <1>2, <1>3, EmptySeq
<1> QED
    BY <1>2, <1>3, <1>4 DEF template

LEMMA ClonesIds ==
    ASSUME NEW template \in Seq(Row), Distinct(template), template # <<>>,
           NEW top \in IdsOf(template), NEW p \in Nat,
           NEW recs \in Seq(Int), NEW ids \in Seq(Nat), IsInjective(ids),
           Len(template) * Len(recs) <= Len(ids),
           NEW cl, cl = Clones(template, top, p, recs, ids)
    PROVE  /\ cl \in Seq(Row) /\ Distinct(cl)
           /\ DOMAIN cl = 1..(Len(template) * Len(recs))
           /\ IdsOf(cl) = {ids[i] : i \in 1..(Len(template) * Len(recs))}
           /\ Len(template) * Len(recs) \in Nat
<1> DEFINE u == Len(template) * Len(recs)
<1>1. /\ cl \in Seq(Row) /\ Len(cl) = u
      /\ \A i \in 1..u : CloneRow(cl[i], i, template, top, p, recs, ids)
    BY ClonesEffect
<1>2. u \in Nat
    <2>1. Len(template) \in Nat /\ Len(recs) \in Nat
        OBVIOUS
    <2> QED
        BY <2>1, SMT
<1>3. u <= Len(ids)
    OBVIOUS
<1> HIDE DEF u
<1>4. \A i \in 1..u : cl[i].id = ids[i]
    BY <1>1 DEF CloneRow
<1>5. DOMAIN cl = 1..u
    BY <1>1
<1>6. 1..u \subseteq DOMAIN ids
    <2>1. DOMAIN ids = 1..Len(ids) /\ Len(ids) \in Nat
        OBVIOUS
    <2> QED
        BY <1>2, <1>3, <2>1
<1>7. Distinct(cl)
    BY <1>4, <1>5, <1>6 DEF Distinct, IsInjective
<1>8. IdsOf(cl) = {ids[i] : i \in 1..u}
    BY <1>4, <1>5 DEF IdsOf
<1> QED
    BY <1>1, <1>2, <1>5, <1>7, <1>8 DEF u

LEMMA ExpandedIsOK ==
    ASSUME NEW rs, NEW ids, RowsOK(rs, ids), NEW top \in IdsOf(rs), NEW p \in Nat,
           NEW recs \in Seq(Int), NEW u, u = Used(rs, top, recs), u <= Len(ids)
    PROVE  /\ RowsOK(Expanded(rs, top, p, recs, ids), SubSeq(ids, u + 1, Len(ids)))
           /\ ToSet(Expanded(rs, top, p, recs, ids)) =
                  ToSet(Kept(rs, Subtree(rs, top)))
                  \cup ToSet(Clones(Template(rs, Subtree(rs, top)), top, p, recs, ids))
<1> DEFINE gone == Subtree(rs, top)
           template == Template(rs, gone)
           kept == Kept(rs, gone)
           cl == Clones(template, top, p, recs, ids)
           left == SubSeq(ids, u + 1, Len(ids))
<1>0. /\ rs \in Seq(Row) /\ Distinct(rs) /\ ids \in Seq(Nat) /\ IsInjective(ids)
      /\ IdsOf(rs) \cup ToSet(ids) \subseteq Uuid \ {Body} /\ IdsOf(rs) \cap ToSet(ids) = {}
    BY DEF RowsOK
<1>1. template \in Seq(Row) /\ Distinct(template) /\ template # <<>> /\ top \in IdsOf(template)
    BY <1>0, TemplateIsFit
<1>2. kept \in Seq(Row) /\ Distinct(kept) /\ IdsOf(kept) \subseteq IdsOf(rs)
    BY <1>0, SplitRows
<1>3. u = Len(template) * Len(recs)
    BY DEF Used
<1>4. Expanded(rs, top, p, recs, ids) = kept \o cl
    BY DEF Expanded
<1> HIDE DEF gone, template, kept
<1>5. /\ cl \in Seq(Row) /\ Distinct(cl) /\ u \in Nat
      /\ IdsOf(cl) = {ids[i] : i \in 1..u}
    BY <1>0, <1>1, <1>3, ClonesIds
<1> HIDE DEF cl
<1>6. /\ left \in Seq(Nat) /\ IsInjective(left) /\ ToSet(left) \subseteq ToSet(ids)
      /\ \A i \in 1..u : ids[i] \in ToSet(ids) \ ToSet(left)
    BY <1>0, <1>5, Drawn
<1> HIDE DEF left
<1>7. IdsOf(kept) \cap IdsOf(cl) = {} /\ IdsOf(cl) \subseteq ToSet(ids)
      /\ IdsOf(cl) \cap ToSet(left) = {}
    BY <1>0, <1>2, <1>5, <1>6
<1>8. /\ kept \o cl \in Seq(Row) /\ Distinct(kept \o cl)
      /\ IdsOf(kept \o cl) = IdsOf(kept) \cup IdsOf(cl)
    BY <1>2, <1>5, <1>7, JoinedDistinct
<1>9. RowsOK(kept \o cl, left)
    BY <1>0, <1>2, <1>6, <1>7, <1>8 DEF RowsOK
<1>10. ToSet(kept \o cl) = ToSet(kept) \cup ToSet(cl)
    BY <1>2, <1>5, Joined
<1> QED
    BY <1>4, <1>9, <1>10 DEF left, kept, cl, template, gone

\* What ExpandRepeater does, in the words of this module.
LEMMA ExpandCases ==
    ASSUME PassInv, ExpandRepeater
    PROVE  /\ phase = "repeat" /\ todo # <<>> /\ todo' = Tail(todo)
           /\ \E p \in Nat, c \in Coll :
                  /\ p = Head(todo).id /\ c = Head(todo).repeat
                  /\ Read(c) \in Seq(Int) /\ cache' = Cached(c)
                  /\ \/ UNCHANGED <<rows, supply>>
                     \/ \E r \in ToSet(rows) :
                           /\ r.parent = p /\ r.prev = NoRow /\ r.id \in IdsOf(rows)
                           /\ Used(rows, r.id, Read(c)) <= Len(supply)
                           /\ rows' = Expanded(rows, r.id, p, Read(c), supply)
                           /\ supply' = SubSeq(supply, Used(rows, r.id, Read(c)) + 1, Len(supply))
<1>1. phase = "repeat" /\ todo # <<>> /\ todo' = Tail(todo)
    BY DEF ExpandRepeater
<1>2. Head(todo) \in Repeating
    BY <1>1, TailOf DEF PassInv
<1> DEFINE p == Head(todo).id
           c == Head(todo).repeat
<1>3. p \in Nat /\ c \in Coll
    BY <1>2, RowFields DEF Repeating
<1>4. Read(c) \in Seq(Int)
    BY <1>3, ReadTyped
<1>5. cache' = Cached(c)
    BY DEF ExpandRepeater
<1>6. CASE Templates(rows, p) = <<>>
    <2>1. UNCHANGED <<rows, supply>>
        BY <1>6 DEF ExpandRepeater
    <2> QED
        BY <1>1, <1>3, <1>4, <1>5, <2>1
<1>7. CASE Templates(rows, p) # <<>>
    <2> DEFINE r == Head(Templates(rows, p))
               S == {x \in ToSet(rows) : x.parent = p /\ x.prev = NoRow}
    <2>1. rows \in Seq(Row)
        BY DEF PassInv, RowsOK
    <2>2. Only(rows, S) \in Seq(Row) /\ ToSet(Only(rows, S)) = ToSet(rows) \cap S
        BY <2>1, OnlyEffect, OnlyMembers
    <2>3. Templates(rows, p) = Only(rows, S)
        BY DEF Templates
    <2>4. r \in ToSet(Templates(rows, p))
        <3> HIDE DEF S
        <3>1. Templates(rows, p) \in Seq(Row)
            BY <2>2, <2>3
        <3>2. 1 \in DOMAIN Templates(rows, p) /\ r = Templates(rows, p)[1]
            BY <1>7, <3>1
        <3> QED
            BY <3>2 DEF ToSet
    <2>5. r \in S /\ r \in ToSet(rows)
        <3> HIDE DEF S
        <3> QED
            BY <2>2, <2>3, <2>4
    <2>6. r.id \in IdsOf(rows)
        BY <2>5, IdsAreOfRows
    <2>7. /\ Used(rows, r.id, Read(c)) <= Len(supply)
          /\ rows' = Expanded(rows, r.id, p, Read(c), supply)
          /\ supply' = SubSeq(supply, Used(rows, r.id, Read(c)) + 1, Len(supply))
        BY <1>7 DEF ExpandRepeater, Expanded, Used, Kept, Template
    <2> HIDE DEF r, p, c
    <2>8. r \in ToSet(rows) /\ r.parent = p /\ r.prev = NoRow
        BY <2>5
    <2> QED
        BY <1>1, <1>3, <1>4, <1>5, <2>6, <2>7, <2>8 DEF p, c
<1> QED
    BY <1>6, <1>7

LEMMA InterpolateSays ==
    ASSUME NEW x, NEW r
    PROVE  Interpolate(x, r) = x \/ Interpolate(x, r).say \in {"byKey", "empty"}
<1>1. CASE x.say = "key"
    BY <1>1 DEF Interpolate, Value
<1>2. CASE x.say \in {"badkey", "ref"}
    BY <1>2 DEF Interpolate, Nothing
<1>3. CASE x.say \notin {"key", "badkey", "ref"}
    BY <1>3 DEF Interpolate
<1> QED
    BY <1>1, <1>2, <1>3

\* A piece of an expanded page was on the page, or a record's key filled it.
LEMMA ExpandedPieces ==
    ASSUME NEW rs, NEW ids, RowsOK(rs, ids), NEW top \in IdsOf(rs), NEW p \in Nat,
           NEW recs \in Seq(Int), Used(rs, top, recs) <= Len(ids),
           NEW x \in PiecesOf(Expanded(rs, top, p, recs, ids))
    PROVE  x \in PiecesOf(rs) \/ x.say \in {"byKey", "empty"}
<1> DEFINE template == Template(rs, Subtree(rs, top))
           cl == Clones(template, top, p, recs, ids)
<1>0. rs \in Seq(Row) /\ Distinct(rs) /\ ids \in Seq(Nat)
    BY DEF RowsOK
<1>1. /\ template \in Seq(Row) /\ Distinct(template) /\ template # <<>>
      /\ top \in IdsOf(template)
      /\ ToSet(template) \subseteq ToSet(rs) /\ ToSet(Kept(rs, Subtree(rs, top))) \subseteq ToSet(rs)
    BY <1>0, TemplateIsFit, SplitRows
<1>2. Len(template) * Len(recs) <= Len(ids)
    BY DEF Used
<1> HIDE DEF template
<1>3. /\ cl \in Seq(Row) /\ Len(cl) = Len(template) * Len(recs)
      /\ \A i \in 1..(Len(template) * Len(recs)) :
             CloneRow(cl[i], i, template, top, p, recs, ids)
    BY <1>0, <1>1, <1>2, ClonesEffect
<1>4. ToSet(Expanded(rs, top, p, recs, ids)) = ToSet(Kept(rs, Subtree(rs, top))) \cup ToSet(cl)
    BY ExpandedIsOK DEF template
<1> HIDE DEF cl
<1>5. ASSUME NEW r \in ToSet(Expanded(rs, top, p, recs, ids)), x \in {r.text, r.value}
      PROVE  x \in PiecesOf(rs) \/ x.say \in {"byKey", "empty"}
    <2>1. CASE r \in ToSet(Kept(rs, Subtree(rs, top)))
        BY <1>1, <1>5, <2>1 DEF PiecesOf
    <2>2. CASE r \in ToSet(cl)
        <3>1. PICK i \in DOMAIN cl : r = cl[i]
            BY <2>2 DEF ToSet
        <3>2. i \in 1..(Len(template) * Len(recs))
            BY <1>3
        <3>3. CloneRow(r, i, template, top, p, recs, ids)
            BY <1>3, <3>1, <3>2
        <3>4. PICK o \in ToSet(template) :
                  \E v : r.text = Interpolate(o.text, v) /\ r.value = Interpolate(o.value, v)
            BY <3>3 DEF CloneRow
        <3>5. {o.text, o.value} \subseteq PiecesOf(rs)
            BY <1>1, <3>4 DEF PiecesOf
        <3> QED
            BY <1>5, <3>4, <3>5, InterpolateSays
    <2> QED
        BY <1>4, <1>5, <2>1, <2>2
<1> QED
    BY <1>5 DEF PiecesOf

LEMMA ExpandKeeps ==
    ASSUME PassInv, TextInv, ExpandRepeater
    PROVE  PassInv' /\ TextInv'
<1>1. phase = "repeat" /\ todo # <<>> /\ todo' = Tail(todo)
    BY ExpandCases
<1>2. phase' = phase /\ UNCHANGED recordVars
    BY DEF ExpandRepeater
<1>3. PICK p \in Nat, c \in Coll :
          /\ Read(c) \in Seq(Int) /\ cache' = Cached(c)
          /\ \/ UNCHANGED <<rows, supply>>
             \/ \E r \in ToSet(rows) :
                   /\ r.parent = p /\ r.prev = NoRow /\ r.id \in IdsOf(rows)
                   /\ Used(rows, r.id, Read(c)) <= Len(supply)
                   /\ rows' = Expanded(rows, r.id, p, Read(c), supply)
                   /\ supply' = SubSeq(supply, Used(rows, r.id, Read(c)) + 1, Len(supply))
    BY ExpandCases
<1>4. cache' \in [DOMAIN cache' -> Seq(Int)] /\ DOMAIN cache' \subseteq Coll
    BY <1>3, ReadTyped
<1>5. todo' \in Seq(Repeating)
    BY <1>1, TailOf DEF PassInv
<1>6. RowsOK(rows', supply') /\ \A x \in PiecesOf(rows') : x.say \notin {"byBind", "byRef"}
    <2>0. RowsOK(rows, supply) /\ \A x \in PiecesOf(rows) : x.say \notin {"byBind", "byRef"}
        BY <1>1 DEF PassInv, TextInv
    <2>1. CASE UNCHANGED <<rows, supply>>
        BY <2>0, <2>1
    <2>2. ASSUME NEW top \in IdsOf(rows), Used(rows, top, Read(c)) <= Len(supply),
                 rows' = Expanded(rows, top, p, Read(c), supply),
                 supply' = SubSeq(supply, Used(rows, top, Read(c)) + 1, Len(supply))
          PROVE  RowsOK(rows', supply') /\ \A x \in PiecesOf(rows') : x.say \notin {"byBind", "byRef"}
        <3>1. RowsOK(rows', supply')
            BY <1>3, <2>0, <2>2, ExpandedIsOK
        <3>2. ASSUME NEW x \in PiecesOf(rows')
              PROVE  x.say \notin {"byBind", "byRef"}
            <4>1. x \in PiecesOf(rows) \/ x.say \in {"byKey", "empty"}
                BY <1>3, <2>0, <2>2, ExpandedPieces
            <4> QED
                BY <2>0, <4>1
        <3> QED
            BY <3>1, <3>2
    <2> QED
        BY <1>3, <2>1, <2>2
<1>7. records' \in [Coll -> Seq(Int)] /\ changes' \in Nat
    BY <1>2 DEF recordVars, PassInv
<1> QED
    BY <1>1, <1>2, <1>4, <1>5, <1>6, <1>7 DEF PassInv, TextInv, Phases

LEMMA RepeatersDoneKeeps ==
    ASSUME PassInv, TextInv, RepeatersDone
    PROVE  PassInv' /\ TextInv'
<1>1. /\ phase = "repeat" /\ phase' = "bind" /\ cache' = <<>> /\ todo' = BoundRows(rows)
      /\ UNCHANGED <<rows, supply, records, changes>>
    BY DEF RepeatersDone, recordVars
<1>2. rows \in Seq(Row)
    BY DEF PassInv, RowsOK
<1> DEFINE at == [i \in DOMAIN rows |-> i]
           S == {i \in DOMAIN rows : rows[i].bind # NoColl}
<1>3. at \in Seq(DOMAIN rows) /\ ToSet(at) = DOMAIN rows
    <2>1. DOMAIN rows = 1..Len(rows) /\ Len(rows) \in Nat
        BY <1>2
    <2>2. at \in [1..Len(rows) -> DOMAIN rows] /\ DOMAIN at = DOMAIN rows
        BY <2>1
    <2>3. at \in Seq(DOMAIN rows)
        BY <2>1, <2>2
    <2>4. ToSet(at) = DOMAIN rows
        BY <2>2 DEF ToSet
    <2> QED
        BY <2>3, <2>4
<1>4. todo' = Only(at, S)
    BY <1>1 DEF BoundRows
<1> HIDE DEF at
<1>5. Only(at, S) \in Seq(DOMAIN rows) /\ ToSet(Only(at, S)) = DOMAIN rows \cap S
    <2> HIDE DEF S
    <2> QED
        BY <1>3, OnlyEffect, OnlyMembers
<1>6. S \subseteq Bound(rows)
    <2>1. \A i \in DOMAIN rows : rows[i] \in Row
        BY <1>2
    <2> QED
        BY <2>1, RowFields DEF Bound
<1>7. todo' \in Seq(Bound(rows))
    <2> HIDE DEF S
    <2>1. todo' \in Seq(DOMAIN rows) /\ \A i \in DOMAIN todo' : todo'[i] \in Bound(rows)
        BY <1>4, <1>5, <1>6 DEF ToSet
    <2>2. \A i \in 1..Len(todo') : todo'[i] \in Bound(rows)
        BY <2>1
    <2> QED
        BY <2>1, <2>2
<1>8. Bound(rows') = Bound(rows)
    BY <1>1 DEF Bound
<1>9. PassInv'
    BY <1>1, <1>7, <1>8 DEF PassInv, Phases
<1>10. TextInv'
    BY <1>1 DEF TextInv
<1> QED
    BY <1>9, <1>10

-----------------------------------------------------------------------------
(* resolve_bindings, interpolate_collection_refs, auto_wire_forms *)

LEMMA InPlace ==
    ASSUME NEW rs, NEW ids, RowsOK(rs, ids), NEW rt, DOMAIN rt = DOMAIN rs,
           rt \in Seq(Row), \A i \in DOMAIN rs : rt[i].id = rs[i].id
    PROVE  RowsOK(rt, ids)
<1>1. IdsOf(rt) = IdsOf(rs)
    BY DEF IdsOf
<1>2. Distinct(rt)
    BY DEF RowsOK, Distinct
<1> QED
    BY <1>1, <1>2 DEF RowsOK

LEMMA BindKeeps ==
    ASSUME PassInv, TextInv, BindRow
    PROVE  PassInv' /\ TextInv'
<1>1. /\ phase = "bind" /\ todo # <<>> /\ todo' = Tail(todo) /\ phase' = phase
      /\ UNCHANGED <<supply, records, changes>>
    BY DEF BindRow, recordVars
<1> DEFINE i == Head(todo)
           c == rows[i].bind
           v == Value("byBind", c, Head(Read(c)))
<1>2. i \in Bound(rows) /\ todo' \in Seq(Bound(rows))
    BY <1>1, TailOf DEF PassInv
<1>3. i \in DOMAIN rows /\ c \in Coll
    BY <1>2 DEF Bound
<1>4. /\ cache' = Cached(c)
      /\ rows' = IF Read(c) = <<>> THEN rows
                 ELSE IF rows[i].tag = "input" THEN [rows EXCEPT ![i].value = v]
                 ELSE [rows EXCEPT ![i].text = v]
    BY DEF BindRow
<1>5. RowsOK(rows, supply) /\ rows \in Seq(Row)
    BY DEF PassInv, RowsOK
<1>6. /\ Read(c) \in Seq(Int)
      /\ cache' \in [DOMAIN cache' -> Seq(Int)] /\ DOMAIN cache' \subseteq Coll
      /\ DOMAIN cache' = DOMAIN cache \cup {c}
      /\ cache'[c] = Read(c)
      /\ \A d \in DOMAIN cache : cache'[d] = cache[d]
    BY <1>3, <1>4, ReadTyped
<1> HIDE DEF i, c
<1>7. CASE Read(c) = <<>>
    <2>1. rows' = rows
        BY <1>4, <1>7
    <2>2. PassInv'
        BY <1>1, <1>2, <1>6, <2>1 DEF PassInv, Bound
    <2>3. TextInv'
        BY <1>1, <1>6, <2>1 DEF TextInv
    <2> QED
        BY <2>2, <2>3
<1>8. CASE Read(c) # <<>>
    <2>1. Head(Read(c)) \in Int
        BY <1>6, <1>8
    <2>2. /\ v \in Piece /\ v.say = "byBind" /\ v.coll = c /\ v.of = Head(Read(c))
        BY <1>3, <2>1 DEF Value, Piece
    <2> HIDE DEF v
    <2>3. /\ rows' = [j \in DOMAIN rows |-> rows'[j]]
          /\ DOMAIN rows' = DOMAIN rows
          /\ \A j \in DOMAIN rows :
                 /\ rows'[j] \in Row
                 /\ rows'[j].id = rows[j].id /\ rows'[j].bind = rows[j].bind
                 /\ rows'[j].text \in {rows[j].text, v} /\ rows'[j].value \in {rows[j].value, v}
        <3>1. CASE rows[i].tag = "input"
            <4>1. rows' = [rows EXCEPT ![i].value = v]
                BY <1>4, <1>8, <3>1
            <4>2. ASSUME NEW j \in DOMAIN rows
                  PROVE  /\ rows'[j] \in Row
                         /\ rows'[j].id = rows[j].id /\ rows'[j].bind = rows[j].bind
                         /\ rows'[j].text \in {rows[j].text, v}
                         /\ rows'[j].value \in {rows[j].value, v}
                <5>1. rows[j] \in Row
                    BY <1>5
                <5>2. rows'[j] = IF j = i THEN [rows[j] EXCEPT !.value = v] ELSE rows[j]
                    BY <4>1
                <5> QED
                    BY <2>2, <5>1, <5>2 DEF Row
            <4>3. rows' = [j \in DOMAIN rows |-> rows'[j]]
                BY <4>1
            <4> QED
                BY <4>1, <4>2, <4>3
        <3>2. CASE rows[i].tag # "input"
            <4>1. rows' = [rows EXCEPT ![i].text = v]
                BY <1>4, <1>8, <3>2
            <4>2. ASSUME NEW j \in DOMAIN rows
                  PROVE  /\ rows'[j] \in Row
                         /\ rows'[j].id = rows[j].id /\ rows'[j].bind = rows[j].bind
                         /\ rows'[j].text \in {rows[j].text, v}
                         /\ rows'[j].value \in {rows[j].value, v}
                <5>1. rows[j] \in Row
                    BY <1>5
                <5>2. rows'[j] = IF j = i THEN [rows[j] EXCEPT !.text = v] ELSE rows[j]
                    BY <4>1
                <5> QED
                    BY <2>2, <5>1, <5>2 DEF Row
            <4>3. rows' = [j \in DOMAIN rows |-> rows'[j]]
                BY <4>1
            <4> QED
                BY <4>1, <4>2, <4>3
        <3> QED
            BY <3>1, <3>2
    <2>4. rows' \in Seq(Row)
        <3>1. DOMAIN rows' = 1..Len(rows) /\ Len(rows) \in Nat
            BY <1>5, <2>3
        <3>3. rows' \in [1..Len(rows) -> Row]
            BY <2>3, <3>1
        <3> QED
            BY <3>1, <3>3
    <2>5. RowsOK(rows', supply)
        BY <1>5, <2>3, <2>4, InPlace
    <2>6. Bound(rows') = Bound(rows)
        BY <2>3 DEF Bound
    <2>7. PassInv'
        BY <1>1, <1>2, <1>6, <2>5, <2>6 DEF PassInv
    <2>8. \A x \in PiecesOf(rows') : x \in PiecesOf(rows) \/ x = v
        BY <2>3 DEF PiecesOf, ToSet
    <2>9. \A x \in PiecesOf(rows) :
              /\ x.say # "byRef"
              /\ x.say = "byBind" => x.coll \in DOMAIN cache /\ x.of = Head(cache[x.coll])
        BY <1>1 DEF TextInv
    <2>10. ASSUME NEW x \in PiecesOf(rows')
           PROVE  /\ x.say # "byRef"
                  /\ x.say = "byBind" => x.coll \in DOMAIN cache' /\ x.of = Head(cache'[x.coll])
        <3>1. CASE x = v
            BY <1>6, <2>2, <3>1
        <3>2. CASE x \in PiecesOf(rows)
            BY <1>6, <2>9, <3>2
        <3> QED
            BY <2>8, <3>1, <3>2
    <2>11. TextInv'
        BY <1>1, <2>10 DEF TextInv
    <2> QED
        BY <2>7, <2>11
<1> QED
    BY <1>7, <1>8

LEMMA BindingsDoneKeeps ==
    ASSUME PassInv, TextInv, BindingsDone
    PROVE  PassInv' /\ TextInv'
<1>1. /\ phase = "bind" /\ phase' = "refs" /\ cache' = <<>>
      /\ UNCHANGED <<rows, supply, records, changes>>
    BY DEF BindingsDone, recordVars
<1>2. PassInv'
    BY <1>1 DEF PassInv, Phases
<1>3. Agree(PiecesOf(rows))
    BY <1>1 DEF TextInv, Agree
<1> QED
    BY <1>1, <1>2, <1>3 DEF TextInv

LEMMA ReadRefKeeps ==
    ASSUME PassInv, TextInv, NEW c \in Coll, ReadRef(c)
    PROVE  PassInv' /\ TextInv'
<1>1. /\ phase = "refs" /\ phase' = phase /\ cache' = Cached(c)
      /\ UNCHANGED <<rows, supply, records, changes>>
    BY DEF ReadRef, recordVars
<1>2. cache' \in [DOMAIN cache' -> Seq(Int)] /\ DOMAIN cache' \subseteq Coll
    BY <1>1, ReadTyped
<1> QED
    BY <1>1, <1>2 DEF PassInv, TextInv

LEMMA InterpolateRefsKeeps ==
    ASSUME PassInv, TextInv, InterpolateCollectionRefs
    PROVE  PassInv' /\ TextInv'
<1>1. /\ phase = "refs" /\ phase' = "wire" /\ {x.coll : x \in Seen} \subseteq DOMAIN cache
      /\ rows' = [i \in DOMAIN rows |-> [rows[i] EXCEPT !.text = InterpolateNamed(@),
                                                       !.value = InterpolateNamed(@)]]
      /\ UNCHANGED <<cache, supply, records, changes>>
    BY DEF InterpolateCollectionRefs, recordVars
<1>2. RowsOK(rows, supply) /\ rows \in Seq(Row)
    BY DEF PassInv, RowsOK
<1>3. cache \in [DOMAIN cache -> Seq(Int)] /\ DOMAIN cache \subseteq Coll
    BY DEF PassInv
<1>4. \A i \in DOMAIN rows : rows[i] \in Row
    BY <1>2
<1>5. \A i \in DOMAIN rows : \A x \in {rows[i].text, rows[i].value} :
          x.say = "ref" => x.coll \in DOMAIN cache
    BY <1>1 DEF Seen
<1>6. ASSUME NEW x \in Piece, x.say = "ref" => x.coll \in DOMAIN cache
      PROVE  /\ InterpolateNamed(x) \in Piece
             /\ InterpolateNamed(x).coll = x.coll
             /\ InterpolateNamed(x) = x \/
                    /\ x.say = "ref" /\ cache[x.coll] # <<>>
                    /\ InterpolateNamed(x).say = "byRef"
                    /\ InterpolateNamed(x).of = Head(cache[x.coll])
             /\ InterpolateNamed(x).say = "ref" => cache[x.coll] = <<>>
    <2>1. CASE x.say = "ref" /\ cache[x.coll] # <<>>
        <3>1. InterpolateNamed(x) = [say |-> "byRef", coll |-> x.coll, of |-> Head(cache[x.coll])]
            BY <2>1 DEF InterpolateNamed, Value
        <3>2. Head(cache[x.coll]) \in Int
            <4>1. cache[x.coll] \in Seq(Int)
                BY <1>3, <1>6, <2>1
            <4> QED
                BY <2>1, <4>1
        <3>3. x.coll \in Coll \cup {NoColl}
            BY DEF Piece
        <3> QED
            BY <2>1, <3>1, <3>2, <3>3 DEF Piece
    <2>2. CASE ~ (x.say = "ref" /\ cache[x.coll] # <<>>)
        <3>1. InterpolateNamed(x) = x
            BY <2>2 DEF InterpolateNamed
        <3> QED
            BY <2>2, <3>1
    <2> QED
        BY <2>1, <2>2
<1>7. ASSUME NEW i \in DOMAIN rows
      PROVE  /\ rows'[i] \in Row /\ rows'[i].id = rows[i].id
             /\ rows'[i].text = InterpolateNamed(rows[i].text)
             /\ rows'[i].value = InterpolateNamed(rows[i].value)
    <2> DEFINE x == InterpolateNamed(rows[i].text)
               y == InterpolateNamed(rows[i].value)
    <2>1. rows[i] \in Row /\ rows[i].text \in Piece /\ rows[i].value \in Piece
        BY <1>4, RowFields
    <2>2. x \in Piece /\ y \in Piece
        BY <1>5, <1>6, <2>1
    <2>3. rows'[i] = [rows[i] EXCEPT !.text = x, !.value = y]
        BY <1>1
    <2> HIDE DEF x, y
    <2>4. rows'[i] \in Row /\ rows'[i].id = rows[i].id /\ rows'[i].text = x /\ rows'[i].value = y
        BY <2>1, <2>2, <2>3 DEF Row
    <2> QED
        BY <2>4 DEF x, y
<1>8. DOMAIN rows' = DOMAIN rows /\ rows' = [i \in DOMAIN rows |-> rows'[i]]
    BY <1>1
<1>9. rows' \in Seq(Row)
    <2>1. DOMAIN rows = 1..Len(rows) /\ Len(rows) \in Nat
        BY <1>2
    <2>2. rows' \in [1..Len(rows) -> Row]
        BY <1>7, <1>8, <2>1
    <2> QED
        BY <2>1, <2>2
<1>10. RowsOK(rows', supply)
    BY <1>2, <1>7, <1>8, <1>9, InPlace
<1>11. PassInv'
    BY <1>1, <1>3, <1>10 DEF PassInv, Phases
<1>12. \A z \in PiecesOf(rows') : \E x \in PiecesOf(rows) :
           /\ x \in Piece /\ z = InterpolateNamed(x)
           /\ x.say = "ref" => x.coll \in DOMAIN cache
    <2>1. ASSUME NEW i \in DOMAIN rows
          PROVE  /\ {rows[i].text, rows[i].value} \subseteq Piece
                 /\ {rows[i].text, rows[i].value} \subseteq PiecesOf(rows)
        BY <1>4, RowFields DEF PiecesOf, ToSet
    <2>2. ASSUME NEW z \in PiecesOf(rows')
          PROVE  \E i \in DOMAIN rows : z = InterpolateNamed(rows[i].text)
                                        \/ z = InterpolateNamed(rows[i].value)
        <3>1. PICK i \in DOMAIN rows : z \in {rows'[i].text, rows'[i].value}
            BY <1>8 DEF PiecesOf, ToSet
        <3> QED
            BY <1>7, <3>1
    <2> QED
        BY <1>5, <2>1, <2>2
<1>13. /\ \A x \in PiecesOf(rows) : x.say # "byRef"
       /\ Agree(PiecesOf(rows))
    BY <1>1 DEF TextInv
<1>14. ASSUME NEW z \in PiecesOf(rows'), NEW w \in PiecesOf(rows'), z.coll = w.coll
       PROVE  /\ z.say = w.say /\ z.say \in {"byBind", "byRef"} => z.of = w.of
              /\ ~ (z.say = "ref" /\ w.say = "byRef")
    <2>1. PICK x \in PiecesOf(rows) :
              /\ x \in Piece /\ z = InterpolateNamed(x)
              /\ x.say = "ref" => x.coll \in DOMAIN cache
        BY <1>12
    <2>2. PICK y \in PiecesOf(rows) :
              /\ y \in Piece /\ w = InterpolateNamed(y)
              /\ y.say = "ref" => y.coll \in DOMAIN cache
        BY <1>12
    <2>3. /\ z.coll = x.coll
          /\ z = x \/ (x.say = "ref" /\ cache[x.coll] # <<>> /\ z.say = "byRef"
                        /\ z.of = Head(cache[x.coll]))
          /\ z.say = "ref" => cache[x.coll] = <<>>
        BY <1>6, <2>1
    <2>4. /\ w.coll = y.coll
          /\ w = y \/ (y.say = "ref" /\ cache[y.coll] # <<>> /\ w.say = "byRef"
                        /\ w.of = Head(cache[y.coll]))
        BY <1>6, <2>2
    <2>5. x.coll = y.coll
        BY <1>14, <2>3, <2>4
    <2>6. x.say # "byRef" /\ y.say # "byRef"
        BY <1>13
    <2>7. ~ (z.say = "ref" /\ w.say = "byRef")
        BY <2>3, <2>4, <2>5, <2>6
    <2>8. CASE z.say = "byRef" /\ w.say = "byRef"
        BY <2>3, <2>4, <2>5, <2>6, <2>7, <2>8
    <2>9. CASE z.say = "byBind" /\ w.say = "byBind"
        <3>1. z = x /\ w = y
            BY <2>3, <2>4, <2>9
        <3>2. x.of = y.of
            BY <1>13, <2>5, <2>9, <3>1 DEF Agree
        <3> QED
            BY <2>7, <3>1, <3>2
    <2> QED
        BY <2>7, <2>8, <2>9
<1>15. TextInv'
    BY <1>1, <1>14 DEF TextInv, Agree
<1> QED
    BY <1>11, <1>15

\* What auto_wire_forms makes of the rows, with n uuids drawn.
LEMMA NamedRows ==
    ASSUME NEW rs \in Seq(Row)
    PROVE  /\ Named(rs) \in Seq(Row) /\ DOMAIN Named(rs) = DOMAIN rs
           /\ \A i \in DOMAIN rs :
                  Named(rs)[i] \in {rs[i], [rs[i] EXCEPT !.name = "field"]}
<1>1. DOMAIN rs = 1..Len(rs) /\ Len(rs) \in Nat /\ \A i \in DOMAIN rs : rs[i] \in Row
    OBVIOUS
<1>2. /\ DOMAIN Named(rs) = DOMAIN rs /\ Named(rs) = [i \in DOMAIN rs |-> Named(rs)[i]]
      /\ \A i \in DOMAIN rs : Named(rs)[i] \in {rs[i], [rs[i] EXCEPT !.name = "field"]}
    BY DEF Named
<1>3. \A r \in Row : [r EXCEPT !.name = "field"] \in Row
    BY DEF Row
<1>4. \A i \in DOMAIN rs : Named(rs)[i] \in Row
    BY <1>1, <1>2, <1>3
<1>5. Named(rs) \in [1..Len(rs) -> Row]
    BY <1>1, <1>2, <1>4
<1>6. Named(rs) \in Seq(Row)
    BY <1>1, <1>5
<1> QED
    BY <1>2, <1>6

LEMMA InputRow ==
    ASSUME NEW id \in Nat, NEW form \in Nat, NEW q \in Nat
    PROVE  [id |-> id, parent |-> form, prev |-> q, tag |-> "input", repeat |-> NoColl,
            bind |-> NoColl, coll |-> NoColl, field |-> FALSE, name |-> "_csrf",
            text |-> Nothing, value |-> Nothing, of |-> 0] \in Row
<1>1. Nothing \in Piece
    BY DEF Nothing, Piece
<1> QED
    BY <1>1 DEF Row

LEMMA CsrfTyped ==
    ASSUME NEW rs \in Seq(Row), NEW form \in Nat, NEW id \in Nat
    PROVE  CsrfInput(rs, form, id) \in Row
<1> DEFINE S == {r \in ToSet(rs) : r.parent = form /\ \A x \in ToSet(rs) : x.prev # r.id}
           q == IF Tails(rs, form) = <<>> THEN NoRow ELSE Head(Tails(rs, form)).id
<1>1. Tails(rs, form) \in Seq(Row)
    <2>1. Tails(rs, form) = Only(rs, S)
        BY DEF Tails
    <2> HIDE DEF S
    <2> QED
        BY <2>1, OnlyEffect
<1>2. q \in Nat
    <2>1. CASE Tails(rs, form) = <<>>
        BY <2>1 DEF NoRow
    <2>2. CASE Tails(rs, form) # <<>>
        <3>1. Head(Tails(rs, form)) \in Row
            BY <1>1, <2>2
        <3> QED
            BY <2>2, <3>1, RowFields
    <2> QED
        BY <2>1, <2>2
<1>4. CsrfInput(rs, form, id) =
          [id |-> id, parent |-> form, prev |-> q, tag |-> "input", repeat |-> NoColl,
           bind |-> NoColl, coll |-> NoColl, field |-> FALSE, name |-> "_csrf",
           text |-> Nothing, value |-> Nothing, of |-> 0]
    BY DEF CsrfInput
<1> HIDE DEF q
<1> QED
    BY <1>2, <1>4, InputRow

Inputs(rs, ids) ==
    [k \in DOMAIN FormRows(rs) |-> CsrfInput(rs, FormRows(rs)[k].id, ids[k])]

LEMMA FormRowsTyped ==
    ASSUME NEW rs \in Seq(Row)
    PROVE  /\ FormRows(rs) \in Seq(Row)
           /\ ToSet(FormRows(rs)) = {r \in ToSet(rs) : r.tag = "form" /\ r.coll # NoColl}
<1> DEFINE S == {r \in ToSet(rs) : r.tag = "form" /\ r.coll # NoColl}
<1>1. FormRows(rs) = Only(rs, S) /\ ToSet(rs) \cap S = S
    BY DEF FormRows
<1> HIDE DEF S
<1>2. Only(rs, S) \in Seq(Row)
    BY OnlyEffect
<1>3. ToSet(Only(rs, S)) = ToSet(rs) \cap S
    BY OnlyMembers
<1> QED
    BY <1>1, <1>2, <1>3 DEF S

LEMMA InputsAreFit ==
    ASSUME NEW rs, NEW ids, RowsOK(rs, ids), Len(FormRows(rs)) <= Len(ids)
    PROVE  /\ Inputs(rs, ids) \in Seq(Row) /\ Distinct(Inputs(rs, ids))
           /\ DOMAIN Inputs(rs, ids) = 1..Len(FormRows(rs))
           /\ Len(FormRows(rs)) \in Nat
           /\ IdsOf(Inputs(rs, ids)) = {ids[k] : k \in 1..Len(FormRows(rs))}
<1> DEFINE n == Len(FormRows(rs))
           w == Inputs(rs, ids)
<1>1. rs \in Seq(Row) /\ ids \in Seq(Nat) /\ IsInjective(ids)
    BY DEF RowsOK
<1>2. FormRows(rs) \in Seq(Row)
    BY <1>1, FormRowsTyped
<1>3. n \in Nat /\ DOMAIN FormRows(rs) = 1..n /\ \A k \in 1..n : FormRows(rs)[k] \in Row
    BY <1>2
<1>4. n <= Len(ids) /\ Len(ids) \in Nat /\ DOMAIN ids = 1..Len(ids)
    BY <1>1
<1>5. \A k \in 1..n : k \in DOMAIN ids /\ ids[k] \in Nat
    BY <1>1, <1>3, <1>4
<1>6. DOMAIN w = 1..n /\ \A k \in 1..n : w[k] = CsrfInput(rs, FormRows(rs)[k].id, ids[k])
    BY <1>3 DEF Inputs
<1>7. ASSUME NEW k \in 1..n
      PROVE  w[k] \in Row
    <2>1. FormRows(rs)[k].id \in Nat
        BY <1>3, RowFields
    <2>2. CsrfInput(rs, FormRows(rs)[k].id, ids[k]) \in Row
        BY <1>1, <1>5, <2>1, CsrfTyped
    <2> QED
        BY <1>6, <2>2
<1>8. \A k \in 1..n : w[k].id = ids[k]
    BY <1>6 DEF CsrfInput
<1>9. w \in Seq(Row)
    <2>1. w \in [1..n -> Row]
        BY <1>6, <1>7 DEF Inputs
    <2> HIDE DEF w, n
    <2> QED
        BY <1>3, <2>1
<1> HIDE DEF w, n
<1>10. Distinct(w)
    BY <1>1, <1>5, <1>6, <1>8 DEF Distinct, IsInjective
<1>11. IdsOf(w) = {ids[k] : k \in 1..n}
    BY <1>6, <1>8 DEF IdsOf
<1> QED
    BY <1>3, <1>6, <1>9, <1>10, <1>11 DEF w, n

LEMMA WiredIsOK ==
    ASSUME NEW rs, NEW ids, RowsOK(rs, ids), Len(FormRows(rs)) <= Len(ids)
    PROVE  /\ RowsOK(Named(rs) \o Inputs(rs, ids),
                     SubSeq(ids, Len(FormRows(rs)) + 1, Len(ids)))
           /\ ToSet(Named(rs) \o Inputs(rs, ids)) = ToSet(Named(rs)) \cup ToSet(Inputs(rs, ids))
<1> DEFINE n == Len(FormRows(rs))
           w == Inputs(rs, ids)
           left == SubSeq(ids, n + 1, Len(ids))
<1>1. /\ rs \in Seq(Row) /\ Distinct(rs) /\ ids \in Seq(Nat) /\ IsInjective(ids)
      /\ IdsOf(rs) \cup ToSet(ids) \subseteq Uuid \ {Body} /\ IdsOf(rs) \cap ToSet(ids) = {}
    BY DEF RowsOK
<1>2. RowsOK(Named(rs), ids)
    <2>1. \A i \in DOMAIN rs : Named(rs)[i].id = rs[i].id
        <3>1. \A i \in DOMAIN rs : rs[i] \in Row
            BY <1>1
        <3>2. \A r \in Row : [r EXCEPT !.name = "field"].id = r.id
            BY DEF Row
        <3> QED
            BY <1>1, <3>1, <3>2, NamedRows
    <2> QED
        BY <1>1, <2>1, NamedRows, InPlace
<1>3. /\ w \in Seq(Row) /\ Distinct(w) /\ n \in Nat
      /\ IdsOf(w) = {ids[k] : k \in 1..n}
    BY InputsAreFit
<1>4. n <= Len(ids)
    OBVIOUS
<1> HIDE DEF w, n
<1>5. /\ left \in Seq(Nat) /\ IsInjective(left) /\ ToSet(left) \subseteq ToSet(ids)
      /\ \A i \in 1..n : ids[i] \in ToSet(ids) \ ToSet(left)
    BY <1>1, <1>3, <1>4, Drawn
<1> HIDE DEF left
<1> DEFINE m == Named(rs)
<1>6. /\ m \in Seq(Row) /\ Distinct(m) /\ IdsOf(m) \cap ToSet(ids) = {}
      /\ IdsOf(m) \subseteq Uuid \ {Body}
    BY <1>2 DEF RowsOK
<1> HIDE DEF m
<1>7. IdsOf(m) \cap IdsOf(w) = {} /\ IdsOf(w) \subseteq ToSet(ids) /\ IdsOf(w) \cap ToSet(left) = {}
    BY <1>3, <1>5, <1>6
<1>8. m \o w \in Seq(Row) /\ Distinct(m \o w) /\ IdsOf(m \o w) = IdsOf(m) \cup IdsOf(w)
    BY <1>3, <1>6, <1>7, JoinedDistinct
<1>9. RowsOK(m \o w, left)
    BY <1>1, <1>5, <1>6, <1>7, <1>8 DEF RowsOK
<1>10. ToSet(m \o w) = ToSet(m) \cup ToSet(w)
    BY <1>3, <1>6, Joined
<1> QED
    BY <1>9, <1>10 DEF m, w, left, n

LEMMA WireEffect ==
    ASSUME AutoWireForms
    PROVE  /\ phase = "wire" /\ phase' = "group" /\ Len(FormRows(rows)) <= Len(supply)
           /\ rows' = Named(rows) \o Inputs(rows, supply)
           /\ supply' = SubSeq(supply, Len(FormRows(rows)) + 1, Len(supply))
           /\ UNCHANGED <<cache, records, changes, page>>
BY DEF AutoWireForms, Inputs, recordVars

LEMMA WirePieces ==
    ASSUME NEW rs, NEW ids, RowsOK(rs, ids), Len(FormRows(rs)) <= Len(ids)
    PROVE  PiecesOf(Named(rs) \o Inputs(rs, ids)) \subseteq PiecesOf(rs) \cup {Nothing}
<1>1. rs \in Seq(Row) /\ \A i \in DOMAIN rs : rs[i] \in Row
    BY DEF RowsOK
<1>2. ToSet(Named(rs) \o Inputs(rs, ids)) = ToSet(Named(rs)) \cup ToSet(Inputs(rs, ids))
    BY WiredIsOK
<1>3. ASSUME NEW r \in ToSet(Named(rs))
      PROVE  {r.text, r.value} \subseteq PiecesOf(rs)
    <2>1. PICK i \in DOMAIN rs : r \in {rs[i], [rs[i] EXCEPT !.name = "field"]}
        BY <1>1, NamedRows DEF ToSet
    <2>2. r.text = rs[i].text /\ r.value = rs[i].value
        BY <1>1, <2>1 DEF Row
    <2> QED
        BY <2>2 DEF PiecesOf, ToSet
<1>4. ASSUME NEW r \in ToSet(Inputs(rs, ids))
      PROVE  r.text = Nothing /\ r.value = Nothing
    BY DEF ToSet, Inputs, CsrfInput
<1> QED
    BY <1>2, <1>3, <1>4 DEF PiecesOf

LEMMA AutoWireKeeps ==
    ASSUME PassInv, TextInv, AutoWireForms
    PROVE  PassInv' /\ TextInv'
<1>1. RowsOK(rows, supply) /\ Len(FormRows(rows)) <= Len(supply)
    BY WireEffect DEF PassInv
<1>2. RowsOK(rows', supply')
    BY <1>1, WireEffect, WiredIsOK
<1>3. PassInv'
    BY <1>2, WireEffect DEF PassInv, Phases
<1>4. PiecesOf(rows') \subseteq PiecesOf(rows) \cup {Nothing}
    BY <1>1, WireEffect, WirePieces
<1>5. Agree(PiecesOf(rows))
    BY WireEffect DEF TextInv
<1>6. Agree(PiecesOf(rows'))
    BY <1>4, <1>5 DEF Agree, Nothing
<1> QED
    BY <1>3, <1>6, WireEffect DEF TextInv

LEMMA RecordsKeep ==
    ASSUME PassInv, TextInv, NEW c \in Coll,
           AddRecord(c) \/ \E i \in DOMAIN records[c] : DropRecord(c, i)
    PROVE  PassInv' /\ TextInv'
<1>1. /\ changes > 0 /\ changes' = changes - 1
      /\ UNCHANGED <<phase, passVars>>
    BY DEF AddRecord, DropRecord, RecordChanges
<1>2. changes' \in Nat
    BY <1>1 DEF PassInv
<1>3. records' \in [Coll -> Seq(Int)]
    <2>1. records[c] \in Seq(Int) /\ changes \in Nat
        BY DEF PassInv
    <2>2. CASE AddRecord(c)
        <3>1. Append(records[c], -changes) \in Seq(Int)
            BY <2>1
        <3> QED
            BY <2>2, <3>1 DEF AddRecord, PassInv
    <2>3. ASSUME NEW i \in DOMAIN records[c], DropRecord(c, i)
          PROVE  records' \in [Coll -> Seq(Int)]
        <3> DEFINE t == RemoveAt(records[c], i)
        <3>1. i \in 1..Len(records[c]) /\ Len(records[c]) \in Nat
            BY <2>1
        <3>2. /\ SubSeq(records[c], 1, i - 1) \in Seq(Int)
              /\ SubSeq(records[c], i + 1, Len(records[c])) \in Seq(Int)
            <4>1. \A j \in 1..(i - 1) : records[c][j] \in Int
                BY <2>1, <3>1
            <4>2. \A j \in (i + 1)..Len(records[c]) : records[c][j] \in Int
                BY <2>1, <3>1
            <4>3. i \in Int /\ i - 1 \in Int /\ i + 1 \in Int /\ Len(records[c]) \in Int /\ 1 \in Int
                BY <3>1
            <4>4. SubSeq(records[c], 1, i - 1) \in Seq(Int)
                BY <4>1, <4>3, SubSeqProperties
            <4>5. SubSeq(records[c], i + 1, Len(records[c])) \in Seq(Int)
                BY <4>2, <4>3, SubSeqProperties
            <4> QED
                BY <4>4, <4>5
        <3>3. t \in Seq(Int)
            BY <3>2 DEF RemoveAt
        <3>4. records' = [records EXCEPT ![c] = t]
            BY <2>3 DEF DropRecord
        <3> HIDE DEF t
        <3> QED
            BY <3>3, <3>4 DEF PassInv
    <2> QED
        BY <2>2, <2>3
<1> QED
    BY <1>1, <1>2, <1>3 DEF PassInv, TextInv, passVars, Bound

-----------------------------------------------------------------------------
(* The build and the renderer leave the rows alone *)

LEMMA RestKeeps ==
    ASSUME PassInv, TextInv,
           \/ LibraryCall \/ AutoWireHangs \/ GroupRows \/ BuildNode \/ NextParent
           \/ BuildDone \/ RenderStep \/ RenderDone \/ Answered \/ UNCHANGED vars
    PROVE  PassInv' /\ TextInv'
<1>1. UNCHANGED <<passVars, recordVars>>
    BY DEF LibraryCall, AutoWireHangs, GroupRows, BuildNode, NextParent, BuildDone,
           RenderStep, RenderDone, Answered, vars
<1>2. \/ phase' = phase
      \/ /\ phase \in {"wire", "group", "build", "render"}
         /\ phase' \in {"build", "render", "done", "failed", "hung"}
    BY DEF LibraryCall, AutoWireHangs, GroupRows, BuildNode, NextParent, BuildDone,
           RenderStep, RenderDone, Answered, vars
<1>3. PassInv'
    BY <1>1, <1>2 DEF PassInv, passVars, recordVars, Phases, Bound
<1>4. TextInv'
    BY <1>1, <1>2 DEF TextInv, passVars
<1> QED
    BY <1>3, <1>4

LEMMA PageStep ==
    ASSUME PassInv, TextInv, [Next]_vars
    PROVE  PassInv' /\ TextInv'
<1>1. CASE ExpandRepeater
    BY <1>1, ExpandKeeps
<1>2. CASE RepeatersDone
    BY <1>2, RepeatersDoneKeeps
<1>3. CASE BindRow
    BY <1>3, BindKeeps
<1>4. CASE BindingsDone
    BY <1>4, BindingsDoneKeeps
<1>5. CASE \E c \in Coll : ReadRef(c)
    BY <1>5, ReadRefKeeps
<1>6. CASE InterpolateCollectionRefs
    BY <1>6, InterpolateRefsKeeps
<1>7. CASE AutoWireForms
    BY <1>7, AutoWireKeeps
<1>8. CASE \E c \in Coll : AddRecord(c) \/ \E i \in DOMAIN records[c] : DropRecord(c, i)
    BY <1>8, RecordsKeep
<1>9. CASE \/ LibraryCall \/ AutoWireHangs \/ GroupRows \/ BuildNode \/ NextParent
           \/ BuildDone \/ RenderStep \/ RenderDone \/ Answered \/ UNCHANGED vars
    BY <1>9, RestKeeps
<1> QED
    BY <1>1, <1>2, <1>3, <1>4, <1>5, <1>6, <1>7, <1>8, <1>9 DEF Next

LEMMA PageInvariant == Spec => [](PassInv /\ TextInv)
<1>1. PassInv /\ TextInv /\ [Next]_vars => (PassInv /\ TextInv)'
    BY PageStep
<1> QED
    BY <1>1, PageInit, PTL DEF Spec

LEMMA IdsCount ==
    ASSUME NEW rs \in Seq(Row), Distinct(rs)
    PROVE  Cardinality(IdsOf(rs)) = Len(rs)
<1> DEFINE n == Len(rs)
           f == [i \in 1..n |-> rs[i].id]
<1>1. n \in Nat /\ DOMAIN rs = 1..n
    OBVIOUS
<1>2. IsFiniteSet(1..n) /\ Cardinality(1..n) = n
    BY <1>1, FS_Interval
<1>3. f \in Surjection(1..n, IdsOf(rs)) /\ f \in Injection(1..n, IdsOf(rs))
    BY <1>1 DEF Surjection, Injection, IsInjective, IdsOf, Distinct
<1> HIDE DEF f, n
<1>4. Cardinality(IdsOf(rs)) = Cardinality(1..n)
    BY <1>2, <1>3, FS_Surjection
<1> QED
    BY <1>2, <1>4 DEF n

\* The rows of a page are rows, each with a uuid of its own, none of which will
\* be drawn again, and what the passes still have to do is there: through the
\* clones of expand_repeaters and the inputs of auto_wire_forms.
THEOREM PageTyping == Spec => []RenderTypeOK
<1>1. PassInv => RenderTypeOK
    <2> SUFFICES ASSUME PassInv PROVE RenderTypeOK
        OBVIOUS
    <2>1. rows \in Seq(Row) /\ Distinct(rows) /\ IdsOf(rows) \cap ToSet(supply) = {}
        BY DEF PassInv, RowsOK
    <2>2. ToSet(rows) \subseteq Row /\ Cardinality(IdsOf(rows)) = Len(rows)
        BY <2>1, SetOfSeq, IdsCount
    <2>3. ASSUME NEW i \in DOMAIN todo, phase = "bind"
          PROVE  todo[i] \in DOMAIN rows
        <3>1. todo \in Seq(Bound(rows))
            BY <2>3 DEF PassInv
        <3>2. todo[i] \in Bound(rows)
            BY <2>3, <3>1
        <3> QED
            BY <3>2 DEF Bound
    <2> QED
        BY <2>1, <2>2, <2>3 DEF RenderTypeOK, PassInv, Phases
<1> QED
    BY <1>1, PageInvariant, PTL

\* Whatever happens to the records between the reads of a pass: what a pass
\* filled from one collection shows one record, and no token of the kind it
\* fills is left behind.
THEOREM PageTextsAgree == Spec => []TextsAgree
<1>1. TextInv => TextsAgree
    BY DEF TextInv, TextsAgree, Agree, PiecesOf, Pieces
<1> QED
    BY <1>1, PageInvariant, PTL

-----------------------------------------------------------------------------
(* order_siblings: every row of the group, none else *)

ChainSteps(g, w) ==
    /\ w[0] = <<>>
    /\ \A k \in 1..Len(g) :
          LET next == Following(g, IF w[k - 1] = <<>> THEN NoRow ELSE Last(w[k - 1]))
          IN  w[k] = IF next = {} THEN w[k - 1]
                     ELSE Append(w[k - 1], g[CHOOSE i \in next : TRUE].id)

LEMMA ChainIsWalked ==
    ASSUME NEW g \in Seq(Row)
    PROVE  \E w \in [0..Len(g) -> Seq(IdsOf(g))] : ChainSteps(g, w) /\ Chain(g) = w[Len(g)]
<1>0. Len(g) \in Nat /\ DOMAIN g = 1..Len(g)
    OBVIOUS
<1> DEFINE next(w) == Following(g, IF w = <<>> THEN NoRow ELSE Last(w))
           more(w) == IF next(w) = {} THEN w ELSE Append(w, g[CHOOSE i \in next(w) : TRUE].id)
           V == Seq(IdsOf(g))
           st == [p \in (1..Len(g)) \X V |-> more(p[2])]
<1>1. st \in [(1..Len(g)) \X V -> V]
    <2>1. ASSUME NEW w \in V PROVE more(w) \in V
        <3>1. ASSUME next(w) # {} PROVE (CHOOSE i \in next(w) : TRUE) \in DOMAIN g
            BY <3>1 DEF Following
        <3>2. ASSUME next(w) # {} PROVE g[CHOOSE i \in next(w) : TRUE].id \in IdsOf(g)
            BY <3>1, <3>2 DEF IdsOf
        <3> HIDE DEF next
        <3> QED
            BY <3>2
    <2> HIDE DEF more
    <2> QED
        BY <2>1
<1> HIDE DEF V
<1>2. PICK w \in [0..Len(g) -> V] : Iterates(st, <<>>, Len(g), w)
    <2> HIDE DEF st
    <2>1. <<>> \in V
        BY DEF V
    <2> QED
        BY <1>0, <1>1, <2>1, RecursionEnds
<1>3. w[0] = <<>> /\ \A k \in 1..Len(g) : w[k] = more(w[k - 1])
    <2>1. ASSUME NEW k \in 1..Len(g) PROVE w[k] = more(w[k - 1])
        <3>1. k - 1 \in 0..Len(g)
            BY <1>0
        <3>2. <<k, w[k - 1]>> \in (1..Len(g)) \X V
            BY <3>1
        <3> HIDE DEF more
        <3> QED
            BY <1>2, <3>2 DEF Iterates
    <2> HIDE DEF more
    <2> QED
        BY <1>2, <2>1 DEF Iterates
<1>4. w = [k \in 0..Len(g) |-> IF k = 0 THEN <<>> ELSE more(w[k - 1])]
    <2> HIDE DEF more
    <2>1. ASSUME NEW k \in 0..Len(g)
          PROVE  w[k] = IF k = 0 THEN <<>> ELSE more(w[k - 1])
        <3>1. k = 0 \/ k \in 1..Len(g)
            BY <1>0
        <3> QED
            BY <1>3, <3>1
    <2> QED
        BY <2>1
<1> DEFINE walked == CHOOSE h : h = [k \in 0..Len(g) |-> IF k = 0 THEN <<>> ELSE more(h[k - 1])]
<1>5. walked = [k \in 0..Len(g) |-> IF k = 0 THEN <<>> ELSE more(walked[k - 1])]
    <2> HIDE DEF more
    <2> QED
        BY <1>4
<1>6. Chain(g) = walked[Len(g)]
    BY DEF Chain
<1> HIDE DEF walked
<1>7. 0..Len(g) \subseteq {k \in 0..Len(g) : walked[k] = w[k]}
    <2> HIDE DEF more
    <2> DEFINE T == {k \in 0..Len(g) : walked[k] = w[k]}
    <2>1. 0 \in T
        BY <1>0, <1>3, <1>5
    <2>2. ASSUME NEW k \in 1..Len(g), k - 1 \in T
          PROVE  k \in T
        <3>0. k \in 0..Len(g) /\ k # 0
            BY <1>0
        <3>1. walked[k] = more(walked[k - 1])
            BY <1>5, <3>0
        <3> QED
            BY <1>3, <2>2, <3>0, <3>1
    <2> HIDE DEF T
    <2>3. 0..Len(g) \subseteq T
        BY <1>0, <2>1, <2>2, StepByStep
    <2> QED
        BY <2>3 DEF T
<1>8. Chain(g) = w[Len(g)]
    BY <1>0, <1>6, <1>7
<1>9. ChainSteps(g, w)
    BY <1>3 DEF ChainSteps
<1> QED
    BY <1>8, <1>9 DEF V

\* Numbers have an order to be listed in.
LEMMA AscendingExists ==
    ASSUME NEW n \in Nat
    PROVE  \A S \in SUBSET Nat : IsFiniteSet(S) /\ Cardinality(S) = n =>
               \E s \in [1..n -> S] : \A i, j \in 1..n : i < j => s[i] < s[j]
<1> DEFINE Listed(S, k) == \E s \in [1..k -> S] : \A i, j \in 1..k : i < j => s[i] < s[j]
           T == {k \in 0..n : \A S \in SUBSET Nat : IsFiniteSet(S) /\ Cardinality(S) = k => Listed(S, k)}
<1>1. 0 \in T
    <2> SUFFICES ASSUME NEW S \in SUBSET Nat PROVE Listed(S, 0)
        OBVIOUS
    <2>1. [i \in 1..0 |-> 0] \in [1..0 -> S]
        OBVIOUS
    <2>2. 1..0 = {}
        OBVIOUS
    <2> QED
        BY <2>1, <2>2
<1>2. ASSUME NEW k \in 1..n, k - 1 \in T
      PROVE  k \in T
    <2> SUFFICES ASSUME NEW S \in SUBSET Nat, IsFiniteSet(S), Cardinality(S) = k
                 PROVE  Listed(S, k)
        OBVIOUS
    <2>1. S # {}
        BY FS_EmptySet
    <2>2. PICK m \in S : \A x \in S : m <= x
        BY <2>1, LeastNat
    <2>3. IsFiniteSet(S \ {m}) /\ Cardinality(S \ {m}) = k - 1
        BY FS_RemoveElement
    <2>4. PICK s \in [1..(k - 1) -> S \ {m}] : \A i, j \in 1..(k - 1) : i < j => s[i] < s[j]
        BY <1>2, <2>3
    <2> DEFINE t == [i \in 1..k |-> IF i = 1 THEN m ELSE s[i - 1]]
    <2>5. t \in [1..k -> S]
        <3>1. \A i \in 1..k : i = 1 \/ i - 1 \in 1..(k - 1)
            OBVIOUS
        <3> QED
            BY <2>4, <3>1
    <2>6. ASSUME NEW i \in 1..k, NEW j \in 1..k, i < j
          PROVE  t[i] < t[j]
        <3>1. j # 1 /\ j - 1 \in 1..(k - 1) /\ t[j] = s[j - 1]
            BY <2>6
        <3>2. s[j - 1] \in S \ {m} /\ S \subseteq Nat
            BY <2>4, <3>1
        <3>3. CASE i = 1
            <4>1. t[i] = m /\ m \in Nat
                BY <3>3
            <4>2. m <= s[j - 1] /\ s[j - 1] # m /\ s[j - 1] \in Nat
                BY <2>2, <3>2
            <4> HIDE DEF t
            <4> QED
                BY <3>1, <4>1, <4>2
        <3>4. CASE i # 1
            <4>1. i - 1 \in 1..(k - 1) /\ i - 1 < j - 1 /\ t[i] = s[i - 1]
                BY <2>6, <3>4
            <4> QED
                BY <2>4, <3>1, <4>1
        <3> QED
            BY <3>3, <3>4
    <2> QED
        BY <2>5, <2>6
<1> HIDE DEF T
<1>3. 0..n \subseteq T
    BY <1>1, <1>2, StepByStep
<1>4. n \in T
    BY <1>3
<1> QED
    BY <1>4 DEF T

LEMMA AscendingLists ==
    ASSUME NEW S \in SUBSET Nat, IsFiniteSet(S)
    PROVE  Ascending(S) \in Seq(S) /\ ToSet(Ascending(S)) = S
<1> DEFINE n == Cardinality(S)
           s == Ascending(S)
<1>1. n \in Nat
    BY FS_CardinalityType
<1>2. \E t \in [1..n -> S] : \A i, j \in 1..n : i < j => t[i] < t[j]
    BY <1>1, AscendingExists
<1>3. \E t \in [1..n -> S] : \A i, j \in DOMAIN t : i < j => t[i] < t[j]
    BY <1>2
<1>4. s \in [1..n -> S] /\ \A i, j \in DOMAIN s : i < j => s[i] < s[j]
    BY <1>3 DEF Ascending
<1> HIDE DEF s, n
<1>5. DOMAIN s = 1..n
    BY <1>4
<1>6. s \in Seq(S)
    BY <1>1, <1>4
<1>7. \A i, j \in 1..n : s[i] = s[j] => i = j
    <2>1. \A i \in 1..n : s[i] \in Nat
        BY <1>4
    <2>2. \A i, j \in 1..n : i < j \/ j < i \/ i = j
        BY <1>1
    <2>3. \A i, j \in 1..n : i < j => s[i] < s[j]
        BY <1>4, <1>5
    <2> QED
        BY <2>1, <2>2, <2>3
<1>8. ToSet(s) \subseteq S
    BY <1>4, <1>5 DEF ToSet
<1>9. Cardinality(ToSet(s)) = n
    <2>1. s \in Injection(1..n, ToSet(s)) /\ s \in Surjection(1..n, ToSet(s))
        BY <1>4, <1>5, <1>7 DEF Injection, Surjection, IsInjective, ToSet
    <2>2. IsFiniteSet(1..n) /\ Cardinality(1..n) = n
        BY <1>1, FS_Interval
    <2> QED
        BY <2>1, <2>2, FS_Surjection
<1>10. ToSet(s) = S
    BY <1>8, <1>9, FS_Subset DEF n
<1> QED
    BY <1>6, <1>10 DEF s

LEMMA OrderSiblingsMembers ==
    ASSUME NEW g \in Seq(Row)
    PROVE  OrderSiblings(g) \in Seq(IdsOf(g)) /\ ToSet(OrderSiblings(g)) = IdsOf(g)
<1>1. Chain(g) \in Seq(IdsOf(g))
    <2>1. PICK w \in [0..Len(g) -> Seq(IdsOf(g))] : Chain(g) = w[Len(g)]
        BY ChainIsWalked
    <2>2. Len(g) \in 0..Len(g)
        OBVIOUS
    <2> QED
        BY <2>1, <2>2
<1>2. IsFiniteSet(IdsOf(g)) /\ IdsOf(g) \subseteq Nat
    <2>0. \A i \in DOMAIN g : g[i] \in Row
        OBVIOUS
    <2>1. \A i \in DOMAIN g : g[i].id \in Nat
        BY <2>0, RowFields
    <2> QED
        BY <2>1, FieldsAreFew DEF IdsOf
<1> DEFINE R == IdsOf(g) \ ToSet(Chain(g))
<1>3. IsFiniteSet(R) /\ R \subseteq Nat
    BY <1>2, FS_Subset
<1> HIDE DEF R
<1>4. Ascending(R) \in Seq(R) /\ ToSet(Ascending(R)) = R
    BY <1>3, AscendingLists
<1>5. Ascending(R) \in Seq(IdsOf(g))
    BY <1>4 DEF R
<1> DEFINE c == Chain(g)
           a == Ascending(R)
<1>6. OrderSiblings(g) = c \o a
    BY DEF OrderSiblings, R
<1>7. ToSet(c) \subseteq IdsOf(g)
    BY <1>1, SetOfSeq
<1> HIDE DEF c, a
<1>8. c \in Seq(IdsOf(g)) /\ a \in Seq(IdsOf(g))
    BY <1>1, <1>5 DEF c, a
<1>9. ToSet(c \o a) = ToSet(c) \cup ToSet(a)
    BY <1>8, Joined
<1>10. IdsOf(g) = ToSet(c) \cup ToSet(a)
    BY <1>4, <1>7 DEF c, a, R
<1>11. c \o a \in Seq(IdsOf(g))
    BY <1>8, Joined
<1> QED
    BY <1>6, <1>9, <1>10, <1>11

-----------------------------------------------------------------------------
(* The build *)

Built == phase \in {"build", "render", "done"}

\* Every row has a parent that is there.
Adopted(rs) == \A i \in DOMAIN rs : rs[i].parent \in IdsOf(rs) \cup {Body}

\* The groups still hold rows under their own parents, and what the build has
\* not appended is in them; those that are not empty are yet to be met, if
\* their parent is in the tree.
GroupsInv ==
    /\ Adopted(rows)
    /\ groups \in [IdsOf(rows) \cup {Body} -> Seq(IdsOf(rows))]
    /\ \A p \in DOMAIN groups : \A i \in DOMAIN groups[p] : RowOf(groups[p][i]).parent = p
    /\ queue \in Seq(IdsOf(rows) \cup {Body}) /\ ToSet(queue) \subseteq DOMAIN by_uuid
    /\ DOMAIN by_uuid \subseteq IdsOf(rows) \cup {Body}
    /\ \A id \in IdsOf(rows) \ DOMAIN by_uuid : id \in ToSet(groups[RowOf(id).parent])
    /\ \A p \in DOMAIN by_uuid : groups[p] = <<>> \/ p \in ToSet(queue)

\* The nodes are the rows that were appended, under the nodes of their parents.
NodesInv ==
    /\ nodes[root].uuid = Body /\ nodes[root].content = "#body"
    /\ \A n \in DOMAIN nodes \ {root} :
          /\ nodes[n].uuid \in IdsOf(rows)
          /\ nodes[n].content = RowOf(nodes[n].uuid).tag
          /\ nodes[n].parent \in DOMAIN nodes
          /\ nodes[nodes[n].parent].uuid = RowOf(nodes[n].uuid).parent

BuildInv ==
    /\ BelowInv
    /\ phase # "library" => /\ ~strayed /\ nodes[root].uuid = Body /\ nodes[root].content = "#body"
    /\ phase \notin {"library", "build", "render", "done", "failed"} => DOMAIN nodes = {root}
    /\ Built => GroupsInv /\ NodesInv
    /\ phase \in {"render", "done"} => DOMAIN by_uuid = IdsOf(rows) \cup {Body}

LEMMA RowOfId ==
    ASSUME NEW id \in IdsOf(rows), rows \in Seq(Row)
    PROVE  RowOf(id) \in Row /\ RowOf(id) \in ToSet(rows) /\ RowOf(id).id = id
<1> DEFINE k == CHOOSE i \in DOMAIN rows : rows[i].id = id
<1>1. k \in DOMAIN rows /\ rows[k].id = id
    BY DEF IdsOf
<1>2. RowOf(id) = rows[k]
    BY DEF RowOf
<1> HIDE DEF k
<1> QED
    BY <1>1, <1>2 DEF ToSet

LEMMA RowOfItsId ==
    ASSUME NEW r \in ToSet(rows), rows \in Seq(Row), Distinct(rows)
    PROVE  RowOf(r.id) = r /\ r.id \in IdsOf(rows)
<1> DEFINE k == CHOOSE i \in DOMAIN rows : rows[i].id = r.id
<1>1. PICK j \in DOMAIN rows : rows[j] = r
    BY DEF ToSet
<1>2. k \in DOMAIN rows /\ rows[k].id = r.id
    BY <1>1
<1>3. RowOf(r.id) = rows[k]
    BY DEF RowOf
<1> HIDE DEF k
<1> QED
    BY <1>1, <1>2, <1>3 DEF Distinct, IdsOf

\* AppendChild puts one node more below p.
LEMMA AppendEffect ==
    ASSUME TreeInv, NEW p, NEW u, NEW c, AppendChild(p, u, c), u \in Uuid, c \in Content
    PROVE  LET id == handed + 1
           IN  /\ id \notin DOMAIN nodes /\ DOMAIN nodes' = DOMAIN nodes \cup {id}
               /\ p \in DOMAIN nodes
               /\ nodes'[id].uuid = u /\ nodes'[id].content = c /\ nodes'[id].parent = p
               /\ \A n \in DOMAIN nodes : /\ nodes'[n].uuid = nodes[n].uuid
                                          /\ nodes'[n].content = nodes[n].content
                                          /\ nodes'[n].parent = nodes[n].parent
               /\ DOMAIN by_uuid' = DOMAIN by_uuid \cup {u} /\ u \notin DOMAIN by_uuid
               /\ root' = root /\ strayed' = strayed
<1> DEFINE id == handed + 1
           l == nodes[p].last
           g == WithNode(nodes, id, u, c)
           h == Linked(g, id, p, l, NoNode)
<1>1. /\ Typed(nodes) /\ handed \in Nat /\ DOMAIN nodes \subseteq 1..handed
      /\ p \in DOMAIN nodes
    BY DEF TreeInv, ArenaTypeOK, AppendChild
<1>2. id \notin DOMAIN nodes
    BY <1>1
<1>3. /\ nodes' = h /\ root' = root /\ strayed' = strayed
      /\ u \notin DOMAIN by_uuid /\ DOMAIN by_uuid' = DOMAIN by_uuid \cup {u}
    BY DEF AppendChild, Insert
<1> HIDE DEF id
<1>4. /\ DOMAIN g = DOMAIN nodes \cup {id}
      /\ \A n \in DOMAIN nodes : g[n] = nodes[n]
      /\ g[id] = [uuid |-> u, content |-> c, parent |-> NoNode, first |-> NoNode,
                  last |-> NoNode, prev |-> NoNode, next |-> NoNode]
    BY <1>2 DEF WithNode
<1>5. g[id] \in Node
    BY <1>4 DEF Node, NoNode
<1>6. \A n \in DOMAIN g : g[n] \in Node
    BY <1>1, <1>4, <1>5 DEF Typed
<1>7. g[id].uuid = u /\ g[id].content = c
    BY <1>4
<1> HIDE DEF g
<1>8. /\ DOMAIN h = DOMAIN g
      /\ \A n \in DOMAIN g : /\ h[n].uuid = g[n].uuid /\ h[n].content = g[n].content
                             /\ h[n].parent = IF n = id THEN p ELSE g[n].parent
    BY <1>6 DEF Linked, Node
<1> HIDE DEF h
<1>9. /\ DOMAIN nodes' = DOMAIN nodes \cup {id}
      /\ nodes'[id].uuid = u /\ nodes'[id].content = c /\ nodes'[id].parent = p
    BY <1>3, <1>4, <1>7, <1>8
<1>10. \A n \in DOMAIN nodes : /\ nodes'[n].uuid = nodes[n].uuid
                               /\ nodes'[n].content = nodes[n].content
                               /\ nodes'[n].parent = nodes[n].parent
    BY <1>2, <1>3, <1>4, <1>8
<1> QED
    BY <1>1, <1>2, <1>3, <1>9, <1>10 DEF id

LEMMA LibraryKeeps ==
    ASSUME BuildInv, LibraryCall
    PROVE  BuildInv'
<1>1. LibraryUuid \subseteq Uuid /\ LibraryContent \subseteq Content
    BY RenderAssumption
<1>2. ArenaCalls(LibraryUuid, LibraryContent)
    BY DEF LibraryCall
<1>3. ArenaCalls(Uuid, Content)
    BY <1>1, <1>2 DEF ArenaCalls
<1>4. BelowInv'
    BY <1>3, CallsKeepBelowInv DEF BuildInv
<1>5. phase = "library" /\ phase' = "library"
    BY DEF LibraryCall
<1> QED
    BY <1>4, <1>5 DEF BuildInv, Built

LEMMA BuildInit == Init => BuildInv
<1> SUFFICES ASSUME Init PROVE BuildInv
    OBVIOUS
<1>1. PICK u \in Uuid, c \in Content :
          NewTree(u, c) /\ (phase = "library" \/ (phase = "repeat" /\ u = Body /\ c = "#body"))
    BY RenderAssumption DEF Init, RenderInit, LibraryInit
<1>2. ArenaInit
    BY <1>1 DEF ArenaInit
<1>3. DOMAIN nodes = {root} /\ ~strayed /\ nodes[root].uuid = u /\ nodes[root].content = c
    BY <1>1 DEF NewTree, WithNode
<1>4. BelowInv
    BY <1>2, <1>3, ArenaInitTreeInv DEF BelowInv, Rooted
<1> QED
    BY <1>1, <1>3, <1>4 DEF BuildInv, Built

\* The passes and the renderer leave the tree alone.
LEMMA TreeStays ==
    ASSUME BelowInv, UNCHANGED arenaVars
    PROVE  BelowInv'
BY CallsKeepBelowInv

LEMMA UnderMembers ==
    ASSUME rows \in Seq(Row), NEW p
    PROVE  Under(rows, p) \in Seq(Row) /\ ToSet(Under(rows, p)) = {r \in ToSet(rows) : r.parent = p}
<1> DEFINE S == {r \in ToSet(rows) : r.parent = p}
<1>1. Only(rows, S) \in Seq(Row)
    BY OnlyEffect
<1>2. ToSet(Only(rows, S)) = ToSet(rows) \cap S
    BY OnlyMembers
<1>3. Under(rows, p) = Only(rows, S)
    BY DEF Under
<1> QED
    BY <1>1, <1>2, <1>3

LEMMA GroupMembers ==
    ASSUME rows \in Seq(Row), Distinct(rows), NEW p
    PROVE  LET g == OrderSiblings(Under(rows, p))
           IN  /\ g \in Seq(IdsOf(rows))
               /\ \A i \in DOMAIN g : RowOf(g[i]).parent = p
               /\ \A id \in IdsOf(rows) : RowOf(id).parent = p => id \in ToSet(g)
<1> DEFINE s == Under(rows, p)
           g == OrderSiblings(s)
<1>1. s \in Seq(Row) /\ ToSet(s) = {r \in ToSet(rows) : r.parent = p}
    BY UnderMembers
<1> HIDE DEF s
<1>2. g \in Seq(IdsOf(s)) /\ ToSet(g) = IdsOf(s)
    BY <1>1, OrderSiblingsMembers
<1> HIDE DEF g
<1>3. IdsOf(s) = {r.id : r \in ToSet(s)} /\ IdsOf(rows) = {r.id : r \in ToSet(rows)}
    BY IdsAreOfRows
<1>4. IdsOf(s) \subseteq IdsOf(rows)
    BY <1>1, <1>3
<1>5. g \in Seq(IdsOf(rows))
    BY <1>2, <1>4
<1>6. ASSUME NEW i \in DOMAIN g PROVE RowOf(g[i]).parent = p
    <2>1. g[i] \in ToSet(g)
        BY DEF ToSet
    <2>2. PICK r \in ToSet(rows) : r.parent = p /\ r.id = g[i]
        BY <1>1, <1>2, <1>3, <2>1
    <2> QED
        BY <2>2, RowOfItsId
<1>7. ASSUME NEW id \in IdsOf(rows), RowOf(id).parent = p PROVE id \in ToSet(g)
    BY <1>1, <1>2, <1>3, <1>7, RowOfId
<1> QED
    BY <1>5, <1>6, <1>7 DEF s, g

LEMMA GroupRowsKeeps ==
    ASSUME PassInv, BuildInv, GroupRows
    PROVE  BuildInv'
<1>1. /\ phase = "group" /\ UNCHANGED arenaVars /\ UNCHANGED rows
      /\ phase' \in {"failed", "build"}
    BY DEF GroupRows, passVars
<1>2. BelowInv'
    BY <1>1, TreeStays DEF BuildInv
<1>3. /\ DOMAIN nodes = {root} /\ ~strayed /\ nodes[root].uuid = Body /\ nodes[root].content = "#body"
    BY <1>1 DEF BuildInv
<1>4. CASE phase' = "failed"
    BY <1>1, <1>2, <1>3, <1>4 DEF BuildInv, Built, arenaVars
<1>5. CASE phase' = "build"
    <2>1. /\ Adopted(rows)
          /\ groups' = [p \in IdsOf(rows) \cup {Body} |-> OrderSiblings(Under(rows, p))]
          /\ queue' = <<Body>>
        BY <1>5 DEF GroupRows, Adopted
    <2>2. rows \in Seq(Row) /\ Distinct(rows) /\ Body \notin IdsOf(rows)
        BY DEF PassInv, RowsOK
    <2>3. ASSUME NEW p \in IdsOf(rows) \cup {Body}
          PROVE  /\ groups'[p] \in Seq(IdsOf(rows))
                 /\ \A i \in DOMAIN groups'[p] : RowOf(groups'[p][i]).parent = p
                 /\ \A id \in IdsOf(rows) : RowOf(id).parent = p => id \in ToSet(groups'[p])
        <3>1. groups'[p] = OrderSiblings(Under(rows, p))
            BY <2>1
        <3> QED
            BY <2>2, <3>1, GroupMembers
    <2>4. DOMAIN by_uuid = {Body}
        BY <1>3 DEF BuildInv, BelowInv, TreeInv, IndexIsExact
    <2>5. /\ groups' \in [IdsOf(rows) \cup {Body} -> Seq(IdsOf(rows))]
          /\ \A p \in DOMAIN groups' : \A i \in DOMAIN groups'[p] : RowOf(groups'[p][i]).parent = p
        BY <2>1, <2>3
    <2>6. ASSUME NEW id \in IdsOf(rows) PROVE id \in ToSet(groups'[RowOf(id).parent])
        <3>1. RowOf(id).parent \in IdsOf(rows) \cup {Body}
            BY <2>1, <2>2, RowOfId DEF Adopted, ToSet
        <3> QED
            BY <2>3, <3>1
    <2>7. queue' \in Seq(IdsOf(rows) \cup {Body}) /\ ToSet(queue') = {Body}
        BY <2>1 DEF ToSet
    <2>8. rows' = rows /\ \A id : RowOf(id)' = RowOf(id)
        BY <1>1 DEF RowOf
    <2>9. GroupsInv'
        BY <1>1, <2>1, <2>4, <2>5, <2>6, <2>7, <2>8 DEF GroupsInv, arenaVars
    <2>10. NodesInv'
        BY <1>1, <1>3 DEF NodesInv, arenaVars
    <2> QED
        BY <1>1, <1>2, <1>3, <1>5, <2>9, <2>10 DEF BuildInv, Built, arenaVars
<1> QED
    BY <1>1, <1>4, <1>5

LEMMA BuildNodeKeeps ==
    ASSUME PassInv, BuildInv, BuildNode
    PROVE  BuildInv'
<1> DEFINE p == Head(queue)
           u == Head(groups[p])
           c == RowOf(u).tag
           k == by_uuid[p]
           id == handed + 1
<1>1. /\ phase = "build" /\ phase' = "build" /\ queue # <<>> /\ groups[p] # <<>>
      /\ AppendChild(k, u, c)
      /\ groups' = [groups EXCEPT ![p] = Tail(@)] /\ queue' = Append(queue, u)
      /\ rows' = rows
    BY DEF BuildNode, passVars
<1>2. rows \in Seq(Row) /\ Distinct(rows) /\ IdsOf(rows) \subseteq Uuid \ {Body} /\ Body \in Uuid
    BY RenderAssumption DEF PassInv, RowsOK
<1>3. BelowInv /\ TreeInv /\ GroupsInv /\ NodesInv /\ ~strayed
    BY <1>1 DEF BuildInv, Built, BelowInv
<1> DEFINE P == IdsOf(rows) \cup {Body}
<1>4. /\ queue \in Seq(P) /\ ToSet(queue) \subseteq DOMAIN by_uuid
      /\ groups \in [P -> Seq(IdsOf(rows))]
    BY <1>3 DEF GroupsInv
<1>5. p \in P /\ p \in DOMAIN by_uuid
    <2>1. 1 \in DOMAIN queue /\ p = queue[1] /\ queue[1] \in P
        BY <1>1, <1>4
    <2> QED
        BY <1>4, <2>1 DEF ToSet
<1>6. groups[p] \in Seq(IdsOf(rows)) /\ 1 \in DOMAIN groups[p] /\ u = groups[p][1]
    <2>1. groups[p] \in Seq(IdsOf(rows))
        BY <1>4, <1>5
    <2> QED
        BY <1>1, <2>1
<1>7. u \in IdsOf(rows) /\ RowOf(u).parent = p
    <2>1. groups[p][1] \in IdsOf(rows)
        BY <1>6
    <2> QED
        BY <1>3, <1>4, <1>5, <1>6, <2>1 DEF GroupsInv
<1>8. c \in Content /\ u \in Uuid
    <2>1. RowOf(u).tag \in {"box", "form", "input", "#text"}
        BY <1>2, <1>7, RowOfId, RowFields
    <2> QED
        BY <1>2, <1>7, <2>1, RenderAssumption
<1>9. k \in DOMAIN nodes /\ nodes[k].uuid = p /\ k \in Key
    BY <1>3, <1>5 DEF TreeInv, ArenaTypeOK, IndexIsExact, Key
<1>10. BelowInv'
    BY <1>1, <1>3, <1>8, <1>9, InsertKeepsBelowInv
<1> HIDE DEF p, u, c, k
<1>11. /\ id \notin DOMAIN nodes /\ DOMAIN nodes' = DOMAIN nodes \cup {id}
       /\ nodes'[id].uuid = u /\ nodes'[id].content = c /\ nodes'[id].parent = k
       /\ \A n \in DOMAIN nodes : /\ nodes'[n].uuid = nodes[n].uuid
                                  /\ nodes'[n].content = nodes[n].content
                                  /\ nodes'[n].parent = nodes[n].parent
       /\ DOMAIN by_uuid' = DOMAIN by_uuid \cup {u} /\ u \notin DOMAIN by_uuid
       /\ root' = root /\ strayed' = strayed
    BY <1>1, <1>3, <1>8, AppendEffect
<1> HIDE DEF id
<1>12. root \in DOMAIN nodes
    BY <1>3 DEF TreeInv, ArenaTypeOK
<1>13. \A x : RowOf(x)' = RowOf(x)
    BY <1>1 DEF RowOf
<1>14. NodesInv'
    <2>1. nodes'[root].uuid = Body /\ nodes'[root].content = "#body"
        BY <1>3, <1>11, <1>12 DEF NodesInv
    <2>2. ASSUME NEW n \in DOMAIN nodes \ {root}
          PROVE  /\ nodes'[n].uuid \in IdsOf(rows)
                 /\ nodes'[n].content = RowOf(nodes'[n].uuid).tag
                 /\ nodes'[n].parent \in DOMAIN nodes'
                 /\ nodes'[nodes'[n].parent].uuid = RowOf(nodes'[n].uuid).parent
        BY <1>3, <1>11 DEF NodesInv
    <2>3. /\ nodes'[id].uuid \in IdsOf(rows)
          /\ nodes'[id].content = RowOf(nodes'[id].uuid).tag
          /\ nodes'[id].parent \in DOMAIN nodes'
          /\ nodes'[nodes'[id].parent].uuid = RowOf(nodes'[id].uuid).parent
        BY <1>7, <1>9, <1>11 DEF c
    <2>4. ASSUME NEW n \in DOMAIN nodes' \ {root}
          PROVE  /\ nodes'[n].uuid \in IdsOf(rows)
                 /\ nodes'[n].content = RowOf(nodes'[n].uuid).tag
                 /\ nodes'[n].parent \in DOMAIN nodes'
                 /\ nodes'[nodes'[n].parent].uuid = RowOf(nodes'[n].uuid).parent
        <3>1. n = id \/ n \in DOMAIN nodes \ {root}
            BY <1>11
        <3> QED
            BY <2>2, <2>3, <3>1
    <2> QED
        BY <1>1, <1>11, <1>13, <2>1, <2>4 DEF NodesInv
<1>15. /\ groups' \in [P -> Seq(IdsOf(rows))]
       /\ \A q \in P \ {p} : groups'[q] = groups[q]
       /\ groups'[p] = Tail(groups[p])
    <2>1. Tail(groups[p]) \in Seq(IdsOf(rows))
        BY <1>6
    <2> HIDE DEF P
    <2> QED
        BY <1>1, <1>4, <1>5, <2>1
<1>16. \A q \in P : \A i \in DOMAIN groups'[q] : RowOf(groups'[q][i]).parent = q
    <2>1. \A q \in P : \A i \in DOMAIN groups[q] : RowOf(groups[q][i]).parent = q
        BY <1>3, <1>4 DEF GroupsInv
    <2>2. ASSUME NEW i \in DOMAIN groups'[p] PROVE RowOf(groups'[p][i]).parent = p
        <3>1. i + 1 \in DOMAIN groups[p] /\ groups'[p][i] = groups[p][i + 1]
            BY <1>6, <1>15
        <3> QED
            BY <1>5, <2>1, <3>1
    <2> QED
        BY <1>15, <2>1, <2>2
<1>17. queue' \in Seq(P) /\ ToSet(queue') = ToSet(queue) \cup {u}
    <2>1. u \in P
        BY <1>7
    <2> HIDE DEF P
    <2>2. queue' \in Seq(P) /\ Len(queue') = Len(queue) + 1 /\ Len(queue) \in Nat
          /\ DOMAIN queue' = 1..(Len(queue) + 1) /\ DOMAIN queue = 1..Len(queue)
          /\ queue'[Len(queue) + 1] = u /\ \A i \in 1..Len(queue) : queue'[i] = queue[i]
        BY <1>1, <1>4, <2>1
    <2>3. 1..(Len(queue) + 1) = (1..Len(queue)) \cup {Len(queue) + 1}
        BY <2>2
    <2> QED
        BY <2>2, <2>3 DEF ToSet
<1>18. ASSUME NEW x \in IdsOf(rows) \ DOMAIN by_uuid'
       PROVE  x \in ToSet(groups'[RowOf(x).parent])
    <2>1. x \in ToSet(groups[RowOf(x).parent]) /\ x # u
        BY <1>3, <1>11 DEF GroupsInv
    <2>2. RowOf(x).parent \in P
        BY <1>2, <1>3, RowOfId DEF GroupsInv, Adopted, ToSet
    <2>3. CASE RowOf(x).parent = p
        <3>1. PICK i \in DOMAIN groups[p] : groups[p][i] = x
            BY <2>1, <2>3 DEF ToSet
        <3>2. i # 1
            BY <1>6, <2>1, <3>1
        <3> DEFINE s == groups[p]
        <3>3. s \in Seq(IdsOf(rows)) /\ i \in DOMAIN s
            BY <1>6, <3>1
        <3> HIDE DEF s
        <3>4. i - 1 \in DOMAIN Tail(s) /\ Tail(s)[i - 1] = s[i]
            BY <3>2, <3>3
        <3>5. i - 1 \in DOMAIN groups'[p] /\ groups'[p][i - 1] = groups[p][i]
            BY <1>15, <3>4 DEF s
        <3> QED
            BY <2>3, <3>1, <3>5 DEF ToSet
    <2> QED
        BY <1>15, <2>1, <2>2, <2>3
<1>19. ASSUME NEW q \in DOMAIN by_uuid', groups'[q] # <<>>
       PROVE  q \in ToSet(queue')
    <2>1. CASE q = p
        <3>1. p \in ToSet(queue)
            BY <1>1, <1>3, <1>5 DEF GroupsInv
        <3> QED
            BY <1>17, <2>1, <3>1
    <2>2. CASE q # p /\ q \in DOMAIN by_uuid
        BY <1>3, <1>15, <1>17, <1>19, <2>2 DEF GroupsInv
    <2> QED
        BY <1>11, <1>17, <2>1, <2>2
<1>20. DOMAIN by_uuid' \subseteq P /\ ToSet(queue') \subseteq DOMAIN by_uuid'
    BY <1>3, <1>4, <1>7, <1>11, <1>17 DEF GroupsInv
<1>21. GroupsInv'
    BY <1>1, <1>3, <1>13, <1>15, <1>16, <1>17, <1>18, <1>19, <1>20 DEF GroupsInv, Adopted
<1> QED
    BY <1>1, <1>3, <1>10, <1>11, <1>14, <1>21 DEF BuildInv, Built, NodesInv

LEMMA NextParentKeeps ==
    ASSUME PassInv, BuildInv, NextParent
    PROVE  BuildInv'
<1>1. /\ phase = "build" /\ phase' = "build" /\ queue # <<>> /\ groups[Head(queue)] = <<>>
      /\ queue' = Tail(queue) /\ UNCHANGED <<arenaVars, rows, groups>>
    BY DEF NextParent, passVars
<1>2. BelowInv' /\ GroupsInv /\ NodesInv /\ ~strayed
    BY <1>1, TreeStays DEF BuildInv, Built
<1>3. \A x : RowOf(x)' = RowOf(x)
    BY <1>1 DEF RowOf
<1>4. NodesInv'
    BY <1>1, <1>2, <1>3 DEF NodesInv, arenaVars
<1> DEFINE P == IdsOf(rows) \cup {Body}
<1>5. queue \in Seq(P)
    BY <1>2 DEF GroupsInv
<1> HIDE DEF P
<1>6. /\ queue' \in Seq(P) /\ DOMAIN queue' = 1..(Len(queue) - 1) /\ DOMAIN queue = 1..Len(queue)
      /\ Len(queue) \in Nat /\ Head(queue) = queue[1]
      /\ \A i \in 1..(Len(queue) - 1) : queue'[i] = queue[i + 1]
    BY <1>1, <1>5
<1>7. ToSet(queue') \subseteq ToSet(queue)
    <2>1. \A i \in 1..(Len(queue) - 1) : i + 1 \in 1..Len(queue)
        BY <1>6
    <2> QED
        BY <1>6, <2>1 DEF ToSet
<1>8. ASSUME NEW x \in ToSet(queue), x # Head(queue) PROVE x \in ToSet(queue')
    <2>1. PICK i \in 1..Len(queue) : queue[i] = x
        BY <1>6 DEF ToSet
    <2>2. i # 1
        BY <1>6, <1>8, <2>1
    <2>3. i - 1 \in 1..(Len(queue) - 1) /\ (i - 1) + 1 = i
        BY <1>6, <2>2
    <2>4. queue'[i - 1] = x
        BY <1>6, <2>1, <2>3
    <2> QED
        BY <1>6, <2>3, <2>4 DEF ToSet
<1>9. GroupsInv'
    <2>1. queue' \in Seq(IdsOf(rows) \cup {Body})
        BY <1>6 DEF P
    <2> QED
        BY <1>1, <1>2, <1>3, <1>7, <1>8, <2>1 DEF GroupsInv, Adopted, arenaVars
<1> QED
    BY <1>1, <1>2, <1>4, <1>9 DEF BuildInv, Built, arenaVars, NodesInv

PassPhases == {"repeat", "bind", "refs", "wire", "group", "hung"}

LEMMA PassesLeaveTree ==
    ASSUME BuildInv, UNCHANGED arenaVars,
           phase' \in PassPhases, phase \in PassPhases
    PROVE  BuildInv'
<1>1. BelowInv'
    BY TreeStays DEF BuildInv
<1> QED
    BY <1>1 DEF BuildInv, Built, arenaVars, PassPhases

LEMMA BuiltStays ==
    ASSUME PassInv, BuildInv, UNCHANGED <<arenaVars, rows, groups, queue>>,
           \/ phase' = phase
           \/ phase = "build" /\ phase' = "failed"
           \/ phase = "build" /\ phase' = "render" /\ DOMAIN by_uuid = IdsOf(rows) \cup {Body}
           \/ phase = "render" /\ phase' = "done"
    PROVE  BuildInv'
<1>1. BelowInv'
    BY TreeStays DEF BuildInv
<1>2. \A x : RowOf(x)' = RowOf(x)
    BY DEF RowOf
<1>3. GroupsInv => GroupsInv'
    BY <1>2 DEF GroupsInv, Adopted, arenaVars
<1>4. NodesInv => NodesInv'
    BY <1>2 DEF NodesInv, arenaVars
<1> QED
    BY <1>1, <1>3, <1>4 DEF BuildInv, Built, arenaVars

LEMMA BuildStep ==
    ASSUME PassInv, BuildInv, [Next]_vars
    PROVE  BuildInv'
<1>1. CASE LibraryCall
    BY <1>1, LibraryKeeps
<1>2. CASE GroupRows
    BY <1>2, GroupRowsKeeps
<1>3. CASE BuildNode
    BY <1>3, BuildNodeKeeps
<1>4. CASE NextParent
    BY <1>4, NextParentKeeps
<1>5. CASE BuildDone
    BY <1>5, BuiltStays DEF BuildDone, passVars, buildVars
<1>6. CASE RenderStep \/ RenderDone \/ Answered \/ UNCHANGED vars
    <2>1. UNCHANGED <<arenaVars, rows, groups, queue>>
        BY <1>6 DEF RenderStep, RenderDone, Answered, vars, passVars, buildVars
    <2>2. phase' = phase \/ (phase = "render" /\ phase' = "done")
        BY <1>6 DEF RenderStep, RenderDone, Answered, vars
    <2> QED
        BY <2>1, <2>2, BuiltStays
<1>7. CASE \/ ExpandRepeater \/ RepeatersDone \/ BindRow \/ BindingsDone
           \/ \E c \in Coll : ReadRef(c)
           \/ InterpolateCollectionRefs \/ AutoWireForms \/ AutoWireHangs
    <2>1. UNCHANGED arenaVars /\ phase \in PassPhases /\ phase' \in PassPhases
        BY <1>7 DEF ExpandRepeater, RepeatersDone, BindRow, BindingsDone, ReadRef,
               InterpolateCollectionRefs, AutoWireForms, AutoWireHangs, PassPhases
    <2> QED
        BY <2>1, PassesLeaveTree
<1>8. CASE \E c \in Coll : AddRecord(c) \/ \E i \in DOMAIN records[c] : DropRecord(c, i)
    <2>1. UNCHANGED arenaVars /\ phase \in PassPhases /\ phase' \in PassPhases
        BY <1>8 DEF AddRecord, DropRecord, RecordChanges, PassPhases
    <2> QED
        BY <2>1, PassesLeaveTree
<1> QED
    BY <1>1, <1>2, <1>3, <1>4, <1>5, <1>6, <1>7, <1>8 DEF Next

LEMMA BuildInvariant == Spec => [](PassInv /\ TextInv /\ BuildInv)
<1>1. PassInv /\ TextInv /\ BuildInv /\ [Next]_vars => (PassInv /\ TextInv /\ BuildInv)'
    BY PageStep, BuildStep
<1> QED
    BY <1>1, PageInit, BuildInit, PTL DEF Spec

\* The tree that from_db_rows builds, and every tree in a caller's hands, has an
\* exact index, links that agree and complete child lists; and as long as no
\* caller strays every node hangs below the root.  The builder itself never
\* strays: what it renders is a tree.
THEOREM PageTreeIsSound ==
    Spec => [](/\ ArenaTypeOK /\ InvariantsHold /\ ListsAreComplete /\ AllBelowRoot
               /\ phase # "library" => ~strayed)
<1>1. BuildInv => /\ ArenaTypeOK /\ InvariantsHold /\ ListsAreComplete /\ AllBelowRoot
                  /\ phase # "library" => ~strayed
    <2> SUFFICES ASSUME BuildInv
                 PROVE  /\ ArenaTypeOK /\ InvariantsHold /\ ListsAreComplete /\ AllBelowRoot
                        /\ phase # "library" => ~strayed
        OBVIOUS
    <2>1. TreeInv /\ BelowInv
        BY DEF BuildInv, BelowInv
    <2>2. ArenaTypeOK
        BY <2>1 DEF TreeInv
    <2>3. InvariantsHold
        BY <2>1 DEF TreeInv, InvariantsHold, LinksAgree, Whole, LeftLinks, RightLinks, UpLinks
    <2>4. ListsAreComplete
        BY <2>1 DEF TreeInv, ListsAreComplete, ChildrenOf, Whole, DownLinks, NoRing
    <2>5. AllBelowRoot
        BY <2>1 DEF BelowInv, AllBelowRoot, Rooted
    <2> QED
        BY <2>2, <2>3, <2>4, <2>5 DEF BuildInv
<1> QED
    BY <1>1, BuildInvariant, PTL

-----------------------------------------------------------------------------
(* The page's tree is an arena in the hands of a caller *)

LEMMA BuildNodeAppends ==
    ASSUME PassInv, BuildInv, BuildNode
    PROVE  \E p \in Key, u \in Uuid, c \in Content : AppendChild(p, u, c)
<1> DEFINE p == Head(queue)
           u == Head(groups[p])
           c == RowOf(u).tag
           k == by_uuid[p]
<1>1. phase = "build" /\ queue # <<>> /\ groups[p] # <<>> /\ AppendChild(k, u, c)
    BY DEF BuildNode, passVars
<1>2. rows \in Seq(Row) /\ IdsOf(rows) \subseteq Uuid
    BY DEF PassInv, RowsOK
<1>3. TreeInv /\ GroupsInv
    BY <1>1 DEF BuildInv, Built, BelowInv
<1> DEFINE P == IdsOf(rows) \cup {Body}
<1>4. /\ queue \in Seq(P) /\ ToSet(queue) \subseteq DOMAIN by_uuid
      /\ groups \in [P -> Seq(IdsOf(rows))]
    BY <1>3 DEF GroupsInv
<1>5. p \in P /\ p \in DOMAIN by_uuid
    <2>1. 1 \in DOMAIN queue /\ p = queue[1] /\ queue[1] \in P
        BY <1>1, <1>4
    <2> QED
        BY <1>4, <2>1 DEF ToSet
<1>6. u \in IdsOf(rows)
    <2>1. groups[p] \in Seq(IdsOf(rows))
        BY <1>4, <1>5
    <2> QED
        BY <1>1, <2>1
<1>7. RowOf(u).tag \in {"box", "form", "input", "#text"}
    <2>1. RowOf(u) \in Row
        BY <1>2, <1>6, RowOfId
    <2> HIDE DEF u
    <2> QED
        BY <2>1, RowFields
<1>8. c \in Content /\ u \in Uuid
    BY <1>2, <1>6, <1>7, RenderAssumption
<1>9. k \in Key
    BY <1>3, <1>5 DEF TreeInv, ArenaTypeOK, IndexIsExact, Key
<1> QED
    BY <1>1, <1>8, <1>9

LEMMA StepIsCall ==
    ASSUME PassInv, BuildInv, [Next]_vars
    PROVE  [ArenaCalls(Uuid, Content)]_arenaVars
<1>1. CASE LibraryCall
    <2>1. LibraryUuid \subseteq Uuid /\ LibraryContent \subseteq Content
        BY RenderAssumption
    <2>2. ArenaCalls(LibraryUuid, LibraryContent)
        BY <1>1 DEF LibraryCall
    <2> QED
        BY <2>1, <2>2 DEF ArenaCalls
<1>2. CASE BuildNode
    BY <1>2, BuildNodeAppends DEF ArenaCalls
<1>3. CASE UNCHANGED vars
    BY <1>3 DEF vars
<1>4. CASE \/ ExpandRepeater \/ RepeatersDone \/ BindRow \/ BindingsDone
           \/ \E c \in Coll : ReadRef(c)
           \/ InterpolateCollectionRefs \/ AutoWireForms \/ AutoWireHangs
    <2>1. UNCHANGED arenaVars
        BY <1>4 DEF ExpandRepeater, RepeatersDone, BindRow, BindingsDone, ReadRef,
                    InterpolateCollectionRefs, AutoWireForms, AutoWireHangs
    <2> QED
        BY <2>1
<1>5. CASE \E c \in Coll : AddRecord(c) \/ \E i \in DOMAIN records[c] : DropRecord(c, i)
    BY <1>5 DEF AddRecord, DropRecord, RecordChanges
<1>6. CASE GroupRows \/ NextParent \/ BuildDone \/ RenderStep \/ RenderDone \/ Answered
    BY <1>6 DEF GroupRows, NextParent, BuildDone, RenderStep, RenderDone, Answered, vars
<1> QED
    BY <1>1, <1>2, <1>3, <1>4, <1>5, <1>6 DEF Next

LEMMA InitIsNewTree == Init => ArenaInit
BY RenderAssumption DEF Init, RenderInit, LibraryInit, ArenaInit

\* from_db_rows, the passes before it and the renderer behind it use the tree
\* as any caller may: what holds of every arena holds of theirs.
LEMMA PageUsesArena == Spec => ArenaSpec
<1>1. PassInv /\ BuildInv /\ [Next]_vars => [ArenaCalls(Uuid, Content)]_arenaVars
    BY StepIsCall
<1> QED
    BY <1>1, InitIsNewTree, BuildInvariant, PTL DEF Spec, ArenaSpec

\* Each node that from_db_rows puts into the tree of a page, and each call of a
\* user of lovely_tree, is one edit of the ordered tree that callers see: one
\* element more, one with all below it less, one in another place, or none.
THEOREM PageTreeIsOrdered == Spec => OrderedTreeSteps
BY PageUsesArena, ArenaIsOrderedTree, PTL

-----------------------------------------------------------------------------
(* Up the tree *)

LEMMA UpwardIsLeast ==
    ASSUME NEW f, NEW n, NEW S \in SUBSET DOMAIN f, n \in S,
           \A y \in S : f[y].parent \in S \cup {NoNode}
    PROVE  Upward(f, n) \subseteq S
BY DEF Upward

LEMMA UpwardFacts ==
    ASSUME NEW f, Typed(f), Whole(f), NEW rt \in DOMAIN f, f[rt].parent = NoNode, Rooted(f, rt)
    PROVE  /\ Upward(f, rt) = {rt}
           /\ \A n \in DOMAIN f :
                 /\ n \in Upward(f, n) /\ Upward(f, n) \subseteq DOMAIN f
                 /\ \A m \in Upward(f, n) : Upward(f, m) \subseteq Upward(f, n)
           /\ \A n \in DOMAIN f \ {rt} :
                 /\ f[n].parent \in DOMAIN f
                 /\ Upward(f, n) = {n} \cup Upward(f, f[n].parent)
                 /\ n \notin Upward(f, f[n].parent)
           /\ \A n \in DOMAIN f : \A m \in Upward(f, n) \ {n} : \E x \in Upward(f, n) : f[x].parent = m
<1> DEFINE Up_(n) == Upward(f, n)
           D == DOMAIN f
<1>1. \A n \in D : /\ n \in Up_(n) /\ Up_(n) \subseteq D
                   /\ \A y \in Up_(n) : f[y].parent \in Up_(n) \cup {NoNode}
    BY UpwardIsClosed DEF Upward
<1>2. \A n \in D : \A S \in SUBSET D :
          n \in S /\ (\A y \in S : f[y].parent \in S \cup {NoNode}) => Up_(n) \subseteq S
    BY UpwardIsLeast
<1> HIDE DEF Up_
<1>3. Up_(rt) = {rt}
    <2>1. Up_(rt) \subseteq {rt}
        BY <1>2
    <2> QED
        BY <1>1, <2>1
<1>4. ASSUME NEW n \in D, NEW m \in Up_(n) PROVE Up_(m) \subseteq Up_(n)
    BY <1>1, <1>2
<1>5. ASSUME NEW n \in D \ {rt}
      PROVE  f[n].parent \in D /\ Up_(n) = {n} \cup Up_(f[n].parent)
    <2>1. f[n].parent \in D
        <3>0. {n} \in SUBSET (D \ {rt}) /\ {n} # {}
            OBVIOUS
        <3>1. \E x \in {n} : f[x].parent \in D \ {n}
            BY <3>0 DEF Rooted
        <3> QED
            BY <3>1
    <2>2. NoNode \notin D
        BY DEF Typed, NoNode
    <2>3. f[n].parent \in Up_(n)
        BY <1>1, <2>1, <2>2
    <2>4. Up_(f[n].parent) \subseteq Up_(n)
        BY <1>4, <2>3
    <2> DEFINE S == {n} \cup Up_(f[n].parent)
    <2>5. S \in SUBSET D /\ \A y \in S : f[y].parent \in S \cup {NoNode}
        BY <1>1, <2>1
    <2>6. Up_(n) \subseteq S
        BY <1>2, <2>5
    <2> QED
        BY <1>1, <2>1, <2>4, <2>6
<1>6. ASSUME NEW n \in D \ {rt}
      PROVE  n \notin Up_(f[n].parent)
    <2> SUFFICES ASSUME n \in Up_(f[n].parent) PROVE FALSE
        OBVIOUS
    <2> DEFINE S == {x \in D : n \in Up_(x) /\ x \in Up_(n)}
    <2>1. rt \notin S /\ n \in S
        BY <1>1, <1>3
    <2>2. \A x \in S : f[x].parent \in S
        <3> SUFFICES ASSUME NEW x \in S PROVE f[x].parent \in S
            OBVIOUS
        <3>1. x \in D \ {rt}
            BY <2>1
        <3>2. f[x].parent \in D /\ Up_(x) = {x} \cup Up_(f[x].parent)
            BY <1>5, <3>1
        <3>3. n \in Up_(f[x].parent)
            BY <3>2
        <3>4. f[x].parent \in Up_(n)
            <4>1. f[x].parent \in Up_(x)
                BY <1>1, <3>2
            <4> QED
                BY <1>4, <4>1
        <3> QED
            BY <3>2, <3>3, <3>4
    <2>3. S \in SUBSET (D \ {rt}) /\ S # {}
        BY <2>1
    <2> HIDE DEF S
    <2> QED
        BY <2>2, <2>3 DEF Rooted
<1>7. ASSUME NEW n \in D, NEW m \in Up_(n) \ {n}
      PROVE  \E x \in Up_(n) : f[x].parent = m
    <2> SUFFICES ASSUME \A x \in Up_(n) : f[x].parent # m PROVE FALSE
        OBVIOUS
    <2> DEFINE S == {x \in Up_(n) : m \in Up_(x) /\ x # m}
    <2>1. n \in S /\ rt \notin S
        BY <1>1, <1>3, <1>7
    <2>2. ASSUME NEW x \in S PROVE f[x].parent \in S
        <3>1. x \in D \ {rt}
            BY <1>1, <2>1
        <3>2. f[x].parent \in D /\ Up_(x) = {x} \cup Up_(f[x].parent)
            BY <1>5, <3>1
        <3>3. f[x].parent \in Up_(x)
            BY <1>1, <3>2
        <3>4. f[x].parent \in Up_(n)
            BY <1>4, <3>3
        <3> QED
            BY <3>2, <3>4
    <2>3. S \in SUBSET (D \ {rt}) /\ S # {}
        BY <1>1, <2>1
    <2> HIDE DEF S
    <2> QED
        BY <2>2, <2>3 DEF Rooted
<1> QED
    BY <1>1, <1>3, <1>4, <1>5, <1>6, <1>7 DEF Up_

Up(n) == Upward(nodes, n)
Leaf(n) == nodes[n].content \in {"#text", "input"}

\* The nodes are a tree, and n is below all other nodes of Up(n).
TreeOrder ==
    /\ root \in DOMAIN nodes /\ DOMAIN nodes \subseteq Nat \ {0}
    /\ Up(root) = {root} /\ nodes[root].parent \notin DOMAIN nodes
    /\ \A n \in DOMAIN nodes :
          /\ n \in Up(n) /\ Up(n) \subseteq DOMAIN nodes
          /\ \A m \in Up(n) : Up(m) \subseteq Up(n) /\ (m # n => n \notin Up(m))
          /\ \A m \in Up(n) \ {n} : \E x \in Up(n) : nodes[x].parent = m
    /\ \A n \in DOMAIN nodes \ {root} :
          /\ nodes[n].parent \in DOMAIN nodes
          /\ Up(n) = {n} \cup Up(nodes[n].parent)
          /\ n \notin Up(nodes[n].parent)

LEMMA TreeIsOrdered ==
    ASSUME BuildInv, phase # "library"
    PROVE  TreeOrder
<1>1. /\ TreeInv /\ Typed(nodes) /\ Whole(nodes) /\ root \in DOMAIN nodes
      /\ nodes[root].parent = NoNode /\ Rooted(nodes, root)
    BY DEF BuildInv, BelowInv, TreeInv, ArenaTypeOK
<1>2. /\ Up(root) = {root}
      /\ \A n \in DOMAIN nodes : /\ n \in Up(n) /\ Up(n) \subseteq DOMAIN nodes
                                 /\ \A m \in Up(n) : Up(m) \subseteq Up(n)
                                 /\ \A m \in Up(n) \ {n} : \E x \in Up(n) : nodes[x].parent = m
      /\ \A n \in DOMAIN nodes \ {root} :
            /\ nodes[n].parent \in DOMAIN nodes
            /\ Up(n) = {n} \cup Up(nodes[n].parent)
            /\ n \notin Up(nodes[n].parent)
    BY <1>1, UpwardFacts DEF Up
<1>3. ASSUME NEW n \in DOMAIN nodes, NEW m \in Up(n), m # n PROVE n \notin Up(m)
    <2>1. n # root
        BY <1>2, <1>3
    <2>2. m \in Up(nodes[n].parent) /\ nodes[n].parent \in DOMAIN nodes
        BY <1>2, <1>3, <2>1
    <2>3. Up(m) \subseteq Up(nodes[n].parent)
        BY <1>2, <2>2
    <2> QED
        BY <1>2, <2>1, <2>3
<1>4. DOMAIN nodes \subseteq Nat \ {0} /\ NoNode \notin DOMAIN nodes
    BY <1>1 DEF Typed, NoNode
<1> QED
    BY <1>1, <1>2, <1>3, <1>4 DEF TreeOrder

-----------------------------------------------------------------------------
(* The renderer's stack *)

\* The nodes that show: those not inside a leaf.
Live == {n \in DOMAIN nodes : \A m \in Up(n) \ {n} : ~ Leaf(m)}

Inner(n) == n # root /\ ~ Leaf(n)
Emits(n) == n # root /\ (nodes[n].content = "#text" => RowOf(nodes[n].uuid).text.say # "none")

\* The node of an entry, which is Open(n) or Close(n).
At(x) == IF x > 0 THEN x ELSE -x

\* The nodes that have been opened when the stack is st: what is still to come
\* is below an entry.
Opened(st) == {n \in Live : Up(n) \cap ToSet(st) = {}}

\* No entry is below an Open; the entries below a node that is open are those
\* on top of its Close; and all nodes above an entry are open.
StackOK(st) ==
    /\ st \in Seq(Int)
    /\ \A i \in DOMAIN st : \/ st[i] \in Live
                            \/ st[i] < 0 /\ -st[i] \in Opened(st) /\ Inner(-st[i])
    /\ \A i, j \in DOMAIN st : st[i] = st[j] => i = j
    /\ \A i, j \in DOMAIN st : st[i] \in Up(At(st[j])) => i = j
    /\ \A i, j \in DOMAIN st : st[j] < 0 /\ i # j => (-st[j] \in Up(At(st[i])) <=> i < j)
    /\ \A i \in DOMAIN st : \A m \in Up(At(st[i])) \ {At(st[i]), root} : -m \in ToSet(st)

LEMMA LiveNodes ==
    ASSUME TreeOrder
    PROVE  \A n \in Live : n \in DOMAIN nodes /\ n \in Nat /\ n > 0 /\ At(n) = n /\ At(-n) = n
                            /\ -n < 0 /\ -(-n) = n
BY DEF Live, TreeOrder, At

LEMMA EntryIsNode ==
    ASSUME TreeOrder, NEW st, StackOK(st), NEW i \in DOMAIN st
    PROVE  /\ st[i] \in Int /\ At(st[i]) \in Live /\ At(st[i]) \in DOMAIN nodes
           /\ st[i] > 0 => st[i] \in Live /\ At(st[i]) = st[i]
           /\ ~ (st[i] > 0) => /\ st[i] < 0 /\ At(st[i]) = -st[i]
                               /\ -st[i] \in Opened(st) /\ Inner(-st[i])
<1>1. st[i] \in Int
    BY DEF StackOK
<1>2. st[i] \in Live \/ (st[i] < 0 /\ -st[i] \in Opened(st) /\ Inner(-st[i]))
    BY DEF StackOK
<1>3. CASE st[i] \in Live
    BY <1>1, <1>3, LiveNodes
<1>4. CASE st[i] < 0 /\ -st[i] \in Opened(st) /\ Inner(-st[i])
    <2>1. -st[i] \in Live /\ At(st[i]) = -st[i] /\ ~ (st[i] > 0)
        BY <1>1, <1>4 DEF Opened, At
    <2> QED
        BY <1>1, <1>4, <2>1, LiveNodes
<1> QED
    BY <1>2, <1>3, <1>4

\* A Close is popped, or a leaf, which is opened and that is all: what is below
\* it does not show.
LEMMA Popped ==
    ASSUME TreeOrder, NEW st, StackOK(st), st # <<>>, st[1] > 0 => Leaf(st[1])
    PROVE  /\ StackOK(Tail(st))
           /\ Opened(Tail(st)) = IF st[1] > 0 THEN Opened(st) \cup {st[1]} ELSE Opened(st)
           /\ st[1] \notin Opened(st) /\ st[1] \notin ToSet(Tail(st))
           /\ ToSet(st) = {st[1]} \cup ToSet(Tail(st))
<1> DEFINE t == Tail(st)
           k == Len(st)
           n == st[1]
<1>1. st \in Seq(Int) /\ k \in Nat /\ k >= 1 /\ DOMAIN st = 1..k
    BY EmptySeq DEF StackOK
<1>2. t \in Seq(Int) /\ DOMAIN t = 1..(k - 1) /\ \A i \in 1..(k - 1) : t[i] = st[i + 1]
    BY <1>1
<1> HIDE DEF t, k
<1>3. \A i \in 1..(k - 1) : i + 1 \in 1..k /\ i + 1 # 1
    BY <1>1
<1>4. \A i \in 1..k : i = 1 \/ (i - 1 \in 1..(k - 1) /\ (i - 1) + 1 = i)
    BY <1>1
<1>5. \A i, j \in 1..k : st[i] = st[j] => i = j
    BY <1>1 DEF StackOK
<1>6. 1 \in 1..k
    BY <1>1
<1>7. ToSet(st) = {n} \cup ToSet(t)
    <2>1. ToSet(t) \subseteq ToSet(st)
        BY <1>1, <1>2, <1>3 DEF ToSet
    <2>2. st[1] \in ToSet(st)
        BY <1>1, <1>6 DEF ToSet
    <2>3. ASSUME NEW i \in 1..k PROVE st[i] \in {st[1]} \cup ToSet(t)
        BY <1>2, <1>4 DEF ToSet
    <2> QED
        BY <1>1, <2>1, <2>2, <2>3 DEF ToSet
<1>8. n \notin ToSet(t)
    BY <1>2, <1>3, <1>5, <1>6 DEF ToSet
<1>9. /\ n \in Int /\ At(n) \in Live /\ At(n) \in DOMAIN nodes /\ At(n) \in Up(At(n))
      /\ n > 0 => n \in Live /\ At(n) = n
    BY <1>1, <1>6, EntryIsNode DEF TreeOrder
<1>10. Up(At(n)) \cap ToSet(t) = {}
    <2> SUFFICES ASSUME NEW i \in 1..(k - 1), t[i] \in Up(At(n)) PROVE FALSE
        BY <1>2 DEF ToSet
    <2>1. st[i + 1] \in Up(At(st[1])) /\ i + 1 \in DOMAIN st /\ 1 \in DOMAIN st
        BY <1>1, <1>2, <1>3, <1>6
    <2> QED
        BY <1>3, <2>1 DEF StackOK
<1>11. Opened(t) = IF n > 0 THEN Opened(st) \cup {n} ELSE Opened(st)
    <2>1. CASE n > 0
        <3>1. \A x \in Live : n \in Up(x) => x = n
            BY <2>1 DEF Live
        <3> QED
            BY <1>7, <1>9, <1>10, <2>1, <3>1 DEF Opened
    <2>2. CASE ~ (n > 0)
        <3>1. \A x \in Live : n \notin Up(x)
            BY <1>9, <2>2, LiveNodes DEF TreeOrder
        <3> QED
            BY <1>7, <2>2, <3>1 DEF Opened
    <2> QED
        BY <2>1, <2>2
<1>12. \A i, j \in 1..(k - 1) : i < j <=> i + 1 < j + 1
    BY <1>1
<1>13. \A i, j \in 1..(k - 1) : i + 1 = j + 1 => i = j
    BY <1>1
<1>14. StackOK(t)
    <2>1. \A i \in DOMAIN t : t[i] \in Live \/ (t[i] < 0 /\ -t[i] \in Opened(t) /\ Inner(-t[i]))
        BY <1>1, <1>2, <1>3, <1>11 DEF StackOK
    <2>2. \A i, j \in DOMAIN t : t[i] = t[j] => i = j
        BY <1>2, <1>3, <1>5, <1>13
    <2>3. \A i, j \in DOMAIN t : t[i] \in Up(At(t[j])) => i = j
        BY <1>1, <1>2, <1>3, <1>13 DEF StackOK
    <2>4. \A i, j \in DOMAIN t : t[j] < 0 /\ i # j => (-t[j] \in Up(At(t[i])) <=> i < j)
        <3> SUFFICES ASSUME NEW i \in 1..(k - 1), NEW j \in 1..(k - 1), t[j] < 0, i # j
                     PROVE  -t[j] \in Up(At(t[i])) <=> i < j
            BY <1>2
        <3>1. i + 1 # j + 1 /\ t[j] = st[j + 1] /\ t[i] = st[i + 1] /\ (i < j <=> i + 1 < j + 1)
            BY <1>2, <1>12, <1>13
        <3> QED
            BY <1>1, <1>3, <3>1 DEF StackOK
    <2>5. ASSUME NEW i \in DOMAIN t, NEW m \in Up(At(t[i])) \ {At(t[i]), root}
          PROVE  -m \in ToSet(t)
        <3>1. i + 1 \in DOMAIN st /\ t[i] = st[i + 1]
            BY <1>1, <1>2, <1>3
        <3>2. -m \in ToSet(st)
            BY <2>5, <3>1 DEF StackOK
        <3>5. At(t[i]) \in DOMAIN nodes /\ m \in Up(At(t[i]))
            BY <3>1, EntryIsNode
        <3>3. m \in Nat /\ m \in DOMAIN nodes
            BY <3>5 DEF TreeOrder
        <3>4. -m # n
            <4> SUFFICES ASSUME -m = n PROVE FALSE
                OBVIOUS
            <4>1. n < 0 /\ m = -n
                <5>1. m # 0
                    BY <3>3 DEF TreeOrder
                <5> QED
                    BY <3>3, <5>1
            <4>2. m \notin Up(At(st[i + 1]))
                BY <1>1, <1>3, <1>6, <3>1, <4>1 DEF StackOK
            <4> QED
                BY <3>1, <4>2
        <3> QED
            BY <1>7, <3>2, <3>4
    <2> QED
        BY <1>2, <2>1, <2>2, <2>3, <2>4, <2>5 DEF StackOK
<1>15. n \notin Opened(st)
    <2>1. n \in Opened(st) => n \in Live /\ n \notin Up(n)
        BY <1>7 DEF Opened
    <2> QED
        BY <2>1, LiveNodes DEF TreeOrder
<1> QED
    BY <1>7, <1>8, <1>11, <1>14, <1>15 DEF t

LEMMA BehindIt ==
    ASSUME NEW s \in Seq(Int), NEW t \in Seq(Int)
    PROVE  /\ s \o t \in Seq(Int) /\ Len(s \o t) = Len(s) + Len(t)
           /\ \A i \in 1..Len(s) : (s \o t)[i] = s[i]
           /\ \A i \in 1..Len(t) : (s \o t)[Len(s) + i] = t[i]
<1>1. Len(s) \in Nat /\ Len(t) \in Nat /\ Len(s \o t) = Len(s) + Len(t) /\ s \o t \in Seq(Int)
    OBVIOUS
<1>2. \A i \in 1..Len(s) : (s \o t)[i] = s[i]
    OBVIOUS
<1>3. \A i \in 1..Len(t) : (s \o t)[Len(s) + i] = t[i]
    OBVIOUS
<1> QED
    BY <1>1, <1>2, <1>3

\* Where the entries of (l \o c) \o Tail(st) come from.
Laid(l, c, st, w, a, e, k) ==
    /\ w \in Seq(Int) /\ DOMAIN w = 1..(a + e + (k - 1))
    /\ a \in Nat /\ e \in Nat /\ k \in Nat /\ k >= 1
    /\ \A i \in 1..a : w[i] = l[i] /\ i \in DOMAIN w
    /\ \A i \in 1..e : w[a + i] = c[i] /\ a + i \in DOMAIN w
    /\ \A i \in 2..k : w[a + e + (i - 1)] = st[i] /\ a + e + (i - 1) \in DOMAIN w
    /\ \A x \in DOMAIN w : \/ x \in 1..a
                           \/ \E i \in 1..e : x = a + i
                           \/ \E i \in 2..k : x = a + e + (i - 1)

LEMMA PushedEntries ==
    ASSUME NEW l \in Seq(Int), NEW c \in Seq(Int), NEW st \in Seq(Int), st # <<>>
    PROVE  Laid(l, c, st, (l \o c) \o Tail(st), Len(l), Len(c), Len(st))
<1> DEFINE a == Len(l)
           e == Len(c)
           k == Len(st)
           w == (l \o c) \o Tail(st)
<1>1. a \in Nat /\ e \in Nat /\ k \in Nat /\ k >= 1
    BY EmptySeq
<1> DEFINE d == l \o c
           t == Tail(st)
<1>2. d \in Seq(Int) /\ Len(d) = a + e /\ (\A i \in 1..a : d[i] = l[i]) /\ \A i \in 1..e : d[a + i] = c[i]
    OBVIOUS
<1>3. t \in Seq(Int) /\ Len(t) = k - 1 /\ \A i \in 1..(k - 1) : t[i] = st[i + 1]
    OBVIOUS
<1>d. w = d \o t
    OBVIOUS
<1> HIDE DEF a, e, k, w, d, t
<1>4. /\ w \in Seq(Int) /\ DOMAIN w = 1..(a + e + (k - 1))
      /\ \A i \in 1..(a + e) : w[i] = d[i]
      /\ \A i \in 1..(k - 1) : w[a + e + i] = t[i]
    <2>2. /\ d \o t \in Seq(Int) /\ Len(d \o t) = Len(d) + Len(t)
          /\ \A i \in 1..Len(d) : (d \o t)[i] = d[i]
          /\ \A i \in 1..Len(t) : (d \o t)[Len(d) + i] = t[i]
        <3>1. d \in Seq(Int) /\ t \in Seq(Int)
            BY <1>2, <1>3
        <3> QED
            BY <3>1, BehindIt
    <2>3. \A x \in Seq(Int) : DOMAIN x = 1..Len(x)
        OBVIOUS
    <2>4. DOMAIN w = 1..Len(w)
        BY <1>d, <2>2, <2>3
    <2> QED
        BY <1>d, <1>2, <1>3, <2>2, <2>4
<1>5. /\ \A i \in 1..a : i \in 1..(a + e) /\ i \in 1..(a + e + (k - 1))
      /\ \A i \in 1..e : a + i \in 1..(a + e) /\ a + i \in 1..(a + e + (k - 1))
      /\ \A i \in 2..k : /\ i - 1 \in 1..(k - 1) /\ (i - 1) + 1 = i
                         /\ a + e + (i - 1) \in 1..(a + e + (k - 1))
    BY <1>1
<1>6. \A i \in 1..a : w[i] = l[i] /\ i \in DOMAIN w
    BY <1>2, <1>4, <1>5
<1>7. \A i \in 1..e : w[a + i] = c[i] /\ a + i \in DOMAIN w
    BY <1>2, <1>4, <1>5
<1>8. \A i \in 2..k : w[a + e + (i - 1)] = st[i] /\ a + e + (i - 1) \in DOMAIN w
    BY <1>3, <1>4, <1>5
<1>9. ASSUME NEW x \in DOMAIN w, x \notin 1..a, \A i \in 1..e : x # a + i
      PROVE  \E i \in 2..k : x = a + e + (i - 1)
    <2>0. x \in 1..(a + e + (k - 1))
        BY <1>4
    <2>1. x - a \notin 1..e /\ x \in Nat
        <3>1. x = a + (x - a) /\ x \in Nat
            BY <1>1, <2>0
        <3>2. ASSUME x - a \in 1..e PROVE FALSE
            BY <1>9, <3>1, <3>2
        <3> QED
            BY <3>1, <3>2
    <2>2. x > a + e /\ x <= a + e + (k - 1)
        BY <1>1, <1>9, <2>0, <2>1
    <2>3. (x - (a + e)) + 1 \in 2..k /\ x = a + e + (((x - (a + e)) + 1) - 1)
        BY <1>1, <2>1, <2>2
    <2> QED
        BY <2>3
<1>10. Laid(l, c, st, w, a, e, k)
    BY <1>1, <1>4, <1>6, <1>7, <1>8, <1>9 DEF Laid
<1> QED
    BY <1>10 DEF a, e, k, w


\* Where the entries are in the stack that replaces st when n is opened: the
\* children of n are at kp, the Close of n at cp, and what was at i is at o[i].
Places(st, n, ch, w, kp, cp, o) ==
    /\ w \in Seq(Int) /\ DOMAIN o = DOMAIN st \ {1}
    /\ \A x \in DOMAIN w : x \in kp \/ x \in cp \/ \E i \in DOMAIN o : x = o[i]
    /\ \A x \in kp : x \in DOMAIN w /\ w[x] \in ch
    /\ \A m \in ch : \E x \in kp : w[x] = m
    /\ \A x, y \in kp : w[x] = w[y] => x = y
    /\ \A x \in cp : x \in DOMAIN w /\ n # root /\ w[x] = -n
    /\ \A x, y \in cp : x = y
    /\ n # root => \E x \in cp : TRUE
    /\ \A i \in DOMAIN o : o[i] \in DOMAIN w /\ w[o[i]] = st[i]
    /\ \A x \in kp, y \in cp : x < y
    /\ \A x \in kp, i \in DOMAIN o : x < o[i]
    /\ \A x \in cp, i \in DOMAIN o : x < o[i]
    /\ \A i, j \in DOMAIN o : (i < j <=> o[i] < o[j]) /\ (o[i] = o[j] => i = j)

LEMMA PlacesExist ==
    ASSUME NEW st \in Seq(Int), st # <<>>, NEW n \in Nat,
           NEW l \in Seq(Int), NEW ch, ToSet(l) = ch, \A i, j \in DOMAIN l : l[i] = l[j] => i = j,
           NEW c, c = IF n = root THEN <<>> ELSE <<-n>>
    PROVE  \E kp, cp, o : Places(st, n, ch, (l \o c) \o Tail(st), kp, cp, o)
<1> DEFINE a == Len(l)
           e == Len(c)
           k == Len(st)
           w == (l \o c) \o Tail(st)
<1>1. c \in Seq(Int) /\ e \in Nat /\ (n = root => e = 0) /\ (n # root => e = 1 /\ c[1] = -n)
    OBVIOUS
<1>2. DOMAIN st = 1..k /\ DOMAIN l = 1..a
    OBVIOUS
<1> HIDE DEF a, e, k, w
<1>3. /\ w \in Seq(Int) /\ DOMAIN w = 1..(a + e + (k - 1))
      /\ a \in Nat /\ e \in Nat /\ k \in Nat /\ k >= 1
      /\ \A i \in 1..a : w[i] = l[i] /\ i \in DOMAIN w
      /\ \A i \in 1..e : w[a + i] = c[i] /\ a + i \in DOMAIN w
      /\ \A i \in 2..k : w[a + e + (i - 1)] = st[i] /\ a + e + (i - 1) \in DOMAIN w
      /\ \A x \in DOMAIN w : \/ x \in 1..a
                             \/ \E i \in 1..e : x = a + i
                             \/ \E i \in 2..k : x = a + e + (i - 1)
    <2>1. Laid(l, c, st, w, a, e, k)
        BY <1>1, PushedEntries DEF a, e, k, w
    <2> QED
        BY <2>1 DEF Laid
<1> DEFINE kp == 1..a
           cp == {a + i : i \in 1..e}
           o == [i \in 2..k |-> a + e + (i - 1)]
<1>4. DOMAIN o = DOMAIN st \ {1}
    <2>1. DOMAIN o = 2..k
        OBVIOUS
    <2>2. 2..k = (1..k) \ {1}
        BY <1>3
    <2> HIDE DEF o
    <2> QED
        BY <1>2, <2>1, <2>2
<1>5. \A x \in DOMAIN w : x \in kp \/ x \in cp \/ \E i \in DOMAIN o : x = o[i]
    BY <1>3
<1>6. /\ \A x \in kp : x \in DOMAIN w /\ w[x] \in ch
      /\ \A m \in ch : \E x \in kp : w[x] = m
      /\ \A x, y \in kp : w[x] = w[y] => x = y
    <2>1. \A m \in ch : \E x \in 1..a : l[x] = m
        BY <1>2 DEF ToSet
    <2>2. \A x \in 1..a : l[x] \in ch
        BY <1>2 DEF ToSet
    <2> QED
        BY <1>2, <1>3, <2>1, <2>2
<1>7. /\ \A x \in cp : x \in DOMAIN w /\ n # root /\ w[x] = -n
      /\ \A x, y \in cp : x = y
      /\ n # root => \E x \in cp : TRUE
    <2>1. \A i \in 1..e : i = 1 /\ n # root
        BY <1>1
    <2>2. n # root => 1 \in 1..e
        BY <1>1
    <2>3. \A i \in 1..e : w[a + i] = -n /\ a + i \in DOMAIN w
        BY <1>1, <1>3, <2>1
    <2> QED
        BY <2>1, <2>2, <2>3
<1>8. \A i \in DOMAIN o : o[i] \in DOMAIN w /\ w[o[i]] = st[i]
    BY <1>3
<1>9. /\ \A x \in kp, y \in cp : x < y
      /\ \A x \in kp, i \in DOMAIN o : x < o[i]
      /\ \A x \in cp, i \in DOMAIN o : x < o[i]
      /\ \A i, j \in DOMAIN o : (i < j <=> o[i] < o[j]) /\ (o[i] = o[j] => i = j)
    BY <1>3
<1> HIDE DEF kp, cp, o
<1>10. Places(st, n, ch, w, kp, cp, o)
    BY <1>3, <1>4, <1>5, <1>6, <1>7, <1>8, <1>9 DEF Places
<1> QED
    BY <1>10 DEF w

LEMMA KidsBelow ==
    ASSUME TreeOrder, NEW n \in Live, ~ Leaf(n), NEW m \in ChildrenOf(nodes, n)
    PROVE  /\ m \in DOMAIN nodes /\ m \in Live /\ m \in Nat /\ m > 0 /\ At(m) = m
           /\ m # root /\ m # n
           /\ Up(m) = {m} \cup Up(n) /\ m \notin Up(n) /\ n \in Up(m) /\ m \in Up(m)
<1>0. n \in DOMAIN nodes /\ n \in Up(n)
    BY LiveNodes DEF TreeOrder
<1>1. m \in DOMAIN nodes /\ nodes[m].parent = n /\ m # root
    BY <1>0 DEF ChildrenOf, TreeOrder
<1>2. Up(m) = {m} \cup Up(n) /\ m \notin Up(n) /\ m \in Nat /\ m > 0
    BY <1>1 DEF TreeOrder
<1>3. m \in Live
    BY <1>0, <1>1, <1>2 DEF Live
<1> QED
    BY <1>0, <1>1, <1>2, <1>3 DEF At

\* What lies under the top of the stack, when the top is an Open.
LEMMA UnderTop ==
    ASSUME TreeOrder, NEW st, StackOK(st), st # <<>>, NEW n, n = st[1], n > 0
    PROVE  /\ st \in Seq(Int) /\ 1 \in DOMAIN st
           /\ n \in Live /\ n \in DOMAIN nodes /\ n \notin Opened(st)
           /\ \A i \in DOMAIN st \ {1} :
                 /\ 1 < i /\ st[i] # n /\ st[i] # -n
                 /\ n \notin Up(At(st[i])) /\ st[i] \notin Up(n)
                 /\ st[i] < 0 => -st[i] \in Up(n)
           /\ \A m \in DOMAIN nodes : -m \in ToSet(st) <=> \E i \in DOMAIN st \ {1} : st[i] = -m
           /\ \A m \in Up(n) \ {n, root} : -m \in ToSet(st)
<1>1. st \in Seq(Int) /\ 1 \in DOMAIN st /\ \A i \in DOMAIN st \ {1} : 1 < i
    BY EmptySeq DEF StackOK
<1>2. n \in Live /\ At(n) = n
    BY <1>1, EntryIsNode
<1>3. n \in DOMAIN nodes /\ n \in Up(n) /\ n \in Nat
    BY <1>2, LiveNodes DEF TreeOrder
<1>4. n \notin Opened(st)
    BY <1>1, <1>3 DEF Opened, ToSet
<1>5. ASSUME NEW i \in DOMAIN st \ {1}
      PROVE  /\ 1 < i /\ st[i] # n /\ st[i] # -n
             /\ n \notin Up(At(st[i])) /\ st[i] \notin Up(n)
             /\ st[i] < 0 => -st[i] \in Up(n)
    <2>1. 1 < i /\ st[i] # n
        BY <1>1 DEF StackOK
    <2>2. n \notin Up(At(st[i])) /\ st[i] \notin Up(n)
        BY <1>1, <1>2 DEF StackOK
    <2>3. st[i] < 0 => -st[i] \in Up(n)
        BY <1>1, <1>2, <2>1 DEF StackOK
    <2>4. ASSUME st[i] = -n PROVE FALSE
        <3>1. st[i] < 0 /\ -st[i] = n
            BY <1>2, <2>4, LiveNodes
        <3>2. n \in Opened(st)
            BY <3>1, EntryIsNode
        <3> QED
            BY <1>4, <3>2
    <2> QED
        BY <2>1, <2>2, <2>3, <2>4
<1>6. \A m \in DOMAIN nodes : -m \in ToSet(st) <=> \E i \in DOMAIN st \ {1} : st[i] = -m
    <2>1. \A m \in DOMAIN nodes : -m # n
        BY <1>3 DEF TreeOrder
    <2> QED
        BY <2>1 DEF ToSet
<1>7. \A m \in Up(n) \ {n, root} : -m \in ToSet(st)
    BY <1>1, <1>2 DEF StackOK
<1> QED
    BY <1>1, <1>2, <1>3, <1>4, <1>5, <1>6, <1>7

\* The Closes on the stack are those that were there, and that of n.
ClosesAt(w, st, n) ==
    \A m \in DOMAIN nodes : -m \in ToSet(w) <=> -m \in ToSet(st) \/ (m = n /\ Inner(n))

\* The members of the new stack, and the nodes that are open.
LEMMA PushedOpened ==
    ASSUME TreeOrder, NEW st, StackOK(st), st # <<>>, NEW n, n = st[1], n > 0, ~ Leaf(n),
           NEW w, NEW kp, NEW cp, NEW o, Places(st, n, ChildrenOf(nodes, n), w, kp, cp, o)
    PROVE  /\ ClosesAt(w, st, n)
           /\ Opened(w) = Opened(st) \cup {n} /\ n \notin Opened(st)
<1> DEFINE ch == ChildrenOf(nodes, n)
<1>1. /\ w \in Seq(Int) /\ DOMAIN o = DOMAIN st \ {1}
      /\ \A x \in DOMAIN w : x \in kp \/ x \in cp \/ \E i \in DOMAIN o : x = o[i]
      /\ \A x \in kp : x \in DOMAIN w /\ w[x] \in ch
      /\ \A m \in ch : \E x \in kp : w[x] = m
      /\ \A x \in cp : x \in DOMAIN w /\ n # root /\ w[x] = -n
      /\ n # root => \E x \in cp : TRUE
      /\ \A i \in DOMAIN o : o[i] \in DOMAIN w /\ w[o[i]] = st[i]
    BY DEF Places
<1>2. /\ n \in Live /\ n \in DOMAIN nodes /\ n \notin Opened(st) /\ n \in Nat
      /\ \A i \in DOMAIN o : /\ st[i] # n /\ st[i] # -n
                             /\ n \notin Up(At(st[i])) /\ st[i] \notin Up(n)
      /\ \A m \in DOMAIN nodes : -m \in ToSet(st) <=> \E i \in DOMAIN o : st[i] = -m
    BY <1>1, UnderTop, LiveNodes
<1>3. \A m \in ch : /\ m \in DOMAIN nodes /\ m \in Nat /\ m > 0
                    /\ m \notin Up(n) /\ n \in Up(m) /\ m # n
    BY <1>2, KidsBelow
<1>4. \A m \in DOMAIN nodes : m \in Nat /\ m > 0 /\ -m < 0 /\ (-m = -n => m = n)
    BY <1>2 DEF TreeOrder
<1>5. \A x \in DOMAIN nodes : \A m \in Up(x) : m \in DOMAIN nodes /\ Up(m) \subseteq Up(x)
    BY DEF TreeOrder
<1> HIDE DEF ch
<1>6. \A m \in DOMAIN nodes : -m \in ToSet(w) <=> -m \in ToSet(st) \/ (m = n /\ n # root)
    <2> SUFFICES ASSUME NEW m \in DOMAIN nodes
                 PROVE  -m \in ToSet(w) <=> -m \in ToSet(st) \/ (m = n /\ n # root)
        OBVIOUS
    <2>1. ASSUME NEW x \in DOMAIN w, w[x] = -m
          PROVE  -m \in ToSet(st) \/ (m = n /\ n # root)
        <3>1. x \notin kp
            BY <1>1, <1>3, <1>4, <2>1
        <3>2. CASE x \in cp
            BY <1>1, <1>4, <2>1, <3>2
        <3>3. ASSUME NEW i \in DOMAIN o, x = o[i] PROVE -m \in ToSet(st)
            BY <1>1, <1>2, <2>1, <3>3
        <3> QED
            BY <1>1, <3>1, <3>2, <3>3
    <2>2. ASSUME NEW i \in DOMAIN o, st[i] = -m PROVE -m \in ToSet(w)
        BY <1>1, <2>2 DEF ToSet
    <2>3. n # root => -n \in ToSet(w)
        BY <1>1 DEF ToSet
    <2> QED
        BY <1>2, <2>1, <2>2, <2>3 DEF ToSet
<1>7. ASSUME NEW x \in Live, x \in Opened(st)
      PROVE  Up(x) \cap ToSet(w) = {}
    <2> SUFFICES ASSUME NEW i \in DOMAIN w, w[i] \in Up(x) PROVE FALSE
        BY DEF ToSet
    <2>1. x \in DOMAIN nodes /\ w[i] \in DOMAIN nodes /\ w[i] > 0
        BY <1>4, <1>5, LiveNodes
    <2>2. n \notin Up(x)
        <3>1. n \in ToSet(st)
            BY UnderTop DEF ToSet
        <3> QED
            BY <1>7, <3>1 DEF Opened
    <2>3. i \notin kp
        BY <1>1, <1>3, <1>5, <2>1, <2>2
    <2>4. i \notin cp
        BY <1>1, <1>2, <1>4, <2>1
    <2>5. ASSUME NEW j \in DOMAIN o, i = o[j] PROVE FALSE
        <3>1. w[i] = st[j] /\ j \in DOMAIN st
            BY <1>1, <2>5
        <3>2. st[j] \in ToSet(st)
            BY <3>1 DEF ToSet
        <3> QED
            BY <1>7, <3>1, <3>2 DEF Opened
    <2> QED
        BY <1>1, <2>3, <2>4, <2>5
<1>8. Up(n) \cap ToSet(w) = {}
    <2> SUFFICES ASSUME NEW i \in DOMAIN w, w[i] \in Up(n) PROVE FALSE
        BY DEF ToSet
    <2>1. w[i] \in DOMAIN nodes /\ w[i] > 0
        BY <1>2, <1>4, <1>5
    <2>2. i \notin kp
        BY <1>1, <1>3
    <2>3. i \notin cp
        BY <1>1, <1>2, <1>4, <2>1
    <2>4. ASSUME NEW j \in DOMAIN o, i = o[j] PROVE FALSE
        BY <1>1, <1>2, <2>4
    <2> QED
        BY <1>1, <2>2, <2>3, <2>4
<1>9. ASSUME NEW x \in Live, Up(x) \cap ToSet(w) = {}, Up(x) \cap ToSet(st) # {}
      PROVE  x = n
    <2>1. PICK j \in DOMAIN st : st[j] \in Up(x)
        BY <1>9 DEF ToSet
    <2>2. j = 1
        <3>1. j \in DOMAIN o => st[j] \in ToSet(w)
            BY <1>1 DEF ToSet
        <3> QED
            BY <1>1, <1>9, <2>1, <3>1
    <2>3. ASSUME x # n PROVE FALSE
        <3>1. x \in DOMAIN nodes /\ n \in Up(x) \ {x}
            BY <2>1, <2>2, <2>3, LiveNodes
        <3>2. PICK m \in Up(x) : nodes[m].parent = n
            BY <3>1 DEF TreeOrder
        <3>3. m \in ch
            BY <1>5, <3>1, <3>2 DEF ChildrenOf, ch
        <3>4. m \in ToSet(w)
            BY <1>1, <3>3 DEF ToSet
        <3> QED
            BY <1>9, <3>2, <3>4
    <2> QED
        BY <2>3
<1>10. Opened(w) = Opened(st) \cup {n}
    <2>1. Opened(w) \subseteq Opened(st) \cup {n}
        BY <1>9 DEF Opened
    <2>2. Opened(st) \subseteq Opened(w)
        BY <1>7 DEF Opened
    <2>3. n \in Opened(w)
        BY <1>2, <1>8 DEF Opened
    <2> QED
        BY <2>1, <2>2, <2>3
<1> QED
    BY <1>2, <1>6, <1>10 DEF ClosesAt, Inner

\* A node that is no leaf is opened: its children and its Close are pushed.
LEMMA PushedStack ==
    ASSUME TreeOrder, NEW st, StackOK(st), st # <<>>, NEW n, n = st[1], n > 0, ~ Leaf(n),
           NEW w, NEW kp, NEW cp, NEW o, Places(st, n, ChildrenOf(nodes, n), w, kp, cp, o)
    PROVE  StackOK(w)
<1> DEFINE ch == ChildrenOf(nodes, n)
           R == DOMAIN o
<1>1. /\ w \in Seq(Int) /\ R = DOMAIN st \ {1}
      /\ \A x \in DOMAIN w : x \in kp \/ x \in cp \/ \E i \in R : x = o[i]
      /\ \A x \in kp : x \in DOMAIN w /\ w[x] \in ch
      /\ \A x, y \in kp : w[x] = w[y] => x = y
      /\ \A x \in cp : x \in DOMAIN w /\ n # root /\ w[x] = -n
      /\ \A x, y \in cp : x = y
      /\ \A i \in R : o[i] \in DOMAIN w /\ w[o[i]] = st[i]
    BY DEF Places
<1>2. /\ \A x \in kp, y \in cp : x < y
      /\ \A x \in kp, i \in R : x < o[i]
      /\ \A x \in cp, i \in R : x < o[i]
      /\ \A i, j \in R : (i < j <=> o[i] < o[j]) /\ (o[i] = o[j] => i = j)
    BY DEF Places
<1>3. \A x, y \in DOMAIN w : x < y => ~ (y < x)
    BY <1>1
<1>4. /\ n \in Live /\ n \in DOMAIN nodes /\ n \in Nat /\ At(-n) = n
      /\ \A i \in R : /\ st[i] # n /\ st[i] # -n /\ i \in DOMAIN st
                      /\ n \notin Up(At(st[i])) /\ st[i] \notin Up(n)
                      /\ st[i] < 0 => -st[i] \in Up(n)
      /\ \A m \in Up(n) \ {n, root} : -m \in ToSet(st)
    BY <1>1, UnderTop, LiveNodes
<1>5. \A m \in ch : /\ m \in DOMAIN nodes /\ m \in Live /\ m \in Nat /\ m > 0 /\ At(m) = m
                    /\ m # root /\ m # n
                    /\ Up(m) = {m} \cup Up(n) /\ m \notin Up(n) /\ n \in Up(m) /\ m \in Up(m)
    BY <1>4, KidsBelow
<1>6. \A m \in DOMAIN nodes : m \in Nat /\ m > 0 /\ -m < 0 /\ ~(-m > 0) /\ -(-m) = m /\ (-m = -n => m = n)
    BY <1>4 DEF TreeOrder
<1>7. \A x \in DOMAIN nodes : x \in Up(x) /\ \A m \in Up(x) : m \in DOMAIN nodes /\ Up(m) \subseteq Up(x)
    BY DEF TreeOrder
<1>8. \A i \in R : /\ st[i] \in Int /\ At(st[i]) \in DOMAIN nodes
                   /\ (st[i] > 0 => At(st[i]) = st[i])
                   /\ (st[i] \in Live \/ (st[i] < 0 /\ -st[i] \in Opened(st) /\ Inner(-st[i])))
    BY <1>4, EntryIsNode
<1>9. \A m \in DOMAIN nodes : -m \in ToSet(w) <=> -m \in ToSet(st) \/ (m = n /\ n # root)
    <2>1. ClosesAt(w, st, n)
        BY PushedOpened
    <2>2. Inner(n) <=> n # root
        BY DEF Inner
    <2> QED
        BY <2>1, <2>2 DEF ClosesAt
<1>10. Opened(w) = Opened(st) \cup {n}
    BY PushedOpened
<1> HIDE DEF ch, R
<1>11. \A i \in R : \A m \in ch : m \notin Up(At(st[i])) /\ st[i] # m
    <2> SUFFICES ASSUME NEW i \in R, NEW m \in ch
                 PROVE  m \notin Up(At(st[i])) /\ st[i] # m
        OBVIOUS
    <2>1. m \notin Up(At(st[i]))
        BY <1>4, <1>5, <1>7, <1>8
    <2> QED
        BY <1>5, <1>8, <2>1
<1>12. \A i \in DOMAIN w : w[i] \in Live \/ (w[i] < 0 /\ -w[i] \in Opened(w) /\ Inner(-w[i]))
    <2> SUFFICES ASSUME NEW i \in DOMAIN w
                 PROVE  w[i] \in Live \/ (w[i] < 0 /\ -w[i] \in Opened(w) /\ Inner(-w[i]))
        OBVIOUS
    <2>1. CASE i \in kp
        BY <1>1, <1>5, <2>1
    <2>2. CASE i \in cp
        <3>1. w[i] = -n /\ -n < 0 /\ -(-n) = n /\ n # root
            BY <1>1, <1>4, <1>6, <2>2
        <3>2. Inner(n)
            BY <3>1 DEF Inner
        <3> QED
            BY <1>10, <3>1, <3>2
    <2>3. ASSUME NEW j \in R, i = o[j]
          PROVE  w[i] \in Live \/ (w[i] < 0 /\ -w[i] \in Opened(w) /\ Inner(-w[i]))
        <3>1. w[i] = st[j]
            BY <1>1, <2>3
        <3> QED
            BY <1>8, <1>10, <3>1
    <2> QED
        BY <1>1, <2>1, <2>2, <2>3
\* The node of each entry.
<1>13. /\ \A x \in kp : w[x] \in ch /\ w[x] > 0 /\ At(w[x]) = w[x]
       /\ \A x \in cp : w[x] = -n /\ ~ (w[x] > 0) /\ w[x] < 0 /\ -w[x] = n /\ At(w[x]) = n
    BY <1>1, <1>4, <1>5, <1>6
<1>14. \A x \in kp : ~ (w[x] < 0)
    BY <1>5, <1>13
<1>15. ASSUME NEW i \in DOMAIN w, NEW j \in DOMAIN w, w[i] = w[j]
       PROVE  i = j
    <2>1. CASE i \in kp
        <3>1. j \notin cp
            BY <1>13, <1>15, <2>1
        <3>2. \A y \in R : j # o[y]
            BY <1>1, <1>11, <1>13, <1>15, <2>1
        <3> QED
            BY <1>1, <1>15, <2>1, <3>1, <3>2
    <2>2. CASE i \in cp
        <3>1. j \notin kp
            BY <1>13, <1>15, <2>2
        <3>2. \A y \in R : j # o[y]
            BY <1>1, <1>4, <1>13, <1>15, <2>2
        <3> QED
            BY <1>1, <1>15, <2>2, <3>1, <3>2
    <2>3. ASSUME NEW x \in R, i = o[x] PROVE i = j
        <3>1. j \notin kp /\ j \notin cp
            BY <1>1, <1>4, <1>11, <1>13, <1>15, <2>3
        <3>2. ASSUME NEW y \in R, j = o[y] PROVE i = j
            <4>1. st[x] = st[y] /\ x \in DOMAIN st /\ y \in DOMAIN st
                BY <1>1, <1>4, <1>15, <2>3, <3>2
            <4> QED
                BY <2>3, <3>2, <4>1 DEF StackOK
        <3> QED
            BY <1>1, <3>1, <3>2
    <2> QED
        BY <1>1, <2>1, <2>2, <2>3
<1>16. ASSUME NEW i \in DOMAIN w, NEW j \in DOMAIN w, w[i] \in Up(At(w[j]))
       PROVE  i = j
    <2>1. At(w[j]) \in DOMAIN nodes
        BY <1>1, <1>4, <1>5, <1>8, <1>13
    <2>2. w[i] \in DOMAIN nodes /\ w[i] > 0
        BY <1>6, <1>7, <1>16, <2>1
    <2>3. i \notin cp
        BY <1>13, <2>2
    <2>4. CASE i \in kp
        <3>1. CASE j \in kp
            BY <1>1, <1>5, <1>13, <1>16, <2>4, <3>1
        <3>2. j \notin cp
            BY <1>5, <1>13, <1>16, <2>4
        <3>3. ASSUME NEW y \in R, j = o[y] PROVE FALSE
            BY <1>1, <1>11, <1>13, <1>16, <2>4, <3>3
        <3> QED
            BY <1>1, <3>1, <3>2, <3>3
    <2>5. ASSUME NEW x \in R, i = o[x] PROVE i = j
        <3>0. w[i] = st[x]
            BY <1>1, <2>5
        <3>1. j \notin kp
            BY <1>4, <1>5, <1>11, <1>13, <1>16, <3>0
        <3>2. j \notin cp
            BY <1>4, <1>13, <1>16, <3>0
        <3>3. ASSUME NEW y \in R, j = o[y] PROVE i = j
            <4>1. st[x] \in Up(At(st[y])) /\ x \in DOMAIN st /\ y \in DOMAIN st
                BY <1>1, <1>4, <1>16, <3>0, <3>3
            <4> QED
                BY <2>5, <3>3, <4>1 DEF StackOK
        <3> QED
            BY <1>1, <3>1, <3>2, <3>3
    <2> QED
        BY <1>1, <2>3, <2>4, <2>5
<1>17. ASSUME NEW i \in DOMAIN w, NEW j \in DOMAIN w, w[j] < 0, i # j
       PROVE  -w[j] \in Up(At(w[i])) <=> i < j
    <2>1. j \notin kp
        BY <1>14, <1>17
    <2>2. CASE j \in cp
        <3>0. -w[j] = n
            BY <1>13, <2>2
        <3>1. CASE i \in kp
            BY <1>2, <1>5, <1>13, <2>2, <3>0, <3>1
        <3>2. i \notin cp
            BY <1>1, <1>17, <2>2
        <3>3. ASSUME NEW x \in R, i = o[x]
              PROVE  -w[j] \in Up(At(w[i])) <=> i < j
            <4>1. j < i /\ ~ (i < j)
                BY <1>2, <1>3, <2>2, <3>3
            <4>2. n \notin Up(At(w[i]))
                BY <1>1, <1>4, <3>3
            <4> QED
                BY <3>0, <4>1, <4>2
        <3> QED
            BY <1>1, <3>1, <3>2, <3>3
    <2>3. ASSUME NEW y \in R, j = o[y]
          PROVE  -w[j] \in Up(At(w[i])) <=> i < j
        <3>0. w[j] = st[y] /\ st[y] < 0 /\ -st[y] \in Up(n)
            BY <1>1, <1>4, <1>17, <2>3
        <3>1. CASE i \in kp
            BY <1>2, <1>5, <1>13, <2>3, <3>0, <3>1
        <3>2. CASE i \in cp
            BY <1>2, <1>13, <2>3, <3>0, <3>2
        <3>3. ASSUME NEW x \in R, i = o[x]
              PROVE  -w[j] \in Up(At(w[i])) <=> i < j
            <4>1. x # y /\ x \in DOMAIN st /\ y \in DOMAIN st /\ w[i] = st[x]
                BY <1>1, <1>4, <1>17, <2>3, <3>3
            <4>2. -st[y] \in Up(At(st[x])) <=> x < y
                BY <3>0, <4>1 DEF StackOK
            <4> QED
                BY <1>2, <2>3, <3>0, <3>3, <4>1, <4>2
        <3> QED
            BY <1>1, <3>1, <3>2, <3>3
    <2> QED
        BY <1>1, <2>1, <2>2, <2>3
<1>18. ASSUME NEW i \in DOMAIN w, NEW m \in Up(At(w[i])) \ {At(w[i]), root}
       PROVE  -m \in ToSet(w)
    <2>1. ASSUME NEW x \in Up(n) \ {root} PROVE -x \in ToSet(w)
        BY <1>4, <1>7, <1>9, <2>1
    <2>2. CASE i \in kp
        BY <1>5, <1>13, <1>18, <2>1, <2>2
    <2>3. CASE i \in cp
        BY <1>13, <1>18, <2>1, <2>3
    <2>4. ASSUME NEW x \in R, i = o[x] PROVE -m \in ToSet(w)
        <3>1. w[i] = st[x] /\ x \in DOMAIN st
            BY <1>1, <1>4, <2>4
        <3>2. m \in DOMAIN nodes
            BY <1>7, <1>8, <1>18, <3>1
        <3>3. -m \in ToSet(st)
            BY <1>18, <3>1 DEF StackOK
        <3> QED
            BY <1>9, <3>2, <3>3
    <2> QED
        BY <1>1, <2>2, <2>3, <2>4
<1> QED
    BY <1>1, <1>12, <1>15, <1>16, <1>17, <1>18 DEF StackOK

LEMMA Pushed ==
    ASSUME TreeOrder, NEW st, StackOK(st), st # <<>>, NEW n, n = st[1], n > 0, ~ Leaf(n),
           NEW l \in Seq(Int), ToSet(l) = ChildrenOf(nodes, n),
           \A i, j \in DOMAIN l : l[i] = l[j] => i = j,
           NEW c, c = IF n = root THEN <<>> ELSE <<-n>>
    PROVE  LET w == (l \o c) \o Tail(st)
           IN  /\ StackOK(w) /\ Opened(w) = Opened(st) \cup {n} /\ n \notin Opened(st)
               /\ ClosesAt(w, st, n)
<1> DEFINE ch == ChildrenOf(nodes, n)
           w == (l \o c) \o Tail(st)
<1>1. st \in Seq(Int) /\ n \in Nat
    BY UnderTop, LiveNodes
<1>2. PICK kp, cp, o : Places(st, n, ch, w, kp, cp, o)
    BY <1>1, PlacesExist
<1> HIDE DEF w
<1>3. StackOK(w)
    BY <1>2, PushedStack
<1>4. Opened(w) = Opened(st) \cup {n} /\ n \notin Opened(st)
    BY <1>2, PushedOpened
<1>5. ClosesAt(w, st, n)
    BY <1>2, PushedOpened
<1> QED
    BY <1>3, <1>4, <1>5 DEF w

-----------------------------------------------------------------------------
(* The markup *)

U(n) == nodes[n].uuid

\* Every node but the root is that of one row.
RowNodes ==
    /\ nodes[root].content = "#body"
    /\ \A n \in DOMAIN nodes \ {root} : U(n) \in Nat /\ U(n) > 0 /\ nodes[n].content # "#body"
    /\ \A m, n \in DOMAIN nodes \ {root} : U(m) = U(n) => m = n

\* The markup o when the stack is st: the nodes that have been opened, and the
\* Closes of those that are not open any more.
Shows(st, o) ==
    /\ o \in Seq(Int)
    /\ \A y \in Int : y \in ToSet(o) <=>
           \E n \in Opened(st) : \/ Emits(n) /\ y = U(n)
                                 \/ Inner(n) /\ -n \notin ToSet(st) /\ y = -U(n)
    /\ \A i, j \in DOMAIN o : o[i] = o[j] => i = j

\* What is below a node comes behind it, and what came behind a node that is
\* still open is below it.
OpensFirst(st, o) ==
    \A m, n \in Opened(st) : m # n /\ Inner(m) /\ Emits(n) =>
        \A i, j \in DOMAIN o : o[i] = U(m) /\ o[j] = U(n) =>
            /\ m \in Up(n) => i < j
            /\ m \notin Up(n) /\ -m \in ToSet(st) => j < i

\* What came between a node and its Close is what is below it.
Encloses(st, o) ==
    \A m, n \in Opened(st) : m # n /\ Inner(m) /\ Emits(n) /\ -m \notin ToSet(st) =>
        \A i, j, k \in DOMAIN o : o[i] = U(m) /\ o[j] = U(n) /\ o[k] = -U(m) =>
            (m \in Up(n) <=> i < j /\ j < k)

OutOK(st, o) == Shows(st, o) /\ OpensFirst(st, o) /\ Encloses(st, o)

\* Where the members of Append(o, x) are.
LEMMA OneMoreAtEnd ==
    ASSUME NEW o \in Seq(Int), NEW x \in Int
    PROVE  /\ Append(o, x) \in Seq(Int) /\ ToSet(Append(o, x)) = ToSet(o) \cup {x}
           /\ \A i \in DOMAIN Append(o, x) : \/ i \in DOMAIN o /\ Append(o, x)[i] = o[i]
                                             \/ i = Len(o) + 1 /\ Append(o, x)[i] = x
           /\ \A i \in DOMAIN o : i < Len(o) + 1 /\ ~ (Len(o) + 1 < i)
<1> DEFINE p == Append(o, x)
           k == Len(o)
<1>1. k \in Nat /\ DOMAIN o = 1..k /\ p \in Seq(Int) /\ DOMAIN p = 1..(k + 1)
    OBVIOUS
<1>2. (\A i \in 1..k : p[i] = o[i]) /\ p[k + 1] = x
    OBVIOUS
<1> HIDE DEF p, k
<1>3. \A i \in 1..(k + 1) : i \in 1..k \/ i = k + 1
    BY <1>1
<1>4. \A i \in 1..k : i \in 1..(k + 1) /\ i < k + 1 /\ ~ (k + 1 < i)
    BY <1>1
<1>5. k + 1 \in 1..(k + 1)
    BY <1>1
<1>6. ToSet(p) = ToSet(o) \cup {x}
    BY <1>1, <1>2, <1>3, <1>4, <1>5 DEF ToSet
<1> QED
    BY <1>1, <1>2, <1>3, <1>4, <1>6 DEF p, k

\* The node on top of the stack is above none that has been opened, and below
\* those that are still open.
LEMMA AboveTop ==
    ASSUME TreeOrder, NEW st, StackOK(st), st # <<>>, NEW n, n = st[1], n > 0
    PROVE  /\ \A m \in Opened(st) : n \notin Up(m)
           /\ \A m \in DOMAIN nodes \ {root} : m # n => (m \in Up(n) <=> -m \in ToSet(st))
<1>1. /\ st \in Seq(Int) /\ 1 \in DOMAIN st
      /\ \A i \in DOMAIN st \ {1} : st[i] < 0 => -st[i] \in Up(n)
      /\ \A m \in DOMAIN nodes : -m \in ToSet(st) <=> \E i \in DOMAIN st \ {1} : st[i] = -m
      /\ \A m \in Up(n) \ {n, root} : -m \in ToSet(st)
    BY UnderTop
<1>2. \A m \in Opened(st) : n \notin Up(m)
    BY <1>1 DEF Opened, ToSet
<1>3. \A m \in DOMAIN nodes : m \in Nat /\ -m < 0 /\ -(-m) = m
    BY DEF TreeOrder
<1> QED
    BY <1>1, <1>2, <1>3

\* A node is opened: it is shown, if it is.
LEMMA OpenedOne ==
    ASSUME TreeOrder, RowNodes, NEW st, StackOK(st), st # <<>>, NEW n, n = st[1], n > 0,
           NEW w, ClosesAt(w, st, n), Opened(w) = Opened(st) \cup {n}, n \notin Opened(st),
           NEW o, OutOK(st, o)
    PROVE  OutOK(w, IF Emits(n) THEN Append(o, U(n)) ELSE o)
<1>1. n \in Live /\ n \in DOMAIN nodes
    BY UnderTop
<1>2. \A m \in Opened(st) : m \in DOMAIN nodes /\ m # n
    BY LiveNodes DEF Opened
<1>3. \A m \in Opened(st) : -m \in ToSet(w) <=> -m \in ToSet(st)
    BY <1>2 DEF ClosesAt
<1>4. Inner(n) => -n \in ToSet(w)
    BY <1>1 DEF ClosesAt
<1>5. /\ o \in Seq(Int)
      /\ \A y \in Int : y \in ToSet(o) <=>
             \E x \in Opened(st) : \/ Emits(x) /\ y = U(x)
                                   \/ Inner(x) /\ -x \notin ToSet(st) /\ y = -U(x)
      /\ \A i, j \in DOMAIN o : o[i] = o[j] => i = j
    BY DEF OutOK, Shows
<1>6. \A m \in DOMAIN nodes : Emits(m) \/ Inner(m) => U(m) \in Nat /\ U(m) > 0 /\ m # root
    BY DEF Emits, Inner, RowNodes
<1>7. ASSUME NEW m \in DOMAIN nodes, NEW x \in DOMAIN nodes,
             Emits(m) \/ Inner(m), Emits(x) \/ Inner(x)
      PROVE  U(m) # -U(x) /\ (U(m) = U(x) => m = x)
    BY <1>6, <1>7 DEF RowNodes
<1>8. \A m \in Opened(st) : n \notin Up(m) /\ (Inner(m) => (m \in Up(n) <=> -m \in ToSet(st)))
    BY <1>2, <1>6, AboveTop
<1>9. CASE Emits(n)
    <2> DEFINE p == Append(o, U(n))
               l == Len(o) + 1
    <2>1. /\ p \in Seq(Int) /\ ToSet(p) = ToSet(o) \cup {U(n)}
          /\ \A i \in DOMAIN p : (i \in DOMAIN o /\ p[i] = o[i]) \/ (i = l /\ p[i] = U(n))
          /\ \A i \in DOMAIN o : i < l /\ ~ (l < i)
        BY <1>1, <1>5, <1>6, <1>9, OneMoreAtEnd
    <2> HIDE DEF p, l
    <2>2. U(n) \notin ToSet(o)
        BY <1>1, <1>2, <1>5, <1>6, <1>7, <1>9
    <2>3. Shows(w, p)
        <3>1. ASSUME NEW y \in Int
              PROVE  y \in ToSet(p) <=>
                        \E x \in Opened(w) : \/ Emits(x) /\ y = U(x)
                                             \/ Inner(x) /\ -x \notin ToSet(w) /\ y = -U(x)
            BY <1>3, <1>4, <1>5, <1>9, <2>1
        <3>2. ASSUME NEW i \in DOMAIN p, NEW j \in DOMAIN p, p[i] = p[j] PROVE i = j
            BY <1>5, <2>1, <2>2, <3>2 DEF ToSet
        <3> QED
            BY <2>1, <3>1, <3>2 DEF Shows
    \* Where the nodes that were shown before are.
    <2>4. \A i \in DOMAIN p : \A m \in Opened(st) :
              /\ (Emits(m) \/ Inner(m)) /\ p[i] = U(m) => i \in DOMAIN o /\ o[i] = U(m)
              /\ Inner(m) /\ p[i] = -U(m) => i \in DOMAIN o /\ o[i] = -U(m)
        BY <1>1, <1>2, <1>7, <1>9, <2>1
    <2>5. \A i \in DOMAIN p : p[i] = U(n) => i = l
        BY <2>1, <2>2 DEF ToSet
    <2>6. OpensFirst(w, p)
        <3> SUFFICES ASSUME NEW a \in Opened(w), NEW b \in Opened(w), a # b, Inner(a), Emits(b),
                            NEW i \in DOMAIN p, NEW j \in DOMAIN p, p[i] = U(a), p[j] = U(b)
                     PROVE  (a \in Up(b) => i < j) /\ (a \notin Up(b) /\ -a \in ToSet(w) => j < i)
            BY DEF OpensFirst
        <3>1. CASE a = n
            BY <1>8, <2>1, <2>4, <2>5, <3>1
        <3>2. CASE b = n
            BY <1>3, <1>8, <2>1, <2>4, <2>5, <3>2
        <3>3. CASE a # n /\ b # n
            <4>1. /\ a \in Opened(st) /\ b \in Opened(st) /\ i \in DOMAIN o /\ j \in DOMAIN o
                  /\ o[i] = U(a) /\ o[j] = U(b)
                BY <2>4, <3>3
            <4> QED
                BY <1>3, <4>1 DEF OutOK, OpensFirst
        <3> QED
            BY <3>1, <3>2, <3>3
    <2>7. Encloses(w, p)
        <3> SUFFICES ASSUME NEW a \in Opened(w), NEW b \in Opened(w), a # b, Inner(a), Emits(b),
                            -a \notin ToSet(w),
                            NEW i \in DOMAIN p, NEW j \in DOMAIN p, NEW k \in DOMAIN p,
                            p[i] = U(a), p[j] = U(b), p[k] = -U(a)
                     PROVE  a \in Up(b) <=> i < j /\ j < k
            BY DEF Encloses
        <3>1. a # n
            BY <1>4
        <3>2. CASE b = n
            BY <1>3, <1>8, <2>1, <2>4, <2>5, <3>1, <3>2
        <3>3. CASE b # n
            <4>1. /\ a \in Opened(st) /\ b \in Opened(st)
                  /\ i \in DOMAIN o /\ j \in DOMAIN o /\ k \in DOMAIN o
                  /\ o[i] = U(a) /\ o[j] = U(b) /\ o[k] = -U(a)
                BY <2>4, <3>1, <3>3
            <4> QED
                BY <1>3, <4>1 DEF OutOK, Encloses
        <3> QED
            BY <3>2, <3>3
    <2> QED
        BY <1>9, <2>3, <2>6, <2>7 DEF OutOK, p
<1>10. CASE ~ Emits(n)
    <2>1. Shows(w, o)
        <3>1. ASSUME NEW y \in Int
              PROVE  y \in ToSet(o) <=>
                        \E x \in Opened(w) : \/ Emits(x) /\ y = U(x)
                                             \/ Inner(x) /\ -x \notin ToSet(w) /\ y = -U(x)
            BY <1>3, <1>4, <1>5, <1>10
        <3> QED
            BY <1>5, <3>1 DEF Shows
    <2>2. ~ Inner(n)
        BY <1>10 DEF Inner, Emits, Leaf
    <2>3. OpensFirst(w, o)
        BY <1>3, <1>10, <2>2 DEF OutOK, OpensFirst
    <2>4. Encloses(w, o)
        BY <1>3, <1>10, <2>2 DEF OutOK, Encloses
    <2> QED
        BY <1>10, <2>1, <2>3, <2>4 DEF OutOK
<1> QED
    BY <1>9, <1>10

\* A Close is popped.
LEMMA ClosedOne ==
    ASSUME TreeOrder, RowNodes, NEW st, StackOK(st), st # <<>>, NEW n, st[1] = -n,
           NEW w, n \in Opened(st), Inner(n), Opened(w) = Opened(st),
           -n \notin ToSet(w), ToSet(st) = {-n} \cup ToSet(w),
           NEW o, OutOK(st, o)
    PROVE  OutOK(w, Append(o, -U(n)))
<1>1. n \in DOMAIN nodes
    BY LiveNodes DEF Opened
<1>2. \A m \in Opened(st) : m \in DOMAIN nodes /\ m \in Nat
    BY LiveNodes DEF Opened
<1>3. \A m \in Opened(st) : m # n => (-m \in ToSet(w) <=> -m \in ToSet(st))
    <2>1. \A m \in Opened(st) : -m = -n => m = n
        BY <1>2
    <2> QED
        BY <2>1
<1>4. -n \in ToSet(st)
    OBVIOUS
<1>5. /\ o \in Seq(Int)
      /\ \A y \in Int : y \in ToSet(o) <=>
             \E x \in Opened(st) : \/ Emits(x) /\ y = U(x)
                                   \/ Inner(x) /\ -x \notin ToSet(st) /\ y = -U(x)
      /\ \A i, j \in DOMAIN o : o[i] = o[j] => i = j
    BY DEF OutOK, Shows
<1>6. \A m \in DOMAIN nodes : Emits(m) \/ Inner(m) => U(m) \in Nat /\ U(m) > 0 /\ m # root
    BY DEF Emits, Inner, RowNodes
<1>7. ASSUME NEW m \in DOMAIN nodes, NEW x \in DOMAIN nodes,
             Emits(m) \/ Inner(m), Emits(x) \/ Inner(x)
      PROVE  U(m) # -U(x) /\ (U(m) = U(x) => m = x) /\ (-U(m) = -U(x) => m = x)
    BY <1>6, <1>7 DEF RowNodes
<1> DEFINE p == Append(o, -U(n))
           l == Len(o) + 1
<1>8. /\ p \in Seq(Int) /\ ToSet(p) = ToSet(o) \cup {-U(n)}
      /\ \A i \in DOMAIN p : (i \in DOMAIN o /\ p[i] = o[i]) \/ (i = l /\ p[i] = -U(n))
      /\ \A i \in DOMAIN o : i < l /\ ~ (l < i)
    <2>1. -U(n) \in Int
        BY <1>1, <1>6
    <2> QED
        BY <1>5, <2>1, OneMoreAtEnd
<1> HIDE DEF p, l
<1>9. -U(n) \notin ToSet(o) /\ -U(n) \in Int
    <2>1. -U(n) \in Int
        BY <1>1, <1>6
    <2> QED
        BY <1>1, <1>2, <1>4, <1>5, <1>7, <2>1
<1>10. Shows(w, p)
    <2>1. ASSUME NEW y \in Int
          PROVE  y \in ToSet(p) <=>
                    \E x \in Opened(w) : \/ Emits(x) /\ y = U(x)
                                         \/ Inner(x) /\ -x \notin ToSet(w) /\ y = -U(x)
        BY <1>3, <1>4, <1>5, <1>8
    <2>2. ASSUME NEW i \in DOMAIN p, NEW j \in DOMAIN p, p[i] = p[j] PROVE i = j
        BY <1>5, <1>8, <1>9, <2>2 DEF ToSet
    <2> QED
        BY <1>8, <2>1, <2>2 DEF Shows
<1>11. \A i \in DOMAIN p : \A m \in Opened(st) :
           /\ (Emits(m) \/ Inner(m)) /\ p[i] = U(m) => i \in DOMAIN o /\ o[i] = U(m)
           /\ Inner(m) /\ m # n /\ p[i] = -U(m) => i \in DOMAIN o /\ o[i] = -U(m)
    BY <1>1, <1>2, <1>7, <1>8
<1>12. \A i \in DOMAIN p : p[i] = -U(n) => i = l
    BY <1>8, <1>9 DEF ToSet
<1>13. OpensFirst(w, p)
    <2> SUFFICES ASSUME NEW a \in Opened(w), NEW b \in Opened(w), a # b, Inner(a), Emits(b),
                        NEW i \in DOMAIN p, NEW j \in DOMAIN p, p[i] = U(a), p[j] = U(b)
                 PROVE  (a \in Up(b) => i < j) /\ (a \notin Up(b) /\ -a \in ToSet(w) => j < i)
        BY DEF OpensFirst
    <2>1. i \in DOMAIN o /\ j \in DOMAIN o /\ o[i] = U(a) /\ o[j] = U(b)
        BY <1>11
    <2> QED
        BY <1>3, <2>1 DEF OutOK, OpensFirst
<1>14. Encloses(w, p)
    <2> SUFFICES ASSUME NEW a \in Opened(w), NEW b \in Opened(w), a # b, Inner(a), Emits(b),
                        -a \notin ToSet(w),
                        NEW i \in DOMAIN p, NEW j \in DOMAIN p, NEW k \in DOMAIN p,
                        p[i] = U(a), p[j] = U(b), p[k] = -U(a)
                 PROVE  a \in Up(b) <=> i < j /\ j < k
        BY DEF Encloses
    <2>1. i \in DOMAIN o /\ j \in DOMAIN o /\ o[i] = U(a) /\ o[j] = U(b)
        BY <1>11
    <2>2. CASE a = n
        <3>1. k = l /\ j < k
            BY <1>8, <1>12, <2>1, <2>2
        <3>2. (a \in Up(b) => i < j) /\ (a \notin Up(b) => j < i)
            BY <1>4, <2>1, <2>2 DEF OutOK, OpensFirst
        <3>3. j < i => ~ (i < j)
            BY <1>5, <2>1
        <3> QED
            BY <3>1, <3>2, <3>3
    <2>3. CASE a # n
        <3>1. k \in DOMAIN o /\ o[k] = -U(a) /\ -a \notin ToSet(st)
            BY <1>3, <1>11, <2>3
        <3> QED
            BY <2>1, <3>1 DEF OutOK, Encloses
    <2> QED
        BY <2>2, <2>3
<1> QED
    BY <1>10, <1>13, <1>14 DEF OutOK, p

-----------------------------------------------------------------------------
(* Rendering a page *)

RenderInv ==
    /\ phase \notin {"render", "done"} => stack = <<>> /\ out = <<>>
    /\ phase \in {"render", "done"} => StackOK(stack) /\ OutOK(stack, out)
    /\ phase = "done" => stack = <<>>

LEMMA RowNodesHold ==
    ASSUME PassInv, BuildInv, Built
    PROVE  RowNodes
<1>1. /\ NodesInv /\ IndexIsExact /\ rows \in Seq(Row) /\ IdsOf(rows) \subseteq Uuid \ {Body}
    BY DEF BuildInv, BelowInv, TreeInv, PassInv, RowsOK
<1>2. ASSUME NEW n \in DOMAIN nodes \ {root}
      PROVE  U(n) \in Nat /\ U(n) > 0 /\ nodes[n].content # "#body"
    <2>1. U(n) \in IdsOf(rows) /\ nodes[n].content = RowOf(U(n)).tag
        BY <1>1 DEF NodesInv, U
    <2>2. RowOf(U(n)) \in Row /\ RowOf(U(n)).id = U(n)
        BY <1>1, <2>1, RowOfId
    <2>3. U(n) \in Nat /\ RowOf(U(n)).tag # "#body"
        BY <2>2 DEF Row
    <2>4. U(n) # 0
        BY <1>1, <2>1 DEF Body
    <2> QED
        BY <2>1, <2>3, <2>4
<1>3. ASSUME NEW m \in DOMAIN nodes \ {root}, NEW n \in DOMAIN nodes \ {root}, U(m) = U(n)
      PROVE  m = n
    BY <1>1, <1>3 DEF IndexIsExact, U
<1>4. nodes[root].content = "#body"
    BY <1>1 DEF NodesInv
<1> QED
    BY <1>2, <1>3, <1>4 DEF RowNodes

LEMMA RootAboveAll ==
    ASSUME BuildInv, TreeOrder, phase # "library"
    PROVE  \A n \in DOMAIN nodes : root \in Up(n)
<1> DEFINE S == {n \in DOMAIN nodes : root \notin Up(n)}
<1>1. Rooted(nodes, root)
    BY DEF BuildInv, BelowInv
<1>2. root \notin S /\ S \in SUBSET (DOMAIN nodes \ {root})
    BY DEF TreeOrder
<1>3. ASSUME NEW n \in S PROVE nodes[n].parent \in S
    BY <1>2, <1>3 DEF TreeOrder
<1>4. S = {}
    <2> HIDE DEF S
    <2> QED
        BY <1>1, <1>2, <1>3 DEF Rooted
<1> QED
    BY <1>4

\* The renderer starts from the root.
LEMMA FirstOpen ==
    ASSUME BuildInv, TreeOrder, phase # "library"
    PROVE  StackOK(<<root>>) /\ OutOK(<<root>>, <<>>)
<1> DEFINE s == <<root>>
<1>1. s \in Seq(Int) /\ DOMAIN s = {1} /\ s[1] = root /\ ToSet(s) = {root} /\ root \in Nat /\ root > 0
    <2>1. root \in Nat /\ root > 0
        BY DEF TreeOrder
    <2>2. s \in Seq(Int) /\ DOMAIN s = {1} /\ s[1] = root
        BY <2>1
    <2> QED
        BY <2>1, <2>2 DEF ToSet
<1> HIDE DEF s
<1>2. At(root) = root /\ root \in Live /\ Up(root) = {root}
    BY <1>1 DEF At, Live, TreeOrder
<1>3. StackOK(s)
    BY <1>1, <1>2 DEF StackOK
<1>4. Opened(s) = {}
    <2>1. \A n \in Live : root \in Up(n)
        BY RootAboveAll, LiveNodes
    <2> QED
        BY <1>1, <2>1 DEF Opened
<1>5. <<>> \in Seq(Int) /\ ToSet(<<>>) = {} /\ DOMAIN <<>> = {}
    BY EmptySeq DEF ToSet
<1>6. OutOK(s, <<>>)
    BY <1>4, <1>5 DEF OutOK, Shows, OpensFirst, Encloses
<1> QED
    BY <1>3, <1>6 DEF s

LEMMA RenderKeeps ==
    ASSUME UNCHANGED <<nodes, root, rows>>
    PROVE  \A s, o : (StackOK(s)' <=> StackOK(s)) /\ (OutOK(s, o)' <=> OutOK(s, o))
<1>1. \A n : Up(n)' = Up(n)
    BY DEF Up
<1>2. \A n : Leaf(n)' <=> Leaf(n)
    BY DEF Leaf
<1>3. Live' = Live
    BY <1>1, <1>2 DEF Live
<1>4. \A n : Inner(n)' <=> Inner(n)
    BY <1>2 DEF Inner
<1>5. \A x : RowOf(x)' = RowOf(x)
    BY DEF RowOf
<1>6. \A n : U(n)' = U(n) /\ (Emits(n)' <=> Emits(n))
    BY <1>5 DEF U, Emits
<1>7. \A s : Opened(s)' = Opened(s)
    BY <1>1, <1>3 DEF Opened
<1>8. \A s : StackOK(s)' <=> StackOK(s)
    BY <1>1, <1>3, <1>4, <1>7 DEF StackOK
<1>9. \A s, o : Shows(s, o)' <=> Shows(s, o)
    BY <1>4, <1>6, <1>7 DEF Shows
<1>10. \A s, o : OpensFirst(s, o)' <=> OpensFirst(s, o)
    BY <1>1, <1>4, <1>6, <1>7 DEF OpensFirst
<1>11. \A s, o : Encloses(s, o)' <=> Encloses(s, o)
    BY <1>1, <1>4, <1>6, <1>7 DEF Encloses
<1> QED
    BY <1>8, <1>9, <1>10, <1>11 DEF OutOK

\* One step of the renderer.
LEMMA RenderStepKeeps ==
    ASSUME PassInv, BuildInv, RenderInv, RenderStep
    PROVE  StackOK(stack') /\ OutOK(stack', out')
<1> DEFINE n == stack[1]
<1>1. /\ phase = "render" /\ stack # <<>> /\ StackOK(stack) /\ OutOK(stack, out)
    BY DEF RenderStep, RenderInv
<1>2. TreeOrder /\ RowNodes
    BY <1>1, TreeIsOrdered, RowNodesHold DEF Built
<1>3. stack \in Seq(Int) /\ 1 \in DOMAIN stack /\ Head(stack) = n
    BY <1>1, EmptySeq DEF StackOK
<1>4. /\ n \in Int /\ At(n) \in Live
      /\ n > 0 => n \in Live /\ n \in DOMAIN nodes
      /\ ~ (n > 0) => n < 0 /\ -n \in Opened(stack) /\ Inner(-n)
    BY <1>1, <1>2, <1>3, EntryIsNode, LiveNodes
<1> HIDE DEF n
<1>5. CASE ~ (n > 0)
    <2>1. n < 0 /\ -(-n) = n
        BY <1>4, <1>5
    <2>2. stack' = Tail(stack) /\ out' = Append(out, -U(-n))
        BY <1>3, <1>5, <2>1 DEF RenderStep, U
    <2>3. /\ StackOK(Tail(stack)) /\ Opened(Tail(stack)) = Opened(stack)
          /\ n \notin ToSet(Tail(stack)) /\ ToSet(stack) = {n} \cup ToSet(Tail(stack))
        BY <1>1, <1>2, <1>5, Popped DEF n
    <2>4. stack[1] = -(-n)
        BY <2>1 DEF n
    <2>5. OutOK(Tail(stack), Append(out, -U(-n)))
        BY <1>1, <1>2, <1>4, <1>5, <2>1, <2>3, <2>4, ClosedOne
    <2> QED
        BY <2>2, <2>3, <2>5
<1>6. ASSUME n > 0, NEW w, ClosesAt(w, stack, n), Opened(w) = Opened(stack) \cup {n},
             n \notin Opened(stack), StackOK(w), stack' = w,
             out' = IF Emits(n) THEN Append(out, U(n)) ELSE out
      PROVE  StackOK(stack') /\ OutOK(stack', out')
    <2>1. n = stack[1]
        BY DEF n
    <2>2. OutOK(w, IF Emits(n) THEN Append(out, U(n)) ELSE out)
        BY <1>1, <1>2, <1>6, <2>1, OpenedOne
    <2> QED
        BY <1>6, <2>2
<1>7. CASE n > 0 /\ Leaf(n)
    <2>0. n # root /\ ~ (n < 0)
        BY <1>2, <1>4, <1>7 DEF RowNodes, Leaf
    <2>1. stack' = Tail(stack) /\ out' = IF Emits(n) THEN Append(out, U(n)) ELSE out
        BY <1>3, <1>7, <2>0 DEF RenderStep, U, Leaf, Emits
    <2>2. /\ StackOK(Tail(stack)) /\ Opened(Tail(stack)) = Opened(stack) \cup {n}
          /\ n \notin Opened(stack) /\ ToSet(stack) = {n} \cup ToSet(Tail(stack))
        BY <1>1, <1>2, <1>7, Popped DEF n
    <2>3. \A m \in DOMAIN nodes : -m # n
        BY <1>2, <1>4, <1>7 DEF TreeOrder
    <2>4. ClosesAt(Tail(stack), stack, n)
        BY <1>7, <2>2, <2>3 DEF ClosesAt, Inner
    <2> QED
        BY <1>6, <1>7, <2>1, <2>2, <2>4
<1>8. CASE n > 0 /\ ~ Leaf(n)
    <2> DEFINE l == ChildList(nodes, n)
               c == IF n = root THEN <<>> ELSE <<-n>>
               w == (l \o c) \o Tail(stack)
    <2>1. /\ Typed(nodes) /\ Whole(nodes) /\ IsFiniteSet(DOMAIN nodes)
        <3>1. TreeInv /\ DOMAIN nodes \subseteq 1..handed /\ handed \in Nat
            BY DEF BuildInv, BelowInv, TreeInv, ArenaTypeOK
        <3>2. IsFiniteSet(1..handed)
            BY <3>1, FS_Interval
        <3> QED
            BY <3>1, <3>2, FS_Subset DEF TreeInv
    <2>2. /\ l \in Seq(ChildrenOf(nodes, n)) /\ ToSet(l) = ChildrenOf(nodes, n)
          /\ \A i, j \in DOMAIN l : l[i] = l[j] => i = j
        BY <1>4, <1>8, <2>1, ChildListIsExact
    <2>3. l \in Seq(Int)
        <3>1. ChildrenOf(nodes, n) \subseteq Int
            BY <1>2 DEF ChildrenOf, TreeOrder
        <3> HIDE DEF l
        <3> QED
            BY <2>2, <3>1
    <2>4. nodes[n].content = "#body" <=> n = root
        BY <1>2, <1>4, <1>8 DEF RowNodes
    <2>5. Emits(n) <=> n # root
        BY <1>8 DEF Emits, Leaf
    <2>6. Inside(n) = l \o c
        BY <2>4 DEF Inside
    <2>7. ~ (n < 0) /\ nodes[n].content # "#text" /\ nodes[n].content # "input"
        BY <1>4, <1>8 DEF Leaf
    <2>8. /\ stack' = Inside(n) \o Tail(stack)
          /\ out' = IF nodes[n].content = "#body" THEN out ELSE Append(out, nodes[n].uuid)
        BY <1>3, <1>8, <2>7 DEF RenderStep
    <2>9. stack' = w /\ out' = IF Emits(n) THEN Append(out, U(n)) ELSE out
        BY <2>4, <2>5, <2>6, <2>8 DEF U
    <2>10. /\ StackOK(w) /\ Opened(w) = Opened(stack) \cup {n} /\ n \notin Opened(stack)
           /\ ClosesAt(w, stack, n)
        <3>1. n = stack[1]
            BY DEF n
        <3> HIDE DEF l
        <3> QED
            BY <1>1, <1>2, <1>8, <2>2, <2>3, <3>1, Pushed
    <2> HIDE DEF w
    <2> QED
        BY <1>6, <1>8, <2>9, <2>10
<1> QED
    BY <1>5, <1>7, <1>8

LEMMA RenderInvStep ==
    ASSUME PassInv, BuildInv, RenderInv, [Next]_vars
    PROVE  RenderInv'
<1>1. CASE RenderStep
    <2>1. StackOK(stack') /\ OutOK(stack', out') /\ UNCHANGED <<nodes, root, rows>> /\ phase = "render" /\ phase' = phase
        BY <1>1, RenderStepKeeps DEF RenderStep, arenaVars, passVars
    <2>2. StackOK(stack)' /\ OutOK(stack, out)'
        BY <2>1, RenderKeeps
    <2> QED
        BY <2>1, <2>2 DEF RenderInv
<1>2. CASE BuildDone /\ phase' = "render"
    <2>1. /\ UNCHANGED <<nodes, root, rows>> /\ stack' = <<root>> /\ out' = <<>> /\ phase = "build"
        BY <1>2 DEF BuildDone, arenaVars, passVars, RenderInv
    <2>2. StackOK(stack') /\ OutOK(stack', out')
        BY <2>1, FirstOpen, TreeIsOrdered
    <2>3. StackOK(stack)' /\ OutOK(stack, out)'
        BY <2>1, <2>2, RenderKeeps
    <2> QED
        BY <1>2, <2>3 DEF RenderInv
<1>3. CASE RenderDone \/ Answered \/ UNCHANGED vars
    <2>1. /\ UNCHANGED <<nodes, root, rows, stack, out>>
          /\ phase' = phase \/ (phase = "render" /\ phase' = "done" /\ stack = <<>>)
        BY <1>3 DEF RenderDone, Answered, vars, arenaVars, passVars, outVars
    <2>2. /\ StackOK(stack) => StackOK(stack)'
          /\ OutOK(stack, out) => OutOK(stack, out)'
        BY <2>1, RenderKeeps
    <2> QED
        BY <2>1, <2>2 DEF RenderInv
<1>4. CASE \/ LibraryCall \/ ExpandRepeater \/ RepeatersDone \/ BindRow \/ BindingsDone
           \/ \E c \in Coll : ReadRef(c)
           \/ InterpolateCollectionRefs \/ AutoWireForms \/ AutoWireHangs
           \/ GroupRows \/ BuildNode \/ NextParent \/ (BuildDone /\ phase' # "render")
           \/ \E c \in Coll : AddRecord(c) \/ \E i \in DOMAIN records[c] : DropRecord(c, i)
    <2>1. UNCHANGED <<stack, out>> /\ phase \notin {"render", "done"} /\ phase' \notin {"render", "done"}
        BY <1>4 DEF LibraryCall, ExpandRepeater, RepeatersDone, BindRow, BindingsDone, ReadRef,
               InterpolateCollectionRefs, AutoWireForms, AutoWireHangs, GroupRows, BuildNode,
               NextParent, BuildDone, AddRecord, DropRecord, RecordChanges, outVars
    <2> QED
        BY <2>1 DEF RenderInv
<1> QED
    BY <1>1, <1>2, <1>3, <1>4 DEF Next

LEMMA RenderInvariant == Spec => [](PassInv /\ TextInv /\ BuildInv /\ RenderInv)
<1>1. Init => RenderInv
    BY DEF Init, RenderInit, LibraryInit, Idle, RenderInv
<1>2. PassInv /\ BuildInv /\ RenderInv /\ [Next]_vars => RenderInv'
    BY RenderInvStep
<1> QED
    BY <1>1, <1>2, BuildInvariant, PTL DEF Spec

-----------------------------------------------------------------------------
(* The markup and the rows *)

\* The rows above a row are those of the nodes above its node.
LEMMA AncestryIsUp ==
    ASSUME PassInv, BuildInv, phase = "done", TreeOrder, NEW n \in DOMAIN nodes
    PROVE  Ancestry(rows, U(n)) = {U(m) : m \in Up(n)}
<1>1. /\ NodesInv /\ IndexIsExact /\ rows \in Seq(Row) /\ Distinct(rows)
      /\ IdsOf(rows) \subseteq Uuid \ {Body} /\ nodes[root].parent = NoNode
    BY DEF BuildInv, BelowInv, TreeInv, PassInv, RowsOK, Built
<1> DEFINE A == Ancestry(rows, U(n))
<1>2. Reached(UpEdges(rows), U(n), A)
    BY <1>1, AncestryReached
<1> HIDE DEF A
<1>3. \A m \in DOMAIN nodes \ {root} :
          /\ U(m) \in IdsOf(rows) /\ nodes[m].parent \in DOMAIN nodes
          /\ RowOf(U(m)) \in ToSet(rows) /\ RowOf(U(m)).id = U(m)
          /\ RowOf(U(m)).parent = U(nodes[m].parent)
    BY <1>1, RowOfId DEF NodesInv, U
<1>4. U(root) \notin IdsOf(rows)
    BY <1>1 DEF NodesInv, U
<1>5. A \subseteq {U(m) : m \in Up(n)}
    <2> DEFINE T == {U(m) : m \in Up(n)}
    <2>1. U(n) \in T
        BY DEF TreeOrder
    <2>2. ASSUME NEW r \in ToSet(rows), r.id \in T PROVE r.parent \in T
        <3>1. PICK m \in Up(n) : r.id = U(m)
            BY <2>2
        <3>2. r.id \in IdsOf(rows) /\ RowOf(r.id) = r
            BY <1>1, RowOfItsId
        <3>3. m \in DOMAIN nodes \ {root}
            BY <1>4, <3>1, <3>2 DEF TreeOrder
        <3>4. r.parent = U(nodes[m].parent)
            BY <1>3, <3>1, <3>2, <3>3
        <3>5. nodes[m].parent \in Up(n)
            BY <3>1, <3>3 DEF TreeOrder
        <3> QED
            BY <3>4, <3>5
    <2> HIDE DEF T
    <2>3. Shut(UpEdges(rows), T)
        BY <2>2 DEF Shut, UpEdges
    <2>4. A \subseteq T
        BY <1>2, <2>1, <2>3 DEF Reached
    <2> QED
        BY <2>4 DEF T
<1>6. \A m \in Up(n) : U(m) \in A
    <2> DEFINE S == {m \in Up(n) : U(m) \in A}
    <2>1. U(n) \in A /\ Shut(UpEdges(rows), A)
        BY <1>2 DEF Reached
    <2>2. n \in S /\ S \in SUBSET DOMAIN nodes
        BY <2>1 DEF TreeOrder
    <2>3. ASSUME NEW m \in S, m # root PROVE nodes[m].parent \in S
        <3>1. m \in DOMAIN nodes \ {root} /\ m \in Up(n) /\ U(m) \in A
            BY <2>2, <2>3
        <3>2. nodes[m].parent \in Up(n)
            BY <3>1 DEF TreeOrder
        <3>3. <<U(m), U(nodes[m].parent)>> \in UpEdges(rows)
            <4>1. /\ RowOf(U(m)) \in ToSet(rows) /\ RowOf(U(m)).id = U(m)
                  /\ RowOf(U(m)).parent = U(nodes[m].parent)
                BY <1>3, <3>1
            <4> QED
                BY <4>1 DEF UpEdges
        <3>4. U(nodes[m].parent) \in A
            BY <2>1, <3>1, <3>3 DEF Shut
        <3> QED
            BY <3>2, <3>4
    <2> HIDE DEF S
    <2>4. \A m \in S : nodes[m].parent \in S \cup {NoNode}
        BY <1>1, <2>3
    <2>5. Up(n) \subseteq S
        BY <2>2, <2>4, UpwardIsLeast DEF Up
    <2> QED
        BY <2>5 DEF S
<1> QED
    BY <1>5, <1>6 DEF A

\* The row of each node, and the node of each row.
LEMMA RowsAreNodes ==
    ASSUME PassInv, BuildInv, phase = "done", TreeOrder, RowNodes
    PROVE  /\ \A n \in DOMAIN nodes \ {root} :
                 /\ RowOf(U(n)) \in ToSet(rows) /\ RowOf(U(n)).id = U(n)
                 /\ Above(RowOf(U(n))) = {U(m) : m \in Up(n) \ {n, root}}
                 /\ Shown(RowOf(U(n))) <=> n \in Live /\ Emits(n)
                 /\ Closes(RowOf(U(n))) <=> Inner(n)
           /\ \A r \in ToSet(rows) : \E n \in DOMAIN nodes \ {root} : RowOf(U(n)) = r
<1>1. /\ NodesInv /\ IndexIsExact /\ rows \in Seq(Row) /\ Distinct(rows)
      /\ IdsOf(rows) \subseteq Uuid \ {Body}
      /\ DOMAIN by_uuid = IdsOf(rows) \cup {Body}
    BY DEF BuildInv, BelowInv, TreeInv, PassInv, RowsOK, Built
<1>2. \A m \in DOMAIN nodes \ {root} :
          /\ U(m) \in IdsOf(rows) /\ nodes[m].parent \in DOMAIN nodes
          /\ RowOf(U(m)) \in ToSet(rows) /\ RowOf(U(m)).id = U(m)
          /\ RowOf(U(m)).parent = U(nodes[m].parent)
          /\ nodes[m].content = RowOf(U(m)).tag
    BY <1>1, RowOfId DEF NodesInv, U
<1>3. U(root) = Body
    BY <1>1 DEF NodesInv, U
<1>4. ASSUME NEW n \in DOMAIN nodes \ {root}
      PROVE  Above(RowOf(U(n))) = {U(m) : m \in Up(n) \ {n, root}}
    <2> DEFINE p == nodes[n].parent
    <2>1. p \in DOMAIN nodes /\ RowOf(U(n)).parent = U(p)
        BY <1>2
    <2>2. Ancestry(rows, U(p)) = {U(m) : m \in Up(p)}
        BY <2>1, AncestryIsUp
    <2>3. Up(n) = {n} \cup Up(p) /\ n \notin Up(p) /\ Up(p) \subseteq DOMAIN nodes
        BY <2>1 DEF TreeOrder
    <2>4. \A m \in DOMAIN nodes : U(m) = Body <=> m = root
        BY <1>1, <1>2, <1>3
    <2> HIDE DEF p
    <2>5. {U(m) : m \in Up(p)} \ {Body} = {U(m) : m \in Up(n) \ {n, root}}
        BY <2>3, <2>4
    <2> QED
        BY <2>1, <2>2, <2>5 DEF Above
<1>5. ASSUME NEW n \in DOMAIN nodes \ {root}
      PROVE  Shown(RowOf(U(n))) <=> n \in Live /\ Emits(n)
    <2>1. Up(n) \subseteq DOMAIN nodes
        BY DEF TreeOrder
    <2>2. \A m \in DOMAIN nodes \ {root} : RowOf(U(m)).tag \in {"input", "#text"} <=> Leaf(m)
        BY <1>2 DEF Leaf
    <2>3. ~ Leaf(root)
        BY DEF RowNodes, Leaf
    <2>4. (\A id \in Above(RowOf(U(n))) : RowOf(id).tag \notin {"input", "#text"})
          <=> \A m \in Up(n) \ {n, root} : ~ Leaf(m)
        BY <1>4, <2>1, <2>2
    <2>5. (\A m \in Up(n) \ {n, root} : ~ Leaf(m)) <=> n \in Live
        BY <2>1, <2>3 DEF Live
    <2>6. (RowOf(U(n)).tag = "#text" => RowOf(U(n)).text.say # "none") <=> Emits(n)
        BY <1>2 DEF Emits, U
    <2> QED
        BY <2>4, <2>5, <2>6 DEF Shown
<1>6. ASSUME NEW n \in DOMAIN nodes \ {root}
      PROVE  Closes(RowOf(U(n))) <=> Inner(n)
    BY <1>2 DEF Closes, Inner, Leaf
<1>7. ASSUME NEW r \in ToSet(rows)
      PROVE  \E n \in DOMAIN nodes \ {root} : RowOf(U(n)) = r
    <2>1. r.id \in IdsOf(rows) /\ RowOf(r.id) = r
        BY <1>1, RowOfItsId
    <2>2. PICK n \in DOMAIN nodes : U(n) = r.id
        BY <1>1, <2>1 DEF IndexIsExact, U
    <2>3. n # root
        BY <1>1, <1>3, <2>1, <2>2
    <2> QED
        BY <2>1, <2>2, <2>3
<1> QED
    BY <1>2, <1>4, <1>5, <1>6, <1>7

\* The markup holds each row once.
LEMMA EachRowOnce ==
    ASSUME PassInv, BuildInv, RenderInv, phase = "done"
    PROVE  RendersEachRowOnce
<1>1. TreeOrder /\ RowNodes
    BY TreeIsOrdered, RowNodesHold DEF Built
<1>2. OutOK(<<>>, out)
    BY DEF RenderInv
<1>3. ToSet(<<>>) = {} /\ Opened(<<>>) = Live
    <2>1. ToSet(<<>>) = {}
        BY DEF ToSet
    <2> QED
        BY <2>1 DEF Opened
<1>4. /\ out \in Seq(Int)
      /\ \A y \in Int : y \in ToSet(out) <=>
             \E n \in Live : (Emits(n) /\ y = U(n)) \/ (Inner(n) /\ y = -U(n))
      /\ \A i, j \in DOMAIN out : out[i] = out[j] => i = j
    <2>1. out \in Seq(Int) /\ \A i, j \in DOMAIN out : out[i] = out[j] => i = j
        BY <1>2 DEF OutOK, Shows
    <2>2. ASSUME NEW y \in Int
          PROVE  y \in ToSet(out) <=> \E n \in Live : (Emits(n) /\ y = U(n)) \/ (Inner(n) /\ y = -U(n))
        <3>1. y \in ToSet(out) <=>
                \E n \in Opened(<<>>) : \/ Emits(n) /\ y = U(n)
                                        \/ Inner(n) /\ -n \notin ToSet(<<>>) /\ y = -U(n)
            BY <1>2 DEF OutOK, Shows
        <3>2. \A x : x \notin ToSet(<<>>)
            BY <1>3
        <3> QED
            BY <1>3, <3>1, <3>2, Zenon
    <2> QED
        BY <2>1, <2>2
<1>5. \A m, n \in Live : m # n /\ Inner(m) /\ Emits(n) =>
          \A i, j, k \in DOMAIN out : out[i] = U(m) /\ out[j] = U(n) /\ out[k] = -U(m) =>
              (m \in Up(n) <=> i < j /\ j < k)
    BY <1>2, <1>3 DEF OutOK, Encloses
<1> DEFINE N == {n \in Live : Emits(n)}
<1>6. \A n \in N : n \in DOMAIN nodes \ {root} /\ U(n) \in Nat
    BY <1>1, LiveNodes DEF Emits, RowNodes
<1>7. \A n \in Live : Inner(n) => n \in N
    BY DEF Inner, Emits, Leaf
<1>8. /\ \A n \in N : /\ RowOf(U(n)) \in ShownRows /\ RowOf(U(n)).id = U(n)
                      /\ Closes(RowOf(U(n))) <=> Inner(n)
                      /\ Above(RowOf(U(n))) = {U(m) : m \in Up(n) \ {n, root}}
      /\ \A r \in ShownRows : \E n \in N : RowOf(U(n)) = r
    BY <1>1, <1>6, RowsAreNodes DEF ShownRows
<1> HIDE DEF N
<1>9. Len(out) = Cardinality(ToSet(out))
    <2>1. Len(out) \in Nat /\ DOMAIN out = 1..Len(out)
        BY <1>4
    <2>2. out \in Surjection(1..Len(out), ToSet(out)) /\ out \in Injection(1..Len(out), ToSet(out))
        <3>1. out \in [1..Len(out) -> ToSet(out)]
            BY <1>4, <2>1 DEF ToSet
        <3> QED
            BY <1>4, <2>1, <3>1 DEF Surjection, Injection, IsInjective, ToSet
    <2>3. IsFiniteSet(1..Len(out)) /\ Cardinality(1..Len(out)) = Len(out)
        <3>1. \A k \in Nat : IsFiniteSet(1..k) /\ Cardinality(1..k) = k
            BY FS_Interval
        <3> QED
            BY <2>1, <3>1
    <2> QED
        BY <2>2, <2>3, FS_Surjection
<1>10. ToSet(out) = {r.id : r \in ShownRows} \cup {-r.id : r \in {x \in ShownRows : Closes(x)}}
    <2>1. \A y \in ToSet(out) : y \in Int
        BY <1>4 DEF ToSet
    <2>2. \A y \in Int : y \in ToSet(out) <=> \E n \in N : y = U(n) \/ (Inner(n) /\ y = -U(n))
        <3> SUFFICES ASSUME NEW y \in Int
                     PROVE  y \in ToSet(out) <=> \E n \in N : y = U(n) \/ (Inner(n) /\ y = -U(n))
            OBVIOUS
        <3>1. y \in ToSet(out) <=> \E n \in Live : (Emits(n) /\ y = U(n)) \/ (Inner(n) /\ y = -U(n))
            BY <1>4
        <3>2. \A n : n \in N <=> n \in Live /\ Emits(n)
            BY DEF N
        <3> QED
            BY <1>7, <3>1, <3>2
    <2>3. ASSUME NEW y \in ToSet(out)
          PROVE  y \in {r.id : r \in ShownRows} \cup {-r.id : r \in {x \in ShownRows : Closes(x)}}
        <3>1. PICK n \in N : y = U(n) \/ (Inner(n) /\ y = -U(n))
            BY <2>1, <2>2
        <3> QED
            BY <1>8, <3>1
    <2>4. ASSUME NEW r \in ShownRows
          PROVE  r.id \in ToSet(out) /\ (Closes(r) => -r.id \in ToSet(out))
        <3>1. PICK n \in N : RowOf(U(n)) = r
            BY <1>8
        <3>2. r.id = U(n) /\ (Closes(r) <=> Inner(n)) /\ U(n) \in Nat
            BY <1>6, <1>8, <3>1
        <3>3. U(n) \in Int /\ -U(n) \in Int
            BY <3>2
        <3> QED
            BY <2>2, <3>2, <3>3
    <2> QED
        BY <2>3, <2>4
<1>11. ASSUME NEW y \in ToSet(out) PROVE Pos(y) \in DOMAIN out /\ out[Pos(y)] = y
    BY DEF Pos, ToSet
<1>12. ASSUME NEW r \in ShownRows, NEW s \in ShownRows, r # s, Closes(r)
       PROVE  r.id \in Above(s) <=> Pos(r.id) < Pos(s.id) /\ Pos(s.id) < Pos(-r.id)
    <2>1. PICK m \in N : RowOf(U(m)) = r
        BY <1>8
    <2>2. PICK n \in N : RowOf(U(n)) = s
        BY <1>8
    <2>3. r.id = U(m) /\ s.id = U(n) /\ m # n /\ Inner(m)
        BY <1>8, <1>12, <2>1, <2>2
    <2>4. U(m) \in ToSet(out) /\ U(n) \in ToSet(out) /\ -U(m) \in ToSet(out)
        BY <1>10, <1>12, <2>3
    <2>5. m \in Up(n) <=> Pos(U(m)) < Pos(U(n)) /\ Pos(U(n)) < Pos(-U(m))
        <3>1. m \in Live /\ n \in Live /\ Emits(n)
            BY DEF N
        <3> QED
            BY <1>5, <1>11, <2>3, <2>4, <3>1
    <2>6. U(m) \in {U(x) : x \in Up(n) \ {n, root}} <=> m \in Up(n)
        <3>1. \A x \in Up(n) \ {n, root} : x \in DOMAIN nodes \ {root}
            BY <1>1, <1>6 DEF TreeOrder
        <3>2. \A x \in DOMAIN nodes \ {root} : U(x) = U(m) => x = m
            BY <1>1, <1>6 DEF RowNodes
        <3>3. m # root
            BY <1>6
        <3> QED
            BY <2>3, <3>1, <3>2, <3>3
    <2>7. Above(s) = {U(x) : x \in Up(n) \ {n, root}}
        BY <1>8, <2>2
    <2> QED
        BY <2>3, <2>5, <2>6, <2>7
<1> QED
    BY <1>9, <1>10, <1>12 DEF RendersEachRowOnce

\* A rendered page shows each row of the passes once, closes what it opens and
\* nests the rows as their parents say, whatever their sibling links are.
THEOREM PageShowsEachRowOnce == Spec => []RendersEachRowOnce
<1>1. PassInv /\ BuildInv /\ RenderInv => RendersEachRowOnce
    BY EachRowOnce DEF RendersEachRowOnce
<1> QED
    BY <1>1, RenderInvariant, PTL

-----------------------------------------------------------------------------
(* What takes a page render down *)

\* Every row has a parent that is there, and no rows are below each other only.
WellRooted(rs) ==
    /\ \A r \in ToSet(rs) : r.parent \in IdsOf(rs) \cup {Body}
    /\ \A S \in SUBSET IdsOf(rs) :
          S # {} => \E r \in ToSet(rs) : r.id \in S /\ r.parent \notin S

\* Rows whose walks end and whose parents are there are well rooted.
LEMMA WalksRoot ==
    ASSUME NEW rs \in Seq(Row),
           \A r \in ToSet(rs) : WalkEnds(rs, r.id) /\ r.parent \in IdsOf(rs) \cup {Body}
    PROVE  WellRooted(rs)
<1>1. ASSUME NEW S \in SUBSET IdsOf(rs), S # {},
             \A r \in ToSet(rs) : r.id \in S => r.parent \in S
      PROVE  FALSE
    <2>1. PICK r \in ToSet(rs) : r.id \in S
        BY <1>1, IdsAreOfRows
    <2>2. Shut(UpEdges(rs), S)
        BY <1>1 DEF Shut, UpEdges
    <2>3. Reached(UpEdges(rs), r.id, Ancestry(rs, r.id))
        BY AncestryReached
    <2>4. Ancestry(rs, r.id) \subseteq IdsOf(rs)
        BY <2>1, <2>2, <2>3 DEF Reached
    <2> QED
        BY <2>4 DEF WalkEnds
<1> QED
    BY <1>1 DEF WellRooted

\* Among well rooted rows no set of rows is closed upwards.
LEMMA NothingIsShut ==
    ASSUME NEW rs, WellRooted(rs), NEW S \in SUBSET IdsOf(rs), Shut(UpEdges(rs), S)
    PROVE  S = {}
<1>1. ASSUME NEW r \in ToSet(rs), r.id \in S PROVE r.parent \in S
    <2>1. <<r.id, r.parent>> \in UpEdges(rs)
        BY DEF UpEdges
    <2> QED
        BY <1>1, <2>1 DEF Shut
<1> QED
    BY <1>1 DEF WellRooted

LEMMA SameLinks ==
    ASSUME NEW rs, NEW rt, DOMAIN rt = DOMAIN rs, WellRooted(rs),
           \A i \in DOMAIN rs : rt[i].id = rs[i].id /\ rt[i].parent = rs[i].parent
    PROVE  WellRooted(rt)
<1>1. IdsOf(rt) = IdsOf(rs)
    BY DEF IdsOf
<1>2. \A r \in ToSet(rt) : \E x \in ToSet(rs) : x.id = r.id /\ x.parent = r.parent
    BY DEF ToSet
<1>3. \A x \in ToSet(rs) : \E r \in ToSet(rt) : x.id = r.id /\ x.parent = r.parent
    BY DEF ToSet
<1>4. \A r \in ToSet(rt) : r.parent \in IdsOf(rt) \cup {Body}
    BY <1>1, <1>2 DEF WellRooted
<1>5. ASSUME NEW S \in SUBSET IdsOf(rt), S # {}
      PROVE  \E r \in ToSet(rt) : r.id \in S /\ r.parent \notin S
    <2>1. PICK x \in ToSet(rs) : x.id \in S /\ x.parent \notin S
        BY <1>1, <1>5 DEF WellRooted
    <2> QED
        BY <1>3, <2>1
<1> QED
    BY <1>4, <1>5 DEF WellRooted

\* Every set of ids in X has a row whose parent is not in it.
EachLeaves(rt, X) ==
    \A S \in SUBSET X : S # {} => \E r \in ToSet(rt) : r.id \in S /\ r.parent \notin S

\* The rows with ids in N hang on those with ids in K, which leave K for the
\* body only.
HangsOn(rt, K, N) ==
    /\ IdsOf(rt) = K \cup N /\ Body \notin IdsOf(rt) /\ K \cap N = {}
    /\ \A r \in ToSet(rt) : r.id \in K => r.parent \in K \cup {Body}
    /\ \A r \in ToSet(rt) : r.id \in N => r.parent \in K \cup N \cup {Body}

LEMMA HungOnto ==
    ASSUME NEW rt, NEW K, NEW N, HangsOn(rt, K, N), EachLeaves(rt, K), EachLeaves(rt, N)
    PROVE  WellRooted(rt)
<1>1. \A r \in ToSet(rt) : r.parent \in IdsOf(rt) \cup {Body}
    BY IdsAreOfRows DEF HangsOn
<1>2. ASSUME NEW S \in SUBSET IdsOf(rt), S # {}
      PROVE  \E r \in ToSet(rt) : r.id \in S /\ r.parent \notin S
    <2>1. CASE S \cap K # {}
        <3>1. PICK r \in ToSet(rt) : r.id \in S \cap K /\ r.parent \notin S \cap K
            BY <2>1 DEF EachLeaves
        <3>2. r.parent \in K \cup {Body} /\ Body \notin S
            BY <1>2, <3>1 DEF HangsOn
        <3> QED
            BY <3>1, <3>2
    <2>2. CASE S \cap K = {}
        BY <1>2, <2>2 DEF HangsOn, EachLeaves
    <2> QED
        BY <2>1, <2>2
<1> QED
    BY <1>1, <1>2 DEF WellRooted

\* The inputs hang on forms.
LEMMA WiredIsRooted ==
    ASSUME NEW rs, NEW ids, RowsOK(rs, ids), Len(FormRows(rs)) <= Len(ids), WellRooted(rs)
    PROVE  WellRooted(Named(rs) \o Inputs(rs, ids))
<1> DEFINE m == Named(rs)
           w == Inputs(rs, ids)
           rt == m \o w
<1>1. /\ rs \in Seq(Row) /\ ids \in Seq(Nat) /\ IdsOf(rs) \cap ToSet(ids) = {}
      /\ \A i \in DOMAIN rs : rs[i] \in Row
    BY DEF RowsOK
<1>2. /\ DOMAIN m = DOMAIN rs
      /\ \A i \in DOMAIN rs : m[i].id = rs[i].id /\ m[i].parent = rs[i].parent
    <2>1. \A r \in Row : /\ [r EXCEPT !.name = "field"].id = r.id
                         /\ [r EXCEPT !.name = "field"].parent = r.parent
        BY DEF Row
    <2> QED
        BY <1>1, <2>1, NamedRows
<1>3. WellRooted(m) /\ IdsOf(m) = IdsOf(rs)
    BY <1>2, SameLinks DEF IdsOf
<1>4. /\ DOMAIN w = 1..Len(FormRows(rs)) /\ IdsOf(w) = {ids[k] : k \in 1..Len(FormRows(rs))}
      /\ Len(FormRows(rs)) \in Nat
    BY InputsAreFit
<1>5. ToSet(rt) = ToSet(m) \cup ToSet(w) /\ RowsOK(rt, SubSeq(ids, Len(FormRows(rs)) + 1, Len(ids)))
    BY WiredIsOK
<1>6. \A r \in ToSet(w) : r.parent \in IdsOf(rs)
    <2>1. ASSUME NEW k \in DOMAIN w PROVE w[k].parent \in IdsOf(rs)
        <3>1. w[k].parent = FormRows(rs)[k].id
            BY <2>1 DEF Inputs, CsrfInput
        <3>2. FormRows(rs)[k] \in ToSet(FormRows(rs))
            BY <2>1 DEF Inputs, ToSet
        <3>3. FormRows(rs)[k] \in ToSet(rs)
            BY <1>1, <3>2, FormRowsTyped
        <3> QED
            BY <3>1, <3>3, IdsAreOfRows
    <2> HIDE DEF w
    <2> QED
        BY <2>1 DEF ToSet
<1>7. IdsOf(w) \cap IdsOf(rs) = {}
    <2>1. \A k \in 1..Len(FormRows(rs)) : ids[k] \in ToSet(ids)
        BY <1>1, <1>4 DEF ToSet
    <2> QED
        BY <1>1, <1>4, <2>1
<1>8. Body \notin IdsOf(rt)
    BY <1>5 DEF RowsOK
<1> HIDE DEF m, w, rt
<1>9. IdsOf(rt) = IdsOf(m) \cup IdsOf(w)
    BY <1>5, IdsAreOfRows
<1>10. \A r \in ToSet(rt) : r.id \in IdsOf(m) => r \in ToSet(m)
    BY <1>3, <1>5, <1>7, IdsAreOfRows
<1>11. \A r \in ToSet(rt) : r.id \in IdsOf(w) => r \in ToSet(w)
    BY <1>3, <1>5, <1>7, IdsAreOfRows
<1>12. \A r \in ToSet(rt) : r.id \in IdsOf(m) => r.parent \in IdsOf(m) \cup {Body}
    BY <1>3, <1>10 DEF WellRooted
<1>13. \A r \in ToSet(rt) : r.id \in IdsOf(w) => r.parent \in IdsOf(m) \cup IdsOf(w) \cup {Body}
    BY <1>3, <1>6, <1>11
<1>14. \A S \in SUBSET IdsOf(m) : S # {} => \E r \in ToSet(rt) : r.id \in S /\ r.parent \notin S
    BY <1>3, <1>5 DEF WellRooted
<1>15. ASSUME NEW S \in SUBSET IdsOf(w), S # {}
       PROVE  \E r \in ToSet(rt) : r.id \in S /\ r.parent \notin S
    <2>1. PICK r \in ToSet(w) : r.id \in S
        BY <1>15, IdsAreOfRows
    <2> QED
        BY <1>5, <1>6, <1>7, <2>1
<1>16. HangsOn(rt, IdsOf(m), IdsOf(w))
    BY <1>3, <1>7, <1>8, <1>9, <1>12, <1>13 DEF HangsOn
<1>17. EachLeaves(rt, IdsOf(m)) /\ EachLeaves(rt, IdsOf(w))
    BY <1>14, <1>15 DEF EachLeaves
<1>18. WellRooted(rt)
    BY <1>16, <1>17, HungOnto
<1> QED
    BY <1>18 DEF rt, m, w

-----------------------------------------------------------------------------

\* Below the top of a template, parents are in it.
LEMMA GoneParents ==
    ASSUME NEW rs \in Seq(Row), NEW top \in IdsOf(rs)
    PROVE  LET gone == Subtree(rs, top)
           IN  /\ top \in gone /\ gone \subseteq IdsOf(rs)
               /\ \A r \in ToSet(rs) : r.parent \in gone => r.id \in gone
               /\ \A x \in gone \ {top} :
                      \E r \in ToSet(rs) : r.id = x /\ r.parent \in gone
<1> DEFINE gone == Subtree(rs, top)
           T == {top} \cup {x \in gone : \E r \in ToSet(rs) : r.id = x /\ r.parent \in gone}
<1>1. Reached(DownEdges(rs), top, gone)
    BY SubtreeReached
<1> HIDE DEF gone
<1>2. top \in gone /\ Shut(DownEdges(rs), gone)
    BY <1>1 DEF Reached
<1>3. ASSUME NEW r \in ToSet(rs), r.parent \in gone PROVE r.id \in gone
    <2>1. <<r.parent, r.id>> \in DownEdges(rs)
        BY DEF DownEdges
    <2> QED
        BY <1>2, <1>3, <2>1 DEF Shut
<1>4. Shut(DownEdges(rs), T)
    <2> SUFFICES ASSUME NEW r \in ToSet(rs), r.parent \in T PROVE r.id \in T
        BY DEF Shut, DownEdges
    <2>1. r.parent \in gone
        BY <1>2
    <2> QED
        BY <1>3, <2>1
<1>5. gone \subseteq T
    <2> HIDE DEF T
    <2>1. top \in T
        BY DEF T
    <2> QED
        BY <1>1, <1>4, <2>1 DEF Reached
<1>6. \A x \in gone \ {top} : \E r \in ToSet(rs) : r.id = x /\ r.parent \in gone
    BY <1>5
<1>7. gone \subseteq IdsOf(rs)
    BY <1>6, IdsAreOfRows
<1> QED
    BY <1>2, <1>3, <1>6, <1>7 DEF gone

\* The parent that gets the clones is not among the rows that go.
LEMMA ParentStays ==
    ASSUME NEW rs \in Seq(Row), Distinct(rs), WellRooted(rs), Body \notin IdsOf(rs),
           NEW r \in ToSet(rs)
    PROVE  r.parent \in IdsOf(Kept(rs, Subtree(rs, r.id))) \cup {Body}
<1> DEFINE gone == Subtree(rs, r.id)
<1>0. r.id \in IdsOf(rs)
    BY IdsAreOfRows
<1>1. /\ r.id \in gone /\ gone \subseteq IdsOf(rs)
      /\ \A x \in gone \ {r.id} : \E y \in ToSet(rs) : y.id = x /\ y.parent \in gone
    BY <1>0, GoneParents
<1>2. IdsOf(Kept(rs, gone)) = IdsOf(rs) \ gone
    BY SplitRows
<1> HIDE DEF gone
<1>3. \A x, y \in ToSet(rs) : x.id = y.id => x = y
    BY DEF Distinct, ToSet
<1>4. PICK x \in ToSet(rs) : x.id \in gone /\ x.parent \notin gone
    BY <1>1 DEF WellRooted
<1>5. x.id = r.id
    BY <1>1, <1>3, <1>4
<1>6. r.parent \notin gone
    BY <1>3, <1>4, <1>5
<1>7. r.parent \in IdsOf(rs) \cup {Body}
    BY DEF WellRooted
<1> QED
    BY <1>2, <1>6, <1>7 DEF gone

-----------------------------------------------------------------------------

\* Where the j-th row of clone c is, of m rows in each clone.
Cell(c, m, j) == c * m + j

\* The links of that row.
CloneLinks(cl, template, top, p, ids, m, n) ==
    /\ DOMAIN cl = 1..(m * n)
    /\ \A c \in 0..(n - 1), j \in 1..m :
          /\ Cell(c, m, j) \in 1..(m * n)
          /\ cl[Cell(c, m, j)].id = ids[Cell(c, m, j)]
          /\ template[j].id = top => cl[Cell(c, m, j)].parent = p
          /\ template[j].id # top =>
                \A k \in 1..m : template[k].id = template[j].parent =>
                    cl[Cell(c, m, j)].parent = ids[Cell(c, m, k)]
    /\ \A i \in 1..(m * n) : \E c \in 0..(n - 1), j \in 1..m : i = Cell(c, m, j)

LEMMA CellSpot ==
    ASSUME NEW m \in Nat \ {0}, NEW n \in Nat, NEW c \in 0..(n - 1), NEW j \in 1..m
    PROVE  /\ Cell(c, m, j) \in 1..(m * n)
           /\ (Cell(c, m, j) - 1) \div m = c
           /\ (Cell(c, m, j) - 1) % m = j - 1
BY GridSpot DEF Cell

LEMMA ClonesLink ==
    ASSUME NEW template \in Seq(Row), Distinct(template), template # <<>>,
           NEW top \in IdsOf(template), NEW p \in Nat,
           NEW recs \in Seq(Int), NEW ids \in Seq(Nat),
           Len(template) * Len(recs) <= Len(ids),
           NEW cl, cl = Clones(template, top, p, recs, ids)
    PROVE  CloneLinks(cl, template, top, p, ids, Len(template), Len(recs))
<1> DEFINE m == Len(template)
           n == Len(recs)
<1>1. /\ cl \in Seq(Row) /\ Len(cl) = m * n
      /\ \A i \in 1..(m * n) : CloneRow(cl[i], i, template, top, p, recs, ids)
    BY ClonesEffect
<1>2. m \in Nat \ {0} /\ n \in Nat
    BY EmptySeq
<1>3. DOMAIN cl = 1..(m * n)
    BY <1>1
<1>4. \A i \in 1..(m * n) : Origin(template, i) = template[((i - 1) % m) + 1]
                            /\ Serial(template, i) = (i - 1) \div m
    BY DEF Origin, Serial
<1>5. \A i \in 1..(m * n) :
          LET o == Origin(template, i)
          IN  /\ cl[i].id = ids[i]
              /\ o.id = top => cl[i].parent = p
              /\ o.id # top => \A k \in 1..m :
                     template[k].id = o.parent =>
                         cl[i].parent = ids[Cell(Serial(template, i), m, k)]
    BY <1>1 DEF CloneRow, Cell
<1> HIDE DEF m, n
<1>6. ASSUME NEW c \in 0..(n - 1), NEW j \in 1..m
      PROVE  /\ Cell(c, m, j) \in 1..(m * n)
             /\ Origin(template, Cell(c, m, j)) = template[j]
             /\ Serial(template, Cell(c, m, j)) = c
    <2>1. /\ Cell(c, m, j) \in 1..(m * n)
          /\ (Cell(c, m, j) - 1) \div m = c
          /\ (Cell(c, m, j) - 1) % m = j - 1
        BY <1>2, CellSpot
    <2>2. j - 1 + 1 = j
        BY <1>2
    <2>3. /\ Origin(template, Cell(c, m, j)) = template[((Cell(c, m, j) - 1) % m) + 1]
          /\ Serial(template, Cell(c, m, j)) = (Cell(c, m, j) - 1) \div m
        BY <1>4, <2>1
    <2> QED
        BY <2>1, <2>2, <2>3
<1>7. ASSUME NEW c \in 0..(n - 1), NEW j \in 1..m
      PROVE  /\ Cell(c, m, j) \in 1..(m * n)
             /\ cl[Cell(c, m, j)].id = ids[Cell(c, m, j)]
             /\ template[j].id = top => cl[Cell(c, m, j)].parent = p
             /\ template[j].id # top =>
                   \A k \in 1..m : template[k].id = template[j].parent =>
                       cl[Cell(c, m, j)].parent = ids[Cell(c, m, k)]
    <2> DEFINE i == Cell(c, m, j)
    <2>1. i \in 1..(m * n) /\ Origin(template, i) = template[j] /\ Serial(template, i) = c
        BY <1>6
    <2> HIDE DEF i
    <2>2. /\ cl[i].id = ids[i]
          /\ template[j].id = top => cl[i].parent = p
          /\ template[j].id # top =>
                \A k \in 1..m : template[k].id = template[j].parent =>
                    cl[i].parent = ids[Cell(c, m, k)]
        BY <1>5, <2>1
    <2> QED
        BY <2>1, <2>2 DEF i
<1>8. ASSUME NEW i \in 1..(m * n)
      PROVE  \E c \in 0..(n - 1), j \in 1..m : i = Cell(c, m, j)
    <2>1. /\ (i - 1) \div m \in 0..(n - 1)
          /\ (i - 1) % m \in 0..(m - 1)
          /\ i = ((i - 1) \div m) * m + ((i - 1) % m) + 1
        BY <1>2, Grid
    <2>2. \A x \in 0..(m - 1) : x + 1 \in 1..m
        BY <1>2
    <2>3. ((i - 1) % m) + 1 \in 1..m
        BY <2>1, <2>2
    <2>4. \A x \in Int, y \in Int : x + y + 1 = x + (y + 1)
        OBVIOUS
    <2>5. \A x \in 0..(n - 1) : x * m \in Int
        BY <1>2, SMT
    <2>6. i = ((i - 1) \div m) * m + (((i - 1) % m) + 1)
        BY <1>2, <2>1, <2>4, <2>5
    <2> QED
        BY <2>1, <2>3, <2>6 DEF Cell
<1> QED
    BY <1>3, <1>7, <1>8 DEF CloneLinks, m, n

\* A template is made of rows, and below its top their parents are in it.
TakenFrom(template, top, rs) ==
    /\ template \in Seq(Row) /\ ToSet(template) \subseteq ToSet(rs)
    /\ \A o \in ToSet(template) : o.id # top => o.parent \in IdsOf(template)

HangsBelow(cl, p) ==
    /\ EachLeaves(cl, IdsOf(cl))
    /\ \A r \in ToSet(cl) : r.parent \in IdsOf(cl) \cup {p}

\* In every set of clone rows there is one whose parent is not in it.
LEMMA ClonesRooted ==
    ASSUME NEW rs, Distinct(rs), WellRooted(rs),
           NEW template, NEW top, NEW p, NEW ids, NEW m, NEW n, NEW cl,
           m = Len(template), TakenFrom(template, top, rs),
           CloneLinks(cl, template, top, p, ids, m, n), p \notin IdsOf(cl)
    PROVE  HangsBelow(cl, p)
<1>0. /\ template \in Seq(Row) /\ ToSet(template) \subseteq ToSet(rs) /\ m \in Nat
      /\ \A o \in ToSet(template) : o.id # top => o.parent \in IdsOf(template)
    BY DEF TakenFrom
<1>1. DOMAIN template = 1..m
    BY <1>0
<1>2. \A c \in 0..(n - 1), j \in 1..m : /\ cl[Cell(c, m, j)] \in ToSet(cl)
                                          /\ ids[Cell(c, m, j)] \in IdsOf(cl)
                                          /\ cl[Cell(c, m, j)].id = ids[Cell(c, m, j)]
    <2>1. ASSUME NEW c \in 0..(n - 1), NEW j \in 1..m
          PROVE  Cell(c, m, j) \in DOMAIN cl /\ cl[Cell(c, m, j)].id = ids[Cell(c, m, j)]
        BY DEF CloneLinks
    <2>2. \A i \in DOMAIN cl : cl[i] \in ToSet(cl) /\ cl[i].id \in IdsOf(cl)
        BY DEF ToSet, IdsOf
    <2> QED
        BY <2>1, <2>2
<1>3. ASSUME NEW c \in 0..(n - 1), NEW j \in 1..m
      PROVE  \/ template[j].id = top /\ cl[Cell(c, m, j)].parent = p
             \/ \E k \in 1..m : /\ template[k].id = template[j].parent
                                /\ cl[Cell(c, m, j)].parent = ids[Cell(c, m, k)]
    <2>1. CASE template[j].id = top
        BY <2>1 DEF CloneLinks
    <2>2. CASE template[j].id # top
        <3>1. template[j].parent \in IdsOf(template)
            BY <1>0, <1>1, <2>2 DEF ToSet
        <3>2. PICK k \in 1..m : template[k].id = template[j].parent
            BY <1>1, <3>1 DEF IdsOf
        <3>3. cl[Cell(c, m, j)].parent = ids[Cell(c, m, k)]
            BY <2>2, <3>2 DEF CloneLinks
        <3> QED
            BY <3>2, <3>3
    <2> QED
        BY <2>1, <2>2
<1>4. ASSUME NEW r \in ToSet(cl) PROVE r.parent \in IdsOf(cl) \cup {p}
    <2>1. PICK i \in DOMAIN cl : r = cl[i]
        BY DEF ToSet
    <2>2. PICK c \in 0..(n - 1), j \in 1..m : i = Cell(c, m, j)
        BY DEF CloneLinks
    <2> QED
        BY <1>2, <1>3, <2>1, <2>2
<1>5. ASSUME NEW S \in SUBSET IdsOf(cl), S # {}
      PROVE  \E r \in ToSet(cl) : r.id \in S /\ r.parent \notin S
    <2>1. PICK c \in 0..(n - 1), j0 \in 1..m : ids[Cell(c, m, j0)] \in S
        <3>1. PICK i \in DOMAIN cl : cl[i].id \in S
            BY <1>5 DEF IdsOf
        <3>2. PICK c \in 0..(n - 1), j \in 1..m : i = Cell(c, m, j)
            BY DEF CloneLinks
        <3> QED
            BY <1>2, <3>1, <3>2
    <2> DEFINE J == {j \in 1..m : ids[Cell(c, m, j)] \in S}
               T == {template[j].id : j \in J}
    <2>2. T \in SUBSET IdsOf(rs) /\ T # {}
        <3>1. \A j \in J : template[j] \in ToSet(rs)
            BY <1>0, <1>1 DEF ToSet
        <3> HIDE DEF J
        <3>2. T \subseteq IdsOf(rs)
            BY <3>1, IdsAreOfRows
        <3>3. j0 \in J
            BY <2>1 DEF J
        <3> QED
            BY <3>2, <3>3
    <2>3. PICK x \in ToSet(rs) : x.id \in T /\ x.parent \notin T
        <3> HIDE DEF T
        <3> QED
            BY <2>2 DEF WellRooted
    <2>4. PICK j \in J : template[j].id = x.id
        <3> HIDE DEF J
        <3> QED
            BY <2>3
    <2>5. template[j] = x
        <3>1. template[j] \in ToSet(rs)
            BY <1>0, <1>1 DEF ToSet
        <3> QED
            BY <2>4, <3>1 DEF Distinct, ToSet
    <2>6. cl[Cell(c, m, j)] \in ToSet(cl) /\ cl[Cell(c, m, j)].id \in S
        BY <1>2 DEF CloneLinks
    <2>7. cl[Cell(c, m, j)].parent \notin S
        <3>1. CASE cl[Cell(c, m, j)].parent = p
            BY <1>5, <3>1
        <3>2. ASSUME NEW k \in 1..m, template[k].id = template[j].parent,
                     cl[Cell(c, m, j)].parent = ids[Cell(c, m, k)], ids[Cell(c, m, k)] \in S
              PROVE  FALSE
            <4>1. k \in J
                BY <3>2
            <4> HIDE DEF J
            <4>2. template[k].id \in T
                BY <4>1
            <4> QED
                BY <2>3, <2>5, <3>2, <4>2
        <3> QED
            BY <1>3, <3>1, <3>2
    <2> QED
        BY <2>6, <2>7
<1> QED
    BY <1>4, <1>5 DEF EachLeaves, HangsBelow

-----------------------------------------------------------------------------

\* A repeater leaves well rooted rows well rooted.
LEMMA ExpandedIsRooted ==
    ASSUME NEW rs, NEW ids, RowsOK(rs, ids), WellRooted(rs), NEW r \in ToSet(rs),
           NEW recs \in Seq(Int), Used(rs, r.id, recs) <= Len(ids)
    PROVE  WellRooted(Expanded(rs, r.id, r.parent, recs, ids))
<1> DEFINE top == r.id
           p == r.parent
           gone == Subtree(rs, top)
           template == Template(rs, gone)
           kept == Kept(rs, gone)
           cl == Clones(template, top, p, recs, ids)
           u == Used(rs, top, recs)
           rt == Expanded(rs, top, p, recs, ids)
<1>0. /\ rs \in Seq(Row) /\ Distinct(rs) /\ ids \in Seq(Nat) /\ IsInjective(ids)
      /\ IdsOf(rs) \cup ToSet(ids) \subseteq Uuid \ {Body} /\ IdsOf(rs) \cap ToSet(ids) = {}
    BY DEF RowsOK
<1>1. top \in IdsOf(rs) /\ p \in Nat
    <2>1. r \in Row
        BY <1>0, SetOfSeq
    <2> QED
        BY <2>1, RowFields, IdsAreOfRows
<1>2. /\ template \in Seq(Row) /\ Distinct(template) /\ template # <<>>
      /\ top \in IdsOf(template) /\ Len(template) \in Nat \ {0}
    BY <1>0, <1>1, TemplateIsFit
<1>3. /\ ToSet(template) = {x \in ToSet(rs) : x.id \in gone}
      /\ ToSet(kept) = {x \in ToSet(rs) : x.id \notin gone}
      /\ IdsOf(template) = IdsOf(rs) \cap gone
      /\ IdsOf(kept) = IdsOf(rs) \ gone
    BY <1>0, SplitRows
<1>4. /\ \A x \in ToSet(rs) : x.parent \in gone => x.id \in gone
      /\ \A x \in gone \ {top} : \E y \in ToSet(rs) : y.id = x /\ y.parent \in gone
      /\ gone \subseteq IdsOf(rs)
    BY <1>0, <1>1, GoneParents
<1>5. p \in IdsOf(kept) \cup {Body}
    BY <1>0, ParentStays
<1>6. u = Len(template) * Len(recs) /\ u <= Len(ids)
    BY DEF Used
<1>7. ToSet(rt) = ToSet(kept) \cup ToSet(cl) /\ RowsOK(rt, SubSeq(ids, u + 1, Len(ids)))
    BY <1>1, <1>6, ExpandedIsOK
<1> HIDE DEF top, p, gone, template, kept, cl, rt
<1>8. /\ cl \in Seq(Row) /\ u \in Nat
      /\ IdsOf(cl) = {ids[i] : i \in 1..u}
    <2> HIDE DEF u
    <2>1. Len(template) * Len(recs) <= Len(ids) /\ cl = Clones(template, top, p, recs, ids)
        BY <1>6 DEF cl
    <2>2. /\ cl \in Seq(Row)
          /\ IdsOf(cl) = {ids[i] : i \in 1..(Len(template) * Len(recs))}
          /\ Len(template) * Len(recs) \in Nat
        BY <1>0, <1>1, <1>2, <2>1, ClonesIds
    <2> QED
        BY <1>6, <2>2
<1>9. CloneLinks(cl, template, top, p, ids, Len(template), Len(recs))
    BY <1>0, <1>1, <1>2, <1>6, ClonesLink DEF cl
<1>10. \A o \in ToSet(template) : o.id # top => o.parent \in IdsOf(template)
    <2> SUFFICES ASSUME NEW o \in ToSet(template), o.id # top PROVE o.parent \in IdsOf(template)
        OBVIOUS
    <2>1. o \in ToSet(rs) /\ o.id \in gone
        BY <1>3
    <2>2. PICK y \in ToSet(rs) : y.id = o.id /\ y.parent \in gone
        BY <1>4, <2>1
    <2>3. y = o
        BY <1>0, <2>1, <2>2 DEF Distinct, ToSet
    <2> QED
        BY <1>3, <1>4, <2>2, <2>3
<1>11. 1..u \subseteq DOMAIN ids
    <2>1. DOMAIN ids = 1..Len(ids) /\ Len(ids) \in Nat
        BY <1>0
    <2> HIDE DEF u
    <2> QED
        BY <1>6, <1>8, <2>1
<1> HIDE DEF u
<1>12. IdsOf(cl) \subseteq ToSet(ids) /\ IdsOf(cl) \cap IdsOf(kept) = {} /\ p \notin IdsOf(cl)
    <2>1. \A i \in 1..u : ids[i] \in ToSet(ids)
        BY <1>11 DEF ToSet
    <2> QED
        BY <1>0, <1>3, <1>5, <1>8, <2>1
<1>13. EachLeaves(cl, IdsOf(cl)) /\ \A x \in ToSet(cl) : x.parent \in IdsOf(cl) \cup {p}
    <2>1. TakenFrom(template, top, rs)
        BY <1>2, <1>3, <1>10 DEF TakenFrom
    <2>2. HangsBelow(cl, p)
        BY <1>0, <1>9, <1>12, <2>1, ClonesRooted
    <2> QED
        BY <2>2 DEF HangsBelow
<1>14. IdsOf(rt) = IdsOf(kept) \cup IdsOf(cl) /\ Body \notin IdsOf(rt)
    BY <1>7, IdsAreOfRows DEF RowsOK
<1>15. \A x \in ToSet(rt) : x.id \in IdsOf(kept) => x \in ToSet(kept)
    BY <1>7, <1>12, IdsAreOfRows
<1>16. \A x \in ToSet(rt) : x.id \in IdsOf(cl) => x \in ToSet(cl)
    BY <1>7, <1>12, IdsAreOfRows
<1>17. \A x \in ToSet(rt) : x.id \in IdsOf(kept) => x.parent \in IdsOf(kept) \cup {Body}
    BY <1>3, <1>4, <1>15 DEF WellRooted
<1>18. \A x \in ToSet(rt) :
           x.id \in IdsOf(cl) => x.parent \in IdsOf(kept) \cup IdsOf(cl) \cup {Body}
    BY <1>5, <1>13, <1>16
<1>19. HangsOn(rt, IdsOf(kept), IdsOf(cl))
    BY <1>12, <1>14, <1>17, <1>18 DEF HangsOn
<1>20. EachLeaves(rt, IdsOf(kept))
    <2> SUFFICES ASSUME NEW S \in SUBSET IdsOf(kept), S # {}
                 PROVE  \E x \in ToSet(rt) : x.id \in S /\ x.parent \notin S
        BY DEF EachLeaves
    <2>1. S \subseteq IdsOf(rs)
        BY <1>3
    <2>2. PICK x \in ToSet(rs) : x.id \in S /\ x.parent \notin S
        BY <2>1 DEF WellRooted
    <2>3. x \in ToSet(rt)
        BY <1>3, <1>7, <2>2
    <2> QED
        BY <2>2, <2>3
<1>21. EachLeaves(rt, IdsOf(cl))
    BY <1>7, <1>13 DEF EachLeaves
<1>22. WellRooted(rt)
    BY <1>19, <1>20, <1>21, HungOnto
<1> QED
    BY <1>22 DEF rt, top, p

-----------------------------------------------------------------------------

\* The rows as they were loaded stay as they are; if they are well rooted, so
\* are those the passes make of them, and no pass fails.
CauseInv ==
    /\ page \in Seq(Row) /\ Body \notin IdsOf(page)
    /\ WellRooted(page) => WellRooted(rows) /\ phase \notin {"failed", "hung"}

LEMMA CauseInit == Init => CauseInv
<1>1. ASSUME RenderInit PROVE CauseInv
    <2>1. PICK l \in Loads : page = l.rows
        BY <1>1 DEF RenderInit
    <2>2. page \in Seq(Row) /\ IdsOf(page) \subseteq Uuid \ {Body}
        BY <2>1, LoadsAssumption
    <2> QED
        BY <1>1, <2>2 DEF RenderInit, CauseInv
<1>2. ASSUME LibraryInit PROVE CauseInv
    <2>1. page = <<>> /\ rows = <<>> /\ phase = "library"
        BY <1>2 DEF LibraryInit
    <2> QED
        BY <2>1 DEF CauseInv, IdsOf
<1> QED
    BY <1>1, <1>2 DEF Init

LEMMA ExpandRoots ==
    ASSUME PassInv, ExpandRepeater, WellRooted(rows)
    PROVE  WellRooted(rows')
<1>1. PICK p \in Nat, c \in Coll :
          /\ Read(c) \in Seq(Int)
          /\ \/ UNCHANGED <<rows, supply>>
             \/ \E r \in ToSet(rows) :
                   /\ r.parent = p
                   /\ Used(rows, r.id, Read(c)) <= Len(supply)
                   /\ rows' = Expanded(rows, r.id, p, Read(c), supply)
    BY ExpandCases
<1>2. RowsOK(rows, supply)
    BY DEF PassInv
<1>3. CASE UNCHANGED <<rows, supply>>
    BY <1>3
<1>4. ASSUME NEW r \in ToSet(rows), r.parent = p, Used(rows, r.id, Read(c)) <= Len(supply),
             rows' = Expanded(rows, r.id, p, Read(c), supply)
      PROVE  WellRooted(rows')
    BY <1>1, <1>2, <1>4, ExpandedIsRooted
<1> QED
    BY <1>1, <1>3, <1>4

\* Where rows are well rooted a walk up from one of them ends.
LEMMA RootedEnds ==
    ASSUME NEW rs \in Seq(Row), WellRooted(rs), NEW id
    PROVE  WalkEnds(rs, id)
<1> SUFFICES ASSUME Ancestry(rs, id) \subseteq IdsOf(rs) PROVE FALSE
    BY DEF WalkEnds
<1>1. Reached(UpEdges(rs), id, Ancestry(rs, id))
    BY AncestryReached
<1>2. id \in Ancestry(rs, id) /\ Shut(UpEdges(rs), Ancestry(rs, id))
    BY <1>1 DEF Reached
<1> QED
    BY <1>2, NothingIsShut

\* When the queue runs dry, the rows the build has not met are closed upwards.
LEMMA BuildMeetsAll ==
    ASSUME PassInv, GroupsInv, queue = <<>>, WellRooted(rows), Body \in DOMAIN by_uuid
    PROVE  DOMAIN by_uuid = IdsOf(rows) \cup {Body}
<1> DEFINE S == IdsOf(rows) \ DOMAIN by_uuid
<1>1. rows \in Seq(Row) /\ Distinct(rows)
    BY DEF PassInv, RowsOK
<1>2. \A p \in DOMAIN by_uuid : groups[p] = <<>>
    BY DEF GroupsInv, ToSet
<1>3. ASSUME NEW r \in ToSet(rows), r.id \in S PROVE r.parent \in S
    <2>1. RowOf(r.id) = r
        BY <1>1, RowOfItsId
    <2>2. r.id \in ToSet(groups[r.parent])
        BY <1>3, <2>1 DEF GroupsInv
    <2>3. groups[r.parent] # <<>>
        BY <2>2 DEF ToSet
    <2>4. r.parent \notin DOMAIN by_uuid
        BY <1>2, <2>3
    <2> QED
        BY <2>4 DEF WellRooted
<1>4. S = {}
    <2>1. Shut(UpEdges(rows), S)
        BY <1>3 DEF Shut, UpEdges
    <2> QED
        BY <2>1, NothingIsShut
<1> QED
    BY <1>4 DEF GroupsInv

\* rt has the rows of rs, in their places, with their links.
SameRows(rs, rt) ==
    /\ DOMAIN rt = DOMAIN rs
    /\ \A i \in DOMAIN rs : /\ rt[i].id = rs[i].id /\ rt[i].parent = rs[i].parent
                            /\ rt[i].prev = rs[i].prev /\ rt[i].repeat = rs[i].repeat
                            /\ rt[i].of = rs[i].of /\ rt[i].tag = rs[i].tag

\* The passes that only fill texts and values leave the rows and their links.
\* The passes that only fill texts and values do not touch the links.
LEMMA FillKeepsRows ==
    ASSUME PassInv, BindRow \/ InterpolateCollectionRefs
    PROVE  SameRows(rows, rows')
<1> DEFINE Alike(x, r) == /\ x.id = r.id /\ x.parent = r.parent /\ x.prev = r.prev
                          /\ x.repeat = r.repeat /\ x.of = r.of /\ x.tag = r.tag
<1>1. \A i \in DOMAIN rows : rows[i] \in Row
    BY DEF PassInv, RowsOK
<1>2. \A r \in Row : \A x, y : /\ Alike([r EXCEPT !.text = x], r)
                               /\ Alike([r EXCEPT !.value = x], r)
                               /\ Alike([r EXCEPT !.text = x, !.value = y], r)
    BY DEF Row
<1>3. CASE BindRow
    <2>1. PICK k, v : \/ rows' = rows
                      \/ rows' = [rows EXCEPT ![k].value = v]
                      \/ rows' = [rows EXCEPT ![k].text = v]
        BY <1>3 DEF BindRow
    <2>2. DOMAIN rows' = DOMAIN rows
        BY <2>1
    <2>3. ASSUME NEW i \in DOMAIN rows PROVE Alike(rows'[i], rows[i])
        <3>1. \/ rows'[i] = rows[i]
              \/ rows'[i] = [rows[i] EXCEPT !.value = v]
              \/ rows'[i] = [rows[i] EXCEPT !.text = v]
            BY <2>1
        <3> DEFINE r == rows[i]
        <3>2. r \in Row
            BY <1>1
        <3>3. Alike([r EXCEPT !.text = v], r) /\ Alike([r EXCEPT !.value = v], r)
            <4> HIDE DEF r, Alike
            <4> QED
                BY <1>2, <3>2
        <3> QED
            BY <3>1, <3>3
    <2> QED
        BY <2>2, <2>3 DEF SameRows
<1>4. CASE InterpolateCollectionRefs
    <2>1. rows' = [i \in DOMAIN rows |->
                      [rows[i] EXCEPT !.text = InterpolateNamed(rows[i].text),
                                      !.value = InterpolateNamed(rows[i].value)]]
        BY <1>4 DEF InterpolateCollectionRefs
    <2>2. DOMAIN rows' = DOMAIN rows
        BY <2>1
    <2>3. ASSUME NEW i \in DOMAIN rows PROVE Alike(rows'[i], rows[i])
        <3> DEFINE r == rows[i]
        <3>1. PICK x, y : rows'[i] = [r EXCEPT !.text = x, !.value = y]
            BY <2>1
        <3>2. r \in Row
            BY <1>1
        <3>3. Alike([r EXCEPT !.text = x, !.value = y], r)
            <4> HIDE DEF r, Alike
            <4> QED
                BY <1>2, <3>2
        <3> QED
            BY <3>1, <3>3
    <2> QED
        BY <2>2, <2>3 DEF SameRows
<1> QED
    BY <1>3, <1>4

LEMMA FillKeepsLinks ==
    ASSUME PassInv, BindRow \/ InterpolateCollectionRefs, WellRooted(rows)
    PROVE  WellRooted(rows')
<1>1. SameRows(rows, rows')
    BY FillKeepsRows
<1> QED
    BY <1>1, SameLinks DEF SameRows

LEMMA CauseStep ==
    ASSUME PassInv, BuildInv, CauseInv, [Next]_vars
    PROVE  CauseInv'
<1>1. page' = page
    BY DEF Next, vars, passVars, LibraryCall, ExpandRepeater, RepeatersDone, BindRow,
           BindingsDone, ReadRef, InterpolateCollectionRefs, AutoWireForms, AutoWireHangs,
           GroupRows, BuildNode, NextParent, BuildDone, RenderStep, RenderDone, AddRecord,
           DropRecord, RecordChanges, Answered
<1> SUFFICES ASSUME WellRooted(page)
             PROVE  WellRooted(rows') /\ phase' \notin {"failed", "hung"}
    BY <1>1 DEF CauseInv
<1>2. WellRooted(rows) /\ phase \notin {"failed", "hung"} /\ rows \in Seq(Row)
    BY DEF CauseInv, PassInv, RowsOK
<1>3. CASE ExpandRepeater
    BY <1>2, <1>3, ExpandRoots DEF ExpandRepeater
<1>4. CASE BindRow \/ InterpolateCollectionRefs
    <2>1. phase' \notin {"failed", "hung"}
        BY <1>2, <1>4 DEF BindRow, InterpolateCollectionRefs
    <2> QED
        BY <1>2, <1>4, <2>1, FillKeepsLinks
<1>5. CASE AutoWireForms
    <2>1. RowsOK(rows, supply)
        BY DEF PassInv
    <2> QED
        BY <1>2, <1>5, <2>1, WireEffect, WiredIsRooted
<1>6. CASE AutoWireHangs
    <2>1. \A r \in ToSet(rows) : WalkEnds(rows, r.parent)
        BY <1>2, RootedEnds
    <2> QED
        BY <1>6, <2>1 DEF AutoWireHangs, WalkHangs
<1>7. CASE GroupRows
    <2>1. \A i \in DOMAIN rows : rows[i].parent \in IdsOf(rows) \cup {Body}
        BY <1>2 DEF WellRooted, ToSet
    <2> QED
        BY <1>2, <1>7, <2>1 DEF GroupRows, passVars
<1>8. CASE BuildDone
    <2>1. GroupsInv /\ queue = <<>>
        BY <1>8 DEF BuildDone, BuildInv, Built
    <2>2. Body \in DOMAIN by_uuid
        BY <1>8 DEF BuildDone, BuildInv, BelowInv, TreeInv, IndexIsExact, ArenaTypeOK
    <2>3. DOMAIN by_uuid = IdsOf(rows) \cup {Body}
        BY <1>2, <2>1, <2>2, BuildMeetsAll
    <2> QED
        BY <1>2, <1>8, <2>3 DEF BuildDone, passVars
<1>9. CASE \/ LibraryCall \/ RepeatersDone \/ BindingsDone \/ \E c \in Coll : ReadRef(c)
           \/ BuildNode \/ NextParent \/ RenderStep \/ RenderDone \/ Answered
           \/ \E c \in Coll : AddRecord(c) \/ \E i \in DOMAIN records[c] : DropRecord(c, i)
           \/ UNCHANGED vars
    <2>1. rows' = rows /\ phase' \in {phase, "bind", "refs", "done"}
        BY <1>9 DEF vars, passVars, LibraryCall, RepeatersDone, BindingsDone, ReadRef,
               BuildNode, NextParent, RenderStep, RenderDone, AddRecord, DropRecord,
               RecordChanges, Answered
    <2> QED
        BY <1>2, <2>1
<1> QED
    BY <1>3, <1>4, <1>5, <1>6, <1>7, <1>8, <1>9 DEF Next

\* A page render fails or hangs only over a row of the page that is its own
\* ancestor or below an element of another page, whatever the sibling links,
\* the repeaters, the forms and the records are.
THEOREM PageFailsOnlyOnBadParents == Spec => []FailsOnlyOnBadParents
<1>1. PassInv /\ BuildInv /\ CauseInv /\ [Next]_vars => CauseInv'
    BY CauseStep
<1>2. CauseInv => FailsOnlyOnBadParents
    BY WalksRoot DEF CauseInv, FailsOnlyOnBadParents
<1> QED
    BY <1>1, <1>2, CauseInit, BuildInvariant, PTL DEF Spec

-----------------------------------------------------------------------------
(* order_siblings: a chain that is whole is the order *)

\* What is to the left of the i-th member of w.
LeftId(w, i) == IF i = 1 THEN NoRow ELSE w[i - 1]

\* The rows of R under q are one chain: w lists their ids, each behind that of
\* its left sibling.
IsChain(R, q, w) ==
    /\ w \in Seq(Nat)
    /\ \A i, j \in DOMAIN w : w[i] = w[j] => i = j
    /\ \A i \in DOMAIN w : \E r \in R : r.parent = q /\ r.id = w[i]
    /\ \A r \in R : r.parent = q => \E i \in DOMAIN w : r.id = w[i] /\ r.prev = LeftId(w, i)

Walked(g, v) ==
    /\ v \in Seq(IdsOf(g))
    /\ \A i \in 1..Len(v) : \E k \in DOMAIN g : g[k].id = v[i] /\ g[k].prev = LeftId(v, i)

LEMMA ChainGoesOn ==
    ASSUME NEW g \in Seq(Row), NEW v, Walked(g, v), NEW c \in DOMAIN g,
           g[c].prev = IF v = <<>> THEN NoRow ELSE Last(v)
    PROVE  Walked(g, Append(v, g[c].id))
<1> DEFINE u == Append(v, g[c].id)
           n == Len(v)
<1>1. v \in Seq(IdsOf(g)) /\ g[c].id \in IdsOf(g)
    BY DEF Walked, IdsOf
<1>2. /\ u \in Seq(IdsOf(g)) /\ n \in Nat /\ Len(u) = n + 1 /\ u[n + 1] = g[c].id
      /\ \A i \in 1..n : u[i] = v[i]
    BY <1>1
<1>3. g[c].prev = LeftId(u, n + 1)
    <2>1. CASE v = <<>>
        <3>1. n = 0
            BY <2>1
        <3> QED
            BY <2>1, <3>1 DEF LeftId
    <2>2. CASE v # <<>>
        <3>1. n # 0
            BY <1>1, <2>2, EmptySeq
        <3>2. n + 1 # 1 /\ (n + 1) - 1 = n /\ n \in 1..n
            BY <1>2, <3>1
        <3>3. Last(v) = v[n]
            BY DEF Last
        <3> QED
            BY <1>2, <2>2, <3>2, <3>3 DEF LeftId
    <2> QED
        BY <2>1, <2>2
<1>4. ASSUME NEW i \in 1..n
      PROVE  LeftId(u, i) = LeftId(v, i)
    <2>1. i = 1 \/ i - 1 \in 1..n
        BY <1>2
    <2> QED
        BY <1>2, <2>1 DEF LeftId
<1> HIDE DEF u, n
<1>5. \A i \in 1..(n + 1) : i \in 1..n \/ i = n + 1
    BY <1>2
<1>6. \A i \in 1..n : \E k \in DOMAIN g : g[k].id = v[i] /\ g[k].prev = LeftId(v, i)
    BY DEF Walked, n
<1>7. ASSUME NEW i \in 1..(n + 1)
      PROVE  \E k \in DOMAIN g : g[k].id = u[i] /\ g[k].prev = LeftId(u, i)
    <2>1. CASE i = n + 1
        BY <1>2, <1>3, <2>1
    <2>2. CASE i \in 1..n
        BY <1>2, <1>4, <1>6, <2>2
    <2> QED
        BY <1>5, <2>1, <2>2
<1>8. Walked(g, u)
    BY <1>2, <1>7 DEF Walked
<1> QED
    BY <1>8 DEF u

LEMMA ChainIsLinked ==
    ASSUME NEW g \in Seq(Row)
    PROVE  Walked(g, Chain(g))
<1>0. Len(g) \in Nat /\ DOMAIN g = 1..Len(g)
    OBVIOUS
<1>1. PICK w \in [0..Len(g) -> Seq(IdsOf(g))] : ChainSteps(g, w) /\ Chain(g) = w[Len(g)]
    BY ChainIsWalked
<1> DEFINE T == {k \in 0..Len(g) : Walked(g, w[k])}
<1>2. 0 \in T
    <2>1. w[0] = <<>> /\ 0 \in 0..Len(g)
        BY <1>0, <1>1 DEF ChainSteps
    <2>2. Walked(g, <<>>)
        BY DEF Walked
    <2> QED
        BY <2>1, <2>2
<1>3. ASSUME NEW k \in 1..Len(g), k - 1 \in T
      PROVE  k \in T
    <2>1. k \in 0..Len(g) /\ Walked(g, w[k - 1])
        BY <1>0, <1>3
    <2> DEFINE v == w[k - 1]
               last == IF v = <<>> THEN NoRow ELSE Last(v)
               next == Following(g, last)
    <2>2. w[k] = IF next = {} THEN v ELSE Append(v, g[CHOOSE i \in next : TRUE].id)
        BY <1>1 DEF ChainSteps
    <2> HIDE DEF v, next
    <2>3. CASE next = {}
        BY <2>1, <2>2, <2>3 DEF v
    <2>4. CASE next # {}
        <3> DEFINE c == CHOOSE i \in next : TRUE
        <3>1. c \in next
            BY <2>4
        <3> HIDE DEF c
        <3>2. c \in DOMAIN g /\ g[c].prev = last
            BY <3>1 DEF next, Following
        <3>3. Walked(g, Append(v, g[c].id))
            BY <2>1, <3>2, ChainGoesOn DEF v
        <3> QED
            BY <2>1, <2>2, <2>4, <3>3 DEF c
    <2> QED
        BY <2>3, <2>4
<1> HIDE DEF T
<1>4. 0..Len(g) \subseteq T
    BY <1>0, <1>2, <1>3, StepByStep
<1>5. Len(g) \in T
    BY <1>0, <1>4
<1> QED
    BY <1>1, <1>5 DEF T

\* A walk never comes back: what it met first is behind nothing.
LEMMA ChainIsStraight ==
    ASSUME NEW g \in Seq(Row), Distinct(g), NoRow \notin IdsOf(g), NEW v, Walked(g, v)
    PROVE  \A i, j \in DOMAIN v : v[i] = v[j] => i = j
<1> DEFINE n == Len(v)
<1>1. /\ v \in Seq(IdsOf(g)) /\ DOMAIN v = 1..n /\ n \in Nat
      /\ \A i \in 1..n : \E k \in DOMAIN g : g[k].id = v[i] /\ g[k].prev = LeftId(v, i)
      /\ \A i \in 1..n : v[i] # NoRow
    <2>1. v \in Seq(IdsOf(g)) /\ \A i \in 1..n : v[i] \in IdsOf(g)
        BY DEF Walked
    <2> QED
        BY <2>1 DEF Walked
<1> HIDE DEF n
<1>2. ASSUME NEW i \in 1..n, NEW j \in 1..n, v[i] = v[j]
      PROVE  LeftId(v, i) = LeftId(v, j)
    BY <1>1, <1>2 DEF Distinct
<1> DEFINE T == {i \in 0..n : i = 0 \/ \A j \in 1..n : v[i] = v[j] => j <= i}
<1>3. 0 \in T
    BY <1>1
<1>4. ASSUME NEW i \in 1..n, i - 1 \in T
      PROVE  i \in T
    <2>1. i \in 0..n
        BY <1>1
    <2> SUFFICES ASSUME NEW j \in 1..n, v[i] = v[j], ~ (j <= i)
                 PROVE  FALSE
        BY <2>1
    <2>2. j # 1 /\ j - 1 \in 1..n /\ LeftId(v, j) = v[j - 1]
        BY <1>1 DEF LeftId
    <2>3. LeftId(v, i) = v[j - 1]
        BY <1>2, <2>2
    <2>4. i # 1
        BY <1>1, <2>2, <2>3 DEF LeftId
    <2>5. i - 1 \in 1..n /\ v[i - 1] = v[j - 1] /\ i - 1 # 0
        BY <1>1, <2>3, <2>4 DEF LeftId
    <2>6. j - 1 <= i - 1
        BY <1>4, <2>2, <2>5
    <2> QED
        BY <1>1, <2>6
<1> HIDE DEF T
<1>5. 0..n \subseteq T
    BY <1>1, <1>3, <1>4, StepByStep
<1>6. \A i, j \in 1..n : v[i] = v[j] => j <= i
    <2>1. 1..n \subseteq T
        BY <1>1, <1>5
    <2> QED
        BY <2>1 DEF T
<1> QED
    BY <1>1, <1>6

\* As many members as there are ids: all of them.
LEMMA ListedOnce ==
    ASSUME NEW S, IsFiniteSet(S), NEW v \in Seq(S),
           \A i, j \in DOMAIN v : v[i] = v[j] => i = j
    PROVE  /\ Len(v) = Cardinality(ToSet(v))
           /\ Len(v) = Cardinality(S) => ToSet(v) = S
<1> DEFINE n == Len(v)
<1>1. DOMAIN v = 1..n /\ n \in Nat /\ v \in [1..n -> ToSet(v)]
    BY DEF ToSet
<1>2. v \in Injection(1..n, ToSet(v)) /\ v \in Surjection(1..n, ToSet(v))
    BY <1>1 DEF Injection, Surjection, IsInjective, ToSet
<1> HIDE DEF n
<1>3. IsFiniteSet(1..n) /\ Cardinality(1..n) = n
    BY <1>1, FS_Interval
<1>4. Cardinality(ToSet(v)) = n
    BY <1>2, <1>3, FS_Surjection
<1>5. ToSet(v) \subseteq S
    BY SetOfSeq
<1> QED
    BY <1>4, <1>5, FS_Subset DEF n

\* A chain that is as long as the group is one chain of all of it.
LEMMA WholeChain ==
    ASSUME NEW g \in Seq(Row), Distinct(g), NoRow \notin IdsOf(g), Len(Chain(g)) = Len(g)
    PROVE  /\ Chain(g) \in Seq(Nat)
           /\ \A i, j \in DOMAIN Chain(g) : Chain(g)[i] = Chain(g)[j] => i = j
           /\ \A i \in DOMAIN Chain(g) : Chain(g)[i] \in IdsOf(g)
           /\ \A k \in DOMAIN g : \E i \in DOMAIN Chain(g) :
                  g[k].id = Chain(g)[i] /\ g[k].prev = LeftId(Chain(g), i)
<1> DEFINE v == Chain(g)
<1>1. Walked(g, v)
    BY ChainIsLinked
<1>2. Len(v) = Len(g)
    OBVIOUS
<1> HIDE DEF v
<1>3. \A i, j \in DOMAIN v : v[i] = v[j] => i = j
    BY <1>1, ChainIsStraight
<1>4. v \in Seq(IdsOf(g)) /\ DOMAIN v = 1..Len(v)
    BY <1>1 DEF Walked
<1>5. IsFiniteSet(IdsOf(g)) /\ Cardinality(IdsOf(g)) = Len(g)
    BY FieldsAreFew, IdsCount
<1>6. ToSet(v) = IdsOf(g)
    BY <1>2, <1>3, <1>4, <1>5, ListedOnce
<1>7. IdsOf(g) \subseteq Nat
    <2>1. \A k \in DOMAIN g : g[k] \in Row
        OBVIOUS
    <2> QED
        BY <2>1, RowFields DEF IdsOf
<1>8. v \in Seq(Nat)
    BY <1>4, <1>7
<1>9. ASSUME NEW k \in DOMAIN g
      PROVE  \E i \in DOMAIN v : g[k].id = v[i] /\ g[k].prev = LeftId(v, i)
    <2>1. g[k].id \in ToSet(v)
        BY <1>6 DEF IdsOf
    <2>2. PICK i \in DOMAIN v : g[k].id = v[i]
        BY <2>1 DEF ToSet
    <2>3. PICK m \in DOMAIN g : g[m].id = v[i] /\ g[m].prev = LeftId(v, i)
        BY <1>1, <1>4 DEF Walked
    <2>4. m = k
        BY <2>2, <2>3 DEF Distinct
    <2> QED
        BY <2>2, <2>3, <2>4
<1> QED
    BY <1>3, <1>6, <1>8, <1>9 DEF v, ToSet

\* Where the rows are linked in the order of v, the walk is v.
LEMMA ChainFollows ==
    ASSUME NEW g \in Seq(Row), Distinct(g), NoRow \notin IdsOf(g), NEW v \in Seq(Nat),
           \A i, j \in DOMAIN v : v[i] = v[j] => i = j,
           \A i \in DOMAIN v : v[i] \in IdsOf(g),
           \A k \in DOMAIN g : \E i \in DOMAIN v : g[k].id = v[i] /\ g[k].prev = LeftId(v, i)
    PROVE  Chain(g) = v /\ Len(g) = Len(v)
<1>0. Len(g) \in Nat /\ DOMAIN g = 1..Len(g) /\ DOMAIN v = 1..Len(v) /\ Len(v) \in Nat
    OBVIOUS
<1>1. Len(g) = Len(v)
    <2>1. IsFiniteSet(IdsOf(g)) /\ Cardinality(IdsOf(g)) = Len(g)
        BY FieldsAreFew, IdsCount
    <2>2. v \in Seq(IdsOf(g))
        <3> DEFINE S == IdsOf(g)
        <3>1. \A i \in 1..Len(v) : v[i] \in S
            BY <1>0
        <3> HIDE DEF S
        <3>2. v \in Seq(S)
            BY <1>0, <3>1
        <3> QED
            BY <3>2 DEF S
    <2>3. ToSet(v) = IdsOf(g)
        <3>1. \A x \in IdsOf(g) : \E k \in DOMAIN g : x = g[k].id
            BY DEF IdsOf
        <3>2. \A x \in IdsOf(g) : \E i \in DOMAIN v : x = v[i]
            BY <3>1
        <3> QED
            BY <3>2 DEF ToSet
    <2> QED
        BY <2>1, <2>2, <2>3, ListedOnce
<1>2. PICK w \in [0..Len(g) -> Seq(IdsOf(g))] : ChainSteps(g, w) /\ Chain(g) = w[Len(g)]
    BY ChainIsWalked
<1> DEFINE Upto(k) == Len(w[k]) = k /\ \A i \in 1..k : w[k][i] = v[i]
           T == {k \in 0..Len(g) : Upto(k)}
<1>3. 0 \in T
    <2>1. w[0] = <<>> /\ 0 \in 0..Len(g) /\ 1..0 = {}
        BY <1>0, <1>2 DEF ChainSteps
    <2> QED
        BY <2>1
<1>4. ASSUME NEW k \in 1..Len(g), k - 1 \in T
      PROVE  k \in T
    <2>0. k \in 0..Len(g) /\ k - 1 \in 0..Len(g) /\ k - 1 \in Nat /\ k \in DOMAIN v
        BY <1>0, <1>1
    <2>1. Len(w[k - 1]) = k - 1 /\ \A i \in 1..(k - 1) : w[k - 1][i] = v[i]
        BY <1>4
    <2>2. w[k - 1] \in Seq(IdsOf(g))
        BY <2>0
    <2> DEFINE u == w[k - 1]
               last == IF u = <<>> THEN NoRow ELSE Last(u)
               next == Following(g, last)
    <2>3. w[k] = IF next = {} THEN u ELSE Append(u, g[CHOOSE i \in next : TRUE].id)
        BY <1>2 DEF ChainSteps
    <2>4. last = LeftId(v, k)
        <3>1. CASE k = 1
            <4>1. Len(u) = 0
                BY <2>1, <3>1
            <4>2. u = <<>>
                BY <2>2, <4>1, EmptySeq
            <4> QED
                BY <3>1, <4>2 DEF LeftId
        <3>2. CASE k # 1
            <4>1. Len(u) # 0 /\ k - 1 \in 1..(k - 1)
                BY <2>0, <2>1, <3>2
            <4>2. u # <<>>
                BY <4>1
            <4>3. Last(u) = u[k - 1]
                BY <2>1 DEF Last
            <4> QED
                BY <2>1, <3>2, <4>1, <4>2, <4>3 DEF LeftId
        <3> QED
            BY <3>1, <3>2
    <2> HIDE DEF T, Upto, u, last, next
    <2>5. ASSUME NEW i \in DOMAIN g, g[i].prev = LeftId(v, k)
          PROVE  g[i].id = v[k]
        <3>1. PICK j \in DOMAIN v : g[i].id = v[j] /\ g[i].prev = LeftId(v, j)
            OBVIOUS
        <3>2. \A x \in DOMAIN v : v[x] # NoRow
            OBVIOUS
        <3>3. \A x \in DOMAIN v : x # 1 => x - 1 \in DOMAIN v
            BY <1>0
        <3>4. j = 1 <=> k = 1
            BY <2>0, <2>5, <3>1, <3>2, <3>3 DEF LeftId
        <3>5. CASE k = 1
            BY <3>1, <3>4, <3>5
        <3>6. CASE k # 1
            <4>1. v[j - 1] = v[k - 1] /\ j - 1 \in DOMAIN v /\ k - 1 \in DOMAIN v
                BY <2>0, <2>5, <3>1, <3>3, <3>4, <3>6 DEF LeftId
            <4>2. j - 1 = k - 1 /\ j \in Int /\ k \in Int
                BY <1>0, <2>0, <4>1
            <4> QED
                BY <3>1, <4>2
        <3> QED
            BY <3>5, <3>6
    <2>6. next # {}
        <3>0. v[k] \in IdsOf(g)
            BY <2>0
        <3>1. PICK i \in DOMAIN g : g[i].id = v[k]
            BY <3>0 DEF IdsOf
        <3>2. PICK j \in DOMAIN v : g[i].id = v[j] /\ g[i].prev = LeftId(v, j)
            OBVIOUS
        <3>3. j = k
            BY <2>0, <3>1, <3>2
        <3>4. g[i].prev = last
            BY <2>4, <3>2, <3>3
        <3>5. ASSUME NEW x \in 1..(i - 1) PROVE g[x].prev # last
            <4>1. x \in DOMAIN g /\ x # i
                BY <1>0
            <4>2. g[x].id # v[k]
                BY <3>1, <4>1 DEF Distinct
            <4> QED
                BY <2>4, <2>5, <4>1, <4>2
        <3>6. i \in next
            BY <3>4, <3>5 DEF next, Following
        <3> QED
            BY <3>6
    <2> DEFINE c == CHOOSE i \in next : TRUE
    <2>7. c \in next
        BY <2>6
    <2> HIDE DEF c
    <2>8. c \in DOMAIN g /\ g[c].prev = last
        BY <2>7 DEF next, Following
    <2>9. g[c].id = v[k]
        BY <2>4, <2>5, <2>8
    <2>10. w[k] = Append(u, v[k]) /\ v[k] \in IdsOf(g)
        BY <2>0, <2>3, <2>6, <2>9 DEF c
    <2>11. u \in Seq(IdsOf(g)) /\ Len(u) = k - 1 /\ \A i \in 1..(k - 1) : u[i] = v[i]
        BY <2>1, <2>2 DEF u
    <2>12. Len(w[k]) = k
        <3>1. Len(w[k]) = Len(u) + 1
            BY <2>10, <2>11
        <3> QED
            BY <2>0, <2>11, <3>1
    <2>13. ASSUME NEW i \in 1..k PROVE w[k][i] = v[i]
        <3>1. CASE i = k
            <4>1. w[k][Len(u) + 1] = v[k]
                BY <2>10, <2>11
            <4>2. Len(u) + 1 = k
                BY <2>0, <2>11
            <4> QED
                BY <3>1, <4>1, <4>2
        <3>2. CASE i # k
            <4>1. i \in 1..(k - 1)
                BY <2>0, <3>2
            <4>2. \A x \in 1..Len(u) : w[k][x] = u[x]
                BY <2>10, <2>11
            <4> QED
                BY <2>11, <4>1, <4>2
        <3> QED
            BY <3>1, <3>2
    <2> QED
        BY <2>0, <2>12, <2>13 DEF T, Upto
<1> HIDE DEF T, Upto
<1>5. 0..Len(g) \subseteq T
    BY <1>0, <1>3, <1>4, StepByStep
<1>6. Upto(Len(g))
    BY <1>0, <1>5 DEF T
<1>7. Chain(g) \in Seq(IdsOf(g))
    BY <1>0, <1>2
<1>8. Len(Chain(g)) = Len(v) /\ \A i \in 1..Len(v) : Chain(g)[i] = v[i]
    BY <1>1, <1>2, <1>6 DEF Upto
<1>9. Chain(g) = v
    BY <1>7, <1>8
<1> QED
    BY <1>1, <1>9

-----------------------------------------------------------------------------
(* The chains of the siblings on a page *)

\* Sets of rows that are chains, but under repeaters.
ChainsHold(rs) ==
    \A q \in IdsOf(rs) \cup {Body} :
        (\A r \in ToSet(rs) : r.id = q => r.repeat = NoColl) => \E w : IsChain(ToSet(rs), q, w)

LEMMA UnderOf ==
    ASSUME NEW rs \in Seq(Row), Distinct(rs), NEW q
    PROVE  /\ Under(rs, q) \in Seq(Row) /\ Distinct(Under(rs, q))
           /\ ToSet(Under(rs, q)) = {r \in ToSet(rs) : r.parent = q}
<1> DEFINE S == {r \in ToSet(rs) : r.parent = q}
<1>1. Under(rs, q) = Only(rs, S) /\ ToSet(rs) \cap S = S
    BY DEF Under
<1> HIDE DEF S
<1>2. Only(rs, S) \in Seq(Row) /\ Distinct(Only(rs, S))
    BY OnlyKeepsDistinct
<1>3. ToSet(Only(rs, S)) = ToSet(rs) \cap S
    BY OnlyMembers
<1> QED
    BY <1>1, <1>2, <1>3 DEF S

LEMMA WholeIsChain ==
    ASSUME NEW rs \in Seq(Row), Distinct(rs), Body \notin IdsOf(rs), NEW q,
           Len(Chain(Under(rs, q))) = Len(Under(rs, q))
    PROVE  IsChain(ToSet(rs), q, Chain(Under(rs, q)))
<1> DEFINE g == Under(rs, q)
           w == Chain(g)
<1>1. g \in Seq(Row) /\ Distinct(g) /\ ToSet(g) = {r \in ToSet(rs) : r.parent = q}
    BY UnderOf
<1> HIDE DEF g
<1>2. NoRow \notin IdsOf(g)
    BY <1>1, IdsAreOfRows DEF Body, NoRow
<1>3. Len(w) = Len(g)
    BY DEF g
<1>4. /\ w \in Seq(Nat)
      /\ \A i, j \in DOMAIN w : w[i] = w[j] => i = j
      /\ \A i \in DOMAIN w : w[i] \in IdsOf(g)
      /\ \A k \in DOMAIN g : \E i \in DOMAIN w : g[k].id = w[i] /\ g[k].prev = LeftId(w, i)
    BY <1>1, <1>2, <1>3, WholeChain
<1> HIDE DEF w
<1>5. \A i \in DOMAIN w : \E r \in ToSet(rs) : r.parent = q /\ r.id = w[i]
    BY <1>1, <1>4, IdsAreOfRows
<1>6. ASSUME NEW r \in ToSet(rs), r.parent = q
      PROVE  \E i \in DOMAIN w : r.id = w[i] /\ r.prev = LeftId(w, i)
    <2>1. r \in ToSet(g)
        BY <1>1, <1>6
    <2>2. PICK k \in DOMAIN g : g[k] = r
        BY <2>1 DEF ToSet
    <2> QED
        BY <1>4, <2>2
<1>7. IsChain(ToSet(rs), q, w)
    BY <1>4, <1>5, <1>6 DEF IsChain
<1> QED
    BY <1>7 DEF w, g

LEMMA ChainIsOrder ==
    ASSUME NEW rs \in Seq(Row), Distinct(rs), Body \notin IdsOf(rs), NEW q,
           NEW w, IsChain(ToSet(rs), q, w)
    PROVE  OrderSiblings(Under(rs, q)) = w
<1> DEFINE g == Under(rs, q)
<1>1. g \in Seq(Row) /\ Distinct(g) /\ ToSet(g) = {r \in ToSet(rs) : r.parent = q}
    BY UnderOf
<1> HIDE DEF g
<1>2. NoRow \notin IdsOf(g)
    BY <1>1, IdsAreOfRows DEF Body, NoRow
<1>3. w \in Seq(Nat) /\ \A i, j \in DOMAIN w : w[i] = w[j] => i = j
    BY DEF IsChain
<1>4. \A i \in DOMAIN w : w[i] \in IdsOf(g)
    <2>1. IdsOf(g) = {r.id : r \in ToSet(g)}
        BY IdsAreOfRows
    <2> QED
        BY <1>1, <2>1 DEF IsChain
<1>5. \A k \in DOMAIN g : \E i \in DOMAIN w : g[k].id = w[i] /\ g[k].prev = LeftId(w, i)
    <2>1. \A k \in DOMAIN g : g[k] \in ToSet(g)
        BY DEF ToSet
    <2> QED
        BY <1>1, <2>1 DEF IsChain
<1>6. Chain(g) = w
    BY <1>1, <1>2, <1>3, <1>4, <1>5, ChainFollows
<1>7. IdsOf(g) \ ToSet(w) = {}
    BY <1>5 DEF IdsOf, ToSet
<1>8. Ascending({}) = <<>>
    <2>1. IsFiniteSet({}) /\ {} \in SUBSET Nat
        BY FS_EmptySet
    <2>2. Ascending({}) \in Seq({})
        BY <2>1, AscendingLists
    <2>3. ASSUME NEW s \in Seq({}) PROVE s = <<>>
        <3>1. Len(s) = 0
            <4>1. \A i \in 1..Len(s) : s[i] \in {}
                OBVIOUS
            <4>2. Len(s) \in Nat
                OBVIOUS
            <4>3. Len(s) # 0 => 1 \in 1..Len(s)
                BY <4>2
            <4> QED
                BY <4>1, <4>3
        <3> QED
            BY <3>1, EmptySeq
    <2> QED
        BY <2>2, <2>3
<1>9. w \o <<>> = w
    BY <1>3
<1> QED
    BY <1>6, <1>7, <1>8, <1>9 DEF OrderSiblings, g

\* Every row is behind a row of its own parent.
SiblingsAgree(rs) ==
    \A x, r \in ToSet(rs) :
        /\ x.prev = r.id
        /\ x.parent \in IdsOf(rs) \cup {Body} /\ r.parent \in IdsOf(rs) \cup {Body}
        => x.parent = r.parent

\* No row refers to a uuid still to be drawn.
LinksAreOld(rs, ids) == \A r \in ToSet(rs) : r.parent \notin ToSet(ids) /\ r.prev \notin ToSet(ids)

LEMMA SoundPage ==
    ASSUME NEW rs \in Seq(Row), Distinct(rs), Body \notin IdsOf(rs), Sound(rs)
    PROVE  ChainsHold(rs) /\ SiblingsAgree(rs)
<1>1. \A q \in IdsOf(rs) \cup {Body} : \E w : IsChain(ToSet(rs), q, w)
    BY WholeIsChain DEF Sound
<1>2. ASSUME NEW x \in ToSet(rs), NEW r \in ToSet(rs), x.prev = r.id,
             x.parent \in IdsOf(rs) \cup {Body}
      PROVE  x.parent = r.parent
    <2>1. PICK w : IsChain(ToSet(rs), x.parent, w)
        BY <1>1, <1>2
    <2>2. PICK i \in DOMAIN w : x.id = w[i] /\ x.prev = LeftId(w, i)
        BY <2>1 DEF IsChain
    <2>3. r.id \in IdsOf(rs)
        BY IdsAreOfRows
    <2>4. i # 1
        BY <1>2, <2>2, <2>3 DEF LeftId, NoRow, Body
    <2>5. w \in Seq(Nat)
        BY <2>1 DEF IsChain
    <2>6. i - 1 \in DOMAIN w /\ r.id = w[i - 1]
        BY <1>2, <2>2, <2>4, <2>5 DEF LeftId
    <2>7. PICK y \in ToSet(rs) : y.parent = x.parent /\ y.id = r.id
        BY <2>1, <2>6 DEF IsChain
    <2>8. y = r
        BY <2>7 DEF Distinct, ToSet
    <2> QED
        BY <2>7, <2>8
<1> QED
    BY <1>1, <1>2 DEF ChainsHold, SiblingsAgree

-----------------------------------------------------------------------------
(* expand_repeaters keeps the chains, but those under a repeater *)

\* x is the row that clone c has of o, whose ids f gives.
IsCopy(x, o, c, f, gone, top, p, recs) ==
    /\ x.id = f[c][o.id] /\ x.repeat = o.repeat /\ x.of = recs[c + 1]
    /\ x.tag = o.tag /\ x.name = o.name
    /\ o.id = top => x.parent = p /\ x.prev = IF c = 0 THEN NoRow ELSE f[c - 1][top]
    /\ o.id # top => /\ x.parent = f[c][o.parent]
                     /\ x.prev = IF o.prev \in gone THEN f[c][o.prev] ELSE o.prev

\* New ids for the rows of gone, in each of n clones.
NewIds(f, gone, n, ids, left) ==
    /\ \A c \in 0..(n - 1), a \in gone : f[c][a] \in ToSet(ids) \ ToSet(left)
    /\ \A c, d \in 0..(n - 1), a, b \in gone : f[c][a] = f[d][b] => c = d /\ a = b

IsTree(gone, top, rs) ==
    /\ top \in gone /\ gone \subseteq IdsOf(rs)
    /\ \A r \in ToSet(rs) : r.parent \in gone => r.id \in gone
    /\ \A r \in ToSet(rs) : r.id \in gone /\ r.id # top => r.parent \in gone

\* rt is rs with n clones in the place of gone.
Replaced(rt, rs, gone, top, p, recs, f) ==
    /\ \A x \in ToSet(rt) :
          \/ x \in ToSet(rs) /\ x.id \notin gone
          \/ \E c \in 0..(Len(recs) - 1), o \in ToSet(rs) :
                o.id \in gone /\ IsCopy(x, o, c, f, gone, top, p, recs)
    /\ \A r \in ToSet(rs) : r.id \notin gone => r \in ToSet(rt)
    /\ \A c \in 0..(Len(recs) - 1), o \in ToSet(rs) :
          o.id \in gone => \E x \in ToSet(rt) : IsCopy(x, o, c, f, gone, top, p, recs)

Expansion(rt, left, rs, ids, gone, top, p, recs, f) ==
    /\ IsTree(gone, top, rs)
    /\ NewIds(f, gone, Len(recs), ids, left)
    /\ Replaced(rt, rs, gone, top, p, recs, f)
    /\ ToSet(left) \subseteq ToSet(ids)

LEMMA SubtreeIsTree ==
    ASSUME NEW rs \in Seq(Row), Distinct(rs), NEW top \in IdsOf(rs)
    PROVE  IsTree(Subtree(rs, top), top, rs)
<1> DEFINE gone == Subtree(rs, top)
<1>1. /\ top \in gone /\ gone \subseteq IdsOf(rs)
      /\ \A r \in ToSet(rs) : r.parent \in gone => r.id \in gone
      /\ \A x \in gone \ {top} : \E r \in ToSet(rs) : r.id = x /\ r.parent \in gone
    BY GoneParents
<1> HIDE DEF gone
<1>2. ASSUME NEW r \in ToSet(rs), r.id \in gone, r.id # top
      PROVE  r.parent \in gone
    <2>1. PICK y \in ToSet(rs) : y.id = r.id /\ y.parent \in gone
        BY <1>1, <1>2
    <2>2. y = r
        BY <2>1 DEF Distinct, ToSet
    <2> QED
        BY <2>1, <2>2
<1>3. IsTree(gone, top, rs)
    BY <1>1, <1>2 DEF IsTree
<1> QED
    BY <1>3 DEF gone

LEMMA CellsDiffer ==
    ASSUME NEW m \in Nat \ {0}, NEW n \in Nat, NEW c \in 0..(n - 1), NEW d \in 0..(n - 1),
           NEW j \in 1..m, NEW k \in 1..m, Cell(c, m, j) = Cell(d, m, k)
    PROVE  c = d /\ j = k
<1>1. (Cell(c, m, j) - 1) \div m = c /\ (Cell(c, m, j) - 1) % m = j - 1
    BY CellSpot
<1>2. (Cell(d, m, k) - 1) \div m = d /\ (Cell(d, m, k) - 1) % m = k - 1
    BY CellSpot
<1>3. c = d /\ j - 1 = k - 1
    BY <1>1, <1>2
<1> QED
    BY <1>3

\* The row of clone c that stands for the j-th of the template.
CopyOf(x, c, j, template, top, p, recs, ids) ==
    LET o == template[j]
        m == Len(template)
    IN  /\ x.id = ids[Cell(c, m, j)] /\ x.repeat = o.repeat /\ x.of = recs[c + 1]
        /\ x.tag = o.tag /\ x.name = o.name
        /\ o.id = top => x.parent = p
        /\ o.id = top /\ c = 0 => x.prev = NoRow
        /\ o.id = top /\ c # 0 =>
               \A k \in 1..m : template[k].id = top => x.prev = ids[Cell(c - 1, m, k)]
        /\ o.id # top => \A k \in 1..m : template[k].id = o.parent => x.parent = ids[Cell(c, m, k)]
        /\ o.id # top => \A k \in 1..m : template[k].id = o.prev => x.prev = ids[Cell(c, m, k)]
        /\ o.id # top /\ o.prev \notin IdsOf(template) => x.prev = o.prev

LEMMA ClonesCopy ==
    ASSUME NEW template \in Seq(Row), Distinct(template), template # <<>>,
           NEW top \in IdsOf(template), NEW p \in Nat,
           NEW recs \in Seq(Int), NEW ids \in Seq(Nat),
           Len(template) * Len(recs) <= Len(ids),
           NEW cl, cl = Clones(template, top, p, recs, ids)
    PROVE  /\ DOMAIN cl = 1..(Len(template) * Len(recs))
           /\ \A c \in 0..(Len(recs) - 1), j \in 1..Len(template) :
                 /\ Cell(c, Len(template), j) \in DOMAIN cl
                 /\ CopyOf(cl[Cell(c, Len(template), j)], c, j, template, top, p, recs, ids)
           /\ \A i \in DOMAIN cl : \E c \in 0..(Len(recs) - 1), j \in 1..Len(template) :
                 i = Cell(c, Len(template), j)
<1> DEFINE m == Len(template)
           n == Len(recs)
<1>1. /\ cl \in Seq(Row) /\ Len(cl) = m * n
      /\ \A i \in 1..(m * n) : /\ CloneRow(cl[i], i, template, top, p, recs, ids)
                               /\ ClonePrev(cl[i], i, template, top, ids)
    BY ClonesEffect
<1>2. m \in Nat \ {0} /\ n \in Nat
    BY EmptySeq
<1>3. DOMAIN cl = 1..(m * n)
    BY <1>1
<1>4. CloneLinks(cl, template, top, p, ids, m, n)
    BY ClonesLink
<1>5. \A i \in 1..(m * n) : Origin(template, i) = template[((i - 1) % m) + 1]
                            /\ Serial(template, i) = (i - 1) \div m
    BY DEF Origin, Serial
<1>6. ASSUME NEW c \in 0..(n - 1), NEW j \in 1..m
      PROVE  /\ Cell(c, m, j) \in 1..(m * n)
             /\ CopyOf(cl[Cell(c, m, j)], c, j, template, top, p, recs, ids)
    <2> DEFINE i == Cell(c, m, j)
    <2> HIDE DEF m, n
    <2>1. i \in 1..(m * n) /\ (i - 1) \div m = c /\ (i - 1) % m = j - 1
        BY <1>2, CellSpot
    <2>2. j - 1 + 1 = j
        BY <1>2
    <2>3. Origin(template, i) = template[j] /\ Serial(template, i) = c
        BY <1>5, <2>1, <2>2
    <2>4. CloneRow(cl[i], i, template, top, p, recs, ids) /\ ClonePrev(cl[i], i, template, top, ids)
        BY <1>1, <2>1
    <2>5. m = Len(template)
        BY DEF m
    <2>6. cl[i].id = ids[i]
        BY <2>4 DEF CloneRow
    <2> HIDE DEF i
    <2>7. /\ cl[i].repeat = template[j].repeat /\ cl[i].of = recs[c + 1]
          /\ cl[i].tag = template[j].tag /\ cl[i].name = template[j].name
          /\ template[j].id = top => cl[i].parent = p
          /\ template[j].id # top => \A k \in 1..m : template[k].id = template[j].parent =>
                 cl[i].parent = ids[Cell(c, m, k)]
        BY <2>3, <2>4, <2>5 DEF CloneRow, Cell
    <2>8. /\ template[j].id # top =>
                /\ \A k \in 1..m : template[k].id = template[j].prev => cl[i].prev = ids[Cell(c, m, k)]
                /\ template[j].prev \notin IdsOf(template) => cl[i].prev = template[j].prev
          /\ template[j].id = top /\ c = 0 => cl[i].prev = NoRow
          /\ template[j].id = top /\ c # 0 =>
                \A k \in 1..m : template[k].id = top => cl[i].prev = ids[Cell(c - 1, m, k)]
        BY <2>3, <2>4, <2>5 DEF ClonePrev, Cell
    <2> QED
        BY <2>1, <2>5, <2>6, <2>7, <2>8 DEF CopyOf, i
<1>7. \A i \in 1..(m * n) : \E c \in 0..(n - 1), j \in 1..m : i = Cell(c, m, j)
    BY <1>4 DEF CloneLinks
<1> QED
    BY <1>3, <1>6, <1>7 DEF m, n

\* The clones are the clones of the template's rows.
LEMMA CopiesAre ==
    ASSUME NEW rs, NEW ids, RowsOK(rs, ids), NEW top \in IdsOf(rs), NEW p \in Nat,
           NEW recs \in Seq(Int), NEW gone, IsTree(gone, top, rs),
           NEW template, template = Template(rs, gone),
           Len(template) * Len(recs) <= Len(ids),
           NEW u, u = Len(template) * Len(recs),
           NEW left, left = SubSeq(ids, u + 1, Len(ids)),
           NEW cl, cl = Clones(template, top, p, recs, ids)
    PROVE  \E f : /\ NewIds(f, gone, Len(recs), ids, left)
                  /\ \A x \in ToSet(cl) : \E c \in 0..(Len(recs) - 1), o \in ToSet(rs) :
                         o.id \in gone /\ IsCopy(x, o, c, f, gone, top, p, recs)
                  /\ \A c \in 0..(Len(recs) - 1), o \in ToSet(rs) :
                         o.id \in gone => \E x \in ToSet(cl) : IsCopy(x, o, c, f, gone, top, p, recs)
<1> DEFINE m == Len(template)
           n == Len(recs)
           at == [a \in gone |-> CHOOSE j \in 1..m : template[j].id = a]
           f == [c \in 0..(n - 1) |-> [a \in gone |-> ids[Cell(c, m, at[a])]]]
<1>0. /\ rs \in Seq(Row) /\ Distinct(rs) /\ ids \in Seq(Nat) /\ IsInjective(ids)
    BY DEF RowsOK
<1>1. /\ top \in gone /\ gone \subseteq IdsOf(rs)
      /\ \A r \in ToSet(rs) : r.id \in gone /\ r.id # top => r.parent \in gone
    BY DEF IsTree
<1>2. /\ template \in Seq(Row) /\ Distinct(template)
      /\ IdsOf(template) = gone
      /\ ToSet(template) = {r \in ToSet(rs) : r.id \in gone}
    <2>1. IdsOf(rs) \cap gone = gone
        BY <1>1
    <2> QED
        BY <1>0, <2>1, SplitRows
<1>3. template # <<>> /\ top \in IdsOf(template)
    BY <1>1, <1>2 DEF IdsOf
<1>4. m \in Nat \ {0} /\ n \in Nat /\ DOMAIN template = 1..m
    BY <1>2, <1>3, EmptySeq
<1>5. /\ DOMAIN cl = 1..(m * n)
      /\ \A c \in 0..(n - 1), j \in 1..m :
            Cell(c, m, j) \in DOMAIN cl /\ CopyOf(cl[Cell(c, m, j)], c, j, template, top, p, recs, ids)
      /\ \A i \in DOMAIN cl : \E c \in 0..(n - 1), j \in 1..m : i = Cell(c, m, j)
    BY <1>0, <1>2, <1>3, ClonesCopy
<1>6. \A a \in gone : at[a] \in 1..m /\ template[at[a]].id = a
    <2> SUFFICES ASSUME NEW a \in gone PROVE at[a] \in 1..m /\ template[at[a]].id = a
        OBVIOUS
    <2>1. \E j \in 1..m : template[j].id = a
        BY <1>2, <1>4 DEF IdsOf
    <2> HIDE DEF m
    <2> QED
        BY <2>1
<1>7. \A c \in 0..(n - 1), a \in gone : f[c][a] = ids[Cell(c, m, at[a])]
    OBVIOUS
<1>8. \A j \in 1..m : template[j].id \in gone /\ at[template[j].id] = j
    BY <1>2, <1>4, <1>6 DEF Distinct, IdsOf
<1>9. u = m * n
    OBVIOUS
<1>10. u \in Nat /\ u <= Len(ids)
    <2>1. Len(template) * Len(recs) <= Len(ids)
        OBVIOUS
    <2>2. u <= Len(ids)
        BY <2>1
    <2> HIDE DEF m, n
    <2> QED
        BY <1>4, <1>9, <2>2, SMT
<1> HIDE DEF m, n, at, f
<1>11. \A i \in 1..u : i \in DOMAIN ids /\ ids[i] \in ToSet(ids) \ ToSet(left)
    <2>1. \A i \in 1..u : ids[i] \in ToSet(ids) \ ToSet(left)
        BY <1>0, <1>9, <1>10, Drawn
    <2>2. DOMAIN ids = 1..Len(ids) /\ Len(ids) \in Nat
        BY <1>0
    <2>3. \A i \in 1..u : i \in DOMAIN ids
        BY <1>10, <2>2
    <2> QED
        BY <2>1, <2>3
<1>12. NewIds(f, gone, n, ids, left)
    <2>1. ASSUME NEW c \in 0..(n - 1), NEW a \in gone
          PROVE  f[c][a] \in ToSet(ids) \ ToSet(left)
        <3>1. at[a] \in 1..m
            BY <1>6
        <3>2. Cell(c, m, at[a]) \in 1..u
            BY <1>5, <1>9, <3>1
        <3> QED
            BY <1>7, <1>11, <3>2
    <2>2. ASSUME NEW c \in 0..(n - 1), NEW d \in 0..(n - 1), NEW a \in gone, NEW b \in gone,
                 f[c][a] = f[d][b]
          PROVE  c = d /\ a = b
        <3>1. ids[Cell(c, m, at[a])] = ids[Cell(d, m, at[b])]
            BY <1>7, <2>2
        <3>2. at[a] \in 1..m /\ at[b] \in 1..m
            BY <1>6
        <3>3. Cell(c, m, at[a]) \in DOMAIN ids /\ Cell(d, m, at[b]) \in DOMAIN ids
            BY <1>5, <1>9, <1>11, <3>2
        <3>4. Cell(c, m, at[a]) = Cell(d, m, at[b])
            BY <1>0, <3>1, <3>3 DEF IsInjective
        <3>5. c = d /\ at[a] = at[b]
            BY <1>4, <3>2, <3>4, CellsDiffer
        <3> QED
            BY <1>6, <3>5
    <2> QED
        BY <2>1, <2>2 DEF NewIds
<1>13. ASSUME NEW c \in 0..(n - 1), NEW j \in 1..m
       PROVE  IsCopy(cl[Cell(c, m, j)], template[j], c, f, gone, top, p, recs)
    <2> DEFINE x == cl[Cell(c, m, j)]
               o == template[j]
    <2>1. CopyOf(x, c, j, template, top, p, recs, ids)
        BY <1>5
    <2>2. o \in ToSet(rs) /\ o.id \in gone /\ at[o.id] = j
        BY <1>2, <1>4, <1>8 DEF ToSet
    <2>3. m = Len(template)
        BY DEF m
    <2> HIDE DEF x
    <2>4. x.id = f[c][o.id]
        BY <1>7, <2>1, <2>2, <2>3 DEF CopyOf
    <2>5. /\ x.repeat = o.repeat /\ x.of = recs[c + 1] /\ x.tag = o.tag /\ x.name = o.name
          /\ o.id = top => x.parent = p
        BY <2>1 DEF CopyOf
    <2>6. CASE o.id = top
        <3>1. CASE c = 0
            <4>1. x.prev = NoRow
                BY <2>1, <2>6, <3>1 DEF CopyOf
            <4> QED
                BY <2>4, <2>5, <2>6, <3>1, <4>1 DEF IsCopy, x
        <3>2. CASE c # 0
            <4>1. c - 1 \in 0..(n - 1)
                BY <1>4, <3>2
            <4>2. at[top] \in 1..m /\ template[at[top]].id = top
                BY <1>1, <1>6
            <4>3. x.prev = ids[Cell(c - 1, m, at[top])]
                BY <2>1, <2>3, <2>6, <3>2, <4>2 DEF CopyOf
            <4>4. x.prev = f[c - 1][top]
                BY <1>1, <1>7, <4>1, <4>3
            <4> QED
                BY <2>4, <2>5, <2>6, <3>2, <4>4 DEF IsCopy, x
        <3> QED
            BY <3>1, <3>2
    <2>7. CASE o.id # top
        <3>1. o.parent \in gone
            BY <1>1, <2>2, <2>7
        <3>2. at[o.parent] \in 1..m /\ template[at[o.parent]].id = o.parent
            BY <1>6, <3>1
        <3>3. x.parent = ids[Cell(c, m, at[o.parent])]
            BY <2>1, <2>3, <2>7, <3>2 DEF CopyOf
        <3>4. x.parent = f[c][o.parent]
            BY <1>7, <3>1, <3>3
        <3>5. CASE o.prev \in gone
            <4>1. at[o.prev] \in 1..m /\ template[at[o.prev]].id = o.prev
                BY <1>6, <3>5
            <4>2. x.prev = ids[Cell(c, m, at[o.prev])]
                BY <2>1, <2>3, <2>7, <4>1 DEF CopyOf
            <4>3. x.prev = f[c][o.prev]
                BY <1>7, <3>5, <4>2
            <4> QED
                BY <2>4, <2>5, <2>7, <3>4, <3>5, <4>3 DEF IsCopy, x
        <3>6. CASE o.prev \notin gone
            <4>1. x.prev = o.prev
                BY <1>2, <2>1, <2>7, <3>6 DEF CopyOf
            <4> QED
                BY <2>4, <2>5, <2>7, <3>4, <3>6, <4>1 DEF IsCopy, x
        <3> QED
            BY <3>5, <3>6
    <2> QED
        BY <2>6, <2>7
<1>14. ASSUME NEW x \in ToSet(cl)
       PROVE  \E c \in 0..(n - 1), o \in ToSet(rs) :
                  o.id \in gone /\ IsCopy(x, o, c, f, gone, top, p, recs)
    <2>1. PICK i \in DOMAIN cl : x = cl[i]
        BY DEF ToSet
    <2>2. PICK c \in 0..(n - 1), j \in 1..m : i = Cell(c, m, j)
        BY <1>5
    <2>3. template[j] \in ToSet(rs) /\ template[j].id \in gone
        BY <1>2, <1>4 DEF ToSet
    <2> QED
        BY <1>13, <2>1, <2>2, <2>3
<1>15. ASSUME NEW c \in 0..(n - 1), NEW o \in ToSet(rs), o.id \in gone
       PROVE  \E x \in ToSet(cl) : IsCopy(x, o, c, f, gone, top, p, recs)
    <2>1. o \in ToSet(template)
        BY <1>2, <1>15
    <2>2. PICK j \in 1..m : o = template[j]
        BY <1>4, <2>1 DEF ToSet
    <2>3. cl[Cell(c, m, j)] \in ToSet(cl)
        BY <1>5 DEF ToSet
    <2> QED
        BY <1>13, <2>2, <2>3
<1>16. /\ NewIds(f, gone, n, ids, left)
       /\ \A x \in ToSet(cl) : \E c \in 0..(n - 1), o \in ToSet(rs) :
                         o.id \in gone /\ IsCopy(x, o, c, f, gone, top, p, recs)
       /\ \A c \in 0..(n - 1), o \in ToSet(rs) :
                         o.id \in gone => \E x \in ToSet(cl) : IsCopy(x, o, c, f, gone, top, p, recs)
    BY <1>12, <1>14, <1>15
<1> QED
    BY <1>16 DEF n

LEMMA ExpandedIsExpansion ==
    ASSUME NEW rs, NEW ids, RowsOK(rs, ids), NEW top \in IdsOf(rs), NEW p \in Nat,
           NEW recs \in Seq(Int), NEW u, u = Used(rs, top, recs), u <= Len(ids),
           NEW rt, rt = Expanded(rs, top, p, recs, ids),
           NEW left, left = SubSeq(ids, u + 1, Len(ids))
    PROVE  \E f : Expansion(rt, left, rs, ids, Subtree(rs, top), top, p, recs, f)
<1> DEFINE gone == Subtree(rs, top)
           template == Template(rs, gone)
           cl == Clones(template, top, p, recs, ids)
<1>0. rs \in Seq(Row) /\ Distinct(rs) /\ ids \in Seq(Nat) /\ IsInjective(ids)
    BY DEF RowsOK
<1>1. IsTree(gone, top, rs)
    BY <1>0, SubtreeIsTree
<1>2. u = Len(template) * Len(recs)
    BY DEF Used
<1>3. ToSet(rt) = ToSet(Kept(rs, gone)) \cup ToSet(cl)
    BY ExpandedIsOK
<1>4. ToSet(Kept(rs, gone)) = {r \in ToSet(rs) : r.id \notin gone}
    BY <1>0, SplitRows
<1> HIDE DEF gone
<1>5. PICK f : /\ NewIds(f, gone, Len(recs), ids, left)
               /\ \A x \in ToSet(cl) : \E c \in 0..(Len(recs) - 1), o \in ToSet(rs) :
                      o.id \in gone /\ IsCopy(x, o, c, f, gone, top, p, recs)
               /\ \A c \in 0..(Len(recs) - 1), o \in ToSet(rs) :
                      o.id \in gone => \E x \in ToSet(cl) : IsCopy(x, o, c, f, gone, top, p, recs)
    <2>1. Len(template) * Len(recs) <= Len(ids)
        BY <1>2
    <2> QED
        BY <1>1, <1>2, <2>1, CopiesAre
<1> HIDE DEF template, cl
<1>6. Replaced(rt, rs, gone, top, p, recs, f)
    BY <1>3, <1>4, <1>5 DEF Replaced
<1>7. ToSet(left) \subseteq ToSet(ids)
    <2>1. u \in Nat
        <3>1. template \in Seq(Row)
            BY <1>0, SplitRows DEF template
        <3>2. Len(template) \in Nat /\ Len(recs) \in Nat
            BY <3>1
        <3> QED
            BY <1>2, <3>2, SMT
    <2> QED
        BY <1>0, <2>1, Drawn
<1>8. Expansion(rt, left, rs, ids, gone, top, p, recs, f)
    BY <1>1, <1>5, <1>6, <1>7 DEF Expansion
<1> QED
    BY <1>8 DEF gone

\* What the clones of a repeater with the id p do to the links of the rows.
ExpandsUnder(rt, left, rs, ids, gone, top, p, recs, f) ==
    /\ RowsOK(rs, ids) /\ RowsOK(rt, left)
    /\ Expansion(rt, left, rs, ids, gone, top, p, recs, f)
    /\ LinksAreOld(rs, ids)
    /\ p # Body /\ p \notin ToSet(ids)
    /\ \A r \in ToSet(rs) : r.id = p => r.repeat # NoColl
    /\ \A r \in ToSet(rs) : r.id = top => r.parent = p

\* The facts of it that the lemmas below use.
LEMMA ExpansionFacts ==
    ASSUME NEW rt, NEW left, NEW rs, NEW ids, NEW gone, NEW top, NEW p, NEW recs, NEW f,
           ExpandsUnder(rt, left, rs, ids, gone, top, p, recs, f)
    PROVE  /\ \A a, b \in ToSet(rs) : a.id = b.id => a = b
           /\ \A a, b \in ToSet(rt) : a.id = b.id => a = b
           /\ IdsOf(rs) = {r.id : r \in ToSet(rs)} /\ IdsOf(rt) = {r.id : r \in ToSet(rt)}
           /\ IdsOf(rs) \cap ToSet(ids) = {}
           /\ Body \notin IdsOf(rs) /\ Body \notin IdsOf(rt) /\ Body \notin ToSet(ids)
           /\ \A r \in ToSet(rs) : r.parent \notin ToSet(ids) /\ r.prev \notin ToSet(ids)
           /\ IsTree(gone, top, rs) /\ NewIds(f, gone, Len(recs), ids, left)
           /\ Replaced(rt, rs, gone, top, p, recs, f)
           /\ ToSet(left) \subseteq ToSet(ids)
<1>1. RowsOK(rs, ids) /\ RowsOK(rt, left)
    BY DEF ExpandsUnder
<1>2. /\ \A a, b \in ToSet(rs) : a.id = b.id => a = b
      /\ \A a, b \in ToSet(rt) : a.id = b.id => a = b
    BY <1>1 DEF RowsOK, Distinct, ToSet
<1>3. IdsOf(rs) = {r.id : r \in ToSet(rs)} /\ IdsOf(rt) = {r.id : r \in ToSet(rt)}
    BY IdsAreOfRows
<1>4. /\ IdsOf(rs) \cap ToSet(ids) = {}
      /\ Body \notin IdsOf(rs) /\ Body \notin IdsOf(rt) /\ Body \notin ToSet(ids)
    BY <1>1 DEF RowsOK
<1>5. \A r \in ToSet(rs) : r.parent \notin ToSet(ids) /\ r.prev \notin ToSet(ids)
    BY DEF ExpandsUnder, LinksAreOld
<1> QED
    BY <1>2, <1>3, <1>4, <1>5 DEF ExpandsUnder, Expansion

LEMMA IdsTell ==
    ASSUME NEW f, NEW gone, NEW n, NEW ids, NEW left, NewIds(f, gone, n, ids, left),
           NEW c \in 0..(n - 1), NEW d \in 0..(n - 1), NEW a \in gone, NEW b \in gone,
           f[c][a] = f[d][b]
    PROVE  c = d /\ a = b
BY DEF NewIds

LEMMA ExpansionLinks ==
    ASSUME NEW rt, NEW left, NEW rs, NEW ids, NEW gone, NEW top, NEW p, NEW recs, NEW f,
           ExpandsUnder(rt, left, rs, ids, gone, top, p, recs, f)
    PROVE  LinksAreOld(rt, left)
<1>0. /\ \A r \in ToSet(rs) : r.parent \notin ToSet(ids) /\ r.prev \notin ToSet(ids)
      /\ IsTree(gone, top, rs) /\ NewIds(f, gone, Len(recs), ids, left)
      /\ Replaced(rt, rs, gone, top, p, recs, f)
      /\ ToSet(left) \subseteq ToSet(ids) /\ Body \notin ToSet(ids)
    BY ExpansionFacts
<1>1. p \notin ToSet(left) /\ NoRow \notin ToSet(left)
    BY <1>0 DEF ExpandsUnder, NoRow, Body
<1> SUFFICES ASSUME NEW x \in ToSet(rt)
             PROVE  x.parent \notin ToSet(left) /\ x.prev \notin ToSet(left)
    BY DEF LinksAreOld
<1>2. CASE x \in ToSet(rs)
    BY <1>0, <1>2
<1>3. ASSUME NEW c \in 0..(Len(recs) - 1), NEW o \in ToSet(rs), o.id \in gone,
             IsCopy(x, o, c, f, gone, top, p, recs)
      PROVE  x.parent \notin ToSet(left) /\ x.prev \notin ToSet(left)
    <2>1. \A d \in 0..(Len(recs) - 1), a \in gone : f[d][a] \notin ToSet(left)
        BY <1>0 DEF NewIds
    <2>2. CASE o.id = top
        <3>1. x.parent = p /\ x.prev = IF c = 0 THEN NoRow ELSE f[c - 1][top]
            BY <1>3, <2>2 DEF IsCopy
        <3>2. c # 0 => c - 1 \in 0..(Len(recs) - 1)
            OBVIOUS
        <3>3. top \in gone
            BY <1>3, <2>2
        <3> QED
            BY <1>1, <2>1, <3>1, <3>2, <3>3
    <2>3. CASE o.id # top
        <3>1. x.parent = f[c][o.parent] /\ x.prev = IF o.prev \in gone THEN f[c][o.prev] ELSE o.prev
            BY <1>3, <2>3 DEF IsCopy
        <3>2. o.parent \in gone
            BY <1>0, <1>3, <2>3 DEF IsTree
        <3>3. o.prev \notin ToSet(left)
            BY <1>0
        <3> QED
            BY <2>1, <3>1, <3>2, <3>3
    <2> QED
        BY <2>2, <2>3
<1> QED
    BY <1>0, <1>2, <1>3 DEF Replaced

\* A kept row has the children it had, unless it is the repeater.
LEMMA KeptChain ==
    ASSUME NEW rt, NEW left, NEW rs, NEW ids, NEW gone, NEW top, NEW p, NEW recs, NEW f,
           ExpandsUnder(rt, left, rs, ids, gone, top, p, recs, f),
           NEW q, q \notin ToSet(ids), q \notin gone, q # p, NEW w, IsChain(ToSet(rs), q, w)
    PROVE  IsChain(ToSet(rt), q, w)
<1>0. /\ IsTree(gone, top, rs) /\ NewIds(f, gone, Len(recs), ids, left)
      /\ Replaced(rt, rs, gone, top, p, recs, f)
    BY ExpansionFacts
<1>1. /\ w \in Seq(Nat)
      /\ \A i, j \in DOMAIN w : w[i] = w[j] => i = j
      /\ \A i \in DOMAIN w : \E r \in ToSet(rs) : r.parent = q /\ r.id = w[i]
      /\ \A r \in ToSet(rs) : r.parent = q => \E i \in DOMAIN w : r.id = w[i] /\ r.prev = LeftId(w, i)
    BY DEF IsChain
<1>2. ASSUME NEW r \in ToSet(rs), r.parent = q
      PROVE  r.id \notin gone
    <2>1. r.id = top => r.parent = p
        BY DEF ExpandsUnder
    <2> QED
        BY <1>0, <1>2, <2>1 DEF IsTree
<1>3. ASSUME NEW i \in DOMAIN w
      PROVE  \E r \in ToSet(rt) : r.parent = q /\ r.id = w[i]
    <2>1. PICK r \in ToSet(rs) : r.parent = q /\ r.id = w[i]
        BY <1>1
    <2>2. r \in ToSet(rt)
        BY <1>0, <1>2, <2>1 DEF Replaced
    <2> QED
        BY <2>1, <2>2
<1>4. ASSUME NEW x \in ToSet(rt), x.parent = q
      PROVE  x \in ToSet(rs)
    <2> SUFFICES ASSUME NEW c \in 0..(Len(recs) - 1), NEW o \in ToSet(rs), o.id \in gone,
                        IsCopy(x, o, c, f, gone, top, p, recs)
                 PROVE  FALSE
        BY <1>0 DEF Replaced
    <2>1. CASE o.id = top
        BY <1>4, <2>1 DEF IsCopy
    <2>2. CASE o.id # top
        <3>1. x.parent = f[c][o.parent]
            BY <2>2 DEF IsCopy
        <3>2. o.parent \in gone
            BY <1>0, <2>2 DEF IsTree
        <3>3. f[c][o.parent] \in ToSet(ids)
            BY <1>0, <3>2 DEF NewIds
        <3> QED
            BY <1>4, <3>1, <3>3
    <2> QED
        BY <2>1, <2>2
<1> QED
    BY <1>1, <1>3, <1>4 DEF IsChain

\* And a clone has clones of the children its original had.
LEMMA CloneChain ==
    ASSUME NEW rt, NEW left, NEW rs, NEW ids, NEW gone, NEW top, NEW p, NEW recs, NEW f,
           ExpandsUnder(rt, left, rs, ids, gone, top, p, recs, f),
           NEW c \in 0..(Len(recs) - 1), NEW q \in gone, q # p,
           NEW w, IsChain(ToSet(rs), q, w)
    PROVE  IsChain(ToSet(rt), f[c][q], [i \in DOMAIN w |-> f[c][w[i]]])
<1>0. /\ IsTree(gone, top, rs) /\ NewIds(f, gone, Len(recs), ids, left)
      /\ Replaced(rt, rs, gone, top, p, recs, f)
      /\ \A r \in ToSet(rs) : r.parent \notin ToSet(ids) /\ r.prev \notin ToSet(ids)
      /\ Body \notin IdsOf(rs)
      /\ \A r \in ToSet(rs) : r.id = top => r.parent = p
    BY ExpansionFacts DEF ExpandsUnder
<1>1. /\ w \in Seq(Nat)
      /\ \A i, j \in DOMAIN w : w[i] = w[j] => i = j
      /\ \A i \in DOMAIN w : \E r \in ToSet(rs) : r.parent = q /\ r.id = w[i]
      /\ \A r \in ToSet(rs) : r.parent = q => \E i \in DOMAIN w : r.id = w[i] /\ r.prev = LeftId(w, i)
    BY DEF IsChain
<1> DEFINE v == [i \in DOMAIN w |-> f[c][w[i]]]
<1>2. \A i \in DOMAIN w : w[i] \in gone /\ w[i] # top
    <2>1. \A r \in ToSet(rs) : r.parent = q => r.id \in gone /\ r.id # top
        BY <1>0 DEF IsTree
    <2> QED
        BY <1>1, <2>1
<1>3. \A d \in 0..(Len(recs) - 1), a \in gone : f[d][a] \in ToSet(ids)
    BY <1>0 DEF NewIds
<1>5. DOMAIN v = DOMAIN w /\ \A i \in DOMAIN w : v[i] = f[c][w[i]]
    OBVIOUS
<1>6. v \in Seq(Nat)
    <2>1. RowsOK(rs, ids)
        BY DEF ExpandsUnder
    <2>2. ToSet(ids) \subseteq Nat
        BY <2>1, SetOfSeq DEF RowsOK
    <2>3. \A i \in DOMAIN w : f[c][w[i]] \in Nat
        BY <1>2, <1>3, <2>2
    <2>4. DOMAIN w = 1..Len(w) /\ Len(w) \in Nat
        BY <1>1
    <2> QED
        BY <2>3, <2>4
<1> HIDE DEF v
<1>7. ASSUME NEW i \in DOMAIN v, NEW j \in DOMAIN v, v[i] = v[j]
      PROVE  i = j
    <2>1. i \in DOMAIN w /\ j \in DOMAIN w /\ f[c][w[i]] = f[c][w[j]]
        BY <1>5, <1>7
    <2>2. w[i] \in gone /\ w[j] \in gone
        BY <1>2, <2>1
    <2>3. w[i] = w[j]
        BY <1>0, <2>1, <2>2, IdsTell
    <2> QED
        BY <1>1, <2>1, <2>3
<1>8. ASSUME NEW i \in DOMAIN v
      PROVE  \E x \in ToSet(rt) : x.parent = f[c][q] /\ x.id = v[i]
    <2>1. PICK r \in ToSet(rs) : r.parent = q /\ r.id = w[i]
        BY <1>1, <1>5
    <2>2. r.id \in gone /\ r.id # top
        BY <1>2, <1>5, <2>1
    <2>3. PICK x \in ToSet(rt) : IsCopy(x, r, c, f, gone, top, p, recs)
        BY <1>0, <2>2 DEF Replaced
    <2> QED
        BY <1>5, <2>1, <2>2, <2>3 DEF IsCopy
<1>9. ASSUME NEW x \in ToSet(rt), x.parent = f[c][q]
      PROVE  \E i \in DOMAIN v : x.id = v[i] /\ x.prev = LeftId(v, i)
    <2>1. f[c][q] \in ToSet(ids)
        BY <1>3
    <2>2. x \notin ToSet(rs)
        BY <1>0, <1>9, <2>1
    <2>3. PICK d \in 0..(Len(recs) - 1), o \in ToSet(rs) :
              o.id \in gone /\ IsCopy(x, o, d, f, gone, top, p, recs)
        BY <1>0, <2>2 DEF Replaced
    <2>4. o.id # top
        <3>1. p \notin ToSet(ids)
            BY DEF ExpandsUnder
        <3> QED
            BY <1>9, <2>1, <2>3, <3>1 DEF IsCopy
    <2>5. o.parent \in gone
        BY <1>0, <2>3, <2>4 DEF IsTree
    <2>6. x.parent = f[d][o.parent]
        BY <2>3, <2>4 DEF IsCopy
    <2>7. d = c /\ o.parent = q
        <3>1. f[d][o.parent] = f[c][q]
            BY <1>9, <2>6
        <3> QED
            BY <1>0, <2>5, <3>1, IdsTell
    <2>8. PICK i \in DOMAIN w : o.id = w[i] /\ o.prev = LeftId(w, i)
        BY <1>1, <2>7
    <2>9. x.id = v[i]
        BY <1>5, <2>3, <2>7, <2>8 DEF IsCopy
    <2>10. x.prev = IF o.prev \in gone THEN f[c][o.prev] ELSE o.prev
        BY <2>3, <2>4, <2>7 DEF IsCopy
    <2>11. x.prev = LeftId(v, i)
        <3>1. CASE i = 1
            <4>1. o.prev = NoRow /\ LeftId(v, i) = NoRow
                BY <2>8, <3>1 DEF LeftId
            <4>2. NoRow \notin gone
                BY <1>0 DEF IsTree, NoRow, Body
            <4> QED
                BY <2>10, <4>1, <4>2
        <3>2. CASE i # 1
            <4>1. i - 1 \in DOMAIN w
                BY <1>1, <3>2
            <4>2. o.prev = w[i - 1] /\ LeftId(v, i) = v[i - 1]
                BY <2>8, <3>2 DEF LeftId
            <4>3. o.prev \in gone
                BY <1>2, <4>1, <4>2
            <4> QED
                BY <1>5, <2>10, <4>1, <4>2, <4>3
        <3> QED
            BY <3>1, <3>2
    <2> QED
        BY <1>5, <2>8, <2>9, <2>11
<1>10. IsChain(ToSet(rt), f[c][q], v)
    BY <1>6, <1>7, <1>8, <1>9 DEF IsChain
<1> QED
    BY <1>10 DEF v

LEMMA ExpansionChains ==
    ASSUME NEW rt, NEW left, NEW rs, NEW ids, NEW gone, NEW top, NEW p, NEW recs, NEW f,
           ExpandsUnder(rt, left, rs, ids, gone, top, p, recs, f), ChainsHold(rs)
    PROVE  ChainsHold(rt)
<1>0. /\ \A a, b \in ToSet(rs) : a.id = b.id => a = b
      /\ IdsOf(rs) = {r.id : r \in ToSet(rs)} /\ IdsOf(rt) = {r.id : r \in ToSet(rt)}
      /\ IdsOf(rs) \cap ToSet(ids) = {} /\ Body \notin IdsOf(rs) /\ Body \notin ToSet(ids)
      /\ IsTree(gone, top, rs) /\ NewIds(f, gone, Len(recs), ids, left)
      /\ Replaced(rt, rs, gone, top, p, recs, f)
      /\ p # Body /\ p \notin ToSet(ids)
      /\ \A r \in ToSet(rs) : r.id = p => r.repeat # NoColl
    BY ExpansionFacts DEF ExpandsUnder
<1> SUFFICES ASSUME NEW q \in IdsOf(rt) \cup {Body},
                    \A r \in ToSet(rt) : r.id = q => r.repeat = NoColl
             PROVE  \E w : IsChain(ToSet(rt), q, w)
    BY DEF ChainsHold
<1>1. CASE q = Body
    <2>1. \A r \in ToSet(rs) : r.id = q => r.repeat = NoColl
        BY <1>0, <1>1
    <2>2. PICK w : IsChain(ToSet(rs), q, w)
        BY <1>1, <2>1 DEF ChainsHold
    <2>3. q \notin ToSet(ids) /\ q \notin gone /\ q # p
        BY <1>0, <1>1 DEF IsTree
    <2> QED
        BY <2>2, <2>3, KeptChain
<1>2. ASSUME NEW x \in ToSet(rt), x.id = q, x \in ToSet(rs), x.id \notin gone
      PROVE  \E w : IsChain(ToSet(rt), q, w)
    <2>1. x.repeat = NoColl
        BY <1>2
    <2>2. q \in IdsOf(rs) /\ \A r \in ToSet(rs) : r.id = q => r.repeat = NoColl
        BY <1>0, <1>2, <2>1
    <2>3. PICK w : IsChain(ToSet(rs), q, w)
        BY <2>2 DEF ChainsHold
    <2>4. q \notin ToSet(ids) /\ q \notin gone /\ q # p
        BY <1>0, <1>2, <2>1, <2>2
    <2> QED
        BY <2>3, <2>4, KeptChain
<1>3. ASSUME NEW x \in ToSet(rt), x.id = q, NEW c \in 0..(Len(recs) - 1), NEW o \in ToSet(rs),
             o.id \in gone, IsCopy(x, o, c, f, gone, top, p, recs)
      PROVE  \E w : IsChain(ToSet(rt), q, w)
    <2>1. x.repeat = NoColl
        BY <1>3
    <2>2. x.id = f[c][o.id] /\ o.repeat = NoColl
        BY <1>3, <2>1 DEF IsCopy
    <2>3. o.id \in IdsOf(rs) /\ \A r \in ToSet(rs) : r.id = o.id => r.repeat = NoColl
        BY <1>0, <2>2
    <2>4. PICK w : IsChain(ToSet(rs), o.id, w)
        BY <2>3 DEF ChainsHold
    <2>5. o.id # p
        BY <1>0, <2>2
    <2>6. IsChain(ToSet(rt), f[c][o.id], [i \in DOMAIN w |-> f[c][w[i]]])
        BY <1>3, <2>4, <2>5, CloneChain
    <2> QED
        BY <1>3, <2>2, <2>6
<1>4. CASE q \in IdsOf(rt)
    <2>1. PICK x \in ToSet(rt) : x.id = q
        BY <1>0, <1>4
    <2>2. \/ x \in ToSet(rs) /\ x.id \notin gone
          \/ \E c \in 0..(Len(recs) - 1), o \in ToSet(rs) :
                o.id \in gone /\ IsCopy(x, o, c, f, gone, top, p, recs)
        BY <1>0 DEF Replaced
    <2> QED
        BY <1>2, <1>3, <2>1, <2>2
<1> QED
    BY <1>1, <1>4

LEMMA ExpansionSiblings ==
    ASSUME NEW rt, NEW left, NEW rs, NEW ids, NEW gone, NEW top, NEW p, NEW recs, NEW f,
           ExpandsUnder(rt, left, rs, ids, gone, top, p, recs, f), SiblingsAgree(rs)
    PROVE  SiblingsAgree(rt)
<1>0. /\ \A a, b \in ToSet(rs) : a.id = b.id => a = b
      /\ IdsOf(rs) = {r.id : r \in ToSet(rs)} /\ IdsOf(rt) = {r.id : r \in ToSet(rt)}
      /\ IdsOf(rs) \cap ToSet(ids) = {} /\ Body \notin IdsOf(rs)
      /\ Body \notin IdsOf(rt) /\ Body \notin ToSet(ids)
      /\ \A r \in ToSet(rs) : r.parent \notin ToSet(ids) /\ r.prev \notin ToSet(ids)
    BY ExpansionFacts
<1>a. /\ IsTree(gone, top, rs) /\ NewIds(f, gone, Len(recs), ids, left)
      /\ Replaced(rt, rs, gone, top, p, recs, f)
    BY ExpansionFacts
<1>b. /\ p # Body /\ p \notin ToSet(ids)
      /\ \A r \in ToSet(rs) : r.id = top => r.parent = p
    BY DEF ExpandsUnder
<1>c. /\ \A d \in 0..(Len(recs) - 1), a \in gone : f[d][a] \in ToSet(ids)
      /\ \A d, e \in 0..(Len(recs) - 1), a, b \in gone : f[d][a] = f[e][b] => d = e /\ a = b
    BY <1>a DEF NewIds
<1>d. \A o \in ToSet(rs) : o.id \in gone /\ o.id # top => o.parent \in gone
    BY <1>a DEF IsTree
<1>e. top \in gone /\ gone \subseteq IdsOf(rs) /\ \A r \in ToSet(rs) : r.parent \in gone => r.id \in gone
    BY <1>a DEF IsTree
<1>1. \A x \in ToSet(rt) :
          \/ x \in ToSet(rs) /\ x.id \notin gone
          \/ \E c \in 0..(Len(recs) - 1), o \in ToSet(rs) :
                o.id \in gone /\ IsCopy(x, o, c, f, gone, top, p, recs)
    BY <1>a DEF Replaced
<1>2. \A y : y \in IdsOf(rt) \cup {Body} /\ y \notin ToSet(ids) => y \in (IdsOf(rs) \ gone) \cup {Body}
    <2> SUFFICES ASSUME NEW y \in IdsOf(rt), y \notin ToSet(ids)
                 PROVE  y \in IdsOf(rs) \ gone
        OBVIOUS
    <2>1. PICK x \in ToSet(rt) : x.id = y
        BY <1>0
    <2>2. \A c \in 0..(Len(recs) - 1), o \in ToSet(rs) :
                o.id \in gone /\ IsCopy(x, o, c, f, gone, top, p, recs) => x.id \in ToSet(ids)
        BY <1>c DEF IsCopy
    <2> QED
        BY <1>0, <1>1, <2>1, <2>2
<1>3. \A a, b \in ToSet(rs) :
          /\ a.prev = b.id
          /\ a.parent \in IdsOf(rs) \cup {Body} /\ b.parent \in IdsOf(rs) \cup {Body}
          => a.parent = b.parent
    BY DEF SiblingsAgree
<1> SUFFICES ASSUME NEW x \in ToSet(rt), NEW r \in ToSet(rt), x.prev = r.id,
                    x.parent \in IdsOf(rt) \cup {Body}, r.parent \in IdsOf(rt) \cup {Body}
             PROVE  x.parent = r.parent
    BY DEF SiblingsAgree
<1>4. r \in ToSet(rs) => r.parent \in IdsOf(rs) \cup {Body} /\ r.parent \notin gone
    BY <1>0, <1>2, <1>e
<1>5. CASE x \in ToSet(rs)
    <2>1. x.parent \in IdsOf(rs) \cup {Body}
        BY <1>0, <1>2, <1>5
    <2>2. r \in ToSet(rs)
        <3>1. r.id \notin ToSet(ids)
            BY <1>0, <1>5
        <3>2. \A c \in 0..(Len(recs) - 1), o \in ToSet(rs) :
                    o.id \in gone /\ IsCopy(r, o, c, f, gone, top, p, recs) => r.id \in ToSet(ids)
            BY <1>c DEF IsCopy
        <3> QED
            BY <1>1, <3>1, <3>2
    <2> QED
        BY <1>3, <1>4, <1>5, <2>1, <2>2
<1>6. ASSUME NEW c \in 0..(Len(recs) - 1), NEW o \in ToSet(rs), o.id \in gone,
             IsCopy(x, o, c, f, gone, top, p, recs)
      PROVE  x.parent = r.parent
    <2>1. CASE o.id = top
        <3>1. x.parent = p /\ x.prev = IF c = 0 THEN NoRow ELSE f[c - 1][top]
            BY <1>6, <2>1 DEF IsCopy
        <3>2. c # 0
            BY <1>0, <3>1 DEF NoRow, Body
        <3>3. c - 1 \in 0..(Len(recs) - 1)
            BY <3>2
        <3>4. r.id = f[c - 1][top] /\ r.id \in ToSet(ids)
            BY <1>c, <1>e, <3>1, <3>2, <3>3
        <3>5. r \notin ToSet(rs)
            BY <1>0, <3>4
        <3>6. PICK d \in 0..(Len(recs) - 1), o2 \in ToSet(rs) :
                  o2.id \in gone /\ IsCopy(r, o2, d, f, gone, top, p, recs)
            BY <1>1, <3>5
        <3>7. o2.id = top
            <4>1. f[d][o2.id] = f[c - 1][top] /\ o2.id \in gone /\ top \in gone
                BY <1>e, <3>4, <3>6 DEF IsCopy
            <4> QED
                BY <1>a, <3>3, <4>1, IdsTell
        <3> QED
            BY <3>1, <3>6, <3>7 DEF IsCopy
    <2>2. CASE o.id # top
        <3>1. x.parent = f[c][o.parent] /\ x.prev = IF o.prev \in gone THEN f[c][o.prev] ELSE o.prev
            BY <1>6, <2>2 DEF IsCopy
        <3>2. o.parent \in gone /\ o.parent \in IdsOf(rs)
            BY <1>6, <1>d, <1>e, <2>2
        <3>3. CASE o.prev \in gone
            <4>1. r.id = f[c][o.prev] /\ r.id \in ToSet(ids)
                BY <1>c, <3>1, <3>3
            <4>2. r \notin ToSet(rs)
                BY <1>0, <4>1
            <4>3. PICK d \in 0..(Len(recs) - 1), o2 \in ToSet(rs) :
                      o2.id \in gone /\ IsCopy(r, o2, d, f, gone, top, p, recs)
                BY <1>1, <4>2
            <4>4. d = c /\ o2.id = o.prev
                <5>1. f[d][o2.id] = f[c][o.prev] /\ o2.id \in gone
                    BY <4>1, <4>3 DEF IsCopy
                <5> QED
                    BY <1>a, <3>3, <5>1, IdsTell
            <4>5. CASE o2.id = top
                <5>1. r.parent = p /\ o2.parent = p
                    BY <1>b, <4>3, <4>5 DEF IsCopy
                <5>2. p \in IdsOf(rs) \cup {Body} /\ p \notin gone
                    BY <1>0, <1>2, <1>b, <1>e, <5>1
                <5>3. o.parent = p
                    BY <1>3, <3>2, <4>4, <5>1, <5>2
                <5> QED
                    BY <3>2, <5>2, <5>3
            <4>6. CASE o2.id # top
                <5>1. r.parent = f[c][o2.parent]
                    BY <4>3, <4>4, <4>6 DEF IsCopy
                <5>2. o2.parent \in IdsOf(rs)
                    BY <1>d, <1>e, <4>3, <4>6
                <5>3. o.parent = o2.parent
                    BY <1>3, <3>2, <4>4, <5>2
                <5> QED
                    BY <3>1, <5>1, <5>3
            <4> QED
                BY <4>5, <4>6
        <3>4. CASE o.prev \notin gone
            <4>1. r.id = o.prev /\ r.id \notin ToSet(ids)
                BY <1>0, <3>1, <3>4
            <4>2. r \in ToSet(rs)
                <5>1. \A d \in 0..(Len(recs) - 1), o2 \in ToSet(rs) :
                          o2.id \in gone /\ IsCopy(r, o2, d, f, gone, top, p, recs) => r.id \in ToSet(ids)
                    BY <1>c DEF IsCopy
                <5> QED
                    BY <1>1, <4>1, <5>1
            <4>3. o.parent = r.parent
                BY <1>3, <1>4, <3>2, <4>1, <4>2
            <4> QED
                BY <1>4, <3>2, <4>2, <4>3
        <3> QED
            BY <3>3, <3>4
    <2> QED
        BY <2>1, <2>2
<1> QED
    BY <1>1, <1>5, <1>6

-----------------------------------------------------------------------------
(* The other passes keep the chains *)

LEMMA SameChains ==
    ASSUME NEW rs, NEW rt, SameRows(rs, rt)
    PROVE  /\ IdsOf(rt) = IdsOf(rs)
           /\ \A q, w : IsChain(ToSet(rs), q, w) => IsChain(ToSet(rt), q, w)
           /\ ChainsHold(rs) => ChainsHold(rt)
           /\ SiblingsAgree(rs) => SiblingsAgree(rt)
           /\ \A ids : LinksAreOld(rs, ids) => LinksAreOld(rt, ids)
<1>1. /\ \A x \in ToSet(rt) : \E r \in ToSet(rs) : /\ x.id = r.id /\ x.parent = r.parent
                                                   /\ x.prev = r.prev /\ x.repeat = r.repeat
      /\ \A r \in ToSet(rs) : \E x \in ToSet(rt) : /\ x.id = r.id /\ x.parent = r.parent
                                                   /\ x.prev = r.prev /\ x.repeat = r.repeat
    BY DEF SameRows, ToSet
<1>2. IdsOf(rt) = IdsOf(rs)
    BY DEF SameRows, IdsOf
<1>3. ASSUME NEW q, NEW w, IsChain(ToSet(rs), q, w)
      PROVE  IsChain(ToSet(rt), q, w)
    <2>1. ASSUME NEW i \in DOMAIN w PROVE \E x \in ToSet(rt) : x.parent = q /\ x.id = w[i]
        <3>1. PICK r \in ToSet(rs) : r.parent = q /\ r.id = w[i]
            BY <1>3 DEF IsChain
        <3> QED
            BY <1>1, <3>1
    <2>2. \A x \in ToSet(rt) : x.parent = q => \E i \in DOMAIN w : x.id = w[i] /\ x.prev = LeftId(w, i)
        <3> SUFFICES ASSUME NEW x \in ToSet(rt), x.parent = q
                     PROVE  \E i \in DOMAIN w : x.id = w[i] /\ x.prev = LeftId(w, i)
            OBVIOUS
        <3>1. PICK r \in ToSet(rs) : x.id = r.id /\ x.parent = r.parent /\ x.prev = r.prev
            BY <1>1
        <3> QED
            BY <1>3, <3>1 DEF IsChain
    <2> QED
        BY <1>3, <2>1, <2>2 DEF IsChain
<1>4. ASSUME ChainsHold(rs) PROVE ChainsHold(rt)
    <2> SUFFICES ASSUME NEW q \in IdsOf(rt) \cup {Body},
                        \A r \in ToSet(rt) : r.id = q => r.repeat = NoColl
                 PROVE  \E w : IsChain(ToSet(rt), q, w)
        BY DEF ChainsHold
    <2>1. \A r \in ToSet(rs) : r.id = q => r.repeat = NoColl
        BY <1>1
    <2> QED
        BY <1>2, <1>3, <1>4, <2>1 DEF ChainsHold
<1>5. ASSUME SiblingsAgree(rs) PROVE SiblingsAgree(rt)
    <2> SUFFICES ASSUME NEW x \in ToSet(rt), NEW r \in ToSet(rt), x.prev = r.id,
                        x.parent \in IdsOf(rt) \cup {Body}, r.parent \in IdsOf(rt) \cup {Body}
                 PROVE  x.parent = r.parent
        BY DEF SiblingsAgree
    <2>1. PICK a \in ToSet(rs) : x.id = a.id /\ x.parent = a.parent /\ x.prev = a.prev
        BY <1>1
    <2>2. PICK b \in ToSet(rs) : r.id = b.id /\ r.parent = b.parent /\ r.prev = b.prev
        BY <1>1
    <2> QED
        BY <1>2, <1>5, <2>1, <2>2 DEF SiblingsAgree
<1>6. \A ids : LinksAreOld(rs, ids) => LinksAreOld(rt, ids)
    BY <1>1 DEF LinksAreOld
<1> QED
    BY <1>2, <1>3, <1>4, <1>5, <1>6

LEMMA NamedSame ==
    ASSUME NEW rs \in Seq(Row)
    PROVE  SameRows(rs, Named(rs))
<1>1. \A i \in DOMAIN rs : rs[i] \in Row
    OBVIOUS
<1>2. \A r \in Row : LET x == [r EXCEPT !.name = "field"]
                     IN  /\ x.id = r.id /\ x.parent = r.parent /\ x.prev = r.prev
                         /\ x.repeat = r.repeat /\ x.of = r.of /\ x.tag = r.tag
    BY DEF Row
<1> QED
    BY <1>1, <1>2, NamedRows DEF SameRows

\* The rows without a right neighbour, under a form whose rows are a chain:
\* the last one.
LEMMA TailIsLast ==
    ASSUME NEW rs, NEW ids, RowsOK(rs, ids), Adopted(rs), SiblingsAgree(rs),
           NEW q \in IdsOf(rs), NEW w, IsChain(ToSet(rs), q, w)
    PROVE  (IF Tails(rs, q) = <<>> THEN NoRow ELSE Head(Tails(rs, q)).id)
               = LeftId(Append(w, q), Len(w) + 1)
<1> DEFINE S == {r \in ToSet(rs) : r.parent = q /\ \A x \in ToSet(rs) : x.prev # r.id}
           t == Tails(rs, q)
           n == Len(w)
<1>0. /\ rs \in Seq(Row) /\ Distinct(rs) /\ Body \notin IdsOf(rs)
      /\ \A a, b \in ToSet(rs) : a.id = b.id => a = b
    BY DEF RowsOK, Distinct, ToSet
<1>1. /\ w \in Seq(Nat)
      /\ \A i, j \in DOMAIN w : w[i] = w[j] => i = j
      /\ \A i \in DOMAIN w : \E r \in ToSet(rs) : r.parent = q /\ r.id = w[i]
      /\ \A r \in ToSet(rs) : r.parent = q => \E i \in DOMAIN w : r.id = w[i] /\ r.prev = LeftId(w, i)
    BY DEF IsChain
<1>2. DOMAIN w = 1..n /\ n \in Nat
    BY <1>1
<1>3. \A r \in ToSet(rs) : r.parent \in IdsOf(rs) \cup {Body} /\ r.id \in IdsOf(rs)
    BY IdsAreOfRows DEF Adopted, ToSet
<1>4. t \in Seq(Row) /\ ToSet(t) = S
    <2>1. t = Only(rs, S) /\ ToSet(rs) \cap S = S
        BY DEF Tails
    <2> HIDE DEF S, t
    <2>2. Only(rs, S) \in Seq(Row) /\ ToSet(Only(rs, S)) = ToSet(rs) \cap S
        BY <1>0, OnlyEffect, OnlyMembers
    <2> QED
        BY <2>1, <2>2
<1>5. \A r \in S : n # 0 /\ r.id = w[n]
    <2> SUFFICES ASSUME NEW r \in ToSet(rs), r.parent = q, \A x \in ToSet(rs) : x.prev # r.id
                 PROVE  n # 0 /\ r.id = w[n]
        OBVIOUS
    <2>1. PICK i \in DOMAIN w : r.id = w[i] /\ r.prev = LeftId(w, i)
        BY <1>1
    <2> SUFFICES ASSUME i # n PROVE FALSE
        BY <1>2, <2>1
    <2>2. i + 1 \in DOMAIN w /\ i + 1 # 1 /\ (i + 1) - 1 = i
        BY <1>2
    <2>3. PICK x \in ToSet(rs) : x.parent = q /\ x.id = w[i + 1]
        BY <1>1, <2>2
    <2>4. PICK j \in DOMAIN w : x.id = w[j] /\ x.prev = LeftId(w, j)
        BY <1>1, <2>3
    <2>5. j = i + 1
        BY <1>1, <2>2, <2>3, <2>4
    <2>6. x.prev = w[i]
        BY <2>2, <2>4, <2>5 DEF LeftId
    <2> QED
        BY <2>1, <2>6
<1>6. ASSUME n # 0
      PROVE  \E r \in S : r.id = w[n]
    <2>1. n \in DOMAIN w
        BY <1>2, <1>6
    <2>2. PICK r \in ToSet(rs) : r.parent = q /\ r.id = w[n]
        BY <1>1, <2>1
    <2> SUFFICES ASSUME NEW x \in ToSet(rs), x.prev = r.id
                 PROVE  FALSE
        BY <2>2
    <2>3. x.parent = q
        BY <1>3, <2>2 DEF SiblingsAgree
    <2>4. PICK j \in DOMAIN w : x.id = w[j] /\ x.prev = LeftId(w, j)
        BY <1>1, <2>3
    <2>5. r.id # NoRow
        BY <1>0, <1>3 DEF NoRow, Body
    <2>6. j # 1 /\ w[j - 1] = w[n]
        BY <2>2, <2>4, <2>5 DEF LeftId
    <2>7. j - 1 \in DOMAIN w /\ j - 1 # n
        BY <1>2, <2>6
    <2> QED
        BY <1>1, <2>1, <2>6, <2>7
<1> DEFINE v == Append(w, q)
<1>7. LeftId(v, n + 1) = IF n = 0 THEN NoRow ELSE w[n]
    <2>1. \A i \in 1..n : v[i] = w[i]
        BY <1>1, <1>2
    <2>2. n # 0 => n + 1 # 1 /\ (n + 1) - 1 = n /\ n \in 1..n
        BY <1>2
    <2>3. n = 0 => n + 1 = 1
        OBVIOUS
    <2> HIDE DEF v, n
    <2> QED
        BY <2>1, <2>2, <2>3 DEF LeftId
<1> HIDE DEF S, t, v, n
<1>8. CASE t = <<>>
    <2>1. S = {}
        BY <1>4, <1>8 DEF ToSet
    <2>2. n = 0
        BY <1>6, <2>1
    <2> QED
        BY <1>7, <1>8, <2>2 DEF t, v, n
<1>9. CASE t # <<>>
    <2>1. Head(t) \in S
        <3>1. 1 \in DOMAIN t /\ Head(t) = t[1]
            BY <1>4, <1>9
        <3> QED
            BY <1>4, <3>1 DEF ToSet
    <2> QED
        BY <1>5, <1>7, <1>9, <2>1 DEF t, v, n
<1> QED
    BY <1>8, <1>9

\* What auto_wire_forms makes of the rows.
Wired(rs, ids) == Named(rs) \o Inputs(rs, ids)

LEMMA WiredRows ==
    ASSUME NEW rs, NEW ids, RowsOK(rs, ids), Len(FormRows(rs)) <= Len(ids)
    PROVE  /\ ToSet(Wired(rs, ids)) = ToSet(Named(rs)) \cup ToSet(Inputs(rs, ids))
           /\ SameRows(rs, Named(rs))
           /\ FormRows(rs) \in Seq(Row)
           /\ \A k \in DOMAIN FormRows(rs) :
                 /\ k \in DOMAIN ids /\ ids[k] \in ToSet(ids)
                 /\ FormRows(rs)[k] \in ToSet(rs) /\ FormRows(rs)[k].id \in IdsOf(rs)
           /\ \A j, k \in DOMAIN FormRows(rs) : FormRows(rs)[j].id = FormRows(rs)[k].id => j = k
           /\ \A x \in ToSet(Inputs(rs, ids)) : \E k \in DOMAIN FormRows(rs) :
                 x = CsrfInput(rs, FormRows(rs)[k].id, ids[k])
           /\ \A k \in DOMAIN FormRows(rs) :
                 CsrfInput(rs, FormRows(rs)[k].id, ids[k]) \in ToSet(Inputs(rs, ids))
<1>1. rs \in Seq(Row) /\ Distinct(rs) /\ ids \in Seq(Nat)
    BY DEF RowsOK
<1>2. FormRows(rs) \in Seq(Row) /\ ToSet(FormRows(rs)) \subseteq ToSet(rs)
    BY <1>1, FormRowsTyped
<1>3. SameRows(rs, Named(rs))
    BY <1>1, NamedSame
<1>4. ToSet(Wired(rs, ids)) = ToSet(Named(rs)) \cup ToSet(Inputs(rs, ids))
    BY WiredIsOK DEF Wired
<1>5. \A k \in DOMAIN FormRows(rs) :
          /\ k \in DOMAIN ids /\ ids[k] \in ToSet(ids)
          /\ FormRows(rs)[k] \in ToSet(rs) /\ FormRows(rs)[k].id \in IdsOf(rs)
    <2> SUFFICES ASSUME NEW k \in DOMAIN FormRows(rs)
                 PROVE  /\ k \in DOMAIN ids /\ ids[k] \in ToSet(ids)
                        /\ FormRows(rs)[k] \in ToSet(rs) /\ FormRows(rs)[k].id \in IdsOf(rs)
        OBVIOUS
    <2>1. FormRows(rs)[k] \in ToSet(FormRows(rs))
        BY DEF ToSet
    <2>2. FormRows(rs)[k] \in ToSet(rs) /\ FormRows(rs)[k].id \in IdsOf(rs)
        BY <1>2, <2>1, IdsAreOfRows
    <2> DEFINE n == Len(FormRows(rs))
    <2>3. k \in 1..n /\ n \in Nat /\ n <= Len(ids)
        BY <1>2
    <2> HIDE DEF n
    <2>4. k \in DOMAIN ids
        BY <1>1, <2>3
    <2> QED
        BY <2>2, <2>4 DEF ToSet
<1>6. \A j, k \in DOMAIN FormRows(rs) : FormRows(rs)[j].id = FormRows(rs)[k].id => j = k
    <2> DEFINE T == {r \in ToSet(rs) : r.tag = "form" /\ r.coll # NoColl}
    <2>1. FormRows(rs) = Only(rs, T)
        BY DEF FormRows
    <2> HIDE DEF T
    <2>2. Distinct(Only(rs, T))
        BY <1>1, OnlyKeepsDistinct
    <2> QED
        BY <2>1, <2>2 DEF Distinct
<1>7. \A x \in ToSet(Inputs(rs, ids)) : \E k \in DOMAIN FormRows(rs) :
          x = CsrfInput(rs, FormRows(rs)[k].id, ids[k])
    BY DEF ToSet, Inputs
<1>8. \A k \in DOMAIN FormRows(rs) :
          CsrfInput(rs, FormRows(rs)[k].id, ids[k]) \in ToSet(Inputs(rs, ids))
    BY DEF ToSet, Inputs
<1> QED
    BY <1>2, <1>3, <1>4, <1>5, <1>6, <1>7, <1>8

LEMMA AdoptedBefore ==
    ASSUME NEW rs, NEW ids, RowsOK(rs, ids), Len(FormRows(rs)) <= Len(ids), LinksAreOld(rs, ids),
           Adopted(Wired(rs, ids))
    PROVE  Adopted(rs)
<1>1. /\ ToSet(Wired(rs, ids)) = ToSet(Named(rs)) \cup ToSet(Inputs(rs, ids))
      /\ SameRows(rs, Named(rs))
    BY WiredRows
<1>2. IdsOf(Wired(rs, ids)) \subseteq IdsOf(rs) \cup ToSet(ids)
    <2>1. IdsOf(Named(rs)) = IdsOf(rs)
        BY <1>1, SameChains
    <2>2. \A x \in ToSet(Inputs(rs, ids)) : x.id \in ToSet(ids)
        BY WiredRows DEF CsrfInput
    <2>3. IdsOf(Wired(rs, ids)) = {r.id : r \in ToSet(Wired(rs, ids))}
        BY IdsAreOfRows
    <2>4. IdsOf(Named(rs)) = {r.id : r \in ToSet(Named(rs))}
        BY IdsAreOfRows
    <2> QED
        BY <1>1, <2>1, <2>2, <2>3, <2>4
<1> SUFFICES ASSUME NEW i \in DOMAIN rs
             PROVE  rs[i].parent \in IdsOf(rs) \cup {Body}
    BY DEF Adopted
<1>3. i \in DOMAIN Named(rs) /\ Named(rs)[i].parent = rs[i].parent
    BY <1>1 DEF SameRows
<1>4. Named(rs)[i] \in ToSet(Wired(rs, ids))
    BY <1>1, <1>3 DEF ToSet
<1>5. \A r \in ToSet(Wired(rs, ids)) : r.parent \in IdsOf(Wired(rs, ids)) \cup {Body}
    BY DEF Adopted, ToSet
<1>6. rs[i].parent \notin ToSet(ids)
    BY DEF LinksAreOld, ToSet
<1> QED
    BY <1>2, <1>3, <1>4, <1>5, <1>6

\* The input comes behind the last row of its form.
LEMMA FormChain ==
    ASSUME NEW rs, NEW ids, RowsOK(rs, ids), Len(FormRows(rs)) <= Len(ids), LinksAreOld(rs, ids),
           Adopted(rs), SiblingsAgree(rs), NEW k \in DOMAIN FormRows(rs),
           NEW q, q = FormRows(rs)[k].id, NEW w, IsChain(ToSet(rs), q, w)
    PROVE  IsChain(ToSet(Wired(rs, ids)), q, Append(w, ids[k]))
<1> DEFINE rt == Wired(rs, ids)
           v == Append(w, ids[k])
           n == Len(w)
           t == CsrfInput(rs, q, ids[k])
<1>0. /\ ToSet(rt) = ToSet(Named(rs)) \cup ToSet(Inputs(rs, ids))
      /\ SameRows(rs, Named(rs))
      /\ k \in DOMAIN ids /\ ids[k] \in ToSet(ids) /\ q \in IdsOf(rs)
      /\ t \in ToSet(Inputs(rs, ids))
      /\ IdsOf(rs) \cap ToSet(ids) = {}
    BY WiredRows DEF RowsOK
<1>1. IsChain(ToSet(Named(rs)), q, w)
    BY <1>0, SameChains
<1>2. /\ w \in Seq(Nat)
      /\ \A i, j \in DOMAIN w : w[i] = w[j] => i = j
      /\ \A i \in DOMAIN w : \E r \in ToSet(Named(rs)) : r.parent = q /\ r.id = w[i]
      /\ \A r \in ToSet(Named(rs)) : r.parent = q => \E i \in DOMAIN w : r.id = w[i] /\ r.prev = LeftId(w, i)
    BY <1>1 DEF IsChain
<1>3. DOMAIN w = 1..n /\ n \in Nat
    BY <1>2
<1>4. ids[k] \in Nat
    BY <1>0 DEF RowsOK
<1>5. /\ v \in Seq(Nat) /\ DOMAIN v = 1..(n + 1) /\ v[n + 1] = ids[k]
      /\ \A i \in 1..n : v[i] = w[i]
    BY <1>2, <1>4
<1>6. \A i \in 1..n : LeftId(v, i) = LeftId(w, i)
    <2> SUFFICES ASSUME NEW i \in 1..n PROVE LeftId(v, i) = LeftId(w, i)
        OBVIOUS
    <2>1. i = 1 \/ i - 1 \in 1..n
        BY <1>3
    <2> HIDE DEF v
    <2> QED
        BY <1>5, <2>1 DEF LeftId
<1>7. t.id = ids[k] /\ t.parent = q /\ t.prev = LeftId(v, n + 1)
    <2>1. t.prev = IF Tails(rs, q) = <<>> THEN NoRow ELSE Head(Tails(rs, q)).id
        BY DEF CsrfInput
    <2>2. t.prev = LeftId(Append(w, q), n + 1)
        BY <1>0, <2>1, TailIsLast
    <2> DEFINE y == Append(w, q)
    <2>3. q \in Nat
        <3>1. rs \in Seq(Row) /\ FormRows(rs) \in Seq(Row)
            BY WiredRows DEF RowsOK
        <3>2. FormRows(rs)[k] \in Row
            BY <3>1
        <3> QED
            BY <3>2, RowFields
    <2>4. \A i \in 1..n : y[i] = w[i]
        BY <1>2, <2>3
    <2>5. n + 1 = 1 \/ (n + 1) - 1 \in 1..n
        BY <1>3
    <2> HIDE DEF y, v
    <2>6. LeftId(y, n + 1) = LeftId(v, n + 1)
        BY <1>5, <2>4, <2>5 DEF LeftId
    <2> QED
        BY <2>2, <2>6 DEF CsrfInput, y
<1> HIDE DEF rt, v, n, t
<1>8. \A i \in 1..(n + 1) : i \in 1..n \/ i = n + 1
    BY <1>3
<1>9. \A i \in 1..n : w[i] \in IdsOf(rs)
    <2>1. \A r \in ToSet(Named(rs)) : r.id \in IdsOf(rs)
        BY <1>0, SameChains, IdsAreOfRows
    <2> QED
        BY <1>2, <1>3, <2>1
<1>10. ASSUME NEW i \in DOMAIN v, NEW j \in DOMAIN v, v[i] = v[j]
       PROVE  i = j
    <2>1. CASE i \in 1..n /\ j \in 1..n
        BY <1>2, <1>3, <1>5, <1>10, <2>1
    <2>2. CASE i = n + 1 \/ j = n + 1
        <3>1. \A x \in 1..n : v[x] # ids[k]
            BY <1>0, <1>5, <1>9
        <3> QED
            BY <1>5, <1>8, <1>10, <2>2, <3>1
    <2> QED
        BY <1>5, <1>8, <2>1, <2>2
<1>11. ASSUME NEW i \in DOMAIN v
       PROVE  \E r \in ToSet(rt) : r.parent = q /\ r.id = v[i]
    <2>1. CASE i \in 1..n
        BY <1>0, <1>2, <1>3, <1>5, <2>1
    <2>2. CASE i = n + 1
        BY <1>0, <1>5, <1>7, <2>2
    <2> QED
        BY <1>5, <1>8, <2>1, <2>2
<1>12. ASSUME NEW r \in ToSet(rt), r.parent = q
       PROVE  \E i \in DOMAIN v : r.id = v[i] /\ r.prev = LeftId(v, i)
    <2>1. CASE r \in ToSet(Named(rs))
        <3>1. PICK i \in DOMAIN w : r.id = w[i] /\ r.prev = LeftId(w, i)
            BY <1>2, <1>12, <2>1
        <3>2. i \in 1..n /\ i \in DOMAIN v
            BY <1>3, <1>5
        <3> QED
            BY <1>5, <1>6, <3>1, <3>2
    <2>2. CASE r \in ToSet(Inputs(rs, ids))
        <3>1. PICK j \in DOMAIN FormRows(rs) : r = CsrfInput(rs, FormRows(rs)[j].id, ids[j])
            BY <2>2, WiredRows
        <3>2. FormRows(rs)[j].id = q
            BY <1>12, <3>1 DEF CsrfInput
        <3>3. j = k
            BY <3>2, WiredRows
        <3>4. r = t /\ n + 1 \in DOMAIN v
            BY <1>3, <1>5, <3>1, <3>3 DEF t
        <3> QED
            BY <1>5, <1>7, <3>4
    <2> QED
        BY <1>0, <1>12, <2>1, <2>2
<1>13. IsChain(ToSet(rt), q, v)
    BY <1>5, <1>10, <1>11, <1>12 DEF IsChain
<1> QED
    BY <1>13 DEF rt, v

LEMMA WiredChains ==
    ASSUME NEW rs, NEW ids, RowsOK(rs, ids), Len(FormRows(rs)) <= Len(ids), LinksAreOld(rs, ids),
           ChainsHold(rs), SiblingsAgree(rs), Adopted(Wired(rs, ids))
    PROVE  ChainsHold(Wired(rs, ids))
<1> DEFINE rt == Wired(rs, ids)
           fr == FormRows(rs)
<1>0. /\ ToSet(rt) = ToSet(Named(rs)) \cup ToSet(Inputs(rs, ids))
      /\ SameRows(rs, Named(rs)) /\ IdsOf(Named(rs)) = IdsOf(rs)
      /\ IdsOf(rt) = {r.id : r \in ToSet(rt)} /\ IdsOf(Named(rs)) = {r.id : r \in ToSet(Named(rs))}
      /\ IdsOf(rs) \cap ToSet(ids) = {} /\ Body \notin ToSet(ids)
    BY WiredRows, SameChains, IdsAreOfRows DEF RowsOK
<1>1. /\ \A x \in ToSet(Inputs(rs, ids)) : \E k \in DOMAIN fr :
             /\ x.parent = fr[k].id /\ x.id = ids[k] /\ x.id \in ToSet(ids)
             /\ fr[k].id \in IdsOf(rs)
    BY WiredRows DEF CsrfInput
<1>2. Adopted(rs)
    BY AdoptedBefore
<1>3. ChainsHold(Named(rs))
    BY <1>0, SameChains
<1> HIDE DEF rt, fr
<1> SUFFICES ASSUME NEW q \in IdsOf(rt) \cup {Body},
                    \A r \in ToSet(rt) : r.id = q => r.repeat = NoColl
             PROVE  \E w : IsChain(ToSet(rt), q, w)
    BY DEF ChainsHold, rt
<1>4. CASE q \in IdsOf(rs) \cup {Body}
    <2>1. \A r \in ToSet(Named(rs)) : r.id = q => r.repeat = NoColl
        BY <1>0
    <2>2. \A r \in ToSet(rs) : r.id = q => r.repeat = NoColl
        <3>1. \A r \in ToSet(rs) : \E x \in ToSet(Named(rs)) : x.id = r.id /\ x.repeat = r.repeat
            BY <1>0 DEF SameRows, ToSet
        <3> QED
            BY <2>1, <3>1
    <2>3. PICK w : IsChain(ToSet(rs), q, w)
        BY <1>4, <2>2 DEF ChainsHold
    <2>4. CASE \E k \in DOMAIN fr : q = fr[k].id
        <3>1. PICK k \in DOMAIN fr : q = fr[k].id
            BY <2>4
        <3>2. IsChain(ToSet(rt), q, Append(w, ids[k]))
            BY <1>2, <2>3, <3>1, FormChain DEF fr, rt
        <3> QED
            BY <3>2
    <2>5. CASE \A k \in DOMAIN fr : q # fr[k].id
        <3>1. IsChain(ToSet(Named(rs)), q, w)
            BY <1>0, <2>3, SameChains
        <3>2. \A r \in ToSet(rt) : r.parent = q => r \in ToSet(Named(rs))
            BY <1>0, <1>1, <2>5
        <3>3. ToSet(Named(rs)) \subseteq ToSet(rt)
            BY <1>0
        <3> QED
            BY <3>1, <3>2, <3>3 DEF IsChain
    <2> QED
        BY <2>4, <2>5
<1>5. CASE q \notin IdsOf(rs) \cup {Body}
    <2>1. q \in ToSet(ids)
        BY <1>0, <1>1, <1>5
    <2>2. \A r \in ToSet(Named(rs)) : r.parent # q
        <3>1. LinksAreOld(Named(rs), ids)
            BY <1>0, SameChains
        <3> QED
            BY <2>1, <3>1 DEF LinksAreOld
    <2>3. \A r \in ToSet(rt) : r.parent # q
        BY <1>0, <1>1, <1>5, <2>2
    <2>4. IsChain(ToSet(rt), q, <<>>)
        BY <2>3 DEF IsChain
    <2> QED
        BY <2>4
<1> QED
    BY <1>4, <1>5

-----------------------------------------------------------------------------
(* The chains of a page through its passes *)

\* What the passes up to the wiring keep of a page whose chains are whole.
Chained(rs, ids) == ChainsHold(rs) /\ SiblingsAgree(rs) /\ LinksAreOld(rs, ids)

\* t is a repeater that is still to be expanded.
Pending(t, rs, ids) ==
    /\ t.id # Body /\ t.id \notin ToSet(ids)
    /\ \A r \in ToSet(rs) : r.id = t.id => r.repeat # NoColl

LinkInv ==
    Sound(page) =>
        /\ phase \in {"repeat", "bind", "refs", "wire"} => Chained(rows, supply)
        /\ phase = "repeat" => \A i \in DOMAIN todo : Pending(todo[i], rows, supply)
        /\ phase \in {"group", "build", "render", "done"} =>
               (Adopted(rows) => ChainsHold(rows))

LEMMA LinkInit == Init => LinkInv
<1>1. ASSUME RenderInit, Sound(page)
      PROVE  /\ phase = "repeat" /\ Chained(rows, supply)
             /\ \A i \in DOMAIN todo : Pending(todo[i], rows, supply)
    <2>1. PICK l \in Loads : page = l.rows /\ supply = l.supply /\ rows = page
        BY <1>1 DEF RenderInit
    <2>2. /\ rows \in Seq(Row) /\ Distinct(rows) /\ Body \notin IdsOf(rows)
          /\ IdsOf(rows) \cap ToSet(supply) = {}
        BY <2>1, LoadsAssumption DEF Distinct
    <2>3. ChainsHold(rows) /\ SiblingsAgree(rows)
        BY <1>1, <2>1, <2>2, SoundPage
    <2>4. LinksAreOld(rows, supply)
        <3> SUFFICES ASSUME NEW i \in DOMAIN rows
                     PROVE  rows[i].parent \notin ToSet(supply) /\ rows[i].prev \notin ToSet(supply)
            BY DEF LinksAreOld, ToSet
        <3> QED
            BY <2>1, LinksAssumption
    <2>5. /\ todo = Repeaters(rows) /\ phase = "repeat"
        BY <1>1 DEF RenderInit
    <2>6. ToSet(todo) = {r \in ToSet(rows) : r.repeat # NoColl}
        BY <2>2, <2>5, OnlyMembers DEF Repeaters
    <2>7. \A r, s \in ToSet(rows) : r.id = s.id => r = s
        BY <2>2 DEF Distinct, ToSet
    <2>8. ASSUME NEW i \in DOMAIN todo PROVE Pending(todo[i], rows, supply)
        <3>1. todo[i] \in ToSet(rows) /\ todo[i].repeat # NoColl
            BY <2>6 DEF ToSet
        <3>2. todo[i].id \in IdsOf(rows)
            BY <3>1, IdsAreOfRows
        <3> QED
            BY <2>2, <2>7, <3>1, <3>2 DEF Pending
    <2> QED
        BY <2>3, <2>4, <2>5, <2>8 DEF Chained
<1>2. LibraryInit => phase = "library"
    BY DEF LibraryInit
<1> QED
    BY <1>1, <1>2 DEF Init, LinkInv

\* The expansion of a repeater keeps the chains, and what is pending.
LEMMA ExpandLinks ==
    ASSUME PassInv, ExpandRepeater, Chained(rows, supply),
           \A i \in DOMAIN todo : Pending(todo[i], rows, supply)
    PROVE  /\ Chained(rows', supply')
           /\ \A i \in DOMAIN todo' : Pending(todo'[i], rows', supply')
<1>1. RowsOK(rows, supply) /\ phase = "repeat"
    BY DEF PassInv, ExpandRepeater
<1>2. todo \in Seq(Repeating) /\ todo # <<>> /\ todo' = Tail(todo)
    BY <1>1 DEF PassInv, ExpandRepeater
<1>3. /\ Head(todo) = todo[1] /\ 1 \in DOMAIN todo
      /\ \A i \in DOMAIN todo' : \E j \in DOMAIN todo : todo'[i] = todo[j]
    BY <1>2
<1>4. PICK p \in Nat, c \in Coll :
          /\ p = Head(todo).id
          /\ Read(c) \in Seq(Int)
          /\ \/ UNCHANGED <<rows, supply>>
             \/ \E r \in ToSet(rows) :
                   /\ r.parent = p /\ r.id \in IdsOf(rows)
                   /\ Used(rows, r.id, Read(c)) <= Len(supply)
                   /\ rows' = Expanded(rows, r.id, p, Read(c), supply)
                   /\ supply' = SubSeq(supply, Used(rows, r.id, Read(c)) + 1, Len(supply))
    BY ExpandCases
<1>5. CASE UNCHANGED <<rows, supply>>
    BY <1>3, <1>5
<1>6. ASSUME NEW r \in ToSet(rows), r.parent = p, r.id \in IdsOf(rows),
             Used(rows, r.id, Read(c)) <= Len(supply),
             rows' = Expanded(rows, r.id, p, Read(c), supply),
             supply' = SubSeq(supply, Used(rows, r.id, Read(c)) + 1, Len(supply))
      PROVE  /\ Chained(rows', supply')
             /\ \A i \in DOMAIN todo' : Pending(todo'[i], rows', supply')
    <2> DEFINE gone == Subtree(rows, r.id)
    <2>1. RowsOK(rows', supply')
        BY <1>1, <1>4, <1>6, ExpandedIsOK
    <2>2. PICK f : Expansion(rows', supply', rows, supply, gone, r.id, p, Read(c), f)
        BY <1>1, <1>4, <1>6, ExpandedIsExpansion
    <2>3. Pending(todo[1], rows, supply) /\ p = todo[1].id
        BY <1>3, <1>4
    <2>4. \A x \in ToSet(rows) : x.id = r.id => x.parent = p
        BY <1>1, <1>6 DEF RowsOK, Distinct, ToSet
    <2> HIDE DEF gone
    <2>5. ExpandsUnder(rows', supply', rows, supply, gone, r.id, p, Read(c), f)
        BY <1>1, <2>1, <2>2, <2>3, <2>4 DEF ExpandsUnder, Pending, Chained
    <2>6. Chained(rows', supply')
        BY <2>5, ExpansionLinks, ExpansionChains, ExpansionSiblings DEF Chained
    <2>7. ASSUME NEW t, Pending(t, rows, supply) PROVE Pending(t, rows', supply')
        <3>1. /\ Replaced(rows', rows, gone, r.id, p, Read(c), f)
              /\ NewIds(f, gone, Len(Read(c)), supply, supply')
              /\ ToSet(supply') \subseteq ToSet(supply)
            BY <2>2 DEF Expansion
        <3>2. ASSUME NEW x \in ToSet(rows'), x.id = t.id PROVE x.repeat # NoColl
            <4>1. CASE x \in ToSet(rows)
                BY <2>7, <3>2, <4>1 DEF Pending
            <4>2. ASSUME NEW d \in 0..(Len(Read(c)) - 1), NEW o \in ToSet(rows), o.id \in gone,
                         IsCopy(x, o, d, f, gone, r.id, p, Read(c))
                  PROVE  FALSE
                <5>1. x.id = f[d][o.id]
                    BY <4>2 DEF IsCopy
                <5>2. x.id \in ToSet(supply)
                    BY <3>1, <4>2, <5>1 DEF NewIds
                <5> QED
                    BY <2>7, <3>2, <5>2 DEF Pending
            <4> QED
                BY <3>1, <4>1, <4>2 DEF Replaced
        <3> QED
            BY <2>7, <3>1, <3>2 DEF Pending
    <2> QED
        BY <1>3, <2>6, <2>7
<1> QED
    BY <1>4, <1>5, <1>6

LEMMA LinkStep ==
    ASSUME PassInv, LinkInv, [Next]_vars
    PROVE  LinkInv'
<1>1. page' = page
    BY DEF Next, vars, passVars, LibraryCall, ExpandRepeater, RepeatersDone, BindRow,
           BindingsDone, ReadRef, InterpolateCollectionRefs, AutoWireForms, AutoWireHangs,
           GroupRows, BuildNode, NextParent, BuildDone, RenderStep, RenderDone, AddRecord,
           DropRecord, RecordChanges, Answered
<1> DEFINE Good ==
        /\ phase \in {"repeat", "bind", "refs", "wire"} => Chained(rows, supply)
        /\ phase = "repeat" => \A i \in DOMAIN todo : Pending(todo[i], rows, supply)
        /\ phase \in {"group", "build", "render", "done"} =>
               (Adopted(rows) => ChainsHold(rows))
<1>2. (Sound(page))' <=> Sound(page)
    BY <1>1 DEF Sound
<1> SUFFICES ASSUME Sound(page), Good PROVE Good'
    BY <1>2 DEF LinkInv
<1>3. CASE ExpandRepeater
    <2>1. phase = "repeat" /\ phase' = "repeat"
        BY <1>3 DEF ExpandRepeater
    <2>2. /\ Chained(rows', supply')
          /\ \A i \in DOMAIN todo' : Pending(todo'[i], rows', supply')
        BY <1>3, <2>1, ExpandLinks
    <2> QED
        BY <2>1, <2>2
<1>4. CASE BindRow \/ InterpolateCollectionRefs
    <2>1. /\ phase \in {"bind", "refs"} /\ phase' \in {"bind", "wire"} /\ supply' = supply
        BY <1>4 DEF BindRow, InterpolateCollectionRefs
    <2>2. SameRows(rows, rows')
        BY <1>4, FillKeepsRows
    <2>3. Chained(rows', supply')
        BY <2>1, <2>2, SameChains DEF Chained
    <2> QED
        BY <2>1, <2>3
<1>5. CASE AutoWireForms
    <2>1. RowsOK(rows, supply)
        BY DEF PassInv
    <2>2. /\ phase = "wire" /\ phase' = "group" /\ Len(FormRows(rows)) <= Len(supply)
          /\ rows' = Wired(rows, supply)
        BY <1>5, WireEffect DEF Wired
    <2>3. Adopted(rows') => ChainsHold(rows')
        BY <2>1, <2>2, WiredChains DEF Chained
    <2> QED
        BY <2>2, <2>3
<1>6. CASE RepeatersDone \/ BindingsDone
    BY <1>6 DEF RepeatersDone, BindingsDone
<1>7. CASE \/ LibraryCall \/ AutoWireHangs \/ GroupRows \/ BuildNode \/ NextParent \/ BuildDone
           \/ RenderStep \/ RenderDone
    <2>1. /\ rows' = rows
          /\ \/ phase' \in {"library", "hung", "failed"}
             \/ /\ phase \in {"group", "build", "render", "done"}
                /\ phase' \in {"group", "build", "render", "done"}
        BY <1>7 DEF passVars, LibraryCall, AutoWireHangs, GroupRows, BuildNode, NextParent,
               BuildDone, RenderStep, RenderDone
    <2> QED
        BY <2>1
<1>8. CASE \/ \E c \in Coll : ReadRef(c)
           \/ \E c \in Coll : AddRecord(c) \/ \E i \in DOMAIN records[c] : DropRecord(c, i)
           \/ Answered \/ UNCHANGED vars
    BY <1>8 DEF vars, passVars, ReadRef, AddRecord, DropRecord, RecordChanges, Answered
<1> QED
    BY <1>3, <1>4, <1>5, <1>6, <1>7, <1>8 DEF Next

-----------------------------------------------------------------------------
(* The order of the tree *)

\* AppendChild puts the new node behind its siblings.
LEMMA AppendsLast ==
    ASSUME TreeInv, NEW p, NEW u \in Uuid, NEW c \in Content, AppendChild(p, u, c),
           NEW id, id = handed + 1
    PROVE  /\ TreeInv' /\ p \in DOMAIN nodes /\ id \notin DOMAIN nodes
           /\ DOMAIN nodes' = DOMAIN nodes \cup {id}
           /\ nodes'[id].uuid = u /\ \A n \in DOMAIN nodes : nodes'[n].uuid = nodes[n].uuid
           /\ ChildList(nodes', id) = <<>>
           /\ ChildList(nodes', p) = Append(ChildList(nodes, p), id)
           /\ \A q \in DOMAIN nodes \ {p} : ChildList(nodes', q) = ChildList(nodes, q)
<1>1. /\ p \in DOMAIN nodes /\ Neighbours(nodes, p, nodes[p].last, NoNode)
      /\ nodes[p].last \in Nat /\ NoNode \in Nat
      /\ Insert(p, nodes[p].last, NoNode, u, c)
    BY EndIsNeighbour DEF AppendChild, TreeInv, NoNode
<1>2. /\ TreeInv' /\ id \notin DOMAIN nodes
      /\ DOMAIN nodes' = DOMAIN nodes \cup {id}
      /\ nodes'[id].uuid = u /\ nodes'[id].next = NoNode
      /\ \A n \in DOMAIN nodes : nodes'[n].uuid = nodes[n].uuid
      /\ ChildList(nodes', id) = <<>>
      /\ \A q \in DOMAIN nodes \ {p} : ChildList(nodes', q) = ChildList(nodes, q)
      /\ \E i \in 1..Len(ChildList(nodes, p)) + 1 :
            ChildList(nodes', p) = InsertAt(ChildList(nodes, p), i, id)
    <2>1. PICK l, r \in Nat : /\ l = nodes[p].last /\ r = NoNode
                              /\ Neighbours(nodes, p, l, r) /\ Insert(p, l, r, u, c)
        BY <1>1
    <2>2. TreeInv' /\ ComesIn(nodes, nodes', p, r, u, id)
        BY <2>1, InsertLists
    <2> QED
        BY <2>1, <2>2 DEF ComesIn
<1> DEFINE s == ChildList(nodes, p)
           w == ChildList(nodes', p)
<1>3. PICK i \in 1..Len(s) + 1 : w = InsertAt(s, i, id)
    BY <1>2
<1>4. s \in Seq(DOMAIN nodes) /\ Len(s) \in Nat
    BY <1>1, TreeInvForest, ListIsSeq
<1>5. p \in DOMAIN nodes' /\ IsForest(nodes') /\ IsList(nodes', p, w)
    BY <1>1, <1>2, TreeInvForestPrime, ChildListIsList
<1> HIDE DEF s, w
<1>6. IsInserted(w, DOMAIN nodes', s, i, id)
    <2>1. s \in Seq(DOMAIN nodes') /\ id \in DOMAIN nodes'
        <3>1. DOMAIN nodes \subseteq DOMAIN nodes' /\ id \in DOMAIN nodes'
            BY <1>2
        <3> QED
            BY <1>4, <3>1, SeqMonotonic
    <2> QED
        BY <1>3, <2>1, InsertAtForm
<1>7. /\ w \in Seq(DOMAIN nodes') /\ Len(w) = Len(s) + 1
      /\ \A j \in 1..Len(s) + 1 : w[j] = IF j < i THEN s[j] ELSE IF j = i THEN id ELSE s[j - 1]
    BY <1>6 DEF IsInserted
<1>8. i = Len(s) + 1
    <2> SUFFICES ASSUME i # Len(s) + 1 PROVE FALSE
        OBVIOUS
    <2>1. i \in 1..Len(w) /\ i + 1 \in 1..Len(w) /\ i + 1 # 1 /\ (i + 1) - 1 = i
        BY <1>3, <1>4, <1>7
    <2>2. w[i] = id
        BY <1>3, <1>7
    <2> DEFINE x == w[i + 1]
    <2>3. nodes'[x].prev = id /\ x \in DOMAIN nodes'
        <3>1. nodes'[x].prev = IF i + 1 = 1 THEN NoNode ELSE w[(i + 1) - 1]
            BY <1>5, <2>1 DEF IsList
        <3>2. x \in DOMAIN nodes'
            BY <1>7, <2>1
        <3> QED
            BY <2>1, <2>2, <3>1, <3>2
    <2> HIDE DEF x
    <2>4. Typed(nodes') /\ LeftLinks(nodes')
        BY <1>5 DEF IsForest, Whole
    <2>5. NoNode \notin DOMAIN nodes'
        BY <2>4 DEF Typed, NoNode
    <2>6. nodes'[id].next = x
        BY <1>2, <2>3, <2>4, <2>5 DEF LeftLinks
    <2> QED
        BY <1>2, <2>3, <2>5, <2>6
<1>9. w = Append(s, id)
    <2>1. /\ Len(Append(s, id)) = Len(s) + 1 /\ Append(s, id) \in Seq(DOMAIN nodes')
          /\ \A j \in 1..Len(s) : Append(s, id)[j] = s[j]
          /\ Append(s, id)[Len(s) + 1] = id
        <3>1. s \in Seq(DOMAIN nodes') /\ id \in DOMAIN nodes'
            <4>1. DOMAIN nodes \subseteq DOMAIN nodes' /\ id \in DOMAIN nodes'
                BY <1>2
            <4> QED
                BY <1>4, <4>1, SeqMonotonic
        <3> QED
            BY <3>1, AppendProperties
    <2>2. \A j \in 1..Len(s) + 1 : w[j] = Append(s, id)[j]
        BY <1>4, <1>7, <1>8, <2>1
    <2>3. Len(w) = Len(s) + 1 /\ w \in Seq(DOMAIN nodes')
        BY <1>7
    <2> QED
        BY <2>1, <2>2, <2>3, SeqEqual
<1> QED
    BY <1>1, <1>2, <1>9 DEF s, w

\* The uuids of the children of n, in the order of the tree.
KidNames(n) == Names(nodes, ChildList(nodes, n))

\* What the build has appended of a group and what it has not yet make up the
\* order of the siblings.
OrderInv ==
    Built =>
        /\ \A n \in DOMAIN nodes :
               KidNames(n) \o groups[nodes[n].uuid] = OrderSiblings(Under(rows, nodes[n].uuid))
        /\ \A q \in DOMAIN groups \ DOMAIN by_uuid : groups[q] = OrderSiblings(Under(rows, q))
        /\ phase # "build" => queue = <<>>

LEMMA HeadMoves ==
    ASSUME NEW X, NEW a \in Seq(X), NEW b \in Seq(X), b # <<>>
    PROVE  Append(a, Head(b)) \o Tail(b) = a \o b
<1>1. Head(b) = b[1] /\ b[1] \in X /\ Tail(b) \in Seq(X) /\ Len(b) \in Nat /\ Len(b) > 0
    OBVIOUS
<1>2. Len(Tail(b)) = Len(b) - 1 /\ \A i \in 1..(Len(b) - 1) : Tail(b)[i] = b[i + 1]
    BY <1>1
<1> DEFINE c == Append(a, Head(b))
<1>3. c \in Seq(X) /\ Len(c) = Len(a) + 1 /\ Len(a) \in Nat
      /\ (\A i \in 1..Len(a) : c[i] = a[i]) /\ c[Len(a) + 1] = b[1]
    BY <1>1
<1> HIDE DEF c
<1>4. /\ c \o Tail(b) \in Seq(X) /\ Len(c \o Tail(b)) = Len(a) + Len(b)
      /\ \A i \in 1..(Len(a) + Len(b)) :
            (c \o Tail(b))[i] = IF i <= Len(a) + 1 THEN c[i] ELSE Tail(b)[i - (Len(a) + 1)]
    <2> DEFINE t == Tail(b)
    <2>1. t \in Seq(X) /\ Len(t) = Len(b) - 1
        BY <1>1, <1>2
    <2> HIDE DEF t
    <2>2. /\ c \o t \in Seq(X) /\ Len(c \o t) = Len(c) + Len(t)
          /\ \A i \in 1..(Len(c) + Len(t)) :
                (c \o t)[i] = IF i <= Len(c) THEN c[i] ELSE t[i - Len(c)]
        BY <1>3, <2>1, ConcatProperties
    <2>3. Len(c) + Len(t) = Len(a) + Len(b)
        BY <1>1, <1>3, <2>1
    <2> QED
        BY <1>3, <2>2, <2>3 DEF t
<1>5. /\ a \o b \in Seq(X) /\ Len(a \o b) = Len(a) + Len(b)
      /\ \A i \in 1..(Len(a) + Len(b)) :
            (a \o b)[i] = IF i <= Len(a) THEN a[i] ELSE b[i - Len(a)]
    BY <1>1, <1>3
<1>6. ASSUME NEW i \in 1..(Len(a) + Len(b))
      PROVE  (c \o Tail(b))[i] = (a \o b)[i]
    <2>1. CASE i <= Len(a)
        BY <1>3, <1>4, <1>5, <2>1
    <2>2. CASE i = Len(a) + 1
        BY <1>3, <1>4, <1>5, <2>2
    <2>3. CASE i > Len(a) + 1
        <3>1. i - (Len(a) + 1) \in 1..(Len(b) - 1) /\ (i - (Len(a) + 1)) + 1 = i - Len(a)
            BY <1>1, <1>3, <2>3
        <3> QED
            BY <1>2, <1>4, <1>5, <2>3, <3>1
    <2> QED
        BY <1>1, <1>3, <2>1, <2>2, <2>3
<1> QED
    BY <1>4, <1>5, <1>6, SeqEqual DEF c

LEMMA OrderGroup ==
    ASSUME PassInv, BuildInv, GroupRows, phase' = "build"
    PROVE  OrderInv'
<1>1. /\ groups' = [p \in IdsOf(rows) \cup {Body} |-> OrderSiblings(Under(rows, p))]
      /\ phase = "group" /\ UNCHANGED arenaVars /\ rows' = rows
    BY DEF GroupRows, passVars
<1>2. /\ DOMAIN nodes = {root} /\ nodes[root].uuid = Body /\ TreeInv
    BY <1>1 DEF BuildInv, BelowInv
<1>3. DOMAIN by_uuid = {Body}
    BY <1>2 DEF TreeInv, IndexIsExact
<1>4. KidNames(root) = <<>>
    <2>1. nodes[root].parent # root
        BY <1>2 DEF TreeInv, Typed, NoNode
    <2>2. ChildrenOf(nodes, root) = {}
        BY <1>2, <2>1 DEF ChildrenOf
    <2>3. IsList(nodes, root, <<>>)
        BY <2>2 DEF IsList
    <2>4. ChildList(nodes, root) = <<>>
        BY <1>2, <2>3, TreeInvForest, OneList
    <2> QED
        BY <2>4 DEF KidNames, Names
<1>5. groups'[Body] = OrderSiblings(Under(rows, Body))
    BY <1>1
<1>6. KidNames(root) \o groups'[Body] = OrderSiblings(Under(rows, Body))
    <2>1. rows \in Seq(Row)
        BY DEF PassInv, RowsOK
    <2>2. Under(rows, Body) \in Seq(Row)
        BY <2>1, UnderMembers
    <2>3. OrderSiblings(Under(rows, Body)) \in Seq(IdsOf(Under(rows, Body)))
        BY <2>2, OrderSiblingsMembers
    <2> DEFINE g == OrderSiblings(Under(rows, Body))
    <2>4. groups'[Body] = g /\ g \in Seq(IdsOf(Under(rows, Body)))
        BY <1>5, <2>3
    <2> HIDE DEF g
    <2>5. <<>> \o g = g
        BY <2>4
    <2> QED
        BY <1>4, <2>4, <2>5 DEF g
<1>7. \A n \in DOMAIN nodes' :
          KidNames(n)' \o groups'[nodes'[n].uuid] = OrderSiblings(Under(rows', nodes'[n].uuid))
    BY <1>1, <1>2, <1>6 DEF KidNames, arenaVars
<1>8. \A q \in DOMAIN groups' \ DOMAIN by_uuid' : groups'[q] = OrderSiblings(Under(rows', q))
    BY <1>1
<1> QED
    BY <1>7, <1>8 DEF OrderInv, Built

LEMMA OrderNode ==
    ASSUME PassInv, BuildInv, OrderInv, BuildNode
    PROVE  OrderInv'
<1> DEFINE p == Head(queue)
           u == Head(groups[p])
           c == RowOf(u).tag
           k == by_uuid[p]
           id == handed + 1
           P == IdsOf(rows) \cup {Body}
<1>1. /\ phase = "build" /\ queue # <<>> /\ groups[p] # <<>> /\ AppendChild(k, u, c)
      /\ groups' = [groups EXCEPT ![p] = Tail(@)] /\ rows' = rows
    BY DEF BuildNode, passVars
<1>2. TreeInv /\ GroupsInv /\ PassInv /\ Built
    BY <1>1 DEF BuildInv, Built, BelowInv
<1>3. groups \in [P -> Seq(IdsOf(rows))] /\ p \in P /\ p \in DOMAIN by_uuid
    <2>1. queue \in Seq(P) /\ ToSet(queue) \subseteq DOMAIN by_uuid
        BY <1>2 DEF GroupsInv
    <2> HIDE DEF P
    <2>2. 1 \in DOMAIN queue /\ p = queue[1] /\ queue[1] \in P
        BY <1>1, <2>1
    <2>3. p \in DOMAIN by_uuid
        BY <2>1, <2>2 DEF ToSet
    <2> QED
        BY <1>2, <2>2, <2>3 DEF GroupsInv, P
<1>4. groups[p] \in Seq(IdsOf(rows)) /\ u \in IdsOf(rows)
    <2>1. groups[p] \in Seq(IdsOf(rows))
        BY <1>3
    <2> DEFINE g == groups[p]
    <2>2. g \in Seq(IdsOf(rows)) /\ g # <<>>
        BY <1>1, <2>1
    <2> HIDE DEF g
    <2>3. Head(g) \in IdsOf(rows)
        BY <2>2
    <2> QED
        BY <2>1, <2>3 DEF g
<1>5. c \in Content /\ u \in Uuid
    <2>1. rows \in Seq(Row) /\ IdsOf(rows) \subseteq Uuid
        BY <1>2 DEF PassInv, RowsOK
    <2>2. RowOf(u).tag \in {"box", "form", "input", "#text"}
        BY <1>4, <2>1, RowOfId, RowFields
    <2> QED
        BY <1>4, <2>1, <2>2, RenderAssumption
<1>6. /\ \A n \in DOMAIN nodes : nodes[n].uuid \in DOMAIN by_uuid /\ by_uuid[nodes[n].uuid] = n
      /\ k \in DOMAIN nodes /\ nodes[k].uuid = p
    BY <1>2, <1>3 DEF TreeInv, IndexIsExact
<1> HIDE DEF p, u, c, k
<1>7. /\ id \notin DOMAIN nodes /\ DOMAIN nodes' = DOMAIN nodes \cup {id} /\ k \in DOMAIN nodes
      /\ nodes'[id].uuid = u /\ \A n \in DOMAIN nodes : nodes'[n].uuid = nodes[n].uuid
      /\ ChildList(nodes', id) = <<>>
      /\ ChildList(nodes', k) = Append(ChildList(nodes, k), id)
      /\ \A q \in DOMAIN nodes \ {k} : ChildList(nodes', q) = ChildList(nodes, q)
    BY <1>1, <1>2, <1>5, AppendsLast
<1>8. DOMAIN by_uuid' = DOMAIN by_uuid \cup {u} /\ u \notin DOMAIN by_uuid
    BY <1>1 DEF AppendChild, Insert
<1> HIDE DEF id
<1>9. \A n \in DOMAIN nodes : /\ ChildList(nodes, n) \in Seq(DOMAIN nodes)
                              /\ NamesOf(KidNames(n), nodes, ChildList(nodes, n))
    <2>1. IsForest(nodes)
        BY <1>2, TreeInvForest
    <2> QED
        BY <2>1, ListIsSeq, NamesFields DEF KidNames, IsForest
<1>10. /\ \A q \in P \ {p} : groups'[q] = groups[q]
       /\ groups'[p] = Tail(groups[p]) /\ DOMAIN groups' = P /\ DOMAIN groups = P
    BY <1>1, <1>3
<1>11. /\ \A n \in DOMAIN nodes :
              KidNames(n) \o groups[nodes[n].uuid] = OrderSiblings(Under(rows, nodes[n].uuid))
       /\ \A q \in P \ DOMAIN by_uuid : groups[q] = OrderSiblings(Under(rows, q))
    BY <1>2, <1>10 DEF OrderInv
<1>12. Names(nodes', ChildList(nodes', k)) \o groups'[p] = OrderSiblings(Under(rows, p))
    <2>1. Names(nodes', ChildList(nodes', k)) = Append(KidNames(k), u)
        <3> DEFINE s == ChildList(nodes, k)
                   w == KidNames(k)
        <3>1. s \in Seq(DOMAIN nodes) /\ NamesOf(w, nodes, s)
            BY <1>7, <1>9
        <3>2. Names(nodes', ChildList(nodes', k)) = Names(nodes', Append(s, id)) /\ id \in DOMAIN nodes'
            BY <1>7
        <3> HIDE DEF s, w
        <3>3. /\ Len(s) \in Nat /\ DOMAIN Append(s, id) = 1..(Len(s) + 1)
              /\ Append(s, id)[Len(s) + 1] = id /\ \A i \in 1..Len(s) : Append(s, id)[i] = s[i]
            BY <3>1
        <3>4. Names(nodes', ChildList(nodes', k)) = [i \in 1..(Len(s) + 1) |-> nodes'[Append(s, id)[i]].uuid]
            BY <3>2, <3>3 DEF Names
        <3>5. /\ w \in Seq(Uuid) /\ Len(w) = Len(s)
              /\ \A i \in 1..Len(s) : s[i] \in DOMAIN nodes /\ w[i] = nodes[s[i]].uuid
            BY <3>1 DEF NamesOf
        <3>6. Append(w, u) = [i \in 1..(Len(s) + 1) |-> IF i = Len(s) + 1 THEN u ELSE w[i]]
            <4> DEFINE a == Append(w, u)
            <4>1. /\ a \in Seq(Uuid) /\ Len(a) = Len(s) + 1 /\ a[Len(s) + 1] = u
                  /\ \A i \in 1..Len(s) : a[i] = w[i]
                BY <1>5, <3>5, AppendProperties
            <4> HIDE DEF a
            <4>2. a = [i \in 1..(Len(s) + 1) |-> a[i]]
                BY <4>1
            <4>3. \A i \in 1..(Len(s) + 1) : a[i] = IF i = Len(s) + 1 THEN u ELSE w[i]
                BY <3>3, <4>1
            <4> QED
                BY <4>2, <4>3 DEF a
        <3>7. \A i \in 1..(Len(s) + 1) :
                  nodes'[Append(s, id)[i]].uuid = IF i = Len(s) + 1 THEN u ELSE w[i]
            BY <1>7, <3>3, <3>5
        <3>8. Names(nodes', ChildList(nodes', k)) = Append(w, u)
            BY <3>4, <3>6, <3>7
        <3> QED
            BY <3>8 DEF w
    <2>2. KidNames(k) \in Seq(Uuid)
        BY <1>7, <1>9 DEF NamesOf
    <2>3. groups[p] \in Seq(Uuid)
        <3>1. IdsOf(rows) \subseteq Uuid
            BY <1>2 DEF PassInv, RowsOK
        <3> QED
            BY <1>4, <3>1, SeqMonotonic
    <2>4. Append(KidNames(k), Head(groups[p])) \o Tail(groups[p]) = KidNames(k) \o groups[p]
        BY <1>1, <2>2, <2>3, HeadMoves
    <2>5. Names(nodes', ChildList(nodes', k)) \o groups'[p] = KidNames(k) \o groups[p]
        BY <1>10, <2>1, <2>4 DEF u
    <2> QED
        BY <1>6, <1>7, <1>11, <2>5
<1>13. Names(nodes', ChildList(nodes', id)) \o groups'[u] = OrderSiblings(Under(rows, u))
    <2>1. Names(nodes', ChildList(nodes', id)) = <<>>
        BY <1>7 DEF Names
    <2>2. u \in P /\ u # p
        BY <1>3, <1>4, <1>8
    <2>3. groups'[u] = OrderSiblings(Under(rows, u)) /\ groups[u] \in Seq(IdsOf(rows))
        BY <1>3, <1>8, <1>10, <1>11, <2>2
    <2> DEFINE g == groups[u]
    <2>4. g \in Seq(IdsOf(rows)) /\ groups'[u] = g
        BY <1>10, <2>2, <2>3
    <2> HIDE DEF g
    <2>5. <<>> \o g = g
        BY <2>4
    <2> QED
        BY <2>1, <2>3, <2>4, <2>5
<1>14. ASSUME NEW n \in DOMAIN nodes, n # k
       PROVE  Names(nodes', ChildList(nodes', n)) \o groups'[nodes[n].uuid] = OrderSiblings(Under(rows, nodes[n].uuid))
    <2>1. nodes[n].uuid # p /\ nodes[n].uuid \in P
        BY <1>2, <1>6, <1>14 DEF GroupsInv, k
    <2>2. Names(nodes', ChildList(nodes', n)) = KidNames(n)
        <3>1. Names(nodes', ChildList(nodes', n)) = Names(nodes', ChildList(nodes, n))
            BY <1>7, <1>14
        <3> QED
            BY <1>7, <1>9, <3>1, NamesKept DEF KidNames
    <2> QED
        BY <1>10, <1>11, <2>1, <2>2
<1>15. \A n \in DOMAIN nodes' :
           KidNames(n)' \o groups'[nodes'[n].uuid] = OrderSiblings(Under(rows', nodes'[n].uuid))
    <2>1. ASSUME NEW n \in DOMAIN nodes'
          PROVE  Names(nodes', ChildList(nodes', n)) \o groups'[nodes'[n].uuid]
                     = OrderSiblings(Under(rows, nodes'[n].uuid))
        BY <1>6, <1>7, <1>12, <1>13, <1>14
    <2> QED
        BY <1>1, <2>1 DEF KidNames
<1>16. \A q \in DOMAIN groups' \ DOMAIN by_uuid' : groups'[q] = OrderSiblings(Under(rows', q))
    BY <1>1, <1>3, <1>8, <1>10, <1>11
<1>17. phase' = "build"
    BY DEF BuildNode
<1> QED
    BY <1>15, <1>16, <1>17 DEF OrderInv, Built

LEMMA OrderStep ==
    ASSUME PassInv, BuildInv, OrderInv, [Next]_vars
    PROVE  OrderInv'
<1>1. CASE GroupRows
    <2>1. CASE phase' = "build"
        BY <1>1, <2>1, OrderGroup
    <2>2. CASE phase' # "build"
        BY <1>1, <2>2 DEF GroupRows, OrderInv, Built
    <2> QED
        BY <2>1, <2>2
<1>2. CASE BuildNode
    BY <1>2, OrderNode
<1>3. CASE \/ NextParent \/ BuildDone \/ RenderStep \/ RenderDone \/ Answered \/ UNCHANGED vars
    <2>1. /\ UNCHANGED <<arenaVars, rows, groups>> /\ (Built' => Built)
          /\ (phase # "build" => queue = <<>>) => (phase' \in {"render", "done"} => queue' = <<>>)
        BY <1>3 DEF NextParent, BuildDone, RenderStep, RenderDone, Answered, vars, passVars,
               buildVars, Built
    <2> QED
        BY <2>1 DEF OrderInv, KidNames, arenaVars, Built
<1>4. CASE \/ LibraryCall \/ ExpandRepeater \/ RepeatersDone \/ BindRow \/ BindingsDone
           \/ \E c \in Coll : ReadRef(c)
           \/ InterpolateCollectionRefs \/ AutoWireForms \/ AutoWireHangs
           \/ \E c \in Coll : AddRecord(c) \/ \E i \in DOMAIN records[c] : DropRecord(c, i)
    <2>1. ~ Built'
        BY <1>4 DEF LibraryCall, ExpandRepeater, RepeatersDone, BindRow, BindingsDone, ReadRef,
               InterpolateCollectionRefs, AutoWireForms, AutoWireHangs, AddRecord, DropRecord,
               RecordChanges, Built
    <2> QED
        BY <2>1 DEF OrderInv
<1> QED
    BY <1>1, <1>2, <1>3, <1>4 DEF Next

LEMMA OrderInit == Init => OrderInv
BY DEF Init, RenderInit, LibraryInit, OrderInv, Built

\* Once the build is done the lists of the tree are the siblings in order.
LEMMA TreeFollowsRows ==
    ASSUME PassInv, BuildInv, OrderInv, phase \in {"render", "done"}, NEW n \in DOMAIN nodes
    PROVE  KidNames(n) = OrderSiblings(Under(rows, nodes[n].uuid))
<1>1. TreeInv /\ GroupsInv /\ queue = <<>> /\ Built
    BY DEF BuildInv, BelowInv, OrderInv, Built
<1>2. groups[nodes[n].uuid] = <<>>
    BY <1>1 DEF TreeInv, IndexIsExact, GroupsInv, ToSet
<1>3. KidNames(n) \in Seq(Uuid)
    <2>1. IsForest(nodes)
        BY <1>1, TreeInvForest
    <2>2. NamesOf(KidNames(n), nodes, ChildList(nodes, n))
        BY <2>1, ListIsSeq, NamesFields DEF KidNames, IsForest
    <2> QED
        BY <2>2 DEF NamesOf
<1>4. KidNames(n) \o <<>> = KidNames(n)
    <2> DEFINE w == KidNames(n)
    <2>1. w \in Seq(Uuid)
        BY <1>3
    <2> HIDE DEF w
    <2>2. w \o <<>> = w
        BY <2>1
    <2> QED
        BY <2>2 DEF w
<1> QED
    BY <1>1, <1>2, <1>4 DEF OrderInv

-----------------------------------------------------------------------------
(* The order of the markup *)

\* a and b have one parent, which lists a first.
Before(a, b) ==
    \E p \in DOMAIN nodes : \E i, j \in DOMAIN ChildList(nodes, p) :
        i < j /\ a = ChildList(nodes, p)[i] /\ b = ChildList(nodes, p)[j]

\* Siblings are opened in their order, are on the stack in their order, and
\* are in the markup in their order.
OpensInOrder(st) == \A a, b : Before(a, b) /\ b \in Opened(st) => a \in Opened(st)

StacksInOrder(st) ==
    \A a, b : Before(a, b) => \A i, j \in DOMAIN st : st[i] = a /\ st[j] = b => i < j

ShowsInOrder(st, o) ==
    \A a, b \in Opened(st) : Before(a, b) /\ Emits(a) /\ Emits(b) =>
        \A i, j \in DOMAIN o : o[i] = U(a) /\ o[j] = U(b) => i < j

InOrder(st, o) == OpensInOrder(st) /\ StacksInOrder(st) /\ ShowsInOrder(st, o)

\* The children of p have a before b.
ListedIn(a, b, p) ==
    \E i, j \in DOMAIN ChildList(nodes, p) :
        i < j /\ a = ChildList(nodes, p)[i] /\ b = ChildList(nodes, p)[j]

LEMMA BeforeFacts ==
    ASSUME TreeInv, TreeOrder, NEW a, NEW b, Before(a, b)
    PROVE  \E p \in DOMAIN nodes :
              /\ a \in ChildrenOf(nodes, p) /\ b \in ChildrenOf(nodes, p) /\ a # b
              /\ a \in DOMAIN nodes \ {root} /\ b \in DOMAIN nodes \ {root}
              /\ a \in Nat /\ a > 0 /\ b \in Nat /\ b > 0
              /\ Up(a) = {a} \cup Up(p) /\ Up(b) = {b} \cup Up(p)
              /\ a \notin Up(p) /\ b \notin Up(p)
              /\ ListedIn(a, b, p)
<1>1. PICK p \in DOMAIN nodes : \E i, j \in DOMAIN ChildList(nodes, p) :
          i < j /\ a = ChildList(nodes, p)[i] /\ b = ChildList(nodes, p)[j]
    BY DEF Before
<1> DEFINE l == ChildList(nodes, p)
<1>2. IsForest(nodes)
    BY TreeInvForest
<1>3. /\ l \in Seq(ChildrenOf(nodes, p)) /\ ToSet(l) = ChildrenOf(nodes, p)
      /\ \A i, j \in DOMAIN l : l[i] = l[j] => i = j
    BY <1>2, ChildListIsExact DEF IsForest
<1> HIDE DEF l
<1>4. PICK i, j \in DOMAIN l : i < j /\ a = l[i] /\ b = l[j]
    BY <1>1 DEF l
<1>5. a \in ChildrenOf(nodes, p) /\ b \in ChildrenOf(nodes, p)
    BY <1>3, <1>4 DEF ToSet
<1>6. a # b
    <2>1. i \in Nat /\ j \in Nat
        BY <1>3, <1>4
    <2>2. i # j
        BY <1>4, <2>1
    <2> QED
        BY <1>3, <1>4, <2>2
<1>7. \A x \in ChildrenOf(nodes, p) :
          /\ x \in DOMAIN nodes \ {root} /\ x \in Nat /\ x > 0
          /\ Up(x) = {x} \cup Up(p) /\ x \notin Up(p)
    BY DEF TreeOrder, ChildrenOf
<1> QED
    BY <1>1, <1>5, <1>6, <1>7 DEF ListedIn

\* The siblings on the left of the top of the stack have been opened.
LEMMA LeftOnesOpened ==
    ASSUME TreeInv, TreeOrder, NEW st, StackOK(st), st # <<>>, NEW n, n = st[1], n > 0,
           StacksInOrder(st), NEW a, Before(a, n)
    PROVE  a \in Opened(st)
<1>1. PICK p \in DOMAIN nodes :
          /\ a \in DOMAIN nodes /\ n \in DOMAIN nodes /\ a # n
          /\ Up(a) = {a} \cup Up(p) /\ Up(n) = {n} \cup Up(p)
          /\ a \notin Up(p) /\ n \notin Up(p)
    BY BeforeFacts
<1>2. /\ st \in Seq(Int) /\ 1 \in DOMAIN st /\ n \in Live
      /\ \A i \in DOMAIN st \ {1} : st[i] \notin Up(n) /\ 1 < i
    BY UnderTop
<1>3. a \in Live
    BY <1>1, <1>2 DEF Live
<1>4. ASSUME NEW i \in DOMAIN st PROVE st[i] \notin Up(a)
    <2>1. st[i] # a
        <3>1. st[i] = a => i < 1
            BY <1>2 DEF StacksInOrder
        <3>2. 1 \in DOMAIN st /\ st \in Seq(Int) /\ i >= 1
            BY <1>2
        <3> QED
            BY <3>1, <3>2
    <2>2. st[i] \notin Up(p)
        BY <1>1, <1>2
    <2> QED
        BY <1>1, <2>1, <2>2
<1> QED
    BY <1>3, <1>4 DEF Opened, ToSet

LEMMA OpenedInOrder ==
    ASSUME TreeInv, TreeOrder, RowNodes, NEW st, StackOK(st), st # <<>>, NEW n, n = st[1], n > 0,
           NEW w, Opened(w) = Opened(st) \cup {n}, n \notin Opened(st),
           NEW o, OutOK(st, o), InOrder(st, o)
    PROVE  OpensInOrder(w) /\ ShowsInOrder(w, IF Emits(n) THEN Append(o, U(n)) ELSE o)
<1>1. OpensInOrder(st) /\ StacksInOrder(st) /\ ShowsInOrder(st, o)
    BY DEF InOrder
<1>2. OpensInOrder(w)
    BY <1>1, LeftOnesOpened DEF OpensInOrder
<1>3. \A b \in Opened(st) : ~ Before(n, b)
    BY <1>1 DEF OpensInOrder
<1>4. \A m \in Opened(w) : m \in DOMAIN nodes
    BY LiveNodes DEF Opened
<1>5. \A m \in DOMAIN nodes : Emits(m) \/ Inner(m) => U(m) \in Nat /\ U(m) > 0 /\ m # root
    BY DEF Emits, Inner, RowNodes
<1>6. CASE ~ Emits(n)
    BY <1>1, <1>2, <1>6 DEF ShowsInOrder
<1>7. CASE Emits(n)
    <2> DEFINE p == Append(o, U(n))
               l == Len(o) + 1
    <2>1. /\ o \in Seq(Int)
          /\ \A y \in Int : y \in ToSet(o) =>
                 \E x \in Opened(st) : (Emits(x) /\ y = U(x)) \/ (Inner(x) /\ y = -U(x))
        BY DEF OutOK, Shows
    <2>2. n \in DOMAIN nodes /\ U(n) \in Int
        BY <1>4, <1>5, <1>7
    <2>3. /\ \A i \in DOMAIN p : (i \in DOMAIN o /\ p[i] = o[i]) \/ (i = l /\ p[i] = U(n))
          /\ \A i \in DOMAIN o : i < l
        BY <2>1, <2>2, OneMoreAtEnd
    <2> HIDE DEF p, l
    <2>4. U(n) \notin ToSet(o)
        <3> SUFFICES ASSUME NEW x \in Opened(st), \/ Emits(x) /\ U(n) = U(x)
                                                  \/ Inner(x) /\ U(n) = -U(x)
                     PROVE  FALSE
            BY <2>1, <2>2
        <3>1. x \in DOMAIN nodes /\ x # n
            BY <1>4
        <3>2. U(x) \in Nat /\ U(x) > 0 /\ U(n) \in Nat /\ U(n) > 0 /\ x # root /\ n # root
            BY <1>5, <1>7, <2>2, <3>1
        <3>3. U(n) # U(x)
            BY <2>2, <3>1, <3>2 DEF RowNodes
        <3> QED
            BY <3>2, <3>3
    <2>5. ASSUME NEW a \in Opened(w), NEW b \in Opened(w), Before(a, b), Emits(a), Emits(b),
                 NEW i \in DOMAIN p, NEW j \in DOMAIN p, p[i] = U(a), p[j] = U(b)
          PROVE  i < j
        <3>1. a # n
            <4>1. b # n => b \in Opened(st)
                OBVIOUS
            <4>2. ~ Before(n, n)
                BY BeforeFacts
            <4> QED
                BY <1>3, <2>5, <4>1, <4>2
        <3>2. a \in Opened(st) /\ a \in DOMAIN nodes /\ b \in DOMAIN nodes
            BY <1>4, <3>1
        <3>3. U(a) # U(n)
            BY <1>5, <1>7, <2>2, <2>5, <3>1, <3>2 DEF RowNodes
        <3>4. i \in DOMAIN o /\ o[i] = U(a)
            BY <2>3, <2>5, <3>3
        <3>5. CASE b = n
            <4>1. j = l
                BY <2>3, <2>4, <2>5, <3>5 DEF ToSet
            <4> QED
                BY <2>3, <3>4, <4>1
        <3>6. CASE b # n
            <4>1. U(b) # U(n)
                BY <1>5, <1>7, <2>2, <2>5, <3>2, <3>6 DEF RowNodes
            <4>2. b \in Opened(st) /\ j \in DOMAIN o /\ o[j] = U(b)
                BY <2>3, <2>5, <3>6, <4>1
            <4> QED
                BY <1>1, <2>5, <3>2, <3>4, <4>2 DEF ShowsInOrder
        <3> QED
            BY <3>5, <3>6
    <2> QED
        BY <1>2, <1>7, <2>5 DEF ShowsInOrder, p
<1> QED
    BY <1>6, <1>7

\* What the pop of an entry leaves of the stack is in order.
LEMMA PoppedInOrder ==
    ASSUME NEW st \in Seq(Int), st # <<>>, StacksInOrder(st)
    PROVE  StacksInOrder(Tail(st))
<1> SUFFICES ASSUME NEW a, NEW b, Before(a, b),
                    NEW i \in DOMAIN Tail(st), NEW j \in DOMAIN Tail(st),
                    Tail(st)[i] = a, Tail(st)[j] = b
             PROVE  i < j
    BY DEF StacksInOrder
<1>1. /\ i \in Nat /\ j \in Nat /\ i + 1 \in DOMAIN st /\ j + 1 \in DOMAIN st
      /\ Tail(st)[i] = st[i + 1] /\ Tail(st)[j] = st[j + 1]
    OBVIOUS
<1>2. i + 1 < j + 1
    BY <1>1 DEF StacksInOrder
<1> QED
    BY <1>1, <1>2

LEMMA ClosedInOrder ==
    ASSUME TreeOrder, RowNodes, NEW st, NEW n, Inner(n), n \in DOMAIN nodes,
           NEW w, Opened(w) = Opened(st),
           NEW o, o \in Seq(Int), InOrder(st, o)
    PROVE  OpensInOrder(w) /\ ShowsInOrder(w, Append(o, -U(n)))
<1>1. OpensInOrder(st) /\ ShowsInOrder(st, o)
    BY DEF InOrder
<1>2. OpensInOrder(w)
    BY <1>1 DEF OpensInOrder
<1>3. \A m \in Opened(w) : m \in DOMAIN nodes
    BY LiveNodes DEF Opened
<1>4. \A m \in DOMAIN nodes : Emits(m) \/ Inner(m) => U(m) \in Nat /\ U(m) > 0
    BY DEF Emits, Inner, RowNodes
<1> DEFINE p == Append(o, -U(n))
<1>5. \A i \in DOMAIN p : (i \in DOMAIN o /\ p[i] = o[i]) \/ p[i] = -U(n)
    <2>1. -U(n) \in Int
        BY <1>4
    <2> QED
        BY <2>1, OneMoreAtEnd
<1> HIDE DEF p
<1>6. \A i \in DOMAIN p : \A m \in Opened(w) :
          Emits(m) /\ p[i] = U(m) => i \in DOMAIN o /\ o[i] = U(m)
    <2> SUFFICES ASSUME NEW i \in DOMAIN p, NEW m \in Opened(w), Emits(m), p[i] = U(m)
                 PROVE  p[i] # -U(n)
        BY <1>5
    <2>1. U(m) \in Nat /\ U(m) > 0 /\ U(n) \in Nat /\ U(n) > 0
        BY <1>3, <1>4
    <2> QED
        BY <2>1
<1>7. ShowsInOrder(w, p)
    BY <1>1, <1>6 DEF ShowsInOrder
<1> QED
    BY <1>2, <1>7 DEF p

\* The children of the top go on the stack in their order.
\* w holds the children of n in the place of the top of st.
Unfolded(st, n, l, c, w) ==
    /\ l = ChildList(nodes, n) /\ \A i \in DOMAIN l : l[i] \in ChildrenOf(nodes, n)
    /\ \A i \in DOMAIN c : c[i] = -n
    /\ Laid(l, c, st, w, Len(l), Len(c), Len(st))
    /\ DOMAIN l = 1..Len(l) /\ DOMAIN c = 1..Len(c) /\ DOMAIN st = 1..Len(st)
    /\ \A i, j \in DOMAIN w : w[i] = w[j] => i = j

LEMMA LaidInOrder ==
    ASSUME TreeInv, TreeOrder, NEW st, NEW n \in Nat, StacksInOrder(st),
           NEW l, NEW c, NEW w, Unfolded(st, n, l, c, w)
    PROVE  StacksInOrder(w)
<1> DEFINE k == Len(l)
           e == Len(c)
           m == Len(st)
<1>1. /\ l = ChildList(nodes, n) /\ \A i \in DOMAIN l : l[i] \in ChildrenOf(nodes, n)
      /\ \A i \in DOMAIN c : c[i] = -n
      /\ \A i, j \in DOMAIN w : w[i] = w[j] => i = j
    BY DEF Unfolded
<1>2. Laid(l, c, st, w, k, e, m) /\ DOMAIN l = 1..k /\ DOMAIN c = 1..e /\ DOMAIN st = 1..m
    BY DEF Unfolded
<1> HIDE DEF k, e, m
<1>3. k \in Nat /\ e \in Nat /\ m \in Nat
    BY <1>2 DEF Laid
<1> SUFFICES ASSUME NEW a, NEW b, Before(a, b), NEW x \in DOMAIN w, NEW y \in DOMAIN w,
                    w[x] = a, w[y] = b
             PROVE  x < y
    BY DEF StacksInOrder
<1>6. PICK p \in DOMAIN nodes :
          /\ a \in ChildrenOf(nodes, p) /\ b \in ChildrenOf(nodes, p)
          /\ a \in Nat /\ a > 0 /\ b \in Nat /\ b > 0
          /\ ListedIn(a, b, p)
    BY BeforeFacts
<1>7. CASE p = n
    <2>1. PICK i, j \in DOMAIN l : i < j /\ a = l[i] /\ b = l[j]
        BY <1>1, <1>6, <1>7 DEF ListedIn
    <2>2. i \in DOMAIN w /\ w[i] = a /\ j \in DOMAIN w /\ w[j] = b
        BY <1>2, <2>1 DEF Laid
    <2>3. x = i /\ y = j
        BY <1>1, <2>2
    <2> QED
        BY <2>1, <2>3
<1>8. CASE p # n
    <2>1. ASSUME NEW z \in DOMAIN w, w[z] \in {a, b}
          PROVE  \E i \in 2..m : z = k + e + (i - 1) /\ st[i] = w[z]
        <3>1. w[z] \notin ChildrenOf(nodes, n)
            BY <1>6, <1>8, <2>1 DEF ChildrenOf
        <3>2. z \notin 1..k
            BY <1>1, <1>2, <1>3, <3>1 DEF Laid
        <3>3. w[z] # -n
            BY <1>6, <2>1
        <3>4. \A i \in 1..e : w[k + i] = -n
            BY <1>1, <1>2 DEF Laid
        <3>5. \A i \in 1..e : z # k + i
            BY <3>3, <3>4
        <3>6. PICK i \in 2..m : z = k + e + (i - 1)
            BY <1>2, <3>2, <3>5 DEF Laid
        <3>7. w[k + e + (i - 1)] = st[i]
            BY <1>2 DEF Laid
        <3> QED
            BY <3>6, <3>7
    <2>2. PICK i \in 2..m : x = k + e + (i - 1) /\ st[i] = a
        BY <2>1
    <2>3. PICK j \in 2..m : y = k + e + (j - 1) /\ st[j] = b
        BY <2>1
    <2>5. i \in DOMAIN st /\ j \in DOMAIN st
        BY <1>2, <1>3
    <2>6. i < j
        BY <2>2, <2>3, <2>5 DEF StacksInOrder
    <2> QED
        BY <1>3, <2>2, <2>3, <2>6
<1> QED
    BY <1>7, <1>8

\* The markup is in the order of the tree, wherever the renderer is.
SideInv == phase \in {"render", "done"} => InOrder(stack, out)

LEMMA FirstInOrder ==
    ASSUME BuildInv, TreeOrder, phase # "library"
    PROVE  InOrder(<<root>>, <<>>)
<1> DEFINE s == <<root>>
<1>1. s \in Seq(Int) /\ DOMAIN s = {1} /\ s[1] = root /\ ToSet(s) = {root}
    <2>1. root \in Nat
        BY DEF TreeOrder
    <2>2. s \in Seq(Int) /\ DOMAIN s = {1} /\ s[1] = root
        BY <2>1
    <2> QED
        BY <2>2 DEF ToSet
<1> HIDE DEF s
<1>2. Opened(s) = {}
    <2>1. \A n \in Live : root \in Up(n)
        BY RootAboveAll, LiveNodes
    <2> QED
        BY <1>1, <2>1 DEF Opened
<1>3. TreeInv
    BY DEF BuildInv, BelowInv
<1>4. StacksInOrder(s)
    <2> SUFFICES ASSUME NEW a, NEW b, Before(a, b), NEW i \in DOMAIN s, NEW j \in DOMAIN s,
                        s[i] = a, s[j] = b
                 PROVE  FALSE
        BY DEF StacksInOrder
    <2>1. a # b
        BY <1>3, BeforeFacts
    <2> QED
        BY <1>1, <2>1
<1>5. InOrder(s, <<>>)
    BY <1>2, <1>4 DEF InOrder, OpensInOrder, ShowsInOrder
<1> QED
    BY <1>5 DEF s

LEMMA OrderKeeps ==
    ASSUME UNCHANGED <<nodes, root, rows>>
    PROVE  \A s, o : InOrder(s, o)' <=> InOrder(s, o)
<1>1. \A n : Up(n)' = Up(n)
    BY DEF Up
<1>2. \A n : Leaf(n)' <=> Leaf(n)
    BY DEF Leaf
<1>3. Live' = Live
    BY <1>1, <1>2 DEF Live
<1>4. \A x : RowOf(x)' = RowOf(x)
    BY DEF RowOf
<1>5. \A n : U(n)' = U(n) /\ (Emits(n)' <=> Emits(n))
    BY <1>4 DEF U, Emits
<1>6. \A s : Opened(s)' = Opened(s)
    BY <1>1, <1>3 DEF Opened
<1>7. \A a, b : Before(a, b)' <=> Before(a, b)
    BY DEF Before
<1>8. \A s : (OpensInOrder(s)' <=> OpensInOrder(s)) /\ (StacksInOrder(s)' <=> StacksInOrder(s))
    BY <1>6, <1>7 DEF OpensInOrder, StacksInOrder
<1>9. \A s, o : ShowsInOrder(s, o)' <=> ShowsInOrder(s, o)
    BY <1>5, <1>6, <1>7 DEF ShowsInOrder
<1> QED
    BY <1>8, <1>9 DEF InOrder

LEMMA SideStep ==
    ASSUME PassInv, BuildInv, RenderInv, SideInv, RenderStep
    PROVE  InOrder(stack', out')
<1> DEFINE n == stack[1]
<1>1. /\ phase = "render" /\ stack # <<>> /\ StackOK(stack) /\ OutOK(stack, out)
      /\ InOrder(stack, out)
    BY DEF RenderStep, RenderInv, SideInv
<1>2. TreeOrder /\ RowNodes /\ TreeInv
    BY <1>1, TreeIsOrdered, RowNodesHold DEF Built, BuildInv, BelowInv
<1>3. /\ stack \in Seq(Int) /\ 1 \in DOMAIN stack /\ Head(stack) = n
      /\ StacksInOrder(stack) /\ out \in Seq(Int)
    BY <1>1, EmptySeq DEF StackOK, InOrder, OutOK, Shows
<1>4. /\ n \in Int /\ At(n) \in Live /\ n = stack[1]
      /\ n > 0 => n \in Live /\ n \in DOMAIN nodes /\ n \in Nat
      /\ ~ (n > 0) => n < 0 /\ -n \in DOMAIN nodes /\ Inner(-n)
    BY <1>1, <1>2, <1>3, EntryIsNode, LiveNodes DEF Opened
<1> HIDE DEF n
<1>5. CASE ~ (n > 0)
    <2>1. n < 0 /\ -(-n) = n
        BY <1>4, <1>5
    <2>2. stack' = Tail(stack) /\ out' = Append(out, -U(-n))
        BY <1>3, <1>5, <2>1 DEF RenderStep, U
    <2>3. Opened(Tail(stack)) = Opened(stack)
        BY <1>1, <1>2, <1>5, Popped DEF n
    <2>4. StacksInOrder(Tail(stack))
        BY <1>1, <1>3, PoppedInOrder
    <2>5. OpensInOrder(Tail(stack)) /\ ShowsInOrder(Tail(stack), Append(out, -U(-n)))
        BY <1>1, <1>2, <1>3, <1>4, <1>5, <2>3, ClosedInOrder
    <2> QED
        BY <2>2, <2>4, <2>5 DEF InOrder
<1>6. ASSUME n > 0, NEW w, Opened(w) = Opened(stack) \cup {n},
             n \notin Opened(stack), StacksInOrder(w), stack' = w,
             out' = IF Emits(n) THEN Append(out, U(n)) ELSE out
      PROVE  InOrder(stack', out')
    <2>1. OpensInOrder(w) /\ ShowsInOrder(w, IF Emits(n) THEN Append(out, U(n)) ELSE out)
        BY <1>1, <1>2, <1>4, <1>6, OpenedInOrder
    <2> QED
        BY <1>6, <2>1 DEF InOrder
<1>7. CASE n > 0 /\ Leaf(n)
    <2>0. n # root /\ ~ (n < 0)
        BY <1>2, <1>4, <1>7 DEF RowNodes, Leaf
    <2>1. stack' = Tail(stack) /\ out' = IF Emits(n) THEN Append(out, U(n)) ELSE out
        BY <1>3, <1>7, <2>0 DEF RenderStep, U, Leaf, Emits
    <2>2. Opened(Tail(stack)) = Opened(stack) \cup {n} /\ n \notin Opened(stack)
        BY <1>1, <1>2, <1>7, Popped DEF n
    <2>3. StacksInOrder(Tail(stack))
        BY <1>1, <1>3, PoppedInOrder
    <2> QED
        BY <1>6, <1>7, <2>1, <2>2, <2>3
<1>8. CASE n > 0 /\ ~ Leaf(n)
    <2> DEFINE l == ChildList(nodes, n)
               c == IF n = root THEN <<>> ELSE <<-n>>
               w == (l \o c) \o Tail(stack)
    <2>1. IsForest(nodes) /\ Typed(nodes) /\ Whole(nodes) /\ IsFiniteSet(DOMAIN nodes)
        BY <1>2, TreeInvForest DEF IsForest
    <2>2. /\ l \in Seq(ChildrenOf(nodes, n)) /\ ToSet(l) = ChildrenOf(nodes, n)
          /\ \A i, j \in DOMAIN l : l[i] = l[j] => i = j
        BY <1>4, <1>8, <2>1, ChildListIsExact
    <2>3. l \in Seq(Int)
        <3>1. ChildrenOf(nodes, n) \subseteq Int
            BY <1>2 DEF ChildrenOf, TreeOrder
        <3> HIDE DEF l
        <3> QED
            BY <2>2, <3>1
    <2>4. nodes[n].content = "#body" <=> n = root
        BY <1>2, <1>4, <1>8 DEF RowNodes
    <2>5. Emits(n) <=> n # root
        BY <1>8 DEF Emits, Leaf
    <2>6. Inside(n) = l \o c
        BY <2>4 DEF Inside
    <2>7. ~ (n < 0) /\ nodes[n].content # "#text" /\ nodes[n].content # "input"
        BY <1>4, <1>8 DEF Leaf
    <2>8. /\ stack' = Inside(n) \o Tail(stack)
          /\ out' = IF nodes[n].content = "#body" THEN out ELSE Append(out, nodes[n].uuid)
        BY <1>3, <1>8, <2>7 DEF RenderStep
    <2>9. stack' = w /\ out' = IF Emits(n) THEN Append(out, U(n)) ELSE out
        BY <2>4, <2>5, <2>6, <2>8 DEF U
    <2>10. StackOK(w) /\ Opened(w) = Opened(stack) \cup {n} /\ n \notin Opened(stack)
        <3> HIDE DEF l
        <3> QED
            BY <1>1, <1>2, <1>4, <1>8, <2>2, <2>3, Pushed
    <2>11. c \in Seq(Int) /\ \A i \in DOMAIN c : c[i] = -n
        BY <1>4
    <2>12. l = ChildList(nodes, n)
        OBVIOUS
    <2> HIDE DEF l, c
    <2>13. Laid(l, c, stack, w, Len(l), Len(c), Len(stack))
        BY <1>1, <1>3, <2>3, <2>11, PushedEntries
    <2>14. /\ DOMAIN l = 1..Len(l) /\ DOMAIN c = 1..Len(c) /\ DOMAIN stack = 1..Len(stack)
           /\ Len(l) \in Nat /\ Len(c) \in Nat /\ Len(stack) \in Nat
        BY <1>3, <2>3, <2>11
    <2>15. \A i \in DOMAIN l : l[i] \in ChildrenOf(nodes, n)
        BY <2>2 DEF ToSet
    <2> HIDE DEF w
    <2>16. \A i, j \in DOMAIN w : w[i] = w[j] => i = j
        BY <2>10 DEF StackOK
    <2>17. Unfolded(stack, n, l, c, w)
        BY <2>11, <2>12, <2>13, <2>14, <2>15, <2>16 DEF Unfolded
    <2>18. StacksInOrder(w)
        BY <1>2, <1>3, <1>4, <1>8, <2>17, LaidInOrder
    <2> QED
        BY <1>6, <1>8, <2>9, <2>10, <2>18
<1> QED
    BY <1>5, <1>7, <1>8

LEMMA SideInvStep ==
    ASSUME PassInv, BuildInv, RenderInv, SideInv, [Next]_vars
    PROVE  SideInv'
<1>1. CASE RenderStep
    <2>1. InOrder(stack', out') /\ UNCHANGED <<nodes, root, rows>>
        BY <1>1, SideStep DEF RenderStep, arenaVars, passVars
    <2>2. InOrder(stack, out)'
        BY <2>1, OrderKeeps
    <2> QED
        BY <2>2 DEF SideInv
<1>2. CASE BuildDone /\ phase' = "render"
    <2>1. UNCHANGED <<nodes, root, rows>> /\ stack' = <<root>> /\ out' = <<>> /\ phase = "build"
        BY <1>2 DEF BuildDone, arenaVars, passVars, RenderInv
    <2>2. InOrder(stack', out')
        BY <2>1, FirstInOrder, TreeIsOrdered
    <2>3. InOrder(stack, out)'
        BY <2>1, <2>2, OrderKeeps
    <2> QED
        BY <2>3 DEF SideInv
<1>3. CASE RenderDone \/ Answered \/ UNCHANGED vars
    <2>1. /\ UNCHANGED <<nodes, root, rows, stack, out>>
          /\ phase' = phase \/ (phase = "render" /\ phase' = "done")
        BY <1>3 DEF RenderDone, Answered, vars, arenaVars, passVars, outVars
    <2>2. InOrder(stack, out) => InOrder(stack, out)'
        BY <2>1, OrderKeeps
    <2> QED
        BY <2>1, <2>2 DEF SideInv
<1>4. CASE \/ LibraryCall \/ ExpandRepeater \/ RepeatersDone \/ BindRow \/ BindingsDone
           \/ \E c \in Coll : ReadRef(c)
           \/ InterpolateCollectionRefs \/ AutoWireForms \/ AutoWireHangs
           \/ GroupRows \/ BuildNode \/ NextParent \/ (BuildDone /\ phase' # "render")
           \/ \E c \in Coll : AddRecord(c) \/ \E i \in DOMAIN records[c] : DropRecord(c, i)
    <2>1. phase' \notin {"render", "done"}
        BY <1>4 DEF LibraryCall, ExpandRepeater, RepeatersDone, BindRow, BindingsDone, ReadRef,
               InterpolateCollectionRefs, AutoWireForms, AutoWireHangs, GroupRows, BuildNode,
               NextParent, BuildDone, AddRecord, DropRecord, RecordChanges
    <2> QED
        BY <2>1 DEF SideInv
<1> QED
    BY <1>1, <1>2, <1>3, <1>4 DEF Next

-----------------------------------------------------------------------------
(* Siblings on the page that is shown *)

\* A row that its siblings' order has before another is shown before it.
LEMMA SiblingsShown ==
    ASSUME PassInv, BuildInv, RenderInv, OrderInv, SideInv, phase = "done",
           NEW p, NEW i \in DOMAIN OrderSiblings(Under(rows, p)),
           NEW j \in DOMAIN OrderSiblings(Under(rows, p)), i < j,
           NEW r \in ShownRows, NEW s \in ShownRows, r.parent = p, s.parent = p,
           r.id = OrderSiblings(Under(rows, p))[i], s.id = OrderSiblings(Under(rows, p))[j]
    PROVE  Pos(r.id) < Pos(s.id)
<1>1. TreeOrder /\ RowNodes /\ TreeInv /\ NodesInv
    BY TreeIsOrdered, RowNodesHold DEF Built, BuildInv, BelowInv
<1>2. PICK a \in DOMAIN nodes \ {root} : RowOf(U(a)) = r
    BY <1>1, RowsAreNodes DEF ShownRows
<1>3. PICK b \in DOMAIN nodes \ {root} : RowOf(U(b)) = s
    BY <1>1, RowsAreNodes DEF ShownRows
<1>4. U(a) = r.id /\ a \in Live /\ Emits(a) /\ U(b) = s.id /\ b \in Live /\ Emits(b)
    BY <1>1, <1>2, <1>3, RowsAreNodes DEF ShownRows
<1> DEFINE q == nodes[a].parent
           l == ChildList(nodes, q)
           g == OrderSiblings(Under(rows, p))
<1>5. q \in DOMAIN nodes /\ nodes[q].uuid = p
    BY <1>1, <1>2 DEF NodesInv, U
<1>6. IsForest(nodes)
    BY <1>1, TreeInvForest
<1>7. l \in Seq(ChildrenOf(nodes, q)) /\ ToSet(l) = ChildrenOf(nodes, q)
    BY <1>5, <1>6, ChildListIsExact DEF IsForest
<1>8. Names(nodes, l) = g
    BY <1>5, TreeFollowsRows DEF KidNames
<1>9. i \in DOMAIN g /\ j \in DOMAIN g /\ r.id = g[i] /\ s.id = g[j]
    OBVIOUS
<1> HIDE DEF l, g
<1>10. i \in DOMAIN l /\ j \in DOMAIN l /\ U(a) = U(l[i]) /\ U(b) = U(l[j])
    BY <1>4, <1>8, <1>9 DEF Names, U
<1>11. \A x \in DOMAIN l : l[x] \in DOMAIN nodes \ {root}
    <2>1. \A x \in ChildrenOf(nodes, q) : x \in DOMAIN nodes /\ x # root
        BY <1>1, <1>5 DEF ChildrenOf, TreeOrder
    <2> QED
        BY <1>7, <2>1 DEF ToSet
<1>12. a = l[i] /\ b = l[j]
    BY <1>1, <1>10, <1>11 DEF RowNodes
<1>13. Before(a, b)
    BY <1>5, <1>10, <1>12 DEF Before, l
<1>14. OutOK(<<>>, out) /\ InOrder(<<>>, out)
    BY DEF RenderInv, SideInv
<1>15. Opened(<<>>) = Live
    <2>1. ToSet(<<>>) = {}
        BY DEF ToSet
    <2> QED
        BY <2>1 DEF Opened
<1>16. U(a) \in ToSet(out) /\ U(b) \in ToSet(out)
    <2>1. U(a) \in Int /\ U(b) \in Int
        BY <1>1 DEF RowNodes
    <2> QED
        BY <1>4, <1>14, <1>15, <2>1 DEF OutOK, Shows
<1>17. ASSUME NEW y \in ToSet(out) PROVE Pos(y) \in DOMAIN out /\ out[Pos(y)] = y
    BY DEF Pos, ToSet
<1>18. \A x, y \in DOMAIN out : out[x] = U(a) /\ out[y] = U(b) => x < y
    BY <1>4, <1>13, <1>14, <1>15 DEF InOrder, ShowsInOrder
<1> QED
    BY <1>4, <1>16, <1>17, <1>18

LEMMA SiblingsFollow ==
    ASSUME PassInv, BuildInv, RenderInv, OrderInv, SideInv, LinkInv
    PROVE  SiblingsInOrder
<1> SUFFICES ASSUME phase = "done", Sound(page), NEW r \in ShownRows, r.prev # NoRow,
                    ~ (r.parent # Body /\ RowOf(r.parent).repeat # NoColl)
             PROVE  \E s \in ToSet(rows) :
                        /\ s.id = r.prev /\ s.parent = r.parent
                        /\ Shown(s) => /\ Pos(s.id) < Pos(r.id)
                                       /\ \A x \in ShownRows \ {r, s} :
                                              x.parent = r.parent =>
                                                  ~ (Pos(s.id) < Pos(x.id) /\ Pos(x.id) < Pos(r.id))
    BY DEF SiblingsInOrder
<1>1. /\ rows \in Seq(Row) /\ Distinct(rows) /\ Body \notin IdsOf(rows)
      /\ Adopted(rows) /\ ChainsHold(rows)
    BY DEF PassInv, RowsOK, BuildInv, Built, GroupsInv, LinkInv
<1> DEFINE q == r.parent
           g == OrderSiblings(Under(rows, q))
<1>2. r \in ToSet(rows) /\ q \in IdsOf(rows) \cup {Body}
    BY <1>1 DEF ShownRows, Adopted, ToSet
<1>3. \A x \in ToSet(rows) : x.id = q => x.repeat = NoColl
    <2> SUFFICES ASSUME NEW x \in ToSet(rows), x.id = q PROVE x.repeat = NoColl
        OBVIOUS
    <2>1. RowOf(q) = x /\ q \in IdsOf(rows)
        BY <1>1, RowOfItsId
    <2> QED
        BY <1>1, <2>1
<1>4. PICK w : IsChain(ToSet(rows), q, w)
    BY <1>1, <1>2, <1>3 DEF ChainsHold
<1>5. g = w
    BY <1>1, <1>4, ChainIsOrder
<1> HIDE DEF g
<1>6. PICK k \in DOMAIN w : r.id = w[k] /\ r.prev = LeftId(w, k)
    BY <1>2, <1>4 DEF IsChain
<1>7. k # 1 /\ r.prev = w[k - 1]
    BY <1>6 DEF LeftId
<1>8. w \in Seq(Nat) /\ k - 1 \in DOMAIN w /\ k \in Nat /\ k - 1 < k
    BY <1>4, <1>6, <1>7 DEF IsChain
<1>9. PICK s \in ToSet(rows) : s.parent = q /\ s.id = w[k - 1]
    BY <1>4, <1>8 DEF IsChain
<1>10. ASSUME NEW i \in DOMAIN w, NEW j \in DOMAIN w, i < j,
              NEW x \in ShownRows, NEW y \in ShownRows, x.parent = q, y.parent = q,
              x.id = w[i], y.id = w[j]
       PROVE  Pos(x.id) < Pos(y.id)
    BY <1>5, <1>10, SiblingsShown DEF g
<1>11. ASSUME s \in ShownRows
       PROVE  Pos(s.id) < Pos(r.id)
    BY <1>6, <1>8, <1>9, <1>10, <1>11
<1>12. ASSUME s \in ShownRows, NEW x \in ShownRows \ {r, s}, x.parent = q
       PROVE  ~ (Pos(s.id) < Pos(x.id) /\ Pos(x.id) < Pos(r.id))
    <2>1. x \in ToSet(rows)
        BY <1>12 DEF ShownRows
    <2>2. PICK i \in DOMAIN w : x.id = w[i]
        BY <1>4, <1>12, <2>1 DEF IsChain
    <2>3. x.id # r.id /\ x.id # s.id
        BY <1>1, <1>2, <1>9, <1>12, <2>1, RowOfItsId
    <2>4. i # k /\ i # k - 1
        BY <1>6, <1>9, <2>2, <2>3
    <2>5. i < k - 1 \/ k < i
        BY <1>8, <2>2, <2>4
    <2>6. /\ \A y \in ToSet(out) : Pos(y) \in DOMAIN out
          /\ DOMAIN out \subseteq Nat
        <3>1. out \in Seq(Int)
            BY DEF RenderInv, OutOK, Shows
        <3> QED
            BY <3>1 DEF Pos, ToSet
    <2>7. x.id \in ToSet(out) /\ r.id \in ToSet(out) /\ s.id \in ToSet(out)
        BY <1>12, EachRowOnce DEF RendersEachRowOnce
    <2>8. Pos(x.id) \in Nat /\ Pos(r.id) \in Nat /\ Pos(s.id) \in Nat
        BY <2>6, <2>7
    <2>9. CASE i < k - 1
        <3>1. Pos(x.id) < Pos(s.id)
            BY <1>8, <1>9, <1>10, <1>12, <2>2, <2>9
        <3> QED
            BY <2>8, <3>1
    <2>10. CASE k < i
        <3>1. Pos(r.id) < Pos(x.id)
            BY <1>6, <1>10, <1>12, <2>2, <2>10
        <3> QED
            BY <2>8, <3>1
    <2> QED
        BY <2>5, <2>9, <2>10
<1>13. s.id = r.prev /\ s.parent = r.parent /\ (Shown(s) <=> s \in ShownRows)
    BY <1>7, <1>9 DEF ShownRows
<1> QED
    BY <1>11, <1>12, <1>13

\* On a page whose chains are whole the markup has each row right behind its
\* left sibling, whatever the repeaters, the forms and the records are: no pass
\* breaks a chain (clones, csrf inputs), and neither the build nor the
\* renderer leaves their order.
THEOREM PageSiblingsInOrder == Spec => []SiblingsInOrder
<1> DEFINE Inv == PassInv /\ BuildInv /\ RenderInv
<1>1. Init => LinkInv /\ OrderInv /\ SideInv
    <2>1. Init => SideInv
        BY DEF Init, RenderInit, LibraryInit, SideInv
    <2> QED
        BY <2>1, LinkInit, OrderInit
<1>2. Inv /\ LinkInv /\ OrderInv /\ SideInv /\ [Next]_vars => LinkInv' /\ OrderInv' /\ SideInv'
    BY LinkStep, OrderStep, SideInvStep
<1>3. Inv /\ LinkInv /\ OrderInv /\ SideInv => SiblingsInOrder
    BY SiblingsFollow
<1>4. Spec => []Inv
    BY RenderInvariant, PTL
<1> QED
    BY <1>1, <1>2, <1>3, <1>4, PTL DEF Spec

=============================================================================
