---------------------------- MODULE OrderedTree ----------------------------
(***************************************************************************)
(* What lovely_tree::Tree promises its callers: a tree of uuids in which   *)
(* every element has an ordered list of children, and three ways to change *)
(* it.  How keys, links and the index keep it is left to ArenaTree.        *)
(***************************************************************************)
EXTENDS Naturals, SequencesExt

CONSTANT Uuid
VARIABLE kids       \* the children of each element of the tree, in order

\* The element that is nobody's child.
IsRoot(u) == \A v \in DOMAIN kids : u \notin ToSet(kids[v])

\* u and everything below it.
Below(u) ==
    {x \in DOMAIN kids :
        \A S \in SUBSET DOMAIN kids :
            u \in S /\ (\A v \in S : ToSet(kids[v]) \subseteq S) => x \in S}

Without(u) == [v \in DOMAIN kids |-> RemoveFirst(kids[v], u)]

\* A new element without children becomes the i-th child of p.
AddElement(u, p, i) ==
    kids' = [v \in DOMAIN kids \cup {u} |->
                IF v = u THEN <<>> ELSE IF v = p THEN InsertAt(kids[p], i, u) ELSE kids[v]]

\* An element goes with everything below it.
DropElement(u) ==
    /\ ~ IsRoot(u)
    /\ kids' = [v \in DOMAIN kids \ Below(u) |-> Without(u)[v]]

\* An element, with everything below it, becomes the i-th child of p.
MoveElement(u, p, i) ==
    /\ ~ IsRoot(u)
    /\ p \notin Below(u)
    /\ i \in 1..(Len(Without(u)[p]) + 1)
    /\ kids' = [Without(u) EXCEPT ![p] = InsertAt(@, i, u)]

TreeInit == \E u \in Uuid : kids = [v \in {u} |-> <<>>]

Places(p) == 1..(Len(kids[p]) + 1)

TreeNext ==
    \/ \E u \in (DOMAIN kids' \ DOMAIN kids) \cap Uuid, p \in DOMAIN kids :
           \E i \in Places(p) : AddElement(u, p, i)
    \/ \E u \in DOMAIN kids \ DOMAIN kids' : DropElement(u)
    \/ /\ DOMAIN kids' = DOMAIN kids
       /\ \E u, p \in DOMAIN kids : \E i \in Places(p) : MoveElement(u, p, i)

TreeSpec == TreeInit /\ [][TreeNext]_kids
=============================================================================
