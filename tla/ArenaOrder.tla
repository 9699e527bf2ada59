----------------------------- MODULE ArenaOrder -----------------------------
(***************************************************************************)
(* The arena as the tree of uuids its callers see: OrderedTree, with the   *)
(* list of the children of a uuid read off the links of its node.          *)
(***************************************************************************)
EXTENDS ArenaTree

\* The lists of children, by uuid.
KidsOf ==
    [u \in DOMAIN by_uuid |->
        LET l == ChildList(nodes, by_uuid[u])
        IN  [i \in DOMAIN l |-> nodes[l[i]].uuid]]

Abstract == INSTANCE OrderedTree WITH kids <- KidsOf

\* Every call on the tree does to the lists of children what its name says,
\* or leaves them as they are: one element more, one with all below it less,
\* or one in another place.  (Once a caller has strayed, nodes may have left
\* the tree.)
OrderedTreeSteps == [][~ strayed' => Abstract!TreeNext]_KidsOf
=============================================================================
