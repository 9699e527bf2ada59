----------------------------- MODULE EditHistory -----------------------------
(***************************************************************************)
(* What the page editor promises its user, with no table, key, cursor or   *)
(* sequence number in sight: a page is a forest of ordered lists, an edit  *)
(* changes that forest in one obvious way, and undo and redo walk a linear *)
(* history of the forests the user has seen.                               *)
(*                                                                         *)
(* Nothing here translates code: PageEditor is shown to implement it.      *)
(***************************************************************************)
EXTENDS Integers, SequencesExt

CONSTANTS Node, Top     \* Top stands for the page, the parent of the top level

VARIABLES
    kids,       \* kids[p] is the list of the children of p
    past,       \* the forests of the history, oldest first
    at          \* where in the history the page is

vars == <<kids, past, at>>

Live(k) == DOMAIN k \ {Top}

\* The nodes of k that can be reached from e.
Below(k, e) ==
    {x \in Live(k) :
        \A D \in SUBSET Live(k) :
            (e \in D /\ \A y \in D : ToSet(k[y]) \subseteq D) => x \in D}

\* A new childless node n at place i under p.
Insert(k, n, p, i) ==
    [x \in DOMAIN k \cup {n} |->
        IF x = n THEN <<>> ELSE IF x = p THEN InsertAt(k[p], i, n) ELSE k[x]]

\* A new node n takes the place of e, and e becomes its only child.
Wrap(k, e, n) ==
    [x \in DOMAIN k \cup {n} |->
        IF x = n THEN <<e>>
        ELSE ReplaceAll(k[x], e, n)]

\* e leaves with everything below it.  (A node is in one list, once.)
Drop(k, e) ==
    [x \in DOMAIN k \ Below(k, e) |-> RemoveFirst(k[x], e)]

\* e goes to place i among the children of p other than itself.
Relocate(k, e, p, i) ==
    [x \in DOMAIN k |->
        IF x = p THEN InsertAt(RemoveFirst(k[x], e), i, e) ELSE RemoveFirst(k[x], e)]

-----------------------------------------------------------------------------

Init ==
    /\ \E n \in Node : kids = [x \in {Top, n} |-> IF x = Top THEN <<n>> ELSE <<>>]
    /\ past = <<kids>>
    /\ at = 1

\* An edit forgets the forests that were undone and appends its own.
Record ==
    /\ past' = Append(SubSeq(past, 1, at), kids')
    /\ at' = at + 1

\* What one edit may turn the forest k into.
MayBecome(k, l) ==
    \/ l = k       \* an edit of attributes or text
    \/ \E n \in DOMAIN l \ DOMAIN k, p \in DOMAIN k :
           \E i \in 1..Len(k[p]) + 1 : l = Insert(k, n, p, i)
    \/ \E n \in DOMAIN l \ DOMAIN k, e \in Live(k) : l = Wrap(k, e, n)
    \/ \E e \in Live(k) \ DOMAIN l : l = Drop(k, e)
    \/ /\ DOMAIN l = DOMAIN k
       /\ \E p \in DOMAIN k : \E e \in ToSet(l[p]) :
              /\ \E i \in 1..Len(RemoveFirst(k[p], e)) + 1 : l = Relocate(k, e, p, i)
              /\ p \notin Below(k, e)

Edit ==
    /\ Record
    /\ LET before == kids
           after  == kids'
       IN  /\ Live(after) \subseteq Node
           /\ MayBecome(before, after)

Undo ==
    /\ at > 1
    /\ at' = at - 1
    /\ kids' = past[at - 1]
    /\ UNCHANGED past

Redo ==
    /\ at < Len(past)
    /\ at' = at + 1
    /\ kids' = past[at + 1]
    /\ UNCHANGED past

Next == Edit \/ Undo \/ Redo

Spec == Init /\ [][Next]_vars
=============================================================================
