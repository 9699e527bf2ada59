---------------------------- MODULE PageHistory ----------------------------
(***************************************************************************)
(* The refinement mapping from PageEditor to EditHistory: a table is the   *)
(* forest of the sibling lists that its chains spell out, and the history  *)
(* is the revisions in the order of their seq.                             *)
(***************************************************************************)
EXTENDS PageEditor

Lists(t) == [p \in DOMAIN t \cup {NoElem} |-> Ordered(t, p)]

UpTo(s) == Cardinality({u \in DOMAIN revisions : u <= s})

HistoryOfForests ==
    [i \in 1..Cardinality(DOMAIN revisions) |->
        Lists(revisions[CHOOSE s \in DOMAIN revisions : UpTo(s) = i].rows)]

History == INSTANCE EditHistory
    WITH Node <- Elem, Top <- NoElem,
         kids <- Lists(elements), past <- HistoryOfForests, at <- UpTo(cursor)

\* Every handler does to the ordered forest what its button says and nothing
\* else, and undo and redo walk exactly the forests the user has seen.
ImplementsEditHistory == History!Spec
=============================================================================
