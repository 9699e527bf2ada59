---------------------------- MODULE MCPageEditor ----------------------------
(***************************************************************************)
(* PageEditor, with its mapping to EditHistory, on a small page.           *)
(***************************************************************************)
EXTENDS PageHistory, TLC

\* Element ids are interchangeable: nothing compares two of them but for
\* equality as long as no sibling chain forks.
Symmetry == Permutations(Elem)
=============================================================================
