---------------------------- MODULE MCSchemaLog ----------------------------
(***************************************************************************)
(* SchemaLog with two callers in one process and one in another: those in  *)
(* one process meet at its mutex, those in two only in the file.           *)
(***************************************************************************)
EXTENDS SchemaLog, TLC

CONSTANTS c1, c2, c3, p1, p2

TwoAndOne == c1 :> p1 @@ c2 :> p1 @@ c3 :> p2

OneAndOne == c1 :> p1 @@ c3 :> p2

\* Two callers in one process are interchangeable.
Symmetry == Permutations({c1, c2})
=============================================================================
