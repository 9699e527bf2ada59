---------------------------- MODULE MCDataMirror ----------------------------
(***************************************************************************)
(* DataMirror with a few names, ids and requests.                          *)
(***************************************************************************)
EXTENDS DataMirror, TLC

CONSTANTS r1, r2, k1, k2, posts, tags, sqlite_x, title, body, id

\* Requests and ids are interchangeable, and so are plain names.
Symmetry ==
    Permutations(Request) \cup Permutations(CollId) \cup Permutations({title, body})
        \cup Permutations(CollName \ Reserved)
=============================================================================
