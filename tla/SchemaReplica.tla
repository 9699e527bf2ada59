---------------------------- MODULE SchemaReplica ----------------------------
(***************************************************************************)
(* What the schema service promises of an app's SQLite database, with no   *)
(* process, lock, transaction or version pointer in sight: the log of      *)
(* schema changes only grows, and the database is always the result of     *)
(* exactly its first `replayed` changes, each of them run once, in order.  *)
(* It may start over (the file is lost), and then replays from the first.  *)
(*                                                                         *)
(* Nothing here translates code: SchemaLog is shown to implement it.       *)
(***************************************************************************)
EXTENDS Integers, Sequences

VARIABLES
    log,        \* for every change, whether SQLite can run it after those before it
    replayed    \* how many of them the database is the result of

vars == <<log, replayed>>

Init == log = <<>> /\ replayed = 0

Record ==
    /\ \E runs \in BOOLEAN : log' = Append(log, runs)
    /\ UNCHANGED replayed

Replay ==
    /\ replayed < Len(log)
    /\ log[replayed + 1]
    /\ replayed' = replayed + 1
    /\ UNCHANGED log

StartOver ==
    /\ replayed' = 0
    /\ UNCHANGED log

Next == Record \/ Replay \/ StartOver

Spec == Init /\ [][Next]_vars
=============================================================================
