----------------------------- MODULE AppStore -----------------------------
(***************************************************************************)
(* LocalSqliteAppStore: one SQLite file per app and a DashMap of open      *)
(* pools.  get_pool keeps the guard of a map entry while it awaits         *)
(* ensure_migrated; an insertion or a removal meanwhile blocks not the     *)
(* task but the worker thread that runs it.  All entries are in one shard  *)
(* of the map, which is the worst that hashing can do.                     *)
(*                                                                         *)
(* A request is a record of what its handler knows.  call[r].pc names the  *)
(* await it is at, or the code it runs next.  The replay that              *)
(* ensure_migrated does is module SchemaLog.                               *)
(***************************************************************************)
EXTENDS Naturals, FiniteSets

CONSTANTS
    Request,    \* slots for requests in flight
    Workers     \* worker threads of the tokio runtime

ASSUME AppStoreAssumption == Workers \in Nat \ {0}

VARIABLES
    call,       \* the requests in flight
    files,      \* apps that have a file
    pools       \* apps with an entry in LocalSqliteAppStore.pools

storeVars == <<files, pools>>

NoRequest == [op |-> "none", pc |-> "none"]

At(r, pc) == call[r].pc = pc

GoTo(r, pc) == call' = [call EXCEPT ![r].pc = pc]

End(r) == call' = [call EXCEPT ![r] = NoRequest]

\* Some task holds a guard of the map across its await.
Guarded == \E r \in Request : At(r, "migrate_cached")

\* Tasks that wait for the map inside a worker thread.
Blocked == {r \in Request : At(r, "insert_blocked") \/ At(r, "close_blocked")}

\* A task goes on when a worker thread is free to poll it.
WorkerFree == Cardinality(Blocked) < Workers

-----------------------------------------------------------------------------
(* get_pool *)

GetPool(r) ==
    /\ At(r, "get_pool")
    /\ IF call[r].app \in pools THEN GoTo(r, "migrate_cached") ELSE GoTo(r, "open")
    /\ UNCHANGED storeVars

\* A slip: the pool is put into the map again while the guard is held.
MigrateAndReinsert(r) ==
    /\ At(r, "migrate_cached")
    /\ ~Guarded
    /\ End(r)
    /\ UNCHANGED storeVars

\* The replay ends, well or with an error, and the guard goes.
MigrateCached(r) ==
    /\ At(r, "migrate_cached")
    /\ End(r)
    /\ UNCHANGED storeVars

OpenPool(r) ==
    /\ At(r, "open")
    /\ files' = files \cup {call[r].app}
    /\ GoTo(r, "migrate_new")
    /\ UNCHANGED pools

\* With an error the new pool is dropped.
MigrateNew(r) ==
    /\ At(r, "migrate_new")
    /\ GoTo(r, "insert") \/ End(r)
    /\ UNCHANGED storeVars

InsertPool(r) ==
    /\ At(r, "insert")
    /\ \/ /\ ~Guarded
          /\ pools' = pools \cup {call[r].app}
          /\ End(r)
       \/ /\ Guarded
          /\ GoTo(r, "insert_blocked")
          /\ UNCHANGED pools
    /\ UNCHANGED files

-----------------------------------------------------------------------------
(* delete_app *)

\* A slip: the pool is looked up, not taken out of the map.
LeftInMap(r) ==
    /\ pools' = pools
    /\ IF call[r].app \in pools THEN GoTo(r, "closing") ELSE GoTo(r, "remove_file")

\* Out of the map, and then close() if there was a pool.
Uncached(r) ==
    /\ pools' = pools \ {call[r].app}
    /\ IF call[r].app \in pools THEN GoTo(r, "closing") ELSE GoTo(r, "remove_file")

ClosePool(r) ==
    /\ At(r, "close_pool")
    /\ \/ ~Guarded /\ Uncached(r)
       \/ Guarded /\ GoTo(r, "close_blocked") /\ UNCHANGED pools
    /\ UNCHANGED files

PoolClosed(r) ==
    /\ At(r, "closing")
    /\ GoTo(r, "remove_file")
    /\ UNCHANGED storeVars

RemoveFile(r) ==
    /\ At(r, "remove_file")
    /\ files' = files \ {call[r].app}
    /\ End(r)
    /\ UNCHANGED pools

\* A worker thread that waited gets the map.
Unblock(r) ==
    /\ ~Guarded
    /\ \/ /\ At(r, "insert_blocked")
          /\ pools' = pools \cup {call[r].app}
          /\ End(r)
       \/ /\ At(r, "close_blocked")
          /\ Uncached(r)
    /\ UNCHANGED files

StoreStep(r) ==
    \/ WorkerFree /\ (GetPool(r) \/ MigrateCached(r) \/ OpenPool(r) \/ MigrateNew(r)
                      \/ InsertPool(r) \/ ClosePool(r) \/ PoolClosed(r) \/ RemoveFile(r))
    \/ Unblock(r)

=============================================================================
