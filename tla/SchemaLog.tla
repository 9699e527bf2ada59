------------------------------ MODULE SchemaLog ------------------------------
(***************************************************************************)
(* The schema changes of one app: recorded in Postgres, replayed into the  *)
(* app's SQLite file by whoever asks for its pool.                         *)
(*                                                                         *)
(* A caller is a request handler in some process.  Between two of its      *)
(* steps it awaits Postgres, SQLite or a lock, and anything else may       *)
(* happen.  A caller that is dropped (its client hangs up, its process     *)
(* dies) goes back to idle at any await and leaves its locks and its open  *)
(* transactions behind: Cancel.  A crash of a process is a Cancel of each  *)
(* of its callers.                                                         *)
(*                                                                         *)
(* SQLite in WAL mode: a transaction that began with a read sees the file  *)
(* as it was then.  When it goes on to write and another connection has    *)
(* committed since, or is writing now, the statement fails with BUSY at    *)
(* once; the busy timeout is for statements that start with a write.       *)
(***************************************************************************)
EXTENDS Integers, Sequences

CONSTANTS
    Caller,
    Process,
    Home,           \* the process of each caller
    Nobody,         \* a lock that nobody holds
    MaxRecords,     \* bound on the changes recorded
    MaxFaults       \* bound on cancelled callers and lost files

ASSUME SchemaLogAssumption ==
    /\ Nobody \notin Caller
    /\ Home \in [Caller -> Process]
    /\ MaxRecords \in Nat
    /\ MaxFaults \in Nat

VARIABLES
    log,        \* app_schema_migrations of the app: log[v] says whether SQLite
                \* can run the change v after the changes before it
    apps_lock,  \* who holds the apps row FOR UPDATE
    schema,     \* the changes whose SQL has run in the file
    pointer,    \* applied_version in the file, NoTable in a fresh file
    writer,     \* who holds the write lock of the file
    locks,      \* the mutex of each process
    pc,         \* where each caller is
    version,    \* what record() computed, what read_applied_version returned
    pending,    \* the versions that ensure_migrated has still to apply
    stale,      \* has the file changed since the caller's open transaction read it
    need,       \* the length of the log when the call began (a history variable)
    faults

vars == <<log, apps_lock, schema, pointer, writer, locks, pc, version, pending,
          stale, need, faults>>

NoTable == -1

\* Where a caller may be: inside record(), at each step of ensure_migrated(),
\* with a pool in its hands, or with an error ("busy" from apply_one's SQL).
Places == {"idle", "insert", "table", "applied", "fetch", "begin", "sql",
           "commit", "ready", "busy", "failed"}

Migrating == {"table", "applied", "fetch", "begin", "sql", "commit"}

\* The locals of a call that is over.
Forget(c) ==
    /\ version' = [version EXCEPT ![c] = 0]
    /\ pending' = [pending EXCEPT ![c] = {}]
    /\ need' = [need EXCEPT ![c] = 0]

-----------------------------------------------------------------------------
(* record() *)

\* A slip: MAX(version) without the row lock.
BeginRecordUnlocked(c) ==
    /\ pc[c] = "idle"
    /\ Len(log) < MaxRecords
    /\ apps_lock' = c
    /\ version' = [version EXCEPT ![c] = Len(log) + 1]
    /\ pc' = [pc EXCEPT ![c] = "insert"]
    /\ UNCHANGED <<log, schema, pointer, writer, locks, pending, stale, need, faults>>

\* SELECT ... FOR UPDATE on the apps row, then MAX(version) + 1.
BeginRecord(c) ==
    /\ pc[c] = "idle"
    /\ Len(log) < MaxRecords
    /\ apps_lock = Nobody
    /\ apps_lock' = c
    /\ version' = [version EXCEPT ![c] = Len(log) + 1]
    /\ pc' = [pc EXCEPT ![c] = "insert"]
    /\ UNCHANGED <<log, schema, pointer, writer, locks, pending, stale, need, faults>>

\* INSERT and COMMIT, or the error of UNIQUE (app_id, version).
CommitRecord(c) ==
    /\ pc[c] = "insert"
    /\ apps_lock' = Nobody
    /\ IF version[c] \in DOMAIN log
       THEN pc' = [pc EXCEPT ![c] = "failed"] /\ UNCHANGED log
       ELSE /\ \E runs \in BOOLEAN : log' = Append(log, runs)
            /\ pc' = [pc EXCEPT ![c] = "idle"]
    /\ Forget(c)
    /\ UNCHANGED <<schema, pointer, writer, locks, stale, faults>>

-----------------------------------------------------------------------------
(* ensure_migrated() *)

Lock(c) ==
    /\ pc[c] = "idle"
    /\ locks[Home[c]] = Nobody
    /\ locks' = [locks EXCEPT ![Home[c]] = c]
    /\ need' = [need EXCEPT ![c] = Len(log)]
    /\ pc' = [pc EXCEPT ![c] = "table"]
    /\ UNCHANGED <<log, apps_lock, schema, pointer, writer, version, pending, stale, faults>>

\* The call ends and drops the guard of the mutex.
Leave(c, place) ==
    /\ pc' = [pc EXCEPT ![c] = place]
    /\ locks' = [locks EXCEPT ![Home[c]] = Nobody]

\* A slip: ensure_version_table without its INSERT.
EnsureVersionTableOnly(c) ==
    /\ pc[c] = "table"
    /\ writer = Nobody
    /\ pc' = [pc EXCEPT ![c] = "applied"]
    /\ UNCHANGED <<log, apps_lock, schema, pointer, writer, locks, version, pending, stale, need, faults>>

\* ensure_version_table: INSERT OR IGNORE waits for the write lock.
EnsureVersionTable(c) ==
    /\ pc[c] = "table"
    /\ writer = Nobody
    /\ pointer' = IF pointer = NoTable THEN 0 ELSE pointer
    /\ pc' = [pc EXCEPT ![c] = "applied"]
    /\ UNCHANGED <<log, apps_lock, schema, writer, locks, version, pending, stale, need, faults>>

\* ... but not for longer than busy_timeout.
VersionTableBusy(c) ==
    /\ pc[c] = "table"
    /\ writer # Nobody
    /\ Leave(c, "failed")
    /\ UNCHANGED <<log, apps_lock, schema, pointer, writer, version, pending, stale, need, faults>>

ReadApplied(c) ==
    /\ pc[c] = "applied"
    /\ version' = [version EXCEPT ![c] = pointer]
    /\ pc' = [pc EXCEPT ![c] = "fetch"]
    /\ UNCHANGED <<log, apps_lock, schema, pointer, writer, locks, pending, stale, need, faults>>

FetchPending(c) ==
    /\ pc[c] = "fetch"
    /\ pending' = [pending EXCEPT ![c] = {v \in DOMAIN log : v > version[c]}]
    /\ pc' = [pc EXCEPT ![c] = "begin"]
    /\ UNCHANGED <<log, apps_lock, schema, pointer, writer, locks, version, stale, need, faults>>

\* A slip: the pending changes without ORDER BY.
TurnOfAny(c, v) == v \in pending[c]

\* ORDER BY version: v is the change whose turn it is.
Turn(c, v) == v \in pending[c] /\ \A w \in pending[c] : v <= w

\* A slip: apply_one without the pointer check inside its transaction.
OpenApplyBlindly(c, v) ==
    /\ pc[c] = "begin"
    /\ Turn(c, v)
    /\ pc' = [pc EXCEPT ![c] = "sql"]
    /\ UNCHANGED <<log, apps_lock, schema, pointer, writer, locks, version, pending, stale, need, faults>>

\* apply_one: a deferred BEGIN and the re-read of the pointer.
OpenApply(c, v) ==
    /\ pc[c] = "begin"
    /\ Turn(c, v)
    /\ pointer < v
    /\ pc' = [pc EXCEPT ![c] = "sql"]
    /\ UNCHANGED <<log, apps_lock, schema, pointer, writer, locks, version, pending, stale, need, faults>>

\* Another process was faster.
SkipApplied(c, v) ==
    /\ pc[c] = "begin"
    /\ Turn(c, v)
    /\ pointer >= v
    /\ pending' = [pending EXCEPT ![c] = @ \ {v}]
    /\ UNCHANGED <<log, apps_lock, schema, pointer, writer, locks, pc, version, stale, need, faults>>

\* The forward SQL runs and takes the write lock ...
RunSql(c, v) ==
    /\ pc[c] = "sql"
    /\ Turn(c, v)
    /\ ~stale[c] /\ writer = Nobody
    /\ log[v]
    /\ writer' = c
    /\ pc' = [pc EXCEPT ![c] = "commit"]
    /\ UNCHANGED <<log, apps_lock, schema, pointer, locks, version, pending, stale, need, faults>>

\* ... or SQLite rejects it, and the transaction is rolled back ...
SqlFails(c, v) ==
    /\ pc[c] = "sql"
    /\ Turn(c, v)
    /\ ~stale[c] /\ writer = Nobody
    /\ ~log[v]
    /\ Leave(c, "failed")
    /\ UNCHANGED <<log, apps_lock, schema, pointer, writer, version, pending, stale, need, faults>>

\* A slip: an error that leaves the mutex locked.
SqlBusyKeepsLock(c) ==
    /\ pc[c] = "sql"
    /\ stale[c] \/ writer # Nobody
    /\ pc' = [pc EXCEPT ![c] = "busy"]
    /\ stale' = [stale EXCEPT ![c] = FALSE]
    /\ UNCHANGED <<log, apps_lock, schema, pointer, writer, locks, version, pending, need, faults>>

\* ... or the read transaction cannot be upgraded.
SqlBusy(c) ==
    /\ pc[c] = "sql"
    /\ stale[c] \/ writer # Nobody
    /\ Leave(c, "busy")
    /\ stale' = [stale EXCEPT ![c] = FALSE]
    /\ UNCHANGED <<log, apps_lock, schema, pointer, writer, version, pending, need, faults>>

\* A commit outdates every transaction that has read from the file.
OutdateReaders == stale' = [d \in Caller |-> pc[d] = "sql"]

\* UPDATE of the pointer and COMMIT.
CommitApply(c, v) ==
    /\ pc[c] = "commit"
    /\ Turn(c, v)
    /\ schema' = Append(schema, v)
    /\ pointer' = v
    /\ writer' = Nobody
    /\ pending' = [pending EXCEPT ![c] = @ \ {v}]
    /\ pc' = [pc EXCEPT ![c] = "begin"]
    /\ OutdateReaders
    /\ UNCHANGED <<log, apps_lock, locks, version, need, faults>>

\* A slip: ensure_migrated that returns after the first change.
FinishEarly(c) ==
    /\ pc[c] = "begin"
    /\ Leave(c, "ready")
    /\ UNCHANGED <<log, apps_lock, schema, pointer, writer, version, pending, stale, need, faults>>

Finish(c) ==
    /\ pc[c] = "begin"
    /\ pending[c] = {}
    /\ Leave(c, "ready")
    /\ UNCHANGED <<log, apps_lock, schema, pointer, writer, version, pending, stale, need, faults>>

-----------------------------------------------------------------------------
(* The rest of a request, and faults *)

\* A mirror write with the pool: one statement, which waits for the write lock.
MirrorWrite(c) ==
    /\ pc[c] = "ready"
    /\ writer = Nobody
    /\ pc' = [pc EXCEPT ![c] = "idle"]
    /\ OutdateReaders
    /\ Forget(c)
    /\ UNCHANGED <<log, apps_lock, schema, pointer, writer, locks, faults>>

\* A console query, a mirror write that failed, or an error that is returned.
Return(c) ==
    /\ pc[c] \in {"ready", "busy", "failed"}
    /\ pc' = [pc EXCEPT ![c] = "idle"]
    /\ Forget(c)
    /\ UNCHANGED <<log, apps_lock, schema, pointer, writer, locks, stale, faults>>

Released(l, c) == IF l = c THEN Nobody ELSE l

Cancel(c) ==
    /\ faults < MaxFaults
    /\ pc[c] # "idle"
    /\ pc' = [pc EXCEPT ![c] = "idle"]
    /\ apps_lock' = Released(apps_lock, c)
    /\ writer' = Released(writer, c)
    /\ locks' = [p \in Process |-> Released(locks[p], c)]
    /\ stale' = [stale EXCEPT ![c] = FALSE]
    /\ Forget(c)
    /\ faults' = faults + 1
    /\ UNCHANGED <<log, schema, pointer>>

\* The processes are down and the file is lost; a fresh one is opened.
LoseFile ==
    /\ faults < MaxFaults
    /\ \A c \in Caller : pc[c] = "idle"
    /\ schema' = <<>>
    /\ pointer' = NoTable
    /\ faults' = faults + 1
    /\ UNCHANGED <<log, apps_lock, writer, locks, pc, version, pending, stale, need>>

-----------------------------------------------------------------------------

Init ==
    /\ log = <<>>
    /\ apps_lock = Nobody
    /\ schema = <<>>
    /\ pointer = NoTable
    /\ writer = Nobody
    /\ locks = [p \in Process |-> Nobody]
    /\ pc = [c \in Caller |-> "idle"]
    /\ version = [c \in Caller |-> 0]
    /\ pending = [c \in Caller |-> {}]
    /\ stale = [c \in Caller |-> FALSE]
    /\ need = [c \in Caller |-> 0]
    /\ faults = 0

Apply(c) ==
    \E v \in pending[c] :
        OpenApply(c, v) \/ SkipApplied(c, v) \/ RunSql(c, v) \/ SqlFails(c, v)
            \/ CommitApply(c, v)

\* What a caller does once it has begun: it is never left alone for ever.
Proceed(c) ==
    \/ CommitRecord(c)
    \/ EnsureVersionTable(c)
    \/ VersionTableBusy(c)
    \/ ReadApplied(c)
    \/ FetchPending(c)
    \/ Apply(c)
    \/ SqlBusy(c)
    \/ Finish(c)
    \/ MirrorWrite(c)
    \/ Return(c)

Next ==
    \/ \E c \in Caller : BeginRecord(c) \/ Lock(c) \/ Proceed(c) \/ Cancel(c)
    \/ LoseFile

Spec == Init /\ [][Next]_vars

\* The runtime polls every caller that can go on, and requests that need the
\* app's pool keep coming.
FairSpec == Spec /\ \A c \in Caller : WF_vars(Proceed(c)) /\ WF_vars(Lock(c))

-----------------------------------------------------------------------------
(* Properties *)

\* The types.  That version is a number also says that the pointer is never
\* read from a file that has none yet.
TypeOK ==
    /\ log \in Seq(BOOLEAN)
    /\ apps_lock \in Caller \cup {Nobody}
    /\ schema \in Seq(Nat)
    /\ pointer \in Nat \cup {NoTable}
    /\ writer \in Caller \cup {Nobody}
    /\ locks \in [Process -> Caller \cup {Nobody}]
    /\ pc \in [Caller -> Places]
    /\ version \in [Caller -> Nat]
    /\ pending \in [Caller -> SUBSET Nat]
    /\ stale \in [Caller -> BOOLEAN]
    /\ need \in [Caller -> Nat]
    /\ faults \in Nat

\* The version pointer tells exactly what has run in the file: the changes
\* 1 to pointer, each once and in order, whoever raced, died or was cut off.
PointerIsTrue ==
    /\ schema = [i \in 1..Len(schema) |-> i]
    /\ Len(schema) = IF pointer = NoTable THEN 0 ELSE pointer

\* A pool that ensure_migrated hands out without an error has every change
\* that was recorded before the call began.
ReadyIsCurrent ==
    \A c \in Caller : pc[c] = "ready" => pointer >= need[c]

\* record() never runs into UNIQUE (app_id, version): no accepted change is
\* turned away because another one was recorded at the same time.
RecordNeverConflicts ==
    \A c \in Caller : pc[c] = "insert" => version[c] \notin DOMAIN log

\* "A second process that reaches the same migration sees the bumped pointer
\* inside the transaction and skips" (schema_service.rs): a call does not end
\* with BUSY on a change that is in the file.
AppliedMigrationIsSkipped ==
    \A c \in Caller : pc[c] = "busy" => \A v \in pending[c] : pointer < v

\* A file in which something else than a prefix of the log has run is no
\* state of the abstract specification.
Replica == INSTANCE SchemaReplica
    WITH replayed <- IF schema = [i \in 1..Len(schema) |-> i] THEN Len(schema) ELSE -1

\* However callers and processes interleave, die and lose the file, the file is
\* the result of exactly a prefix of an append-only log, replayed in order.
ImplementsReplica == Replica!Spec

\* Every recorded change gets into the file, if SQLite can run it and those
\* before it, as long as requests keep coming.
RecordedIsApplied ==
    \A v \in 1..MaxRecords :
        (v \in DOMAIN log /\ \A u \in 1..v : log[u]) ~> (pointer >= v)
=============================================================================
