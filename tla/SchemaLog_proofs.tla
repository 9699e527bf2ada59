-------------------------- MODULE SchemaLog_proofs --------------------------
(***************************************************************************)
(* Proofs about SchemaLog: the version pointer is true, a pool is current, *)
(* no record conflicts, and the service implements SchemaReplica.          *)
(*                                                                         *)
(* The argument is about what a caller knows of a file it does not own.    *)
(* What it has fetched has no gap above the pointer, so the change it      *)
(* takes up next, when that is above the pointer, is the one right behind  *)
(* it; and the pointer cannot move while its transaction is neither        *)
(* outdated nor over.  The mutex of the process plays no part in it.       *)
(***************************************************************************)
EXTENDS SchemaLog, TLAPS

\* Places where a caller has its list of pending changes.
Applying == {"begin", "sql", "commit"}

\* Every change above the pointer and up to a pending one is pending.
NoGap(c) ==
    \A v \in pending[c], u \in Nat : pointer < u /\ u <= v => u \in pending[c]

\* Every change the caller needs is in the file or pending.
NeedsCovered(c) ==
    \A u \in 1..need[c] : u <= pointer \/ u \in pending[c]

CallOK(c) ==
    /\ need[c] <= Len(log)
    /\ pc[c] = "insert" => apps_lock = c /\ version[c] = Len(log) + 1
    /\ pc[c] \in {"applied", "fetch", "ready"} \cup Applying => pointer # NoTable
    /\ pc[c] = "fetch" => version[c] <= pointer
    /\ pc[c] \in Applying =>
           pending[c] \subseteq DOMAIN log /\ NoGap(c) /\ NeedsCovered(c)
    /\ pc[c] = "sql" /\ ~stale[c] => \A v \in pending[c] : Turn(c, v) => pointer < v
    /\ pc[c] = "commit" =>
           /\ writer = c
           /\ \A v \in pending[c] : Turn(c, v) => pointer < v /\ log[v]
    /\ pc[c] = "ready" => need[c] <= pointer

IInv ==
    /\ TypeOK
    /\ PointerIsTrue
    /\ pointer <= Len(log)
    /\ \A c \in Caller : CallOK(c)

-----------------------------------------------------------------------------

LEMMA InitIInv == Init => IInv
BY SchemaLogAssumption DEF Init, IInv, TypeOK, PointerIsTrue, CallOK, Applying, Places, NoTable

\* The step leaves what d knows and holds alone, and the file too, but for the
\* creation of the version table.
Untouched(d) ==
    /\ pc'[d] = pc[d] /\ need'[d] = need[d] /\ version'[d] = version[d]
    /\ pending'[d] = pending[d] /\ stale'[d] = stale[d]
    /\ log' = log
    /\ pointer' = pointer \/ (pointer' = 0 /\ pointer = NoTable)
    /\ pc[d] = "insert" => apps_lock' = apps_lock
    /\ pc[d] = "commit" => writer' = writer

LEMMA UntouchedKeeps ==
    ASSUME IInv, NEW d \in Caller, Untouched(d)
    PROVE  CallOK(d)'
BY DEF Untouched, IInv, CallOK, Applying, NoGap, NeedsCovered, Turn, NoTable, TypeOK, PointerIsTrue

LEMMA TurnIsNext ==
    ASSUME IInv, NEW c \in Caller, pc[c] \in Applying,
           NEW v \in pending[c], Turn(c, v), pointer < v
    PROVE  v = pointer + 1 /\ v \in DOMAIN log /\ pointer \in Nat
<1>1. /\ pointer \in Nat
      /\ v \in Nat
      /\ pending[c] \subseteq DOMAIN log
  BY DEF IInv, CallOK, TypeOK, Applying
<1>2. pointer + 1 \in pending[c]
  BY <1>1 DEF IInv, CallOK, NoGap
<1> QED
  BY <1>1, <1>2 DEF Turn

-----------------------------------------------------------------------------
(* record() *)

LEMMA BeginRecordKeeps ==
    ASSUME IInv, NEW c \in Caller, BeginRecord(c)
    PROVE  IInv'
<1> USE DEF BeginRecord
<1>1. TypeOK' /\ PointerIsTrue' /\ (pointer <= Len(log))'
  BY SchemaLogAssumption DEF IInv, TypeOK, PointerIsTrue, Places, NoTable
<1>2. CallOK(c)'
  BY DEF IInv, TypeOK, CallOK, Applying, NoTable
<1>3. ASSUME NEW d \in Caller, c # d PROVE CallOK(d)'
  <2>1. Untouched(d)
    BY <1>3, SchemaLogAssumption DEF Untouched, IInv, TypeOK, CallOK, NoTable
  <2> QED
    BY <2>1, UntouchedKeeps
<1> QED
  BY <1>1, <1>2, <1>3 DEF IInv

LEMMA CommitRecordKeeps ==
    ASSUME IInv, NEW c \in Caller, CommitRecord(c)
    PROVE  IInv'
<1> USE DEF CommitRecord, Forget
<1>1. version[c] \notin DOMAIN log
  BY DEF IInv, TypeOK, CallOK
<1>2. PICK runs \in BOOLEAN : log' = Append(log, runs)
  BY <1>1
<1>3. /\ Len(log') = Len(log) + 1
      /\ \A v \in DOMAIN log : v \in DOMAIN log' /\ log'[v] = log[v]
  BY <1>2 DEF IInv, TypeOK
<1>4. TypeOK' /\ PointerIsTrue' /\ (pointer <= Len(log))'
  <2>1. log' \in Seq(BOOLEAN)
    BY <1>2 DEF IInv, TypeOK
  <2>2. TypeOK'
    BY <1>1, <2>1, SchemaLogAssumption DEF IInv, TypeOK, Places
  <2> QED
    BY <1>3, <2>2 DEF IInv, TypeOK, PointerIsTrue, NoTable
<1>5. CallOK(c)'
  BY <1>1, <1>3 DEF IInv, TypeOK, CallOK, Applying, NoTable
<1>6. ASSUME NEW d \in Caller, c # d PROVE CallOK(d)'
  <2>1. /\ pc'[d] = pc[d] /\ need'[d] = need[d] /\ version'[d] = version[d]
        /\ pending'[d] = pending[d] /\ stale'[d] = stale[d]
    BY <1>1, <1>6 DEF IInv, TypeOK
  <2>2. pc[d] # "insert"
    BY <1>6 DEF IInv, CallOK
  <2> QED
    BY <1>3, <2>1, <2>2 DEF IInv, TypeOK, CallOK, Applying, NoGap, NeedsCovered, Turn
<1> QED
  BY <1>4, <1>5, <1>6 DEF IInv

-----------------------------------------------------------------------------
(* ensure_migrated() *)

LEMMA LockKeeps ==
    ASSUME IInv, NEW c \in Caller, Lock(c)
    PROVE  IInv'
<1> USE DEF Lock
<1>1. TypeOK' /\ PointerIsTrue' /\ (pointer <= Len(log))'
  <2>1. Len(log) \in Nat
    BY DEF IInv, TypeOK
  <2>2. Home[c] \in Process
    BY SchemaLogAssumption DEF SchemaLogAssumption
  <2>3. need' \in [Caller -> Nat]
    BY <2>1 DEF IInv, TypeOK
  <2>4. locks' \in [Process -> Caller \cup {Nobody}]
    BY <2>2 DEF IInv, TypeOK
  <2> QED
    BY <2>3, <2>4 DEF IInv, TypeOK, PointerIsTrue, Places, NoTable
<1>2. CallOK(c)'
  BY DEF IInv, TypeOK, CallOK, Applying, NoTable
<1>3. ASSUME NEW d \in Caller, c # d PROVE CallOK(d)'
  <2>1. Untouched(d)
    BY <1>3, SchemaLogAssumption DEF Untouched, IInv, TypeOK, CallOK, NoTable
  <2> QED
    BY <2>1, UntouchedKeeps
<1> QED
  BY <1>1, <1>2, <1>3 DEF IInv

LEMMA EnsureVersionTableKeeps ==
    ASSUME IInv, NEW c \in Caller, EnsureVersionTable(c)
    PROVE  IInv'
<1> USE DEF EnsureVersionTable
<1>1. TypeOK' /\ PointerIsTrue' /\ (pointer <= Len(log))'
  BY SchemaLogAssumption DEF IInv, TypeOK, PointerIsTrue, Places, NoTable
<1>2. CallOK(c)'
  BY DEF IInv, TypeOK, CallOK, Applying, NoTable
<1>3. ASSUME NEW d \in Caller, c # d PROVE CallOK(d)'
  <2>1. Untouched(d)
    BY <1>3, SchemaLogAssumption DEF Untouched, IInv, TypeOK, CallOK, NoTable
  <2> QED
    BY <2>1, UntouchedKeeps
<1> QED
  BY <1>1, <1>2, <1>3 DEF IInv

LEMMA VersionTableBusyKeeps ==
    ASSUME IInv, NEW c \in Caller, VersionTableBusy(c)
    PROVE  IInv'
<1> USE DEF VersionTableBusy, Leave
<1>1. TypeOK' /\ PointerIsTrue' /\ (pointer <= Len(log))'
  BY SchemaLogAssumption DEF IInv, TypeOK, PointerIsTrue, Places, NoTable
<1>2. CallOK(c)'
  BY DEF IInv, TypeOK, CallOK, Applying, NoTable
<1>3. ASSUME NEW d \in Caller, c # d PROVE CallOK(d)'
  <2>1. Untouched(d)
    BY <1>3, SchemaLogAssumption DEF Untouched, IInv, TypeOK, CallOK, NoTable
  <2> QED
    BY <2>1, UntouchedKeeps
<1> QED
  BY <1>1, <1>2, <1>3 DEF IInv

LEMMA ReadAppliedKeeps ==
    ASSUME IInv, NEW c \in Caller, ReadApplied(c)
    PROVE  IInv'
<1> USE DEF ReadApplied
<1>1. TypeOK' /\ PointerIsTrue' /\ (pointer <= Len(log))'
  BY SchemaLogAssumption DEF IInv, TypeOK, PointerIsTrue, Places, NoTable, CallOK
<1>2. CallOK(c)'
  BY DEF IInv, TypeOK, CallOK, Applying, NoTable
<1>3. ASSUME NEW d \in Caller, c # d PROVE CallOK(d)'
  <2>1. Untouched(d)
    BY <1>3, SchemaLogAssumption DEF Untouched, IInv, TypeOK, CallOK, NoTable
  <2> QED
    BY <2>1, UntouchedKeeps
<1> QED
  BY <1>1, <1>2, <1>3 DEF IInv

LEMMA FetchPendingKeeps ==
    ASSUME IInv, NEW c \in Caller, FetchPending(c)
    PROVE  IInv'
<1> USE DEF FetchPending
<1>1. TypeOK' /\ PointerIsTrue' /\ (pointer <= Len(log))'
  BY SchemaLogAssumption DEF IInv, TypeOK, PointerIsTrue, Places, NoTable
<1>2. CallOK(c)'
  BY DEF IInv, TypeOK, CallOK, Applying, NoTable, NoGap, NeedsCovered
<1>3. ASSUME NEW d \in Caller, c # d PROVE CallOK(d)'
  <2>1. Untouched(d)
    BY <1>3, SchemaLogAssumption DEF Untouched, IInv, TypeOK, CallOK, NoTable
  <2> QED
    BY <2>1, UntouchedKeeps
<1> QED
  BY <1>1, <1>2, <1>3 DEF IInv

LEMMA OpenApplyKeeps ==
    ASSUME IInv, NEW c \in Caller, NEW v \in pending[c], OpenApply(c, v)
    PROVE  IInv'
<1> USE DEF OpenApply
<1>1. TypeOK' /\ PointerIsTrue' /\ (pointer <= Len(log))'
  BY SchemaLogAssumption DEF IInv, TypeOK, PointerIsTrue, Places, NoTable
<1>2. CallOK(c)'
  BY DEF IInv, TypeOK, CallOK, Applying, NoTable, NoGap, NeedsCovered, Turn
<1>3. ASSUME NEW d \in Caller, c # d PROVE CallOK(d)'
  <2>1. Untouched(d)
    BY <1>3, SchemaLogAssumption DEF Untouched, IInv, TypeOK, CallOK, NoTable
  <2> QED
    BY <2>1, UntouchedKeeps
<1> QED
  BY <1>1, <1>2, <1>3 DEF IInv

LEMMA SkipAppliedKeeps ==
    ASSUME IInv, NEW c \in Caller, NEW v \in pending[c], SkipApplied(c, v)
    PROVE  IInv'
<1> USE DEF SkipApplied
<1>1. TypeOK' /\ PointerIsTrue' /\ (pointer <= Len(log))'
  BY SchemaLogAssumption DEF IInv, TypeOK, PointerIsTrue, Places, NoTable
<1>2. CallOK(c)'
  BY DEF IInv, TypeOK, CallOK, Applying, NoTable, NoGap, NeedsCovered, Turn
<1>3. ASSUME NEW d \in Caller, c # d PROVE CallOK(d)'
  <2>1. Untouched(d)
    BY <1>3, SchemaLogAssumption DEF Untouched, IInv, TypeOK, CallOK, NoTable
  <2> QED
    BY <2>1, UntouchedKeeps
<1> QED
  BY <1>1, <1>2, <1>3 DEF IInv

LEMMA RunSqlKeeps ==
    ASSUME IInv, NEW c \in Caller, NEW v \in pending[c], RunSql(c, v)
    PROVE  IInv'
<1> USE DEF RunSql
<1>1. TypeOK' /\ PointerIsTrue' /\ (pointer <= Len(log))'
  BY SchemaLogAssumption DEF IInv, TypeOK, PointerIsTrue, Places, NoTable
<1>2. CallOK(c)'
  BY DEF IInv, TypeOK, CallOK, Applying, NoTable, NoGap, NeedsCovered, Turn
<1>3. ASSUME NEW d \in Caller, c # d PROVE CallOK(d)'
  <2>1. Untouched(d)
    BY <1>3, SchemaLogAssumption DEF Untouched, IInv, TypeOK, CallOK, NoTable
  <2> QED
    BY <2>1, UntouchedKeeps
<1> QED
  BY <1>1, <1>2, <1>3 DEF IInv

LEMMA SqlFailsKeeps ==
    ASSUME IInv, NEW c \in Caller, NEW v \in pending[c], SqlFails(c, v)
    PROVE  IInv'
<1> USE DEF SqlFails, Leave
<1>1. TypeOK' /\ PointerIsTrue' /\ (pointer <= Len(log))'
  BY SchemaLogAssumption DEF IInv, TypeOK, PointerIsTrue, Places, NoTable
<1>2. CallOK(c)'
  BY DEF IInv, TypeOK, CallOK, Applying, NoTable
<1>3. ASSUME NEW d \in Caller, c # d PROVE CallOK(d)'
  <2>1. Untouched(d)
    BY <1>3, SchemaLogAssumption DEF Untouched, IInv, TypeOK, CallOK, NoTable
  <2> QED
    BY <2>1, UntouchedKeeps
<1> QED
  BY <1>1, <1>2, <1>3 DEF IInv

LEMMA SqlBusyKeeps ==
    ASSUME IInv, NEW c \in Caller, SqlBusy(c)
    PROVE  IInv'
<1> USE DEF SqlBusy, Leave
<1>1. TypeOK' /\ PointerIsTrue' /\ (pointer <= Len(log))'
  BY SchemaLogAssumption DEF IInv, TypeOK, PointerIsTrue, Places, NoTable
<1>2. CallOK(c)'
  BY DEF IInv, TypeOK, CallOK, Applying, NoTable
<1>3. ASSUME NEW d \in Caller, c # d PROVE CallOK(d)'
  <2>1. Untouched(d)
    BY <1>3, SchemaLogAssumption DEF Untouched, IInv, TypeOK, CallOK, NoTable
  <2> QED
    BY <2>1, UntouchedKeeps
<1> QED
  BY <1>1, <1>2, <1>3 DEF IInv

LEMMA CommitApplyKeeps ==
    ASSUME IInv, NEW c \in Caller, NEW v \in pending[c], CommitApply(c, v)
    PROVE  IInv'
<1> USE DEF CommitApply, OutdateReaders
<1>1. v = pointer + 1 /\ v \in DOMAIN log /\ pointer \in Nat /\ writer = c
  BY TurnIsNext DEF IInv, CallOK, Applying
<1>2. PointerIsTrue'
  BY <1>1 DEF IInv, TypeOK, PointerIsTrue, NoTable
<1>3. TypeOK' /\ (pointer <= Len(log))'
  BY <1>1, SchemaLogAssumption DEF IInv, TypeOK, Places
<1>4. CallOK(c)'
  BY <1>1 DEF IInv, TypeOK, CallOK, Applying, NoTable, NoGap, NeedsCovered, Turn
<1>5. ASSUME NEW d \in Caller, c # d PROVE CallOK(d)'
  <2>1. /\ pc'[d] = pc[d] /\ need'[d] = need[d] /\ version'[d] = version[d]
        /\ pending'[d] = pending[d] /\ stale'[d] = (pc[d] = "sql")
    BY <1>5 DEF IInv, TypeOK
  <2>2. pc[d] # "commit"
    BY <1>1, <1>5 DEF IInv, CallOK
  <2> QED
    BY <1>1, <2>1, <2>2 DEF IInv, TypeOK, CallOK, Applying, NoTable, NoGap, NeedsCovered
<1> QED
  BY <1>2, <1>3, <1>4, <1>5 DEF IInv

LEMMA FinishKeeps ==
    ASSUME IInv, NEW c \in Caller, Finish(c)
    PROVE  IInv'
<1> USE DEF Finish, Leave
<1>1. TypeOK' /\ PointerIsTrue' /\ (pointer <= Len(log))'
  BY SchemaLogAssumption DEF IInv, TypeOK, PointerIsTrue, Places, NoTable
<1>2. CallOK(c)'
  <2>1. need[c] \in Nat /\ pointer \in Nat /\ NeedsCovered(c)
    BY DEF IInv, TypeOK, CallOK, Applying
  <2>2. need[c] <= pointer
    BY <2>1 DEF NeedsCovered
  <2> QED
    BY <2>2 DEF IInv, TypeOK, CallOK, Applying
<1>3. ASSUME NEW d \in Caller, c # d PROVE CallOK(d)'
  <2>1. Untouched(d)
    BY <1>3, SchemaLogAssumption DEF Untouched, IInv, TypeOK, CallOK, NoTable
  <2> QED
    BY <2>1, UntouchedKeeps
<1> QED
  BY <1>1, <1>2, <1>3 DEF IInv

-----------------------------------------------------------------------------
(* The rest of a request, and faults *)

LEMMA MirrorWriteKeeps ==
    ASSUME IInv, NEW c \in Caller, MirrorWrite(c)
    PROVE  IInv'
<1> USE DEF MirrorWrite, OutdateReaders, Forget
<1>1. TypeOK' /\ PointerIsTrue' /\ (pointer <= Len(log))'
  BY SchemaLogAssumption DEF IInv, TypeOK, PointerIsTrue, Places, NoTable
<1>2. CallOK(c)'
  BY DEF IInv, TypeOK, CallOK, Applying
<1>3. ASSUME NEW d \in Caller, c # d PROVE CallOK(d)'
  <2>1. /\ pc'[d] = pc[d] /\ need'[d] = need[d] /\ version'[d] = version[d]
        /\ pending'[d] = pending[d] /\ stale'[d] = (pc[d] = "sql")
    BY <1>3 DEF IInv, TypeOK
  <2> QED
    BY <2>1 DEF IInv, TypeOK, CallOK, Applying, NoGap, NeedsCovered, Turn
<1> QED
  BY <1>1, <1>2, <1>3 DEF IInv

LEMMA ReturnKeeps ==
    ASSUME IInv, NEW c \in Caller, Return(c)
    PROVE  IInv'
<1> USE DEF Return, Forget
<1>1. TypeOK' /\ PointerIsTrue' /\ (pointer <= Len(log))'
  BY SchemaLogAssumption DEF IInv, TypeOK, PointerIsTrue, Places, NoTable
<1>2. CallOK(c)'
  BY DEF IInv, TypeOK, CallOK, Applying, NoTable
<1>3. ASSUME NEW d \in Caller, c # d PROVE CallOK(d)'
  <2>1. Untouched(d)
    BY <1>3, SchemaLogAssumption DEF Untouched, IInv, TypeOK, CallOK, NoTable
  <2> QED
    BY <2>1, UntouchedKeeps
<1> QED
  BY <1>1, <1>2, <1>3 DEF IInv

LEMMA CancelKeeps ==
    ASSUME IInv, NEW c \in Caller, Cancel(c)
    PROVE  IInv'
<1> USE DEF Cancel, Forget, Released
<1>1. TypeOK' /\ PointerIsTrue' /\ (pointer <= Len(log))'
  BY SchemaLogAssumption DEF IInv, TypeOK, PointerIsTrue, Places, NoTable
<1>2. CallOK(c)'
  BY DEF IInv, TypeOK, CallOK, Applying, NoTable
<1>3. ASSUME NEW d \in Caller, c # d PROVE CallOK(d)'
  <2>1. Untouched(d)
    <3>1. /\ pc'[d] = pc[d] /\ need'[d] = need[d] /\ version'[d] = version[d]
          /\ pending'[d] = pending[d] /\ stale'[d] = stale[d]
          /\ log' = log /\ pointer' = pointer
      BY <1>3 DEF IInv, TypeOK
    <3>2. /\ pc[d] = "insert" => apps_lock = d
          /\ pc[d] = "commit" => writer = d
      BY DEF IInv, CallOK
    <3> QED
      BY <1>3, <3>1, <3>2 DEF Untouched
  <2> QED
    BY <2>1, UntouchedKeeps
<1> QED
  BY <1>1, <1>2, <1>3 DEF IInv

LEMMA LoseFileKeeps == IInv /\ LoseFile => IInv'
<1> SUFFICES ASSUME IInv, LoseFile PROVE IInv'
  OBVIOUS
<1> USE DEF LoseFile
<1>1. TypeOK' /\ PointerIsTrue' /\ (pointer <= Len(log))'
  BY DEF IInv, TypeOK, PointerIsTrue, NoTable
<1>2. ASSUME NEW c \in Caller PROVE CallOK(c)'
  BY DEF IInv, TypeOK, CallOK, Applying
<1> QED
  BY <1>1, <1>2 DEF IInv

-----------------------------------------------------------------------------
(* The theorems *)

LEMMA ApplyKeeps ==
    ASSUME IInv, NEW c \in Caller, Apply(c)
    PROVE  IInv'
BY OpenApplyKeeps, SkipAppliedKeeps, RunSqlKeeps, SqlFailsKeeps, CommitApplyKeeps DEF Apply

LEMMA ProceedKeeps ==
    ASSUME IInv, NEW c \in Caller, Proceed(c)
    PROVE  IInv'
BY CommitRecordKeeps, EnsureVersionTableKeeps, VersionTableBusyKeeps, ReadAppliedKeeps,
   FetchPendingKeeps, ApplyKeeps, SqlBusyKeeps, FinishKeeps, MirrorWriteKeeps, ReturnKeeps
   DEF Proceed

LEMMA StutterKeeps == IInv /\ UNCHANGED vars => IInv'
<1> SUFFICES ASSUME IInv, UNCHANGED vars PROVE IInv'
  OBVIOUS
<1> USE DEF vars
<1>1. TypeOK' /\ PointerIsTrue' /\ (pointer <= Len(log))'
  BY DEF IInv, TypeOK, PointerIsTrue
<1>2. ASSUME NEW c \in Caller PROVE CallOK(c)'
  BY DEF IInv, CallOK, NoGap, NeedsCovered, Turn
<1> QED
  BY <1>1, <1>2 DEF IInv

LEMMA NextKeepsIInv == IInv /\ [Next]_vars => IInv'
<1> SUFFICES ASSUME IInv, [Next]_vars PROVE IInv'
  OBVIOUS
<1>1. ASSUME NEW c \in Caller, BeginRecord(c) \/ Lock(c) \/ Proceed(c) \/ Cancel(c)
      PROVE  IInv'
  BY <1>1, BeginRecordKeeps, LockKeeps, ProceedKeeps, CancelKeeps
<1>2. CASE LoseFile
  BY <1>2, LoseFileKeeps
<1>3. CASE UNCHANGED vars
  BY <1>3, StutterKeeps
<1> QED
  BY <1>1, <1>2, <1>3 DEF Next

\* The inductive invariant holds for any number of callers, processes, changes
\* and faults.
THEOREM ServiceInvariant == Spec => []IInv
BY InitIInv, NextKeepsIInv, PTL DEF Spec

\* Types, and the pointer is only read from a file that has one.
THEOREM ServiceTypeOK == Spec => []TypeOK
<1>1. IInv => TypeOK
  BY DEF IInv
<1> QED
  BY <1>1, ServiceInvariant, PTL

\* The pointer tells exactly what has run in the file.
THEOREM ServicePointerIsTrue == Spec => []PointerIsTrue
<1>1. IInv => PointerIsTrue
  BY DEF IInv
<1> QED
  BY <1>1, ServiceInvariant, PTL

\* A pool handed out without an error is up to date with the call's start.
THEOREM ServiceReadyIsCurrent == Spec => []ReadyIsCurrent
<1>1. IInv => ReadyIsCurrent
  BY DEF IInv, CallOK, ReadyIsCurrent, TypeOK, NoTable
<1> QED
  BY <1>1, ServiceInvariant, PTL

\* No change is turned away by UNIQUE (app_id, version).
THEOREM ServiceRecordNeverConflicts == Spec => []RecordNeverConflicts
<1>1. IInv => RecordNeverConflicts
  BY DEF IInv, CallOK, RecordNeverConflicts, TypeOK
<1> QED
  BY <1>1, ServiceInvariant, PTL

-----------------------------------------------------------------------------
(* The service implements SchemaReplica *)

\* Only a record changes the log, only a commit and a loss change the file.
LEMMA StepImplementsReplica ==
    IInv /\ [Next]_vars => [Replica!Next]_(Replica!vars)
<1> SUFFICES ASSUME IInv, [Next]_vars PROVE [Replica!Next]_(Replica!vars)
  OBVIOUS
<1> USE DEF Replica!Next, Replica!vars
<1>1. ASSUME UNCHANGED <<log, schema>> PROVE UNCHANGED Replica!vars
  BY <1>1
<1>2. ASSUME NEW c \in Caller, CommitRecord(c) PROVE [Replica!Next]_(Replica!vars)
  <2>1. UNCHANGED schema
    BY <1>2 DEF CommitRecord
  <2>2. CASE UNCHANGED log
    BY <2>1, <2>2, <1>1
  <2>3. CASE \E runs \in BOOLEAN : log' = Append(log, runs)
    BY <2>1, <2>3 DEF Replica!Record
  <2> QED
    BY <1>2, <2>2, <2>3 DEF CommitRecord
<1>3. ASSUME NEW c \in Caller, NEW v \in pending[c], CommitApply(c, v)
      PROVE  [Replica!Next]_(Replica!vars)
  <2>1. v = pointer + 1 /\ v \in DOMAIN log /\ pointer \in Nat /\ log[v]
    BY <1>3, TurnIsNext DEF CommitApply, IInv, CallOK, Applying
  <2>2. PointerIsTrue /\ PointerIsTrue'
    BY <1>3, CommitApplyKeeps DEF IInv
  <2>3. /\ Len(schema) = pointer /\ Len(schema') = pointer + 1
        /\ schema = [i \in 1..Len(schema) |-> i]
        /\ schema' = [i \in 1..Len(schema') |-> i]
    BY <1>3, <2>1, <2>2 DEF PointerIsTrue, CommitApply, NoTable
  <2> QED
    BY <1>3, <2>1, <2>3 DEF Replica!Replay, CommitApply, IInv, TypeOK
<1>4. CASE LoseFile
  BY <1>4 DEF LoseFile, Replica!StartOver
<1>5. ASSUME NEW c \in Caller, Apply(c) PROVE [Replica!Next]_(Replica!vars)
  BY <1>1, <1>3, <1>5 DEF Apply, OpenApply, SkipApplied, RunSql, SqlFails
<1>6. ASSUME NEW c \in Caller, Proceed(c) PROVE [Replica!Next]_(Replica!vars)
  BY <1>1, <1>2, <1>5, <1>6 DEF Proceed, EnsureVersionTable, VersionTableBusy, ReadApplied,
     FetchPending, SqlBusy, Finish, MirrorWrite, Return
<1>7. ASSUME NEW c \in Caller, BeginRecord(c) \/ Lock(c) \/ Cancel(c)
      PROVE  [Replica!Next]_(Replica!vars)
  BY <1>1, <1>7 DEF BeginRecord, Lock, Cancel
<1>8. CASE UNCHANGED vars
  BY <1>1, <1>8 DEF vars
<1> QED
  BY <1>4, <1>6, <1>7, <1>8 DEF Next

\* Whatever callers and processes do and suffer, the file is a prefix of the
\* log replayed in order: the detailed service implements the abstract one.
THEOREM ServiceImplementsReplica == Spec => ImplementsReplica
<1>1. Init => Replica!Init
  BY DEF Init, Replica!Init
<1> QED
  BY <1>1, StepImplementsReplica, ServiceInvariant, PTL DEF Spec, ImplementsReplica, Replica!Spec
=============================================================================
