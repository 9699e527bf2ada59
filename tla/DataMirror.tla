------------------------------ MODULE DataMirror ------------------------------
(***************************************************************************)
(* The collections of one app: their field lists and records in Postgres,  *)
(* and the tables that the schema log builds from the intents which the    *)
(* handlers record.                                                        *)
(*                                                                         *)
(* A handler finds its collection, writes Postgres, and records its        *)
(* intents, in commits of their own, with other handlers in between.       *)
(* SchemaLog says that an app's file is a prefix of the log, replayed in   *)
(* order; here `tables` is what replaying the whole log gives, up to the   *)
(* first intent that SQLite rejects.  From then on the log is stuck.       *)
(*                                                                         *)
(* No statement depends on the order of a field list or of the columns of  *)
(* a table.  A list may hold a name more than once, so it is a bag: a      *)
(* function from the names to how often they occur.                        *)
(***************************************************************************)
EXTENDS Integers, Sequences

CONSTANTS
    Request,        \* requests that may be in flight at once
    CollId, RecId,  \* uuids
    CollName,       \* names of collections that Identifier::new accepts
    FieldName,      \* names of fields that it accepts, "id" may be one
    Id,             \* the column "id" of every table
    Reserved,       \* the names of CollName that SQLite refuses: "sqlite_..."
    None,           \* no field
    Exclusive,      \* do overlapping requests concern different collections?
    FreshForms,     \* do forms offer only the fields that the list has?
    MaxRequests,    \* bound on the requests of a behaviour
    MaxFaults       \* bound on requests that are cut off

ASSUME DataMirrorAssumption ==
    /\ Reserved \subseteq CollName
    /\ None \notin FieldName
    /\ Exclusive \in BOOLEAN
    /\ FreshForms \in BOOLEAN
    /\ MaxRequests \in Nat
    /\ MaxFaults \in Nat

VARIABLES
    collections,    \* rows of collections: a function from ids
    records,        \* rows of records, by the keys of their data_json
    tables,         \* what the log builds: a function from table names to columns
    stuck,          \* has the log an intent that SQLite rejects?
    call,           \* the locals of each request
    cut,            \* names that a cut-off request concerned (a history variable)
    requests,       \* how many have begun
    faults

vars == <<collections, records, tables, stuck, call, cut, requests, faults>>

-----------------------------------------------------------------------------
(* Intents, and what their SQL does *)

CreateTable(n, b) == [op |-> "create_table", table |-> n, columns |-> b]
DropTable(n) == [op |-> "drop_table", table |-> n]
AddColumn(n, f) == [op |-> "add_column", table |-> n, to |-> f]
DropColumn(n, f) == [op |-> "drop_column", table |-> n, from |-> f]
RenameColumn(n, f, g) == [op |-> "rename_column", table |-> n, from |-> f, to |-> g]

\* Can SQLite run the intent i on the tables t?
Runs(t, i) ==
    \/ /\ i.op = "create_table"
       /\ i.table \notin DOMAIN t \cup Reserved
       /\ \A f \in DOMAIN i.columns : i.columns[f] = 1
    \/ /\ i.op # "create_table"
       /\ i.table \in DOMAIN t
       /\ i.op \in {"add_column", "rename_column"} => i.to \notin t[i.table]
       /\ i.op \in {"drop_column", "rename_column"} => i.from \in t[i.table]
       /\ i.op = "drop_column" => t[i.table] # {i.from}

Result(t, i) ==
    CASE i.op = "create_table" ->
            [n \in DOMAIN t \cup {i.table} |->
                IF n = i.table THEN DOMAIN i.columns ELSE t[n]]
      [] i.op = "drop_table" -> [n \in DOMAIN t \ {i.table} |-> t[n]]
      [] i.op = "add_column" -> [t EXCEPT ![i.table] = @ \cup {i.to}]
      [] i.op = "drop_column" -> [t EXCEPT ![i.table] = @ \ {i.from}]
      [] i.op = "rename_column" -> [t EXCEPT ![i.table] = (@ \ {i.from}) \cup {i.to}]

-----------------------------------------------------------------------------
(* Field lists *)

Copies(b, f) == IF f \in DOMAIN b THEN b[f] ELSE 0

\* fields.push
Pushed(b, f) == [g \in DOMAIN b \cup {f} |-> Copies(b, g) + (IF g = f THEN 1 ELSE 0)]

\* fields.retain
Without(b, f) == [g \in DOMAIN b \ {f} |-> b[g]]

\* Every f becomes a g.
Renamed(b, f, g) ==
    IF f \in DOMAIN b
    THEN [h \in (DOMAIN b \ {f}) \cup {g} |->
            IF h = g THEN b[f] + Copies(b, g) ELSE b[h]]
    ELSE b

-----------------------------------------------------------------------------
(* The life of a request *)

Idle == [op |-> "idle", names |-> {}]

\* A request that concerns the collections of these names comes in.
Begin(r, names) ==
    /\ requests < MaxRequests
    /\ requests' = requests + 1
    /\ call[r] = Idle
    /\ Exclusive => \A s \in Request : call[s].names \cap names = {}

\* find_collection_by_name, for the step `op`; `new` is the name it will get.
Find(r, k, op, from, to, new) ==
    LET row == collections[k]
    IN  /\ Begin(r, {row.name} \cup new)
        /\ call' = [call EXCEPT ![r] =
                [op |-> op, coll |-> k, table |-> row.name, fields |-> row.fields,
                 from |-> from, to |-> to, names |-> {row.name} \cup new]]
        /\ UNCHANGED <<collections, records, tables, stuck, cut, faults>>

\* The Postgres write is done, the intents are still to be recorded.
Owe(r, intents) ==
    call' = [call EXCEPT ![r] = [op |-> "record", owed |-> intents, names |-> @.names]]

Done(r) == call' = [call EXCEPT ![r] = Idle]

\* UPDATE collections ... WHERE id = k: no row, no effect and no error.
WithFields(k, b) ==
    [j \in DOMAIN collections |->
        IF j = k THEN [collections[j] EXCEPT !.fields = b] ELSE collections[j]]

\* Ids are random uuids.
UnusedCollIds ==
    {k \in CollId \ DOMAIN collections :
        \A r \in Request : "coll" \in DOMAIN call[r] => call[r].coll # k}

Names == {collections[k].name : k \in DOMAIN collections}

-----------------------------------------------------------------------------
(* Handlers *)

\* post_collection_create: UNIQUE (app_id, name).
CreateCollection(r, k, n) ==
    /\ Begin(r, {n})
    /\ n \notin Names
    /\ collections' = [j \in DOMAIN collections \cup {k} |->
            IF j = k THEN [name |-> n, fields |-> [f \in {} |-> 0]] ELSE collections[j]]
    /\ call' = [call EXCEPT ![r] =
            [op |-> "record", owed |-> <<CreateTable(n, [f \in {Id} |-> 1])>>, names |-> {n}]]
    /\ UNCHANGED <<records, tables, stuck, cut, faults>>

\* post_field_add: "field already exists".
FindForFieldAdd(r, k, f) ==
    /\ f \notin DOMAIN collections[k].fields
    /\ Find(r, k, "add_field", None, f, {})

\* set_collection_fields writes the list that was found, and the new field.
AddField(r) ==
    LET c == call[r]
    IN  /\ c.op = "add_field"
        /\ collections' = WithFields(c.coll, Pushed(c.fields, c.to))
        /\ Owe(r, <<AddColumn(c.table, c.to)>>)
        /\ UNCHANGED <<records, tables, stuck, cut, requests, faults>>

\* post_field_rename and post_field_delete take the field from the address.
FindForFieldRename(r, k, f, g) ==
    /\ FreshForms => f \in DOMAIN collections[k].fields
    /\ f # g
    /\ Find(r, k, "load_for_rename", f, g, {})

FindForFieldDelete(r, k, f) ==
    /\ FreshForms => f \in DOMAIN collections[k].fields
    /\ Find(r, k, "load_for_delete", f, None, {})

\* load_fields, in the transaction that will write the list, but not locked.
LoadFields(r) ==
    LET c == call[r]
    IN  /\ c.op \in {"load_for_rename", "load_for_delete"}
        /\ IF c.coll \in DOMAIN collections
           THEN call' = [call EXCEPT
                    ![r].fields = collections[c.coll].fields,
                    ![r].op = IF c.op = "load_for_rename" THEN "rename_field"
                              ELSE "delete_field"]
           ELSE Done(r)
        /\ UNCHANGED <<collections, records, tables, stuck, cut, requests, faults>>

\* A slip: rename_field without its UPDATE of the records.
RenameFieldOnly(r) ==
    LET c == call[r]
    IN  /\ c.op = "rename_field"
        /\ collections' = WithFields(c.coll, Renamed(c.fields, c.from, c.to))
        /\ Owe(r, <<RenameColumn(c.table, c.from, c.to)>>)
        /\ UNCHANGED <<records, tables, stuck, cut, requests, faults>>

\* The rest of rename_field: the list, the records, COMMIT.
RenameField(r) ==
    LET c == call[r]
        Key(f) == IF f = c.from THEN c.to ELSE f
    IN  /\ c.op = "rename_field"
        /\ collections' = WithFields(c.coll, Renamed(c.fields, c.from, c.to))
        /\ records' = [d \in DOMAIN records |->
                IF records[d].coll = c.coll
                THEN [records[d] EXCEPT !.keys = {Key(f) : f \in @}] ELSE records[d]]
        /\ Owe(r, <<RenameColumn(c.table, c.from, c.to)>>)
        /\ UNCHANGED <<tables, stuck, cut, requests, faults>>

\* The rest of delete_field.
DeleteField(r) ==
    LET c == call[r]
    IN  /\ c.op = "delete_field"
        /\ collections' = WithFields(c.coll, Without(c.fields, c.from))
        /\ records' = [d \in DOMAIN records |->
                IF records[d].coll = c.coll
                THEN [records[d] EXCEPT !.keys = @ \ {c.from}] ELSE records[d]]
        /\ Owe(r, <<DropColumn(c.table, c.from)>>)
        /\ UNCHANGED <<tables, stuck, cut, requests, faults>>

FindForRename(r, k, n) ==
    /\ n # collections[k].name
    /\ Find(r, k, "rename", None, None, {n})

\* A slip: the new table has the columns of a new collection.
RecreatedBare(c, n) == <<DropTable(c.table), CreateTable(n, [f \in {Id} |-> 1])>>

\* The table of a renamed collection, made anew with all its columns.
Recreated(c, n) ==
    <<DropTable(c.table), CreateTable(n, Pushed(collections[c.coll].fields, Id))>>

\* A slip: the new name is dropped and made again.
RenameCollectionDropsNew(r, n) ==
    LET c == call[r]
    IN  /\ c.op = "rename"
        /\ c.names = {c.table, n} /\ n # c.table
        /\ IF c.coll \in DOMAIN collections /\ n \notin Names
           THEN /\ collections' = [collections EXCEPT ![c.coll].name = n]
                /\ Owe(r, <<DropTable(n), Recreated(c, n)[2]>>)
           ELSE Done(r) /\ UNCHANGED collections
        /\ UNCHANGED <<records, tables, stuck, cut, requests, faults>>

\* post_collection_rename: an error if the collection is gone or the name is
\* taken; otherwise a drop and a create, recorded one by one.
RenameCollection(r, n) ==
    LET c == call[r]
    IN  /\ c.op = "rename"
        /\ c.names = {c.table, n} /\ n # c.table
        /\ IF c.coll \in DOMAIN collections /\ n \notin Names
           THEN /\ collections' = [collections EXCEPT ![c.coll].name = n]
                /\ Owe(r, Recreated(c, n))
           ELSE Done(r) /\ UNCHANGED collections
        /\ UNCHANGED <<records, tables, stuck, cut, requests, faults>>

FindForDelete(r, k) == Find(r, k, "delete", None, None, {})

\* A slip: the records of a deleted collection stay.
DeleteCollectionOnly(r) ==
    LET c == call[r]
    IN  /\ c.op = "delete"
        /\ collections' = [j \in DOMAIN collections \ {c.coll} |-> collections[j]]
        /\ Owe(r, <<DropTable(c.table)>>)
        /\ UNCHANGED <<records, tables, stuck, cut, requests, faults>>

\* post_collection_delete: also when the collection is gone by now.  Its
\* records go with it (ON DELETE CASCADE).
DeleteCollection(r) ==
    LET c == call[r]
    IN  /\ c.op = "delete"
        /\ collections' = [j \in DOMAIN collections \ {c.coll} |-> collections[j]]
        /\ records' = [d \in {e \in DOMAIN records : records[e].coll # c.coll} |-> records[d]]
        /\ Owe(r, <<DropTable(c.table)>>)
        /\ UNCHANGED <<tables, stuck, cut, requests, faults>>

\* post_record_create and post_public_submit.
FindForInsert(r, k) == Find(r, k, "insert", None, None, {})

\* A value for any of the fields that were found.  The mirror row is best effort.
InsertRecord(r, d, keys) ==
    LET c == call[r]
    IN  /\ c.op = "insert"
        /\ keys \subseteq DOMAIN c.fields
        /\ records' = IF c.coll \in DOMAIN collections
                      THEN [e \in DOMAIN records \cup {d} |->
                                IF e = d THEN [coll |-> c.coll, keys |-> keys] ELSE records[e]]
                      ELSE records
        /\ Done(r)
        /\ UNCHANGED <<collections, tables, stuck, cut, requests, faults>>

\* post_record_delete.
DeleteRecord(d) ==
    /\ records' = [e \in DOMAIN records \ {d} |-> records[e]]
    /\ UNCHANGED <<collections, tables, stuck, call, cut, requests, faults>>

\* record() appends the next intent of the handler to the log.
RecordIntent(r) ==
    LET c == call[r]
        i == Head(c.owed)
    IN  /\ c.op = "record"
        /\ stuck' = (stuck \/ ~Runs(tables, i))
        /\ tables' = IF stuck' THEN tables ELSE Result(tables, i)
        /\ IF Len(c.owed) = 1 THEN Done(r)
           ELSE call' = [call EXCEPT ![r].owed = Tail(@)]
        /\ UNCHANGED <<collections, records, cut, requests, faults>>

\* The client hangs up, the process dies, or Postgres is out of reach.
CutOff(r) ==
    /\ faults < MaxFaults
    /\ call[r] # Idle
    /\ cut' = cut \cup call[r].names
    /\ faults' = faults + 1
    /\ Done(r)
    /\ UNCHANGED <<collections, records, tables, stuck, requests>>

-----------------------------------------------------------------------------

Init ==
    /\ collections = [k \in {} |-> 0]
    /\ records = [d \in {} |-> 0]
    /\ tables = [n \in {} |-> {}]
    /\ stuck = FALSE
    /\ call = [r \in Request |-> Idle]
    /\ cut = {}
    /\ requests = 0
    /\ faults = 0

Next ==
    \/ \E r \in Request, k \in UnusedCollIds, n \in CollName : CreateCollection(r, k, n)
    \/ \E r \in Request, k \in DOMAIN collections, f \in FieldName : FindForFieldAdd(r, k, f)
    \/ \E r \in Request : AddField(r)
    \/ \E r \in Request, k \in DOMAIN collections, f, g \in FieldName :
           FindForFieldRename(r, k, f, g)
    \/ \E r \in Request, k \in DOMAIN collections, f \in FieldName : FindForFieldDelete(r, k, f)
    \/ \E r \in Request : LoadFields(r)
    \/ \E r \in Request : RenameField(r)
    \/ \E r \in Request : DeleteField(r)
    \/ \E r \in Request, k \in DOMAIN collections, n \in CollName : FindForRename(r, k, n)
    \/ \E r \in Request, n \in CollName : RenameCollection(r, n)
    \/ \E r \in Request, k \in DOMAIN collections : FindForDelete(r, k)
    \/ \E r \in Request : DeleteCollection(r)
    \/ \E r \in Request, k \in DOMAIN collections : FindForInsert(r, k)
    \/ \E r \in Request, d \in RecId \ DOMAIN records, keys \in SUBSET FieldName :
           InsertRecord(r, d, keys)
    \/ \E d \in DOMAIN records : DeleteRecord(d)
    \/ \E r \in Request : RecordIntent(r)
    \/ \E r \in Request : CutOff(r)

Spec == Init /\ [][Next]_vars

-----------------------------------------------------------------------------
(* Properties *)

Column == FieldName \cup {Id}

\* The types, with the foreign key of records and UNIQUE (app_id, name).
TypeOK ==
    /\ DOMAIN collections \subseteq CollId
    /\ \A k \in DOMAIN collections :
           /\ collections[k].name \in CollName
           /\ DOMAIN collections[k].fields \subseteq FieldName
           /\ \A f \in DOMAIN collections[k].fields : collections[k].fields[f] \in Nat \ {0}
           /\ \A j \in DOMAIN collections : collections[j].name = collections[k].name => j = k
    /\ DOMAIN records \subseteq RecId
    /\ \A d \in DOMAIN records :
           records[d].coll \in DOMAIN collections /\ records[d].keys \subseteq FieldName
    /\ DOMAIN tables \subseteq CollName
    /\ \A n \in DOMAIN tables : tables[n] \subseteq Column
    /\ stuck \in BOOLEAN
    /\ \A r \in Request : call[r].names \subseteq CollName
    /\ cut \subseteq CollName
    /\ requests \in Nat
    /\ faults \in Nat

InFlight == UNION {call[r].names : r \in Request}

\* "every collection / field handler should leave the SQLite database with
\* structure that mirrors the Postgres truth" (tests/sqlite_mirror.rs): unless
\* the log is stuck, a name that no request in flight and none that was cut off
\* concerns has a table if and only if there is a collection of that name, and
\* the table has the fields of the collection and an id.
MirrorAgrees ==
    ~stuck =>
        \A n \in CollName \ (InFlight \cup cut) :
            /\ n \in DOMAIN tables <=> n \in Names
            /\ \A k \in DOMAIN collections :
                   collections[k].name = n =>
                       tables[n] = {Id} \cup DOMAIN collections[k].fields

\* A name that SQLite refuses, a list with a field twice or with an "id", or a
\* collection that a request was cut off on.
Excuse(n) ==
    \/ n \in Reserved \cup cut
    \/ \E k \in DOMAIN collections :
           /\ collections[k].name = n
           /\ \E f \in DOMAIN collections[k].fields :
                  f = Id \/ collections[k].fields[f] > 1

\* The log gets stuck on nothing else: what a user does with fresh names, one
\* request per collection at a time, can always be replayed.
RejectionIsExcused ==
    [][~stuck /\ stuck' =>
            \E r \in Request : call[r].op = "record" /\ \E n \in call[r].names : Excuse(n)]_vars

\* rename_field and delete_field take the records along: every value that a
\* record holds is the value of a field of its collection.
ValuesHaveFields ==
    \A d \in DOMAIN records : records[d].keys \subseteq DOMAIN collections[records[d].coll].fields

\* "deleting one and reopening just replays the log" (schema_service.rs): it
\* never has an intent that SQLite rejects.
LogReplays == ~stuck
=============================================================================
