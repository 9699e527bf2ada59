-------------------------- MODULE DataMirror_proofs --------------------------
(***************************************************************************)
(* Proofs about DataMirror, for any number of requests, collections,       *)
(* fields and records.                                                     *)
(*                                                                         *)
(* That a record has only values of fields, and that a table has the       *)
(* columns of its collection, rests on one fact about each request in      *)
(* flight: what it has read of its collection is still so, because no      *)
(* other request concerns the same names.  The part of the mirror that it  *)
(* has made untrue by its write is what it still owes the log.             *)
(***************************************************************************)
EXTENDS DataMirror, TLAPS

-----------------------------------------------------------------------------
(* Field lists *)

\* Bags over S.
Lists(S) == UNION {[D -> Nat \ {0}] : D \in SUBSET S}

\* A list is a bag of names.
LEMMA ListIsBag ==
    ASSUME NEW S, NEW b \in Lists(S)
    PROVE  DOMAIN b \subseteq S /\ b \in [DOMAIN b -> Nat \ {0}]
<1>1. PICK D \in SUBSET S : b \in [D -> Nat \ {0}]
  BY DEF Lists
<1> QED
  BY <1>1

\* A bag of names is a list.
LEMMA BagIsList ==
    ASSUME NEW S, NEW D, D \subseteq S, NEW b \in [D -> Nat \ {0}]
    PROVE  b \in Lists(S)
  BY DEF Lists

\* How often f occurs.
LEMMA CopiesType ==
    ASSUME NEW S, NEW b \in Lists(S), NEW f
    PROVE  Copies(b, f) \in Nat /\ (f \in DOMAIN b => Copies(b, f) = b[f] /\ b[f] \in Nat \ {0})
  BY ListIsBag DEF Copies

\* fields.push adds one name.
LEMMA PushedIsList ==
    ASSUME NEW S, NEW b \in Lists(S), NEW f \in S
    PROVE  Pushed(b, f) \in Lists(S) /\ DOMAIN Pushed(b, f) = DOMAIN b \cup {f}
<1>1. DOMAIN b \subseteq S
  BY ListIsBag
<1>2. ASSUME NEW g \in DOMAIN b \cup {f}
      PROVE  Copies(b, g) + (IF g = f THEN 1 ELSE 0) \in Nat \ {0}
  <2>1. Copies(b, g) \in Nat /\ (g \in DOMAIN b => Copies(b, g) \in Nat \ {0})
    BY CopiesType
  <2> QED
    BY <2>1
<1>3. Pushed(b, f) \in [DOMAIN b \cup {f} -> Nat \ {0}]
  BY <1>2 DEF Pushed
<1>4. Pushed(b, f) \in Lists(S)
  BY <1>1, <1>3, BagIsList
<1> QED
  BY <1>4 DEF Pushed

\* fields.retain takes one name away.
LEMMA WithoutIsList ==
    ASSUME NEW S, NEW b \in Lists(S), NEW f
    PROVE  Without(b, f) \in Lists(S) /\ DOMAIN Without(b, f) = DOMAIN b \ {f}
<1>1. DOMAIN b \subseteq S /\ b \in [DOMAIN b -> Nat \ {0}]
  BY ListIsBag
<1>2. Without(b, f) \in [DOMAIN b \ {f} -> Nat \ {0}]
  BY <1>1 DEF Without
<1>3. Without(b, f) \in Lists(S)
  BY <1>1, <1>2, BagIsList
<1> QED
  BY <1>3 DEF Without

\* A name becomes another one.
LEMMA RenamedIsList ==
    ASSUME NEW S, NEW b \in Lists(S), NEW f \in S, NEW g \in S
    PROVE  /\ Renamed(b, f, g) \in Lists(S)
           /\ f \in DOMAIN b => DOMAIN Renamed(b, f, g) = (DOMAIN b \ {f}) \cup {g}
           /\ f \notin DOMAIN b => Renamed(b, f, g) = b
<1>1. DOMAIN b \subseteq S /\ b \in [DOMAIN b -> Nat \ {0}]
  BY ListIsBag
<1>2. CASE f \in DOMAIN b
  <2>1. b[f] + Copies(b, g) \in Nat \ {0}
    BY <1>2, CopiesType
  <2>2. Renamed(b, f, g) = [h \in (DOMAIN b \ {f}) \cup {g} |->
                                IF h = g THEN b[f] + Copies(b, g) ELSE b[h]]
    BY <1>2 DEF Renamed
  <2>3. Renamed(b, f, g) \in [(DOMAIN b \ {f}) \cup {g} -> Nat \ {0}]
    BY <1>1, <2>1, <2>2
  <2>4. Renamed(b, f, g) \in Lists(S)
    BY <1>1, <2>3, BagIsList
  <2> QED
    BY <1>2, <2>2, <2>4
<1>3. CASE f \notin DOMAIN b
  BY <1>3 DEF Renamed
<1> QED
  BY <1>2, <1>3

\* A column occurs once in a list with another one pushed only if it is that one.
LEMMA PushedOnce ==
    ASSUME NEW S, NEW b \in Lists(S), NEW f \in S, Pushed(b, f)[f] = 1
    PROVE  f \notin DOMAIN b
<1>1. Pushed(b, f)[f] = Copies(b, f) + 1
  BY DEF Pushed
<1>2. f \in DOMAIN b => Copies(b, f) \in Nat \ {0}
  BY CopiesType
<1>3. Copies(b, f) \in Nat
  BY CopiesType
<1> QED
  BY <1>1, <1>2, <1>3

\* A list of fields is a list of columns.
LEMMA ListsGrow ==
    ASSUME NEW S, NEW U, S \subseteq U, NEW b \in Lists(S)
    PROVE  b \in Lists(U)
  BY DEF Lists

HIDE DEF Lists, Pushed, Without, Renamed


-----------------------------------------------------------------------------
(* Types *)

Intent ==
    [op : {"create_table"}, table : CollName, columns : Lists(Column)]
    \cup [op : {"drop_table"}, table : CollName]
    \cup [op : {"add_column"}, table : CollName, to : FieldName]
    \cup [op : {"drop_column"}, table : CollName, from : FieldName]
    \cup [op : {"rename_column"}, table : CollName, from : FieldName, to : FieldName]

OwedIntents == Seq(Intent) \ {<<>>}

FieldOrNone == FieldName \cup {None}

FoundCall(Op, From, To) ==
    [op : Op, coll : CollId, table : CollName, fields : Lists(FieldName),
     from : From, to : To, names : SUBSET CollName]

\* A request between two of its commits: it has found a collection, or owes
\* the log some intents.
Call ==
    {Idle}
    \cup FoundCall({"add_field"}, {None}, FieldName)
    \cup FoundCall({"load_for_rename", "rename_field"}, FieldName, FieldName)
    \cup FoundCall({"load_for_delete", "delete_field"}, FieldName, {None})
    \cup FoundCall({"rename", "delete", "insert"}, {None}, {None})
    \cup [op : {"record"}, owed : OwedIntents, names : SUBSET CollName]

CollectionsOK ==
    /\ DOMAIN collections \subseteq CollId
    /\ collections \in [DOMAIN collections -> [name : CollName, fields : Lists(FieldName)]]
    /\ \A j, k \in DOMAIN collections : collections[j].name = collections[k].name => j = k

RecordsOK ==
    /\ DOMAIN records \subseteq RecId
    /\ records \in [DOMAIN records -> [coll : DOMAIN collections, keys : SUBSET FieldName]]

AreTables(t) ==
    /\ DOMAIN t \subseteq CollName
    /\ t \in [DOMAIN t -> SUBSET Column]

CallsOK == call \in [Request -> Call]

CountersOK == stuck \in BOOLEAN /\ cut \subseteq CollName /\ requests \in Nat /\ faults \in Nat

Types == CollectionsOK /\ RecordsOK /\ AreTables(tables) /\ CallsOK /\ CountersOK

\* What a call is by its op.
LEMMA CallShapes ==
    ASSUME NEW c \in Call
    PROVE  /\ c.names \subseteq CollName
           /\ c.op = "idle" => c = Idle
           /\ c.op = "record" => c \in [op : {"record"}, owed : OwedIntents, names : SUBSET CollName]
           /\ c.op = "add_field" => c \in FoundCall({"add_field"}, {None}, FieldName)
           /\ c.op \in {"load_for_rename", "rename_field"} =>
                  c \in FoundCall({"load_for_rename", "rename_field"}, FieldName, FieldName)
           /\ c.op \in {"load_for_delete", "delete_field"} =>
                  c \in FoundCall({"load_for_delete", "delete_field"}, FieldName, {None})
           /\ c.op \in {"rename", "delete", "insert"} =>
                  c \in FoundCall({"rename", "delete", "insert"}, {None}, {None})
  BY DEF Call, FoundCall, Idle

\* The types say what TypeOK says.
LEMMA TypesSuffice == Types => TypeOK
<1> SUFFICES ASSUME Types PROVE TypeOK
  OBVIOUS
<1>1. ASSUME NEW k \in DOMAIN collections
      PROVE  /\ collections[k].name \in CollName
             /\ DOMAIN collections[k].fields \subseteq FieldName
             /\ \A f \in DOMAIN collections[k].fields : collections[k].fields[f] \in Nat \ {0}
             /\ \A j \in DOMAIN collections : collections[j].name = collections[k].name => j = k
  <2>1. collections[k].name \in CollName /\ collections[k].fields \in Lists(FieldName)
    BY DEF Types, CollectionsOK
  <2>2. /\ DOMAIN collections[k].fields \subseteq FieldName
        /\ \A f \in DOMAIN collections[k].fields : collections[k].fields[f] \in Nat \ {0}
    BY <2>1, ListIsBag
  <2> QED
    BY <2>1, <2>2 DEF Types, CollectionsOK
<1>2. \A d \in DOMAIN records :
          records[d].coll \in DOMAIN collections /\ records[d].keys \subseteq FieldName
  BY DEF Types, RecordsOK
<1>3. \A n \in DOMAIN tables : tables[n] \subseteq Column
  BY DEF Types, AreTables
<1>4. \A r \in Request : call[r].names \subseteq CollName
  BY CallShapes DEF Types, CallsOK
<1> QED
  BY <1>1, <1>2, <1>3, <1>4 DEF TypeOK, Types, CollectionsOK, RecordsOK, AreTables, CountersOK

\* The steps of a request that change no more than its call.
LEMMA DoneType ==
    ASSUME CallsOK, NEW r \in Request, Done(r)
    PROVE  CallsOK'
  BY DEF CallsOK, Done, Call

LEMMA OweType ==
    ASSUME CallsOK, NEW r \in Request, NEW o \in OwedIntents, Owe(r, o)
    PROVE  CallsOK'
<1>1. call[r].names \subseteq CollName
  BY CallShapes DEF CallsOK
<1>2. [op |-> "record", owed |-> o, names |-> call[r].names] \in Call
  BY <1>1 DEF Call
<1> QED
  BY <1>2 DEF CallsOK, Owe

LEMMA FindType ==
    ASSUME Types, NEW r \in Request, NEW k \in DOMAIN collections,
           NEW op, NEW f, NEW g, NEW new \in SUBSET CollName,
           \/ op = "add_field" /\ f = None /\ g \in FieldName
           \/ op = "load_for_rename" /\ f \in FieldName /\ g \in FieldName
           \/ op = "load_for_delete" /\ f \in FieldName /\ g = None
           \/ op \in {"rename", "delete", "insert"} /\ f = None /\ g = None,
           Find(r, k, op, f, g, new)
    PROVE  Types'
<1> DEFINE row == collections[k]
           c == [op |-> op, coll |-> k, table |-> row.name, fields |-> row.fields,
                 from |-> f, to |-> g, names |-> {row.name} \cup new]
<1>1. k \in CollId /\ row.name \in CollName /\ row.fields \in Lists(FieldName)
  BY DEF Types, CollectionsOK
<1>2. {row.name} \cup new \in SUBSET CollName
  BY <1>1
<1>3. c \in Call
  BY <1>1, <1>2 DEF Call, FoundCall
<1>4. call' = [call EXCEPT ![r] = c]
  BY DEF Find
<1>5. CallsOK'
  BY <1>3, <1>4 DEF Types, CallsOK
<1>6. /\ UNCHANGED <<collections, records, tables, stuck, cut, faults>>
      /\ requests' = requests + 1
  BY DEF Find, Begin
<1>7. CollectionsOK' /\ RecordsOK' /\ AreTables(tables)' /\ CountersOK'
  BY <1>6 DEF Types, CollectionsOK, RecordsOK, AreTables, CountersOK
<1> QED
  BY <1>5, <1>7 DEF Types

\* What a rejected intent leaves, and what one that runs makes, are tables.
LEMMA ResultType ==
    ASSUME NEW t, AreTables(t), NEW i \in Intent, Runs(t, i)
    PROVE  AreTables(Result(t, i))
<1>1. CASE i.op = "create_table"
  <2>1. i.table \in CollName /\ i.columns \in Lists(Column)
    BY <1>1 DEF Intent
  <2>2. DOMAIN i.columns \subseteq Column
    BY <2>1, ListIsBag
  <2>3. Result(t, i) = [n \in DOMAIN t \cup {i.table} |->
                            IF n = i.table THEN DOMAIN i.columns ELSE t[n]]
    BY <1>1 DEF Result
  <2> QED
    BY <2>1, <2>2, <2>3 DEF AreTables
<1>2. CASE i.op = "drop_table"
  BY <1>2 DEF AreTables, Result
<1>3. CASE i.op = "add_column"
  <2>1. i.to \in Column
    BY <1>3 DEF Intent, Column
  <2>2. Result(t, i) = [t EXCEPT ![i.table] = @ \cup {i.to}]
    BY <1>3 DEF Result
  <2> QED
    BY <2>1, <2>2 DEF AreTables
<1>4. CASE i.op = "drop_column"
  <2>1. Result(t, i) = [t EXCEPT ![i.table] = @ \ {i.from}]
    BY <1>4 DEF Result
  <2> QED
    BY <2>1 DEF AreTables
<1>5. CASE i.op = "rename_column"
  <2>1. i.to \in Column
    BY <1>5 DEF Intent, Column
  <2>2. Result(t, i) = [t EXCEPT ![i.table] = (@ \ {i.from}) \cup {i.to}]
    BY <1>5 DEF Result
  <2> QED
    BY <2>1, <2>2 DEF AreTables
<1> QED
  BY <1>1, <1>2, <1>3, <1>4, <1>5 DEF Intent

\* What a request owes is one intent or two.
LEMMA OneOwed ==
    ASSUME NEW i \in Intent
    PROVE  <<i>> \in OwedIntents
  BY DEF OwedIntents

LEMMA TwoOwed ==
    ASSUME NEW i \in Intent, NEW j \in Intent
    PROVE  <<i, j>> \in OwedIntents
  BY DEF OwedIntents

LEMMA IntentTypes ==
    ASSUME NEW n \in CollName
    PROVE  /\ \A b \in Lists(Column) : CreateTable(n, b) \in Intent
           /\ DropTable(n) \in Intent
           /\ \A f \in FieldName : AddColumn(n, f) \in Intent /\ DropColumn(n, f) \in Intent
           /\ \A f, g \in FieldName : RenameColumn(n, f, g) \in Intent
  BY DEF Intent, CreateTable, DropTable, AddColumn, DropColumn, RenameColumn

\* set_collection_fields: the rows stay the same rows.
LEMMA WithFieldsType ==
    ASSUME CollectionsOK, NEW k, NEW b \in Lists(FieldName), collections' = WithFields(k, b)
    PROVE  CollectionsOK' /\ DOMAIN collections' = DOMAIN collections
<1>1. DOMAIN collections' = DOMAIN collections
  BY DEF WithFields
<1>2. ASSUME NEW j \in DOMAIN collections
      PROVE  /\ collections'[j] \in [name : CollName, fields : Lists(FieldName)]
             /\ collections'[j].name = collections[j].name
  BY DEF WithFields, CollectionsOK
<1>3. collections' = [j \in DOMAIN collections' |-> collections'[j]]
  BY DEF WithFields
<1> QED
  BY <1>1, <1>2, <1>3 DEF CollectionsOK

\* Records of the same collections stay records.
LEMMA RecordsKept ==
    ASSUME RecordsOK, records' = records, DOMAIN collections' = DOMAIN collections
    PROVE  RecordsOK'
  BY DEF RecordsOK

HIDE DEF OwedIntents, Intent, WithFields

\* post_collection_create.
LEMMA CreateType ==
    ASSUME Types, NEW r \in Request, NEW k \in UnusedCollIds, NEW n \in CollName,
           CreateCollection(r, k, n)
    PROVE  Types'
<1> DEFINE empty == [f \in {} |-> 0]
           c == [op |-> "record", owed |-> <<CreateTable(n, [f \in {Id} |-> 1])>>, names |-> {n}]
<1>1. k \in CollId \ DOMAIN collections
  BY DEF UnusedCollIds
<1>2. empty \in Lists(FieldName)
  <2>1. empty \in [{} -> Nat \ {0}]
    OBVIOUS
  <2> QED
    BY <2>1, BagIsList
<1>3. [f \in {Id} |-> 1] \in Lists(Column)
  <2>1. [f \in {Id} |-> 1] \in [{Id} -> Nat \ {0}]
    OBVIOUS
  <2>2. {Id} \subseteq Column
    BY DEF Column
  <2> QED
    BY <2>1, <2>2, BagIsList
<1>4. c \in Call
  <2>1. <<CreateTable(n, [f \in {Id} |-> 1])>> \in OwedIntents
    BY <1>3, IntentTypes, OneOwed
  <2> QED
    BY <2>1 DEF Call
<1>5. /\ n \notin Names
      /\ collections' = [j \in DOMAIN collections \cup {k} |->
              IF j = k THEN [name |-> n, fields |-> empty] ELSE collections[j]]
      /\ call' = [call EXCEPT ![r] = c]
      /\ UNCHANGED <<records, tables, stuck, cut, faults>>
      /\ requests' = requests + 1
  BY DEF CreateCollection, Begin
<1>6. CollectionsOK'
  <2>1. ASSUME NEW j \in DOMAIN collections'
        PROVE  collections'[j] \in [name : CollName, fields : Lists(FieldName)]
    BY <1>2, <1>5 DEF Types, CollectionsOK
  <2>2. ASSUME NEW j \in DOMAIN collections', NEW i \in DOMAIN collections',
               collections'[i].name = collections'[j].name
        PROVE  i = j
    BY <1>1, <1>5, <2>2 DEF Types, CollectionsOK, Names
  <2> QED
    BY <1>1, <1>5, <2>1, <2>2 DEF Types, CollectionsOK
<1>7. RecordsOK'
  BY <1>5 DEF Types, RecordsOK
<1>8. CallsOK'
  BY <1>4, <1>5 DEF Types, CallsOK
<1> QED
  BY <1>5, <1>6, <1>7, <1>8 DEF Types, AreTables, CountersOK

\* post_field_add.
LEMMA AddFieldType ==
    ASSUME Types, NEW r \in Request, AddField(r)
    PROVE  Types'
<1> DEFINE c == call[r]
<1>1. c \in FoundCall({"add_field"}, {None}, FieldName)
  BY CallShapes DEF Types, CallsOK, AddField
<1>2. c.table \in CollName /\ c.fields \in Lists(FieldName) /\ c.to \in FieldName
  BY <1>1 DEF FoundCall
<1>3. CollectionsOK' /\ DOMAIN collections' = DOMAIN collections
  BY <1>2, PushedIsList, WithFieldsType DEF Types, AddField
<1>4. CallsOK'
  <2>1. <<AddColumn(c.table, c.to)>> \in OwedIntents
    BY <1>2, IntentTypes, OneOwed
  <2> QED
    BY <2>1, OweType DEF Types, AddField
<1>5. RecordsOK'
  BY <1>3, RecordsKept DEF Types, AddField
<1> QED
  BY <1>3, <1>4, <1>5 DEF Types, AddField, AreTables, CountersOK

\* load_fields.
LEMMA LoadFieldsType ==
    ASSUME Types, NEW r \in Request, LoadFields(r)
    PROVE  Types'
<1> DEFINE c == call[r]
           d == [c EXCEPT !.fields = collections[c.coll].fields,
                          !.op = IF c.op = "load_for_rename" THEN "rename_field"
                                 ELSE "delete_field"]
<1>1. UNCHANGED <<collections, records, tables, stuck, cut, requests, faults>>
  BY DEF LoadFields
<1>2. ASSUME c.coll \in DOMAIN collections PROVE CallsOK'
  <2>1. call' = [call EXCEPT ![r] = d]
    BY <1>2 DEF LoadFields, Types, CallsOK
  <2>2. collections[c.coll].fields \in Lists(FieldName)
    BY <1>2 DEF Types, CollectionsOK
  <2>3. CASE c.op = "load_for_rename"
    <3>1. c \in FoundCall({"load_for_rename", "rename_field"}, FieldName, FieldName)
      BY <2>3, CallShapes DEF Types, CallsOK
    <3>2. d \in FoundCall({"load_for_rename", "rename_field"}, FieldName, FieldName)
      BY <2>2, <2>3, <3>1 DEF FoundCall
    <3>3. d \in Call
      BY <3>2 DEF Call
    <3> HIDE DEF d
    <3> QED
      BY <2>1, <3>3 DEF Types, CallsOK
  <2>4. CASE c.op = "load_for_delete"
    <3>1. c \in FoundCall({"load_for_delete", "delete_field"}, FieldName, {None})
      BY <2>4, CallShapes DEF Types, CallsOK
    <3>2. d \in FoundCall({"load_for_delete", "delete_field"}, FieldName, {None})
      BY <2>2, <2>4, <3>1 DEF FoundCall
    <3>3. d \in Call
      BY <3>2 DEF Call
    <3> HIDE DEF d
    <3> QED
      BY <2>1, <3>3 DEF Types, CallsOK
  <2> QED
    BY <2>3, <2>4 DEF LoadFields
<1>3. ASSUME c.coll \notin DOMAIN collections PROVE CallsOK'
  BY <1>3, DoneType DEF LoadFields, Types
<1>4. CallsOK'
  BY <1>2, <1>3
<1> QED
  BY <1>1, <1>4 DEF Types, CollectionsOK, RecordsOK, AreTables, CountersOK

\* rename_field.
LEMMA RenameFieldType ==
    ASSUME Types, NEW r \in Request, RenameField(r)
    PROVE  Types'
<1> DEFINE c == call[r]
           Key(f) == IF f = c.from THEN c.to ELSE f
<1>1. c \in FoundCall({"load_for_rename", "rename_field"}, FieldName, FieldName)
  BY CallShapes DEF Types, CallsOK, RenameField
<1>2. /\ c.table \in CollName /\ c.fields \in Lists(FieldName)
      /\ c.from \in FieldName /\ c.to \in FieldName
  BY <1>1 DEF FoundCall
<1>3. CollectionsOK' /\ DOMAIN collections' = DOMAIN collections
  BY <1>2, RenamedIsList, WithFieldsType DEF Types, RenameField
<1>4. CallsOK'
  <2>1. <<RenameColumn(c.table, c.from, c.to)>> \in OwedIntents
    BY <1>2, IntentTypes, OneOwed
  <2> QED
    BY <2>1, OweType DEF Types, RenameField
<1>5. RecordsOK'
  <2>1. records' = [d \in DOMAIN records |->
            IF records[d].coll = c.coll
            THEN [records[d] EXCEPT !.keys = {Key(f) : f \in @}] ELSE records[d]]
    BY DEF RenameField
  <2>2. ASSUME NEW d \in DOMAIN records
        PROVE  records'[d] \in [coll : DOMAIN collections, keys : SUBSET FieldName]
    <3>1. records[d] \in [coll : DOMAIN collections, keys : SUBSET FieldName]
      BY DEF Types, RecordsOK
    <3>2. {Key(f) : f \in records[d].keys} \in SUBSET FieldName
      BY <1>2, <3>1
    <3>3. records'[d] = IF records[d].coll = c.coll
                        THEN [records[d] EXCEPT !.keys = {Key(f) : f \in records[d].keys}]
                        ELSE records[d]
      BY <2>1, <3>1
    <3> QED
      BY <3>1, <3>2, <3>3
  <2> QED
    BY <1>3, <2>1, <2>2 DEF Types, RecordsOK
<1> QED
  BY <1>3, <1>4, <1>5 DEF Types, RenameField, AreTables, CountersOK

\* delete_field.
LEMMA DeleteFieldType ==
    ASSUME Types, NEW r \in Request, DeleteField(r)
    PROVE  Types'
<1> DEFINE c == call[r]
<1>1. c \in FoundCall({"load_for_delete", "delete_field"}, FieldName, {None})
  BY CallShapes DEF Types, CallsOK, DeleteField
<1>2. c.table \in CollName /\ c.fields \in Lists(FieldName) /\ c.from \in FieldName
  BY <1>1 DEF FoundCall
<1>3. CollectionsOK' /\ DOMAIN collections' = DOMAIN collections
  BY <1>2, WithoutIsList, WithFieldsType DEF Types, DeleteField
<1>4. CallsOK'
  <2>1. <<DropColumn(c.table, c.from)>> \in OwedIntents
    BY <1>2, IntentTypes, OneOwed
  <2> QED
    BY <2>1, OweType DEF Types, DeleteField
<1>5. RecordsOK'
  BY <1>3 DEF Types, RecordsOK, DeleteField
<1> QED
  BY <1>3, <1>4, <1>5 DEF Types, DeleteField, AreTables, CountersOK

\* post_collection_rename: the new name is nobody else's.
LEMMA RenameCollectionType ==
    ASSUME Types, NEW r \in Request, NEW n \in CollName, RenameCollection(r, n)
    PROVE  Types'
<1> DEFINE c == call[r]
<1>1. c.table \in CollName
  <2>1. c \in FoundCall({"rename", "delete", "insert"}, {None}, {None})
    BY CallShapes DEF Types, CallsOK, RenameCollection
  <2> QED
    BY <2>1 DEF FoundCall
<1>2. UNCHANGED <<records, tables, stuck, cut, requests, faults>>
  BY DEF RenameCollection
<1>3. CASE c.coll \in DOMAIN collections /\ n \notin Names
  <2>1. collections' = [collections EXCEPT ![c.coll].name = n] /\ Owe(r, Recreated(c, n))
    BY <1>3 DEF RenameCollection
  <2>2. CollectionsOK' /\ DOMAIN collections' = DOMAIN collections
    <3>1. \A k \in DOMAIN collections : collections[k].name # n
      BY <1>3 DEF Names
    <3> QED
      BY <1>3, <2>1, <3>1 DEF Types, CollectionsOK
  <2>3. Recreated(c, n) \in OwedIntents
    <3>1. collections[c.coll].fields \in Lists(Column)
      BY <1>3, ListsGrow DEF Types, CollectionsOK, Column
    <3>2. Pushed(collections[c.coll].fields, Id) \in Lists(Column)
      BY <3>1, PushedIsList DEF Column
    <3>3. /\ DropTable(c.table) \in Intent
          /\ CreateTable(n, Pushed(collections[c.coll].fields, Id)) \in Intent
      BY <1>1, <3>2, IntentTypes
    <3> QED
      BY <3>3, TwoOwed DEF Recreated
  <2>4. CallsOK'
    BY <2>1, <2>3, OweType DEF Types
  <2>5. RecordsOK'
    BY <1>2, <2>2, RecordsKept DEF Types
  <2> QED
    BY <1>2, <2>2, <2>4, <2>5 DEF Types, AreTables, CountersOK
<1>4. CASE ~(c.coll \in DOMAIN collections /\ n \notin Names)
  <2>1. Done(r) /\ UNCHANGED collections
    BY <1>4 DEF RenameCollection
  <2>2. CallsOK'
    BY <2>1, DoneType DEF Types
  <2> QED
    BY <1>2, <2>1, <2>2 DEF Types, CollectionsOK, RecordsOK, AreTables, CountersOK
<1> QED
  BY <1>3, <1>4

\* post_collection_delete: no record is left without its collection.
LEMMA DeleteCollectionType ==
    ASSUME Types, NEW r \in Request, DeleteCollection(r)
    PROVE  Types'
<1> DEFINE c == call[r]
<1>1. c \in FoundCall({"rename", "delete", "insert"}, {None}, {None})
  BY CallShapes DEF Types, CallsOK, DeleteCollection
<1>2. <<DropTable(c.table)>> \in OwedIntents
  BY <1>1, IntentTypes, OneOwed DEF FoundCall
<1>3. CallsOK'
  BY <1>2, OweType DEF Types, DeleteCollection
<1>4. CollectionsOK'
  BY DEF Types, CollectionsOK, DeleteCollection
<1>5. RecordsOK'
  BY DEF Types, RecordsOK, DeleteCollection
<1> QED
  BY <1>3, <1>4, <1>5 DEF Types, DeleteCollection, AreTables, CountersOK

\* post_record_create.
LEMMA InsertRecordType ==
    ASSUME Types, NEW r \in Request, NEW d \in RecId, NEW keys \in SUBSET FieldName,
           InsertRecord(r, d, keys)
    PROVE  Types'
<1>1. CallsOK'
  BY DoneType DEF Types, InsertRecord
<1>2. RecordsOK'
  BY DEF Types, RecordsOK, InsertRecord
<1> QED
  BY <1>1, <1>2 DEF Types, InsertRecord, CollectionsOK, AreTables, CountersOK

\* record(): what is left to record is shorter, and not nothing.
LEMMA RecordIntentType ==
    ASSUME Types, NEW r \in Request, RecordIntent(r)
    PROVE  Types'
<1> DEFINE c == call[r]
           i == Head(c.owed)
<1>1. c \in [op : {"record"}, owed : OwedIntents, names : SUBSET CollName]
  BY CallShapes DEF Types, CallsOK, RecordIntent
<1>2. c.owed \in Seq(Intent) /\ c.owed # <<>>
  BY <1>1 DEF OwedIntents
<1>3. i \in Intent
  BY <1>2
<1>4. AreTables(tables)'
  <2>1. CASE stuck'
    BY <2>1 DEF RecordIntent, Types, AreTables
  <2>2. CASE ~stuck'
    <3>1. Runs(tables, i) /\ tables' = Result(tables, i)
      BY <2>2 DEF RecordIntent
    <3> QED
      BY <1>3, <3>1, ResultType DEF Types
  <2> QED
    BY <2>1, <2>2
<1>5. CallsOK'
  <2>1. CASE Len(c.owed) = 1
    BY <2>1, DoneType DEF RecordIntent, Types
  <2>2. CASE Len(c.owed) # 1
    <3>1. Tail(c.owed) \in OwedIntents
      <4>1. Tail(c.owed) \in Seq(Intent) /\ Len(Tail(c.owed)) = Len(c.owed) - 1
        BY <1>2
      <4>2. Len(c.owed) \in Nat /\ Len(c.owed) # 0
        BY <1>2
      <4>3. Len(Tail(c.owed)) # 0
        BY <2>2, <4>1, <4>2
      <4>4. Tail(c.owed) # <<>>
        BY <4>1, <4>3, Len(<<>>) = 0
      <4> QED
        BY <4>1, <4>4 DEF OwedIntents
    <3>2. [c EXCEPT !.owed = Tail(c.owed)] \in Call
      BY <1>1, <3>1 DEF Call
    <3>3. call' = [call EXCEPT ![r] = [c EXCEPT !.owed = Tail(c.owed)]]
      BY <2>2 DEF RecordIntent, Types, CallsOK
    <3> QED
      BY <3>2, <3>3 DEF Types, CallsOK
  <2> QED
    BY <2>1, <2>2
<1>6. stuck' \in BOOLEAN
  BY DEF RecordIntent
<1> QED
  BY <1>4, <1>5, <1>6 DEF Types, RecordIntent, CollectionsOK, RecordsOK, CountersOK

\* A request that is cut off.
LEMMA CutOffType ==
    ASSUME Types, NEW r \in Request, CutOff(r)
    PROVE  Types'
<1>1. CallsOK'
  BY DoneType DEF Types, CutOff
<1>2. call[r].names \subseteq CollName
  BY CallShapes DEF Types, CallsOK
<1>3. CountersOK'
  BY <1>2 DEF Types, CountersOK, CutOff
<1> QED
  BY <1>1, <1>3 DEF Types, CutOff, CollectionsOK, RecordsOK, AreTables

LEMMA InitTypes == Init => Types
<1> SUFFICES ASSUME Init PROVE Types
  OBVIOUS
<1>1. CallsOK
  BY DEF Init, CallsOK, Call
<1> QED
  BY <1>1 DEF Init, Types, CollectionsOK, RecordsOK, AreTables, CountersOK

LEMMA StepTypes == Types /\ [Next]_vars => Types'
<1> SUFFICES ASSUME Types, [Next]_vars PROVE Types'
  OBVIOUS
<1>1. ASSUME NEW r \in Request, NEW k \in UnusedCollIds, NEW n \in CollName,
             CreateCollection(r, k, n)
      PROVE  Types'
  BY <1>1, CreateType
<1>2. ASSUME NEW r \in Request, NEW k \in DOMAIN collections, NEW f \in FieldName,
             FindForFieldAdd(r, k, f)
      PROVE  Types'
  BY <1>2, FindType DEF FindForFieldAdd
<1>3. ASSUME NEW r \in Request, AddField(r)
      PROVE  Types'
  BY <1>3, AddFieldType
<1>4. ASSUME NEW r \in Request, NEW k \in DOMAIN collections, NEW f \in FieldName,
             NEW g \in FieldName, FindForFieldRename(r, k, f, g)
      PROVE  Types'
  BY <1>4, FindType DEF FindForFieldRename
<1>5. ASSUME NEW r \in Request, NEW k \in DOMAIN collections, NEW f \in FieldName,
             FindForFieldDelete(r, k, f)
      PROVE  Types'
  BY <1>5, FindType DEF FindForFieldDelete
<1>6. ASSUME NEW r \in Request, LoadFields(r)
      PROVE  Types'
  BY <1>6, LoadFieldsType
<1>7. ASSUME NEW r \in Request, RenameField(r)
      PROVE  Types'
  BY <1>7, RenameFieldType
<1>8. ASSUME NEW r \in Request, DeleteField(r)
      PROVE  Types'
  BY <1>8, DeleteFieldType
<1>9. ASSUME NEW r \in Request, NEW k \in DOMAIN collections, NEW n \in CollName,
             FindForRename(r, k, n)
      PROVE  Types'
  <2>1. {n} \in SUBSET CollName
    OBVIOUS
  <2> QED
    BY <1>9, <2>1, FindType DEF FindForRename
<1>10. ASSUME NEW r \in Request, NEW n \in CollName, RenameCollection(r, n)
       PROVE  Types'
  BY <1>10, RenameCollectionType
<1>11. ASSUME NEW r \in Request, NEW k \in DOMAIN collections, FindForDelete(r, k)
       PROVE  Types'
  BY <1>11, FindType DEF FindForDelete
<1>12. ASSUME NEW r \in Request, DeleteCollection(r)
       PROVE  Types'
  BY <1>12, DeleteCollectionType
<1>13. ASSUME NEW r \in Request, NEW k \in DOMAIN collections, FindForInsert(r, k)
       PROVE  Types'
  BY <1>13, FindType DEF FindForInsert
<1>14. ASSUME NEW r \in Request, NEW d \in RecId \ DOMAIN records,
              NEW keys \in SUBSET FieldName, InsertRecord(r, d, keys)
       PROVE  Types'
  BY <1>14, InsertRecordType
<1>15. ASSUME NEW d \in DOMAIN records, DeleteRecord(d)
       PROVE  Types'
  BY <1>15 DEF DeleteRecord, Types, CollectionsOK, RecordsOK, AreTables, CallsOK, CountersOK
<1>16. ASSUME NEW r \in Request, RecordIntent(r)
       PROVE  Types'
  BY <1>16, RecordIntentType
<1>17. ASSUME NEW r \in Request, CutOff(r)
       PROVE  Types'
  BY <1>17, CutOffType
<1>18. CASE UNCHANGED vars
  BY <1>18 DEF vars, Types, CollectionsOK, RecordsOK, AreTables, CallsOK, CountersOK
<1> QED
  BY <1>1, <1>2, <1>3, <1>4, <1>5, <1>6, <1>7, <1>8, <1>9, <1>10, <1>11, <1>12, <1>13, <1>14,
     <1>15, <1>16, <1>17, <1>18 DEF Next

\* Type correctness, with the foreign key of records and the uniqueness of
\* names, whatever requests overlap and wherever they are cut off.
THEOREM DataTypes == Spec => []TypeOK
<1>1. Spec => []Types
  BY InitTypes, StepTypes, PTL DEF Spec
<1> QED
  BY <1>1, TypesSuffice, PTL

-----------------------------------------------------------------------------
(* The mirror: definitions *)

\* The table of name n has the columns of its collection, and an id of its own.
AgreeAt(cs, t, n) ==
    /\ n \in DOMAIN t <=> \E k \in DOMAIN cs : cs[k].name = n
    /\ \A k \in DOMAIN cs :
           cs[k].name = n =>
               /\ t[n] = {Id} \cup DOMAIN cs[k].fields
               /\ Id \notin DOMAIN cs[k].fields

\* Once the intents o are recorded, it will.
Pays(cs, t, o, n) ==
    /\ \A x \in DOMAIN o :
           o[x].table = n /\ Runs(t, o[x]) => AgreeAt(cs, Result(t, o[x]), n)
    /\ (\A x \in DOMAIN o : o[x].table # n) => AgreeAt(cs, t, n)

OwnMirror(cs, t, c, lost) ==
    \A n \in c.names \ lost :
        /\ c.op = "record" => Pays(cs, t, c.owed, n)
        /\ c.op # "record" => AgreeAt(cs, t, n)

\* What a request has read is still so, and what it owes concerns each of its
\* tables once.
Fresh(cs, c) ==
    /\ c.op \notin {"idle", "record"} =>
           /\ c.table \in c.names
           /\ c.coll \in DOMAIN cs
           /\ cs[c.coll].name = c.table
           /\ cs[c.coll].fields = c.fields
           /\ c.op \in {"load_for_rename", "load_for_delete", "rename_field", "delete_field"} =>
                  c.from \in DOMAIN c.fields
    /\ c.op = "record" =>
           /\ \A x \in DOMAIN c.owed : c.owed[x].table \in c.names
           /\ \A x, y \in DOMAIN c.owed : c.owed[x].table = c.owed[y].table => x = y

Apart == \A r, s \in Request : r # s => call[r].names \cap call[s].names = {}

AllFresh == \A r \in Request : Fresh(collections, call[r])

Mirrored ==
    ~stuck =>
        /\ \A n \in CollName \ (InFlight \cup cut) : AgreeAt(collections, tables, n)
        /\ \A r \in Request : OwnMirror(collections, tables, call[r], cut)

Strict == Apart /\ AllFresh /\ Mirrored

-----------------------------------------------------------------------------
(* What concerns one name depends on the rows and the table of that name *)

RowsAlike(cs, ds, n) ==
    /\ \A k \in DOMAIN cs : cs[k].name = n => k \in DOMAIN ds /\ ds[k] = cs[k]
    /\ \A k \in DOMAIN ds : ds[k].name = n => k \in DOMAIN cs /\ ds[k] = cs[k]

TableAlike(t, u, n) ==
    /\ n \in DOMAIN t <=> n \in DOMAIN u
    /\ n \in DOMAIN t => u[n] = t[n]

LEMMA AgreeLocal ==
    ASSUME NEW cs, NEW ds, NEW t, NEW u, NEW n,
           RowsAlike(cs, ds, n), TableAlike(t, u, n), AgreeAt(cs, t, n)
    PROVE  AgreeAt(ds, u, n)
  BY DEF RowsAlike, TableAlike, AgreeAt

\* An intent sees and changes only its own table.
LEMMA IntentLocal ==
    ASSUME NEW i \in Intent, NEW t, NEW u, AreTables(t), AreTables(u),
           TableAlike(t, u, i.table), Runs(u, i)
    PROVE  Runs(t, i) /\ TableAlike(Result(t, i), Result(u, i), i.table)
<1>1. i.table \in CollName
  BY DEF Intent
<1>2. CASE i.op = "create_table"
  BY <1>2 DEF TableAlike, Runs, Result
<1>3. CASE i.op = "drop_table"
  BY <1>3 DEF TableAlike, Runs, Result
<1>4. CASE i.op = "add_column"
  BY <1>4 DEF TableAlike, Runs, Result, AreTables
<1>5. CASE i.op = "drop_column"
  BY <1>5 DEF TableAlike, Runs, Result, AreTables
<1>6. CASE i.op = "rename_column"
  BY <1>6 DEF TableAlike, Runs, Result, AreTables
<1> QED
  BY <1>2, <1>3, <1>4, <1>5, <1>6 DEF Intent

LEMMA IntentElsewhere ==
    ASSUME NEW i \in Intent, NEW t, AreTables(t), NEW n, n # i.table, Runs(t, i)
    PROVE  TableAlike(t, Result(t, i), n)
<1>1. CASE i.op = "create_table"
  BY <1>1 DEF TableAlike, Result
<1>2. CASE i.op = "drop_table"
  BY <1>2 DEF TableAlike, Result
<1>3. CASE i.op = "add_column"
  BY <1>3 DEF TableAlike, Result, AreTables
<1>4. CASE i.op = "drop_column"
  BY <1>4 DEF TableAlike, Result, AreTables
<1>5. CASE i.op = "rename_column"
  BY <1>5 DEF TableAlike, Result, AreTables
<1> QED
  BY <1>1, <1>2, <1>3, <1>4, <1>5 DEF Intent

LEMMA PaysLocal ==
    ASSUME NEW cs, NEW ds, NEW t, NEW u, NEW n, NEW o \in OwedIntents,
           AreTables(t), AreTables(u),
           RowsAlike(cs, ds, n), TableAlike(t, u, n), Pays(cs, t, o, n)
    PROVE  Pays(ds, u, o, n)
<1>1. ASSUME NEW x \in DOMAIN o, o[x].table = n, Runs(u, o[x])
      PROVE  AgreeAt(ds, Result(u, o[x]), n)
  <2>1. o[x] \in Intent
    BY DEF OwedIntents
  <2>2. Runs(t, o[x]) /\ TableAlike(Result(t, o[x]), Result(u, o[x]), n)
    BY <1>1, <2>1, IntentLocal
  <2>3. AgreeAt(cs, Result(t, o[x]), n)
    BY <1>1, <2>2 DEF Pays
  <2> QED
    BY <2>2, <2>3, AgreeLocal
<1>2. ASSUME \A x \in DOMAIN o : o[x].table # n
      PROVE  AgreeAt(ds, u, n)
  BY <1>2, AgreeLocal DEF Pays
<1> QED
  BY <1>1, <1>2 DEF Pays

LEMMA FreshLocal ==
    ASSUME NEW cs, NEW ds, NEW c, \A n \in c.names : RowsAlike(cs, ds, n), Fresh(cs, c)
    PROVE  Fresh(ds, c)
  BY DEF Fresh, RowsAlike

HIDE DEF AgreeAt, Pays, Fresh

\* A step of request r on the names N, which concern nobody else: it has to say
\* what becomes of r and of N, and everything else is as before.
LEMMA Frame ==
    ASSUME Types, Types', Strict,
           NEW r \in Request, NEW N \in SUBSET CollName,
           call[r].names \cup call'[r].names \subseteq N,
           \A s \in Request \ {r} : call'[s] = call[s] /\ call[s].names \cap N = {},
           \A n \in CollName \ N :
               RowsAlike(collections, collections', n) /\ TableAlike(tables, tables', n),
           cut \subseteq cut', stuck => stuck',
           Fresh(collections', call'[r]),
           ~stuck' => /\ OwnMirror(collections', tables', call'[r], cut')
                      /\ \A n \in N \ (call'[r].names \cup cut') :
                             AgreeAt(collections', tables', n)
    PROVE  Strict'
<1>1. Apart'
  BY DEF Strict, Apart
<1>2. ASSUME NEW s \in Request \ {r}
      PROVE  \A n \in call[s].names : n \in CollName \ N
  BY CallShapes DEF Types, CallsOK
<1>3. AllFresh'
  <2>1. ASSUME NEW s \in Request \ {r}
        PROVE  Fresh(collections', call'[s])
    <3>1. \A n \in call[s].names : RowsAlike(collections, collections', n)
      BY <1>2
    <3>2. Fresh(collections, call[s])
      BY DEF Strict, AllFresh
    <3> QED
      BY <3>1, <3>2, FreshLocal
  <2> QED
    BY <2>1 DEF AllFresh
<1>4. ASSUME ~stuck', NEW n \in CollName \ (InFlight' \cup cut')
      PROVE  AgreeAt(collections', tables', n)
  <2>1. CASE n \in N
    BY <1>4, <2>1 DEF InFlight
  <2>2. CASE n \notin N
    <3>1. n \notin InFlight
      BY <1>4, <2>2 DEF InFlight
    <3>2. AgreeAt(collections, tables, n)
      BY <1>4, <3>1 DEF Strict, Mirrored
    <3> QED
      BY <2>2, <3>2, AgreeLocal
  <2> QED
    BY <2>1, <2>2
<1>5. ASSUME ~stuck', NEW s \in Request
      PROVE  OwnMirror(collections', tables', call'[s], cut')
  <2>1. CASE s = r
    BY <1>5, <2>1
  <2>2. CASE s # r
    <3> SUFFICES ASSUME NEW n \in call[s].names \ cut'
                 PROVE  /\ call[s].op = "record" =>
                               Pays(collections', tables', call[s].owed, n)
                        /\ call[s].op # "record" => AgreeAt(collections', tables', n)
      BY <2>2 DEF OwnMirror
    <3>1. /\ RowsAlike(collections, collections', n)
          /\ TableAlike(tables, tables', n)
      BY <1>2, <2>2
    <3>2. OwnMirror(collections, tables, call[s], cut)
      BY <1>5 DEF Strict, Mirrored
    <3>3. CASE call[s].op = "record"
      <4>1. call[s].owed \in OwedIntents
        BY <3>3, CallShapes DEF Types, CallsOK
      <4>2. Pays(collections, tables, call[s].owed, n)
        BY <3>2, <3>3 DEF OwnMirror
      <4>3. AreTables(tables) /\ AreTables(tables')
        BY DEF Types, AreTables
      <4> QED
        BY <3>1, <3>3, <4>1, <4>2, <4>3, PaysLocal
    <3>4. CASE call[s].op # "record"
      <4>1. AgreeAt(collections, tables, n)
        BY <3>2, <3>4 DEF OwnMirror
      <4> QED
        BY <3>1, <3>4, <4>1, AgreeLocal
    <3> QED
      BY <3>3, <3>4
  <2> QED
    BY <2>1, <2>2
<1>6. Mirrored'
  BY <1>4, <1>5 DEF Mirrored
<1> QED
  BY <1>1, <1>3, <1>6 DEF Strict

LEMMA AlikeItself ==
    ASSUME NEW cs, NEW t, NEW n
    PROVE  RowsAlike(cs, cs, n) /\ TableAlike(t, t, n)
  BY DEF RowsAlike, TableAlike

\* Names of a request concern nobody else.
LEMMA NamesApart ==
    ASSUME Strict, NEW r \in Request
    PROVE  \A s \in Request \ {r} : call[s].names \cap call[r].names = {}
  BY DEF Strict, Apart

HIDE DEF RowsAlike, TableAlike, Strict, Types

-----------------------------------------------------------------------------
(* The mirror: one step after the other *)

\* A request that ends without having written anything, or is cut off.
LEMMA EndStrict ==
    ASSUME Types, Types', Strict, NEW r \in Request, Done(r),
           UNCHANGED <<collections, tables, stuck>>, cut \subseteq cut',
           call[r].op = "record" => call[r].names \subseteq cut'
    PROVE  Strict'
<1> DEFINE N == call[r].names
<1>1. call' = [call EXCEPT ![r] = Idle]
  BY DEF Done
<1>2. call'[r] = Idle /\ \A s \in Request \ {r} : call'[s] = call[s]
  BY <1>1 DEF Types, CallsOK
<1>3. N \in SUBSET CollName
  BY CallShapes DEF Types, CallsOK
<1>4. call[r].names \cup call'[r].names \subseteq N
  BY <1>2 DEF Idle
<1>5. Fresh(collections', call'[r])
  BY <1>2 DEF Fresh, Idle
<1>6. OwnMirror(collections', tables', call'[r], cut')
  BY <1>2 DEF OwnMirror, Idle
<1>7. ASSUME ~stuck', NEW n \in N \ (call'[r].names \cup cut')
      PROVE  AgreeAt(collections', tables', n)
  <2>1. OwnMirror(collections, tables, call[r], cut)
    BY <1>7 DEF Strict, Mirrored
  <2>2. n \in call[r].names \ cut /\ call[r].op # "record"
    BY <1>7
  <2> QED
    BY <2>1, <2>2 DEF OwnMirror
<1>8. \A n \in CollName \ N :
          RowsAlike(collections, collections', n) /\ TableAlike(tables, tables', n)
  BY AlikeItself
<1> HIDE DEF N
<1>9. \A s \in Request \ {r} : call'[s] = call[s] /\ call[s].names \cap N = {}
  BY <1>2, NamesApart DEF N
<1> QED
  BY <1>3, <1>4, <1>5, <1>6, <1>7, <1>8, <1>9, Frame

\* A request that finds its collection: Exclusive keeps the names of others out.
LEMMA FindStrict ==
    ASSUME Types, Types', Strict, Exclusive, NEW r \in Request, NEW k \in DOMAIN collections,
           NEW op, NEW f, NEW g, NEW new \in SUBSET CollName,
           op \notin {"idle", "record"},
           op \in {"load_for_rename", "load_for_delete", "rename_field", "delete_field"} =>
               f \in DOMAIN collections[k].fields,
           Find(r, k, op, f, g, new)
    PROVE  Strict'
<1> DEFINE row == collections[k]
           N == {row.name} \cup new
           c == [op |-> op, coll |-> k, table |-> row.name, fields |-> row.fields,
                 from |-> f, to |-> g, names |-> N]
<1>1. /\ call' = [call EXCEPT ![r] = c]
      /\ call[r] = Idle
      /\ \A s \in Request : call[s].names \cap N = {}
      /\ UNCHANGED <<collections, records, tables, stuck, cut, faults>>
  BY DEF Find, Begin
<1>2. call'[r] = c /\ \A s \in Request \ {r} : call'[s] = call[s]
  BY <1>1 DEF Types, CallsOK
<1>3. N \in SUBSET CollName
  BY DEF Types, CollectionsOK
<1>4. call[r].names \cup call'[r].names \subseteq N
  BY <1>1, <1>2 DEF Idle
<1>5. Fresh(collections', call'[r])
  BY <1>1, <1>2 DEF Fresh
<1>6. ASSUME ~stuck'
      PROVE  OwnMirror(collections', tables', call'[r], cut')
  <2>1. \A n \in N \ cut : n \in CollName \ (InFlight \cup cut)
    BY <1>1, <1>3 DEF InFlight
  <2>2. \A n \in N \ cut : AgreeAt(collections, tables, n)
    BY <1>1, <1>6, <2>1 DEF Strict, Mirrored
  <2> QED
    BY <1>1, <1>2, <2>2 DEF OwnMirror
<1>7. call'[r].names = N
  BY <1>2
<1>8. \A n \in CollName \ N :
          RowsAlike(collections, collections', n) /\ TableAlike(tables, tables', n)
  BY <1>1, AlikeItself
<1>9. \A s \in Request \ {r} : call'[s] = call[s] /\ call[s].names \cap N = {}
  BY <1>1, <1>2
<1>10. cut \subseteq cut' /\ (stuck => stuck')
  BY <1>1
<1> HIDE DEF N, c, row
<1> QED
  BY <1>3, <1>4, <1>5, <1>6, <1>7, <1>8, <1>9, <1>10, Frame

\* A request that has written Postgres and now owes the intents o: others are
\* as before, and for its own names o makes good what the write did.
LEMMA OweStrict ==
    ASSUME Types, Types', Strict, NEW r \in Request, NEW o \in OwedIntents, Owe(r, o),
           UNCHANGED <<tables, stuck, cut>>,
           \A n \in CollName \ call[r].names : RowsAlike(collections, collections', n),
           \A x \in DOMAIN o : o[x].table \in call[r].names,
           \A x, y \in DOMAIN o : o[x].table = o[y].table => x = y,
           ~stuck => \A n \in call[r].names \ cut : Pays(collections', tables, o, n)
    PROVE  Strict'
<1> DEFINE N == call[r].names
           c == [op |-> "record", owed |-> o, names |-> N]
<1>1. call' = [call EXCEPT ![r] = c]
  BY DEF Owe, Types, CallsOK
<1>2. call'[r] = c /\ \A s \in Request \ {r} : call'[s] = call[s]
  BY <1>1 DEF Types, CallsOK
<1>3. N \in SUBSET CollName
  BY CallShapes DEF Types, CallsOK
<1>4. call[r].names \cup call'[r].names \subseteq N /\ call'[r].names = N
  BY <1>2
<1>5. Fresh(collections', call'[r])
  BY <1>2 DEF Fresh
<1>6. ~stuck' => OwnMirror(collections', tables', call'[r], cut')
  BY <1>2 DEF OwnMirror
<1>7. \A n \in CollName \ N :
          RowsAlike(collections, collections', n) /\ TableAlike(tables, tables', n)
  BY AlikeItself
<1>8. \A s \in Request \ {r} : call'[s] = call[s] /\ call[s].names \cap N = {}
  BY <1>2, NamesApart
<1>9. ~stuck' => \A n \in N \ (call'[r].names \cup cut') : AgreeAt(collections', tables', n)
  BY <1>4
<1>10. cut \subseteq cut' /\ (stuck => stuck')
  OBVIOUS
<1> HIDE DEF N, c
<1> QED
  BY <1>3, <1>4, <1>5, <1>6, <1>7, <1>8, <1>9, <1>10, Frame

\* A list that is changed by one intent: it makes good the table of the
\* collection, and no other name is concerned.
LEMMA WithFieldsStrict ==
    ASSUME Types, Types', Strict, NEW r \in Request, NEW i \in Intent, NEW b,
           call[r].op \notin {"idle", "record"},
           collections' = WithFields(call[r].coll, b), Owe(r, <<i>>),
           i.table = call[r].table,
           UNCHANGED <<tables, stuck, cut>>,
           ASSUME AgreeAt(collections, tables, i.table), Runs(tables, i)
           PROVE  /\ i.table \in DOMAIN Result(tables, i)
                  /\ Result(tables, i)[i.table] = {Id} \cup DOMAIN b
                  /\ Id \notin DOMAIN b
    PROVE  Strict'
<1> DEFINE c == call[r]
           o == <<i>>
<1>1. /\ c.table \in c.names /\ c.coll \in DOMAIN collections
      /\ collections[c.coll].name = c.table
  BY DEF Strict, AllFresh, Fresh
<1>2. /\ DOMAIN collections' = DOMAIN collections
      /\ \A k \in DOMAIN collections : collections'[k].name = collections[k].name
      /\ \A k \in DOMAIN collections : k # c.coll => collections'[k] = collections[k]
      /\ collections'[c.coll].fields = b
  BY <1>1 DEF WithFields, Types, CollectionsOK
<1>3. \A n : n # c.table => RowsAlike(collections, collections', n)
  BY <1>1, <1>2 DEF RowsAlike
<1>4. o \in OwedIntents
  BY OneOwed
<1>5. ASSUME ~stuck, NEW n \in c.names \ cut
      PROVE  Pays(collections', tables, o, n)
  <2>1. AgreeAt(collections, tables, n)
    BY <1>5 DEF Strict, Mirrored, OwnMirror
  <2>2. CASE n = c.table
    <3>1. ASSUME Runs(tables, i)
          PROVE  AgreeAt(collections', Result(tables, i), n)
      <4>1. /\ n \in DOMAIN Result(tables, i)
            /\ Result(tables, i)[n] = {Id} \cup DOMAIN b
            /\ Id \notin DOMAIN b
        BY <2>1, <2>2, <3>1
      <4>2. \A k \in DOMAIN collections' : collections'[k].name = n => k = c.coll
        BY <1>1, <1>2, <2>2 DEF Types, CollectionsOK
      <4> QED
        BY <1>1, <1>2, <2>2, <4>1, <4>2 DEF AgreeAt
    <3> QED
      BY <2>2, <3>1 DEF Pays
  <2>3. CASE n # c.table
    <3>1. AgreeAt(collections', tables, n)
      BY <1>3, <2>1, <2>3, AgreeLocal, AlikeItself
    <3> QED
      BY <2>3, <3>1 DEF Pays
  <2> QED
    BY <2>2, <2>3
<1>6. \A n \in CollName \ c.names : RowsAlike(collections, collections', n)
  BY <1>1, <1>3
<1>7. /\ \A x \in DOMAIN o : o[x].table \in c.names
      /\ \A x, y \in DOMAIN o : o[x].table = o[y].table => x = y
  BY <1>1
<1> QED
  BY <1>4, <1>5, <1>6, <1>7, OweStrict

\* What AgreeAt says of the collection that a request has found.
LEMMA FoundAgrees ==
    ASSUME Types, Strict, NEW r \in Request, call[r].op \notin {"idle", "record"},
           AgreeAt(collections, tables, call[r].table)
    PROVE  /\ call[r].table \in DOMAIN tables
           /\ tables[call[r].table] = {Id} \cup DOMAIN call[r].fields
           /\ Id \notin DOMAIN call[r].fields
  BY DEF Strict, AllFresh, Fresh, AgreeAt

LEMMA AddFieldStrict ==
    ASSUME Types, Types', Strict, NEW r \in Request, AddField(r)
    PROVE  Strict'
<1> DEFINE c == call[r]
           i == AddColumn(c.table, c.to)
           b == Pushed(c.fields, c.to)
<1>1. c \in FoundCall({"add_field"}, {None}, FieldName)
  BY CallShapes DEF Types, CallsOK, AddField
<1>2. c.table \in CollName /\ c.fields \in Lists(FieldName) /\ c.to \in FieldName
  BY <1>1 DEF FoundCall
<1>3. i \in Intent /\ i.op = "add_column" /\ i.table = c.table /\ i.to = c.to
  BY <1>2, IntentTypes DEF AddColumn
<1>4. ASSUME AgreeAt(collections, tables, i.table), Runs(tables, i)
      PROVE  /\ i.table \in DOMAIN Result(tables, i)
             /\ Result(tables, i)[i.table] = {Id} \cup DOMAIN b
             /\ Id \notin DOMAIN b
  <2>1. /\ c.table \in DOMAIN tables
        /\ tables[c.table] = {Id} \cup DOMAIN c.fields
        /\ Id \notin DOMAIN c.fields
    BY <1>3, <1>4, FoundAgrees DEF AddField
  <2>2. c.to \notin tables[c.table]
    BY <1>3, <1>4 DEF Runs
  <2>3. DOMAIN b = DOMAIN c.fields \cup {c.to}
    BY DEF Pushed
  <2>4. Result(tables, i) = [tables EXCEPT ![c.table] = tables[c.table] \cup {c.to}]
    BY <1>3 DEF Result
  <2> QED
    BY <1>3, <2>1, <2>2, <2>3, <2>4
<1>5. /\ c.op \notin {"idle", "record"}
      /\ collections' = WithFields(c.coll, b)
      /\ Owe(r, <<i>>)
      /\ UNCHANGED <<tables, stuck, cut>>
  BY DEF AddField
<1> HIDE DEF i, b
<1> QED
  BY <1>3, <1>4, <1>5, WithFieldsStrict

LEMMA RenameFieldStrict ==
    ASSUME Types, Types', Strict, NEW r \in Request, RenameField(r)
    PROVE  Strict'
<1> DEFINE c == call[r]
           i == RenameColumn(c.table, c.from, c.to)
           b == Renamed(c.fields, c.from, c.to)
<1>1. c \in FoundCall({"load_for_rename", "rename_field"}, FieldName, FieldName)
  BY CallShapes DEF Types, CallsOK, RenameField
<1>2. /\ c.table \in CollName /\ c.fields \in Lists(FieldName)
      /\ c.from \in FieldName /\ c.to \in FieldName
  BY <1>1 DEF FoundCall
<1>3. /\ i \in Intent /\ i.op = "rename_column" /\ i.table = c.table
      /\ i.from = c.from /\ i.to = c.to
  BY <1>2, IntentTypes DEF RenameColumn
<1>4. ASSUME AgreeAt(collections, tables, i.table), Runs(tables, i)
      PROVE  /\ i.table \in DOMAIN Result(tables, i)
             /\ Result(tables, i)[i.table] = {Id} \cup DOMAIN b
             /\ Id \notin DOMAIN b
  <2>1. /\ c.table \in DOMAIN tables
        /\ tables[c.table] = {Id} \cup DOMAIN c.fields
        /\ Id \notin DOMAIN c.fields
    BY <1>3, <1>4, FoundAgrees DEF RenameField
  <2>2. c.to \notin tables[c.table]
    BY <1>3, <1>4 DEF Runs
  <2>3. c.from \in DOMAIN c.fields
    BY DEF Strict, AllFresh, Fresh, RenameField
  <2>4. DOMAIN b = (DOMAIN c.fields \ {c.from}) \cup {c.to}
    BY <2>3 DEF Renamed
  <2>5. Result(tables, i) = [tables EXCEPT ![c.table] = (tables[c.table] \ {c.from}) \cup {c.to}]
    BY <1>3 DEF Result
  <2> QED
    BY <1>3, <2>1, <2>2, <2>3, <2>4, <2>5
<1>5. /\ c.op \notin {"idle", "record"}
      /\ collections' = WithFields(c.coll, b)
      /\ Owe(r, <<i>>)
      /\ UNCHANGED <<tables, stuck, cut>>
  BY DEF RenameField
<1> HIDE DEF i, b
<1> QED
  BY <1>3, <1>4, <1>5, WithFieldsStrict

LEMMA DeleteFieldStrict ==
    ASSUME Types, Types', Strict, NEW r \in Request, DeleteField(r)
    PROVE  Strict'
<1> DEFINE c == call[r]
           i == DropColumn(c.table, c.from)
           b == Without(c.fields, c.from)
<1>1. c \in FoundCall({"load_for_delete", "delete_field"}, FieldName, {None})
  BY CallShapes DEF Types, CallsOK, DeleteField
<1>2. c.table \in CollName /\ c.fields \in Lists(FieldName) /\ c.from \in FieldName
  BY <1>1 DEF FoundCall
<1>3. i \in Intent /\ i.op = "drop_column" /\ i.table = c.table /\ i.from = c.from
  BY <1>2, IntentTypes DEF DropColumn
<1>4. ASSUME AgreeAt(collections, tables, i.table), Runs(tables, i)
      PROVE  /\ i.table \in DOMAIN Result(tables, i)
             /\ Result(tables, i)[i.table] = {Id} \cup DOMAIN b
             /\ Id \notin DOMAIN b
  <2>1. /\ c.table \in DOMAIN tables
        /\ tables[c.table] = {Id} \cup DOMAIN c.fields
        /\ Id \notin DOMAIN c.fields
    BY <1>3, <1>4, FoundAgrees DEF DeleteField
  <2>2. c.from \in DOMAIN c.fields
    BY DEF Strict, AllFresh, Fresh, DeleteField
  <2>3. DOMAIN b = DOMAIN c.fields \ {c.from}
    BY <1>2, WithoutIsList
  <2>4. Result(tables, i) = [tables EXCEPT ![c.table] = tables[c.table] \ {c.from}]
    BY <1>3 DEF Result
  <2> QED
    BY <1>3, <2>1, <2>2, <2>3, <2>4
<1>5. /\ c.op \notin {"idle", "record"}
      /\ collections' = WithFields(c.coll, b)
      /\ Owe(r, <<i>>)
      /\ UNCHANGED <<tables, stuck, cut>>
  BY DEF DeleteField
<1> HIDE DEF i, b
<1> QED
  BY <1>3, <1>4, <1>5, WithFieldsStrict

\* load_fields reads the list that was found before.
LEMMA LoadFieldsStrict ==
    ASSUME Types, Types', Strict, NEW r \in Request, LoadFields(r)
    PROVE  Strict'
<1> DEFINE c == call[r]
           d == [c EXCEPT !.fields = collections[c.coll].fields,
                          !.op = IF c.op = "load_for_rename" THEN "rename_field"
                                 ELSE "delete_field"]
           N == c.names
<1>1. /\ c.op \in {"load_for_rename", "load_for_delete"}
      /\ UNCHANGED <<collections, records, tables, stuck, cut, requests, faults>>
  BY DEF LoadFields
<1>2. /\ c.table \in c.names /\ c.coll \in DOMAIN collections
      /\ collections[c.coll].name = c.table /\ collections[c.coll].fields = c.fields
      /\ c.from \in DOMAIN c.fields
  BY <1>1 DEF Strict, AllFresh, Fresh
<1>3. /\ call' = [call EXCEPT ![r] = d]
      /\ d.op \in {"rename_field", "delete_field"} /\ d.names = N
      /\ d.table = c.table /\ d.coll = c.coll /\ d.fields = c.fields /\ d.from = c.from
  <2>1. CASE c.op = "load_for_rename"
    <3>1. c \in FoundCall({"load_for_rename", "rename_field"}, FieldName, FieldName)
      BY <2>1, CallShapes DEF Types, CallsOK
    <3> QED
      BY <1>2, <2>1, <3>1 DEF LoadFields, Types, CallsOK, FoundCall
  <2>2. CASE c.op = "load_for_delete"
    <3>1. c \in FoundCall({"load_for_delete", "delete_field"}, FieldName, {None})
      BY <2>2, CallShapes DEF Types, CallsOK
    <3> QED
      BY <1>2, <2>2, <3>1 DEF LoadFields, Types, CallsOK, FoundCall
  <2> QED
    BY <1>1, <2>1, <2>2
<1>4. call'[r] = d /\ \A s \in Request \ {r} : call'[s] = call[s]
  BY <1>3 DEF Types, CallsOK
<1>5. N \in SUBSET CollName
  BY CallShapes DEF Types, CallsOK
<1> HIDE DEF d
<1>6. Fresh(collections', call'[r])
  BY <1>1, <1>2, <1>3, <1>4 DEF Fresh
<1>7. ~stuck' => OwnMirror(collections', tables', call'[r], cut')
  BY <1>1, <1>3, <1>4 DEF OwnMirror, Strict, Mirrored
<1>8. \A n \in CollName \ N :
          RowsAlike(collections, collections', n) /\ TableAlike(tables, tables', n)
  BY <1>1, AlikeItself
<1>9. \A s \in Request \ {r} : call'[s] = call[s] /\ call[s].names \cap N = {}
  BY <1>4, NamesApart
<1>10. /\ cut \subseteq cut' /\ (stuck => stuck')
       /\ call'[r].names = N /\ call[r].names \cup call'[r].names \subseteq N
  BY <1>1, <1>3, <1>4
<1> HIDE DEF N
<1> QED
  BY <1>5, <1>6, <1>7, <1>8, <1>9, <1>10, Frame

LEMMA CreateStrict ==
    ASSUME Types, Types', Strict, Exclusive, NEW r \in Request, NEW k \in UnusedCollIds,
           NEW n \in CollName, CreateCollection(r, k, n)
    PROVE  Strict'
<1> DEFINE i == CreateTable(n, [f \in {Id} |-> 1])
           c == [op |-> "record", owed |-> <<i>>, names |-> {n}]
<1>1. k \notin DOMAIN collections
  BY DEF UnusedCollIds
<1>2. /\ call[r] = Idle /\ \A s \in Request : call[s].names \cap {n} = {}
      /\ n \notin Names
      /\ collections' = [j \in DOMAIN collections \cup {k} |->
              IF j = k THEN [name |-> n, fields |-> [f \in {} |-> 0]] ELSE collections[j]]
      /\ call' = [call EXCEPT ![r] = c]
      /\ UNCHANGED <<records, tables, stuck, cut, faults>>
  BY DEF CreateCollection, Begin
<1>3. call'[r] = c /\ \A s \in Request \ {r} : call'[s] = call[s]
  BY <1>2 DEF Types, CallsOK
<1>4. call[r].names \cup call'[r].names \subseteq {n} /\ call'[r].names = {n}
  BY <1>2, <1>3 DEF Idle
<1>5. Fresh(collections', call'[r])
  BY <1>3 DEF Fresh, CreateTable
<1>6. \A m \in CollName \ {n} :
          RowsAlike(collections, collections', m) /\ TableAlike(tables, tables', m)
  <2>1. \A m \in CollName \ {n} : RowsAlike(collections, collections', m)
    BY <1>1, <1>2 DEF RowsAlike
  <2> QED
    BY <1>2, <2>1, AlikeItself
<1>7. Pays(collections', tables', <<i>>, n)
  <2>1. /\ n \in DOMAIN Result(tables, i) /\ Result(tables, i)[n] = {Id}
    BY DEF Result, CreateTable
  <2>2. /\ k \in DOMAIN collections' /\ collections'[k].name = n
        /\ \A j \in DOMAIN collections' : collections'[j].name = n =>
               j = k /\ DOMAIN collections'[j].fields = {}
    BY <1>2 DEF Names
  <2>3. AgreeAt(collections', Result(tables, i), n)
    BY <2>1, <2>2 DEF AgreeAt
  <2>4. tables' = tables /\ i.table = n
    BY <1>2 DEF CreateTable
  <2> QED
    BY <2>3, <2>4 DEF Pays
<1>8. ~stuck' => OwnMirror(collections', tables', call'[r], cut')
  BY <1>3, <1>7 DEF OwnMirror
<1>9. \A s \in Request \ {r} : call'[s] = call[s] /\ call[s].names \cap {n} = {}
  BY <1>2, <1>3
<1>10. cut \subseteq cut' /\ (stuck => stuck') /\ {n} \in SUBSET CollName
  BY <1>2
<1> HIDE DEF c, i
<1> QED
  BY <1>4, <1>5, <1>6, <1>8, <1>9, <1>10, Frame

\* A dropped table is right for a collection that is gone.
LEMMA DropAgrees ==
    ASSUME NEW cs, NEW t, NEW n, \A k \in DOMAIN cs : cs[k].name # n
    PROVE  AgreeAt(cs, Result(t, DropTable(n)), n)
<1>1. Result(t, DropTable(n)) = [m \in DOMAIN t \ {n} |-> t[m]]
  BY DEF Result, DropTable
<1> QED
  BY <1>1 DEF AgreeAt

\* post_collection_delete.
LEMMA DeleteCollectionStrict ==
    ASSUME Types, Types', Strict, NEW r \in Request, DeleteCollection(r)
    PROVE  Strict'
<1> DEFINE c == call[r]
           i == DropTable(c.table)
           o == <<i>>
<1>1. c \in FoundCall({"rename", "delete", "insert"}, {None}, {None}) /\ c.op = "delete"
  BY CallShapes DEF Types, CallsOK, DeleteCollection
<1>2. /\ collections' = [j \in DOMAIN collections \ {c.coll} |-> collections[j]]
      /\ Owe(r, o)
      /\ UNCHANGED <<tables, stuck, cut>>
  BY DEF DeleteCollection
<1>3. c.table \in c.names /\ c.coll \in DOMAIN collections /\ collections[c.coll].name = c.table
  BY <1>1 DEF Strict, AllFresh, Fresh
<1>4. o \in OwedIntents
  BY <1>1, IntentTypes, OneOwed DEF FoundCall
<1>5. \A n : n # c.table => RowsAlike(collections, collections', n)
  BY <1>2, <1>3 DEF RowsAlike
<1>6. i.table = c.table
  BY DEF DropTable
<1>7. ASSUME ~stuck, NEW n \in c.names \ cut
      PROVE  Pays(collections', tables, o, n)
  <2>1. CASE n = c.table
    <3>1. \A k \in DOMAIN collections' : collections'[k].name # n
      BY <1>2, <1>3, <2>1 DEF Types, CollectionsOK
    <3>2. AgreeAt(collections', Result(tables, i), n)
      BY <2>1, <3>1, DropAgrees
    <3> HIDE DEF i
    <3> QED
      BY <1>6, <2>1, <3>2 DEF Pays
  <2>2. CASE n # c.table
    <3>1. AgreeAt(collections, tables, n)
      BY <1>1, <1>7 DEF Strict, Mirrored, OwnMirror
    <3>2. AgreeAt(collections', tables, n)
      BY <1>5, <2>2, <3>1, AgreeLocal, AlikeItself
    <3> HIDE DEF i
    <3> QED
      BY <1>6, <2>2, <3>2 DEF Pays
  <2> QED
    BY <2>1, <2>2
<1>8. \A n \in CollName \ c.names : RowsAlike(collections, collections', n)
  BY <1>3, <1>5
<1> HIDE DEF i
<1>9. /\ \A x \in DOMAIN o : o[x].table \in c.names
      /\ \A x, y \in DOMAIN o : o[x].table = o[y].table => x = y
  BY <1>3, <1>6
<1> QED
  BY <1>2, <1>4, <1>7, <1>8, <1>9, OweStrict

\* The new table of a renamed collection has the columns of its list.
LEMMA RecreatedAgrees ==
    ASSUME NEW cs, NEW t, NEW n, NEW k \in DOMAIN cs, NEW b \in Lists(Column),
           cs[k].name = n, cs[k].fields = b, \A j \in DOMAIN cs : cs[j].name = n => j = k,
           Runs(t, CreateTable(n, Pushed(b, Id)))
    PROVE  AgreeAt(cs, Result(t, CreateTable(n, Pushed(b, Id))), n)
<1> DEFINE i == CreateTable(n, Pushed(b, Id))
<1>1. Id \in Column
  BY DEF Column
<1>2. DOMAIN Pushed(b, Id) = DOMAIN b \cup {Id}
  BY <1>1, PushedIsList
<1>3. i.op = "create_table" /\ i.table = n /\ i.columns = Pushed(b, Id)
  BY DEF CreateTable
<1> HIDE DEF i
<1>4. Pushed(b, Id)[Id] = 1
  BY <1>2, <1>3 DEF Runs, i
<1>5. Id \notin DOMAIN b
  BY <1>1, <1>4, PushedOnce
<1>6. n \in DOMAIN Result(t, i) /\ Result(t, i)[n] = DOMAIN b \cup {Id}
  BY <1>2, <1>3 DEF Result
<1>7. AgreeAt(cs, Result(t, i), n)
  BY <1>5, <1>6 DEF AgreeAt
<1> QED
  BY <1>7 DEF i

\* What a renaming writes: one row has the new name.
LEMMA RenamedRow ==
    ASSUME CollectionsOK, NEW k \in DOMAIN collections, NEW n, n \notin Names,
           collections' = [collections EXCEPT ![k].name = n]
    PROVE  /\ DOMAIN collections' = DOMAIN collections
           /\ \A j \in DOMAIN collections : j # k => collections'[j] = collections[j]
           /\ collections'[k].name = n
           /\ collections'[k].fields = collections[k].fields
           /\ \A j \in DOMAIN collections : collections'[j].name = n => j = k
           /\ \A j \in DOMAIN collections : collections'[j].name # collections[k].name
<1>1. \A j \in DOMAIN collections : collections[j].name # n
  BY DEF Names
<1> QED
  BY <1>1 DEF CollectionsOK

\* post_collection_rename: the table of the old name and that of the new one.
LEMMA RenameCollectionStrict ==
    ASSUME Types, Types', Strict, NEW r \in Request, NEW n \in CollName, RenameCollection(r, n)
    PROVE  Strict'
<1> DEFINE c == call[r]
           b == collections[c.coll].fields
           i == DropTable(c.table)
           j == CreateTable(n, Pushed(b, Id))
           o == <<i, j>>
<1>1. /\ c \in FoundCall({"rename", "delete", "insert"}, {None}, {None}) /\ c.op = "rename"
      /\ c.names = {c.table, n} /\ n # c.table
      /\ UNCHANGED <<tables, stuck, cut>>
  BY CallShapes DEF Types, CallsOK, RenameCollection
<1>2. CASE ~(c.coll \in DOMAIN collections /\ n \notin Names)
  <2>1. Done(r) /\ UNCHANGED collections
    BY <1>2 DEF RenameCollection
  <2> QED
    BY <1>1, <2>1, EndStrict
<1>3. CASE c.coll \in DOMAIN collections /\ n \notin Names
  <2>1. collections' = [collections EXCEPT ![c.coll].name = n] /\ Owe(r, o)
    BY <1>3 DEF RenameCollection, Recreated
  <2>2. collections[c.coll].name = c.table
    BY <1>1 DEF Strict, AllFresh, Fresh
  <2>3. /\ DOMAIN collections' = DOMAIN collections
        /\ \A k \in DOMAIN collections : k # c.coll => collections'[k] = collections[k]
        /\ collections'[c.coll].name = n
        /\ collections'[c.coll].fields = b
        /\ \A k \in DOMAIN collections : collections'[k].name = n => k = c.coll
        /\ \A k \in DOMAIN collections : collections'[k].name # c.table
    <3>1. CollectionsOK
      BY DEF Types
    <3>2. c.coll \in DOMAIN collections /\ n \notin Names
      BY <1>3
    <3>3. collections' = [collections EXCEPT ![c.coll].name = n]
      BY <2>1
    <3> HIDE DEF c
    <3>4. /\ DOMAIN collections' = DOMAIN collections
          /\ \A k \in DOMAIN collections : k # c.coll => collections'[k] = collections[k]
          /\ collections'[c.coll].name = n
          /\ collections'[c.coll].fields = collections[c.coll].fields
          /\ \A k \in DOMAIN collections : collections'[k].name = n => k = c.coll
          /\ \A k \in DOMAIN collections : collections'[k].name # collections[c.coll].name
      BY <3>1, <3>2, <3>3, RenamedRow
    <3> QED
      BY <2>2, <3>4
  <2>4. b \in Lists(Column)
    BY <1>3, ListsGrow DEF Types, CollectionsOK, Column
  <2>5. i \in Intent /\ j \in Intent
    <3>1. Pushed(b, Id) \in Lists(Column)
      BY <2>4, PushedIsList DEF Column
    <3>2. c.table \in CollName
      BY <1>1 DEF FoundCall
    <3> HIDE DEF b
    <3> QED
      BY <3>1, <3>2, IntentTypes
  <2>6. i.table = c.table /\ j.table = n
    BY DEF DropTable, CreateTable
  <2>7. AgreeAt(collections', Result(tables, i), c.table)
    BY <2>3, DropAgrees
  <2>8. ASSUME Runs(tables, j)
        PROVE  AgreeAt(collections', Result(tables, j), n)
    BY <1>3, <2>3, <2>4, <2>8, RecreatedAgrees
  <2> HIDE DEF i, j
  <2>9. o \in OwedIntents
    BY <2>5, TwoOwed
  <2>10. /\ DOMAIN o = {1, 2} /\ o[1] = i /\ o[2] = j
    OBVIOUS
  <2> HIDE DEF o
  <2>11. Pays(collections', tables, o, c.table) /\ Pays(collections', tables, o, n)
    BY <1>1, <2>6, <2>7, <2>8, <2>10 DEF Pays
  <2>12. \A m \in CollName \ c.names : RowsAlike(collections, collections', m)
    BY <1>1, <1>3, <2>2, <2>3 DEF RowsAlike
  <2>13. \A x \in DOMAIN o : o[x].table \in c.names
    BY <1>1, <2>6, <2>10
  <2>14. \A x, y \in DOMAIN o : o[x].table = o[y].table => x = y
    BY <1>1, <2>6, <2>10
  <2>15. \A m \in c.names \ cut : Pays(collections', tables, o, m)
    BY <1>1, <2>11
  <2> QED
    BY <1>1, <2>1, <2>9, <2>12, <2>13, <2>14, <2>15, OweStrict
<1> QED
  BY <1>2, <1>3

\* post_record_create writes no collection.
LEMMA InsertRecordStrict ==
    ASSUME Types, Types', Strict, NEW r \in Request, NEW d, NEW keys, InsertRecord(r, d, keys)
    PROVE  Strict'
  BY EndStrict DEF InsertRecord

\* What a request that is cut off leaves undone is excused by `cut`.
LEMMA CutOffStrict ==
    ASSUME Types, Types', Strict, NEW r \in Request, CutOff(r)
    PROVE  Strict'
  BY EndStrict DEF CutOff

\* The first of some intents, and the others.
LEMMA OwedParts ==
    ASSUME NEW o \in OwedIntents
    PROVE  /\ Head(o) \in Intent /\ 1 \in DOMAIN o /\ o[1] = Head(o)
           /\ Len(o) = 1 => DOMAIN o = {1}
           /\ \A x \in DOMAIN o : o[x] \in Intent
           /\ \A x \in DOMAIN Tail(o) : x + 1 \in DOMAIN o /\ x + 1 # 1 /\ Tail(o)[x] = o[x + 1]
           /\ \A x \in DOMAIN o : x # 1 => x - 1 \in DOMAIN Tail(o) /\ Tail(o)[x - 1] = o[x]
<1>1. o \in Seq(Intent) /\ o # <<>>
  BY DEF OwedIntents
<1>2. Len(o) \in Nat \ {0} /\ DOMAIN o = 1..Len(o)
  BY <1>1
<1>3. Head(o) \in Intent /\ o[1] = Head(o) /\ \A x \in DOMAIN o : o[x] \in Intent
  BY <1>1
<1>4. /\ DOMAIN Tail(o) = 1..(Len(o) - 1)
      /\ \A x \in 1..(Len(o) - 1) : Tail(o)[x] = o[x + 1]
  BY <1>1, <1>2
<1> QED
  BY <1>2, <1>3, <1>4

\* The last intent makes good what it has to.
LEMMA PaysLast ==
    ASSUME NEW cs, NEW t, AreTables(t), NEW o \in OwedIntents, NEW n, Len(o) = 1,
           Runs(t, Head(o)), Pays(cs, t, o, n)
    PROVE  AgreeAt(cs, Result(t, Head(o)), n)
<1>1. Head(o) \in Intent /\ DOMAIN o = {1} /\ o[1] = Head(o)
  BY OwedParts
<1>2. CASE n = Head(o).table
  BY <1>1, <1>2 DEF Pays
<1>3. CASE n # Head(o).table
  <2>1. AgreeAt(cs, t, n)
    BY <1>1, <1>3 DEF Pays
  <2>2. TableAlike(t, Result(t, Head(o)), n)
    BY <1>1, <1>3, IntentElsewhere
  <2> QED
    BY <2>1, <2>2, AgreeLocal, AlikeItself
<1> QED
  BY <1>2, <1>3

\* An intent leaves the others what they have to make good.
LEMMA PaysTail ==
    ASSUME NEW cs, NEW t, AreTables(t), NEW o \in OwedIntents, NEW n,
           \A x, y \in DOMAIN o : o[x].table = o[y].table => x = y,
           Runs(t, Head(o)), Pays(cs, t, o, n)
    PROVE  Pays(cs, Result(t, Head(o)), Tail(o), n)
<1> DEFINE i == Head(o)
           u == Result(t, i)
           p == Tail(o)
<1>1. i \in Intent /\ 1 \in DOMAIN o /\ o[1] = i /\ \A x \in DOMAIN o : o[x] \in Intent
  BY OwedParts
<1>2. /\ \A x \in DOMAIN p : x + 1 \in DOMAIN o /\ x + 1 # 1 /\ p[x] = o[x + 1]
      /\ \A x \in DOMAIN o : x # 1 => x - 1 \in DOMAIN p /\ p[x - 1] = o[x]
  BY OwedParts
<1>3. AreTables(u)
  BY <1>1, ResultType
<1>4. ASSUME n # i.table PROVE TableAlike(t, u, n)
  BY <1>1, <1>4, IntentElsewhere
<1> HIDE DEF i, u, p
<1>5. ASSUME NEW x \in DOMAIN p, p[x].table = n, Runs(u, p[x])
      PROVE  AgreeAt(cs, Result(u, p[x]), n)
  <2>1. x + 1 \in DOMAIN o /\ p[x] = o[x + 1] /\ p[x] \in Intent /\ n # i.table
    BY <1>1, <1>2, <1>5
  <2>2. Runs(t, p[x]) /\ TableAlike(Result(t, p[x]), Result(u, p[x]), n)
    BY <1>3, <1>4, <1>5, <2>1, IntentLocal
  <2>3. AgreeAt(cs, Result(t, p[x]), n)
    BY <1>5, <2>1, <2>2 DEF Pays
  <2> QED
    BY <2>2, <2>3, AgreeLocal, AlikeItself
<1>6. ASSUME \A x \in DOMAIN p : p[x].table # n
      PROVE  AgreeAt(cs, u, n)
  <2>1. CASE n = i.table
    BY <1>1, <2>1 DEF Pays, u, i
  <2>2. CASE n # i.table
    <3>1. \A x \in DOMAIN o : o[x].table # n
      BY <1>1, <1>2, <1>6, <2>2
    <3>2. AgreeAt(cs, t, n)
      BY <3>1 DEF Pays
    <3> QED
      BY <1>4, <2>2, <3>2, AgreeLocal, AlikeItself
  <2> QED
    BY <2>1, <2>2
<1>7. Pays(cs, u, p, n)
  BY <1>5, <1>6 DEF Pays
<1> QED
  BY <1>7 DEF u, p, i

\* record(): the log has one intent more, the request owes one less.
LEMMA RecordIntentStrict ==
    ASSUME Types, Types', Strict, NEW r \in Request, RecordIntent(r)
    PROVE  Strict'
<1> DEFINE c == call[r]
           o == c.owed
           i == Head(o)
           N == c.names
           d == IF Len(o) = 1 THEN Idle ELSE [c EXCEPT !.owed = Tail(o)]
<1>1. /\ c \in [op : {"record"}, owed : OwedIntents, names : SUBSET CollName]
      /\ c.op = "record" /\ o \in OwedIntents /\ N \in SUBSET CollName
  BY CallShapes DEF Types, CallsOK, RecordIntent
<1>2. /\ stuck' = (stuck \/ ~Runs(tables, i))
      /\ tables' = IF stuck' THEN tables ELSE Result(tables, i)
      /\ UNCHANGED <<collections, cut>>
      /\ call' = [call EXCEPT ![r] = d]
  BY DEF RecordIntent, Done, Types, CallsOK
<1>3. call'[r] = d /\ \A s \in Request \ {r} : call'[s] = call[s]
  BY <1>2 DEF Types, CallsOK
<1>4. /\ Len(o) = 1 => d = Idle
      /\ Len(o) # 1 => d.op = "record" /\ d.owed = Tail(o) /\ d.names = N
  BY <1>1
<1>5. /\ \A x \in DOMAIN o : o[x].table \in N
      /\ \A x, y \in DOMAIN o : o[x].table = o[y].table => x = y
  BY <1>1 DEF Strict, AllFresh, Fresh
<1>6. i \in Intent /\ 1 \in DOMAIN o /\ o[1] = i
  BY <1>1, OwedParts
<1>7. AreTables(tables)
  BY DEF Types
<1> HIDE DEF d, i
<1>8. Fresh(collections', call'[r])
  <2>1. CASE Len(o) = 1
    BY <1>3, <1>4, <2>1 DEF Fresh, Idle
  <2>2. CASE Len(o) # 1
    <3>1. \A x \in DOMAIN Tail(o) : x + 1 \in DOMAIN o /\ Tail(o)[x] = o[x + 1]
      BY <1>1, OwedParts
    <3>2. \A x \in DOMAIN Tail(o) : x \in Int
      BY <1>1 DEF OwedIntents
    <3>3. /\ \A x \in DOMAIN Tail(o) : Tail(o)[x].table \in N
          /\ \A x, y \in DOMAIN Tail(o) : Tail(o)[x].table = Tail(o)[y].table => x = y
      BY <1>5, <3>1, <3>2
    <3> QED
      BY <1>3, <1>4, <2>2, <3>3 DEF Fresh
  <2> QED
    BY <2>1, <2>2
<1>9. ASSUME ~stuck', NEW n \in N \ cut
      PROVE  /\ Runs(tables, i) /\ tables' = Result(tables, i)
             /\ Pays(collections, tables, o, n)
  BY <1>1, <1>2, <1>9 DEF Strict, Mirrored, OwnMirror
<1>10. ASSUME ~stuck'
       PROVE  OwnMirror(collections', tables', call'[r], cut')
  <2>1. CASE Len(o) = 1
    BY <1>3, <1>4, <2>1 DEF OwnMirror, Idle
  <2>2. CASE Len(o) # 1
    <3>1. \A n \in N \ cut : Pays(collections', tables', Tail(o), n)
      BY <1>1, <1>2, <1>5, <1>7, <1>9, <1>10, PaysTail DEF i
    <3> QED
      BY <1>2, <1>3, <1>4, <2>2, <3>1 DEF OwnMirror
  <2> QED
    BY <2>1, <2>2
<1>11. ASSUME ~stuck', NEW n \in N \ (call'[r].names \cup cut')
       PROVE  AgreeAt(collections', tables', n)
  <2>1. Len(o) = 1
    BY <1>3, <1>4, <1>11
  <2> QED
    BY <1>1, <1>2, <1>7, <1>9, <1>11, <2>1, PaysLast DEF i
<1>12. \A n \in CollName \ N :
           RowsAlike(collections, collections', n) /\ TableAlike(tables, tables', n)
  <2>1. CASE stuck'
    BY <1>2, <2>1, AlikeItself
  <2>2. CASE ~stuck'
    <3>1. \A n \in CollName \ N : n # i.table
      BY <1>5, <1>6
    <3>2. Runs(tables, i) /\ tables' = Result(tables, i)
      BY <1>2, <2>2
    <3> QED
      BY <1>2, <1>6, <1>7, <3>1, <3>2, IntentElsewhere, AlikeItself
  <2> QED
    BY <2>1, <2>2
<1>13. call[r].names \cup call'[r].names \subseteq N
  BY <1>3, <1>4 DEF Idle
<1>14. \A s \in Request \ {r} : call'[s] = call[s] /\ call[s].names \cap N = {}
  BY <1>3, NamesApart
<1>15. cut \subseteq cut' /\ (stuck => stuck') /\ N \in SUBSET CollName
  BY <1>1, <1>2
<1> HIDE DEF N
<1> QED
  BY <1>8, <1>10, <1>11, <1>12, <1>13, <1>14, <1>15, Frame

LEMMA InitStrict == Init => Strict
  BY DEF Init, Strict, Apart, AllFresh, Fresh, Mirrored, OwnMirror, AgreeAt, InFlight, Idle

LEMMA StepStrict ==
    ASSUME Exclusive, FreshForms, Types, Types', Strict, [Next]_vars
    PROVE  Strict'
<1>1. ASSUME NEW r \in Request, NEW k \in UnusedCollIds, NEW n \in CollName,
             CreateCollection(r, k, n)
      PROVE  Strict'
  BY <1>1, CreateStrict
<1>2. ASSUME NEW r \in Request, NEW k \in DOMAIN collections, NEW f \in FieldName,
             FindForFieldAdd(r, k, f)
      PROVE  Strict'
  BY <1>2, FindStrict DEF FindForFieldAdd
<1>3. ASSUME NEW r \in Request, AddField(r)
      PROVE  Strict'
  BY <1>3, AddFieldStrict
<1>4. ASSUME NEW r \in Request, NEW k \in DOMAIN collections, NEW f \in FieldName,
             NEW g \in FieldName, FindForFieldRename(r, k, f, g)
      PROVE  Strict'
  BY <1>4, FindStrict DEF FindForFieldRename
<1>5. ASSUME NEW r \in Request, NEW k \in DOMAIN collections, NEW f \in FieldName,
             FindForFieldDelete(r, k, f)
      PROVE  Strict'
  BY <1>5, FindStrict DEF FindForFieldDelete
<1>6. ASSUME NEW r \in Request, LoadFields(r)
      PROVE  Strict'
  BY <1>6, LoadFieldsStrict
<1>7. ASSUME NEW r \in Request, RenameField(r)
      PROVE  Strict'
  BY <1>7, RenameFieldStrict
<1>8. ASSUME NEW r \in Request, DeleteField(r)
      PROVE  Strict'
  BY <1>8, DeleteFieldStrict
<1>9. ASSUME NEW r \in Request, NEW k \in DOMAIN collections, NEW n \in CollName,
             FindForRename(r, k, n)
      PROVE  Strict'
  <2>1. {n} \in SUBSET CollName
    OBVIOUS
  <2> QED
    BY <1>9, <2>1, FindStrict DEF FindForRename
<1>10. ASSUME NEW r \in Request, NEW n \in CollName, RenameCollection(r, n)
       PROVE  Strict'
  BY <1>10, RenameCollectionStrict
<1>11. ASSUME NEW r \in Request, NEW k \in DOMAIN collections, FindForDelete(r, k)
       PROVE  Strict'
  BY <1>11, FindStrict DEF FindForDelete
<1>12. ASSUME NEW r \in Request, DeleteCollection(r)
       PROVE  Strict'
  BY <1>12, DeleteCollectionStrict
<1>13. ASSUME NEW r \in Request, NEW k \in DOMAIN collections, FindForInsert(r, k)
       PROVE  Strict'
  BY <1>13, FindStrict DEF FindForInsert
<1>14. ASSUME NEW r \in Request, NEW d \in RecId \ DOMAIN records,
              NEW keys \in SUBSET FieldName, InsertRecord(r, d, keys)
       PROVE  Strict'
  BY <1>14, InsertRecordStrict
<1>15. ASSUME UNCHANGED <<collections, tables, stuck, call, cut>>
       PROVE  Strict'
  BY <1>15 DEF Strict, Apart, AllFresh, Mirrored, OwnMirror, InFlight
<1>16. ASSUME NEW d \in DOMAIN records, DeleteRecord(d)
       PROVE  Strict'
  BY <1>15, <1>16 DEF DeleteRecord
<1>17. ASSUME NEW r \in Request, RecordIntent(r)
       PROVE  Strict'
  BY <1>17, RecordIntentStrict
<1>18. ASSUME NEW r \in Request, CutOff(r)
       PROVE  Strict'
  BY <1>18, CutOffStrict
<1>19. CASE UNCHANGED vars
  BY <1>15, <1>19 DEF vars
<1> QED
  BY <1>1, <1>2, <1>3, <1>4, <1>5, <1>6, <1>7, <1>8, <1>9, <1>10, <1>11, <1>12, <1>13, <1>14,
     <1>16, <1>17, <1>18, <1>19 DEF Next

LEMMA MirroredSuffices ==
    ASSUME Types, Strict
    PROVE  MirrorAgrees
<1> SUFFICES ASSUME ~stuck, NEW n \in CollName \ (InFlight \cup cut)
             PROVE  /\ n \in DOMAIN tables <=> n \in Names
                    /\ \A k \in DOMAIN collections :
                           collections[k].name = n =>
                               tables[n] = {Id} \cup DOMAIN collections[k].fields
  BY DEF MirrorAgrees
<1>1. AgreeAt(collections, tables, n)
  BY DEF Strict, Mirrored
<1> QED
  BY <1>1 DEF AgreeAt, Names

\* Requests on different collections, from forms that offer fields that exist,
\* leave the mirror true, whichever of them overlap and wherever one is cut
\* off: unless the log is stuck, the table of a name that none of them concerns
\* is there, and has the right columns, exactly if there is such a collection.
THEOREM MirrorHolds ==
    ASSUME Exclusive, FreshForms
    PROVE  Spec => []MirrorAgrees
<1>1. Init => Types /\ Strict
  BY InitTypes, InitStrict
<1>2. (Types /\ Strict) /\ [Next]_vars => (Types /\ Strict)'
  BY StepTypes, StepStrict
<1>3. Types /\ Strict => MirrorAgrees
  BY MirroredSuffices
<1> QED
  BY <1>1, <1>2, <1>3, PTL DEF Spec

-----------------------------------------------------------------------------
(* The values of records *)

\* What a request has found of its collection is still so.
LEMMA FoundStill ==
    ASSUME Types, Strict, NEW r \in Request, call[r].op \notin {"idle", "record"}
    PROVE  /\ call[r].coll \in DOMAIN collections
           /\ collections[call[r].coll].fields = call[r].fields
           /\ call[r].op \in {"rename_field", "delete_field"} => call[r].from \in DOMAIN call[r].fields
  BY DEF Strict, AllFresh, Fresh

\* Fields are not taken from a collection that has records.
LEMMA ValuesKept ==
    ASSUME Types, ValuesHaveFields, UNCHANGED records,
           \A k \in DOMAIN collections :
               DOMAIN collections[k].fields \subseteq DOMAIN collections'[k].fields
    PROVE  ValuesHaveFields'
  BY DEF Types, RecordsOK, ValuesHaveFields

\* What set_collection_fields, and rename_field and delete_field, write.
LEMMA ListWritten ==
    ASSUME CollectionsOK, NEW k \in DOMAIN collections, NEW b, collections' = WithFields(k, b)
    PROVE  /\ collections'[k].fields = b
           /\ \A j \in DOMAIN collections : j # k => collections'[j] = collections[j]
  BY DEF WithFields, CollectionsOK

LEMMA AddFieldValues ==
    ASSUME Types, Strict, ValuesHaveFields, NEW r \in Request, AddField(r)
    PROVE  ValuesHaveFields'
<1> DEFINE c == call[r]
           b == Pushed(c.fields, c.to)
<1>1. c.coll \in DOMAIN collections /\ collections[c.coll].fields = c.fields
  BY FoundStill DEF AddField
<1>2. collections' = WithFields(c.coll, b) /\ UNCHANGED records
  BY DEF AddField
<1>3. DOMAIN c.fields \subseteq DOMAIN b
  BY DEF Pushed
<1> HIDE DEF b
<1>4. /\ collections'[c.coll].fields = b
      /\ \A j \in DOMAIN collections : j # c.coll => collections'[j] = collections[j]
  BY <1>1, <1>2, ListWritten DEF Types
<1>5. \A k \in DOMAIN collections :
          DOMAIN collections[k].fields \subseteq DOMAIN collections'[k].fields
  BY <1>1, <1>3, <1>4
<1> QED
  BY <1>2, <1>5, ValuesKept

LEMMA RenameFieldValues ==
    ASSUME Types, Strict, ValuesHaveFields, NEW r \in Request, RenameField(r)
    PROVE  ValuesHaveFields'
<1> DEFINE c == call[r]
           b == Renamed(c.fields, c.from, c.to)
           Key(f) == IF f = c.from THEN c.to ELSE f
<1>1. /\ c.coll \in DOMAIN collections /\ collections[c.coll].fields = c.fields
      /\ c.from \in DOMAIN c.fields
  BY FoundStill DEF RenameField
<1>2. /\ collections' = WithFields(c.coll, b)
      /\ records' = [d \in DOMAIN records |->
              IF records[d].coll = c.coll
              THEN [records[d] EXCEPT !.keys = {Key(f) : f \in @}] ELSE records[d]]
  BY DEF RenameField
<1>3. DOMAIN b = (DOMAIN c.fields \ {c.from}) \cup {c.to}
  BY <1>1 DEF Renamed
<1> HIDE DEF b
<1>4. /\ collections'[c.coll].fields = b
      /\ \A j \in DOMAIN collections : j # c.coll => collections'[j] = collections[j]
  BY <1>1, <1>2, ListWritten DEF Types
<1>5. ASSUME NEW d \in DOMAIN records
      PROVE  records'[d].keys \subseteq DOMAIN collections'[records'[d].coll].fields
  <2>1. /\ records[d] \in [coll : DOMAIN collections, keys : SUBSET FieldName]
        /\ records[d].keys \subseteq DOMAIN collections[records[d].coll].fields
    BY DEF Types, RecordsOK, ValuesHaveFields
  <2>2. CASE records[d].coll = c.coll
    <3>1. records'[d].coll = c.coll /\ records'[d].keys = {Key(f) : f \in records[d].keys}
      BY <1>2, <2>1, <2>2
    <3>2. \A f \in records[d].keys : Key(f) \in DOMAIN b
      BY <1>1, <1>3, <2>1, <2>2
    <3> HIDE DEF Key
    <3> QED
      BY <1>4, <3>1, <3>2
  <2>3. CASE records[d].coll # c.coll
    BY <1>2, <1>4, <2>1, <2>3
  <2> QED
    BY <2>2, <2>3
<1>6. DOMAIN records' = DOMAIN records
  BY <1>2
<1> QED
  BY <1>5, <1>6 DEF ValuesHaveFields

LEMMA DeleteFieldValues ==
    ASSUME Types, Strict, ValuesHaveFields, NEW r \in Request, DeleteField(r)
    PROVE  ValuesHaveFields'
<1> DEFINE c == call[r]
           b == Without(c.fields, c.from)
<1>1. c.coll \in DOMAIN collections /\ collections[c.coll].fields = c.fields
  BY FoundStill DEF DeleteField
<1>2. /\ collections' = WithFields(c.coll, b)
      /\ records' = [d \in DOMAIN records |->
              IF records[d].coll = c.coll
              THEN [records[d] EXCEPT !.keys = @ \ {c.from}] ELSE records[d]]
  BY DEF DeleteField
<1>3. DOMAIN b = DOMAIN c.fields \ {c.from}
  BY DEF Without
<1> HIDE DEF b
<1>4. /\ collections'[c.coll].fields = b
      /\ \A j \in DOMAIN collections : j # c.coll => collections'[j] = collections[j]
  BY <1>1, <1>2, ListWritten DEF Types
<1>5. ASSUME NEW d \in DOMAIN records
      PROVE  records'[d].keys \subseteq DOMAIN collections'[records'[d].coll].fields
  <2>1. /\ records[d] \in [coll : DOMAIN collections, keys : SUBSET FieldName]
        /\ records[d].keys \subseteq DOMAIN collections[records[d].coll].fields
    BY DEF Types, RecordsOK, ValuesHaveFields
  <2>2. CASE records[d].coll = c.coll
    <3>1. records'[d].coll = c.coll /\ records'[d].keys = records[d].keys \ {c.from}
      BY <1>2, <2>1, <2>2
    <3> QED
      BY <1>1, <1>3, <1>4, <2>1, <2>2, <3>1
  <2>3. CASE records[d].coll # c.coll
    BY <1>2, <1>4, <2>1, <2>3
  <2> QED
    BY <2>2, <2>3
<1>6. DOMAIN records' = DOMAIN records
  BY <1>2
<1> QED
  BY <1>5, <1>6 DEF ValuesHaveFields

LEMMA RenameCollectionValues ==
    ASSUME Types, ValuesHaveFields, NEW r \in Request, NEW n, RenameCollection(r, n)
    PROVE  ValuesHaveFields'
<1> DEFINE c == call[r]
<1>1. UNCHANGED records
  BY DEF RenameCollection
<1>2. \A k \in DOMAIN collections : collections'[k].fields = collections[k].fields
  <2>1. CASE c.coll \in DOMAIN collections /\ n \notin Names
    <3>1. collections' = [collections EXCEPT ![c.coll].name = n]
      BY <2>1 DEF RenameCollection
    <3> QED
      BY <2>1, <3>1 DEF Types, CollectionsOK
  <2>2. CASE ~(c.coll \in DOMAIN collections /\ n \notin Names)
    BY <2>2 DEF RenameCollection
  <2> QED
    BY <2>1, <2>2
<1> QED
  BY <1>1, <1>2, ValuesKept

LEMMA DeleteCollectionValues ==
    ASSUME Types, ValuesHaveFields, NEW r \in Request, DeleteCollection(r)
    PROVE  ValuesHaveFields'
  BY DEF Types, RecordsOK, ValuesHaveFields, DeleteCollection

\* A record has values for the fields that the request has found.
LEMMA InsertRecordValues ==
    ASSUME Types, Strict, ValuesHaveFields, NEW r \in Request, NEW d, NEW keys,
           InsertRecord(r, d, keys)
    PROVE  ValuesHaveFields'
<1> DEFINE c == call[r]
<1>1. c.coll \in DOMAIN collections /\ keys \subseteq DOMAIN collections[c.coll].fields
  BY FoundStill DEF InsertRecord
<1>2. /\ records' = [e \in DOMAIN records \cup {d} |->
              IF e = d THEN [coll |-> c.coll, keys |-> keys] ELSE records[e]]
      /\ UNCHANGED collections
  BY <1>1 DEF InsertRecord
<1> HIDE DEF c
<1> QED
  BY <1>1, <1>2 DEF ValuesHaveFields

LEMMA StepValues ==
    ASSUME Types, Strict, ValuesHaveFields, [Next]_vars
    PROVE  ValuesHaveFields'
<1>1. ASSUME UNCHANGED <<collections, records>>
      PROVE  ValuesHaveFields'
  BY <1>1 DEF ValuesHaveFields
<1>2. ASSUME NEW r \in Request, NEW k \in UnusedCollIds, NEW n \in CollName,
             CreateCollection(r, k, n)
      PROVE  ValuesHaveFields'
  <2>1. /\ UNCHANGED records
        /\ \A j \in DOMAIN collections : collections'[j] = collections[j]
    BY <1>2 DEF CreateCollection, UnusedCollIds
  <2> QED
    BY <2>1, ValuesKept
<1>3. ASSUME NEW r \in Request, NEW k \in DOMAIN collections, NEW op, NEW f, NEW g, NEW new,
             Find(r, k, op, f, g, new)
      PROVE  ValuesHaveFields'
  BY <1>1, <1>3 DEF Find
<1>4. ASSUME NEW r \in Request, NEW k \in DOMAIN collections, NEW f \in FieldName,
             FindForFieldAdd(r, k, f)
      PROVE  ValuesHaveFields'
  BY <1>3, <1>4 DEF FindForFieldAdd
<1>5. ASSUME NEW r \in Request, AddField(r)
      PROVE  ValuesHaveFields'
  BY <1>5, AddFieldValues
<1>6. ASSUME NEW r \in Request, NEW k \in DOMAIN collections, NEW f \in FieldName,
             NEW g \in FieldName, FindForFieldRename(r, k, f, g)
      PROVE  ValuesHaveFields'
  BY <1>3, <1>6 DEF FindForFieldRename
<1>7. ASSUME NEW r \in Request, NEW k \in DOMAIN collections, NEW f \in FieldName,
             FindForFieldDelete(r, k, f)
      PROVE  ValuesHaveFields'
  BY <1>3, <1>7 DEF FindForFieldDelete
<1>8. ASSUME NEW r \in Request, LoadFields(r)
      PROVE  ValuesHaveFields'
  BY <1>1, <1>8 DEF LoadFields
<1>9. ASSUME NEW r \in Request, RenameField(r)
      PROVE  ValuesHaveFields'
  BY <1>9, RenameFieldValues
<1>10. ASSUME NEW r \in Request, DeleteField(r)
       PROVE  ValuesHaveFields'
  BY <1>10, DeleteFieldValues
<1>11. ASSUME NEW r \in Request, NEW k \in DOMAIN collections, NEW n \in CollName,
              FindForRename(r, k, n)
       PROVE  ValuesHaveFields'
  BY <1>3, <1>11 DEF FindForRename
<1>12. ASSUME NEW r \in Request, NEW n \in CollName, RenameCollection(r, n)
       PROVE  ValuesHaveFields'
  BY <1>12, RenameCollectionValues
<1>13. ASSUME NEW r \in Request, NEW k \in DOMAIN collections, FindForDelete(r, k)
       PROVE  ValuesHaveFields'
  BY <1>3, <1>13 DEF FindForDelete
<1>14. ASSUME NEW r \in Request, DeleteCollection(r)
       PROVE  ValuesHaveFields'
  BY <1>14, DeleteCollectionValues
<1>15. ASSUME NEW r \in Request, NEW k \in DOMAIN collections, FindForInsert(r, k)
       PROVE  ValuesHaveFields'
  BY <1>3, <1>15 DEF FindForInsert
<1>16. ASSUME NEW r \in Request, NEW d \in RecId \ DOMAIN records,
              NEW keys \in SUBSET FieldName, InsertRecord(r, d, keys)
       PROVE  ValuesHaveFields'
  BY <1>16, InsertRecordValues
<1>17. ASSUME NEW d \in DOMAIN records, DeleteRecord(d)
       PROVE  ValuesHaveFields'
  BY <1>17 DEF DeleteRecord, ValuesHaveFields
<1>18. ASSUME NEW r \in Request, RecordIntent(r)
       PROVE  ValuesHaveFields'
  BY <1>1, <1>18 DEF RecordIntent
<1>19. ASSUME NEW r \in Request, CutOff(r)
       PROVE  ValuesHaveFields'
  BY <1>1, <1>19 DEF CutOff
<1>20. CASE UNCHANGED vars
  BY <1>1, <1>20 DEF vars
<1> QED
  BY <1>2, <1>4, <1>5, <1>6, <1>7, <1>8, <1>9, <1>10, <1>11, <1>12, <1>13, <1>14, <1>15,
     <1>16, <1>17, <1>18, <1>19, <1>20 DEF Next

\* rename_field and delete_field take the records along: if requests concern
\* different collections, and forms offer fields that exist, no record ever
\* holds a value of a field that its collection does not have.
THEOREM ValuesHold ==
    ASSUME Exclusive, FreshForms
    PROVE  Spec => []ValuesHaveFields
<1> DEFINE IInv == Types /\ Strict /\ ValuesHaveFields
<1>1. Init => IInv
  <2>1. Init => ValuesHaveFields
    BY DEF Init, ValuesHaveFields
  <2> QED
    BY <2>1, InitTypes, InitStrict
<1>2. IInv /\ [Next]_vars => IInv'
  BY StepTypes, StepStrict, StepValues
<1>3. IInv => ValuesHaveFields
  OBVIOUS
<1> QED
  BY <1>1, <1>2, <1>3, PTL DEF Spec

-----------------------------------------------------------------------------
(* What the log cannot replay *)

\* What Excuse says, of any rows and names.
ExcuseIn(cs, lost, n) ==
    \/ n \in Reserved \cup lost
    \/ \E k \in DOMAIN cs :
           cs[k].name = n /\ \E f \in DOMAIN cs[k].fields : f = Id \/ cs[k].fields[f] > 1

Replayable(cs, t, lost, i) == Runs(t, i) \/ ExcuseIn(cs, lost, i.table)

OwesReplayable(cs, t, lost, c) ==
    c.op = "record" => \A x \in DOMAIN c.owed : Replayable(cs, t, lost, c.owed[x])

\* What requests owe can be recorded now, or is excused.
AllReplayable == ~stuck => \A r \in Request : OwesReplayable(collections, tables, cut, call[r])

AddsNew == \A r \in Request : call[r].op = "add_field" => call[r].to \notin DOMAIN call[r].fields

LEMMA ReplayableLocal ==
    ASSUME NEW cs, NEW ds, NEW t, NEW u, AreTables(t), AreTables(u), NEW i \in Intent,
           NEW lost, NEW more, lost \subseteq more,
           RowsAlike(cs, ds, i.table), TableAlike(t, u, i.table), Replayable(cs, t, lost, i)
    PROVE  Replayable(ds, u, more, i)
<1>1. CASE Runs(t, i)
  <2>1. TableAlike(u, t, i.table)
    BY DEF TableAlike
  <2> QED
    BY <1>1, <2>1, IntentLocal DEF Replayable
<1>2. CASE ExcuseIn(cs, lost, i.table)
  BY <1>2 DEF ExcuseIn, RowsAlike, Replayable
<1> QED
  BY <1>1, <1>2 DEF Replayable

HIDE DEF Replayable, ExcuseIn

\* As Frame: what the others owe is as replayable as before.
LEMMA ReplayFrame ==
    ASSUME Types, Types', Strict, AllReplayable,
           NEW r \in Request, NEW N,
           \A s \in Request \ {r} : call'[s] = call[s] /\ call[s].names \cap N = {},
           \A n \in CollName \ N :
               RowsAlike(collections, collections', n) /\ TableAlike(tables, tables', n),
           cut \subseteq cut', stuck => stuck',
           ~stuck' => OwesReplayable(collections', tables', cut', call'[r])
    PROVE  AllReplayable'
<1>1. ASSUME ~stuck', NEW s \in Request \ {r}
      PROVE  OwesReplayable(collections', tables', cut', call[s])
  <2> SUFFICES ASSUME call[s].op = "record", NEW x \in DOMAIN call[s].owed
               PROVE  Replayable(collections', tables', cut', call[s].owed[x])
    BY DEF OwesReplayable
  <2> DEFINE i == call[s].owed[x]
  <2>1. call[s].owed \in OwedIntents /\ call[s].names \subseteq CollName
    BY CallShapes DEF Types, CallsOK
  <2>2. i \in Intent
    BY <2>1, OwedParts
  <2>3. i.table \in call[s].names
    BY DEF Strict, AllFresh, Fresh
  <2>4. /\ RowsAlike(collections, collections', i.table)
        /\ TableAlike(tables, tables', i.table)
    BY <2>1, <2>3
  <2>5. Replayable(collections, tables, cut, i)
    BY <1>1 DEF AllReplayable, OwesReplayable
  <2>6. AreTables(tables) /\ AreTables(tables')
    BY DEF Types, AreTables
  <2> HIDE DEF i
  <2>7. Replayable(collections', tables', cut', i)
    BY <2>2, <2>4, <2>5, <2>6, ReplayableLocal
  <2> QED
    BY <2>7 DEF i
<1> QED
  BY <1>1 DEF AllReplayable

\* A step after which the request owes nothing, and which changes no table.
LEMMA ReplayQuiet ==
    ASSUME Types, Types', Strict, AllReplayable, NEW r \in Request,
           call' = [call EXCEPT ![r] = call'[r]], call'[r].op # "record",
           UNCHANGED <<collections, tables, stuck>>, cut \subseteq cut'
    PROVE  AllReplayable'
<1>1. \A s \in Request \ {r} : call'[s] = call[s] /\ call[s].names \cap {} = {}
  BY DEF Types, CallsOK
<1>2. \A n \in CollName \ {} :
          RowsAlike(collections, collections', n) /\ TableAlike(tables, tables', n)
  BY AlikeItself
<1>3. OwesReplayable(collections', tables', cut', call'[r])
  BY DEF OwesReplayable
<1> QED
  BY <1>1, <1>2, <1>3, ReplayFrame

\* A step that leaves the request owing the intents o.
LEMMA ReplayOwe ==
    ASSUME Types, Types', Strict, AllReplayable, NEW r \in Request, NEW o \in OwedIntents,
           Owe(r, o), UNCHANGED <<tables, stuck, cut>>,
           \A n \in CollName \ call[r].names : RowsAlike(collections, collections', n),
           ~stuck => \A x \in DOMAIN o : Replayable(collections', tables, cut, o[x])
    PROVE  AllReplayable'
<1> DEFINE c == [op |-> "record", owed |-> o, names |-> call[r].names]
<1>1. call' = [call EXCEPT ![r] = c]
  BY DEF Owe, Types, CallsOK
<1>2. call'[r] = c /\ \A s \in Request \ {r} : call'[s] = call[s]
  BY <1>1 DEF Types, CallsOK
<1>3. ~stuck' => OwesReplayable(collections', tables', cut', call'[r])
  BY <1>2 DEF OwesReplayable
<1>4. \A s \in Request \ {r} : call'[s] = call[s] /\ call[s].names \cap call[r].names = {}
  BY <1>2, NamesApart
<1>5. \A n \in CollName \ call[r].names :
          RowsAlike(collections, collections', n) /\ TableAlike(tables, tables', n)
  BY AlikeItself
<1> HIDE DEF c
<1> QED
  BY <1>3, <1>4, <1>5, ReplayFrame

\* load_fields.
LEMMA LoadFieldsReplay ==
    ASSUME Types, Types', Strict, AllReplayable, NEW r \in Request, LoadFields(r)
    PROVE  AllReplayable'
<1> DEFINE c == call[r]
           d == [c EXCEPT !.fields = collections[c.coll].fields,
                          !.op = IF c.op = "load_for_rename" THEN "rename_field"
                                 ELSE "delete_field"]
<1>1. c.coll \in DOMAIN collections
  BY FoundStill DEF LoadFields
<1>2. call' = [call EXCEPT ![r] = d]
  BY <1>1 DEF LoadFields, Types, CallsOK
<1>3. c.op \in {"load_for_rename", "load_for_delete"}
  BY DEF LoadFields
<1>4. d.op # "record"
  <2>1. CASE c.op = "load_for_rename"
    <3>1. c \in FoundCall({"load_for_rename", "rename_field"}, FieldName, FieldName)
      BY <2>1, CallShapes DEF Types, CallsOK
    <3> QED
      BY <2>1, <3>1 DEF FoundCall
  <2>2. CASE c.op = "load_for_delete"
    <3>1. c \in FoundCall({"load_for_delete", "delete_field"}, FieldName, {None})
      BY <2>2, CallShapes DEF Types, CallsOK
    <3> QED
      BY <2>2, <3>1 DEF FoundCall
  <2> QED
    BY <1>3, <2>1, <2>2
<1> HIDE DEF d
<1>5. call'[r] = d
  BY <1>2 DEF Types, CallsOK
<1> QED
  BY <1>2, <1>4, <1>5, ReplayQuiet DEF LoadFields

\* A request that finds its collection.
LEMMA FindReplay ==
    ASSUME Types, Types', Strict, AllReplayable, NEW r \in Request, NEW k \in DOMAIN collections,
           NEW op, NEW f, NEW g, NEW new, op # "record", Find(r, k, op, f, g, new)
    PROVE  AllReplayable'
<1>1. /\ call' = [call EXCEPT ![r] = call'[r]] /\ call'[r].op = op
      /\ UNCHANGED <<collections, tables, stuck, cut>>
  BY DEF Find, Types, CallsOK
<1> QED
  BY <1>1, ReplayQuiet

\* A request that ends.
LEMMA EndReplay ==
    ASSUME Types, Types', Strict, AllReplayable, NEW r \in Request, Done(r),
           UNCHANGED <<collections, tables, stuck>>, cut \subseteq cut'
    PROVE  AllReplayable'
<1>1. call' = [call EXCEPT ![r] = call'[r]] /\ call'[r].op # "record"
  BY DEF Done, Idle, Types, CallsOK
<1> QED
  BY <1>1, ReplayQuiet

\* A list is written and one intent owed: it runs, or there is an excuse.
LEMMA WithFieldsReplay ==
    ASSUME Types, Types', Strict, AllReplayable, NEW r \in Request, NEW i \in Intent, NEW b,
           call[r].op \notin {"idle", "record"},
           collections' = WithFields(call[r].coll, b), Owe(r, <<i>>),
           i.table = call[r].table,
           UNCHANGED <<tables, stuck, cut>>,
           ASSUME AgreeAt(collections, tables, i.table)
           PROVE  Runs(tables, i) \/ \E f \in DOMAIN b : f = Id \/ b[f] > 1
    PROVE  AllReplayable'
<1> DEFINE c == call[r]
           o == <<i>>
<1>1. /\ c.table \in c.names /\ c.coll \in DOMAIN collections
      /\ collections[c.coll].name = c.table
  BY DEF Strict, AllFresh, Fresh
<1>2. /\ DOMAIN collections' = DOMAIN collections
      /\ \A k \in DOMAIN collections : collections'[k].name = collections[k].name
      /\ \A k \in DOMAIN collections : k # c.coll => collections'[k] = collections[k]
      /\ collections'[c.coll].fields = b
  BY <1>1 DEF WithFields, Types, CollectionsOK
<1>3. \A n \in CollName \ c.names : RowsAlike(collections, collections', n)
  BY <1>1, <1>2 DEF RowsAlike
<1>4. ASSUME ~stuck
      PROVE  Replayable(collections', tables, cut, i)
  <2>1. CASE c.table \in cut
    BY <2>1 DEF Replayable, ExcuseIn
  <2>2. CASE c.table \notin cut
    <3>1. AgreeAt(collections, tables, i.table)
      BY <1>1, <1>4, <2>2 DEF Strict, Mirrored, OwnMirror
    <3>2. Runs(tables, i) \/ \E f \in DOMAIN b : f = Id \/ b[f] > 1
      BY <3>1
    <3> QED
      BY <1>1, <1>2, <3>2 DEF Replayable, ExcuseIn
  <2> QED
    BY <2>1, <2>2
<1>5. o \in OwedIntents /\ DOMAIN o = {1} /\ o[1] = i
  BY OneOwed
<1>6. ~stuck => \A x \in DOMAIN o : Replayable(collections', tables, cut, o[x])
  BY <1>4, <1>5
<1> HIDE DEF o
<1> QED
  BY <1>3, <1>5, <1>6, ReplayOwe DEF o

\* A new column: its name is not that of another, or it is "id".
LEMMA AddFieldReplay ==
    ASSUME Types, Types', Strict, AddsNew, AllReplayable, NEW r \in Request, AddField(r)
    PROVE  AllReplayable'
<1> DEFINE c == call[r]
           i == AddColumn(c.table, c.to)
           b == Pushed(c.fields, c.to)
<1>1. c \in FoundCall({"add_field"}, {None}, FieldName)
  BY CallShapes DEF Types, CallsOK, AddField
<1>2. c.table \in CollName /\ c.fields \in Lists(FieldName) /\ c.to \in FieldName
  BY <1>1 DEF FoundCall
<1>3. i \in Intent /\ i.op = "add_column" /\ i.table = c.table /\ i.to = c.to
  BY <1>2, IntentTypes DEF AddColumn
<1>4. ASSUME AgreeAt(collections, tables, i.table)
      PROVE  Runs(tables, i) \/ \E f \in DOMAIN b : f = Id \/ b[f] > 1
  <2>1. c.table \in DOMAIN tables /\ tables[c.table] = {Id} \cup DOMAIN c.fields
    BY <1>3, <1>4, FoundAgrees DEF AddField
  <2>2. c.to \notin DOMAIN c.fields
    BY DEF AddsNew, AddField
  <2>3. CASE c.to = Id
    BY <2>3 DEF Pushed
  <2>4. CASE c.to # Id
    BY <1>3, <2>1, <2>2, <2>4 DEF Runs
  <2> QED
    BY <2>3, <2>4
<1>5. /\ c.op \notin {"idle", "record"}
      /\ collections' = WithFields(c.coll, b)
      /\ Owe(r, <<i>>)
      /\ UNCHANGED <<tables, stuck, cut>>
  BY DEF AddField
<1> HIDE DEF i, b
<1> QED
  BY <1>3, <1>4, <1>5, WithFieldsReplay

\* A renamed column: as a new one, or there are two of the new name.
LEMMA RenameFieldReplay ==
    ASSUME Types, Types', Strict, AllReplayable, NEW r \in Request, RenameField(r)
    PROVE  AllReplayable'
<1> DEFINE c == call[r]
           i == RenameColumn(c.table, c.from, c.to)
           b == Renamed(c.fields, c.from, c.to)
<1>1. c \in FoundCall({"load_for_rename", "rename_field"}, FieldName, FieldName)
  BY CallShapes DEF Types, CallsOK, RenameField
<1>2. /\ c.table \in CollName /\ c.fields \in Lists(FieldName)
      /\ c.from \in FieldName /\ c.to \in FieldName
  BY <1>1 DEF FoundCall
<1>3. /\ i \in Intent /\ i.op = "rename_column" /\ i.table = c.table
      /\ i.from = c.from /\ i.to = c.to
  BY <1>2, IntentTypes DEF RenameColumn
<1>4. ASSUME AgreeAt(collections, tables, i.table)
      PROVE  Runs(tables, i) \/ \E f \in DOMAIN b : f = Id \/ b[f] > 1
  <2>1. c.table \in DOMAIN tables /\ tables[c.table] = {Id} \cup DOMAIN c.fields
    BY <1>3, <1>4, FoundAgrees DEF RenameField
  <2>2. c.from \in DOMAIN c.fields
    BY FoundStill DEF RenameField
  <2>3. b = [h \in (DOMAIN c.fields \ {c.from}) \cup {c.to} |->
                IF h = c.to THEN c.fields[c.from] + Copies(c.fields, c.to) ELSE c.fields[h]]
    BY <2>2 DEF Renamed
  <2>4. c.to \in DOMAIN b /\ b[c.to] = c.fields[c.from] + Copies(c.fields, c.to)
    BY <2>3
  <2>5. CASE c.to = Id
    BY <2>4, <2>5
  <2>6. CASE c.to \in DOMAIN c.fields
    <3>1. c.fields[c.from] \in Nat \ {0} /\ Copies(c.fields, c.to) \in Nat \ {0}
      BY <1>2, <2>2, <2>6, CopiesType
    <3>2. b[c.to] > 1
      BY <2>4, <3>1
    <3> QED
      BY <2>4, <3>2
  <2>7. CASE c.to \notin DOMAIN c.fields /\ c.to # Id
    BY <1>3, <2>1, <2>2, <2>7 DEF Runs
  <2> QED
    BY <2>5, <2>6, <2>7
<1>5. /\ c.op \notin {"idle", "record"}
      /\ collections' = WithFields(c.coll, b)
      /\ Owe(r, <<i>>)
      /\ UNCHANGED <<tables, stuck, cut>>
  BY DEF RenameField
<1> HIDE DEF i, b
<1> QED
  BY <1>3, <1>4, <1>5, WithFieldsReplay

\* A column that is dropped is there, and "id" is another.
LEMMA DeleteFieldReplay ==
    ASSUME Types, Types', Strict, AllReplayable, NEW r \in Request, DeleteField(r)
    PROVE  AllReplayable'
<1> DEFINE c == call[r]
           i == DropColumn(c.table, c.from)
           b == Without(c.fields, c.from)
<1>1. c \in FoundCall({"load_for_delete", "delete_field"}, FieldName, {None})
  BY CallShapes DEF Types, CallsOK, DeleteField
<1>2. c.table \in CollName /\ c.from \in FieldName
  BY <1>1 DEF FoundCall
<1>3. i \in Intent /\ i.op = "drop_column" /\ i.table = c.table /\ i.from = c.from
  BY <1>2, IntentTypes DEF DropColumn
<1>4. ASSUME AgreeAt(collections, tables, i.table)
      PROVE  Runs(tables, i) \/ \E f \in DOMAIN b : f = Id \/ b[f] > 1
  <2>1. /\ c.table \in DOMAIN tables /\ tables[c.table] = {Id} \cup DOMAIN c.fields
        /\ Id \notin DOMAIN c.fields
    BY <1>3, <1>4, FoundAgrees DEF DeleteField
  <2>2. c.from \in DOMAIN c.fields
    BY FoundStill DEF DeleteField
  <2>3. Runs(tables, i)
    BY <1>3, <2>1, <2>2 DEF Runs
  <2> QED
    BY <2>3
<1>5. /\ c.op \notin {"idle", "record"}
      /\ collections' = WithFields(c.coll, b)
      /\ Owe(r, <<i>>)
      /\ UNCHANGED <<tables, stuck, cut>>
  BY DEF DeleteField
<1> HIDE DEF i, b
<1> QED
  BY <1>3, <1>4, <1>5, WithFieldsReplay

\* The table of a new collection: nothing is in its way but a reserved name.
LEMMA CreateReplay ==
    ASSUME Types, Types', Strict, AllReplayable, Exclusive, NEW r \in Request,
           NEW k \in UnusedCollIds, NEW n \in CollName, CreateCollection(r, k, n)
    PROVE  AllReplayable'
<1> DEFINE i == CreateTable(n, [f \in {Id} |-> 1])
           c == [op |-> "record", owed |-> <<i>>, names |-> {n}]
<1>1. k \notin DOMAIN collections
  BY DEF UnusedCollIds
<1>2. /\ call[r] = Idle /\ \A s \in Request : call[s].names \cap {n} = {}
      /\ n \notin Names
      /\ collections' = [j \in DOMAIN collections \cup {k} |->
              IF j = k THEN [name |-> n, fields |-> [f \in {} |-> 0]] ELSE collections[j]]
      /\ call' = [call EXCEPT ![r] = c]
      /\ UNCHANGED <<tables, stuck, cut>>
  BY DEF CreateCollection, Begin
<1>3. call'[r] = c /\ \A s \in Request \ {r} : call'[s] = call[s] /\ call[s].names \cap {n} = {}
  BY <1>2 DEF Types, CallsOK
<1>4. \A m \in CollName \ {n} :
          RowsAlike(collections, collections', m) /\ TableAlike(tables, tables', m)
  <2>1. \A m \in CollName \ {n} : RowsAlike(collections, collections', m)
    BY <1>1, <1>2 DEF RowsAlike
  <2> QED
    BY <1>2, <2>1, AlikeItself
<1>5. ASSUME ~stuck'
      PROVE  Replayable(collections', tables', cut', i)
  <2>1. i.op = "create_table" /\ i.table = n /\ i.columns = [f \in {Id} |-> 1]
    BY DEF CreateTable
  <2> HIDE DEF i
  <2>2. CASE n \in Reserved \cup cut
    BY <1>2, <2>1, <2>2 DEF Replayable, ExcuseIn
  <2>3. CASE n \notin Reserved \cup cut
    <3>1. n \notin InFlight
      BY <1>2 DEF InFlight
    <3>2. AgreeAt(collections, tables, n)
      BY <1>2, <1>5, <2>3, <3>1 DEF Strict, Mirrored
    <3>3. n \notin DOMAIN tables
      BY <1>2, <3>2 DEF AgreeAt, Names
    <3> QED
      BY <1>2, <2>1, <2>3, <3>3 DEF Runs, Replayable
  <2> QED
    BY <2>2, <2>3
<1>6. ~stuck' => OwesReplayable(collections', tables', cut', call'[r])
  BY <1>3, <1>5 DEF OwesReplayable
<1> HIDE DEF c
<1> QED
  BY <1>2, <1>3, <1>4, <1>6, ReplayFrame

\* A table that is dropped is there.
LEMMA DropReplays ==
    ASSUME Types, Strict, ~stuck, NEW r \in Request, call[r].op \in {"rename", "delete"},
           NEW ds
    PROVE  Replayable(ds, tables, cut, DropTable(call[r].table))
<1> DEFINE n == call[r].table
           i == DropTable(n)
<1>1. i.op = "drop_table" /\ i.table = n
  BY DEF DropTable
<1>2. n \in call[r].names
  BY DEF Strict, AllFresh, Fresh
<1> HIDE DEF i
<1>3. CASE n \in cut
  BY <1>1, <1>3 DEF Replayable, ExcuseIn, i
<1>4. CASE n \notin cut
  <2>1. AgreeAt(collections, tables, n)
    BY <1>2, <1>4 DEF Strict, Mirrored, OwnMirror
  <2>2. n \in DOMAIN tables
    BY <2>1, FoundAgrees
  <2>3. Runs(tables, i)
    BY <1>1, <2>2 DEF Runs
  <2> QED
    BY <2>3 DEF Replayable, i
<1> QED
  BY <1>3, <1>4

LEMMA DeleteCollectionReplay ==
    ASSUME Types, Types', Strict, AllReplayable, NEW r \in Request, DeleteCollection(r)
    PROVE  AllReplayable'
<1> DEFINE c == call[r]
           i == DropTable(c.table)
           o == <<i>>
<1>1. c \in FoundCall({"rename", "delete", "insert"}, {None}, {None}) /\ c.op = "delete"
  BY CallShapes DEF Types, CallsOK, DeleteCollection
<1>2. /\ collections' = [j \in DOMAIN collections \ {c.coll} |-> collections[j]]
      /\ Owe(r, o)
      /\ UNCHANGED <<tables, stuck, cut>>
  BY DEF DeleteCollection
<1>3. c.table \in c.names /\ c.coll \in DOMAIN collections /\ collections[c.coll].name = c.table
  BY <1>1 DEF Strict, AllFresh, Fresh
<1>4. o \in OwedIntents
  BY <1>1, IntentTypes, OneOwed DEF FoundCall
<1>5. \A n \in CollName \ c.names : RowsAlike(collections, collections', n)
  BY <1>2, <1>3 DEF RowsAlike
<1>6. ~stuck => Replayable(collections', tables, cut, i)
  BY <1>1, DropReplays
<1> HIDE DEF i
<1>7. ~stuck => \A x \in DOMAIN o : Replayable(collections', tables, cut, o[x])
  BY <1>6
<1> QED
  BY <1>2, <1>4, <1>5, <1>7, ReplayOwe

\* A list whose columns cannot all be made has a field twice, or an "id".
LEMMA PushedTwice ==
    ASSUME NEW S, Id \in S, NEW b \in Lists(S), NEW f \in DOMAIN Pushed(b, Id), Pushed(b, Id)[f] # 1
    PROVE  \E g \in DOMAIN b : g = Id \/ b[g] > 1
<1>1. DOMAIN Pushed(b, Id) = DOMAIN b \cup {Id}
  BY DEF Pushed
<1>2. Pushed(b, Id)[f] = Copies(b, f) + (IF f = Id THEN 1 ELSE 0)
  BY <1>1 DEF Pushed
<1>3. CASE f \in DOMAIN b
  <2>1. Copies(b, f) = b[f] /\ b[f] \in Nat \ {0}
    BY <1>3, CopiesType
  <2> QED
    BY <1>2, <1>3, <2>1
<1>4. CASE f \notin DOMAIN b
  BY <1>1, <1>2, <1>4 DEF Copies
<1> QED
  BY <1>3, <1>4

\* The table of the new name is not there yet.
LEMMA RecreateReplays ==
    ASSUME Types, Strict, ~stuck, NEW r \in Request, NEW n \in call[r].names, call[r].op = "rename",
           n \notin Names, NEW b \in Lists(Column),
           NEW ds, NEW k \in DOMAIN ds, ds[k].name = n, ds[k].fields = b
    PROVE  Replayable(ds, tables, cut, CreateTable(n, Pushed(b, Id)))
<1> DEFINE i == CreateTable(n, Pushed(b, Id))
<1>1. i.op = "create_table" /\ i.table = n /\ i.columns = Pushed(b, Id)
  BY DEF CreateTable
<1> HIDE DEF i
<1>2. CASE n \in Reserved \cup cut
  BY <1>1, <1>2 DEF Replayable, ExcuseIn, i
<1>3. CASE n \notin Reserved \cup cut
  <2>1. AgreeAt(collections, tables, n)
    BY <1>3 DEF Strict, Mirrored, OwnMirror
  <2>2. n \notin DOMAIN tables
    BY <2>1 DEF AgreeAt, Names
  <2>3. CASE \A f \in DOMAIN Pushed(b, Id) : Pushed(b, Id)[f] = 1
    <3>1. Runs(tables, i)
      BY <1>1, <1>3, <2>2, <2>3 DEF Runs
    <3> QED
      BY <3>1 DEF Replayable, i
  <2>4. CASE \E f \in DOMAIN Pushed(b, Id) : Pushed(b, Id)[f] # 1
    <3>1. Id \in Column
      BY DEF Column
    <3>2. \E g \in DOMAIN b : g = Id \/ b[g] > 1
      BY <2>4, <3>1, PushedTwice
    <3>3. ExcuseIn(ds, cut, i.table)
      BY <1>1, <3>2 DEF ExcuseIn
    <3> QED
      BY <3>3 DEF Replayable, i
  <2> QED
    BY <2>3, <2>4
<1> QED
  BY <1>2, <1>3

LEMMA RenameCollectionReplay ==
    ASSUME Types, Types', Strict, AllReplayable, NEW r \in Request, NEW n \in CollName,
           RenameCollection(r, n)
    PROVE  AllReplayable'
<1> DEFINE c == call[r]
           b == collections[c.coll].fields
           i == DropTable(c.table)
           j == CreateTable(n, Pushed(b, Id))
           o == <<i, j>>
<1>1. /\ c \in FoundCall({"rename", "delete", "insert"}, {None}, {None}) /\ c.op = "rename"
      /\ c.names = {c.table, n}
      /\ UNCHANGED <<tables, stuck, cut>>
  BY CallShapes DEF Types, CallsOK, RenameCollection
<1>2. CASE ~(c.coll \in DOMAIN collections /\ n \notin Names)
  <2>1. Done(r) /\ UNCHANGED collections
    BY <1>2 DEF RenameCollection
  <2> QED
    BY <1>1, <2>1, EndReplay
<1>3. CASE c.coll \in DOMAIN collections /\ n \notin Names
  <2>1. collections' = [collections EXCEPT ![c.coll].name = n] /\ Owe(r, o)
    BY <1>3 DEF RenameCollection, Recreated
  <2>2. collections[c.coll].name = c.table
    BY <1>1 DEF Strict, AllFresh, Fresh
  <2>3. /\ c.coll \in DOMAIN collections'
        /\ collections'[c.coll].name = n /\ collections'[c.coll].fields = b
    BY <1>3, <2>1 DEF Types, CollectionsOK
  <2>4. b \in Lists(Column)
    BY <1>3, ListsGrow DEF Types, CollectionsOK, Column
  <2>5. i \in Intent /\ j \in Intent
    <3>1. Pushed(b, Id) \in Lists(Column)
      BY <2>4, PushedIsList DEF Column
    <3>2. c.table \in CollName
      BY <1>1 DEF FoundCall
    <3> HIDE DEF b
    <3> QED
      BY <3>1, <3>2, IntentTypes
  <2>6. \A m \in CollName \ c.names : RowsAlike(collections, collections', m)
    BY <1>1, <1>3, <2>1, <2>2 DEF RowsAlike, Types, CollectionsOK
  <2>7. ~stuck => Replayable(collections', tables, cut, i)
    BY <1>1, DropReplays
  <2>8. ~stuck => Replayable(collections', tables, cut, j)
    BY <1>1, <1>3, <2>3, <2>4, RecreateReplays
  <2> HIDE DEF i, j
  <2>9. o \in OwedIntents /\ DOMAIN o = {1, 2} /\ o[1] = i /\ o[2] = j
    BY <2>5, TwoOwed
  <2> HIDE DEF o
  <2>10. ~stuck => \A x \in DOMAIN o : Replayable(collections', tables, cut, o[x])
    BY <2>7, <2>8, <2>9
  <2> QED
    BY <1>1, <2>1, <2>6, <2>9, <2>10, ReplayOwe
<1> QED
  BY <1>2, <1>3

\* record(): the other intent of a request concerns another table.
LEMMA RecordIntentReplay ==
    ASSUME Types, Types', Strict, AllReplayable, NEW r \in Request, RecordIntent(r)
    PROVE  AllReplayable'
<1> DEFINE c == call[r]
           o == c.owed
           i == Head(o)
           N == c.names
           d == IF Len(o) = 1 THEN Idle ELSE [c EXCEPT !.owed = Tail(o)]
<1>1. /\ c \in [op : {"record"}, owed : OwedIntents, names : SUBSET CollName]
      /\ c.op = "record" /\ o \in OwedIntents
  BY CallShapes DEF Types, CallsOK, RecordIntent
<1>2. /\ stuck' = (stuck \/ ~Runs(tables, i))
      /\ tables' = IF stuck' THEN tables ELSE Result(tables, i)
      /\ UNCHANGED <<collections, cut>>
      /\ call' = [call EXCEPT ![r] = d]
  BY DEF RecordIntent, Done, Types, CallsOK
<1>3. /\ call'[r] = d
      /\ \A s \in Request \ {r} : call'[s] = call[s] /\ call[s].names \cap N = {}
  BY <1>2, NamesApart DEF Types, CallsOK
<1>4. /\ Len(o) = 1 => d = Idle
      /\ Len(o) # 1 => d.owed = Tail(o)
  BY <1>1
<1>5. /\ \A x \in DOMAIN o : o[x].table \in N
      /\ \A x, y \in DOMAIN o : o[x].table = o[y].table => x = y
  BY <1>1 DEF Strict, AllFresh, Fresh
<1>6. /\ i \in Intent /\ 1 \in DOMAIN o /\ o[1] = i
      /\ \A x \in DOMAIN o : o[x] \in Intent
      /\ \A x \in DOMAIN Tail(o) : x + 1 \in DOMAIN o /\ x + 1 # 1 /\ Tail(o)[x] = o[x + 1]
  BY <1>1, OwedParts
<1>7. AreTables(tables) /\ AreTables(tables')
  BY DEF Types, AreTables
<1> HIDE DEF d, i
<1>8. ASSUME ~stuck', NEW n, n # i.table
      PROVE  TableAlike(tables, tables', n)
  BY <1>2, <1>6, <1>7, <1>8, IntentElsewhere
<1>9. ASSUME ~stuck'
      PROVE  OwesReplayable(collections', tables', cut', call'[r])
  <2>1. CASE Len(o) = 1
    BY <1>3, <1>4, <2>1 DEF OwesReplayable, Idle
  <2>2. CASE Len(o) # 1
    <3>1. ASSUME NEW x \in DOMAIN Tail(o)
          PROVE  Replayable(collections', tables', cut', Tail(o)[x])
      <4> DEFINE j == Tail(o)[x]
      <4>1. j \in Intent /\ j.table # i.table
        BY <1>5, <1>6
      <4>2. Replayable(collections, tables, cut, j)
        BY <1>1, <1>2, <1>6, <1>9 DEF AllReplayable, OwesReplayable
      <4>3. RowsAlike(collections, collections', j.table)
        BY <1>2, AlikeItself
      <4>4. TableAlike(tables, tables', j.table)
        BY <1>8, <1>9, <4>1
      <4> HIDE DEF j
      <4>5. Replayable(collections', tables', cut', j)
        BY <1>2, <1>7, <4>1, <4>2, <4>3, <4>4, ReplayableLocal
      <4> QED
        BY <4>5 DEF j
    <3> QED
      BY <1>3, <1>4, <2>2, <3>1 DEF OwesReplayable
  <2> QED
    BY <2>1, <2>2
<1>10. \A n \in CollName \ N :
           RowsAlike(collections, collections', n) /\ TableAlike(tables, tables', n)
  <2>1. CASE stuck'
    BY <1>2, <2>1, AlikeItself
  <2>2. CASE ~stuck'
    <3>1. \A n \in CollName \ N : n # i.table
      BY <1>5, <1>6
    <3> QED
      BY <1>2, <1>8, <2>2, <3>1, AlikeItself
  <2> QED
    BY <2>1, <2>2
<1>11. cut \subseteq cut' /\ (stuck => stuck')
  BY <1>2
<1> HIDE DEF N
<1> QED
  BY <1>3, <1>9, <1>10, <1>11, ReplayFrame

\* A request adds a field that its list does not have.
LEMMA StepAddsNew ==
    ASSUME Types, AddsNew, [Next]_vars
    PROVE  AddsNew'
<1>1. ASSUME NEW r \in Request, call' = [call EXCEPT ![r] = call'[r]],
             call'[r].op # "add_field"
      PROVE  AddsNew'
  BY <1>1 DEF AddsNew, Types, CallsOK
<1>2. ASSUME NEW r \in Request, Done(r)
      PROVE  AddsNew'
  <2>1. call' = [call EXCEPT ![r] = call'[r]] /\ call'[r].op # "add_field"
    BY <1>2 DEF Done, Idle, Types, CallsOK
  <2> QED
    BY <1>1, <2>1
<1>3. ASSUME NEW r \in Request, NEW o, Owe(r, o)
      PROVE  AddsNew'
  <2>1. call' = [call EXCEPT ![r] = call'[r]] /\ call'[r].op # "add_field"
    BY <1>3 DEF Owe, Types, CallsOK
  <2> QED
    BY <1>1, <2>1
<1>4. ASSUME NEW r \in Request, NEW k, NEW op, NEW f, NEW g, NEW new, op # "add_field",
             Find(r, k, op, f, g, new)
      PROVE  AddsNew'
  <2>1. call' = [call EXCEPT ![r] = call'[r]] /\ call'[r].op # "add_field"
    BY <1>4 DEF Find, Types, CallsOK
  <2> QED
    BY <1>1, <2>1
<1>5. ASSUME NEW r \in Request, NEW k \in DOMAIN collections, NEW f \in FieldName,
             FindForFieldAdd(r, k, f)
      PROVE  AddsNew'
  BY <1>5 DEF FindForFieldAdd, Find, AddsNew, Types, CallsOK
<1>6. ASSUME NEW r \in Request, LoadFields(r)
      PROVE  AddsNew'
  <2> DEFINE c == call[r]
             d == [c EXCEPT !.fields = collections[c.coll].fields,
                            !.op = IF c.op = "load_for_rename" THEN "rename_field"
                                   ELSE "delete_field"]
  <2>1. CASE c.coll \notin DOMAIN collections
    BY <1>2, <1>6, <2>1 DEF LoadFields
  <2>2. CASE c.coll \in DOMAIN collections
    <3>1. call' = [call EXCEPT ![r] = d]
      BY <1>6, <2>2 DEF LoadFields, Types, CallsOK
    <3>2. c.op \in {"load_for_rename", "load_for_delete"}
      BY <1>6 DEF LoadFields
    <3>3. \/ c \in FoundCall({"load_for_rename", "rename_field"}, FieldName, FieldName)
          \/ c \in FoundCall({"load_for_delete", "delete_field"}, FieldName, {None})
      BY <3>2, CallShapes DEF Types, CallsOK
    <3>4. d.op # "add_field"
      BY <3>3 DEF FoundCall
    <3> HIDE DEF d
    <3>5. call'[r] = d
      BY <3>1 DEF Types, CallsOK
    <3> QED
      BY <1>1, <3>1, <3>4, <3>5
  <2> QED
    BY <2>1, <2>2
<1>7. ASSUME NEW r \in Request, RecordIntent(r)
      PROVE  AddsNew'
  <2>1. CASE Len(call[r].owed) = 1
    BY <1>2, <1>7, <2>1 DEF RecordIntent
  <2>2. CASE Len(call[r].owed) # 1
    <3>1. call[r] \in [op : {"record"}, owed : OwedIntents, names : SUBSET CollName]
      BY <1>7, CallShapes DEF RecordIntent, Types, CallsOK
    <3>2. call' = [call EXCEPT ![r] = call'[r]] /\ call'[r].op # "add_field"
      BY <1>7, <2>2, <3>1 DEF RecordIntent, Types, CallsOK
    <3> QED
      BY <1>1, <3>2
  <2> QED
    BY <2>1, <2>2
<1>8. ASSUME NEW r \in Request, NEW k, NEW n, CreateCollection(r, k, n)
      PROVE  AddsNew'
  <2>1. call' = [call EXCEPT ![r] = call'[r]] /\ call'[r].op # "add_field"
    BY <1>8 DEF CreateCollection, Types, CallsOK
  <2> QED
    BY <1>1, <2>1
<1>9. CASE UNCHANGED call
  BY <1>9 DEF AddsNew
<1> QED
  BY <1>2, <1>3, <1>4, <1>5, <1>6, <1>7, <1>8, <1>9
     DEF Next, vars, AddField, FindForFieldRename, FindForFieldDelete, RenameField, DeleteField,
         FindForRename, RenameCollection, FindForDelete, DeleteCollection, FindForInsert,
         InsertRecord, DeleteRecord, CutOff

LEMMA StepReplayable ==
    ASSUME Exclusive, FreshForms, Types, Types', Strict, AddsNew, AllReplayable, [Next]_vars
    PROVE  AllReplayable'
<1>1. ASSUME NEW r \in Request, NEW k \in UnusedCollIds, NEW n \in CollName,
             CreateCollection(r, k, n)
      PROVE  AllReplayable'
  BY <1>1, CreateReplay
<1>2. ASSUME NEW r \in Request, NEW k \in DOMAIN collections, NEW f \in FieldName,
             FindForFieldAdd(r, k, f)
      PROVE  AllReplayable'
  BY <1>2, FindReplay DEF FindForFieldAdd
<1>3. ASSUME NEW r \in Request, AddField(r)
      PROVE  AllReplayable'
  BY <1>3, AddFieldReplay
<1>4. ASSUME NEW r \in Request, NEW k \in DOMAIN collections, NEW f \in FieldName,
             NEW g \in FieldName, FindForFieldRename(r, k, f, g)
      PROVE  AllReplayable'
  BY <1>4, FindReplay DEF FindForFieldRename
<1>5. ASSUME NEW r \in Request, NEW k \in DOMAIN collections, NEW f \in FieldName,
             FindForFieldDelete(r, k, f)
      PROVE  AllReplayable'
  BY <1>5, FindReplay DEF FindForFieldDelete
<1>6. ASSUME NEW r \in Request, LoadFields(r)
      PROVE  AllReplayable'
  BY <1>6, LoadFieldsReplay
<1>7. ASSUME NEW r \in Request, RenameField(r)
      PROVE  AllReplayable'
  BY <1>7, RenameFieldReplay
<1>8. ASSUME NEW r \in Request, DeleteField(r)
      PROVE  AllReplayable'
  BY <1>8, DeleteFieldReplay
<1>9. ASSUME NEW r \in Request, NEW k \in DOMAIN collections, NEW n \in CollName,
             FindForRename(r, k, n)
      PROVE  AllReplayable'
  BY <1>9, FindReplay DEF FindForRename
<1>10. ASSUME NEW r \in Request, NEW n \in CollName, RenameCollection(r, n)
       PROVE  AllReplayable'
  BY <1>10, RenameCollectionReplay
<1>11. ASSUME NEW r \in Request, NEW k \in DOMAIN collections, FindForDelete(r, k)
       PROVE  AllReplayable'
  BY <1>11, FindReplay DEF FindForDelete
<1>12. ASSUME NEW r \in Request, DeleteCollection(r)
       PROVE  AllReplayable'
  BY <1>12, DeleteCollectionReplay
<1>13. ASSUME NEW r \in Request, NEW k \in DOMAIN collections, FindForInsert(r, k)
       PROVE  AllReplayable'
  BY <1>13, FindReplay DEF FindForInsert
<1>14. ASSUME NEW r \in Request, NEW d, NEW keys, InsertRecord(r, d, keys)
       PROVE  AllReplayable'
  BY <1>14, EndReplay DEF InsertRecord
<1>15. ASSUME UNCHANGED <<collections, tables, stuck, call, cut>>
       PROVE  AllReplayable'
  BY <1>15 DEF AllReplayable
<1>16. ASSUME NEW d \in DOMAIN records, DeleteRecord(d)
       PROVE  AllReplayable'
  BY <1>15, <1>16 DEF DeleteRecord
<1>17. ASSUME NEW r \in Request, RecordIntent(r)
       PROVE  AllReplayable'
  BY <1>17, RecordIntentReplay
<1>18. ASSUME NEW r \in Request, CutOff(r)
       PROVE  AllReplayable'
  BY <1>18, EndReplay DEF CutOff
<1>19. CASE UNCHANGED vars
  BY <1>15, <1>19 DEF vars
<1> QED
  BY <1>1, <1>2, <1>3, <1>4, <1>5, <1>6, <1>7, <1>8, <1>9, <1>10, <1>11, <1>12, <1>13, <1>14,
     <1>16, <1>17, <1>18, <1>19 DEF Next

\* The step that the log gets stuck on records an intent which has an excuse.
LEMMA StuckIsExcused ==
    ASSUME Types, Strict, AllReplayable, ~stuck, NEW r \in Request, RecordIntent(r), stuck'
    PROVE  call[r].op = "record" /\ \E n \in call[r].names : Excuse(n)
<1> DEFINE o == call[r].owed
           i == Head(o)
<1>1. call[r].op = "record" /\ ~Runs(tables, i)
  BY DEF RecordIntent
<1>2. o \in OwedIntents
  BY <1>1, CallShapes DEF Types, CallsOK
<1>3. 1 \in DOMAIN o /\ o[1] = i
  BY <1>2, OwedParts
<1>4. Replayable(collections, tables, cut, i)
  BY <1>1, <1>3 DEF AllReplayable, OwesReplayable
<1>5. i.table \in call[r].names
  BY <1>1, <1>3 DEF Strict, AllFresh, Fresh
<1>6. Excuse(i.table)
  BY <1>1, <1>4 DEF Replayable, ExcuseIn, Excuse
<1> QED
  BY <1>1, <1>5, <1>6

\* No other step makes the log stuck.
LEMMA OnlyRecordSticks ==
    ASSUME [Next]_vars, ~stuck, stuck'
    PROVE  \E r \in Request : RecordIntent(r)
  BY DEF Next, vars, CreateCollection, FindForFieldAdd, AddField, FindForFieldRename,
         FindForFieldDelete, LoadFields, RenameField, DeleteField, FindForRename,
         RenameCollection, FindForDelete, DeleteCollection, FindForInsert, InsertRecord,
         DeleteRecord, CutOff, Find

\* Whoever works on collections of his own, with fields that exist, never makes
\* the log unreplayable, but for a name that SQLite refuses, a list with a
\* field twice or an "id", or a request that was cut off before.
THEOREM RejectionExcused ==
    ASSUME Exclusive, FreshForms
    PROVE  Spec => RejectionIsExcused
<1> DEFINE IInv == Types /\ Strict /\ AddsNew /\ AllReplayable
           Excused == ~stuck /\ stuck' =>
                          \E r \in Request :
                              call[r].op = "record" /\ \E n \in call[r].names : Excuse(n)
<1>1. Init => IInv
  <2>1. Init => AddsNew /\ AllReplayable
    BY DEF Init, AddsNew, AllReplayable, OwesReplayable, Idle
  <2> QED
    BY <2>1, InitTypes, InitStrict
<1>2. IInv /\ [Next]_vars => IInv'
  BY StepTypes, StepStrict, StepAddsNew, StepReplayable
<1>3. IInv /\ [Next]_vars => [Excused]_vars
  <2> SUFFICES ASSUME IInv, [Next]_vars, ~stuck, stuck'
               PROVE  \E r \in Request :
                          call[r].op = "record" /\ \E n \in call[r].names : Excuse(n)
    OBVIOUS
  <2>1. PICK r \in Request : RecordIntent(r)
    BY OnlyRecordSticks
  <2> QED
    BY <2>1, StuckIsExcused
<1> QED
  BY <1>1, <1>2, <1>3, PTL DEF Spec, RejectionIsExcused

=============================================================================
