----------------------- MODULE ConcurrentEditor_proofs -----------------------
(***************************************************************************)
(* The invariants of ConcurrentEditor hold for any number of rows, of      *)
(* requests at once and of requests cut off.  There are four, the last     *)
(* three proved with the help of the first:                                *)
(*                                                                         *)
(*   TypeInv    every table at hand is a table whose keys resolve, and     *)
(*              every request is at a station of its kind;                 *)
(*   SoundInv   while nothing is tangled every table at hand is sound, and *)
(*              the position a request has read is there, unless the       *)
(*              request is behind;                                         *)
(*   RecordInv  the rows and the revision a request has read are those of  *)
(*              the page, unless it is behind;                             *)
(*   KeptInv    what a patch is about to write has every attribute that is *)
(*              to be kept.                                                *)
(***************************************************************************)
EXTENDS ConcurrentEditor, ElementTable_proofs

-----------------------------------------------------------------------------
(* What the transactions do to the columns, whatever position they are given *)

KeepsData(t, u) ==
    IsTable(u) /\ \A x \in DOMAIN t \cap DOMAIN u : u[x].data = t[x].data

LEMMA KeepsDataTwice ==
    ASSUME NEW t, NEW u, NEW w, KeepsData(t, u), KeepsData(u, w),
           DOMAIN t \cap DOMAIN w \subseteq DOMAIN u
    PROVE  KeepsData(t, w)
BY DEF KeepsData

LEMMA SetPrevKeeps ==
    ASSUME NEW t, IsTable(t), NEW S, NEW q \in Ref
    PROVE  KeepsData(t, SetPrev(t, S, q)) /\ DOMAIN SetPrev(t, S, q) = DOMAIN t
BY SetPrevRows DEF KeepsData

LEMMA InsertRowKeeps ==
    ASSUME NEW t, IsTable(t), NEW n \in Elem, n \notin DOMAIN t, NEW r \in Row
    PROVE  /\ KeepsData(t, InsertRow(t, n, r))
           /\ DOMAIN InsertRow(t, n, r) = DOMAIN t \cup {n}
BY InsertRowRows DEF KeepsData

LEMMA SetPositionKeeps ==
    ASSUME NEW t, IsTable(t), NEW e, NEW p \in Ref, NEW q \in Ref
    PROVE  KeepsData(t, SetPosition(t, e, p, q)) /\ DOMAIN SetPosition(t, e, p, q) = DOMAIN t
<1> DEFINE u == SetPosition(t, e, p, q)
<1>1. IsTable(u) /\ DOMAIN u = DOMAIN t
    BY SetPositionRows
<1>2. ASSUME NEW x \in DOMAIN t
      PROVE  u[x].data = t[x].data
    <2>1. t[x] \in Row
        BY RowFields
    <2>2. u[x] = IF x = e THEN [t[x] EXCEPT !.parent = p, !.prev = q] ELSE t[x]
        BY DEF SetPosition
    <2> QED
        BY <2>1, <2>2 DEF Row
<1> QED
    BY <1>1, <1>2 DEF KeepsData

LEMMA DeleteRowsKeeps ==
    ASSUME NEW t, IsTable(t), NEW S
    PROVE  KeepsData(t, DeleteRows(t, S)) /\ DOMAIN DeleteRows(t, S) = DOMAIN t \ S
<1> DEFINE u == DeleteRows(t, S)
<1>1. DOMAIN u = DOMAIN t \ S
    BY DEF DeleteRows
<1>2. ASSUME NEW x \in DOMAIN t \ S
      PROVE  u[x] \in Row /\ u[x].data = t[x].data
    <2>1. t[x] \in Row
        BY RowFields
    <2>2. u[x] = IF t[x].prev \in S THEN [t[x] EXCEPT !.prev = NoElem] ELSE t[x]
        BY DEF DeleteRows
    <2> QED
        BY <2>1, <2>2 DEF Row, Ref
<1>3. u \in [DOMAIN u -> Row] /\ DOMAIN u \subseteq Elem
    <2>1. u = [x \in DOMAIN t \ S |-> u[x]]
        BY <1>1 DEF DeleteRows
    <2> HIDE DEF u
    <2> QED
        BY <1>1, <1>2, <2>1 DEF IsTable
<1> QED
    BY <1>1, <1>2, <1>3 DEF KeepsData, IsTable

LEMMA InsertedKeeps ==
    ASSUME NEW t, IsTable(t), NEW n \in Elem, n \notin DOMAIN t, NEW r \in Row
    PROVE  KeepsData(t, Inserted(t, n, r)) /\ DOMAIN Inserted(t, n, r) = DOMAIN t \cup {n}
<1> DEFINE u == InsertRow(t, n, r)
           S == At(u, r.parent, r.prev) \ {n}
<1>1. KeepsData(t, u) /\ DOMAIN u = DOMAIN t \cup {n}
    BY InsertRowKeeps
<1>2. IsTable(u) /\ n \in Ref
    BY <1>1 DEF KeepsData, Ref
<1>3. Inserted(t, n, r) = SetPrev(u, S, n)
    BY DEF Inserted
<1> HIDE DEF u, S
<1>4. KeepsData(u, SetPrev(u, S, n)) /\ DOMAIN SetPrev(u, S, n) = DOMAIN u
    BY <1>2, SetPrevKeeps
<1> QED
    BY <1>1, <1>3, <1>4, KeepsDataTwice

LEMMA WrappedKeeps ==
    ASSUME NEW t, IsTable(t), NEW n \in Elem, n \notin DOMAIN t, NEW tag \in Tag,
           NEW e, NEW p \in Ref, NEW q \in Ref
    PROVE  /\ KeepsData(t, Wrapped(t, e, p, q, n, tag))
           /\ DOMAIN Wrapped(t, e, p, q, n, tag) = DOMAIN t \cup {n}
<1> DEFINE r == [parent |-> p, prev |-> q, tag |-> tag, data |-> Blank]
           u == InsertRow(t, n, r)
           S == At(u, p, e) \ {n}
           v == SetPrev(u, S, n)
           w == SetPosition(v, e, n, NoElem)
<1>1. r \in Row
    BY ElementTableAssumption DEF Row
<1>2. Wrapped(t, e, p, q, n, tag) = w
    BY DEF Wrapped
<1>3. n \in Ref /\ NoElem \in Ref
    BY DEF Ref
<1> HIDE DEF r
<1>4. KeepsData(t, u) /\ DOMAIN u = DOMAIN t \cup {n}
    BY <1>1, InsertRowKeeps
<1>5. IsTable(u)
    BY <1>4 DEF KeepsData
<1> HIDE DEF u, S
<1>6. KeepsData(u, v) /\ DOMAIN v = DOMAIN u
    BY <1>3, <1>5, SetPrevKeeps
<1>7. IsTable(v)
    BY <1>6 DEF KeepsData
<1> HIDE DEF v
<1>8. KeepsData(v, w) /\ DOMAIN w = DOMAIN v
    BY <1>3, <1>7, SetPositionKeeps
<1> HIDE DEF w
<1>9. KeepsData(u, w)
    BY <1>6, <1>8, KeepsDataTwice
<1> QED
    BY <1>2, <1>4, <1>6, <1>8, <1>9, KeepsDataTwice

LEMMA MovedKeeps ==
    ASSUME NEW t, IsTable(t), NEW e \in Elem, NEW op, NEW oq \in Ref,
           NEW p \in Ref, NEW q \in Ref
    PROVE  /\ KeepsData(t, Moved(t, e, op, oq, p, q))
           /\ DOMAIN Moved(t, e, op, oq, p, q) = DOMAIN t
<1> DEFINE S == At(t, op, e) \ {e}
           u == SetPrev(t, S, oq)
           R == At(u, p, q) \ {e}
           v == SetPrev(u, R, e)
           w == SetPosition(v, e, p, q)
<1>1. Moved(t, e, op, oq, p, q) = w /\ e \in Ref
    BY DEF Moved, Ref
<1> HIDE DEF S
<1>2. KeepsData(t, u) /\ DOMAIN u = DOMAIN t
    BY SetPrevKeeps
<1>3. IsTable(u)
    BY <1>2 DEF KeepsData
<1> HIDE DEF u, R
<1>4. KeepsData(u, v) /\ DOMAIN v = DOMAIN u
    BY <1>1, <1>3, SetPrevKeeps
<1>5. IsTable(v)
    BY <1>4 DEF KeepsData
<1> HIDE DEF v
<1>6. KeepsData(v, w) /\ DOMAIN w = DOMAIN v
    BY <1>5, SetPositionKeeps
<1> HIDE DEF w
<1>7. KeepsData(u, w)
    BY <1>4, <1>6, KeepsDataTwice
<1> QED
    BY <1>1, <1>2, <1>4, <1>6, <1>7, KeepsDataTwice

-----------------------------------------------------------------------------
(* Types *)

Arg == Tag \cup Attr \cup Words \cup {""}

Table == UNION {[D -> Row] : D \in SUBSET Elem}

Op == {"add", "after", "before", "duplicate", "wrap", "delete", "move", "set_attr",
       "clear_attr", "retag", "text", "undo", "redo", "edit"}

Pc == {"read_last", "read_target", "insert", "relink", "set_root", "wrap", "clear_root",
       "read_deleted", "delete", "walk", "move", "read_attrs", "read_tag", "patch",
       "read_cursor", "step", "snapshot", "snapshot_cursor", "snapshot_write"}

Call ==
    [op : Op, pc : Pc, e : Ref, p : Ref, q : Ref, arg : Arg, root : Ref, n : Ref,
     from : Ref \X Ref, data : Data, rows : Table, seq : Nat]

\* Where the requests of a kind can be.
Stations ==
    ({"add"} \X {"read_last", "insert", "set_root"})
    \cup ({"after", "duplicate"} \X {"read_target", "insert"})
    \cup ({"before"} \X {"read_target", "insert", "relink"})
    \cup ({"wrap"} \X {"read_target", "wrap"})
    \cup ({"delete"} \X {"clear_root", "read_deleted", "delete"})
    \cup ({"move"} \X {"read_target", "walk", "move"})
    \cup ({"set_attr", "clear_attr"} \X {"read_attrs", "patch"})
    \cup ({"retag"} \X {"patch"})
    \cup ({"text"} \X {"read_tag", "patch"})
    \cup ({"undo", "redo"} \X {"read_cursor", "step"})
    \cup ({"edit"} \X {"snapshot", "snapshot_cursor", "snapshot_write"})

Fit(c) ==
    /\ c \in Call /\ <<c.op, c.pc>> \in Stations
    /\ c.op \in {"add", "after", "before", "wrap", "retag"} \/ c.pc = "insert" => c.arg \in Tag
    /\ c.op \in {"set_attr", "clear_attr"} => c.arg \in Attr
    /\ c.op = "text" => c.arg \in Words
    /\ c.op \notin {"add", "undo", "redo", "edit"} => c.e \in Elem
    /\ KeysResolve(c.rows)

Resolved(t) == IsTable(t) /\ KeysResolve(t)

PageOK ==
    /\ Resolved(elements)
    /\ root_element \in DOMAIN elements \cup {NoElem}

PastOK ==
    /\ last_seq \in Nat /\ DOMAIN revisions \subseteq 1..last_seq /\ cursor \in 1..last_seq
    /\ \A s \in DOMAIN revisions : Resolved(revisions[s])

CallsOK ==
    /\ call \in [Request -> Call \cup {NoRequest}]
    /\ \A r \in Request : call[r] # NoRequest =>
           Fit(call[r]) /\ (call[r].pc = "step" => call[r].seq \in 1..last_seq)

TypeInv ==
    /\ PageOK /\ PastOK /\ CallsOK
    /\ menu \subseteq Requests
    /\ tangled \in BOOLEAN /\ owed \in BOOLEAN

LEMMA TablesAreTable ==
    ASSUME NEW t
    PROVE  t \in Table <=> IsTable(t)
BY DEF Table, IsTable

LEMMA EmptyTable ==
    LET t == [x \in {} |-> 0]
    IN  t \in Table /\ KeysResolve(t)
<1> DEFINE t == [x \in {} |-> 0]
<1>1. t \in [{} -> Row]
    OBVIOUS
<1>2. t \in Table
    BY <1>1 DEF Table
<1> QED
    BY <1>2 DEF KeysResolve

\* What Request0 makes of its arguments.
LEMMA Request0Fits ==
    ASSUME NEW op \in Op, NEW pc \in Pc, NEW e \in Ref, NEW p \in Ref, NEW q \in Ref,
           NEW arg \in Arg, <<op, pc>> \in Stations,
           op \in {"add", "after", "before", "wrap", "retag"} \/ pc = "insert" => arg \in Tag,
           op \in {"set_attr", "clear_attr"} => arg \in Attr,
           op = "text" => arg \in Words,
           op \notin {"add", "undo", "redo", "edit"} => e \in Elem
    PROVE  Fit(Request0(op, pc, e, p, q, arg))
<1> DEFINE none == [x \in {} |-> 0]
           c == Request0(op, pc, e, p, q, arg)
<1>1. none \in Table /\ KeysResolve(none)
    BY EmptyTable
<1>2. c = [op |-> op, pc |-> pc, e |-> e, p |-> p, q |-> q, arg |-> arg,
           root |-> NoElem, n |-> NoElem, from |-> <<NoElem, NoElem>>, data |-> Blank,
           rows |-> none, seq |-> 0]
    BY DEF Request0
<1> HIDE DEF none, c
<1>3. NoElem \in Ref /\ Blank \in Data
    BY ElementTableAssumption DEF Ref
<1>4. c \in Call
    BY <1>1, <1>2, <1>3 DEF Call
<1>5. c.op = op /\ c.pc = pc /\ c.arg = arg /\ c.e = e /\ c.rows = none
    BY <1>2
<1> QED
    BY <1>1, <1>4, <1>5 DEF Fit, c

LEMMA UnrecordedFits == Fit(Unrecorded) /\ Unrecorded.pc = "snapshot"
<1>1. /\ "edit" \in Op /\ "snapshot" \in Pc /\ NoElem \in Ref /\ "" \in Arg
      /\ <<"edit", "snapshot">> \in Stations
    BY DEF Op, Pc, Ref, Arg, Stations
<1>2. Fit(Request0("edit", "snapshot", NoElem, NoElem, NoElem, ""))
    BY <1>1, Request0Fits
<1> QED
    BY <1>2 DEF Unrecorded, Request0

\* A request starts with a read, but for a retag and for a delete.
First(c) ==
    /\ Fit(c)
    /\ c.pc \in {"read_last", "read_target", "clear_root", "read_attrs", "read_tag", "patch",
                 "read_cursor"}
    /\ c.pc = "patch" => c.op = "retag"

LEMMA Request0First ==
    ASSUME NEW op, NEW pc, NEW e \in Ref, NEW p \in Ref, NEW q \in Ref, NEW arg,
           \/ /\ op = "add" /\ pc = "read_last" /\ arg \in Tag
           \/ /\ op = "retag" /\ pc = "patch" /\ arg \in Tag /\ e \in Elem
           \/ /\ op \in {"after", "before", "wrap"} /\ pc = "read_target" /\ arg \in Tag
              /\ e \in Elem
           \/ /\ op \in {"duplicate", "move"} /\ pc = "read_target" /\ arg = "" /\ e \in Elem
           \/ /\ op = "delete" /\ pc = "clear_root" /\ arg = "" /\ e \in Elem
           \/ /\ op \in {"set_attr", "clear_attr"} /\ pc = "read_attrs" /\ arg \in Attr
              /\ e \in Elem
           \/ /\ op = "text" /\ pc = "read_tag" /\ arg \in Words /\ e \in Elem
           \/ /\ op \in {"undo", "redo"} /\ pc = "read_cursor" /\ arg = ""
    PROVE  First(Request0(op, pc, e, p, q, arg))
<1>1. op \in Op /\ pc \in Pc /\ arg \in Arg
    BY DEF Op, Pc, Arg
<1>2. <<op, pc>> \in Stations
    BY DEF Stations
<1>3. /\ op \in {"add", "after", "before", "wrap", "retag"} \/ pc = "insert" => arg \in Tag
      /\ op \in {"set_attr", "clear_attr"} => arg \in Attr
      /\ op = "text" => arg \in Words
      /\ op \notin {"add", "undo", "redo", "edit"} => e \in Elem
    OBVIOUS
<1>4. Fit(Request0(op, pc, e, p, q, arg))
    BY <1>1, <1>2, <1>3, Request0Fits
<1>5. Request0(op, pc, e, p, q, arg).pc = pc /\ Request0(op, pc, e, p, q, arg).op = op
    BY DEF Request0
<1> QED
    BY <1>4, <1>5 DEF First

LEMMA RequestsFit ==
    ASSUME NEW c \in Requests
    PROVE  First(c)
<1>0. NoElem \in Ref /\ \A e \in Elem : e \in Ref
    BY DEF Ref
<1>1. ASSUME c \in {Undo, Redo}
      PROVE  First(c)
    BY <1>0, <1>1, Request0First DEF Undo, Redo
<1>2. ASSUME NEW p \in Ref, NEW tag \in Tag, c = Add(p, tag)
      PROVE  First(c)
    BY <1>0, <1>2, Request0First DEF Add
<1>3. ASSUME NEW e \in Elem, NEW tag \in Tag, c = Retag(e, tag)
      PROVE  First(c)
    BY <1>0, <1>3, Request0First DEF Retag
<1>4. ASSUME NEW e \in Elem, c \in {AddAfter(e), AddBefore(e), Wrap(e)}
      PROVE  First(c)
    BY <1>0, <1>4, ConcurrentEditorAssumption, Request0First DEF AddAfter, AddBefore, Wrap
<1>5. ASSUME NEW e \in Elem, c \in {Duplicate(e), Delete(e)}
      PROVE  First(c)
    BY <1>0, <1>5, Request0First DEF Duplicate, Delete
<1>6. ASSUME NEW e \in Elem, NEW p \in Ref, NEW q \in Ref, c = Move(e, p, q)
      PROVE  First(c)
    BY <1>0, <1>6, Request0First DEF Move
<1>7. ASSUME NEW e \in Elem, NEW a \in Attr, c \in {SetAttr(e, a), ClearAttr(e, a)}
      PROVE  First(c)
    BY <1>0, <1>7, Request0First DEF SetAttr, ClearAttr
<1>8. ASSUME NEW e \in Elem, NEW w \in Words, c = Text(e, w)
      PROVE  First(c)
    BY <1>0, <1>8, Request0First DEF Text
<1>9. \/ c \in {Undo, Redo}
      \/ c \in {Add(p, tag) : p \in Ref, tag \in Tag}
      \/ c \in {Retag(e, tag) : e \in Elem, tag \in Tag}
      \/ c \in {AddAfter(e) : e \in Elem}
      \/ c \in {AddBefore(e) : e \in Elem}
      \/ c \in {Duplicate(e) : e \in Elem}
      \/ c \in {Wrap(e) : e \in Elem}
      \/ c \in {Delete(e) : e \in Elem}
      \/ c \in {Move(e, p, q) : e \in Elem, p \in Ref, q \in Ref}
      \/ c \in {SetAttr(e, a) : e \in Elem, a \in Attr}
      \/ c \in {ClearAttr(e, a) : e \in Elem, a \in Attr}
      \/ c \in {Text(e, w) : e \in Elem, w \in Words}
    BY DEF Requests
<1>10. CASE c \in {Add(p, tag) : p \in Ref, tag \in Tag}
    BY <1>2, <1>10
<1>11. CASE c \in {Retag(e, tag) : e \in Elem, tag \in Tag}
    BY <1>3, <1>11
<1>12. CASE \/ c \in {AddAfter(e) : e \in Elem}
            \/ c \in {AddBefore(e) : e \in Elem}
            \/ c \in {Duplicate(e) : e \in Elem}
            \/ c \in {Wrap(e) : e \in Elem}
            \/ c \in {Delete(e) : e \in Elem}
    BY <1>4, <1>5, <1>12
<1>13. CASE c \in {Move(e, p, q) : e \in Elem, p \in Ref, q \in Ref}
    BY <1>6, <1>13
<1>14. CASE \/ c \in {SetAttr(e, a) : e \in Elem, a \in Attr}
            \/ c \in {ClearAttr(e, a) : e \in Elem, a \in Attr}
    BY <1>7, <1>14
<1>15. CASE c \in {Text(e, w) : e \in Elem, w \in Words}
    BY <1>8, <1>15
<1> QED
    BY <1>1, <1>9, <1>10, <1>11, <1>12, <1>13, <1>14, <1>15

LEMMA CallFits ==
    ASSUME TypeInv, NEW r \in Request, call[r].pc # "none"
    PROVE  /\ Fit(call[r]) /\ call[r] \in Call /\ call[r] # NoRequest
           /\ <<call[r].op, call[r].pc>> \in Stations
           /\ call[r].pc = "step" => call[r].seq \in 1..last_seq
<1>1. call[r] # NoRequest
    BY DEF NoRequest
<1> QED
    BY <1>1 DEF TypeInv, CallsOK, Fit

\* A request moves to another station and takes its kind, its row, its argument
\* and its rows along.
LEMMA MovesOn ==
    ASSUME NEW c, Fit(c), NEW d \in Call, d.op = c.op, d.e = c.e, d.rows = c.rows,
           d.arg = c.arg, <<d.op, d.pc>> \in Stations, d.pc # "insert"
    PROVE  Fit(d)
BY DEF Fit

\* The same before an insertion, which has a tag by then.
LEMMA MovesOnToInsert ==
    ASSUME NEW c, Fit(c), NEW d \in Call, d.op = c.op, d.e = c.e, d.rows = c.rows,
           d.arg \in Tag, <<d.op, d.pc>> \in Stations, d.pc = "insert"
    PROVE  Fit(d)
<1>1. d.op \in {"add", "after", "before", "duplicate"}
    BY DEF Stations
<1> QED
    BY <1>1 DEF Fit

LEMMA GoesOn ==
    ASSUME TypeInv, NEW r \in Request, NEW c, call' = [call EXCEPT ![r] = c],
           c = NoRequest \/ (Fit(c) /\ (c.pc = "step" => c.seq \in 1..last_seq')),
           last_seq' \in Nat, last_seq <= last_seq'
    PROVE  CallsOK'
<1>1. c \in Call \cup {NoRequest}
    BY DEF Fit
<1>2. call' \in [Request -> Call \cup {NoRequest}]
    BY <1>1 DEF TypeInv, CallsOK
<1>3. last_seq \in Nat
    BY DEF TypeInv, PastOK
<1>4. ASSUME NEW q \in Request, call'[q] # NoRequest
      PROVE  Fit(call'[q]) /\ (call'[q].pc = "step" => call'[q].seq \in 1..last_seq')
    <2>1. CASE q = r
        BY <1>4, <2>1 DEF TypeInv, CallsOK
    <2>2. CASE q # r
        <3>1. call'[q] = call[q]
            BY <2>2 DEF TypeInv, CallsOK
        <3> QED
            BY <1>3, <1>4, <3>1 DEF TypeInv, CallsOK
    <2> QED
        BY <2>1, <2>2
<1> QED
    BY <1>2, <1>4 DEF CallsOK

\* r reads and goes on, or ends.
Quiet(r) ==
    \E c : /\ Continue(r, c)
           /\ c = NoRequest \/ (Fit(c) /\ (c.pc = "step" => c.seq \in 1..last_seq))

LEMMA GoesOnQuietly ==
    ASSUME NEW r, NEW d, Continue(r, d), Fit(d), d.pc # "step"
    PROVE  Quiet(r)
BY DEF Quiet

LEMMA QuietKeepsTypes ==
    ASSUME TypeInv, NEW r \in Request, Quiet(r), UNCHANGED menu
    PROVE  TypeInv'
<1>1. PICK c : /\ Continue(r, c)
               /\ c = NoRequest \/ (Fit(c) /\ (c.pc = "step" => c.seq \in 1..last_seq))
    BY DEF Quiet
<1>2. /\ call' = [call EXCEPT ![r] = c]
      /\ UNCHANGED <<elements, root_element, revisions, cursor, last_seq, tangled, owed>>
    BY <1>1 DEF Continue, page, history
<1>3. /\ last_seq' \in Nat /\ last_seq <= last_seq'
      /\ c = NoRequest \/ (Fit(c) /\ (c.pc = "step" => c.seq \in 1..last_seq'))
    BY <1>1, <1>2 DEF TypeInv, PastOK
<1>4. CallsOK'
    BY <1>2, <1>3, GoesOn
<1>5. PageOK' /\ PastOK'
    BY <1>2 DEF TypeInv, PageOK, PastOK, Resolved
<1> QED
    BY <1>2, <1>4, <1>5 DEF TypeInv

LEMMA ReadLastIsQuiet ==
    ASSUME TypeInv, NEW r \in Request, ReadLast(r)
    PROVE  Quiet(r)
<1> DEFINE c == call[r]
<1>1. c.pc = "read_last"
    BY DEF ReadLast, Reached
<1>2. Fit(c) /\ c \in Call /\ <<c.op, c.pc>> \in Stations
    BY <1>1, CallFits
<1>3. CASE Continue(r, NoRequest)
    BY <1>3 DEF Quiet
<1>4. ASSUME NEW q \in IF LastSiblings(elements, c.p) = {} THEN {NoElem}
                       ELSE LastSiblings(elements, c.p),
             Continue(r, [c EXCEPT !.q = q, !.pc = "insert"])
      PROVE  Quiet(r)
    <2> DEFINE d == [c EXCEPT !.q = q, !.pc = "insert"]
    <2>1. q \in Ref
        BY DEF LastSiblings, ChildrenOf, TypeInv, PageOK, Resolved, IsTable, Ref
    <2>2. d \in Call /\ d.op = c.op /\ d.e = c.e /\ d.rows = c.rows /\ d.arg = c.arg
          /\ d.pc = "insert"
        BY <1>2, <2>1 DEF Call, Pc
    <2>3. c.op = "add"
        BY <1>1, <1>2 DEF Stations
    <2>4. <<d.op, d.pc>> \in Stations
        BY <2>2, <2>3 DEF Stations
    <2>5. d.arg \in Tag
        BY <1>2, <2>2, <2>3 DEF Fit
    <2>6. Continue(r, d) /\ d.pc # "step"
        BY <1>4, <2>2
    <2> HIDE DEF d, c
    <2>7. Fit(d)
        BY <1>2, <2>2, <2>4, <2>5, MovesOnToInsert
    <2> QED
        BY <2>6, <2>7, GoesOnQuietly
<1> QED
    BY <1>3, <1>4 DEF ReadLast

LEMMA ReadTargetIsQuiet ==
    ASSUME TypeInv, NEW r \in Request, ReadTarget(r)
    PROVE  Quiet(r)
<1> DEFINE c == call[r]
           row == elements[c.e]
           at == [c EXCEPT !.p = row.parent, !.q = row.prev]
<1>1. c.pc = "read_target"
    BY DEF ReadTarget, Reached
<1>2. Fit(c) /\ c \in Call /\ <<c.op, c.pc>> \in Stations
    BY <1>1, CallFits
<1>3. CASE c.e \notin DOMAIN elements
    BY <1>3 DEF ReadTarget, Quiet
<1>4. CASE c.e \in DOMAIN elements
    <2>1. c.op \in {"after", "before", "wrap", "duplicate", "move"}
        BY <1>1, <1>2 DEF Stations
    <2>2. c.op # "duplicate" /\ c.op # "move" => c.arg \in Tag
        BY <1>2, <2>1 DEF Fit
    <2>3. row.parent \in Ref /\ row.prev \in Ref /\ row.tag \in Tag /\ row.data \in Data
        BY <1>4, RowFields DEF TypeInv, PageOK, Resolved
    <2>4. c.e \in Ref /\ c.p \in Ref /\ \A tag \in Tag : tag \in Arg
        BY <1>2 DEF Call, Arg
    <2> HIDE DEF row
    <2>5. at \in Call /\ at.op = c.op /\ at.e = c.e /\ at.rows = c.rows /\ at.arg = c.arg
        BY <1>2, <2>3 DEF Call
    <2> HIDE DEF at
    <2>6. CASE c.op = "after"
        <3> DEFINE d == [at EXCEPT !.q = c.e, !.pc = "insert"]
        <3>1. Continue(r, d)
            BY <1>4, <2>6 DEF ReadTarget, at, row
        <3>2. d \in Call /\ d.op = c.op /\ d.e = c.e /\ d.rows = c.rows /\ d.arg = c.arg
              /\ d.pc = "insert"
            BY <2>4, <2>5 DEF Call, Pc
        <3>3. <<d.op, d.pc>> \in Stations
            BY <2>6, <3>2 DEF Stations
        <3> HIDE DEF d, c
        <3>4. Fit(d)
            BY <1>2, <2>2, <2>6, <3>2, <3>3, MovesOnToInsert
        <3> QED
            BY <3>1, <3>2, <3>4, GoesOnQuietly
    <2>7. CASE c.op = "before"
        <3> DEFINE d == [at EXCEPT !.pc = "insert"]
        <3>1. Continue(r, d)
            BY <1>4, <2>7 DEF ReadTarget, at, row
        <3>2. d \in Call /\ d.op = c.op /\ d.e = c.e /\ d.rows = c.rows /\ d.arg = c.arg
              /\ d.pc = "insert"
            BY <2>4, <2>5 DEF Call, Pc
        <3>3. <<d.op, d.pc>> \in Stations
            BY <2>7, <3>2 DEF Stations
        <3> HIDE DEF d, c
        <3>4. Fit(d)
            BY <1>2, <2>2, <2>7, <3>2, <3>3, MovesOnToInsert
        <3> QED
            BY <3>1, <3>2, <3>4, GoesOnQuietly
    <2>8. CASE c.op = "wrap"
        <3> DEFINE d == [at EXCEPT !.pc = "wrap"]
        <3>1. Continue(r, d)
            BY <1>4, <2>8 DEF ReadTarget, at, row
        <3>2. d \in Call /\ d.op = c.op /\ d.e = c.e /\ d.rows = c.rows /\ d.arg = c.arg
              /\ d.pc = "wrap"
            BY <2>4, <2>5 DEF Call, Pc
        <3>3. <<d.op, d.pc>> \in Stations
            BY <2>8, <3>2 DEF Stations
        <3> HIDE DEF d, c
        <3>4. Fit(d)
            BY <1>2, <3>2, <3>3, MovesOn
        <3> QED
            BY <3>1, <3>2, <3>4, GoesOnQuietly
    <2>9. CASE c.op = "duplicate"
        <3> DEFINE d == [at EXCEPT !.q = c.e, !.arg = row.tag, !.data = row.data, !.pc = "insert"]
        <3>1. Continue(r, d)
            BY <1>4, <2>9 DEF ReadTarget, at, row
        <3>2. d \in Call /\ d.op = c.op /\ d.e = c.e /\ d.rows = c.rows /\ d.arg = row.tag
              /\ d.pc = "insert"
            BY <2>3, <2>4, <2>5 DEF Call, Pc
        <3>3. <<d.op, d.pc>> \in Stations
            BY <2>9, <3>2 DEF Stations
        <3> HIDE DEF d, c
        <3>4. Fit(d)
            BY <1>2, <2>3, <3>2, <3>3, MovesOnToInsert
        <3> QED
            BY <3>1, <3>2, <3>4, GoesOnQuietly
    <2>10. CASE c.op = "move"
        <3> DEFINE d == [c EXCEPT !.from = <<row.parent, row.prev>>, !.n = c.p, !.pc = "walk"]
        <3>1. Continue(r, d)
            BY <1>4, <2>10 DEF ReadTarget, at, row
        <3>2. d \in Call /\ d.op = c.op /\ d.e = c.e /\ d.rows = c.rows /\ d.arg = c.arg
              /\ d.pc = "walk"
            BY <1>2, <2>3, <2>4 DEF Call, Pc
        <3>3. <<d.op, d.pc>> \in Stations
            BY <2>10, <3>2 DEF Stations
        <3> HIDE DEF d, c
        <3>4. Fit(d)
            BY <1>2, <3>2, <3>3, MovesOn
        <3> QED
            BY <3>1, <3>2, <3>4, GoesOnQuietly
    <2> QED
        BY <2>1, <2>6, <2>7, <2>8, <2>9, <2>10
<1> QED
    BY <1>3, <1>4

LEMMA WalkIsQuiet ==
    ASSUME TypeInv, NEW r \in Request, Walk(r)
    PROVE  Quiet(r)
<1> DEFINE c == call[r]
<1>1. c.pc = "walk"
    BY DEF Walk, Reached
<1>2. Fit(c) /\ c \in Call /\ <<c.op, c.pc>> \in Stations
    BY <1>1, CallFits
<1>3. c.op = "move"
    BY <1>1, <1>2 DEF Stations
<1>4. CASE Continue(r, NoRequest)
    BY <1>4 DEF Quiet
<1>5. CASE Continue(r, [c EXCEPT !.pc = "move"])
    <2> DEFINE d == [c EXCEPT !.pc = "move"]
    <2>1. d \in Call /\ d.op = c.op /\ d.e = c.e /\ d.rows = c.rows /\ d.arg = c.arg
          /\ d.pc = "move"
        BY <1>2 DEF Call, Pc
    <2>2. <<d.op, d.pc>> \in Stations
        BY <1>3, <2>1 DEF Stations
    <2>3. Continue(r, d)
        BY <1>5
    <2> HIDE DEF d, c
    <2>4. Fit(d)
        BY <1>2, <2>1, <2>2, MovesOn
    <2> QED
        BY <2>1, <2>3, <2>4, GoesOnQuietly
<1>6. ASSUME c.n \in DOMAIN elements, Continue(r, [c EXCEPT !.n = elements[c.n].parent])
      PROVE  Quiet(r)
    <2> DEFINE p == elements[c.n].parent
               d == [c EXCEPT !.n = p]
    <2>1. p \in Ref
        BY <1>6, RowFields DEF TypeInv, PageOK, Resolved
    <2> HIDE DEF p
    <2>2. d \in Call /\ d.op = c.op /\ d.e = c.e /\ d.rows = c.rows /\ d.arg = c.arg
          /\ d.pc = c.pc
        BY <1>2, <2>1 DEF Call
    <2>3. Continue(r, d)
        BY <1>6 DEF p
    <2> HIDE DEF d, c
    <2>4. Fit(d)
        BY <1>1, <1>2, <2>2, MovesOn
    <2> QED
        BY <1>1, <2>2, <2>3, <2>4, GoesOnQuietly
<1> QED
    BY <1>4, <1>5, <1>6 DEF Walk

LEMMA ReadDeletedIsQuiet ==
    ASSUME TypeInv, NEW r \in Request, ReadDeleted(r)
    PROVE  Quiet(r)
<1> DEFINE c == call[r]
<1>1. c.pc = "read_deleted"
    BY DEF ReadDeleted, Reached
<1>2. Fit(c) /\ c \in Call /\ <<c.op, c.pc>> \in Stations
    BY <1>1, CallFits
<1>3. c.op = "delete"
    BY <1>1, <1>2 DEF Stations
<1>4. CASE c.e \notin DOMAIN elements
    <2>1. Continue(r, Unrecorded)
        BY <1>4 DEF ReadDeleted
    <2> QED
        BY <2>1, UnrecordedFits, GoesOnQuietly
<1>5. CASE c.e \in DOMAIN elements
    <2> DEFINE p == elements[c.e].parent
               q == elements[c.e].prev
               d == [c EXCEPT !.p = p, !.q = q, !.pc = "delete"]
    <2>1. Continue(r, d)
        BY <1>5 DEF ReadDeleted
    <2>2. p \in Ref /\ q \in Ref
        BY <1>5, RowFields DEF TypeInv, PageOK, Resolved
    <2> HIDE DEF p, q
    <2>3. d \in Call /\ d.op = c.op /\ d.e = c.e /\ d.rows = c.rows /\ d.arg = c.arg
          /\ d.pc = "delete"
        BY <1>2, <2>2 DEF Call, Pc
    <2>4. <<d.op, d.pc>> \in Stations
        BY <1>3, <2>3 DEF Stations
    <2> HIDE DEF d, c
    <2>5. Fit(d)
        BY <1>2, <2>3, <2>4, MovesOn
    <2> QED
        BY <2>1, <2>3, <2>5, GoesOnQuietly
<1> QED
    BY <1>4, <1>5

LEMMA ReadAttrsIsQuiet ==
    ASSUME TypeInv, NEW r \in Request, ReadAttrs(r)
    PROVE  Quiet(r)
<1> DEFINE c == call[r]
<1>1. c.pc = "read_attrs"
    BY DEF ReadAttrs, Reached
<1>2. Fit(c) /\ c \in Call /\ <<c.op, c.pc>> \in Stations
    BY <1>1, CallFits
<1>3. c.op \in {"set_attr", "clear_attr"}
    BY <1>1, <1>2 DEF Stations
<1>4. CASE c.e \notin DOMAIN elements
    BY <1>4 DEF ReadAttrs, Quiet
<1>5. CASE c.e \in DOMAIN elements
    <2> DEFINE seen == elements[c.e].data \cap Attr
               d == [c EXCEPT !.data = seen, !.pc = "patch"]
    <2>1. Continue(r, d)
        BY <1>5 DEF ReadAttrs
    <2>2. seen \in Data
        BY ConcurrentEditorAssumption
    <2> HIDE DEF seen
    <2>3. d \in Call /\ d.op = c.op /\ d.e = c.e /\ d.rows = c.rows /\ d.arg = c.arg
          /\ d.pc = "patch"
        BY <1>2, <2>2 DEF Call, Pc
    <2>4. <<d.op, d.pc>> \in Stations
        BY <1>3, <2>3 DEF Stations
    <2> HIDE DEF d, c
    <2>5. Fit(d)
        BY <1>2, <2>3, <2>4, MovesOn
    <2> QED
        BY <2>1, <2>3, <2>5, GoesOnQuietly
<1> QED
    BY <1>4, <1>5

LEMMA ReadTagIsQuiet ==
    ASSUME TypeInv, NEW r \in Request, ReadTag(r)
    PROVE  Quiet(r)
<1> DEFINE c == call[r]
           d == [c EXCEPT !.pc = "patch"]
<1>1. c.pc = "read_tag"
    BY DEF ReadTag, Reached
<1>2. Fit(c) /\ c \in Call /\ <<c.op, c.pc>> \in Stations
    BY <1>1, CallFits
<1>3. c.op = "text"
    BY <1>1, <1>2 DEF Stations
<1>4. CASE Continue(r, NoRequest)
    BY <1>4 DEF Quiet
<1>5. CASE Continue(r, d)
    <2>1. d \in Call /\ d.op = c.op /\ d.e = c.e /\ d.rows = c.rows /\ d.arg = c.arg
          /\ d.pc = "patch"
        BY <1>2 DEF Call, Pc
    <2>2. <<d.op, d.pc>> \in Stations
        BY <1>3, <2>1 DEF Stations
    <2> HIDE DEF d, c
    <2>3. Fit(d)
        BY <1>2, <2>1, <2>2, MovesOn
    <2> QED
        BY <1>5, <2>1, <2>3, GoesOnQuietly
<1> QED
    BY <1>4, <1>5 DEF ReadTag

LEMMA SnapshotRowsIsQuiet ==
    ASSUME TypeInv, NEW r \in Request, SnapshotRows(r)
    PROVE  Quiet(r)
<1> DEFINE c == call[r]
           d == [c EXCEPT !.rows = elements, !.pc = "snapshot_cursor"]
<1>1. c.pc = "snapshot" /\ Continue(r, d)
    BY DEF SnapshotRows, Reached
<1>2. Fit(c) /\ c \in Call /\ <<c.op, c.pc>> \in Stations
    BY <1>1, CallFits
<1>3. c.op = "edit"
    BY <1>1, <1>2 DEF Stations
<1>4. elements \in Table /\ KeysResolve(elements)
    BY TablesAreTable DEF TypeInv, PageOK, Resolved
<1>5. d \in Call /\ d.op = c.op /\ d.rows = elements /\ d.pc = "snapshot_cursor"
    BY <1>2, <1>4 DEF Call, Pc
<1>6. <<d.op, d.pc>> \in Stations
    BY <1>3, <1>5 DEF Stations
<1> HIDE DEF d
<1>7. Fit(d)
    BY <1>3, <1>4, <1>5, <1>6 DEF Fit
<1> QED
    BY <1>1, <1>5, <1>7, GoesOnQuietly

LEMMA SnapshotCursorIsQuiet ==
    ASSUME TypeInv, NEW r \in Request, SnapshotCursor(r)
    PROVE  Quiet(r)
<1> DEFINE c == call[r]
           d == [c EXCEPT !.seq = cursor, !.pc = "snapshot_write"]
<1>1. c.pc = "snapshot_cursor" /\ Continue(r, d)
    BY DEF SnapshotCursor, Reached
<1>2. Fit(c) /\ c \in Call /\ <<c.op, c.pc>> \in Stations
    BY <1>1, CallFits
<1>3. c.op = "edit"
    BY <1>1, <1>2 DEF Stations
<1>4. cursor \in Nat
    BY DEF TypeInv, PastOK
<1>5. d \in Call /\ d.op = c.op /\ d.e = c.e /\ d.rows = c.rows /\ d.arg = c.arg
      /\ d.pc = "snapshot_write"
    BY <1>2, <1>4 DEF Call, Pc
<1>6. <<d.op, d.pc>> \in Stations
    BY <1>3, <1>5 DEF Stations
<1> HIDE DEF d, c
<1>7. Fit(d)
    BY <1>2, <1>5, <1>6, MovesOn
<1> QED
    BY <1>1, <1>5, <1>7, GoesOnQuietly

LEMMA StepReadsIsQuiet ==
    ASSUME TypeInv, NEW r \in Request, StepReads(r)
    PROVE  Quiet(r)
<1> DEFINE c == call[r]
<1>1. c.pc = "read_cursor"
    BY DEF StepReads, Reached
<1>2. Fit(c) /\ c \in Call /\ <<c.op, c.pc>> \in Stations
    BY <1>1, CallFits
<1>3. c.op \in {"undo", "redo"}
    BY <1>1, <1>2 DEF Stations
<1>4. CASE Continue(r, NoRequest)
    BY <1>4 DEF Quiet
<1>5. ASSUME NEW s \in Targets(c.op, cursor),
             Continue(r, [c EXCEPT !.seq = s, !.rows = revisions[s], !.pc = "step"])
      PROVE  Quiet(r)
    <2> DEFINE d == [c EXCEPT !.seq = s, !.rows = revisions[s], !.pc = "step"]
    <2>1. s \in DOMAIN revisions
        BY DEF Targets
    <2>2. revisions[s] \in Table /\ KeysResolve(revisions[s]) /\ s \in 1..last_seq
        BY <2>1, TablesAreTable DEF TypeInv, PastOK, Resolved
    <2>3. s \in Nat
        BY <2>2 DEF TypeInv, PastOK
    <2>4. d \in Call /\ d.op = c.op /\ d.rows = revisions[s] /\ d.pc = "step" /\ d.seq = s
        BY <1>2, <2>2, <2>3 DEF Call, Pc
    <2>5. <<d.op, d.pc>> \in Stations
        BY <1>3, <2>4 DEF Stations
    <2>6. Continue(r, d)
        BY <1>5
    <2> HIDE DEF d
    <2>7. Fit(d)
        BY <1>3, <2>2, <2>4, <2>5 DEF Fit
    <2> QED
        BY <2>2, <2>4, <2>6, <2>7 DEF Quiet
<1> QED
    BY <1>4, <1>5 DEF StepReads

Reads(r) ==
    \/ ReadLast(r) \/ ReadTarget(r) \/ Walk(r) \/ ReadDeleted(r) \/ ReadAttrs(r) \/ ReadTag(r)
    \/ SnapshotRows(r) \/ SnapshotCursor(r) \/ StepReads(r)

LEMMA ReadsAreQuiet ==
    ASSUME TypeInv, NEW r \in Request, Reads(r)
    PROVE  Quiet(r)
BY ReadLastIsQuiet, ReadTargetIsQuiet, WalkIsQuiet, ReadDeletedIsQuiet, ReadAttrsIsQuiet,
   ReadTagIsQuiet, SnapshotRowsIsQuiet, SnapshotCursorIsQuiet, StepReadsIsQuiet DEF Reads

-----------------------------------------------------------------------------
(* Positions *)

\* The rows that the walk has met, from the new parent up to where it is.
Walking(t, c) ==
    \E A \in SUBSET (DOMAIN t \ {c.e}) :
        /\ c.p \in A \cup {c.n}
        /\ \A x \in A : t[x].parent \in A \cup {c.n, NoElem}

\* What c has read of the positions of rows is so in t.
Placed(c, t) ==
    /\ c.pc = "insert" =>
           /\ c.q \in ChildrenOf(t, c.p) \cup {NoElem}
           /\ c.op = "before" => c.e \in At(t, c.p, c.q)
    /\ c.pc = "relink" => (c.e \in DOMAIN t => t[c.e].prev = c.n)
    /\ c.pc \in {"wrap", "delete"} => c.e \in At(t, c.p, c.q)
    /\ c.pc \in {"walk", "move"} => c.e \in At(t, c.from[1], c.from[2])
    /\ c.pc \in {"walk", "move"} \/ (c.pc = "read_target" /\ c.op = "move") =>
           c.q \in (ChildrenOf(t, c.p) \ {c.e}) \cup {NoElem}
    /\ c.pc = "walk" => Walking(t, c)
    /\ c.pc = "move" => WalkAvoids(t, c.p, c.e)

\* Where a request has rows with it.
Carrying == {"snapshot_cursor", "snapshot_write", "step"}

AllSound ==
    /\ SoundTable(elements)
    /\ \A s \in DOMAIN revisions : SoundTable(revisions[s])
    /\ \A r \in Request : call[r].pc \in Carrying => SoundTable(call[r].rows)

AllPlaced == \A r \in Request : r \notin behind => Placed(call[r], elements)

SoundInv == tangled \/ (AllSound /\ AllPlaced)

LEMMA SameShape ==
    ASSUME NEW t, NEW u, Shape(t) = Shape(u)
    PROVE  /\ DOMAIN t = DOMAIN u
           /\ \A x \in DOMAIN t : t[x].parent = u[x].parent /\ t[x].prev = u[x].prev
<1>1. DOMAIN Shape(t) = DOMAIN t /\ DOMAIN Shape(u) = DOMAIN u
    BY DEF Shape
<1>2. ASSUME NEW x \in DOMAIN t
      PROVE  t[x].parent = u[x].parent /\ t[x].prev = u[x].prev
    <2>1. Shape(t)[x] = <<t[x].parent, t[x].prev>>
        BY DEF Shape
    <2>2. Shape(u)[x] = <<u[x].parent, u[x].prev>>
        BY <1>1 DEF Shape
    <2> QED
        BY <2>1, <2>2
<1> QED
    BY <1>1, <1>2

LEMMA PlacedByShape ==
    ASSUME NEW c, NEW t, NEW u, Placed(c, t), Shape(t) = Shape(u)
    PROVE  Placed(c, u)
<1>1. /\ DOMAIN t = DOMAIN u
      /\ \A x \in DOMAIN t : t[x].parent = u[x].parent /\ t[x].prev = u[x].prev
    BY SameShape
<1>2. \A p, q : ChildrenOf(t, p) = ChildrenOf(u, p) /\ At(t, p, q) = At(u, p, q)
    BY <1>1 DEF ChildrenOf, At
<1>3. Walking(t, c) => Walking(u, c)
    BY <1>1 DEF Walking
<1>4. ASSUME WalkAvoids(t, c.p, c.e)
      PROVE  WalkAvoids(u, c.p, c.e)
    <2>1. PICK A \in SUBSET (DOMAIN t \ {c.e}) :
              c.p \in A \cup {NoElem} /\ \A x \in A : t[x].parent \in A \cup {NoElem}
        BY <1>4 DEF WalkAvoids
    <2>2. A \in SUBSET (DOMAIN u \ {c.e}) /\ \A x \in A : u[x].parent \in A \cup {NoElem}
        BY <1>1, <2>1
    <2> QED
        BY <2>1, <2>2 DEF WalkAvoids
<1> QED
    BY <1>1, <1>2, <1>3, <1>4 DEF Placed

LEMMA SoundByShape ==
    ASSUME NEW t, NEW u, SoundTable(t), Shape(t) = Shape(u)
    PROVE  SoundTable(u)
BY SameShape, SameKeysSound

LEMMA UnplacedIsPlaced ==
    ASSUME NEW c, NEW t, c.pc \notin {"insert", "relink", "wrap", "delete", "walk", "move",
                                      "read_target"}
    PROVE  Placed(c, t)
BY DEF Placed

-----------------------------------------------------------------------------
(* Writes *)

\* What every write of rows has in common: r writes t and goes on as c.
Wrote(r, t, root, c) ==
    /\ Write(r, t, root, c) /\ KeepsData(elements, t)
    /\ Fit(c)
    /\ \/ c.pc = "snapshot"
       \/ c.pc \in {"relink", "set_root"} /\ c.n \in DOMAIN t \ DOMAIN elements
       \/ c.pc = "read_deleted" /\ t = elements /\ call[r].pc = "clear_root"
    /\ call[r].pc \notin {"snapshot", "snapshot_cursor", "snapshot_write"}
    /\ call[r].pc \in {"relink", "set_root"} /\ call[r].n \in DOMAIN elements => Accepted(t)
    /\ AllSound /\ Placed(call[r], elements) /\ Accepted(t) => SoundTable(t) /\ Placed(c, t)

Writes(r) == \E t, root, c : Wrote(r, t, root, c)

LEMMA UnrecordedPlaced == \A t : Placed(Unrecorded, t)
BY UnrecordedFits, UnplacedIsPlaced

LEMMA NewIdIsFresh ==
    ASSUME FreshIds # {}
    PROVE  /\ NewId \in Elem /\ NewId \notin DOMAIN elements
           /\ \A r \in Request : call[r] # NoRequest => NewId # call[r].p
<1>1. NewId \in FreshIds
    BY DEF NewId
<1> HIDE DEF NewId
<1> QED
    BY <1>1 DEF FreshIds

LEMMA TypeInvPage ==
    ASSUME TypeInv
    PROVE  IsTable(elements) /\ KeysResolve(elements)
BY DEF TypeInv, PageOK, Resolved

LEMMA InsertedPrevs ==
    ASSUME NEW t, IsTable(t), NEW n \in Elem, n \notin DOMAIN t, NEW r \in Row
    PROVE  /\ Inserted(t, n, r)[n].parent = r.parent
           /\ \A x \in DOMAIN t :
                  Inserted(t, n, r)[x].prev =
                      IF t[x].parent = r.parent /\ t[x].prev = r.prev THEN n ELSE t[x].prev
<1> DEFINE v == InsertRow(t, n, r)
           S == At(v, r.parent, r.prev) \ {n}
           u == SetPrev(v, S, n)
<1>1. /\ IsTable(v) /\ DOMAIN v = DOMAIN t \cup {n} /\ v[n] = r
      /\ \A x \in DOMAIN t : v[x] = t[x]
    BY InsertRowRows
<1>2. n \in Ref
    BY DEF Ref
<1>3. /\ DOMAIN u = DOMAIN v
      /\ \A x \in DOMAIN v :
             /\ u[x].parent = v[x].parent
             /\ u[x].prev = IF x \in S THEN n ELSE v[x].prev
    <2> HIDE DEF v, S
    <2> QED
        BY <1>1, <1>2, SetPrevRows
<1>4. n \notin S /\ \A x \in DOMAIN t :
          x \in S <=> t[x].parent = r.parent /\ t[x].prev = r.prev
    <2> HIDE DEF v
    <2> QED
        BY <1>1 DEF At
<1>5. Inserted(t, n, r) = u
    BY DEF Inserted
<1> HIDE DEF u, v, S
<1> QED
    BY <1>1, <1>3, <1>4, <1>5

LEMMA InsertElementWrites ==
    ASSUME TypeInv, NEW r \in Request, InsertElement(r)
    PROVE  Writes(r)
<1> DEFINE c == call[r]
           n == NewId
           row == [parent |-> c.p, prev |-> c.q, tag |-> c.arg, data |-> c.data]
           t == Inserted(elements, n, row)
           d == CASE c.op = "before" -> [c EXCEPT !.n = n, !.pc = "relink"]
                  [] c.op = "add" /\ c.p = NoElem /\ c.root = NoElem ->
                         [c EXCEPT !.n = n, !.pc = "set_root"]
                  [] OTHER -> Unrecorded
<1>1. c.pc = "insert" /\ FreshIds # {} /\ Write(r, t, root_element, d)
    BY DEF InsertElement, Reached
<1> HIDE DEF d
<1>2. Fit(c) /\ c \in Call /\ <<c.op, c.pc>> \in Stations /\ c # NoRequest
    BY <1>1, CallFits
<1>3. n \in Elem /\ n \notin DOMAIN elements /\ n # c.p
    BY <1>1, <1>2, NewIdIsFresh
<1> HIDE DEF n
<1>4. row \in Row /\ row.parent = c.p /\ row.prev = c.q
    BY <1>1, <1>2 DEF Row, Call, Fit
<1>5. IsTable(elements) /\ KeysResolve(elements)
    BY TypeInvPage
<1> HIDE DEF row
<1>6. KeepsData(elements, t) /\ DOMAIN t = DOMAIN elements \cup {n}
    BY <1>3, <1>4, <1>5, InsertedKeeps
<1>7. /\ t[n].parent = c.p
      /\ \A x \in DOMAIN elements :
             t[x].prev = IF elements[x].parent = c.p /\ elements[x].prev = c.q
                         THEN n ELSE elements[x].prev
    <2> HIDE DEF c
    <2>1. /\ Inserted(elements, n, row)[n].parent = row.parent
          /\ \A x \in DOMAIN elements :
                 Inserted(elements, n, row)[x].prev =
                     IF elements[x].parent = row.parent /\ elements[x].prev = row.prev
                     THEN n ELSE elements[x].prev
        BY <1>3, <1>4, <1>5, InsertedPrevs
    <2> QED
        BY <1>4, <2>1
<1>8. ASSUME AllSound, Placed(c, elements), Accepted(t)
      PROVE  SoundTable(t)
    <2>1. c.p \in DOMAIN elements \cup {NoElem}
        BY <1>3, <1>6, <1>7, <1>8 DEF Accepted, KeysResolve
    <2>2. c.q \in ChildrenOf(elements, c.p) \cup {NoElem}
        BY <1>1, <1>8 DEF Placed
    <2>3. SoundTable(elements)
        BY <1>8 DEF AllSound
    <2> HIDE DEF c, t
    <2>4. SoundTable(Inserted(elements, n, row))
        BY <1>3, <1>4, <1>5, <2>1, <2>2, <2>3, InsertedSound
    <2> QED
        BY <2>4 DEF t
<1> HIDE DEF t
<1>9. CASE c.op = "before"
    <2>1. d = [c EXCEPT !.n = n, !.pc = "relink"]
        BY <1>9 DEF d
    <2>2. n \in Ref
        BY <1>3 DEF Ref
    <2>3. d \in Call /\ d.op = c.op /\ d.e = c.e /\ d.rows = c.rows /\ d.arg = c.arg
          /\ d.pc = "relink" /\ d.n = n
        BY <1>2, <2>1, <2>2 DEF Call, Pc
    <2>4. <<d.op, d.pc>> \in Stations
        BY <1>9, <2>3 DEF Stations
    <2>5. ASSUME Placed(c, elements)
          PROVE  Placed(d, t)
        <3>1. c.e \in At(elements, c.p, c.q)
            BY <1>1, <1>9, <2>5 DEF Placed
        <3>2. t[d.e].prev = d.n
            BY <1>7, <2>3, <3>1 DEF At
        <3> QED
            BY <2>3, <3>2 DEF Placed
    <2>6. call[r].pc = "insert"
        BY <1>1
    <2> HIDE DEF c
    <2>7. Fit(d)
        BY <1>2, <2>3, <2>4, MovesOn
    <2>8. Wrote(r, t, root_element, d)
        BY <1>1, <1>3, <1>6, <1>8, <2>3, <2>5, <2>6, <2>7 DEF Wrote, c
    <2> QED
        BY <2>8 DEF Writes
<1>10. CASE c.op = "add" /\ c.p = NoElem /\ c.root = NoElem
    <2>1. d = [c EXCEPT !.n = n, !.pc = "set_root"]
        BY <1>10 DEF d
    <2>2. n \in Ref
        BY <1>3 DEF Ref
    <2>3. d \in Call /\ d.op = c.op /\ d.e = c.e /\ d.rows = c.rows /\ d.arg = c.arg
          /\ d.pc = "set_root" /\ d.n = n
        BY <1>2, <2>1, <2>2 DEF Call, Pc
    <2>4. <<d.op, d.pc>> \in Stations
        BY <1>10, <2>3 DEF Stations
    <2>5. Placed(d, t)
        BY <2>3, UnplacedIsPlaced
    <2>6. call[r].pc = "insert"
        BY <1>1
    <2> HIDE DEF c
    <2>7. Fit(d)
        BY <1>2, <2>3, <2>4, MovesOn
    <2>8. Wrote(r, t, root_element, d)
        BY <1>1, <1>3, <1>6, <1>8, <2>3, <2>5, <2>6, <2>7 DEF Wrote, c
    <2> QED
        BY <2>8 DEF Writes
<1>11. CASE c.op # "before" /\ ~(c.op = "add" /\ c.p = NoElem /\ c.root = NoElem)
    <2>1. d = Unrecorded
        BY <1>11 DEF d
    <2>2. Fit(d) /\ d.pc = "snapshot" /\ Placed(d, t)
        BY <2>1, UnrecordedFits, UnrecordedPlaced
    <2>3. Wrote(r, t, root_element, d)
        BY <1>1, <1>6, <1>8, <2>2 DEF Wrote
    <2> QED
        BY <2>3 DEF Writes
<1> QED
    BY <1>9, <1>10, <1>11

LEMMA RelinkTargetWrites ==
    ASSUME TypeInv, NEW r \in Request, RelinkTarget(r)
    PROVE  Writes(r)
<1> DEFINE c == call[r]
           S == {c.e} \cap DOMAIN elements
           t == SetPrev(elements, S, c.n)
<1>1. c.pc = "relink" /\ Write(r, t, root_element, Unrecorded)
    BY DEF RelinkTarget, Reached
<1>2. c \in Call
    BY <1>1, CallFits
<1>3. c.n \in Ref
    BY <1>2 DEF Call
<1>4. IsTable(elements) /\ KeysResolve(elements)
    BY TypeInvPage
<1>5. KeepsData(elements, t) /\ DOMAIN t = DOMAIN elements
    BY <1>3, <1>4, SetPrevKeeps
<1>6. \A x \in DOMAIN elements :
          t[x].parent = elements[x].parent /\ t[x].prev = IF x \in S THEN c.n ELSE elements[x].prev
    BY <1>3, <1>4, SetPrevRows
<1> HIDE DEF t
<1>7. ASSUME c.n \in DOMAIN elements
      PROVE  Accepted(t)
    BY <1>4, <1>5, <1>6, <1>7 DEF Accepted, KeysResolve
<1>8. ASSUME AllSound, Placed(c, elements)
      PROVE  SoundTable(t)
    <2>1. c.e \in DOMAIN elements => elements[c.e].prev = c.n
        BY <1>1, <1>8 DEF Placed
    <2>2. \A x \in DOMAIN elements :
              t[x].parent = elements[x].parent /\ t[x].prev = elements[x].prev
        BY <1>6, <2>1
    <2>3. SoundTable(elements)
        BY <1>8 DEF AllSound
    <2> QED
        BY <1>5, <2>2, <2>3, SameKeysSound
<1>9. Fit(Unrecorded) /\ Unrecorded.pc = "snapshot" /\ Placed(Unrecorded, t)
    BY UnrecordedFits, UnrecordedPlaced
<1>10. Wrote(r, t, root_element, Unrecorded)
    BY <1>1, <1>5, <1>7, <1>8, <1>9 DEF Wrote
<1> QED
    BY <1>10 DEF Writes

\* A write that leaves the rows alone.
LEMMA SameRowsWritten ==
    ASSUME TypeInv, NEW r \in Request, NEW root, NEW c, Write(r, elements, root, c), Fit(c),
           c.pc = "read_deleted", call[r].pc = "clear_root"
    PROVE  Writes(r)
<1>1. KeepsData(elements, elements) /\ Accepted(elements)
    BY TypeInvPage DEF KeepsData, Accepted
<1>2. Placed(c, elements)
    BY UnplacedIsPlaced
<1>3. AllSound => SoundTable(elements)
    BY DEF AllSound
<1>4. Wrote(r, elements, root, c)
    BY <1>1, <1>2, <1>3 DEF Wrote
<1> QED
    BY <1>4 DEF Writes

LEMMA SetRootWrites ==
    ASSUME TypeInv, NEW r \in Request, SetRoot(r), call[r].n \in DOMAIN elements
    PROVE  Writes(r)
<1> DEFINE root == call[r].n
<1>1. call[r].pc = "set_root" /\ Write(r, elements, root, Unrecorded)
    BY DEF SetRoot, Reached
<1>2. KeepsData(elements, elements) /\ Accepted(elements)
    BY TypeInvPage DEF KeepsData, Accepted
<1>3. Fit(Unrecorded) /\ Unrecorded.pc = "snapshot" /\ Placed(Unrecorded, elements)
    BY UnrecordedFits, UnrecordedPlaced
<1>4. AllSound => SoundTable(elements)
    BY DEF AllSound
<1>5. Wrote(r, elements, root, Unrecorded)
    BY <1>1, <1>2, <1>3, <1>4 DEF Wrote
<1> QED
    BY <1>5 DEF Writes

LEMMA ClearRootWrites ==
    ASSUME TypeInv, NEW r \in Request, ClearRoot(r)
    PROVE  Writes(r)
<1> DEFINE c == call[r]
           d == [c EXCEPT !.pc = "read_deleted"]
<1>1. c.pc = "clear_root"
      /\ Write(r, elements, IF c.e = c.root THEN NoElem ELSE root_element, d)
    BY DEF ClearRoot, Reached
<1>2. Fit(c) /\ c \in Call /\ <<c.op, c.pc>> \in Stations
    BY <1>1, CallFits
<1>3. c.op = "delete"
    BY <1>1, <1>2 DEF Stations
<1>4. d \in Call /\ d.op = c.op /\ d.e = c.e /\ d.rows = c.rows /\ d.arg = c.arg
      /\ d.pc = "read_deleted"
    BY <1>2 DEF Call, Pc
<1>5. <<d.op, d.pc>> \in Stations
    BY <1>3, <1>4 DEF Stations
<1>6. call[r].pc = "clear_root"
    BY <1>1
<1> HIDE DEF d, c
<1>7. Fit(d)
    BY <1>2, <1>4, <1>5, MovesOn
<1> QED
    BY <1>1, <1>4, <1>6, <1>7, SameRowsWritten

LEMMA WrapElementWrites ==
    ASSUME TypeInv, NEW r \in Request, WrapElement(r)
    PROVE  Writes(r)
<1> DEFINE c == call[r]
           n == NewId
           root == IF c.e = c.root THEN n ELSE root_element
           t == Wrapped(elements, c.e, c.p, c.q, n, c.arg)
<1>1. c.pc = "wrap" /\ FreshIds # {} /\ Write(r, t, root, Unrecorded)
    BY DEF WrapElement, Reached
<1>2. Fit(c) /\ c \in Call /\ <<c.op, c.pc>> \in Stations
    BY <1>1, CallFits
<1>3. n \in Elem /\ n \notin DOMAIN elements
    BY <1>1, NewIdIsFresh
<1> HIDE DEF n
<1>4. c.op = "wrap"
    BY <1>1, <1>2 DEF Stations
<1>5. c.arg \in Tag /\ c.p \in Ref /\ c.q \in Ref
    BY <1>2, <1>4 DEF Fit, Call
<1>6. IsTable(elements)
    BY TypeInvPage
<1>7. KeepsData(elements, t)
    BY <1>3, <1>5, <1>6, WrappedKeeps
<1>8. ASSUME AllSound, Placed(c, elements)
      PROVE  SoundTable(t)
    <2>1. c.e \in DOMAIN elements /\ elements[c.e].parent = c.p /\ elements[c.e].prev = c.q
        BY <1>1, <1>8 DEF Placed, At
    <2>2. SoundTable(elements)
        BY <1>8 DEF AllSound
    <2>3. SoundTable(Wrapped(elements, c.e, elements[c.e].parent, elements[c.e].prev, n, c.arg))
        BY <1>3, <1>5, <1>6, <2>1, <2>2, WrappedSound
    <2> QED
        BY <2>1, <2>3
<1> HIDE DEF t, root
<1>9. Fit(Unrecorded) /\ Unrecorded.pc = "snapshot" /\ Placed(Unrecorded, t)
    BY UnrecordedFits, UnrecordedPlaced
<1>10. Wrote(r, t, root, Unrecorded)
    BY <1>1, <1>7, <1>8, <1>9 DEF Wrote
<1> QED
    BY <1>10 DEF Writes

LEMMA DeleteElementWrites ==
    ASSUME TypeInv, NEW r \in Request, DeleteElement(r)
    PROVE  Writes(r)
<1> DEFINE c == call[r]
           S == At(elements, c.p, c.e)
           bypassed == SetPrev(elements, S, c.q)
           t == IF c.e \in DOMAIN elements
                THEN DeleteRows(bypassed, Subtree(bypassed, c.e)) ELSE bypassed
<1>0. c.pc = "delete"
    BY DEF DeleteElement, Reached
<1>1. Write(r, t, root_element, Unrecorded)
    BY DEF DeleteElement
<1>2. c \in Call
    BY <1>0, CallFits
<1>3. c.q \in Ref
    BY <1>2 DEF Call
<1>4. IsTable(elements)
    BY TypeInvPage
<1>5. KeepsData(elements, bypassed) /\ DOMAIN bypassed = DOMAIN elements
    BY <1>3, <1>4, SetPrevKeeps
<1>6. IsTable(bypassed)
    BY <1>5 DEF KeepsData
<1>7. ASSUME AllSound, Placed(c, elements)
      PROVE  SoundTable(t)
    <2>1. c.e \in DOMAIN elements /\ elements[c.e].parent = c.p /\ elements[c.e].prev = c.q
        BY <1>0, <1>7 DEF Placed, At
    <2>2. SoundTable(elements)
        BY <1>7 DEF AllSound
    <2>3. Deleted(elements, c.e) = t
        BY <2>1 DEF Deleted
    <2> HIDE DEF t
    <2>4. SoundTable(Deleted(elements, c.e))
        BY <1>4, <2>2, DeletedSound
    <2> QED
        BY <2>3, <2>4
<1> HIDE DEF bypassed
<1>8. KeepsData(elements, t)
    <2> DEFINE D == Subtree(bypassed, c.e)
               w == DeleteRows(bypassed, D)
    <2>1. KeepsData(bypassed, w) /\ DOMAIN w = DOMAIN bypassed \ D
        BY <1>6, DeleteRowsKeeps
    <2>2. t = w \/ t = bypassed
        OBVIOUS
    <2> HIDE DEF D, w, t
    <2>3. KeepsData(elements, w)
        BY <1>5, <2>1, KeepsDataTwice
    <2> QED
        BY <1>5, <2>2, <2>3
<1> HIDE DEF t
<1>9. Fit(Unrecorded) /\ Unrecorded.pc = "snapshot" /\ Placed(Unrecorded, t)
    BY UnrecordedFits, UnrecordedPlaced
<1>10. Wrote(r, t, root_element, Unrecorded)
    BY <1>0, <1>1, <1>7, <1>8, <1>9 DEF Wrote
<1> QED
    BY <1>10 DEF Writes

LEMMA MoveElementWrites ==
    ASSUME TypeInv, NEW r \in Request, MoveElement(r)
    PROVE  Writes(r)
<1> DEFINE c == call[r]
           t == Moved(elements, c.e, c.from[1], c.from[2], c.p, c.q)
<1>1. c.pc = "move" /\ Write(r, t, root_element, Unrecorded)
    BY DEF MoveElement, Reached
<1>2. Fit(c) /\ c \in Call /\ <<c.op, c.pc>> \in Stations
    BY <1>1, CallFits
<1>3. c.op = "move"
    BY <1>1, <1>2 DEF Stations
<1>4. c.e \in Elem /\ c.from[2] \in Ref /\ c.p \in Ref /\ c.q \in Ref
    BY <1>2, <1>3 DEF Fit, Call
<1>5. IsTable(elements)
    BY TypeInvPage
<1>6. KeepsData(elements, t)
    BY <1>4, <1>5, MovedKeeps
<1>7. ASSUME AllSound, Placed(c, elements)
      PROVE  SoundTable(t)
    <2>1. /\ c.e \in DOMAIN elements
          /\ elements[c.e].parent = c.from[1] /\ elements[c.e].prev = c.from[2]
          /\ c.q \in (ChildrenOf(elements, c.p) \ {c.e}) \cup {NoElem}
          /\ WalkAvoids(elements, c.p, c.e)
        BY <1>1, <1>7 DEF Placed, At
    <2>2. SoundTable(elements)
        BY <1>7 DEF AllSound
    <2>3. SoundTable(Moved(elements, c.e, elements[c.e].parent, elements[c.e].prev, c.p, c.q))
        BY <1>4, <1>5, <2>1, <2>2, MovedSound
    <2> QED
        BY <2>1, <2>3
<1> HIDE DEF t
<1>8. Fit(Unrecorded) /\ Unrecorded.pc = "snapshot" /\ Placed(Unrecorded, t)
    BY UnrecordedFits, UnrecordedPlaced
<1>9. Wrote(r, t, root_element, Unrecorded)
    BY <1>1, <1>6, <1>7, <1>8 DEF Wrote
<1> QED
    BY <1>9 DEF Writes

-----------------------------------------------------------------------------
(* Patches, snapshots and steps *)

LEMMA PatchedRow ==
    ASSUME NEW c, Fit(c), c.pc = "patch", NEW row \in Row
    PROVE  /\ Patched(c, row) \in Row
           /\ Patched(c, row).parent = row.parent /\ Patched(c, row).prev = row.prev
<1>1. c.op \in {"set_attr", "clear_attr", "retag", "text"}
    BY DEF Fit, Stations
<1>2. row.data \in SUBSET (Attr \cup Words) /\ c.data \in SUBSET (Attr \cup Words)
    BY ConcurrentEditorAssumption DEF Fit, Call, Row
<1>3. CASE c.op = "retag"
    <2>1. c.arg \in Tag
        BY <1>3 DEF Fit
    <2>2. Patched(c, row) = [row EXCEPT !.tag = c.arg]
        BY <1>3 DEF Patched
    <2> QED
        BY <2>1, <2>2 DEF Row
<1>4. CASE c.op = "text"
    <2> DEFINE data == (row.data \cap Attr) \cup {c.arg}
    <2>1. c.arg \in Words
        BY <1>4 DEF Fit
    <2>2. Patched(c, row) = [row EXCEPT !.data = data]
        BY <1>4 DEF Patched
    <2>3. data \in Data
        BY <2>1, ConcurrentEditorAssumption
    <2> HIDE DEF data
    <2> QED
        BY <2>2, <2>3 DEF Row
<1>5. CASE c.op \in {"set_attr", "clear_attr"}
    <2> DEFINE data == (row.data \cap Words) \cup IF c.op = "set_attr" THEN c.data \cup {c.arg}
                                                                       ELSE c.data \ {c.arg}
    <2>1. c.arg \in Attr
        BY <1>5 DEF Fit
    <2>2. Patched(c, row) = [row EXCEPT !.data = data]
        BY <1>5 DEF Patched
    <2>3. data \in Data
        BY <1>2, <2>1, ConcurrentEditorAssumption
    <2> HIDE DEF data
    <2> QED
        BY <2>2, <2>3 DEF Row
<1> QED
    BY <1>1, <1>3, <1>4, <1>5

LEMMA PatchedPage ==
    ASSUME TypeInv, NEW r \in Request, PatchElement(r), call[r].e \in DOMAIN elements
    PROVE  IsTable(elements') /\ Shape(elements') = Shape(elements)
<1> DEFINE c == call[r]
           row == elements[c.e]
           new == Patched(c, row)
<1>1. c.pc = "patch"
    BY DEF PatchElement, Reached
<1>2. Fit(c)
    BY <1>1, CallFits
<1>3. elements' = [elements EXCEPT ![c.e] = new]
    BY DEF PatchElement
<1>4. IsTable(elements)
    BY TypeInvPage
<1>5. row \in Row
    BY <1>4, RowFields
<1> HIDE DEF c, row
<1>6. new \in Row /\ new.parent = row.parent /\ new.prev = row.prev
    BY <1>1, <1>2, <1>5, PatchedRow
<1> HIDE DEF new
<1>7. DOMAIN elements' = DOMAIN elements /\ IsTable(elements')
    BY <1>3, <1>4, <1>6 DEF IsTable
<1>8. ASSUME NEW x \in DOMAIN elements
      PROVE  <<elements'[x].parent, elements'[x].prev>> = <<elements[x].parent, elements[x].prev>>
    BY <1>3, <1>6, <1>8 DEF row
<1> QED
    BY <1>7, <1>8 DEF Shape

LEMMA KeysByShape ==
    ASSUME NEW t, NEW u, KeysResolve(t), Shape(t) = Shape(u)
    PROVE  KeysResolve(u)
BY SameShape DEF KeysResolve

\* The page and the past stay, and r ends.
LEMMA EndKeepsTypes ==
    ASSUME TypeInv, NEW r \in Request, End(r), UNCHANGED <<page, revisions, cursor, last_seq>>,
           tangled' \in BOOLEAN, owed' \in BOOLEAN, menu' = menu
    PROVE  TypeInv'
<1>1. /\ last_seq' \in Nat /\ last_seq <= last_seq'
      /\ call' = [call EXCEPT ![r] = NoRequest]
    BY DEF TypeInv, PastOK, End
<1>2. CallsOK'
    BY <1>1, GoesOn
<1>3. PageOK' /\ PastOK'
    BY DEF TypeInv, PageOK, PastOK, Resolved, page
<1> QED
    BY <1>2, <1>3 DEF TypeInv

LEMMA WritesKeepTypes ==
    ASSUME TypeInv, NEW r \in Request, Writes(r), UNCHANGED menu
    PROVE  TypeInv'
<1>1. PICK t, root, c : Wrote(r, t, root, c)
    BY DEF Writes
<1>2. CASE Accepted(t)
    <2>1. /\ elements' = t /\ root_element' \in DOMAIN t \cup {NoElem}
          /\ call' = [call EXCEPT ![r] = c]
          /\ tangled' \in BOOLEAN
          /\ UNCHANGED <<revisions, cursor, last_seq, owed>>
        BY <1>1, <1>2 DEF Wrote, Write, TypeInv
    <2>2. IsTable(t) /\ KeysResolve(t)
        BY <1>1, <1>2 DEF Wrote, KeepsData, Accepted
    <2>3. PageOK'
        BY <2>1, <2>2 DEF PageOK, Resolved
    <2>4. PastOK'
        BY <2>1 DEF TypeInv, PastOK, Resolved
    <2>5. Fit(c) /\ c.pc # "step"
        BY <1>1 DEF Wrote
    <2>6. last_seq' \in Nat /\ last_seq <= last_seq'
        BY <2>1 DEF TypeInv, PastOK
    <2>7. CallsOK'
        BY <2>1, <2>5, <2>6, GoesOn
    <2> QED
        BY <2>1, <2>3, <2>4, <2>7 DEF TypeInv
<1>3. CASE ~Accepted(t)
    <2>1. End(r) /\ UNCHANGED <<page, revisions, cursor, last_seq, tangled, owed>>
        BY <1>1, <1>3 DEF Wrote, Write
    <2> QED
        BY <2>1, EndKeepsTypes DEF TypeInv
<1> QED
    BY <1>2, <1>3

LEMMA PatchKeepsTypes ==
    ASSUME TypeInv, NEW r \in Request, PatchElement(r), UNCHANGED menu
    PROVE  TypeInv'
<1> DEFINE c == call[r]
<1>1. CASE c.e \notin DOMAIN elements
    <2>1. Continue(r, NoRequest)
        BY <1>1 DEF PatchElement
    <2> QED
        BY <2>1, QuietKeepsTypes DEF Quiet
<1>2. CASE c.e \in DOMAIN elements
    <2> DEFINE d == IF c.op = "text" THEN NoRequest ELSE Unrecorded
    <2>1. /\ call' = [call EXCEPT ![r] = d]
          /\ UNCHANGED <<root_element, revisions, cursor, last_seq, tangled, owed>>
        BY <1>2 DEF PatchElement
    <2>2. IsTable(elements') /\ Shape(elements') = Shape(elements)
        BY <1>2, PatchedPage
    <2>3. d = NoRequest \/ (Fit(d) /\ d.pc # "step")
        BY UnrecordedFits
    <2> HIDE DEF d
    <2>4. KeysResolve(elements') /\ DOMAIN elements' = DOMAIN elements
        BY <2>2, TypeInvPage, SameShape, KeysByShape
    <2>5. PageOK'
        BY <2>1, <2>2, <2>4 DEF TypeInv, PageOK, Resolved
    <2>6. PastOK'
        BY <2>1 DEF TypeInv, PastOK, Resolved
    <2>7. last_seq' \in Nat /\ last_seq <= last_seq'
        BY <2>1 DEF TypeInv, PastOK
    <2>8. CallsOK'
        BY <2>1, <2>3, <2>7, GoesOn
    <2> QED
        BY <2>1, <2>5, <2>6, <2>8 DEF TypeInv
<1> QED
    BY <1>1, <1>2

\* The rows that a request has read are a table.
LEMMA CallRows ==
    ASSUME NEW c, Fit(c)
    PROVE  Resolved(c.rows)
<1>1. c.rows \in Table /\ KeysResolve(c.rows)
    BY DEF Fit, Call
<1> QED
    BY <1>1, TablesAreTable DEF Resolved

LEMMA SnapshotKeepsTypes ==
    ASSUME TypeInv, NEW r \in Request, SnapshotWrite(r), UNCHANGED menu
    PROVE  TypeInv'
<1> DEFINE c == call[r]
           seqs == {s \in DOMAIN revisions : s <= c.seq} \cup {last_seq'}
<1>1. /\ c.pc = "snapshot_write" /\ last_seq' = last_seq + 1 /\ cursor' = last_seq'
      /\ revisions' = [s \in seqs |-> IF s = last_seq' THEN c.rows ELSE revisions[s]]
      /\ End(r) /\ UNCHANGED <<elements, root_element, tangled>>
      /\ owed' \in BOOLEAN
    BY DEF SnapshotWrite, Reached, page
<1>2. Fit(c)
    BY <1>1, CallFits
<1>3. Resolved(c.rows)
    BY <1>2, CallRows
<1>4. last_seq' \in Nat /\ last_seq <= last_seq' /\ cursor' \in 1..last_seq'
    BY <1>1 DEF TypeInv, PastOK
<1>5. seqs \subseteq 1..last_seq'
    BY <1>1, <1>4 DEF TypeInv, PastOK
<1>6. \A s \in seqs : s # last_seq' => s \in DOMAIN revisions
    OBVIOUS
<1> HIDE DEF c, seqs
<1>7. DOMAIN revisions' = seqs /\ \A s \in seqs : Resolved(revisions'[s])
    BY <1>1, <1>3, <1>6 DEF TypeInv, PastOK
<1>8. PastOK'
    BY <1>4, <1>5, <1>7 DEF PastOK, Resolved
<1>9. PageOK'
    BY <1>1 DEF TypeInv, PageOK, Resolved
<1>10. CallsOK'
    BY <1>1, <1>4, GoesOn DEF End
<1> QED
    BY <1>1, <1>8, <1>9, <1>10 DEF TypeInv

LEMMA StepKeepsTypes ==
    ASSUME TypeInv, NEW r \in Request, StepWrites(r), UNCHANGED menu
    PROVE  TypeInv'
<1> DEFINE c == call[r]
<1>1. c.pc = "step" /\ End(r)
    BY DEF StepWrites, Reached
<1>2. Fit(c) /\ c.seq \in 1..last_seq
    BY <1>1, CallFits
<1>3. Resolved(c.rows)
    BY <1>2, CallRows
<1>4. CASE UNCHANGED <<page, history>>
    BY <1>1, <1>4, EndKeepsTypes DEF history, TypeInv
<1>5. CASE /\ elements' = c.rows /\ root_element' = NoElem /\ cursor' = c.seq
           /\ owed' = (r \in behind) /\ UNCHANGED <<revisions, last_seq, tangled>>
    <2>1. PageOK'
        BY <1>3, <1>5 DEF PageOK, Resolved
    <2>2. PastOK'
        BY <1>2, <1>5 DEF TypeInv, PastOK, Resolved
    <2>3. last_seq' \in Nat /\ last_seq <= last_seq'
        BY <1>5 DEF TypeInv, PastOK
    <2>4. CallsOK'
        BY <1>1, <2>3, GoesOn DEF End
    <2> QED
        BY <1>5, <2>1, <2>2, <2>4 DEF TypeInv
<1> QED
    BY <1>4, <1>5 DEF StepWrites

-----------------------------------------------------------------------------
(* ConcurrentTypeOK *)

\* post_add_element finds its new row gone.
RootIsGone(r) == SetRoot(r) /\ call[r].n \notin DOMAIN elements

LEMMA RootIsGoneEnds ==
    ASSUME NEW r, RootIsGone(r)
    PROVE  Continue(r, NoRequest)
BY DEF RootIsGone, SetRoot

LEMMA ProceedsBy ==
    ASSUME TypeInv, NEW r \in Request, Proceed(r)
    PROVE  \/ Reads(r) \/ RootIsGone(r) \/ Writes(r)
           \/ PatchElement(r) \/ SnapshotWrite(r) \/ StepWrites(r)
<1>1. CASE SetRoot(r)
    <2>1. CASE call[r].n \in DOMAIN elements
        BY <1>1, <2>1, SetRootWrites
    <2>2. CASE call[r].n \notin DOMAIN elements
        BY <1>1, <2>2 DEF RootIsGone
    <2> QED
        BY <2>1, <2>2
<1>2. CASE InsertElement(r)
    BY <1>2, InsertElementWrites
<1>3. CASE RelinkTarget(r)
    BY <1>3, RelinkTargetWrites
<1>4. CASE WrapElement(r)
    BY <1>4, WrapElementWrites
<1>5. CASE ClearRoot(r)
    BY <1>5, ClearRootWrites
<1>6. CASE DeleteElement(r)
    BY <1>6, DeleteElementWrites
<1>7. CASE MoveElement(r)
    BY <1>7, MoveElementWrites
<1>8. CASE Reads(r) \/ PatchElement(r) \/ SnapshotWrite(r) \/ StepWrites(r)
    BY <1>8
<1> QED
    BY <1>1, <1>2, <1>3, <1>4, <1>5, <1>6, <1>7, <1>8 DEF Proceed, Reads

\* A request that begins is one of the menu, and takes the root along.
LEMMA BeginsFirst ==
    ASSUME TypeInv, NEW r \in Request, Begin(r)
    PROVE  \E c, d : /\ First(c) /\ Shown(c) /\ c.rows = d.rows
                     /\ Fit(d) /\ d = [c EXCEPT !.root = root_element]
                     /\ call' = [call EXCEPT ![r] = d]
                     /\ UNCHANGED <<page, history, cuts>>
                     /\ call[r] = NoRequest
<1>1. PICK c \in menu : Shown(c) /\ call' = [call EXCEPT ![r] = [c EXCEPT !.root = root_element]]
    BY DEF Begin
<1> DEFINE d == [c EXCEPT !.root = root_element]
<1>2. First(c)
    BY <1>1, RequestsFit DEF TypeInv
<1>3. c \in Call /\ <<c.op, c.pc>> \in Stations /\ Fit(c) /\ c.pc # "insert"
    BY <1>2 DEF First, Fit
<1>4. root_element \in Ref
    BY DEF TypeInv, PageOK, Resolved, IsTable, Ref
<1>5. d \in Call /\ d.op = c.op /\ d.pc = c.pc /\ d.e = c.e /\ d.rows = c.rows /\ d.arg = c.arg
    BY <1>3, <1>4 DEF Call
<1>6. call' = [call EXCEPT ![r] = d]
    BY <1>1
<1>7. call[r] = NoRequest /\ UNCHANGED <<page, history, cuts>>
    BY DEF Begin
<1>8. d = [c EXCEPT !.root = root_element]
    OBVIOUS
<1> HIDE DEF d
<1>9. Fit(d)
    BY <1>3, <1>5, MovesOn
<1> QED
    BY <1>1, <1>2, <1>5, <1>6, <1>7, <1>8, <1>9

LEMMA BeginKeepsTypes ==
    ASSUME TypeInv, NEW r \in Request, Begin(r), UNCHANGED menu
    PROVE  TypeInv'
<1>1. PICK c, d : /\ First(c) /\ Fit(d) /\ d.pc = c.pc
                  /\ call' = [call EXCEPT ![r] = d]
                  /\ UNCHANGED <<page, history, cuts>>
    <2>1. PICK c, d : /\ First(c) /\ Fit(d) /\ d = [c EXCEPT !.root = root_element]
                      /\ call' = [call EXCEPT ![r] = d]
                      /\ UNCHANGED <<page, history, cuts>>
        BY BeginsFirst
    <2>2. c \in Call
        BY <2>1 DEF First, Fit
    <2>3. d.pc = c.pc
        BY <2>1, <2>2 DEF Call
    <2> QED
        BY <2>1, <2>3
<1>2. Continue(r, d)
    BY <1>1 DEF Continue
<1>3. d.pc # "step"
    BY <1>1 DEF First
<1>4. Quiet(r)
    BY <1>1, <1>2, <1>3, GoesOnQuietly
<1> QED
    BY <1>4, QuietKeepsTypes

LEMMA CutOffKeepsTypes ==
    ASSUME TypeInv, NEW r \in Request, CutOff(r), UNCHANGED menu
    PROVE  TypeInv'
<1>1. /\ End(r) /\ UNCHANGED <<page, revisions, cursor, last_seq>>
      /\ tangled' \in BOOLEAN /\ owed' \in BOOLEAN
    BY DEF CutOff, TypeInv
<1> QED
    BY <1>1, EndKeepsTypes

LEMMA ProceedKeepsTypes ==
    ASSUME TypeInv, NEW r \in Request, Proceed(r), UNCHANGED menu
    PROVE  TypeInv'
<1>1. CASE Reads(r)
    BY <1>1, ReadsAreQuiet, QuietKeepsTypes
<1>2. CASE RootIsGone(r)
    <2>1. Quiet(r)
        BY <1>2, RootIsGoneEnds DEF Quiet
    <2> QED
        BY <2>1, QuietKeepsTypes
<1>3. CASE Writes(r)
    BY <1>3, WritesKeepTypes
<1>4. CASE PatchElement(r)
    BY <1>4, PatchKeepsTypes
<1>5. CASE SnapshotWrite(r)
    BY <1>5, SnapshotKeepsTypes
<1>6. CASE StepWrites(r)
    BY <1>6, StepKeepsTypes
<1> QED
    BY <1>1, <1>2, <1>3, <1>4, <1>5, <1>6, ProceedsBy

LEMMA TypeInvInit == ConcurrentInit => TypeInv
<1> SUFFICES ASSUME ConcurrentInit
             PROVE  TypeInv
    OBVIOUS
<1>1. PICK scene \in Scenes :
          /\ menu = scene.menu /\ revisions = scene.page.revisions /\ cursor = scene.page.cursor
          /\ elements = revisions[cursor] /\ root_element = scene.page.root
          /\ last_seq = scene.page.last
    BY DEF ConcurrentInit
<1>2. /\ menu \subseteq Requests
      /\ last_seq \in Nat /\ DOMAIN revisions \subseteq 1..last_seq /\ cursor \in DOMAIN revisions
      /\ root_element \in DOMAIN elements \cup {NoElem}
      /\ \A s \in DOMAIN revisions : IsTable(revisions[s]) /\ SoundTable(revisions[s])
    BY <1>1, ScenesAssumption
<1>3. PageOK /\ PastOK
    BY <1>1, <1>2 DEF PageOK, PastOK, Resolved, SoundTable
<1>4. CallsOK
    BY DEF CallsOK, ConcurrentInit
<1> QED
    BY <1>2, <1>3, <1>4 DEF TypeInv, ConcurrentInit

LEMMA TypeInvNext == TypeInv /\ [ConcurrentNext]_editorVars => TypeInv'
<1> SUFFICES ASSUME TypeInv, [ConcurrentNext]_editorVars
             PROVE  TypeInv'
    OBVIOUS
<1>1. ASSUME NEW r \in Request, Begin(r) \/ Proceed(r) \/ CutOff(r), UNCHANGED menu
      PROVE  TypeInv'
    BY <1>1, BeginKeepsTypes, ProceedKeepsTypes, CutOffKeepsTypes
<1>2. CASE UNCHANGED editorVars
    BY <1>2 DEF editorVars, TypeInv, PageOK, PastOK, CallsOK, Resolved
<1>3. CASE ConcurrentNext
    BY <1>1, <1>3 DEF ConcurrentNext
<1> QED
    BY <1>2, <1>3

LEMMA AlwaysTypeInv == ConcurrentSpec => []TypeInv
BY TypeInvInit, TypeInvNext, PTL DEF ConcurrentSpec

\* Whatever overlaps, on any page: rows have their columns, foreign keys
\* resolve, and pages.root_element names a row.
THEOREM ConcurrentTypeCorrect == ConcurrentSpec => []ConcurrentTypeOK
<1>1. TypeInv => ConcurrentTypeOK
    BY DEF TypeInv, PageOK, PastOK, Resolved, ConcurrentTypeOK
<1> QED
    BY <1>1, AlwaysTypeInv, PTL

-----------------------------------------------------------------------------
(* What the reads find is so *)

\* A patch has the attributes of its row.
Informed(c) ==
    c.pc = "patch" /\ c.op \in {"set_attr", "clear_attr"} =>
        elements[c.e].data \cap Attr \subseteq c.data

\* r reads, and what it has read then of positions and attributes is so in the
\* rows.
Looks(r) ==
    \E c :
        /\ Continue(r, c) /\ c.pc \notin Carrying
        /\ AllSound /\ Placed(call[r], elements) => Placed(c, elements)
        /\ Informed(c)

\* The same of a request that may have read tables.
Sees(r) ==
    \E c :
        /\ Continue(r, c)
        /\ AllSound /\ Placed(call[r], elements) => Placed(c, elements)
        /\ AllSound /\ c.pc \in Carrying => SoundTable(c.rows)

LEMMA LooksSees ==
    ASSUME NEW r, Looks(r)
    PROVE  Sees(r)
BY DEF Looks, Sees

LEMMA LooksNowhere ==
    ASSUME NEW r, NEW c, Continue(r, c), c.pc \in {"none", "snapshot"}
    PROVE  Looks(r)
BY UnplacedIsPlaced DEF Looks, Informed, Carrying

LEMMA EndLooks ==
    ASSUME NEW r, Continue(r, NoRequest)
    PROVE  Looks(r)
BY LooksNowhere DEF NoRequest

LEMMA LooksPlaces ==
    ASSUME NEW r, NEW c, Continue(r, c), c.pc \notin Carrying \cup {"patch"},
           AllSound /\ Placed(call[r], elements) => Placed(c, elements)
    PROVE  Looks(r)
BY DEF Looks, Informed

LEMMA ReadLastLooks ==
    ASSUME TypeInv, NEW r \in Request, ReadLast(r)
    PROVE  Looks(r)
<1> DEFINE c == call[r]
<1>1. c.pc = "read_last"
    BY DEF ReadLast, Reached
<1>2. c \in Call /\ <<c.op, c.pc>> \in Stations
    BY <1>1, CallFits
<1>3. CASE Continue(r, NoRequest)
    BY <1>3, EndLooks
<1>4. ASSUME NEW q \in IF LastSiblings(elements, c.p) = {} THEN {NoElem}
                       ELSE LastSiblings(elements, c.p),
             Continue(r, [c EXCEPT !.q = q, !.pc = "insert"])
      PROVE  Looks(r)
    <2> DEFINE d == [c EXCEPT !.q = q, !.pc = "insert"]
    <2>1. q \in ChildrenOf(elements, c.p) \cup {NoElem}
        BY DEF LastSiblings
    <2>2. d.op = c.op /\ d.p = c.p /\ d.q = q /\ d.pc = "insert"
        BY <1>2 DEF Call
    <2>3. c.op = "add"
        BY <1>1, <1>2 DEF Stations
    <2>4. Continue(r, d)
        BY <1>4
    <2> HIDE DEF d, c
    <2>5. Placed(d, elements)
        BY <2>1, <2>2, <2>3 DEF Placed
    <2>6. d.pc \notin Carrying \cup {"patch"}
        BY <2>2 DEF Carrying
    <2> QED
        BY <2>4, <2>5, <2>6, LooksPlaces
<1> QED
    BY <1>3, <1>4 DEF ReadLast

LEMMA ReadTargetLooks ==
    ASSUME TypeInv, NEW r \in Request, ReadTarget(r)
    PROVE  Looks(r)
<1> DEFINE c == call[r]
           row == elements[c.e]
           at == [c EXCEPT !.p = row.parent, !.q = row.prev]
<1>1. c.pc = "read_target"
    BY DEF ReadTarget, Reached
<1>2. Fit(c) /\ c \in Call /\ <<c.op, c.pc>> \in Stations
    BY <1>1, CallFits
<1>3. CASE c.e \notin DOMAIN elements
    <2>1. Continue(r, NoRequest)
        BY <1>3 DEF ReadTarget
    <2> QED
        BY <2>1, EndLooks
<1>4. CASE c.e \in DOMAIN elements
    <2>1. c.op \in {"after", "before", "wrap", "duplicate", "move"}
        BY <1>1, <1>2 DEF Stations
    <2>2. c.e \in ChildrenOf(elements, row.parent) /\ c.e \in At(elements, row.parent, row.prev)
        BY <1>4 DEF ChildrenOf, At
    <2>3. AllSound => row.prev \in ChildrenOf(elements, row.parent) \cup {NoElem}
        BY <1>4 DEF AllSound, SoundTable, SiblingsShareParent
    <2> HIDE DEF row
    <2>4. /\ at.op = c.op /\ at.e = c.e /\ at.p = row.parent /\ at.q = row.prev
          /\ DOMAIN at = DOMAIN c /\ at = [x \in DOMAIN c |-> at[x]]
        BY <1>2 DEF Call
    <2>5. {"op", "pc", "e", "p", "q", "arg", "data", "from", "n"} \subseteq DOMAIN c
        BY <1>2 DEF Call
    <2> HIDE DEF at
    <2>6. CASE c.op \in {"after", "duplicate"}
        <3>1. PICK d : Continue(r, d) /\ d.op = c.op /\ d.p = row.parent /\ d.q = c.e
                       /\ d.pc = "insert"
            <4>1. CASE c.op = "after"
                <5> DEFINE d == [at EXCEPT !.q = c.e, !.pc = "insert"]
                <5>1. Continue(r, d)
                    BY <1>4, <4>1 DEF ReadTarget, at, row
                <5>2. d.op = c.op /\ d.p = row.parent /\ d.q = c.e /\ d.pc = "insert"
                    BY <2>4, <2>5
                <5> QED
                    BY <5>1, <5>2
            <4>2. CASE c.op = "duplicate"
                <5> DEFINE d == [at EXCEPT !.q = c.e, !.arg = row.tag, !.data = row.data,
                                           !.pc = "insert"]
                <5>1. Continue(r, d)
                    BY <1>4, <4>2 DEF ReadTarget, at, row
                <5>2. d.op = c.op /\ d.p = row.parent /\ d.q = c.e /\ d.pc = "insert"
                    BY <2>4, <2>5
                <5> QED
                    BY <5>1, <5>2
            <4> QED
                BY <2>6, <4>1, <4>2
        <3>2. Placed(d, elements)
            BY <2>2, <2>6, <3>1 DEF Placed
        <3>3. d.pc \notin Carrying \cup {"patch"}
            BY <3>1 DEF Carrying
        <3> QED
            BY <3>1, <3>2, <3>3, LooksPlaces
    <2>7. CASE c.op = "before"
        <3> DEFINE d == [at EXCEPT !.pc = "insert"]
        <3>1. Continue(r, d)
            BY <1>4, <2>7 DEF ReadTarget, at, row
        <3>2. d.e = c.e /\ d.p = row.parent /\ d.q = row.prev /\ d.pc = "insert"
            BY <2>4, <2>5
        <3> HIDE DEF d, c
        <3>3. AllSound => Placed(d, elements)
            BY <2>2, <2>3, <3>2 DEF Placed
        <3>4. d.pc \notin Carrying \cup {"patch"}
            BY <3>2 DEF Carrying
        <3> QED
            BY <3>1, <3>3, <3>4, LooksPlaces
    <2>8. CASE c.op = "wrap"
        <3> DEFINE d == [at EXCEPT !.pc = "wrap"]
        <3>1. Continue(r, d)
            BY <1>4, <2>8 DEF ReadTarget, at, row
        <3>2. d.e = c.e /\ d.p = row.parent /\ d.q = row.prev /\ d.pc = "wrap"
            BY <2>4, <2>5
        <3> HIDE DEF d, c
        <3>3. Placed(d, elements)
            BY <2>2, <3>2 DEF Placed
        <3>4. d.pc \notin Carrying \cup {"patch"}
            BY <3>2 DEF Carrying
        <3> QED
            BY <3>1, <3>3, <3>4, LooksPlaces
    <2>9. CASE c.op = "move"
        <3> DEFINE d == [c EXCEPT !.from = <<row.parent, row.prev>>, !.n = c.p, !.pc = "walk"]
        <3>1. Continue(r, d)
            BY <1>4, <2>9 DEF ReadTarget, at, row
        <3>2. /\ d.e = c.e /\ d.p = c.p /\ d.q = c.q /\ d.n = c.p /\ d.pc = "walk"
              /\ d.from[1] = row.parent /\ d.from[2] = row.prev
            BY <2>5
        <3>3. Walking(elements, d)
            <4>1. {} \in SUBSET (DOMAIN elements \ {d.e}) /\ d.p \in {} \cup {d.n}
                BY <3>2
            <4> QED
                BY <4>1 DEF Walking
        <3>4. Placed(c, elements) => c.q \in (ChildrenOf(elements, c.p) \ {c.e}) \cup {NoElem}
            BY <1>1, <2>9 DEF Placed
        <3> HIDE DEF d, c
        <3>5. Placed(c, elements) => Placed(d, elements)
            BY <2>2, <3>2, <3>3, <3>4 DEF Placed
        <3>6. d.pc \notin Carrying \cup {"patch"}
            BY <3>2 DEF Carrying
        <3> QED
            BY <3>1, <3>5, <3>6, LooksPlaces DEF c
    <2> QED
        BY <2>1, <2>6, <2>7, <2>8, <2>9
<1> QED
    BY <1>3, <1>4

LEMMA WalkLooks ==
    ASSUME TypeInv, NEW r \in Request, Walk(r)
    PROVE  Looks(r)
<1> DEFINE c == call[r]
<1>1. c.pc = "walk"
    BY DEF Walk, Reached
<1>2. c \in Call
    BY <1>1, CallFits
<1>3. Placed(c, elements) => /\ c.e \in At(elements, c.from[1], c.from[2])
                             /\ c.q \in (ChildrenOf(elements, c.p) \ {c.e}) \cup {NoElem}
                             /\ Walking(elements, c)
    BY <1>1 DEF Placed
<1>4. CASE Continue(r, NoRequest)
    BY <1>4, EndLooks
<1>5. ASSUME c.n = NoElem, Continue(r, [c EXCEPT !.pc = "move"])
      PROVE  Looks(r)
    <2> DEFINE d == [c EXCEPT !.pc = "move"]
    <2>1. d.e = c.e /\ d.p = c.p /\ d.q = c.q /\ d.from = c.from /\ d.pc = "move"
        BY <1>2 DEF Call
    <2>2. Continue(r, d)
        BY <1>5
    <2>3. Walking(elements, c) => WalkAvoids(elements, c.p, c.e)
        BY <1>5 DEF Walking, WalkAvoids
    <2>4. Placed(c, elements) => Placed(d, elements)
        <3> HIDE DEF d, c
        <3> QED
            BY <1>3, <2>1, <2>3 DEF Placed
    <2>5. d.pc \notin Carrying \cup {"patch"}
        BY <2>1 DEF Carrying
    <2> HIDE DEF d
    <2> QED
        BY <2>2, <2>4, <2>5, LooksPlaces
<1>6. ASSUME c.n \in DOMAIN elements \ {c.e},
             Continue(r, [c EXCEPT !.n = elements[c.n].parent])
      PROVE  Looks(r)
    <2> DEFINE p == elements[c.n].parent
               d == [c EXCEPT !.n = p]
    <2>1. d.e = c.e /\ d.p = c.p /\ d.q = c.q /\ d.n = p /\ d.from = c.from /\ d.pc = "walk"
        BY <1>1, <1>2 DEF Call
    <2>2. Continue(r, d)
        BY <1>6
    <2>3. ASSUME Walking(elements, c)
          PROVE  Walking(elements, d)
        <3>1. PICK A \in SUBSET (DOMAIN elements \ {c.e}) :
                  c.p \in A \cup {c.n} /\ \A x \in A : elements[x].parent \in A \cup {c.n, NoElem}
            BY <2>3 DEF Walking
        <3> DEFINE B == A \cup {c.n}
        <3>2. B \in SUBSET (DOMAIN elements \ {c.e})
            BY <1>6
        <3>3. c.p \in B \cup {p} /\ \A x \in B : elements[x].parent \in B \cup {p, NoElem}
            BY <3>1
        <3> HIDE DEF B, d, c, p
        <3> QED
            BY <2>1, <3>2, <3>3 DEF Walking
    <2>4. Placed(c, elements) => Placed(d, elements)
        <3> HIDE DEF d, c
        <3> QED
            BY <1>3, <2>1, <2>3 DEF Placed
    <2>5. d.pc \notin Carrying \cup {"patch"}
        BY <2>1 DEF Carrying
    <2> HIDE DEF d
    <2> QED
        BY <2>2, <2>4, <2>5, LooksPlaces
<1> QED
    BY <1>4, <1>5, <1>6 DEF Walk

LEMMA ReadDeletedLooks ==
    ASSUME TypeInv, NEW r \in Request, ReadDeleted(r)
    PROVE  Looks(r)
<1> DEFINE c == call[r]
<1>1. c.pc = "read_deleted"
    BY DEF ReadDeleted, Reached
<1>2. c \in Call
    BY <1>1, CallFits
<1>3. CASE c.e \notin DOMAIN elements
    <2>1. Continue(r, Unrecorded)
        BY <1>3 DEF ReadDeleted
    <2> QED
        BY <2>1, UnrecordedFits, LooksNowhere
<1>4. CASE c.e \in DOMAIN elements
    <2> DEFINE p == elements[c.e].parent
               q == elements[c.e].prev
               d == [c EXCEPT !.p = p, !.q = q, !.pc = "delete"]
    <2>1. Continue(r, d)
        BY <1>4 DEF ReadDeleted
    <2>2. d.e = c.e /\ d.p = p /\ d.q = q /\ d.pc = "delete"
        BY <1>2 DEF Call
    <2> HIDE DEF d
    <2>3. d.e \in At(elements, d.p, d.q)
        BY <1>4, <2>2 DEF At
    <2>4. Placed(d, elements)
        BY <2>2, <2>3 DEF Placed
    <2>5. d.pc \notin Carrying \cup {"patch"}
        BY <2>2 DEF Carrying
    <2> QED
        BY <2>1, <2>4, <2>5, LooksPlaces
<1> QED
    BY <1>3, <1>4

LEMMA ReadsForPatchLook ==
    ASSUME TypeInv, NEW r \in Request, ReadAttrs(r) \/ ReadTag(r)
    PROVE  Looks(r)
<1> DEFINE c == call[r]
<1>1. c.pc \in {"read_attrs", "read_tag"}
    BY DEF ReadAttrs, ReadTag, Reached
<1>2. c \in Call /\ <<c.op, c.pc>> \in Stations
    BY <1>1, CallFits
<1>3. CASE Continue(r, NoRequest)
    BY <1>3, EndLooks
<1>4. ASSUME NEW d, Continue(r, d), d.pc = "patch", Informed(d)
      PROVE  Looks(r)
    BY <1>4, UnplacedIsPlaced DEF Looks, Carrying
<1>5. ASSUME c.pc = "read_tag", Continue(r, [c EXCEPT !.pc = "patch"])
      PROVE  Looks(r)
    <2> DEFINE d == [c EXCEPT !.pc = "patch"]
    <2>1. d.pc = "patch" /\ d.op = c.op
        BY <1>2 DEF Call
    <2>2. c.op = "text"
        BY <1>2, <1>5 DEF Stations
    <2>3. Continue(r, d)
        BY <1>5
    <2> HIDE DEF d
    <2>4. Informed(d)
        BY <2>1, <2>2 DEF Informed
    <2> QED
        BY <1>4, <2>1, <2>3, <2>4
<1>6. ASSUME Continue(r, [c EXCEPT !.data = elements[c.e].data \cap Attr, !.pc = "patch"])
      PROVE  Looks(r)
    <2> DEFINE d == [c EXCEPT !.data = elements[c.e].data \cap Attr, !.pc = "patch"]
    <2>1. d.pc = "patch" /\ d.e = c.e /\ d.data = elements[c.e].data \cap Attr
        BY <1>2 DEF Call
    <2>2. Continue(r, d)
        BY <1>6
    <2> HIDE DEF d
    <2>3. Informed(d)
        BY <2>1 DEF Informed
    <2> QED
        BY <1>4, <2>1, <2>2, <2>3
<1> QED
    BY <1>3, <1>5, <1>6 DEF ReadAttrs, ReadTag, Reached

LEMMA RowsReadSee ==
    ASSUME TypeInv, NEW r \in Request, SnapshotRows(r) \/ SnapshotCursor(r) \/ StepReads(r)
    PROVE  Sees(r)
<1> DEFINE c == call[r]
<1>1. c.pc \in {"snapshot", "snapshot_cursor", "read_cursor"}
    BY DEF SnapshotRows, SnapshotCursor, StepReads, Reached
<1>2. c \in Call
    BY <1>1, CallFits
<1>3. ASSUME NEW d, Continue(r, d), d.pc \in Carrying, AllSound => SoundTable(d.rows)
      PROVE  Sees(r)
    <2>1. Placed(d, elements)
        BY <1>3, UnplacedIsPlaced DEF Carrying
    <2> QED
        BY <1>3, <2>1 DEF Sees
<1>4. CASE SnapshotRows(r)
    <2> DEFINE d == [c EXCEPT !.rows = elements, !.pc = "snapshot_cursor"]
    <2>1. Continue(r, d)
        BY <1>4 DEF SnapshotRows
    <2>2. d.pc \in Carrying /\ d.rows = elements
        BY <1>2 DEF Call, Carrying
    <2> HIDE DEF d
    <2> QED
        BY <1>3, <2>1, <2>2 DEF AllSound
<1>5. CASE SnapshotCursor(r)
    <2> DEFINE d == [c EXCEPT !.seq = cursor, !.pc = "snapshot_write"]
    <2>1. Continue(r, d) /\ c.pc = "snapshot_cursor"
        BY <1>5 DEF SnapshotCursor, Reached
    <2>2. d.pc \in Carrying /\ d.rows = c.rows /\ c.pc \in Carrying
        BY <1>2, <2>1 DEF Call, Carrying
    <2>3. AllSound => SoundTable(c.rows)
        BY <2>2 DEF AllSound
    <2> HIDE DEF d
    <2> QED
        BY <1>3, <2>1, <2>2, <2>3
<1>6. CASE StepReads(r)
    <2>1. CASE Continue(r, NoRequest)
        BY <2>1, EndLooks, LooksSees
    <2>2. ASSUME NEW s \in Targets(c.op, cursor),
                 Continue(r, [c EXCEPT !.seq = s, !.rows = revisions[s], !.pc = "step"])
          PROVE  Sees(r)
        <3> DEFINE d == [c EXCEPT !.seq = s, !.rows = revisions[s], !.pc = "step"]
        <3>1. Continue(r, d)
            BY <2>2
        <3>2. s \in DOMAIN revisions
            BY DEF Targets
        <3>3. d.pc \in Carrying /\ d.rows = revisions[s]
            BY <1>2 DEF Call, Carrying
        <3> HIDE DEF d
        <3> QED
            BY <1>3, <3>1, <3>2, <3>3 DEF AllSound
    <2> QED
        BY <1>6, <2>1, <2>2 DEF StepReads
<1> QED
    BY <1>4, <1>5, <1>6

\* The reads, but for those of tables.
Positions(r) ==
    ReadLast(r) \/ ReadTarget(r) \/ Walk(r) \/ ReadDeleted(r) \/ ReadAttrs(r) \/ ReadTag(r)

LEMMA PositionsLook ==
    ASSUME TypeInv, NEW r \in Request, Positions(r)
    PROVE  Looks(r)
BY ReadLastLooks, ReadTargetLooks, WalkLooks, ReadDeletedLooks, ReadsForPatchLook DEF Positions

LEMMA ReadsSee ==
    ASSUME TypeInv, NEW r \in Request, Reads(r)
    PROVE  Sees(r)
BY PositionsLook, RowsReadSee, LooksSees DEF Reads, Positions

\* A tree view shows what is there.
LEMMA BeginLooks ==
    ASSUME TypeInv, NEW r \in Request, Begin(r)
    PROVE  Looks(r)
<1>1. PICK c, d : /\ First(c) /\ Shown(c) /\ d = [c EXCEPT !.root = root_element]
                  /\ call' = [call EXCEPT ![r] = d] /\ UNCHANGED <<page, history, cuts>>
    BY BeginsFirst
<1>2. c \in Call /\ <<c.op, c.pc>> \in Stations
    BY <1>1 DEF First, Fit
<1>3. d.op = c.op /\ d.pc = c.pc /\ d.e = c.e /\ d.p = c.p /\ d.q = c.q
    BY <1>1, <1>2 DEF Call
<1>4. Continue(r, d)
    BY <1>1 DEF Continue
<1>5. c.pc \in {"read_last", "read_target", "clear_root", "read_attrs", "read_tag", "patch",
                "read_cursor"}
    BY <1>1 DEF First
<1>6. d.pc = "read_target" /\ d.op = "move" =>
          d.q \in (ChildrenOf(elements, d.p) \ {d.e}) \cup {NoElem}
    BY <1>1, <1>3 DEF Shown
<1>7. Placed(d, elements)
    BY <1>3, <1>5, <1>6 DEF Placed
<1>8. d.pc \notin Carrying /\ (d.pc = "patch" => d.op = "retag")
    BY <1>1, <1>3, <1>5 DEF Carrying, First
<1> QED
    BY <1>4, <1>7, <1>8 DEF Looks, Informed

-----------------------------------------------------------------------------
(* RowsStaySound *)

LEMMA IdleIsPlaced ==
    ASSUME NEW c, NEW t, ~Relies(c)
    PROVE  Placed(c, t)
BY DEF Relies, Reading, Placed

\* r goes on as c, from rows that are sound to rows that are sound.
LEMMA KeepsSound ==
    ASSUME TypeInv, SoundInv, NEW r \in Request, NEW c, call' = [call EXCEPT ![r] = c],
           Watch(r), tangled => tangled',
           AllSound /\ AllPlaced /\ ~tangled' => SoundTable(elements'),
           AllSound /\ AllPlaced /\ ~tangled' =>
               \A s \in DOMAIN revisions' : SoundTable(revisions'[s]),
           AllSound /\ c.pc \in Carrying => SoundTable(c.rows),
           AllSound /\ AllPlaced /\ ~tangled' /\ r \notin behind' /\ Relies(c) =>
               Placed(c, elements')
    PROVE  SoundInv'
<1> SUFFICES ASSUME ~tangled'
             PROVE  AllSound' /\ AllPlaced'
    BY DEF SoundInv
<1>1. AllSound /\ AllPlaced
    BY DEF SoundInv
<1>2. call'[r] = c /\ \A q \in Request \ {r} : call'[q] = call[q]
    BY DEF TypeInv, CallsOK
<1>3. ASSUME NEW q \in Request, call'[q].pc \in Carrying
      PROVE  SoundTable(call'[q].rows)
    <2>1. CASE q = r
        BY <1>1, <1>2, <1>3, <2>1
    <2>2. CASE q # r
        BY <1>1, <1>2, <1>3, <2>2 DEF AllSound
    <2> QED
        BY <2>1, <2>2
<1>4. ASSUME NEW q \in Request, q \notin behind'
      PROVE  Placed(call'[q], elements')
    <2>1. CASE ~Relies(call'[q])
        BY <2>1, IdleIsPlaced
    <2>2. CASE Relies(call'[q]) /\ q = r
        BY <1>1, <1>2, <1>4, <2>2
    <2>3. CASE Relies(call'[q]) /\ q # r
        <3>1. q \notin behind /\ Shape(elements') = Shape(elements)
            BY <1>4, <2>3 DEF Watch
        <3>2. Placed(call[q], elements) /\ call'[q] = call[q]
            BY <1>1, <1>2, <2>3, <3>1 DEF AllPlaced
        <3> QED
            BY <3>1, <3>2, PlacedByShape
    <2> QED
        BY <2>1, <2>2, <2>3
<1>5. AllSound'
    BY <1>1, <1>3 DEF AllSound
<1>6. AllPlaced'
    BY <1>4 DEF AllPlaced
<1> QED
    BY <1>5, <1>6

LEMMA SeesKeepsSound ==
    ASSUME TypeInv, SoundInv, NEW r \in Request, Sees(r), Watch(r)
    PROVE  SoundInv'
<1>1. PICK c :
          /\ Continue(r, c)
          /\ AllSound /\ Placed(call[r], elements) => Placed(c, elements)
          /\ AllSound /\ c.pc \in Carrying => SoundTable(c.rows)
    BY DEF Sees
<1>2. call' = [call EXCEPT ![r] = c] /\ UNCHANGED <<elements, revisions, tangled>>
    BY <1>1 DEF Continue, page, history
<1>3. AllSound => SoundTable(elements') /\ \A s \in DOMAIN revisions' : SoundTable(revisions'[s])
    BY <1>2 DEF AllSound
<1>4. ASSUME AllSound, AllPlaced, r \notin behind', Relies(c)
      PROVE  Placed(c, elements')
    <2>1. call'[r] = c
        BY <1>2 DEF TypeInv, CallsOK
    <2>2. r \notin behind
        BY <1>2, <1>4, <2>1 DEF Watch
    <2> QED
        BY <1>1, <1>2, <1>4, <2>2 DEF AllPlaced
<1> QED
    BY <1>1, <1>2, <1>3, <1>4, KeepsSound

\* r ends, and the rows and their history stay.
LEMMA EndKeepsSound ==
    ASSUME TypeInv, SoundInv, NEW r \in Request, End(r), UNCHANGED <<elements, revisions, tangled>>,
           Watch(r)
    PROVE  SoundInv'
<1>1. call' = [call EXCEPT ![r] = NoRequest]
    BY DEF End
<1>2. NoRequest.pc = "none" /\ ~Relies(NoRequest) /\ NoRequest.pc \notin Carrying
    BY DEF NoRequest, Relies, Reading, Carrying
<1>3. AllSound => SoundTable(elements') /\ \A s \in DOMAIN revisions' : SoundTable(revisions'[s])
    BY DEF AllSound
<1> QED
    BY <1>1, <1>2, <1>3, KeepsSound

LEMMA WritesKeepSound ==
    ASSUME TypeInv, SoundInv, NEW r \in Request, Writes(r), Watch(r)
    PROVE  SoundInv'
<1>1. PICK t, root, c : Wrote(r, t, root, c)
    BY DEF Writes
<1>2. CASE ~Accepted(t)
    <2>1. End(r) /\ UNCHANGED <<elements, revisions, tangled>>
        BY <1>1, <1>2 DEF Wrote, Write, page
    <2> QED
        BY <2>1, EndKeepsSound
<1>3. CASE Accepted(t)
    <2>1. /\ elements' = t /\ call' = [call EXCEPT ![r] = c] /\ UNCHANGED revisions
          /\ tangled' = (tangled \/ (r \in behind /\ Shape(t) # Shape(elements)))
        BY <1>1, <1>3 DEF Wrote, Write
    <2>2. /\ AllSound /\ Placed(call[r], elements) => SoundTable(t) /\ Placed(c, t)
          /\ \/ c.pc = "snapshot"
             \/ c.pc \in {"relink", "set_root"} /\ c.n \in DOMAIN t \ DOMAIN elements
             \/ c.pc = "read_deleted"
        BY <1>1, <1>3 DEF Wrote
    <2>3. tangled => tangled'
        BY <2>1
    <2>4. c.pc \notin Carrying
        BY <2>2 DEF Carrying
    <2>5. ASSUME AllSound, AllPlaced, ~tangled'
          PROVE  /\ SoundTable(elements') /\ (Relies(c) => Placed(c, elements'))
                 /\ \A s \in DOMAIN revisions' : SoundTable(revisions'[s])
        <3>1. CASE r \notin behind
            BY <2>1, <2>2, <2>5, <3>1 DEF AllPlaced, AllSound
        <3>2. CASE r \in behind
            <4>1. Shape(t) = Shape(elements)
                BY <2>1, <2>5, <3>2
            <4>2. SoundTable(t)
                BY <2>5, <4>1, SoundByShape DEF AllSound
            <4>3. DOMAIN t = DOMAIN elements
                BY <4>1, SameShape
            <4>4. ~Relies(c)
                BY <2>2, <4>3 DEF Relies, Reading
            <4> QED
                BY <2>1, <2>5, <4>2, <4>4 DEF AllSound
        <3> QED
            BY <3>1, <3>2
    <2> QED
        BY <2>1, <2>3, <2>4, <2>5, KeepsSound
<1> QED
    BY <1>2, <1>3

LEMMA PatchKeepsSound ==
    ASSUME TypeInv, SoundInv, NEW r \in Request, PatchElement(r), Watch(r)
    PROVE  SoundInv'
<1> DEFINE c == call[r]
           d == IF c.op = "text" THEN NoRequest ELSE Unrecorded
<1>1. CASE c.e \notin DOMAIN elements
    <2>1. Continue(r, NoRequest)
        BY <1>1 DEF PatchElement
    <2> QED
        BY <2>1, EndLooks, LooksSees, SeesKeepsSound
<1>2. CASE c.e \in DOMAIN elements
    <2>1. call' = [call EXCEPT ![r] = d] /\ UNCHANGED <<revisions, tangled>>
        BY <1>2 DEF PatchElement
    <2>2. Shape(elements') = Shape(elements)
        BY <1>2, PatchedPage
    <2>3. d.pc \in {"none", "snapshot"}
        BY UnrecordedFits DEF NoRequest
    <2> HIDE DEF d
    <2>4. ~Relies(d) /\ d.pc \notin Carrying
        BY <2>3 DEF Relies, Reading, Carrying
    <2>5. AllSound => /\ SoundTable(elements')
                      /\ \A s \in DOMAIN revisions' : SoundTable(revisions'[s])
        BY <2>1, <2>2, SoundByShape DEF AllSound
    <2> QED
        BY <2>1, <2>4, <2>5, KeepsSound
<1> QED
    BY <1>1, <1>2

LEMMA SnapshotKeepsSound ==
    ASSUME TypeInv, SoundInv, NEW r \in Request, SnapshotWrite(r), Watch(r)
    PROVE  SoundInv'
<1> DEFINE c == call[r]
           seqs == {s \in DOMAIN revisions : s <= c.seq} \cup {last_seq'}
<1>1. /\ c.pc = "snapshot_write"
      /\ revisions' = [s \in seqs |-> IF s = last_seq' THEN c.rows ELSE revisions[s]]
      /\ call' = [call EXCEPT ![r] = NoRequest] /\ UNCHANGED <<elements, tangled>>
    BY DEF SnapshotWrite, Reached, page, End
<1>2. \A s \in seqs : s # last_seq' => s \in DOMAIN revisions
    OBVIOUS
<1>3. AllSound => SoundTable(c.rows)
    BY <1>1 DEF AllSound, Carrying
<1>4. NoRequest.pc = "none" /\ ~Relies(NoRequest) /\ NoRequest.pc \notin Carrying
    BY DEF NoRequest, Relies, Reading, Carrying
<1> HIDE DEF seqs, c
<1>5. AllSound => \A s \in DOMAIN revisions' : SoundTable(revisions'[s])
    BY <1>1, <1>2, <1>3 DEF AllSound
<1>6. AllSound => SoundTable(elements')
    BY <1>1 DEF AllSound
<1> QED
    BY <1>1, <1>4, <1>5, <1>6, KeepsSound

LEMMA StepKeepsSound ==
    ASSUME TypeInv, SoundInv, NEW r \in Request, StepWrites(r), Watch(r)
    PROVE  SoundInv'
<1>1. /\ call[r].pc = "step" /\ call' = [call EXCEPT ![r] = NoRequest]
      /\ UNCHANGED <<revisions, tangled>>
      /\ elements' = call[r].rows \/ elements' = elements
    BY DEF StepWrites, Reached, page, history, End
<1>2. AllSound => SoundTable(call[r].rows)
    BY <1>1 DEF AllSound, Carrying
<1>3. NoRequest.pc = "none" /\ ~Relies(NoRequest) /\ NoRequest.pc \notin Carrying
    BY DEF NoRequest, Relies, Reading, Carrying
<1>4. AllSound => SoundTable(elements') /\ \A s \in DOMAIN revisions' : SoundTable(revisions'[s])
    BY <1>1, <1>2 DEF AllSound
<1> QED
    BY <1>1, <1>3, <1>4, KeepsSound

LEMMA ProceedKeepsSound ==
    ASSUME TypeInv, SoundInv, NEW r \in Request, Proceed(r), Watch(r)
    PROVE  SoundInv'
<1>1. CASE Reads(r)
    BY <1>1, ReadsSee, SeesKeepsSound
<1>2. CASE RootIsGone(r)
    BY <1>2, RootIsGoneEnds, EndLooks, LooksSees, SeesKeepsSound
<1>3. CASE Writes(r)
    BY <1>3, WritesKeepSound
<1>4. CASE PatchElement(r)
    BY <1>4, PatchKeepsSound
<1>5. CASE SnapshotWrite(r)
    BY <1>5, SnapshotKeepsSound
<1>6. CASE StepWrites(r)
    BY <1>6, StepKeepsSound
<1> QED
    BY <1>1, <1>2, <1>3, <1>4, <1>5, <1>6, ProceedsBy

LEMMA SoundInvInit == ConcurrentInit => SoundInv
<1> SUFFICES ASSUME ConcurrentInit
             PROVE  AllSound /\ AllPlaced
    BY DEF SoundInv
<1>1. \A r \in Request : call[r] = NoRequest
    BY DEF ConcurrentInit
<1>2. NoRequest.pc = "none" /\ ~Relies(NoRequest) /\ NoRequest.pc \notin Carrying
    BY DEF NoRequest, Relies, Reading, Carrying
<1>3. AllPlaced
    BY <1>1, <1>2, IdleIsPlaced DEF AllPlaced
<1>4. PICK scene \in Scenes :
          /\ revisions = scene.page.revisions /\ cursor = scene.page.cursor
          /\ elements = revisions[cursor]
    BY DEF ConcurrentInit
<1>5. cursor \in DOMAIN revisions /\ \A s \in DOMAIN revisions : SoundTable(revisions[s])
    BY <1>4, ScenesAssumption
<1> QED
    BY <1>1, <1>2, <1>3, <1>4, <1>5 DEF AllSound

LEMMA SoundInvNext == TypeInv /\ SoundInv /\ [ConcurrentNext]_editorVars => SoundInv'
<1> SUFFICES ASSUME TypeInv, SoundInv, [ConcurrentNext]_editorVars
             PROVE  SoundInv'
    OBVIOUS
<1>1. ASSUME NEW r \in Request, Begin(r), Watch(r)
      PROVE  SoundInv'
    BY <1>1, BeginLooks, LooksSees, SeesKeepsSound
<1>2. ASSUME NEW r \in Request, CutOff(r), Watch(r)
      PROVE  SoundInv'
    <2>1. End(r) /\ UNCHANGED <<elements, revisions, tangled>>
        BY <1>2 DEF CutOff, page
    <2> QED
        BY <1>2, <2>1, EndKeepsSound
<1>3. CASE UNCHANGED editorVars
    BY <1>3 DEF editorVars, SoundInv, AllSound, AllPlaced
<1>4. CASE ConcurrentNext
    BY <1>1, <1>2, <1>4, ProceedKeepsSound DEF ConcurrentNext
<1> QED
    BY <1>3, <1>4

LEMMA AlwaysSoundInv == ConcurrentSpec => []SoundInv
BY AlwaysTypeInv, SoundInvInit, SoundInvNext, PTL DEF ConcurrentSpec

\* Any number of requests at once, cut off anywhere, leave the rows one forest
\* of complete sibling lists, unless one wrote from a position that another had
\* changed since.
THEOREM OverlapKeepsRowsSound == ConcurrentSpec => []RowsStaySound
<1>1. SoundInv => RowsStaySound
    BY DEF SoundInv, AllSound, RowsStaySound
<1> QED
    BY <1>1, AlwaysSoundInv, PTL

-----------------------------------------------------------------------------
(* PageIsRecorded *)

\* The tables that c has read are those of the page and of its past.
Current(c, t, past) ==
    /\ c.pc \in {"snapshot_cursor", "snapshot_write"} => Shape(c.rows) = Shape(t)
    /\ c.pc = "step" => c.seq \in DOMAIN past /\ past[c.seq] = c.rows

AllCurrent == \A r \in Request : r \notin behind => Current(call[r], elements, revisions)

\* r is going to record the page.
Owes(r) ==
    \/ call[r].pc \in {"snapshot", "snapshot_cursor", "snapshot_write"}
    \/ call[r].pc \in {"relink", "set_root"} /\ call[r].n \in DOMAIN elements

Recorded ==
    \/ owed \/ \E r \in Request : Owes(r)
    \/ cursor \in DOMAIN revisions /\ Shape(elements) = Shape(revisions[cursor])

RecordInv == AllCurrent /\ Recorded

LEMMA KeepsCurrent ==
    ASSUME TypeInv, AllCurrent, NEW r \in Request, NEW c, call' = [call EXCEPT ![r] = c], Watch(r),
           revisions' = revisions \/ cursor' # cursor,
           c.pc \in Carrying /\ r \notin behind' => Current(c, elements', revisions')
    PROVE  AllCurrent'
<1>1. call'[r] = c /\ \A q \in Request \ {r} : call'[q] = call[q]
    BY DEF TypeInv, CallsOK
<1>2. ASSUME NEW q \in Request, q \notin behind'
      PROVE  Current(call'[q], elements', revisions')
    <2>1. CASE call'[q].pc \notin Carrying
        BY <2>1 DEF Current, Carrying
    <2>2. CASE call'[q].pc \in Carrying /\ q = r
        BY <1>1, <1>2, <2>2
    <2>3. CASE call'[q].pc \in Carrying /\ q # r
        <3>1. Relies(call'[q]) /\ call'[q] = call[q]
            BY <1>1, <2>3 DEF Carrying, Relies, Reading
        <3>2. /\ q \notin behind /\ Shape(elements') = Shape(elements)
              /\ call[q].pc = "step" => cursor' = cursor
            BY <1>2, <2>3, <3>1 DEF Watch
        <3>3. Current(call[q], elements, revisions)
            BY <3>2 DEF AllCurrent
        <3> QED
            BY <3>1, <3>2, <3>3 DEF Current
    <2> QED
        BY <2>1, <2>2, <2>3
<1> QED
    BY <1>2 DEF AllCurrent

\* r goes on, and the structure of the page and its past stay.
LEMMA KeepsRecord ==
    ASSUME TypeInv, RecordInv, NEW r \in Request, NEW c, call' = [call EXCEPT ![r] = c], Watch(r),
           UNCHANGED <<revisions, cursor>>, Shape(elements') = Shape(elements), owed => owed',
           c.pc \in Carrying /\ r \notin behind' => Current(c, elements', revisions'),
           Owes(r) => owed' \/ c.pc \in {"snapshot", "snapshot_cursor", "snapshot_write"}
    PROVE  RecordInv'
<1>1. call'[r] = c /\ \A q \in Request \ {r} : call'[q] = call[q]
    BY DEF TypeInv, CallsOK
<1>2. AllCurrent'
    BY KeepsCurrent DEF RecordInv
<1>3. DOMAIN elements' = DOMAIN elements
    BY SameShape
<1>4. ASSUME owed
      PROVE  Recorded'
    BY <1>4 DEF Recorded
<1>5. ASSUME NEW q \in Request, Owes(q)
      PROVE  Recorded'
    <2>1. CASE q = r
        BY <1>1, <1>5, <2>1 DEF Recorded, Owes
    <2>2. CASE q # r
        <3>1. call'[q] = call[q]
            BY <1>1, <2>2
        <3>2. Owes(q)'
            BY <1>3, <1>5, <3>1 DEF Owes
        <3> QED
            BY <3>2 DEF Recorded
    <2> QED
        BY <2>1, <2>2
<1>6. ASSUME cursor \in DOMAIN revisions, Shape(elements) = Shape(revisions[cursor])
      PROVE  Recorded'
    BY <1>6 DEF Recorded
<1>7. Recorded'
    BY <1>4, <1>5, <1>6 DEF RecordInv, Recorded
<1> QED
    BY <1>2, <1>7 DEF RecordInv

\* r goes on as c, which is going to record the page.
LEMMA WillRecord ==
    ASSUME TypeInv, RecordInv, NEW r \in Request, NEW c, call' = [call EXCEPT ![r] = c], Watch(r),
           UNCHANGED <<revisions, cursor>>,
           \/ c.pc = "snapshot"
           \/ c.pc \in {"relink", "set_root"} /\ c.n \in DOMAIN elements'
    PROVE  RecordInv'
<1>1. call'[r] = c
    BY DEF TypeInv, CallsOK
<1>2. c.pc \notin Carrying
    BY DEF Carrying
<1>3. AllCurrent'
    BY <1>2, KeepsCurrent DEF RecordInv
<1>4. Owes(r)'
    BY <1>1 DEF Owes
<1> QED
    BY <1>3, <1>4 DEF RecordInv, Recorded

LEMMA LooksKeepsRecord ==
    ASSUME TypeInv, RecordInv, NEW r \in Request, Looks(r), ~Owes(r), Watch(r)
    PROVE  RecordInv'
<1>1. PICK c : Continue(r, c) /\ c.pc \notin Carrying
    BY DEF Looks
<1>2. /\ call' = [call EXCEPT ![r] = c]
      /\ UNCHANGED <<elements, revisions, cursor>> /\ (owed => owed')
    BY <1>1 DEF Continue, page, history
<1>3. Shape(elements') = Shape(elements)
    BY <1>2
<1> QED
    BY <1>1, <1>2, <1>3, KeepsRecord

LEMMA RowsReadKeepRecord ==
    ASSUME TypeInv, RecordInv, NEW r \in Request,
           SnapshotRows(r) \/ SnapshotCursor(r) \/ StepReads(r), Watch(r)
    PROVE  RecordInv'
<1> DEFINE c == call[r]
<1>1. c.pc \in {"snapshot", "snapshot_cursor", "read_cursor"}
    BY DEF SnapshotRows, SnapshotCursor, StepReads, Reached
<1>2. c \in Call
    BY <1>1, CallFits
<1>3. ASSUME NEW d, Continue(r, d), r \notin behind' => Current(d, elements, revisions),
             Owes(r) => d.pc \in {"snapshot_cursor", "snapshot_write"}
      PROVE  RecordInv'
    <2>1. /\ call' = [call EXCEPT ![r] = d]
          /\ UNCHANGED <<elements, revisions, cursor>> /\ (owed => owed')
        BY <1>3 DEF Continue, page, history
    <2>2. /\ Shape(elements') = Shape(elements)
          /\ r \notin behind' => Current(d, elements', revisions')
        BY <1>3, <2>1
    <2> QED
        BY <1>3, <2>1, <2>2, KeepsRecord
<1>4. CASE SnapshotRows(r)
    <2> DEFINE d == [c EXCEPT !.rows = elements, !.pc = "snapshot_cursor"]
    <2>1. Continue(r, d)
        BY <1>4 DEF SnapshotRows
    <2>2. d.pc = "snapshot_cursor" /\ d.rows = elements
        BY <1>2 DEF Call
    <2> HIDE DEF d
    <2>3. Current(d, elements, revisions)
        BY <2>2 DEF Current
    <2> QED
        BY <1>3, <2>1, <2>2, <2>3
<1>5. CASE SnapshotCursor(r)
    <2> DEFINE d == [c EXCEPT !.seq = cursor, !.pc = "snapshot_write"]
    <2>1. Continue(r, d) /\ c.pc = "snapshot_cursor"
        BY <1>5 DEF SnapshotCursor, Reached
    <2>2. d.pc = "snapshot_write" /\ d.rows = c.rows
        BY <1>2 DEF Call
    <2>3. call'[r] = d /\ elements' = elements
        BY <2>1 DEF Continue, page, TypeInv, CallsOK
    <2> HIDE DEF d
    <2>4. ASSUME r \notin behind'
          PROVE  Current(d, elements, revisions)
        <3>1. r \notin behind
            BY <2>2, <2>3, <2>4 DEF Watch, Relies, Reading
        <3>2. Shape(c.rows) = Shape(elements)
            BY <2>1, <3>1 DEF RecordInv, AllCurrent, Current
        <3> QED
            BY <2>2, <3>2 DEF Current
    <2> QED
        BY <1>3, <2>1, <2>2, <2>4
<1>6. CASE StepReads(r)
    <2>0. ~Owes(r)
        BY <1>6 DEF StepReads, Reached, Owes
    <2>1. CASE Continue(r, NoRequest)
        BY <2>0, <2>1, EndLooks, LooksKeepsRecord
    <2>2. ASSUME NEW s \in Targets(c.op, cursor),
                 Continue(r, [c EXCEPT !.seq = s, !.rows = revisions[s], !.pc = "step"])
          PROVE  RecordInv'
        <3> DEFINE d == [c EXCEPT !.seq = s, !.rows = revisions[s], !.pc = "step"]
        <3>1. Continue(r, d)
            BY <2>2
        <3>2. s \in DOMAIN revisions
            BY DEF Targets
        <3>3. d.pc = "step" /\ d.rows = revisions[s] /\ d.seq = s
            BY <1>2 DEF Call
        <3> HIDE DEF d
        <3>4. Current(d, elements, revisions)
            BY <3>2, <3>3 DEF Current
        <3> QED
            BY <1>3, <2>0, <3>1, <3>4
    <2> QED
        BY <1>6, <2>1, <2>2 DEF StepReads
<1> QED
    BY <1>4, <1>5, <1>6

LEMMA WritesKeepRecord ==
    ASSUME TypeInv, RecordInv, NEW r \in Request, Writes(r), Watch(r)
    PROVE  RecordInv'
<1>1. PICK t, root, c : Wrote(r, t, root, c)
    BY DEF Writes
<1>2. /\ UNCHANGED <<revisions, cursor, owed>>
      /\ \/ c.pc = "snapshot"
         \/ c.pc \in {"relink", "set_root"} /\ c.n \in DOMAIN t \ DOMAIN elements
         \/ c.pc = "read_deleted" /\ t = elements /\ call[r].pc = "clear_root"
      /\ call[r].pc \in {"relink", "set_root"} /\ call[r].n \in DOMAIN elements => Accepted(t)
    BY <1>1 DEF Wrote, Write
<1>3. CASE Accepted(t)
    <2>1. elements' = t /\ call' = [call EXCEPT ![r] = c]
        BY <1>1, <1>3 DEF Wrote, Write
    <2>2. CASE c.pc = "read_deleted"
        <3>1. elements' = elements /\ ~Owes(r) /\ c.pc \notin Carrying
            BY <1>2, <2>1, <2>2 DEF Owes, Carrying
        <3>2. Shape(elements') = Shape(elements)
            BY <3>1
        <3> QED
            BY <1>2, <2>1, <3>1, <3>2, KeepsRecord
    <2>3. CASE c.pc # "read_deleted"
        BY <1>2, <2>1, <2>3, WillRecord
    <2> QED
        BY <2>2, <2>3
<1>4. CASE ~Accepted(t)
    <2>1. call' = [call EXCEPT ![r] = NoRequest] /\ elements' = elements
        BY <1>1, <1>4 DEF Wrote, Write, End, page
    <2>2. Shape(elements') = Shape(elements)
        BY <2>1
    <2>3. call[r].pc \notin {"snapshot", "snapshot_cursor", "snapshot_write"}
        BY <1>1 DEF Wrote
    <2>4. ~Owes(r)
        BY <1>2, <1>4, <2>3 DEF Owes
    <2>5. NoRequest.pc \notin Carrying
        BY DEF NoRequest, Carrying
    <2> QED
        BY <1>2, <2>1, <2>2, <2>4, <2>5, KeepsRecord
<1> QED
    BY <1>3, <1>4

LEMMA PatchKeepsRecord ==
    ASSUME TypeInv, RecordInv, NEW r \in Request, PatchElement(r), Watch(r)
    PROVE  RecordInv'
<1> DEFINE c == call[r]
<1>1. c.pc = "patch" /\ ~Owes(r)
    BY DEF PatchElement, Reached, Owes
<1>2. CASE c.e \notin DOMAIN elements
    <2>1. Continue(r, NoRequest)
        BY <1>2 DEF PatchElement
    <2> QED
        BY <1>1, <2>1, EndLooks, LooksKeepsRecord
<1>3. CASE c.e \in DOMAIN elements
    <2> DEFINE d == IF c.op = "text" THEN NoRequest ELSE Unrecorded
    <2>1. call' = [call EXCEPT ![r] = d] /\ UNCHANGED <<revisions, cursor, owed>>
        BY <1>3 DEF PatchElement
    <2>2. Shape(elements') = Shape(elements)
        BY <1>3, PatchedPage
    <2>3. d.pc \in {"none", "snapshot"}
        BY UnrecordedFits DEF NoRequest
    <2> HIDE DEF d
    <2>4. d.pc \notin Carrying
        BY <2>3 DEF Carrying
    <2> QED
        BY <1>1, <2>1, <2>2, <2>4, KeepsRecord
<1> QED
    BY <1>2, <1>3

LEMMA SnapshotKeepsRecord ==
    ASSUME TypeInv, RecordInv, NEW r \in Request, SnapshotWrite(r), Watch(r)
    PROVE  RecordInv'
<1> DEFINE c == call[r]
           seqs == {s \in DOMAIN revisions : s <= c.seq} \cup {last_seq'}
<1>1. /\ c.pc = "snapshot_write" /\ last_seq' = last_seq + 1 /\ cursor' = last_seq'
      /\ revisions' = [s \in seqs |-> IF s = last_seq' THEN c.rows ELSE revisions[s]]
      /\ call' = [call EXCEPT ![r] = NoRequest] /\ elements' = elements
      /\ owed' = (r \in behind)
    BY DEF SnapshotWrite, Reached, page, End
<1>2. cursor' \in DOMAIN revisions' /\ revisions'[cursor'] = c.rows
    BY <1>1
<1>3. cursor' # cursor
    BY <1>1 DEF TypeInv, PastOK
<1> HIDE DEF seqs
<1>4. NoRequest.pc \notin Carrying
    BY DEF NoRequest, Carrying
<1>5. AllCurrent'
    BY <1>1, <1>3, <1>4, KeepsCurrent DEF RecordInv
<1>6. ASSUME r \in behind
      PROVE  Recorded'
    BY <1>1, <1>6 DEF Recorded
<1>7. ASSUME r \notin behind
      PROVE  Recorded'
    <2>1. Shape(c.rows) = Shape(elements)
        BY <1>1, <1>7 DEF RecordInv, AllCurrent, Current
    <2>2. Shape(elements') = Shape(revisions'[cursor'])
        BY <1>1, <1>2, <2>1
    <2> QED
        BY <1>2, <2>2 DEF Recorded
<1> QED
    BY <1>5, <1>6, <1>7 DEF RecordInv

LEMMA StepKeepsRecord ==
    ASSUME TypeInv, RecordInv, NEW r \in Request, StepWrites(r), Watch(r)
    PROVE  RecordInv'
<1> DEFINE c == call[r]
<1>1. c.pc = "step" /\ call' = [call EXCEPT ![r] = NoRequest] /\ ~Owes(r)
    BY DEF StepWrites, Reached, End, Owes
<1>2. NoRequest.pc \notin Carrying
    BY DEF NoRequest, Carrying
<1>3. CASE UNCHANGED <<page, history>>
    <2>1. UNCHANGED <<elements, revisions, cursor, owed>>
        BY <1>3 DEF page, history
    <2>2. Shape(elements') = Shape(elements)
        BY <2>1
    <2> QED
        BY <1>1, <1>2, <2>1, <2>2, KeepsRecord
<1>4. CASE /\ elements' = c.rows /\ cursor' = c.seq /\ owed' = (r \in behind)
           /\ UNCHANGED revisions
    <2>1. AllCurrent'
        BY <1>1, <1>2, <1>4, KeepsCurrent DEF RecordInv
    <2>2. ASSUME r \in behind
          PROVE  Recorded'
        BY <1>4, <2>2 DEF Recorded
    <2>3. ASSUME r \notin behind
          PROVE  Recorded'
        <3>1. c.seq \in DOMAIN revisions /\ revisions[c.seq] = c.rows
            BY <1>1, <2>3 DEF RecordInv, AllCurrent, Current
        <3>2. cursor' \in DOMAIN revisions' /\ elements' = revisions'[cursor']
            BY <1>4, <3>1
        <3> QED
            BY <3>2 DEF Recorded
    <2> QED
        BY <2>1, <2>2, <2>3 DEF RecordInv
<1> QED
    BY <1>3, <1>4 DEF StepWrites

LEMMA ProceedKeepsRecord ==
    ASSUME TypeInv, RecordInv, NEW r \in Request, Proceed(r), Watch(r)
    PROVE  RecordInv'
<1>1. CASE Positions(r)
    <2>1. ~Owes(r)
        BY <1>1 DEF Positions, ReadLast, ReadTarget, Walk, ReadDeleted, ReadAttrs, ReadTag,
                    Reached, Owes
    <2> QED
        BY <1>1, <2>1, PositionsLook, LooksKeepsRecord
<1>2. CASE SnapshotRows(r) \/ SnapshotCursor(r) \/ StepReads(r)
    BY <1>2, RowsReadKeepRecord
<1>3. CASE RootIsGone(r)
    <2>1. ~Owes(r)
        BY <1>3 DEF RootIsGone, SetRoot, Reached, Owes
    <2> QED
        BY <1>3, <2>1, RootIsGoneEnds, EndLooks, LooksKeepsRecord
<1>4. CASE Writes(r)
    BY <1>4, WritesKeepRecord
<1>5. CASE PatchElement(r)
    BY <1>5, PatchKeepsRecord
<1>6. CASE SnapshotWrite(r)
    BY <1>6, SnapshotKeepsRecord
<1>7. CASE StepWrites(r)
    BY <1>7, StepKeepsRecord
<1>8. Reads(r) => Positions(r) \/ SnapshotRows(r) \/ SnapshotCursor(r) \/ StepReads(r)
    BY DEF Reads, Positions
<1> QED
    BY <1>1, <1>2, <1>3, <1>4, <1>5, <1>6, <1>7, <1>8, ProceedsBy

LEMMA RecordInvInit == ConcurrentInit => RecordInv
<1> SUFFICES ASSUME ConcurrentInit
             PROVE  AllCurrent /\ Recorded
    BY DEF RecordInv
<1>1. \A r \in Request : call[r].pc = "none"
    BY DEF ConcurrentInit, NoRequest
<1>2. AllCurrent
    BY <1>1 DEF AllCurrent, Current
<1>3. PICK scene \in Scenes :
          /\ revisions = scene.page.revisions /\ cursor = scene.page.cursor
          /\ elements = revisions[cursor]
    BY DEF ConcurrentInit
<1>4. cursor \in DOMAIN revisions
    BY <1>3, ScenesAssumption
<1> QED
    BY <1>2, <1>3, <1>4 DEF Recorded

LEMMA RecordInvNext == TypeInv /\ RecordInv /\ [ConcurrentNext]_editorVars => RecordInv'
<1> SUFFICES ASSUME TypeInv, RecordInv, [ConcurrentNext]_editorVars
             PROVE  RecordInv'
    OBVIOUS
<1>1. ASSUME NEW r \in Request, Begin(r), Watch(r)
      PROVE  RecordInv'
    <2>1. ~Owes(r)
        BY <1>1 DEF Begin, NoRequest, Owes
    <2> QED
        BY <1>1, <2>1, BeginLooks, LooksKeepsRecord
<1>2. ASSUME NEW r \in Request, CutOff(r), Watch(r)
      PROVE  RecordInv'
    <2>1. /\ call' = [call EXCEPT ![r] = NoRequest] /\ UNCHANGED <<elements, revisions, cursor>>
          /\ owed' = (owed \/ call[r].pc \in Recording)
        BY <1>2 DEF CutOff, End, page
    <2>2. Shape(elements') = Shape(elements) /\ (owed => owed') /\ (Owes(r) => owed')
        BY <2>1 DEF Owes, Recording
    <2>3. NoRequest.pc \notin Carrying
        BY DEF NoRequest, Carrying
    <2> QED
        BY <1>2, <2>1, <2>2, <2>3, KeepsRecord
<1>3. CASE UNCHANGED editorVars
    BY <1>3 DEF editorVars, RecordInv, AllCurrent, Recorded, Owes
<1>4. CASE ConcurrentNext
    BY <1>1, <1>2, <1>4, ProceedKeepsRecord DEF ConcurrentNext
<1> QED
    BY <1>3, <1>4

\* When no edit is between its rows and its snapshot, the cursor names a
\* revision with the structure of the page, unless the last write of the cursor
\* was overtaken or cut off.
THEOREM OverlapRecordsPage == ConcurrentSpec => []PageIsRecorded
<1>1. ConcurrentSpec => []RecordInv
    BY AlwaysTypeInv, RecordInvInit, RecordInvNext, PTL DEF ConcurrentSpec
<1>2. RecordInv => PageIsRecorded
    BY DEF RecordInv, Recorded, Owes, Recording, PageIsRecorded
<1> QED
    BY <1>1, <1>2, PTL

-----------------------------------------------------------------------------
(* PatchesStay *)

Patching(c, x) == c.pc = "patch" /\ c.op \in {"set_attr", "clear_attr"} /\ c.e = x

\* The row x has the attribute a, and no patch that is about to be written to it
\* goes without.
Stays(x, a) ==
    /\ a \in elements[x].data
    /\ \A r \in Request : Patching(call[r], x) => a \in call[r].data

Safe(x, a) == x \in smeared \/ Stays(x, a)

KeptInv == \A k \in kept : \E x \in DOMAIN elements, a \in Attr : k = <<x, a>> /\ Safe(x, a)

\* Rows and attributes stay, and a patch that r comes to has read them.
LEMMA KeepsKept ==
    ASSUME TypeInv, KeptInv, NEW r \in Request, NEW c, call' = [call EXCEPT ![r] = c],
           UNCHANGED <<elements, kept, smeared>>, Informed(c)
    PROVE  KeptInv'
<1>1. call'[r] = c /\ \A q \in Request \ {r} : call'[q] = call[q]
    BY DEF TypeInv, CallsOK
<1>2. ASSUME NEW x \in DOMAIN elements, NEW a \in Attr, Stays(x, a)
      PROVE  Stays(x, a)'
    <2>1. ASSUME NEW q \in Request, Patching(call'[q], x)
          PROVE  a \in call'[q].data
        <3>1. CASE q = r
            BY <1>1, <1>2, <2>1, <3>1 DEF Stays, Patching, Informed
        <3>2. CASE q # r
            BY <1>1, <1>2, <2>1, <3>2 DEF Stays
        <3> QED
            BY <3>1, <3>2
    <2>2. a \in elements'[x].data
        BY <1>2 DEF Stays
    <2> QED
        BY <2>1, <2>2 DEF Stays
<1>3. \A x \in DOMAIN elements, a \in Attr : Safe(x, a) => Safe(x, a)'
    BY <1>2 DEF Safe
<1> QED
    BY <1>3 DEF KeptInv

LEMMA LooksKeepsKept ==
    ASSUME TypeInv, KeptInv, NEW r \in Request, Looks(r)
    PROVE  KeptInv'
<1>1. PICK c : Continue(r, c) /\ Informed(c)
    BY DEF Looks
<1>2. call' = [call EXCEPT ![r] = c] /\ UNCHANGED <<elements, kept, smeared>>
    BY <1>1 DEF Continue, page, history
<1> QED
    BY <1>1, <1>2, KeepsKept

\* The same where r is not going to patch.
LEMMA GoesOnKeepsKept ==
    ASSUME TypeInv, KeptInv, NEW r \in Request, NEW c, call' = [call EXCEPT ![r] = c],
           UNCHANGED <<elements, kept, smeared>>, c.pc # "patch"
    PROVE  KeptInv'
BY KeepsKept DEF Informed

LEMMA RowsReadKeepKept ==
    ASSUME TypeInv, KeptInv, NEW r \in Request,
           SnapshotRows(r) \/ SnapshotCursor(r) \/ StepReads(r)
    PROVE  KeptInv'
<1> DEFINE c == call[r]
<1>1. c.pc \in {"snapshot", "snapshot_cursor", "read_cursor"}
    BY DEF SnapshotRows, SnapshotCursor, StepReads, Reached
<1>2. c \in Call
    BY <1>1, CallFits
<1>3. ASSUME NEW d, Continue(r, d), d.pc # "patch"
      PROVE  KeptInv'
    <2>1. call' = [call EXCEPT ![r] = d] /\ UNCHANGED <<elements, kept, smeared>>
        BY <1>3 DEF Continue, page, history
    <2> QED
        BY <1>3, <2>1, GoesOnKeepsKept
<1>4. CASE SnapshotRows(r)
    <2>1. Continue(r, [c EXCEPT !.rows = elements, !.pc = "snapshot_cursor"])
        BY <1>4 DEF SnapshotRows
    <2>2. [c EXCEPT !.rows = elements, !.pc = "snapshot_cursor"].pc # "patch"
        BY <1>2 DEF Call
    <2> QED
        BY <1>3, <2>1, <2>2
<1>5. CASE SnapshotCursor(r)
    <2>1. Continue(r, [c EXCEPT !.seq = cursor, !.pc = "snapshot_write"])
        BY <1>5 DEF SnapshotCursor
    <2>2. [c EXCEPT !.seq = cursor, !.pc = "snapshot_write"].pc # "patch"
        BY <1>2 DEF Call
    <2> QED
        BY <1>3, <2>1, <2>2
<1>6. CASE StepReads(r)
    <2>1. ASSUME NEW s, Continue(r, [c EXCEPT !.seq = s, !.rows = revisions[s], !.pc = "step"])
          PROVE  KeptInv'
        <3>1. [c EXCEPT !.seq = s, !.rows = revisions[s], !.pc = "step"].pc # "patch"
            BY <1>2 DEF Call
        <3> QED
            BY <1>3, <2>1, <3>1
    <2>2. CASE Continue(r, NoRequest)
        BY <2>2, EndLooks, LooksKeepsKept
    <2> QED
        BY <1>6, <2>1, <2>2 DEF StepReads
<1> QED
    BY <1>4, <1>5, <1>6

LEMMA WritesKeepKept ==
    ASSUME TypeInv, KeptInv, NEW r \in Request, Writes(r)
    PROVE  KeptInv'
<1>1. PICK t, root, c : Wrote(r, t, root, c)
    BY DEF Writes
<1>2. c.pc # "patch"
    BY <1>1 DEF Wrote
<1>3. CASE ~Accepted(t)
    <2>1. call' = [call EXCEPT ![r] = NoRequest] /\ UNCHANGED <<elements, kept, smeared>>
        BY <1>1, <1>3 DEF Wrote, Write, End, page
    <2>2. NoRequest.pc # "patch"
        BY DEF NoRequest
    <2> QED
        BY <2>1, <2>2, GoesOnKeepsKept
<1>4. CASE Accepted(t)
    <2>1. /\ elements' = t /\ call' = [call EXCEPT ![r] = c] /\ smeared' = smeared
          /\ kept' = {k \in kept : k[1] \in DOMAIN t}
        BY <1>1, <1>4 DEF Wrote, Write
    <2>2. \A x \in DOMAIN elements \cap DOMAIN t : t[x].data = elements[x].data
        BY <1>1 DEF Wrote, KeepsData
    <2>3. call'[r] = c /\ \A q \in Request \ {r} : call'[q] = call[q]
        BY <2>1 DEF TypeInv, CallsOK
    <2>4. ASSUME NEW x \in DOMAIN elements \cap DOMAIN t, NEW a \in Attr, Stays(x, a)
          PROVE  Stays(x, a)'
        <3>1. a \in elements'[x].data
            BY <2>1, <2>2, <2>4 DEF Stays
        <3>2. \A q \in Request : Patching(call'[q], x) => a \in call'[q].data
            BY <1>2, <2>3, <2>4 DEF Stays, Patching
        <3> QED
            BY <3>1, <3>2 DEF Stays
    <2>5. \A x \in DOMAIN elements \cap DOMAIN t, a \in Attr : Safe(x, a) => Safe(x, a)'
        BY <2>1, <2>4 DEF Safe
    <2>6. ASSUME NEW k \in kept'
          PROVE  \E x \in DOMAIN elements', a \in Attr : k = <<x, a>> /\ Safe(x, a)'
        <3>1. k \in kept /\ k[1] \in DOMAIN t
            BY <2>1
        <3>2. PICK x \in DOMAIN elements, a \in Attr : k = <<x, a>> /\ Safe(x, a)
            BY <3>1 DEF KeptInv
        <3>3. x \in DOMAIN t
            BY <3>1, <3>2
        <3> QED
            BY <2>1, <2>5, <3>2, <3>3
    <2> QED
        BY <2>6 DEF KeptInv
<1> QED
    BY <1>3, <1>4

\* What a patch leaves of the attributes of its row.
LEMMA PatchedData ==
    ASSUME NEW c, Fit(c), c.pc = "patch", NEW row \in Row, NEW a \in Attr,
           a \in row.data, c.op \in {"set_attr", "clear_attr"} => a \in c.data,
           c.op = "clear_attr" => a # c.arg
    PROVE  a \in Patched(c, row).data
<1>1. CASE c.op = "retag"
    BY <1>1 DEF Patched, Row
<1>2. CASE c.op = "text"
    BY <1>2 DEF Patched, Row
<1>3. CASE c.op = "set_attr"
    BY <1>3 DEF Patched, Row
<1>4. CASE c.op = "clear_attr"
    BY <1>4 DEF Patched, Row
<1> QED
    BY <1>1, <1>2, <1>3, <1>4 DEF Fit, Stations

LEMMA PatchKeepsKept ==
    ASSUME TypeInv, KeptInv, NEW r \in Request, PatchElement(r)
    PROVE  KeptInv'
<1> DEFINE c == call[r]
           new == Patched(c, elements[c.e])
           d == IF c.op = "text" THEN NoRequest ELSE Unrecorded
           both == c.op \in {"set_attr", "clear_attr"}
                   /\ \E q \in Request \ {r} : Reached(q, "patch") /\ call[q].e = c.e
                          /\ call[q].op \in {"set_attr", "clear_attr"}
<1>1. c.pc = "patch"
    BY DEF PatchElement, Reached
<1>2. Fit(c)
    BY <1>1, CallFits
<1>3. CASE c.e \notin DOMAIN elements
    <2>1. Continue(r, NoRequest)
        BY <1>3 DEF PatchElement
    <2> QED
        BY <2>1, EndLooks, LooksKeepsKept
<1>4. CASE c.e \in DOMAIN elements
    <2>0. PICK e, g : e = c.e /\ g = c.arg
        OBVIOUS
    <2>1. /\ elements' = [elements EXCEPT ![c.e] = new]
          /\ call' = [call EXCEPT ![r] = d]
          /\ kept' = IF c.op = "set_attr" THEN kept \cup {<<c.e, c.arg>>}
                                          ELSE kept \ {<<c.e, c.arg>>}
          /\ smeared' = IF both THEN smeared \cup {c.e} ELSE smeared
        BY <1>4 DEF PatchElement
    <2>2. call'[r] = d /\ \A q \in Request \ {r} : call'[q] = call[q]
        BY <2>1 DEF TypeInv, CallsOK
    <2>3. d.pc # "patch"
        BY UnrecordedFits DEF NoRequest
    <2>4. elements[c.e] \in Row
        BY <1>4, TypeInvPage, RowFields
    <2>5. c.op \in {"set_attr", "clear_attr"} => c.arg \in Attr
        BY <1>2 DEF Fit
    <2>6. c.op \in {"set_attr", "clear_attr", "retag", "text"}
        BY <1>1, <1>2 DEF Fit, Stations
    <2>7. c.op = "set_attr" => c.arg \in new.data
        BY <2>4, <2>6 DEF Patched, Row
    <2>8. ASSUME NEW a \in Attr, a \in elements[c.e].data,
                 c.op \in {"set_attr", "clear_attr"} => a \in c.data,
                 c.op = "clear_attr" => a # c.arg
          PROVE  a \in new.data
        <3> HIDE DEF c
        <3> QED
            BY <1>1, <1>2, <2>4, <2>8, PatchedData
    <2> HIDE DEF new, d
    <2>9. DOMAIN elements' = DOMAIN elements
        BY <2>1
    <2>10. ASSUME NEW x \in DOMAIN elements \ {e}, NEW a \in Attr, Safe(x, a)
           PROVE  Safe(x, a)'
        <3>1. elements'[x] = elements[x] /\ smeared \subseteq smeared'
            BY <2>0, <2>1
        <3>2. Stays(x, a) => Stays(x, a)'
            BY <2>0, <2>2, <2>3, <3>1 DEF Stays, Patching
        <3> QED
            BY <2>0, <2>10, <3>1, <3>2 DEF Safe
    <2>11. elements'[e] = new
        BY <2>0, <1>4, <2>1
    <2>12. ASSUME NEW a \in Attr, Safe(e, a), c.op = "clear_attr" => a # g
           PROVE  Safe(e, a)'
        <3>1. CASE e \in smeared'
            BY <2>0, <3>1 DEF Safe
        <3>2. CASE e \notin smeared'
            <4>1. e \notin smeared
                BY <2>0, <2>1, <3>2
            <4>2. Stays(e, a)
                BY <2>0, <2>12, <4>1 DEF Safe
            <4>3. a \in elements[e].data /\ (c.op \in {"set_attr", "clear_attr"} => a \in c.data)
                BY <2>0, <1>1, <4>2 DEF Stays, Patching
            <4>4. a \in elements'[e].data
                BY <2>0, <2>8, <2>11, <2>12, <4>3
            <4>5. \A q \in Request : Patching(call'[q], e) => a \in call'[q].data
                BY <2>0, <2>2, <2>3, <4>2 DEF Stays, Patching
            <4>6. Stays(e, a)'
                BY <2>0, <4>4, <4>5 DEF Stays
            <4> QED
                BY <2>0, <4>6 DEF Safe
        <3> QED
            BY <2>0, <3>1, <3>2
    <2>13. ASSUME c.op = "set_attr"
           PROVE  Safe(e, g)'
        <3>1. CASE both
            BY <2>0, <2>1, <3>1 DEF Safe
        <3>2. CASE ~both
            <4>1. \A q \in Request : ~Patching(call'[q], e)
                BY <2>0, <2>2, <2>3, <2>13, <3>2 DEF Patching, Reached
            <4>2. Stays(e, g)'
                BY <2>0, <2>7, <2>11, <2>13, <4>1 DEF Stays
            <4> QED
                BY <2>0, <4>2 DEF Safe
        <3> QED
            BY <2>0, <3>1, <3>2
    <2>14. ASSUME NEW k \in kept'
           PROVE  \E x \in DOMAIN elements', a \in Attr : k = <<x, a>> /\ Safe(x, a)'
        <3>1. CASE c.op = "set_attr" /\ k = <<e, g>>
            BY <2>0, <1>4, <2>5, <2>9, <2>13, <3>1
        <3>2. CASE ~(c.op = "set_attr" /\ k = <<e, g>>)
            <4>1. k \in kept /\ (c.op = "clear_attr" => k # <<e, g>>)
                BY <2>0, <2>1, <2>14, <3>2
            <4>2. PICK x \in DOMAIN elements, a \in Attr : k = <<x, a>> /\ Safe(x, a)
                BY <2>0, <4>1 DEF KeptInv
            <4>3. Safe(x, a)'
                BY <2>0, <2>10, <2>12, <4>1, <4>2
            <4> QED
                BY <2>0, <2>9, <4>2, <4>3
        <3> QED
            BY <2>0, <3>1, <3>2
    <2> QED
        BY <2>0, <2>14 DEF KeptInv
<1> QED
    BY <1>3, <1>4

LEMMA StepKeepsKept ==
    ASSUME TypeInv, KeptInv, NEW r \in Request, StepWrites(r)
    PROVE  KeptInv'
<1>1. call' = [call EXCEPT ![r] = NoRequest] /\ NoRequest.pc # "patch"
    BY DEF StepWrites, End, NoRequest
<1>2. CASE UNCHANGED <<page, history>>
    <2>1. UNCHANGED <<elements, kept, smeared>>
        BY <1>2 DEF page, history
    <2> QED
        BY <1>1, <2>1, GoesOnKeepsKept
<1>3. CASE kept' = {}
    BY <1>3 DEF KeptInv
<1> QED
    BY <1>2, <1>3 DEF StepWrites

LEMMA ProceedKeepsKept ==
    ASSUME TypeInv, KeptInv, NEW r \in Request, Proceed(r)
    PROVE  KeptInv'
<1>1. CASE Positions(r)
    BY <1>1, PositionsLook, LooksKeepsKept
<1>2. CASE SnapshotRows(r) \/ SnapshotCursor(r) \/ StepReads(r)
    BY <1>2, RowsReadKeepKept
<1>3. CASE RootIsGone(r)
    BY <1>3, RootIsGoneEnds, EndLooks, LooksKeepsKept
<1>4. CASE Writes(r)
    BY <1>4, WritesKeepKept
<1>5. CASE PatchElement(r)
    BY <1>5, PatchKeepsKept
<1>6. CASE SnapshotWrite(r)
    <2>1. /\ call' = [call EXCEPT ![r] = NoRequest] /\ NoRequest.pc # "patch"
          /\ UNCHANGED <<elements, kept, smeared>>
        BY <1>6 DEF SnapshotWrite, End, page, NoRequest
    <2> QED
        BY <2>1, GoesOnKeepsKept
<1>7. CASE StepWrites(r)
    BY <1>7, StepKeepsKept
<1>8. Reads(r) => Positions(r) \/ SnapshotRows(r) \/ SnapshotCursor(r) \/ StepReads(r)
    BY DEF Reads, Positions
<1> QED
    BY <1>1, <1>2, <1>3, <1>4, <1>5, <1>6, <1>7, <1>8, ProceedsBy

LEMMA KeptInvNext == TypeInv /\ KeptInv /\ [ConcurrentNext]_editorVars => KeptInv'
<1> SUFFICES ASSUME TypeInv, KeptInv, [ConcurrentNext]_editorVars
             PROVE  KeptInv'
    OBVIOUS
<1>1. ASSUME NEW r \in Request, Begin(r)
      PROVE  KeptInv'
    BY <1>1, BeginLooks, LooksKeepsKept
<1>2. ASSUME NEW r \in Request, CutOff(r)
      PROVE  KeptInv'
    <2>1. /\ call' = [call EXCEPT ![r] = NoRequest] /\ NoRequest.pc # "patch"
          /\ UNCHANGED <<elements, kept, smeared>>
        BY <1>2 DEF CutOff, End, page, NoRequest
    <2> QED
        BY <2>1, GoesOnKeepsKept
<1>3. CASE UNCHANGED editorVars
    BY <1>3 DEF editorVars, KeptInv, Safe, Stays
<1>4. CASE ConcurrentNext
    BY <1>1, <1>2, <1>4, ProceedKeepsKept DEF ConcurrentNext
<1> QED
    BY <1>3, <1>4

\* An attribute that was set stays in its row until it is cleared, the row goes
\* or the page is stepped, unless two patches of the row overlapped.
THEOREM OverlapKeepsPatches == ConcurrentSpec => []PatchesStay
<1>1. ConcurrentInit => KeptInv
    BY DEF ConcurrentInit, KeptInv
<1>2. ConcurrentSpec => []KeptInv
    BY <1>1, AlwaysTypeInv, KeptInvNext, PTL DEF ConcurrentSpec
<1>3. KeptInv => PatchesStay
    <2> SUFFICES ASSUME KeptInv, NEW k \in kept
                 PROVE  k[2] \in elements[k[1]].data \/ k[1] \in smeared
        BY DEF PatchesStay
    <2>1. PICK x \in DOMAIN elements, a \in Attr : k = <<x, a>> /\ Safe(x, a)
        BY DEF KeptInv
    <2>2. x \in smeared \/ a \in elements[x].data
        BY <2>1 DEF Safe, Stays
    <2> QED
        BY <2>1, <2>2
<1> QED
    BY <1>2, <1>3, PTL

=============================================================================
