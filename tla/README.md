# A TLA+ development of lovely-rs

lovely-rs is a site builder: an axum server that keeps apps, pages and the
element trees of pages in Postgres, and the data of each app in a SQLite file of
its own that mirrors collections kept in Postgres. This directory holds TLA+
modules translated from its source, TLC configurations that check them on small
instances, and proofs that TLAPS checks for every instance.

`PROJECT.json` relates the two worlds: for every definition the source lines it
stands for (`map`), for every property a slip of the code that would break it
(`mutants`), the runs, the findings, the hazards of the code and the theorems.

To repeat everything, in this directory:

    tlc -config MCPageEditorStructure.cfg MCPageEditor     # and the other cfgs
    tlapm PageEditor_proofs.tla                             # and the other *_proofs


## 1. Inventory

| Component | Source (`src/crates/...`) | State | Operations | Models |
|---|---|---|---|---|
| Element table | `lovely-db/src/elements.rs`, migration 5 | rows of a page with `parent_id` (CASCADE) and `prev_sibling` (SET NULL) | insert, delete, wrap, move, update | `ElementTable` |
| Builder handlers | `lovely-web/src/handlers/{elements,builder}.rs` | none of their own: read, check, write, snapshot | add, add before/after, wrap, duplicate, delete, move, patch, text, undo, redo | `PageEditor`, `ConcurrentEditor` |
| Revisions | `lovely-db/src/revisions.rs`, migration 8 | `element_revisions`, `pages.revision_cursor` | `snapshot_page`, `step` | `PageEditor`, `ConcurrentEditor` |
| Schema service | `lovely-db/src/schema_service.rs`, migration 11 | `app_schema_migrations` in Postgres, version pointer in SQLite, one mutex per app and process | `record`, `ensure_migrated` | `SchemaLog` |
| SQLite store | `lovely-db/src/sqlite_store.rs` | files, a `DashMap` of pools | `get_pool`, `close_pool`, `delete_app` | `AppStore`; opening a file also in `SchemaLog` |
| Collections and mirror | `lovely-db/src/{collections,intent}.rs`, `handlers/data.rs` | field lists and records in Postgres, tables in SQLite | create, rename, delete collections and fields, records, console | `DataMirror`; the console as a caller of `AppStore` |
| Arena tree | `lovely-tree/src/arena.rs`, `iter.rs` | linked nodes in a slot map | append, insert, move, remove | `ArenaTree` |
| Tree building | `lovely-tree/src/build.rs` | none | `from_db_rows`, `order_siblings` | `RenderPage` |
| Passes over a page | `handlers/pages.rs` | the loaded rows | repeaters, bindings, references, forms | `RenderPage` |
| Rendering, views, attributes | `lovely-tree/src/{render,attrs}.rs`, `views/` | none | `render_iter`; else pure text | order and nesting in `RenderPage` |
| Apps and pages | `lovely-db/src/{apps,pages}.rs`, `handlers/{apps,pages}.rs` | apps, pages, slugs, visibility, home page, unlock cookies | create, rename, publish, hide, lock, delete, show | `Workspace` |
| Accounts and sessions | `lovely-db/src/{users,sessions}.rs`, `handlers/{auth_username,profile}.rs` | users, sessions | register, log in, log out, publish a profile | `Workspace` |
| OAuth identities | `lovely-db/src/oauth.rs` | identities | find, link | not modelled |
| CSRF, request ids, wiring | `auth/csrf.rs`, `router.rs`, `lovely-server` | none shared | one comparison; start-up | not modelled |

How they interact. Every request is an axum handler on a multi-threaded tokio
runtime. Handlers share nothing in memory but the Postgres pool, the map of
SQLite pools and the map of per-app mutexes; they meet in the database, mostly
with statements that commit on their own. A structural edit is *read the
position, check it, run a transaction, take a snapshot* in three or four
separate commits. A page is shown by loading its rows, running four passes over
them that each read records anew, building an arena tree and rendering it. A
schema change is *write Postgres, record an intent*, and the intent reaches
SQLite later, when someone calls `get_pool`, which replays the log under the
app's mutex while it holds a guard of the pool map. Mirror writes to SQLite are
best effort: their errors are logged and swallowed.

What is hard:

* *Sibling chains.* Order is a linked list in `prev_sibling`, repaired by
  `UPDATE`s whose `WHERE` clauses can match the row that is being moved, and by
  foreign keys that null or cascade on their own.
* *Undo.* Snapshots are ordered by `created_at` and replayed row by row under
  immediate foreign keys; the cursor and the redo branch must survive every mix
  of edits and steps.
* *Awaits.* Everything read before an await may be stale after it; there are
  few locks. Futures are dropped when a client hangs up.
* *Two databases.* SQLite follows Postgres through a log, across processes,
  crashes, BUSY errors and the loss of the file.
* *Links by hand.* The arena keeps four links per node and an index, changed by
  eight operations, some of which refuse half-way.
* *Rows as they are.* What is rendered may be rows that overlapping edits left
  behind: chains that fork or dangle, circles of parents.

What makes each part correct:

* *Page editor*: the rows of a page are one forest whose sibling lists are
  complete; each button does to it what it says; undo and redo walk the history
  the user has seen; the cursor names what is on the page; a step can be
  replayed. When requests overlap: what of this survives, and what puts the rest
  right.
* *Schema service*: the pointer says exactly what has run in the file; nothing
  runs twice, out of order or after a gap; a pool that is handed out is
  current; a recorded change is eventually applied.
* *SQLite store*: no file and no pool outlive their app; no deadlock between the
  map's guards and the worker threads.
* *Mirror*: the tables that the log builds are those the field lists describe.
* *Arena, building, passes, rendering*: links agree in both directions, nothing
  leaves the tree; every row is shown once, in its place and in order, whatever
  the chains are; what one page shows of a collection agrees with itself.
* *Apps and accounts*: a user always has an app and an app a home page; nobody's
  page is in another's app; a visitor is told what was so at some moment of the
  visit; every request ends.

`PROJECT.json` lists the hazards line by line, with the properties that watch
them.


## 2. Modules

### The page editor, one request at a time

* **ElementTable** is the `elements` table of one page: a function from ids to
  rows, and one operator per statement or transaction of the source (`Inserted`
  for `insert_element`, `Deleted`, `Wrapped`, `Moved`), with the two foreign keys
  (`Subtree`, `DeleteRows`). The transactions take the position that was read as
  a parameter, as the code does. `SoundTable` says what a page is. Attributes
  and payload, which no structural rule reads, are one field `data`; tags are
  kept as far as `#text` and leaf tags are treated differently.
* **PageEditor** extends it with the other columns the handlers write
  (`created_at`, `root_element`, `revision_cursor`, `element_revisions`) and has
  one action per handler. The tree view sends a parent and the sibling left of
  the drop (`static/tree.js`), which is what `MoveElement` takes. `SnapshotPage`
  runs at the end of every handler that runs it, and chooses any order of rows
  with equal `created_at`; `Undo` and `Redo` either replay a revision or fail on
  a foreign key and roll back.
* **EditHistory** is the abstract editor: ordered forests, one relation that says
  what an edit may do, and a linear history. **PageHistory** maps tables to
  forests (`Ordered` spells a sibling chain out) and revisions to history;
  **MCPageEditor** is its instance.
* **ElementTable_proofs**, **PageEditor_proofs**: see section 4.

### The page editor, requests that overlap

* **ConcurrentEditor** extends the same ElementTable. A handler is a record in
  `call` that goes from await to await: each read is a step, the writes of a
  transaction are one step, a snapshot is three, and a request may be cut off at
  any await (`CutOff`) or come from a tree view that is out of date. `Write`
  is every write: Postgres accepts rows whose foreign keys resolve and refuses
  others. The replay of a step is `StepWrites`; it may fail, for the reasons that
  PageEditor gives.
* A transaction is READ COMMITTED, so writes of two of them may mingle, where the
  model writes at once. When they do, each commits after the other's first read,
  and that is what the history variable `behind` records: the requests that are
  about to write from something that has changed since they read it. When such a
  request does write, the page is `tangled`, and the structural property says no
  more. `owed`, `kept` and `smeared` are histories of the same kind for
  snapshots and attributes; no action reads any of them.
* **MCConcurrentEditor** has four scenes: structure, moves, history, attributes.
  Requests name rows of their own page. Slots for requests are taken in order.
  **ConcurrentEditor_proofs**: see section 4.

### The arena and the way to the markup

* **ArenaTree** is `lovely_tree::Tree`: a function from live keys to nodes with
  their links, the index, and an action for every call that changes it, the calls
  that return `Err` after they have begun included (`move_to` detaches before it
  looks for the sibling). Keys are numbers in the order they are handed out,
  because a slot-map key carries a generation. `strayed` remembers that a caller
  has passed `Before` or `After` a node that is not a child of `new_parent`.
* **OrderedTree** is what the tree promises: lists of children, and three ways to
  change them. **ArenaOrder** reads those lists off the links of the arena and
  says that every call is one of the three ways or changes none.
* **RenderPage** extends ArenaTree with `render_public`: `expand_repeaters`,
  `resolve_bindings`, `interpolate_collection_refs` and `auto_wire_forms`, one
  database read a step, while records come and go; then `from_db_rows`, one
  append a step, with `order_siblings` and its salvage; then `render_iter`. Rows
  have the attributes that a pass reads, and texts say which pass filled them
  from which record. In the phase "library" the tree belongs to a caller who
  makes any call there is. **RenderPage_proofs**: see section 4.

### The workspace

* **AppStore** is `LocalSqliteAppStore`: `get_pool` holds a guard of the map over
  `ensure_migrated`, and an insertion or removal meanwhile blocks its *thread*.
  `Workers` is the number of worker threads. All apps are in one shard of the map,
  the worst that hashing can do. What the replay does is SchemaLog.
* **Workspace** extends it with registration, sessions, the app and page handlers
  and the public site, one step per statement, and `CutOff` at every await.
  Titles, themes and head snippets are text, and the forms that set them change
  nothing. The expiry of a session looks like a logout to every other request.
* `IsRequest` is a request as the router and the forms let one arrive, and
  `MenusAssumption` says that the scenes send no others.
* **MCWorkspace** has six scenes, each with its requests. **Workspace_proofs**:
  see section 4.

### The schema service

* **SchemaLog** is `record` and `ensure_migrated` for one app, with an action for
  every await: the row lock and `MAX + 1`, the insert, the mutex, the version
  table, the pointer, the pending list, and for each change the transaction, its
  SQL and its commit. `Caller`s live in `Process`es; each process has a mutex,
  all share the file. Intents are abstracted to `log[v]`: whether SQLite can run
  change `v` once those before it have run, chosen when it is recorded. SQLite's
  WAL rules are what the code relies on and are marked external in the map: a
  transaction that began with a read cannot write once another connection has
  committed or is writing (BUSY at once), while a statement that starts with a
  write waits, up to its `busy_timeout`.
* `Cancel` drops a caller at any await: a client that hangs up, an error of
  Postgres or the disk, the crash of a process. Its mutex, row lock and open
  transaction go with it. `LoseFile` deletes the SQLite file while the processes
  are down.
* **SchemaReplica** is what this amounts to: an append-only log and how much of
  it has been replayed. **MCSchemaLog** gives the callers and processes.
* **SchemaLog_proofs**: see section 4.

### The data mirror

* **DataMirror** has the handlers of collections, fields and records, one action
  per await: find the collection, load the list inside the transaction that will
  write it, write Postgres, record the intents one by one. `tables` is what
  replaying the whole log gives and `stuck` says whether it has an intent that
  SQLite rejects: the `log[v] = FALSE` of SchemaLog, here with its causes. Field
  lists are bags of names, because an operation treats entries of one name alike
  and no statement depends on the order; types, which only travel along, and the
  rows of the mirror, which are best effort, are left out. `CutOff` drops a
  handler at any await.
* Two assumptions about the users are constants. `Exclusive`: requests that
  overlap concern collections of different names. `FreshForms`: a rename or a
  delete of a field names one that is there.


## 3. Runs

| Run | Shows | Bounds | States |
|---|---|---|---|
| `page_editor_structure` | `PageIsSound`, `ImplementsEditHistory` | 5 ids, 4 requests, one tag | 22,509 |
| `page_editor_content` | `TypeOK`, `CursorShowsPage` | 3 ids, 4 requests, leaf and other tags, 2 contents | 201,219 |
| `page_editor_replay` | `StepTargetsReplay` is *violated* | 3 ids, 4 requests | |
| `page_editor_text` | `CursorIsCurrentState` is *violated* | 3 ids, 4 requests | |
| `concurrent_editor` | `ConcurrentTypeOK`, `RowsStaySound`, `PageIsRecorded`, `PatchesStay`, `RequestsEndOnForests` | 2 requests at once, 2 or 3 in all, 1 cut off in two of the four scenes, pages of up to 3 rows, 6 ids | 115,386 |
| `schema_log_safety` | `TypeOK`, `PointerIsTrue`, `ReadyIsCurrent`, `RecordNeverConflicts`, `ImplementsReplica` | 2 + 1 callers in 2 processes, 3 changes, 1 fault | 981,439 |
| `schema_log_liveness` | `RecordedIsApplied` | the same with 2 changes | 216,063 |
| `schema_log_race` | `AppliedMigrationIsSkipped` is *violated* | 1 + 1 callers, 1 change, no fault | |
| `data_mirror` | `TypeOK`, `MirrorAgrees`, `ValuesHaveFields`, `RejectionIsExcused` | 2 requests at once, 6 in all, 1 cut off, 2 collections, 3 names and 3 fields (`id` and an `sqlite_` name among them), 1 record | 257,649 |
| `data_mirror_rename` | `LogReplays` is *violated* | 1 request at once, 4 in all | |
| `render_page` | `ArenaTypeOK`, `RenderTypeOK`, `InvariantsHold`, `ListsAreComplete`, `AllBelowRoot`, `RendersEachRowOnce`, `SiblingsInOrder`, `RepeatersShowOneReading`, `TextsAgree`, `FormsSubmit`, `FailsOnlyOnBadParents`, `OrderedTreeSteps` | all 4096 tables of 3 rows that foreign keys admit; sound pages of 3 rows of 7 kinds with 0 or 2 records; 12 pages of up to 5 rows with 1 change of a record; a library caller with 4 uuids and 4 keys | 163,341 |
| `workspace` | `WorkspaceTypeOK`, `AppsAreWhole`, `LastAppStays`, `AuthorsOwnTheirPages`, `StoreFollowsApps`, `AnswersAreTimely`, `EveryRequestEnds` | 2 requests at once, 3 in all, 1 cut off, 1 worker thread, 2 users | 101,317 |

Why the bounds are enough. Four requests on five ids build every forest of up to
five rows that four requests can build, so a move has a row on both sides of
each of its two holes, a cascade has two levels, and an undo, a redo and an edit
that cuts a branch fit in one behaviour; the proofs then cover every size.
Three callers in two processes contain a race inside a process, a race between
two, and both at once; three changes let one caller's list be overtaken by
another's twice. Six requests on collections are a create, two fields, a rename
with its two intents, and two more that overlap or follow; seven requests
(1,229,428 states) find nothing new.

Two overlapping requests on one page give every way in which one statement
falls between two others; a third request meets what they left behind, such as a
walk in a circle that two moves made, or an undo of a branch that a snapshot cut.
Each scene begins where requests that may interfere have something to interfere
with: a list of three for moves (two of them can make a circle), an undone page
for history, one row with two attributes for patches.

Three rows make a chain fork, dangle and run in a ring, and a circle of two
parents with a row outside it. The rows of those tables come in the order of
their uuids; a fork is then won by the lower one, and some larger pages list
rows the other way round. Rows inside a template, rows behind it, a repeater in a
repeater and a form around fields need four or five, which the larger pages
have; records can change between any two reads of a pass. Four keys make a node
with two children on both sides of a moved one; `ArenaTree_proofs` covers the
rest.

In the workspace one worker thread is the smallest runtime that can block, and
with more threads it takes as many blocked requests. Three requests are two that
overlap and one after them.

`MaxRequests`, `MaxRecords`, `MaxFaults`, `MaxCalls`, `MaxCuts`, `MaxNodes`,
`LibraryKeys`, the `budget` and `cuts` of a scene and the changes of a load are
the only bounds of counters and appear in guards; `Elem` bounds the ids. The
editors, the data mirror and the workspace stop when no request is left, so
their configurations do not check for deadlock; the schema service and the
renderer never do and theirs do.

Symmetry. Ids, plain names and requests are compared for equality only, and so
are two callers of one process; the liveness runs use none.

Fairness. PageEditor, DataMirror and RenderPage have none and claim no liveness.
Elsewhere it is weak fairness of a request that has begun: tokio polls every
future that is ready, and the statements it waits for end. `FairSpec` of
SchemaLog has it for `Proceed(c)` (statements end by `busy_timeout` at the
latest) and also for `Lock(c)`: requests that need the app's pool keep coming.
Without that nothing replays the log, since the program has no background task
that does. ConcurrentEditor and Workspace have it for the requests in flight
only, not for clients: nothing has to arrive, and `RequestsEndOnForests` and
`EveryRequestEnds` hold of those that do.

### What the excuses say

A property under concurrency is of use when it names what breaks it. These do:

* `RowsStaySound`: the page stays a forest of complete lists *unless* a request
  wrote from a position, a tree view or a walk that another had changed since.
  Being cut off, being late with a snapshot or a second statement, or overlapping
  with patches does not harm the structure. What does: two adds behind one last
  sibling, two moves that each pass the other's walk, a drop in a stale tree.
* `PageIsRecorded`: between requests the cursor names a revision with the page's
  structure, unless the last write of the cursor was overtaken or cut off. A
  redo that a snapshot overtakes can leave the cursor on a revision that is gone.
* `PatchesStay`: of two patches of one row at once either may lose; nothing else
  takes an attribute away.
* `RequestsEndOnForests`: only the walk of a move through a circle never ends.
* `LastAppStays`: only two deletions that both counted first take the last app,
  and a registration that is cut off leaves an account without one.
* `AnswersAreTimely`: a visit reads in four statements, and still answers what
  was so at one moment, unless an app of the owner was renamed or deleted meanwhile,
  or was made after the owner hid the profile that the visit had found published
  (the visitor then sees a profile that is hidden, at a URL that had no app while
  it was not).
* `EveryRequestEnds`: as many insertions into or removals from the map of pools
  as there are worker threads, during one `get_pool` that waits, stop the server.

### Findings

* **Undo and redo can fail for good** (`page_editor_replay`, `revisions.rs:134`).
  A snapshot lists rows by `created_at`, and re-inserts them in that order under
  immediate foreign keys. After *add before*, *wrap*, or a move, a row may name
  one that was created after it; the step fails, rolls back and answers 500, and
  so does every later attempt to go to that revision.
* **Text edits are not revisions** (`page_editor_text`, `elements.rs:592`). The
  text route takes no snapshot, so the revision under the cursor is not the
  current state, and undoing the edit before it drops the text.
* **The race between processes ends in BUSY** (`schema_log_race`,
  `schema_service.rs:184`). The module's comment relies on `BEGIN IMMEDIATE`, by
  which the slower process would wait and then skip; `begin()` is a deferred
  `BEGIN`, so its upgrade to a write fails. Safety is not affected: nothing runs
  twice, and the next call succeeds.
* **A field renamed to the name of another stops the log** (`data_mirror_rename`,
  `data.rs:281`). Adding a field checks that the name is free, renaming one does
  not. Postgres then has the name twice, and SQLite rejects the intent now and
  on every later replay, so no later schema change of the app is applied and
  `get_pool` fails. `RejectionIsExcused` says what else can do that to users with
  fresh forms: a field called `id`, a collection called `sqlite_...`, and a
  request that was cut off.

### Met while modelling

Behaviour of the code that the models have and that no document contradicts:

* `move_to` with `Before` or `After` goes under the parent of the sibling
  whatever `new_parent` is. A sibling inside the moved subtree makes a circle, and
  one that is gone gives `Err` after the node was detached, which loses it. The
  links agree all the same; `AllBelowRoot` is about callers that do neither.
* Behind a template of a repeater, the other children lose the sibling they
  hung on and come in the order of their uuids. `{{coll.field}}` is erased inside
  repeaters. What a repeater in a repeater shows depends on the order of rows.
  Bindings and references may show different records of one collection.
* A row that is its own ancestor makes the build refuse the whole page, and with
  a field in that circle the search for its form never ends and keeps its worker.
* `create_element` takes any element as the parent: one of another page is not
  found by the query that looks for leaves, which passes it over, and the foreign
  key does not ask for the same page. The build then refuses the whole page,
  because it loads the page's rows only (`FailsOnlyOnBadParents`).
* An unlock cookie names the page and not the password: it outlives a change of it.
* The page that lists a user's published apps is reached only while the home
  page is missing, because the root URL looks for that first.
* The default app can be deleted when there is another, and nothing makes a new
  default.
* `delete_all_sessions_for_user`, `purge_expired_sessions`, `set_password_hash`,
  `set_totp_secret` and OAuth's upsert, which makes a user without an app, have
  no caller in the handlers.


## 4. Proofs

The proof modules assume what the constants' `ASSUME`s say: the sentinel is not
an id, `#text` is a leaf tag, the blank content is a content; every caller has a
process. Sets may be of any size, infinite ones included, and all bounds are
arbitrary numbers.

**ElementTable_proofs** shows for every transaction that it keeps a sound table
sound: `InsertedSound`, `InsertedBefore`, `WrappedSound`, `DeletedSound`,
`MovedSound`, `SameKeysSound`. Each first says what the rows are afterwards
(`MovedRows` and its like), then goes through the parts of `SoundTable`. The
acyclicity parts say *every non-empty set of rows has a member whose parent (left
sibling) is outside it*, so a proof takes a set that would be a cycle afterwards
and finds one that was a cycle before. For a move the argument needs the walk:
the set of ancestors it visited does not contain the moved row.

**PageEditor_proofs** proves `EditorTypeOK`, `EditorPageIsSound` and
`EditorCursorShowsPage`. None is inductive, because undo brings rows back from
revisions; `IInv` adds that the rows of *every* revision are sound. From there
each handler is one of the transactions above, on ids that exist.

`EditorImplementsHistory` is the refinement of EditHistory. A forest has a
sequence for each parent, where the table has links, so the proof is about
`Ordered`: the sequence of all the children of a parent in which each names the
one before it. It is unique, since no two siblings name the same one
(`OrderedIsTheList`).
That it exists is not derived from the acyclicity of the links, which would be an
induction over rows, but carried along: `HInv` says of the page and of
every revision that each parent has its list, and each handler shows it of the
rows that it makes, by making the list, one place more in it (`ListGrows`) or one
less (`ListShrinks`). What the handlers do to the rows between is then what
EditHistory says of the forest. Revisions are keyed by a `seq` that leaves gaps
where a redo branch was cut off; the rank of a `seq` is its place in the history
(`RankBounds` to `NeighbourRank`).

**ConcurrentEditor_proofs** proves all four invariants of run `concurrent_editor`
for any number of rows, of requests at once and of requests cut off:
`ConcurrentTypeCorrect`, `OverlapKeepsRowsSound`, `OverlapRecordsPage`,
`OverlapKeepsPatches`. It assumes of the scenes that they start with a sound page
and a history of sound pages (`ScenesAssumption`). `Stations` says where a
request of a kind can be; at each, the invariant says what the request has read
and that it is still so (`Placed`, `Current`, `Patching`), unless the request is behind.
Another request may break that only by changing the shape of the rows or the
cursor, and that is when `Watch` puts the reader behind. A walk is the delicate
reading: `Walking` says that the rows it has met lead to where it is and do not
hold the moved row, which at the top is what `MovedSound` asks for. Every write
is one lemma (`...Writes`): from a position that is still so it keeps the rows
sound, and from any position at all it keeps columns and data.

**SchemaLog_proofs** proves `ServiceTypeOK`, `ServicePointerIsTrue`,
`ServiceReadyIsCurrent`, `ServiceRecordNeverConflicts`, and
`ServiceImplementsReplica`: the service refines the replica. The pointer is not
enough for an induction, which must say what a caller *knows* of a file that
others write. `NoGap`: what it has fetched has no gap above the pointer, whatever
the pointer has become since. `NeedsCovered`: every change it must see is in the
file or in its list. And the pointer cannot have moved while its transaction is
not outdated (`stale`), nor while it holds the write lock. So the change it runs
next is the one behind the pointer. The mutex of the process occurs nowhere in
the argument: it spares BUSY errors, safety does not need it.

**ArenaTree_proofs** proves `ArenaTyping`, `ArenaInvariantsHold`,
`ArenaListsAreComplete` and `ArenaAllBelowRoot`, for any uuids, contents and
number of nodes. `check_invariants` is not inductive: it does not say that the
first child of a node is its child, that the root has no siblings, or what a
detached node looks like. Every operation of the source is a chain of link
changes, and between two of them a node is `Loose`: taken out of its list and
not yet in another. The lemmas go along that chain: a new node (`WithNode`), a node cut
out of its list, a node linked in as first, as last, or between two, each from
whole links to whole links; the calls are put together from them.

`ArenaIsOrderedTree` says what the calls are for: each is one edit of OrderedTree,
or none, as long as no caller strays. A list of children is what the walk along
`next` meets, and the proof first shows that the walk meets every child
once (`ChildListIsExact`) and that any sequence of all the children in the order
of their `prev` links is that walk (`OneList`). Then each change of links need
only be shown to put one place into one list (`LinkedLists`), to take one out
(`LooseLists`), or to leave the lists alone (`SameLists`); the index carries that
over to the lists of uuids. `Below` of OrderedTree is a least closed set
of uuids, what `remove` takes is one of keys, and `RemoveDrops` shows them to be
the same. A parent that `move_to` has found by its walk is outside that set
(`MayMoveIsNotBelow`).

**DataMirror_proofs** proves all four properties of run `data_mirror` for any
number of requests, names, fields and records: `DataTypes`, `MirrorHolds`,
`ValuesHold`, `RejectionExcused`. The first holds whatever overlaps; the other
three are under the named assumptions `Exclusive` and `FreshForms`, which the run
makes too. The invariant says of each request in flight what it *knows* and what
it *owes*. Its names are nobody else's (from `Exclusive`), so what it read is
still so when it writes. Between its commit in Postgres and its last intent, the
tables lack exactly what those intents will do (`Pays`). And an intent that
is owed can be replayed on the tables as they will be then, or one of the named
excuses holds (`Replayable`). When nothing is owed, what is left is `MirrorAgrees`.

**Workspace_proofs** proves all six invariants of run `workspace` for any number of
users, of requests at once and of requests cut off, and for any menus of requests
as `MenusAssumption` admits them: `WorkspaceTypeCorrect`, `AuthorsOwn`,
`AppsStayWhole`, `LastAppIsKept`, `StoreFollows`, `AnswersTimely`. The keys of the
tables are not inductive: `register` makes a default app without looking whether
there is one. `FirstAppsDue` says why it may: a registration that has yet to make
the first app is the only one of its user, who has none. `Sound` is what a handler
knows after an await although the rows may be gone: an app it has looked up is its
user's *if it is still there*, because ids are not handed out twice; that is
`AuthorsOwnTheirPages` when the page is inserted. To the others belongs what must
be known at the one statement that could break them: the page about to be deleted
is no home page (`SparesHome`); when an app is about to be deleted its user has
another, or two deletions raced (`MayDelete`); a file that a data request will make
is an app's or excused (`StoreSound`). `AnswersTimely` follows a visit through its
four reads (`VisitSound`): the answer that it is heading for is already in `fits`,
for a URL without a page even before the page was looked for. The proof found what
the scenes had not: an app made after the profile was hidden shows a hidden profile
at a URL where none was ever to be seen. `shaken` names that now, and a sixth scene
shows it.

**RenderPage_proofs** proves, for any pages, collections, records that come and
go and uuids drawn, `PageTyping` (`RenderTypeOK`), `PageTextsAgree`
(`TextsAgree`), `PageTreeIsSound` (`InvariantsHold`, `ListsAreComplete` and
`AllBelowRoot` of the tree that is built, and of any tree in a caller's hands),
`PageShowsEachRowOnce` (`RendersEachRowOnce`), `PageFailsOnlyOnBadParents`
(`FailsOnlyOnBadParents`) and `PageSiblingsInOrder` (`SiblingsInOrder`), and
`PageTreeIsOrdered` (`OrderedTreeSteps`), which
follows from ArenaTree_proofs because every step of a page is a call on the tree or
leaves it alone (`PageUsesArena`). It asks two things of a page. `LoadsAssumption`: ids differ
(`elements.id` is a primary key), `new_v4` returns none of them and nothing twice,
and stored texts are not filled yet. `LinksAssumption`, which only
`PageSiblingsInOrder` uses: `parent_id` and `prev_sibling` are foreign keys, so no
stored row refers to a uuid that is still to be drawn. Parents and sibling links are
otherwise arbitrary; that every sibling list is one chain is the hypothesis that
`SiblingsInOrder` itself states (`Sound(page)`).

What the passes do is computed by recursive functions over sequences. None of the
installed provers can use an induction theorem for operators, so there are two of our
own in ArenaTree_proofs, for sets: a set of numbers that has 0, and k with k - 1, has all of 0..n
(`StepByStep`), and a recursion over 0..n has a solution (`RecursionEnds`). From
these follow what a filter keeps (`OnlyEffect`, `OnlyMembers`), what a clone is made
of (`ClonesEffect`), what the chain of `order_siblings` and its salvage list
(`OrderSiblingsMembers`: each row of the group, once) and that the walks up and down reach what they should: they
take as many rounds as there are rows, and a round that adds nothing is the last
(`RoundsEnd`). Then there are eight invariants, one per part of the way:

* `PassInv`: ids stay distinct, and no uuid that is still to be drawn is among them.
* `TextInv`: which pass has filled a text, and from which record; in the pass that
  binds, from the head of what its cache holds, and that is why a record that
  goes meanwhile makes no difference.
* `BuildInv`: a row that the build has not appended is in the group of its parent,
  and a group that is not empty belongs to a parent that is still in the queue or
  not in the tree. So a queue that is empty has met all it can reach. The nodes are
  rows, under the nodes of their parents.
* `RenderInv`: an entry of the stack is a node that is still to be opened or closed;
  no entry is below one that is to be opened, and the entries on top of a close are
  those below its node (`StackOK`). The markup has, once each, the nodes that were
  opened and the closes of those that are not open any more; what is below a node
  comes behind it and before its close, and nothing else does (`OutOK`).
  `RendersEachRowOnce` speaks of rows and their ancestors; `AncestryIsUp` takes it
  from the nodes to them.
* `CauseInv`: if the rows of the page are `WellRooted` (each parent is there, and
  every non-empty set of rows has a member whose parent is outside it), so are those
  the passes make of them. A set of clones that were closed upwards would be, row by
  row, a set of template rows that is; a repeater is never among the rows
  that go with its template; inputs hang on forms. And what the build has not
  met when its queue is empty is closed upwards.
* `LinkInv`: on a page whose sibling lists are chains they stay chains through the
  passes, but under repeaters (`ChainsHold`): `expand_repeaters` takes a template
  away and puts a chain of clones there, whose insides are chains because those of
  the template are (`CloneChain`); csrf inputs go behind the last child of their form
  (`FormChain`). For this the invariant also says that rows that follow each other have one
  parent (`SiblingsAgree`), that no row refers to a uuid still to be drawn
  (`LinksAreOld`), and that what is left of the worklist are repeaters (`Pending`).
  Where the chain is whole, `order_siblings` returns it, and the salvage adds nothing
  (`ChainFollows`, `ChainIsOrder`).
* `OrderInv`: the children a node has, followed by what is left of its group, are
  `order_siblings` of the rows under it; so the tree that is built lists children in
  that order (`TreeFollowsRows`), because `append_child` puts a node last (`AppendsLast`).
* `SideInv`: a sibling on the left is opened first, is nearer to the top of the stack
  and is earlier in the markup (`InOrder`).

From the last three `SiblingsFollow` concludes `SiblingsInOrder`: the left sibling of
a row is the one right before it in the chain, the chain is the order of the tree,
and the tree's order is that of the markup, so no shown sibling comes between them.

Only model-checked: `FormsSubmit` and `RepeatersShowOneReading`, which are about the
pages of the run and need more of a page than the two assumptions say (no stored input
is named `_csrf`; no stored row is marked as a clone and no record is 0, which marks a
row as none); the liveness properties `RecordedIsApplied`, `RequestsEndOnForests` and
`EveryRequestEnds`, and with them ENABLED; and the violated properties, which are
counterexamples.


## 5. Plan

Done: the page editor one request at a time and with overlaps; the schema
service and its replica; the mirror; the arena, tree building, passes and
rendering; the pool store, apps, pages, accounts and sessions. Every hazard listed
has a property.

Left, in this order:

1. `FormsSubmit` and `RepeatersShowOneReading` for any page: the hypotheses on names
   and records they need, then the proofs. `FormChain` and `ExpandedIsExpansion`
   are the lemmas to start from.
2. DataMirror with stale forms and with requests on one collection, where the
   mirror does drift apart: a run that says how far.

Not modelled, and why:

* OAuth: single statements around an external provider, whose answers no source
  here bounds.
* CSRF tokens and request ids: one comparison per request, no state on the server.
* Start-up, configuration, deployment: what they decide (one process, several
  worker threads, SQLite's pragmas) is stated where a model uses it.
* Views, escaping, attribute validation, `sanitize_head_html`, field types and
  their parsing: wording, one input to one output, which unit tests fit better.
* The rows of the SQLite mirror: written on a best-effort basis, errors are
  swallowed, so there is nothing the code promises of them.
* `lovely-data` (a stub) and the test harness.
