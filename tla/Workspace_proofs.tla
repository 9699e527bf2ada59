-------------------------- MODULE Workspace_proofs --------------------------
(***************************************************************************)
(* The six invariants of Workspace, for any users, requests in flight,     *)
(* menus of requests and bounds.                                           *)
(*                                                                         *)
(* TypeInv is what everything rests on: where each kind of request can be, *)
(* the keys of the tables, and what a handler still knows of them when it  *)
(* goes on after an await (Sound).  Evolves says what no step undoes.  To  *)
(* each other invariant belongs what a request must know at the statement  *)
(* that could break it: SparesHome, MayDelete, StoreSound, VisitSound.     *)
(* A step is one request's, so each proof has three parts: the request     *)
(* that moves, the others that wait, and the rows that come and go.        *)
(***************************************************************************)
EXTENDS Workspace, FiniteSetTheorems, TLAPS

-----------------------------------------------------------------------------
(* Requests in flight *)

FormFields   == {"op", "pc", "user", "slug", "page", "arg", "app", "pid"}
VisitFields  == {"op", "pc", "user", "of", "slug", "page", "app", "pid", "listed", "jar", "answer"}
UnlockFields == {"op", "pc", "user", "of", "slug", "page", "arg", "app", "pid", "listed"}

\* Where the requests of a kind can be.
FormStations ==
    ({"register"} \X {"create_user", "insert_app", "insert_page", "snapshot", "create_session"})
    \cup ({"login"} \X {"find_user", "create_session"})
    \cup ({"logout"} \X {"delete_session"})
    \cup ({"profile_form"} \X {"update_user"})
    \cup ({"create_app"} \X {"insert_app", "insert_page", "snapshot"})
    \cup ({"rename_app"} \X {"find_app", "rename_app"})
    \cup ({"dress_app"} \X {"find_app", "dress_app"})
    \cup ({"publish_app"} \X {"find_app", "publish_app"})
    \cup ({"delete_app"} \X {"find_app", "count_apps", "delete_app", "close_pool", "close_blocked",
                             "closing", "remove_file"})
    \cup ({"data"} \X {"find_app", "get_pool", "migrate_cached", "open", "migrate_new", "insert",
                       "insert_blocked"})
    \cup ({"create_page"} \X {"find_app", "insert_page", "snapshot"})
    \cup ({"dress_page"} \X {"find_app", "find_page", "dress_page"})
    \cup ({"publish_page"} \X {"find_app", "find_page", "publish_page"})
    \cup ({"access_page"} \X {"find_app", "find_page", "access_page"})
    \cup ({"delete_page"} \X {"find_app", "find_page", "delete_page"})

IsForm(c) == DOMAIN c = FormFields /\ <<c.op, c.pc>> \in FormStations

IsVisit(c) ==
    /\ DOMAIN c = VisitFields /\ c.op = "visit"
    /\ c.pc \in {"find_owner", "find_public_app", "find_public_page", "load_rows", "answered"}

IsUnlock(c) ==
    /\ DOMAIN c = UnlockFields /\ c.op = "unlock"
    /\ c.pc \in {"find_owner", "find_public_app", "find_public_page"}

IsCall(c) == c = NoRequest \/ IsForm(c) \/ IsVisit(c) \/ IsUnlock(c)

CallsOK == DOMAIN call = Request /\ \A r \in Request : IsCall(call[r])

\* Only the request of r moves.
Alone(r) == DOMAIN call' = DOMAIN call /\ \A q \in Request \ {r} : call'[q] = call[q]

\* d is c at another await.
Onward(c, d) ==
    /\ DOMAIN d = DOMAIN c
    /\ \A f \in DOMAIN c \ {"pc", "app", "pid", "listed", "answer"} : d[f] = c[f]

LEMMA EndEffect ==
    ASSUME CallsOK, NEW r \in Request, End(r)
    PROVE  Alone(r) /\ call'[r] = NoRequest
BY DEF End, Alone, CallsOK

LEMMA GoToEffect ==
    ASSUME CallsOK, NEW r \in Request, call[r] # NoRequest, NEW x, GoTo(r, x)
    PROVE  /\ Alone(r) /\ Onward(call[r], call'[r]) /\ call'[r].pc = x
           /\ \A f \in DOMAIN call[r] \ {"pc"} : call'[r][f] = call[r][f]
<1>1. "pc" \in DOMAIN call[r]
    BY DEF CallsOK, IsCall, IsForm, IsVisit, IsUnlock, FormFields, VisitFields, UnlockFields
<1> QED
    BY <1>1 DEF CallsOK, GoTo, Alone, Onward

AppTaken(r, v, x) == call' = [call EXCEPT ![r].app = v, ![r].pc = x]

LEMMA TakesApp ==
    ASSUME CallsOK, NEW r \in Request, call[r] # NoRequest, "app" \in DOMAIN call[r],
           NEW v, NEW x, AppTaken(r, v, x)
    PROVE  /\ Alone(r) /\ Onward(call[r], call'[r]) /\ call'[r].pc = x /\ call'[r].app = v
           /\ \A f \in DOMAIN call[r] \ {"pc", "app"} : call'[r][f] = call[r][f]
<1>1. {"pc", "app"} \subseteq DOMAIN call[r]
    BY DEF CallsOK, IsCall, IsForm, IsVisit, IsUnlock, FormFields, VisitFields, UnlockFields
<1> QED
    BY <1>1 DEF CallsOK, AppTaken, Alone, Onward

PageTaken(r, v, x) == call' = [call EXCEPT ![r].pid = v, ![r].pc = x]

LEMMA TakesPage ==
    ASSUME CallsOK, NEW r \in Request, call[r] # NoRequest, "pid" \in DOMAIN call[r],
           NEW v, NEW x, PageTaken(r, v, x)
    PROVE  /\ Alone(r) /\ Onward(call[r], call'[r]) /\ call'[r].pc = x /\ call'[r].pid = v
           /\ \A f \in DOMAIN call[r] \ {"pc", "pid"} : call'[r][f] = call[r][f]
<1>1. {"pc", "pid"} \subseteq DOMAIN call[r]
    BY DEF CallsOK, IsCall, IsForm, IsVisit, IsUnlock, FormFields, VisitFields, UnlockFields
<1> QED
    BY <1>1 DEF CallsOK, PageTaken, Alone, Onward

ListedTaken(r, v, x) == call' = [call EXCEPT ![r].listed = v, ![r].pc = x]

LEMMA TakesListed ==
    ASSUME CallsOK, NEW r \in Request, call[r] # NoRequest, "listed" \in DOMAIN call[r],
           NEW v, NEW x, ListedTaken(r, v, x)
    PROVE  /\ Alone(r) /\ Onward(call[r], call'[r]) /\ call'[r].pc = x /\ call'[r].listed = v
           /\ \A f \in DOMAIN call[r] \ {"pc", "listed"} : call'[r][f] = call[r][f]
<1>1. {"pc", "listed"} \subseteq DOMAIN call[r]
    BY DEF CallsOK, IsCall, IsForm, IsVisit, IsUnlock, FormFields, VisitFields, UnlockFields
<1> QED
    BY <1>1 DEF CallsOK, ListedTaken, Alone, Onward

LEMMA NoRequestIsNothing ==
    NoRequest.pc = "none" /\ NoRequest.op = "none" /\ ~IsForm(NoRequest) /\ ~IsVisit(NoRequest) /\ ~IsUnlock(NoRequest)
BY DEF NoRequest, IsForm, IsVisit, IsUnlock, FormStations

LEMMA AnswersEffect ==
    ASSUME CallsOK, NEW r \in Request, IsVisit(call[r]), NEW v, AnswerWith(r, v)
    PROVE  /\ Alone(r) /\ Onward(call[r], call'[r]) /\ call'[r].pc = "answered"
           /\ call'[r].answer = v
           /\ \A f \in DOMAIN call[r] \ {"pc", "answer"} : call'[r][f] = call[r][f]
<1>1. {"pc", "answer"} \subseteq DOMAIN call[r]
    BY DEF IsVisit, VisitFields
<1> QED
    BY <1>1 DEF CallsOK, AnswerWith, Alone, Onward

\* The request of r goes to another await or ends.
Moves(r) ==
    /\ Alone(r)
    /\ IsCall(call'[r])
    /\ call'[r] = NoRequest \/ Onward(call[r], call'[r])

LEMMA MovesKeepsCalls ==
    ASSUME CallsOK, NEW r \in Request, Moves(r)
    PROVE  CallsOK'
BY DEF CallsOK, Moves, Alone, IsCall, IsForm, IsVisit, IsUnlock

\* A station of forms only.
LEMMA FormAt ==
    ASSUME CallsOK, NEW r \in Request,
           call[r].pc \notin {"none", "find_owner", "find_public_app", "find_public_page",
                              "load_rows", "answered"}
    PROVE  /\ call[r] # NoRequest /\ IsForm(call[r])
           /\ {"app", "pid", "pc", "op", "user", "slug", "page"} \subseteq DOMAIN call[r]
BY NoRequestIsNothing DEF CallsOK, IsCall, IsForm, IsVisit, IsUnlock, FormFields

LEMMA FormMoves ==
    ASSUME CallsOK, NEW r \in Request, IsForm(call[r]), Alone(r), Onward(call[r], call'[r]),
           <<call[r].op, call'[r].pc>> \in FormStations
    PROVE  Moves(r)
<1>1. call'[r].op = call[r].op
    BY DEF IsForm, FormFields, Onward
<1> QED
    BY <1>1 DEF Moves, IsCall, IsForm, Onward

LEMMA EndMoves ==
    ASSUME CallsOK, NEW r \in Request, End(r)
    PROVE  Moves(r)
BY EndEffect DEF Moves, IsCall

LEMMA GoToMoves ==
    ASSUME CallsOK, NEW r \in Request, IsForm(call[r]), NEW x, GoTo(r, x),
           <<call[r].op, x>> \in FormStations
    PROVE  Moves(r)
<1>1. call[r] # NoRequest
    BY NoRequestIsNothing
<1> QED
    BY <1>1, GoToEffect, FormMoves

LEMMA AccountStepsMove ==
    ASSUME CallsOK, NEW r \in Request
    PROVE  /\ CreateUser(r) => Moves(r)
           /\ FindUser(r) => Moves(r)
           /\ CreateSession(r) => Moves(r)
           /\ DeleteSession(r) => Moves(r)
           /\ UpdateUser(r) => Moves(r)
<1>1. CreateUser(r) => Moves(r)
    BY FormAt, EndMoves, GoToMoves DEF CreateUser, At, IsForm, FormStations
<1>2. FindUser(r) => Moves(r)
    BY FormAt, EndMoves, GoToMoves DEF FindUser, At, IsForm, FormStations
<1>3. CreateSession(r) => Moves(r)
    BY FormAt, EndMoves, GoToMoves DEF CreateSession, At, IsForm, FormStations
<1>4. DeleteSession(r) => Moves(r)
    BY FormAt, EndMoves, GoToMoves DEF DeleteSession, At, IsForm, FormStations
<1>5. UpdateUser(r) => Moves(r)
    BY FormAt, EndMoves, GoToMoves DEF UpdateUser, At, IsForm, FormStations
<1> QED
    BY <1>1, <1>2, <1>3, <1>4, <1>5

LEMMA AppStepsMove ==
    ASSUME CallsOK, NEW r \in Request
    PROVE  /\ RenameApp(r) => Moves(r)
           /\ PublishApp(r) => Moves(r)
           /\ Dress(r) => Moves(r)
           /\ CountApps(r) => Moves(r)
           /\ DeleteApp(r) => Moves(r)
<1>1. RenameApp(r) => Moves(r)
    BY FormAt, EndMoves, GoToMoves DEF RenameApp, At, IsForm, FormStations
<1>2. PublishApp(r) => Moves(r)
    BY FormAt, EndMoves, GoToMoves DEF PublishApp, At, IsForm, FormStations
<1>3. Dress(r) => Moves(r)
    BY FormAt, EndMoves, GoToMoves DEF Dress, At, IsForm, FormStations
<1>4. CountApps(r) => Moves(r)
    BY FormAt, EndMoves, GoToMoves DEF CountApps, At, IsForm, FormStations
<1>5. DeleteApp(r) => Moves(r)
    BY FormAt, EndMoves, GoToMoves DEF DeleteApp, At, IsForm, FormStations
<1> QED
    BY <1>1, <1>2, <1>3, <1>4, <1>5

LEMMA PageStepsMove ==
    ASSUME CallsOK, NEW r \in Request
    PROVE  /\ SnapshotBaseline(r) => Moves(r)
           /\ UpdatePage(r) => Moves(r)
           /\ UpdatePageAccess(r) => Moves(r)
           /\ DeletePage(r) => Moves(r)
<1>1. SnapshotBaseline(r) => Moves(r)
    BY FormAt, EndMoves, GoToMoves DEF SnapshotBaseline, At, IsForm, FormStations
<1>2. UpdatePage(r) => Moves(r)
    BY FormAt, EndMoves, GoToMoves DEF UpdatePage, At, IsForm, FormStations
<1>3. UpdatePageAccess(r) => Moves(r)
    BY FormAt, EndMoves, GoToMoves DEF UpdatePageAccess, At, IsForm, FormStations
<1>4. DeletePage(r) => Moves(r)
    BY FormAt, EndMoves, GoToMoves DEF DeletePage, At, IsForm, FormStations
<1> QED
    BY <1>1, <1>2, <1>3, <1>4

LEMMA StoreStepsMove ==
    ASSUME CallsOK, NEW r \in Request
    PROVE  /\ GetPool(r) => Moves(r)
           /\ MigrateCached(r) => Moves(r)
           /\ OpenPool(r) => Moves(r)
           /\ MigrateNew(r) => Moves(r)
           /\ InsertPool(r) => Moves(r)
           /\ ClosePool(r) => Moves(r)
           /\ PoolClosed(r) => Moves(r)
           /\ RemoveFile(r) => Moves(r)
           /\ Unblock(r) => Moves(r)
<1>1. GetPool(r) => Moves(r)
    BY FormAt, EndMoves, GoToMoves DEF GetPool, At, IsForm, FormStations
<1>2. MigrateCached(r) => Moves(r)
    BY FormAt, EndMoves, GoToMoves DEF MigrateCached, At, IsForm, FormStations
<1>3. OpenPool(r) => Moves(r)
    BY FormAt, EndMoves, GoToMoves DEF OpenPool, At, IsForm, FormStations
<1>4. MigrateNew(r) => Moves(r)
    BY FormAt, EndMoves, GoToMoves DEF MigrateNew, At, IsForm, FormStations
<1>5. InsertPool(r) => Moves(r)
    BY FormAt, EndMoves, GoToMoves DEF InsertPool, At, IsForm, FormStations
<1>6. ClosePool(r) => Moves(r)
    BY FormAt, EndMoves, GoToMoves DEF ClosePool, Uncached, At, IsForm, FormStations
<1>7. PoolClosed(r) => Moves(r)
    BY FormAt, EndMoves, GoToMoves DEF PoolClosed, At, IsForm, FormStations
<1>8. RemoveFile(r) => Moves(r)
    BY FormAt, EndMoves, GoToMoves DEF RemoveFile, At, IsForm, FormStations
<1>9. Unblock(r) => Moves(r)
    BY FormAt, EndMoves, GoToMoves DEF Unblock, Uncached, At, IsForm, FormStations
<1> QED
    BY <1>1, <1>2, <1>3, <1>4, <1>5, <1>6, <1>7, <1>8, <1>9

LEMMA FindAppMoves ==
    ASSUME CallsOK, NEW r \in Request, FindApp(r)
    PROVE  /\ Moves(r) /\ UNCHANGED <<tables, storeVars>>
           /\ IsForm(call[r]) /\ call[r].pc = "find_app"
           /\ call'[r] # NoRequest =>
                  /\ call'[r].app \in AppAt(call[r].user, call[r].slug)
                  /\ call'[r].pc = AfterTheApp(call[r].op)
                  /\ call'[r].pid = call[r].pid
<1>1. IsForm(call[r]) /\ call[r].pc = "find_app" /\ UNCHANGED <<tables, storeVars>>
    BY FormAt DEF FindApp, At
<1>2. CASE End(r)
    BY <1>1, <1>2, EndMoves, EndEffect
<1>3. ASSUME NEW a \in AppAt(call[r].user, call[r].slug),
             call' = [call EXCEPT ![r].app = a, ![r].pc = AfterTheApp(call[r].op)]
      PROVE  /\ Moves(r) /\ call'[r].app = a /\ call'[r].pc = AfterTheApp(call[r].op)
             /\ call'[r].pid = call[r].pid
    <2>1. PICK x : x = AfterTheApp(call[r].op)
        OBVIOUS
    <2>2. <<call[r].op, x>> \in FormStations
        BY <1>1, <2>1 DEF IsForm, FormStations, AfterTheApp
    <2>3. call[r] # NoRequest /\ {"app", "pid"} \subseteq DOMAIN call[r]
        BY <1>1, FormAt
    <2>4. AppTaken(r, a, x)
        BY <1>3, <2>1 DEF AppTaken
    <2>5. /\ Alone(r) /\ Onward(call[r], call'[r]) /\ call'[r].pc = x /\ call'[r].app = a
          /\ call'[r].pid = call[r].pid
        BY <2>3, <2>4, TakesApp
    <2> QED
        BY <1>1, <2>1, <2>2, <2>5, FormMoves
<1> QED
    BY <1>1, <1>2, <1>3 DEF FindApp

LEMMA FindOwnPageMoves ==
    ASSUME CallsOK, NEW r \in Request, FindOwnPage(r)
    PROVE  /\ Moves(r) /\ UNCHANGED <<tables, storeVars>>
           /\ IsForm(call[r]) /\ call[r].pc = "find_page"
           /\ call'[r] # NoRequest =>
                  /\ call'[r].pid \in DOMAIN pages /\ MayWrite(r, call'[r].pid)
                  /\ call'[r].pc = call[r].op
                  /\ call'[r].app = call[r].app
<1>1. IsForm(call[r]) /\ call[r].pc = "find_page" /\ UNCHANGED <<tables, storeVars>>
    BY FormAt DEF FindOwnPage, At
<1>2. CASE End(r)
    BY <1>1, <1>2, EndMoves, EndEffect
<1>3. ASSUME NEW p \in PageAt(call[r].app, call[r].page), MayWrite(r, p),
             call' = [call EXCEPT ![r].pid = p, ![r].pc = call[r].op]
      PROVE  /\ Moves(r) /\ call'[r].pid = p /\ call'[r].pc = call[r].op
             /\ call'[r].app = call[r].app
    <2>1. PICK x : x = call[r].op
        OBVIOUS
    <2>2. <<call[r].op, x>> \in FormStations
        BY <1>1, <2>1 DEF IsForm, FormStations
    <2>3. call[r] # NoRequest /\ {"app", "pid"} \subseteq DOMAIN call[r]
        BY <1>1, FormAt
    <2>4. PageTaken(r, p, x)
        BY <1>3, <2>1 DEF PageTaken
    <2>5. /\ Alone(r) /\ Onward(call[r], call'[r]) /\ call'[r].pc = x /\ call'[r].pid = p
          /\ call'[r].app = call[r].app
        BY <2>3, <2>4, TakesPage
    <2> QED
        BY <1>1, <2>1, <2>2, <2>5, FormMoves
<1>4. \A p \in PageAt(call[r].app, call[r].page) : p \in DOMAIN pages
    BY DEF PageAt
<1> QED
    BY <1>1, <1>2, <1>3, <1>4 DEF FindOwnPage

\* The row that create_app inserts.
FirstApp(c) ==
    [owner |-> c.user, slug |-> c.slug, default |-> c.op = "register", published |-> FALSE]

LEMMA FirstAppRow ==
    ASSUME NEW c
    PROVE  /\ FirstApp(c).owner = c.user /\ FirstApp(c).slug = c.slug
           /\ FirstApp(c).default => c.op = "register"
BY DEF FirstApp

LEMMA InsertAppMoves ==
    ASSUME CallsOK, NEW r \in Request, InsertApp(r)
    PROVE  /\ Moves(r) /\ IsForm(call[r]) /\ call[r].pc = "insert_app"
           /\ UNCHANGED <<users, listed, signedIn, pages, unlocked, raced, broken, storeVars>>
           /\ \/ /\ AppAt(call[r].user, call[r].slug) = {}
                 /\ call'[r].app = made.apps + 1 /\ call'[r].pc = "insert_page"
                 /\ call'[r].pid = call[r].pid /\ call'[r] # NoRequest
                 /\ made' = [made EXCEPT !.apps = made.apps + 1]
                 /\ apps' = [b \in DOMAIN apps \cup {made.apps + 1} |->
                                IF b = made.apps + 1 THEN FirstApp(call[r]) ELSE apps[b]]
              \/ /\ AppAt(call[r].user, call[r].slug) # {}
                 /\ call'[r] = NoRequest /\ UNCHANGED <<made, apps>>
<1>1. /\ IsForm(call[r]) /\ call[r].pc = "insert_app"
      /\ UNCHANGED <<users, listed, signedIn, pages, unlocked, raced, broken, storeVars>>
    BY FormAt DEF InsertApp, At
<1>2. CASE AppAt(call[r].user, call[r].slug) # {}
    BY <1>1, <1>2, EndMoves, EndEffect DEF InsertApp
<1>3. CASE AppAt(call[r].user, call[r].slug) = {}
    <2>1. PICK a : a = made.apps + 1
        OBVIOUS
    <2>2. /\ AppTaken(r, a, "insert_page")
          /\ made' = [made EXCEPT !.apps = a]
          /\ apps' = [b \in DOMAIN apps \cup {a} |->
                          IF b = a THEN FirstApp(call[r]) ELSE apps[b]]
        BY <1>3, <2>1 DEF InsertApp, FirstApp, AppTaken
    <2>3. call[r] # NoRequest /\ {"app", "pid"} \subseteq DOMAIN call[r]
        BY <1>1, FormAt
    <2>4. /\ Alone(r) /\ Onward(call[r], call'[r]) /\ call'[r].pc = "insert_page"
          /\ call'[r].app = a /\ call'[r].pid = call[r].pid
        BY <2>2, <2>3, TakesApp
    <2>5. <<call[r].op, "insert_page">> \in FormStations
        BY <1>1 DEF IsForm, FormStations
    <2>6. Moves(r) /\ call'[r] # NoRequest
        BY <1>1, <2>4, <2>5, FormMoves, NoRequestIsNothing
    <2> QED
        BY <1>1, <1>3, <2>1, <2>2, <2>4, <2>6
<1> QED
    BY <1>2, <1>3

\* The row that create_page inserts.
NewPage(c) ==
    [app |-> c.app, slug |-> c.page, author |-> c.user, published |-> FALSE, unlisted |-> FALSE,
     password |-> NoPassword, baseline |-> FALSE]

LEMMA InsertPageMoves ==
    ASSUME CallsOK, NEW r \in Request, InsertPage(r)
    PROVE  /\ Moves(r) /\ IsForm(call[r]) /\ call[r].pc = "insert_page"
           /\ UNCHANGED <<users, listed, signedIn, apps, unlocked, raced, broken, storeVars>>
           /\ \/ /\ call[r].app \in DOMAIN apps /\ PageAt(call[r].app, call[r].page) = {}
                 /\ call'[r].pid = made.pages + 1 /\ call'[r].pc = "snapshot"
                 /\ call'[r].app = call[r].app /\ call'[r] # NoRequest
                 /\ made' = [made EXCEPT !.pages = made.pages + 1]
                 /\ pages' = [q \in DOMAIN pages \cup {made.pages + 1} |->
                                IF q = made.pages + 1 THEN NewPage(call[r]) ELSE pages[q]]
              \/ /\ call[r].app \notin DOMAIN apps \/ PageAt(call[r].app, call[r].page) # {}
                 /\ call'[r] = NoRequest /\ UNCHANGED <<made, pages>>
<1>1. /\ IsForm(call[r]) /\ call[r].pc = "insert_page"
      /\ UNCHANGED <<users, listed, signedIn, apps, unlocked, raced, broken, storeVars>>
    BY FormAt DEF InsertPage, At
<1> DEFINE free == call[r].app \in DOMAIN apps /\ PageAt(call[r].app, call[r].page) = {}
<1>2. CASE ~free
    BY <1>1, <1>2, EndMoves, EndEffect DEF InsertPage
<1>3. CASE free
    <2>1. PICK p : p = made.pages + 1
        OBVIOUS
    <2>2. /\ PageTaken(r, p, "snapshot")
          /\ made' = [made EXCEPT !.pages = p]
          /\ pages' = [q \in DOMAIN pages \cup {p} |->
                          IF q = p THEN NewPage(call[r]) ELSE pages[q]]
        BY <1>3, <2>1 DEF InsertPage, NewPage, PageTaken
    <2>3. call[r] # NoRequest /\ {"app", "pid"} \subseteq DOMAIN call[r]
        BY <1>1, FormAt
    <2>4. /\ Alone(r) /\ Onward(call[r], call'[r]) /\ call'[r].pc = "snapshot"
          /\ call'[r].pid = p /\ call'[r].app = call[r].app
        BY <2>2, <2>3, TakesPage
    <2>5. <<call[r].op, "snapshot">> \in FormStations
        BY <1>1 DEF IsForm, FormStations
    <2>6. Moves(r) /\ call'[r] # NoRequest
        BY <1>1, <2>4, <2>5, FormMoves, NoRequestIsNothing
    <2> QED
        BY <1>1, <1>3, <2>1, <2>2, <2>4, <2>6
<1> QED
    BY <1>2, <1>3

LEMMA CutOffMoves ==
    ASSUME CallsOK, NEW r \in Request, CutOff(r)
    PROVE  /\ Moves(r) /\ call'[r] = NoRequest
           /\ UNCHANGED <<users, listed, signedIn, apps, pages, unlocked, made, raced, storeVars>>
           /\ broken' = broken \cup Debris(call[r])
BY EndMoves, EndEffect DEF CutOff

-----------------------------------------------------------------------------
(* The public site *)

LEMMA VisitorAt ==
    ASSUME CallsOK, NEW r \in Request,
           call[r].pc \in {"find_owner", "find_public_app", "find_public_page", "load_rows",
                           "answered"}
    PROVE  /\ call[r] # NoRequest /\ call[r].op \in {"visit", "unlock"}
           /\ (call[r].op = "visit") <=> IsVisit(call[r])
           /\ (call[r].op = "unlock") <=> IsUnlock(call[r])
           /\ {"app", "pid", "pc", "op", "of", "user", "slug", "page", "listed"}
                  \subseteq DOMAIN call[r]
<1>1. call[r] # NoRequest
    BY NoRequestIsNothing
<1>2. ~IsForm(call[r])
    BY DEF IsForm, FormStations
<1>3. IsVisit(call[r]) \/ IsUnlock(call[r])
    BY <1>1, <1>2 DEF CallsOK, IsCall
<1>4. CASE IsVisit(call[r])
    BY <1>1, <1>4 DEF IsVisit, IsUnlock, VisitFields
<1>5. CASE IsUnlock(call[r])
    BY <1>1, <1>5 DEF IsVisit, IsUnlock, UnlockFields
<1> QED
    BY <1>3, <1>4, <1>5

LEMMA VisitorMoves ==
    ASSUME CallsOK, NEW r \in Request, Alone(r), Onward(call[r], call'[r]),
           \/ /\ IsVisit(call[r])
              /\ call'[r].pc \in {"find_public_app", "find_public_page", "load_rows", "answered"}
           \/ IsUnlock(call[r]) /\ call'[r].pc \in {"find_public_app", "find_public_page"}
    PROVE  Moves(r)
<1>1. call'[r].op = call[r].op
    BY DEF IsVisit, IsUnlock, VisitFields, UnlockFields, Onward
<1> QED
    BY <1>1 DEF Moves, IsCall, IsVisit, IsUnlock, Onward

LEMMA AnswersMove ==
    ASSUME CallsOK, NEW r \in Request, IsVisit(call[r]), NEW v, AnswerWith(r, v)
    PROVE  Moves(r)
BY AnswersEffect, VisitorMoves

LEMMA NotFoundMoves ==
    ASSUME CallsOK, NEW r \in Request, IsVisit(call[r]) \/ IsUnlock(call[r]), NotFound(r)
    PROVE  /\ Moves(r)
           /\ call'[r] # NoRequest => IsVisit(call[r]) /\ AnswerWith(r, "missing")
<1>1. CASE IsVisit(call[r])
    BY <1>1, AnswersMove DEF NotFound, IsVisit
<1>2. CASE IsUnlock(call[r])
    BY <1>2, EndMoves, EndEffect DEF NotFound, IsUnlock
<1> QED
    BY <1>1, <1>2

LEMMA FindOwnerMoves ==
    ASSUME CallsOK, NEW r \in Request, FindOwner(r)
    PROVE  /\ Moves(r) /\ UNCHANGED <<tables, storeVars>>
           /\ call[r].pc = "find_owner"
           /\ \/ /\ call[r].of \in users
                 /\ Onward(call[r], call'[r]) /\ call'[r].pc = "find_public_app"
                 /\ call'[r].listed = (call[r].of \in listed)
                 /\ call'[r].app = call[r].app /\ call'[r].pid = call[r].pid
              \/ call[r].of \notin users /\ NotFound(r)
<1>1. call[r].pc = "find_owner" /\ UNCHANGED <<tables, storeVars>>
    BY DEF FindOwner, At
<1>2. IsVisit(call[r]) \/ IsUnlock(call[r])
    BY <1>1, VisitorAt
<1>3. CASE call[r].of \notin users
    BY <1>1, <1>2, <1>3, NotFoundMoves DEF FindOwner
<1>4. CASE call[r].of \in users
    <2>1. PICK v : v = (call[r].of \in listed)
        OBVIOUS
    <2>2. ListedTaken(r, v, "find_public_app")
        BY <1>4, <2>1 DEF FindOwner, ListedTaken
    <2>3. call[r] # NoRequest /\ {"app", "pid", "listed"} \subseteq DOMAIN call[r]
        BY <1>1, VisitorAt
    <2>4. /\ Alone(r) /\ Onward(call[r], call'[r]) /\ call'[r].pc = "find_public_app"
          /\ call'[r].listed = v /\ call'[r].app = call[r].app /\ call'[r].pid = call[r].pid
        BY <2>2, <2>3, TakesListed
    <2> QED
        BY <1>1, <1>2, <1>4, <2>1, <2>4, VisitorMoves
<1> QED
    BY <1>3, <1>4

LEMMA FindPublicAppMoves ==
    ASSUME CallsOK, NEW r \in Request, FindPublicApp(r)
    PROVE  /\ Moves(r) /\ UNCHANGED <<tables, storeVars>>
           /\ call[r].pc = "find_public_app"
           /\ \/ /\ call'[r].app \in PublicApp(call[r].of, call[r].slug)
                 /\ Onward(call[r], call'[r]) /\ call'[r].pc = "find_public_page"
                 /\ call'[r].listed = call[r].listed /\ call'[r].pid = call[r].pid
              \/ PublicApp(call[r].of, call[r].slug) = {} /\ NotFound(r)
<1>1. call[r].pc = "find_public_app" /\ UNCHANGED <<tables, storeVars>>
    BY DEF FindPublicApp, At
<1>2. IsVisit(call[r]) \/ IsUnlock(call[r])
    BY <1>1, VisitorAt
<1>3. CASE PublicApp(call[r].of, call[r].slug) = {} /\ NotFound(r)
    BY <1>1, <1>2, <1>3, NotFoundMoves
<1>4. ASSUME NEW a \in PublicApp(call[r].of, call[r].slug),
             call' = [call EXCEPT ![r].app = a, ![r].pc = "find_public_page"]
      PROVE  /\ Moves(r) /\ call'[r].app = a /\ call'[r].pid = call[r].pid
             /\ call'[r].listed = call[r].listed
             /\ Onward(call[r], call'[r]) /\ call'[r].pc = "find_public_page"
    <2>2. AppTaken(r, a, "find_public_page")
        BY <1>4 DEF AppTaken
    <2>3. call[r] # NoRequest /\ {"app", "pid", "listed"} \subseteq DOMAIN call[r]
        BY <1>1, VisitorAt
    <2>4. /\ Alone(r) /\ Onward(call[r], call'[r]) /\ call'[r].pc = "find_public_page"
          /\ call'[r].listed = call[r].listed /\ call'[r].app = a /\ call'[r].pid = call[r].pid
        BY <2>2, <2>3, TakesApp
    <2> QED
        BY <1>1, <1>2, <2>4, VisitorMoves
<1> QED
    BY <1>1, <1>3, <1>4 DEF FindPublicApp

LEMMA UnlockPageMoves ==
    ASSUME CallsOK, NEW r \in Request, UnlockPage(r)
    PROVE  /\ Moves(r) /\ call'[r] = NoRequest
           /\ UNCHANGED <<users, listed, signedIn, apps, pages, made, raced, broken, storeVars>>
BY EndMoves, EndEffect DEF UnlockPage

\* The page that a visit finds, 0 if none.
AnyPage(S) == IF S = {} THEN 0 ELSE CHOOSE q \in S : TRUE

Found(a, s) == AnyPage(PageAt(a, s))

LEMMA FoundIsThere ==
    ASSUME NEW a, NEW s
    PROVE  Found(a, s) = 0 \/ Found(a, s) \in PageAt(a, s)
BY DEF Found, AnyPage

LEMMA FindPublicPageMoves ==
    ASSUME CallsOK, NEW r \in Request, FindPublicPage(r)
    PROVE  /\ Moves(r) /\ UNCHANGED <<tables, storeVars>>
           /\ IsVisit(call[r]) /\ call[r].pc = "find_public_page"
           /\ Onward(call[r], call'[r])
           /\ LET p       == Found(call[r].app, call[r].page)
                  verdict == Verdict(call[r], p, call[r].listed)
              IN  \/ /\ verdict = "page"
                     /\ call'[r].pid = p /\ call'[r].pc = "load_rows"
                     /\ call'[r].app = call[r].app
                  \/ /\ verdict # "page"
                     /\ call'[r].answer = verdict /\ call'[r].pc = "answered"
                     /\ call'[r].app = call[r].app /\ call'[r].pid = call[r].pid
<1>1. /\ call[r].pc = "find_public_page" /\ call[r].op = "visit"
      /\ UNCHANGED <<tables, storeVars>>
    BY DEF FindPublicPage, At
<1>2. IsVisit(call[r]) /\ call[r] # NoRequest
    BY <1>1, VisitorAt
<1>3. {"app", "pid"} \subseteq DOMAIN call[r]
    BY <1>1, VisitorAt
<1>4. PICK p, v : p = Found(call[r].app, call[r].page) /\ v = Verdict(call[r], p, call[r].listed)
    OBVIOUS
<1>5. IF v = "page" THEN PageTaken(r, p, "load_rows") ELSE AnswerWith(r, v)
    BY <1>4 DEF FindPublicPage, Found, AnyPage, PageTaken
<1>6. CASE v = "page"
    <2>1. /\ Alone(r) /\ Onward(call[r], call'[r]) /\ call'[r].pc = "load_rows"
          /\ call'[r].app = call[r].app /\ call'[r].pid = p
        BY <1>2, <1>3, <1>5, <1>6, TakesPage
    <2> QED
        BY <1>1, <1>2, <1>4, <1>6, <2>1, VisitorMoves
<1>7. CASE v # "page"
    BY <1>1, <1>2, <1>3, <1>4, <1>5, <1>7, AnswersEffect, AnswersMove
<1> QED
    BY <1>6, <1>7

LEMMA LoadRowsMoves ==
    ASSUME CallsOK, NEW r \in Request, LoadRows(r)
    PROVE  /\ Moves(r) /\ UNCHANGED <<tables, storeVars>>
           /\ IsVisit(call[r]) /\ call[r].pc = "load_rows"
           /\ Onward(call[r], call'[r]) /\ call'[r].pc = "answered"
           /\ call'[r].answer = (IF call[r].pid \in DOMAIN pages THEN "page" ELSE "error")
           /\ call'[r].app = call[r].app /\ call'[r].pid = call[r].pid
<1>1. call[r].pc = "load_rows" /\ UNCHANGED <<tables, storeVars>>
    BY DEF LoadRows, At
<1>2. IsVisit(call[r])
    BY <1>1, VisitorAt DEF CallsOK, IsCall, IsUnlock
<1>3. PICK v : v = (IF call[r].pid \in DOMAIN pages THEN "page" ELSE "error")
    OBVIOUS
<1>4. AnswerWith(r, v) /\ {"app", "pid"} \subseteq DOMAIN call[r]
    BY <1>1, <1>3, VisitorAt DEF LoadRows
<1> QED
    BY <1>1, <1>2, <1>3, <1>4, AnswersEffect, AnswersMove

LEMMA AnsweredMoves ==
    ASSUME CallsOK, NEW r \in Request, Answered(r)
    PROVE  /\ Moves(r) /\ call'[r] = NoRequest /\ UNCHANGED <<tables, storeVars>>
BY EndMoves, EndEffect DEF Answered

-----------------------------------------------------------------------------
(* A request begins *)

LEMMA RequestsAreCalls ==
    ASSUME NEW c, IsRequest(c)
    PROVE  /\ c # NoRequest /\ c.app = 0 /\ c.pid = 0
           /\ \/ IsForm(c) /\ c.pc = FirstStatement(c.op)
              \/ IsVisit(c) /\ c.pc = "find_owner"
              \/ IsUnlock(c) /\ c.pc = "find_owner"
           /\ c.op \in {"register", "create_app"} => c.page = Home
<1>1. CASE c.op = "visit" /\ c = Visit(c.user, c.of, c.slug, c.page)
    BY <1>1, NoRequestIsNothing DEF Visit, IsVisit, VisitFields
<1>2. CASE c.op = "unlock" /\ c = Unlock(c.of, c.page, c.arg)
    BY <1>2, NoRequestIsNothing DEF Unlock, IsUnlock, UnlockFields
<1>3. CASE c.op \in {"register", "create_app"} /\ c = Request0(c.op, c.user, c.slug, Home, "none")
    <2>1. DOMAIN c = FormFields /\ c.pc = FirstStatement(c.op) /\ c.app = 0 /\ c.pid = 0
          /\ c.page = Home
        BY <1>3 DEF Request0, FormFields
    <2>2. <<c.op, c.pc>> \in FormStations
        BY <1>3, <2>1 DEF FirstStatement, FormStations
    <2> QED
        BY <2>1, <2>2, NoRequestIsNothing DEF IsForm
<1>4. CASE /\ c.op \in {"login", "logout", "profile_form", "rename_app", "dress_app",
                        "publish_app", "delete_app", "data", "create_page", "dress_page",
                        "publish_page", "access_page", "delete_page"}
           /\ c = Request0(c.op, c.user, c.slug, c.page, c.arg)
    <2>1. DOMAIN c = FormFields /\ c.pc = FirstStatement(c.op) /\ c.app = 0 /\ c.pid = 0
        BY <1>4 DEF Request0, FormFields
    <2>2. <<c.op, c.pc>> \in FormStations
        BY <1>4, <2>1 DEF FirstStatement, FormStations
    <2> QED
        BY <1>4, <2>1, <2>2, NoRequestIsNothing DEF IsForm
<1> QED
    BY <1>1, <1>2, <1>3, <1>4 DEF IsRequest

LEMMA BeginMoves ==
    ASSUME CallsOK, NEW m \in Menus, menu = m, NEW r \in Request, Begin(r)
    PROVE  /\ Alone(r) /\ UNCHANGED <<tables, storeVars>>
           /\ call[r] = NoRequest /\ call'[r] # NoRequest
           /\ call'[r].app = 0 /\ call'[r].pid = 0
           /\ \/ /\ IsForm(call'[r]) /\ call'[r].pc = FirstStatement(call'[r].op)
                 /\ call'[r].op \notin {"register", "login"} => call'[r].user \in signedIn
              \/ IsVisit(call'[r]) /\ call'[r].pc = "find_owner"
              \/ IsUnlock(call'[r]) /\ call'[r].pc = "find_owner"
           /\ call'[r].op \in {"register", "create_app"} => call'[r].page = Home
<1>1. PICK c \in menu :
          /\ NeedsSession(c) => c.user \in signedIn
          /\ call' = [call EXCEPT ![r] = IF c.op = "visit" THEN [c EXCEPT !.jar = unlocked] ELSE c]
    BY DEF Begin
<1>2. IsRequest(c)
    BY <1>1, MenusAssumption
<1>3. PICK d : d = IF c.op = "visit" THEN [c EXCEPT !.jar = unlocked] ELSE c
    OBVIOUS
<1>4. Alone(r) /\ call'[r] = d /\ call[r] = NoRequest /\ UNCHANGED <<tables, storeVars>>
    BY <1>1, <1>3 DEF Begin, CallsOK, Alone
<1>5. /\ c # NoRequest /\ c.app = 0 /\ c.pid = 0
      /\ \/ IsForm(c) /\ c.pc = FirstStatement(c.op)
         \/ IsVisit(c) /\ c.pc = "find_owner"
         \/ IsUnlock(c) /\ c.pc = "find_owner"
      /\ c.op \in {"register", "create_app"} => c.page = Home
    BY <1>2, RequestsAreCalls
<1>6. CASE IsVisit(c)
    <2>1. d.app = 0 /\ d.pid = 0 /\ IsVisit(d) /\ d.pc = "find_owner" /\ d # NoRequest
        <3>1. c.op = "visit" /\ DOMAIN c = VisitFields /\ c.pc = "find_owner"
            BY <1>5, <1>6 DEF IsVisit, IsForm, IsUnlock, FormStations
        <3>2. d = [c EXCEPT !.jar = unlocked]
            BY <1>3, <3>1
        <3>3. /\ DOMAIN d = VisitFields /\ d.op = "visit" /\ d.pc = "find_owner"
              /\ d.app = 0 /\ d.pid = 0
            BY <1>5, <3>1, <3>2 DEF VisitFields
        <3> QED
            BY <3>3, NoRequestIsNothing DEF IsVisit
    <2> QED
        BY <1>4, <2>1 DEF IsVisit
<1>7. CASE ~IsVisit(c)
    <2>1. d = c
        BY <1>3, <1>5, <1>7 DEF IsForm, IsUnlock, FormStations
    <2>2. c.op \notin {"register", "login", "visit", "unlock"} => c.user \in signedIn
        BY <1>1 DEF NeedsSession
    <2>3. IsForm(c) => c.op \notin {"visit", "unlock"}
        BY DEF IsForm, FormStations
    <2> QED
        BY <1>4, <1>5, <1>7, <2>1, <2>2, <2>3
<1> QED
    BY <1>6, <1>7

LEMMA ProceedMoves ==
    ASSUME CallsOK, NEW r \in Request, Proceed(r)
    PROVE  Moves(r)
<1>1. AccountStep(r) => Moves(r)
    BY AccountStepsMove DEF AccountStep
<1>2. AppStep(r) => Moves(r)
    BY AppStepsMove, FindAppMoves, InsertAppMoves DEF AppStep
<1>3. PageStep(r) => Moves(r)
    BY PageStepsMove, FindOwnPageMoves, InsertPageMoves DEF PageStep
<1>4. PublicStep(r) => Moves(r)
    BY FindOwnerMoves, FindPublicAppMoves, UnlockPageMoves, FindPublicPageMoves, LoadRowsMoves,
       AnsweredMoves DEF PublicStep
<1>5. StoreStep(r) => Moves(r)
    BY StoreStepsMove DEF StoreStep
<1> QED
    BY <1>1, <1>2, <1>3, <1>4, <1>5 DEF Proceed

-----------------------------------------------------------------------------
(* Type correctness *)

AppFields  == {"owner", "slug", "default", "published"}
PageFields == {"app", "slug", "author", "published", "unlisted", "password", "baseline"}

TablesOK ==
    /\ DOMAIN made = {"apps", "pages"} /\ made.apps \in Nat /\ made.pages \in Nat
    /\ \A a \in DOMAIN apps : DOMAIN apps[a] = AppFields /\ apps[a].default \in BOOLEAN
    /\ \A p \in DOMAIN pages : DOMAIN pages[p] = PageFields /\ pages[p].baseline \in BOOLEAN
    /\ WorkspaceTypeOK

\* What a form knows is true of the tables, but for what is deleted meanwhile;
\* ids are not handed out twice.
Sound(c) ==
    /\ IsForm(c) =>
           /\ c.pc \notin {"create_user", "find_user"} => c.user \in users
           /\ c.app \in Nat /\ c.app <= made.apps
           /\ c.app \in DOMAIN apps => apps[c.app].owner = c.user
           /\ c.op \in {"register", "create_app"} => c.page = Home
    /\ c # NoRequest => c.pid \in Nat /\ c.pid <= made.pages

AtFirstApp(c) == c.op = "register" /\ c.pc = "insert_app"

\* A registration that has yet to make the first app is the only one of its
\* user, who has no default app.
FirstAppsDue ==
    \A r \in Request :
        AtFirstApp(call[r]) =>
            /\ \A a \in AppsOf(call[r].user) : ~apps[a].default
            /\ \A q \in Request \ {r} : ~(AtFirstApp(call[q]) /\ call[q].user = call[r].user)

TypeInv ==
    /\ CallsOK /\ menu \in Menus
    /\ TablesOK
    /\ \A r \in Request : Sound(call[r])
    /\ FirstAppsDue

\* What no step undoes.
Evolves ==
    /\ users \subseteq users' /\ broken \subseteq broken' /\ raced \subseteq raced'
    /\ made.apps <= made'.apps /\ made.pages <= made'.pages
    /\ \A a \in DOMAIN apps' :
           \/ a \in DOMAIN apps /\ apps'[a].owner = apps[a].owner /\ apps'[a].default = apps[a].default
           \/ a > made.apps
    /\ \A p \in DOMAIN pages' :
           \/ /\ p \in DOMAIN pages
              /\ pages'[p].app = pages[p].app /\ pages'[p].slug = pages[p].slug
              /\ pages'[p].author = pages[p].author
              /\ pages[p].baseline => pages'[p].baseline
           \/ p > made.pages

Quiet ==
    /\ UNCHANGED <<users, listed, signedIn, apps, pages, made>>
    /\ raced \subseteq raced' /\ broken \subseteq broken'

\* What the request of r knows after its step.
Carries(r) ==
    call'[r] # NoRequest =>
        /\ IsForm(call[r]) =>
               /\ call'[r].pc \notin {"create_user", "find_user"} /\ call[r].user \in users'
               /\ call'[r].pc = "insert_app" => call[r].pc = "create_user"
               /\ \/ call'[r].app = call[r].app
                  \/ /\ call'[r].app \in DOMAIN apps'
                     /\ apps'[call'[r].app].owner = call[r].user
        /\ call'[r].pid = call[r].pid \/ call'[r].pid \in DOMAIN pages'

LEMMA QuietIsFine ==
    ASSUME TablesOK, Quiet
    PROVE  TablesOK' /\ Evolves
BY DEF TablesOK, WorkspaceTypeOK, Quiet, Evolves

\* The fields of a request tell its kind.
LEMMA Kinds ==
    ASSUME NEW c
    PROVE  /\ IsForm(c) => {"arg", "user", "op", "page", "pid", "app"} \subseteq DOMAIN c /\ "of" \notin DOMAIN c
           /\ IsVisit(c) => {"of", "jar", "pid"} \subseteq DOMAIN c
           /\ IsUnlock(c) => {"of", "pid"} \subseteq DOMAIN c /\ "jar" \notin DOMAIN c
           /\ "pid" \notin DOMAIN NoRequest
BY DEF IsForm, IsVisit, IsUnlock, FormFields, VisitFields, UnlockFields, NoRequest

LEMMA OnwardKinds ==
    ASSUME NEW c, NEW d, IsCall(c), IsCall(d), Onward(c, d), d # NoRequest
    PROVE  /\ c # NoRequest
           /\ IsForm(d) <=> IsForm(c)
           /\ IsVisit(d) <=> IsVisit(c)
           /\ IsForm(c) => d.user = c.user /\ d.op = c.op /\ d.page = c.page /\ d.slug = c.slug
<1>1. DOMAIN d = DOMAIN c /\ "pid" \in DOMAIN d
    BY Kinds DEF IsCall, Onward
<1>2. c # NoRequest
    BY <1>1, Kinds
<1>3. (IsForm(d) <=> IsForm(c)) /\ (IsVisit(d) <=> IsVisit(c))
    BY <1>1, <1>2, Kinds DEF IsCall
<1> QED
    BY <1>1, <1>2, <1>3 DEF IsForm, FormFields, Onward

LEMMA MovesKeepSound ==
    ASSUME CallsOK, TablesOK, TablesOK', Evolves, \A q \in Request : Sound(call[q]),
           NEW r \in Request, Moves(r), Carries(r)
    PROVE  (\A q \in Request : Sound(call[q]))'
<1>1. ASSUME NEW q \in Request, q # r
      PROVE  Sound(call[q])'
    <2>1. call'[q] = call[q]
        BY <1>1 DEF Moves, Alone
    <2>2. PICK c : c = call[q]
        OBVIOUS
    <2>3. Sound(c)
        BY <2>2
    <2>4. Sound(c)'
        BY <2>3 DEF Sound, Evolves, TablesOK, WorkspaceTypeOK
    <2> QED
        BY <2>1, <2>2, <2>4 DEF Sound
<1>2. Sound(call[r])'
    <2>1. CASE call'[r] = NoRequest
        BY <2>1, NoRequestIsNothing DEF Sound
    <2>2. CASE call'[r] # NoRequest
        <3>1. Onward(call[r], call'[r]) /\ Sound(call[r])
            BY <2>2 DEF Moves
        <3>2. call[r] # NoRequest
            BY <2>2, <3>1, OnwardKinds DEF Moves, CallsOK
        <3>3. call'[r].pid \in Nat /\ call'[r].pid <= made'.pages
            BY <2>2, <3>1, <3>2 DEF Carries, Sound, TablesOK, WorkspaceTypeOK, Evolves
        <3>4. IsForm(call'[r]) => IsForm(call[r]) /\ call'[r].user = call[r].user
                 /\ call'[r].op = call[r].op /\ call'[r].page = call[r].page
            BY <2>2, <3>1, OnwardKinds DEF Moves, CallsOK
        <3> QED
            BY <2>2, <3>1, <3>2, <3>3, <3>4
               DEF Carries, Sound, TablesOK, WorkspaceTypeOK, Evolves
    <2> QED
        BY <2>1, <2>2
<1> QED
    BY <1>1, <1>2

LEMMA EndCarries ==
    ASSUME CallsOK, NEW r \in Request, End(r)
    PROVE  Carries(r)
BY EndEffect DEF Carries

\* A form goes on and knows what it knew.
LEMMA GoToCarries ==
    ASSUME TypeInv, NEW r \in Request, IsForm(call[r]), call[r].user \in users',
           NEW x, x \notin {"create_user", "find_user"}, GoTo(r, x),
           x = "insert_app" => call[r].pc = "create_user"
    PROVE  Carries(r)
BY GoToEffect, NoRequestIsNothing, Kinds DEF Carries, TypeInv

\* At its later stations a form's user is registered.
LEMMA UserIsThere ==
    ASSUME TypeInv, NEW r \in Request,
           call[r].pc \notin {"none", "find_owner", "find_public_app", "find_public_page",
                              "load_rows", "answered", "create_user", "find_user"}
    PROVE  /\ IsForm(call[r]) /\ call[r].user \in users
           /\ call[r].app \in Nat /\ call[r].pid \in Nat
           /\ call[r].app \in DOMAIN apps => apps[call[r].app].owner = call[r].user
BY FormAt DEF TypeInv, Sound

LEMMA AccountStepsKeepTables ==
    ASSUME TypeInv, NEW r \in Request, AccountStep(r)
    PROVE  /\ TablesOK' /\ Evolves /\ Carries(r)
           /\ UNCHANGED <<apps, pages, made, raced, broken, storeVars>>
<1>1. CASE CreateUser(r)
    <2>1. IsForm(call[r])
        BY <1>1, FormAt DEF CreateUser, At, TypeInv
    <2>2. Carries(r)
        BY <1>1, <2>1, EndCarries, GoToCarries DEF CreateUser, TypeInv, At
    <2> QED
        BY <1>1, <2>2 DEF CreateUser, TypeInv, TablesOK, WorkspaceTypeOK, Evolves
<1>2. CASE FindUser(r)
    <2>1. IsForm(call[r])
        BY <1>2, FormAt DEF FindUser, At, TypeInv
    <2>2. Carries(r)
        BY <1>2, <2>1, EndCarries, GoToCarries DEF FindUser, TypeInv, tables
    <2>3. Quiet
        BY <1>2 DEF FindUser, tables, Quiet
    <2> QED
        BY <1>2, <2>2, <2>3, QuietIsFine DEF TypeInv, FindUser, tables
<1>3. CASE CreateSession(r)
    <2>1. call[r].user \in users
        BY <1>3, UserIsThere DEF CreateSession, At
    <2> QED
        BY <1>3, <2>1, EndCarries DEF CreateSession, TypeInv, TablesOK, WorkspaceTypeOK, Evolves
<1>4. CASE DeleteSession(r)
    BY <1>4, EndCarries DEF DeleteSession, TypeInv, TablesOK, WorkspaceTypeOK, Evolves
<1>5. CASE UpdateUser(r)
    <2>1. call[r].user \in users
        BY <1>5, UserIsThere DEF UpdateUser, At
    <2> QED
        BY <1>5, <2>1, EndCarries DEF UpdateUser, TypeInv, TablesOK, WorkspaceTypeOK, Evolves
<1> QED
    BY <1>1, <1>2, <1>3, <1>4, <1>5 DEF AccountStep

LEMMA InsertAppKeepsTables ==
    ASSUME TypeInv, NEW r \in Request, InsertApp(r)
    PROVE  TablesOK' /\ Evolves /\ Carries(r)
<1> USE DEF TypeInv
<1>1. /\ IsForm(call[r]) /\ call[r].user \in users
      /\ UNCHANGED <<users, listed, signedIn, pages, raced, broken>>
    BY UserIsThere DEF InsertApp, At
<1>2. CASE call'[r] = NoRequest
    <2>1. UNCHANGED <<made, apps>>
        BY <1>2, InsertAppMoves
    <2> QED
        BY <1>1, <1>2, <2>1, QuietIsFine DEF Quiet, Carries
<1>3. CASE call'[r] # NoRequest
    <2> DEFINE n == made.apps + 1
    <2>1. /\ AppAt(call[r].user, call[r].slug) = {}
          /\ call'[r].app = n /\ call'[r].pc = "insert_page" /\ call'[r].pid = call[r].pid
          /\ made' = [made EXCEPT !.apps = n]
          /\ apps' = [b \in DOMAIN apps \cup {n} |-> IF b = n THEN FirstApp(call[r]) ELSE apps[b]]
          /\ call[r].pc = "insert_app"
        BY <1>3, InsertAppMoves
    <2>2. /\ DOMAIN made' = {"apps", "pages"} /\ made'.apps = n /\ made'.pages = made.pages
          /\ n \in Nat /\ n \notin DOMAIN apps
        BY <2>1 DEF TablesOK, WorkspaceTypeOK
    <2>3. /\ DOMAIN apps' = DOMAIN apps \cup {n} /\ \A b \in DOMAIN apps : apps'[b] = apps[b]
          /\ apps'[n].owner = call[r].user /\ apps'[n].slug = call[r].slug
          /\ apps'[n].default \in BOOLEAN /\ (apps'[n].default => call[r].op = "register")
          /\ DOMAIN apps'[n] = AppFields
        BY <2>1, <2>2 DEF FirstApp, AppFields
    <2>4. Evolves
        BY <1>1, <2>2, <2>3 DEF Evolves, TablesOK
    <2>5. Carries(r)
        BY <1>1, <2>1, <2>3 DEF Carries
    <2>6. \A a \in AppsOf(call[r].user) :
              apps[a].slug # call[r].slug /\ (call[r].op = "register" => ~apps[a].default)
        BY <2>1 DEF AppAt, FirstAppsDue, AtFirstApp
    <2>7. ASSUME NEW a \in DOMAIN apps', NEW b \in DOMAIN apps', a # b,
                 apps'[a].owner = apps'[b].owner
          PROVE  apps'[a].slug # apps'[b].slug /\ ~(apps'[a].default /\ apps'[b].default)
        <3>1. CASE a \in DOMAIN apps /\ b \in DOMAIN apps
            BY <2>3, <2>7, <3>1 DEF TablesOK, WorkspaceTypeOK
        <3>2. CASE a = n
            BY <2>3, <2>6, <2>7, <3>2 DEF AppsOf
        <3>3. CASE b = n
            BY <2>3, <2>6, <2>7, <3>3 DEF AppsOf
        <3> QED
            BY <2>3, <3>1, <3>2, <3>3
    <2>8. DOMAIN apps' \subseteq 1..made'.apps /\ DOMAIN pages' \subseteq 1..made'.pages
        BY <1>1, <2>2, <2>3 DEF TablesOK, WorkspaceTypeOK
    <2>9. /\ listed' \cup signedIn' \cup {apps'[a].owner : a \in DOMAIN apps'} \subseteq users'
          /\ {pages'[p].app : p \in DOMAIN pages'} \subseteq DOMAIN apps'
        BY <1>1, <2>3 DEF TablesOK, WorkspaceTypeOK
    <2>10. /\ \A a \in DOMAIN apps' : DOMAIN apps'[a] = AppFields /\ apps'[a].default \in BOOLEAN
           /\ \A p \in DOMAIN pages' : DOMAIN pages'[p] = PageFields /\ pages'[p].baseline \in BOOLEAN
           /\ \A p, q \in DOMAIN pages' :
                  p # q /\ pages'[p].app = pages'[q].app => pages'[p].slug # pages'[q].slug
        BY <1>1, <2>3 DEF TablesOK, WorkspaceTypeOK
    <2>11. TablesOK'
        BY <2>2, <2>7, <2>8, <2>9, <2>10 DEF TablesOK, WorkspaceTypeOK
    <2> QED
        BY <2>4, <2>5, <2>11
<1> QED
    BY <1>2, <1>3

LEMMA RenameAppKeepsTables ==
    ASSUME TypeInv, NEW r \in Request, RenameApp(r)
    PROVE  TablesOK' /\ Evolves /\ Carries(r)
<1> USE DEF TypeInv
<1>1. /\ Carries(r)
      /\ UNCHANGED <<users, listed, signedIn, pages, made, raced, broken>>
    BY EndCarries DEF RenameApp
<1>2. CASE UNCHANGED apps
    BY <1>1, <1>2, QuietIsFine DEF Quiet
<1>3. CASE /\ call[r].app \in DOMAIN apps
           /\ AppAt(call[r].user, call[r].arg) \ {call[r].app} = {}
           /\ apps' = [apps EXCEPT ![call[r].app].slug = call[r].arg]
    <2> PICK x : x = call[r].app
        OBVIOUS
    <2>1. /\ x \in DOMAIN apps /\ apps[x].owner = call[r].user
          /\ \A a \in DOMAIN apps : a # x /\ apps[a].owner = apps[x].owner =>
                 apps[a].slug # call[r].arg
        BY <1>3, UserIsThere DEF RenameApp, At, AppAt, AppsOf
    <2>2. "slug" \in DOMAIN apps[x]
        BY <2>1 DEF TablesOK, AppFields
    <2>3. /\ DOMAIN apps' = DOMAIN apps
          /\ \A a \in DOMAIN apps : a # x => apps'[a] = apps[a]
          /\ \A f \in DOMAIN apps[x] \ {"slug"} : apps'[x][f] = apps[x][f]
          /\ apps'[x].slug = call[r].arg /\ DOMAIN apps'[x] = DOMAIN apps[x]
        BY <1>3, <2>1, <2>2
    <2>4. \A a \in DOMAIN apps :
              /\ apps'[a].owner = apps[a].owner /\ apps'[a].default = apps[a].default
              /\ DOMAIN apps'[a] = AppFields /\ apps'[a].default \in BOOLEAN
        BY <2>3 DEF TablesOK, AppFields
    <2>5. ASSUME NEW a \in DOMAIN apps', NEW b \in DOMAIN apps', a # b,
                 apps'[a].owner = apps'[b].owner
          PROVE  apps'[a].slug # apps'[b].slug /\ ~(apps'[a].default /\ apps'[b].default)
        BY <2>1, <2>3, <2>4, <2>5 DEF TablesOK, WorkspaceTypeOK
    <2>6. TablesOK'
        BY <1>1, <2>3, <2>4, <2>5 DEF TablesOK, WorkspaceTypeOK
    <2>7. Evolves
        BY <1>1, <2>3, <2>4 DEF TablesOK, Evolves
    <2> QED
        BY <1>1, <2>6, <2>7
<1> QED
    BY <1>2, <1>3 DEF RenameApp

LEMMA PublishAppKeepsTables ==
    ASSUME TypeInv, NEW r \in Request, PublishApp(r)
    PROVE  /\ TablesOK' /\ Evolves /\ Carries(r)
           /\ DOMAIN apps' = DOMAIN apps
           /\ \A a \in DOMAIN apps :
                  /\ apps'[a].owner = apps[a].owner /\ apps'[a].default = apps[a].default
                  /\ apps'[a].slug = apps[a].slug
<1> USE DEF TypeInv
<1>1. /\ Carries(r)
      /\ UNCHANGED <<users, listed, signedIn, pages, made, raced, broken>>
    BY EndCarries DEF PublishApp
<1>2. DOMAIN apps' = DOMAIN apps
    BY DEF PublishApp
<1>3. \A a \in DOMAIN apps :
          /\ apps'[a].owner = apps[a].owner /\ apps'[a].default = apps[a].default
          /\ apps'[a].slug = apps[a].slug
          /\ DOMAIN apps'[a] = AppFields /\ apps'[a].default \in BOOLEAN
    BY DEF PublishApp, TablesOK, AppFields
<1>4. TablesOK'
    BY <1>1, <1>2, <1>3 DEF TablesOK, WorkspaceTypeOK
<1>5. Evolves
    BY <1>1, <1>2, <1>3 DEF TablesOK, Evolves
<1> QED
    BY <1>1, <1>2, <1>3, <1>4, <1>5

LEMMA DeleteAppKeepsTables ==
    ASSUME TypeInv, NEW r \in Request, DeleteApp(r)
    PROVE  TablesOK' /\ Evolves /\ Carries(r)
<1> USE DEF TypeInv
<1>1. IsForm(call[r]) /\ call[r].user \in users
    BY UserIsThere DEF DeleteApp, At
<1>2. Carries(r)
    BY <1>1, GoToCarries DEF DeleteApp
<1>3. /\ DOMAIN apps' = DOMAIN apps \ {call[r].app}
      /\ \A a \in DOMAIN apps' : apps'[a] = apps[a]
      /\ DOMAIN pages' = {p \in DOMAIN pages : pages[p].app # call[r].app}
      /\ \A p \in DOMAIN pages' : pages'[p] = pages[p]
      /\ UNCHANGED <<users, listed, signedIn, made, raced>> /\ broken \subseteq broken'
    BY DEF DeleteApp, RemainingPages
<1>4. TablesOK'
    BY <1>3 DEF TablesOK, WorkspaceTypeOK
<1>5. Evolves
    BY <1>3 DEF TablesOK, Evolves
<1> QED
    BY <1>2, <1>4, <1>5

LEMMA AppStepsKeepTables ==
    ASSUME TypeInv, NEW r \in Request, AppStep(r)
    PROVE  TablesOK' /\ Evolves /\ Carries(r)
<1> USE DEF TypeInv
<1>1. CASE FindApp(r)
    <2>1. Quiet
        BY <1>1, FindAppMoves DEF Quiet, tables
    <2>2. Carries(r)
        <3>1. IsForm(call[r]) /\ call[r].user \in users
            BY <1>1, UserIsThere DEF FindApp, At
        <3>2. AfterTheApp(call[r].op) \notin {"create_user", "find_user", "insert_app"}
            BY <3>1 DEF AfterTheApp, IsForm, FormStations
        <3> QED
            BY <2>1, <3>1, <3>2, <1>1, FindAppMoves DEF Carries, AppAt, AppsOf, Quiet
    <2> QED
        BY <2>1, <2>2, QuietIsFine
<1>2. CASE CountApps(r)
    <2>1. Quiet
        BY <1>2 DEF Quiet, CountApps
    <2>2. IsForm(call[r]) /\ call[r].user \in users
        BY <1>2, UserIsThere DEF CountApps, At
    <2>3. Carries(r)
        BY <1>2, <2>1, <2>2, GoToCarries, EndCarries DEF CountApps, Quiet
    <2> QED
        BY <2>1, <2>3, QuietIsFine
<1>3. CASE Dress(r)
    BY <1>3, EndCarries, QuietIsFine DEF Dress, Quiet, tables
<1> QED
    BY <1>1, <1>2, <1>3, InsertAppKeepsTables, RenameAppKeepsTables, PublishAppKeepsTables,
       DeleteAppKeepsTables DEF AppStep

LEMMA InsertPageKeepsTables ==
    ASSUME TypeInv, NEW r \in Request, InsertPage(r)
    PROVE  TablesOK' /\ Evolves /\ Carries(r)
<1> USE DEF TypeInv
<1>1. /\ IsForm(call[r]) /\ call[r].user \in users
      /\ UNCHANGED <<users, listed, signedIn, apps, raced, broken>>
    BY UserIsThere DEF InsertPage, At
<1>2. CASE call'[r] = NoRequest
    <2>1. UNCHANGED <<made, pages>>
        BY <1>2, InsertPageMoves
    <2> QED
        BY <1>1, <1>2, <2>1, QuietIsFine DEF Quiet, Carries
<1>3. CASE call'[r] # NoRequest
    <2> DEFINE n == made.pages + 1
    <2>1. /\ call[r].app \in DOMAIN apps /\ PageAt(call[r].app, call[r].page) = {}
          /\ call'[r].pid = n /\ call'[r].pc = "snapshot" /\ call'[r].app = call[r].app
          /\ made' = [made EXCEPT !.pages = n]
          /\ pages' = [b \in DOMAIN pages \cup {n} |-> IF b = n THEN NewPage(call[r]) ELSE pages[b]]
        BY <1>3, InsertPageMoves
    <2>2. /\ DOMAIN made' = {"apps", "pages"} /\ made'.pages = n /\ made'.apps = made.apps
          /\ n \in Nat /\ n \notin DOMAIN pages
        BY <2>1 DEF TablesOK, WorkspaceTypeOK
    <2>3. /\ DOMAIN pages' = DOMAIN pages \cup {n} /\ \A b \in DOMAIN pages : pages'[b] = pages[b]
          /\ pages'[n].app = call[r].app /\ pages'[n].slug = call[r].page
          /\ pages'[n].baseline \in BOOLEAN
          /\ DOMAIN pages'[n] = PageFields
        BY <2>1, <2>2 DEF NewPage, PageFields
    <2>4. Evolves
        BY <1>1, <2>2, <2>3 DEF Evolves, TablesOK
    <2>5. Carries(r)
        BY <1>1, <2>1, <2>3 DEF Carries
    <2>6. \A p \in DOMAIN pages : pages[p].app = call[r].app => pages[p].slug # call[r].page
        BY <2>1 DEF PageAt
    <2>7. ASSUME NEW p \in DOMAIN pages', NEW q \in DOMAIN pages', p # q,
                 pages'[p].app = pages'[q].app
          PROVE  pages'[p].slug # pages'[q].slug
        <3>1. CASE p \in DOMAIN pages /\ q \in DOMAIN pages
            BY <2>3, <2>7, <3>1 DEF TablesOK, WorkspaceTypeOK
        <3>2. CASE p = n
            BY <2>3, <2>6, <2>7, <3>2
        <3>3. CASE q = n
            BY <2>3, <2>6, <2>7, <3>3
        <3> QED
            BY <2>3, <3>1, <3>2, <3>3
    <2>8. DOMAIN apps' \subseteq 1..made'.apps /\ DOMAIN pages' \subseteq 1..made'.pages
        BY <1>1, <2>2, <2>3 DEF TablesOK, WorkspaceTypeOK
    <2>9. /\ listed' \cup signedIn' \cup {apps'[a].owner : a \in DOMAIN apps'} \subseteq users'
          /\ {pages'[p].app : p \in DOMAIN pages'} \subseteq DOMAIN apps'
        <3>1. \A p \in DOMAIN pages' : pages'[p].app \in DOMAIN apps'
            BY <1>1, <2>1, <2>3 DEF TablesOK, WorkspaceTypeOK
        <3>2. listed' \cup signedIn' \cup {apps'[a].owner : a \in DOMAIN apps'} \subseteq users'
            BY <1>1 DEF TablesOK, WorkspaceTypeOK
        <3> QED
            BY <3>1, <3>2
    <2>10. /\ \A a \in DOMAIN apps' : DOMAIN apps'[a] = AppFields /\ apps'[a].default \in BOOLEAN
           /\ \A p \in DOMAIN pages' : DOMAIN pages'[p] = PageFields /\ pages'[p].baseline \in BOOLEAN
           /\ \A a, b \in DOMAIN apps' :
                  a # b /\ apps'[a].owner = apps'[b].owner =>
                      apps'[a].slug # apps'[b].slug /\ ~(apps'[a].default /\ apps'[b].default)
        BY <1>1, <2>3 DEF TablesOK, WorkspaceTypeOK
    <2>11. TablesOK'
        BY <2>2, <2>7, <2>8, <2>9, <2>10 DEF TablesOK, WorkspaceTypeOK
    <2> QED
        BY <2>4, <2>5, <2>11
<1> QED
    BY <1>2, <1>3

\* An UPDATE of other columns than the keys.
PagesInPlace ==
    /\ DOMAIN pages' = DOMAIN pages
    /\ \A p \in DOMAIN pages :
           /\ DOMAIN pages'[p] = PageFields /\ pages'[p].baseline \in BOOLEAN
           /\ pages'[p].app = pages[p].app /\ pages'[p].slug = pages[p].slug
           /\ pages'[p].author = pages[p].author
           /\ pages[p].baseline => pages'[p].baseline

LEMMA PagesInPlaceAreFine ==
    ASSUME TablesOK, PagesInPlace, UNCHANGED <<users, listed, signedIn, apps, made, raced, broken>>
    PROVE  TablesOK' /\ Evolves
<1>1. TablesOK'
    BY DEF PagesInPlace, TablesOK, WorkspaceTypeOK
<1>2. Evolves
    BY DEF PagesInPlace, TablesOK, Evolves
<1> QED
    BY <1>1, <1>2

LEMMA WithAccessEffect ==
    ASSUME NEW x, NEW access
    PROVE  /\ DOMAIN WithAccess(x, access) = DOMAIN x
           /\ \A f \in DOMAIN x \ {"password", "unlisted"} : WithAccess(x, access)[f] = x[f]
<1> PICK v, w : v = access.password /\ w = access.unlisted
    OBVIOUS
<1> DEFINE y == [x EXCEPT !.password = v]
<1>1. DOMAIN y = DOMAIN x /\ \A f \in DOMAIN x \ {"password"} : y[f] = x[f]
    OBVIOUS
<1>2. WithAccess(x, access) = [y EXCEPT !.unlisted = w]
    BY DEF WithAccess
<1> HIDE DEF y
<1> QED
    BY <1>1, <1>2

LEMMA PageUpdatesAreInPlace ==
    ASSUME TypeInv, NEW r \in Request
    PROVE  /\ SnapshotBaseline(r) => PagesInPlace
           /\ UpdatePage(r) => PagesInPlace
           /\ UpdatePageAccess(r) => PagesInPlace
<1>1. SnapshotBaseline(r) => PagesInPlace
    <2> SUFFICES ASSUME SnapshotBaseline(r), call[r].pid \in DOMAIN pages
                 PROVE  PagesInPlace
        BY DEF SnapshotBaseline, PagesInPlace, TypeInv, TablesOK
    <2> PICK x : x = call[r].pid
        OBVIOUS
    <2>1. pages' = [pages EXCEPT ![x].baseline = TRUE] /\ x \in DOMAIN pages
        BY DEF SnapshotBaseline
    <2>2. DOMAIN pages[x] = PageFields
        BY <2>1 DEF TypeInv, TablesOK
    <2>3. /\ DOMAIN pages' = DOMAIN pages /\ \A p \in DOMAIN pages : p # x => pages'[p] = pages[p]
          /\ DOMAIN pages'[x] = PageFields /\ pages'[x].baseline = TRUE
          /\ \A f \in PageFields \ {"baseline"} : pages'[x][f] = pages[x][f]
        BY <2>1, <2>2 DEF PageFields
    <2> QED
        BY <2>1, <2>3 DEF PagesInPlace, TypeInv, TablesOK, PageFields
<1>2. UpdatePage(r) => PagesInPlace
    BY DEF UpdatePage, PagesInPlace, TypeInv, TablesOK, PageFields
<1>3. UpdatePageAccess(r) => PagesInPlace
    <2> SUFFICES ASSUME UpdatePageAccess(r)
                 PROVE  PagesInPlace
        OBVIOUS
    <2>1. pages' = [p \in DOMAIN pages |->
                       IF p = call[r].pid THEN WithAccess(pages[p], call[r].arg) ELSE pages[p]]
        BY DEF UpdatePageAccess
    <2>2. ASSUME NEW p \in DOMAIN pages
          PROVE  /\ DOMAIN pages'[p] = DOMAIN pages[p]
                 /\ \A f \in DOMAIN pages[p] \ {"password", "unlisted"} : pages'[p][f] = pages[p][f]
        BY <2>1, WithAccessEffect
    <2> QED
        BY <2>1, <2>2 DEF PagesInPlace, TypeInv, TablesOK, PageFields
<1> QED
    BY <1>1, <1>2, <1>3

LEMMA DeletePageKeepsTables ==
    ASSUME TypeInv, NEW r \in Request, DeletePage(r)
    PROVE  TablesOK' /\ Evolves /\ Carries(r)
<1> USE DEF TypeInv
<1>1. /\ DOMAIN pages' = DOMAIN pages \ {call[r].pid}
      /\ \A p \in DOMAIN pages' : pages'[p] = pages[p]
      /\ UNCHANGED <<users, listed, signedIn, apps, made, raced, broken>>
    BY DEF DeletePage
<1>2. TablesOK'
    BY <1>1 DEF TablesOK, WorkspaceTypeOK
<1>3. Evolves
    BY <1>1 DEF TablesOK, Evolves
<1> QED
    BY <1>2, <1>3, EndCarries DEF DeletePage

LEMMA PageStepsKeepTables ==
    ASSUME TypeInv, NEW r \in Request, PageStep(r)
    PROVE  TablesOK' /\ Evolves /\ Carries(r)
<1> USE DEF TypeInv
<1>1. CASE FindOwnPage(r)
    <2>1. Quiet
        BY <1>1, FindOwnPageMoves DEF Quiet, tables
    <2>2. Carries(r)
        <3>1. IsForm(call[r]) /\ call[r].user \in users
            BY <1>1, UserIsThere DEF FindOwnPage, At
        <3>2. call[r].op \notin {"create_user", "find_user", "insert_app"}
            BY <3>1 DEF IsForm, FormStations
        <3> QED
            BY <2>1, <3>1, <3>2, <1>1, FindOwnPageMoves DEF Carries, Quiet
    <2> QED
        BY <2>1, <2>2, QuietIsFine
<1>2. CASE SnapshotBaseline(r)
    <2>1. IsForm(call[r]) /\ call[r].user \in users /\ PagesInPlace
        BY <1>2, UserIsThere, PageUpdatesAreInPlace DEF SnapshotBaseline, At
    <2>2. UNCHANGED <<users, listed, signedIn, apps, made, raced, broken>>
        BY <1>2 DEF SnapshotBaseline
    <2>3. Carries(r)
        BY <1>2, <2>1, <2>2, GoToCarries, EndCarries DEF SnapshotBaseline
    <2> QED
        BY <2>1, <2>2, <2>3, PagesInPlaceAreFine
<1>3. CASE UpdatePage(r)
    BY <1>3, PageUpdatesAreInPlace, PagesInPlaceAreFine, EndCarries DEF UpdatePage
<1>4. CASE UpdatePageAccess(r)
    <2>1. PagesInPlace /\ End(r) /\ UNCHANGED <<users, listed, signedIn, apps, made, raced, broken>>
        BY <1>4, PageUpdatesAreInPlace DEF UpdatePageAccess
    <2> QED
        BY <2>1, PagesInPlaceAreFine, EndCarries
<1> QED
    BY <1>1, <1>2, <1>3, <1>4, InsertPageKeepsTables, DeletePageKeepsTables DEF PageStep

LEMMA PublicStepsKeepTables ==
    ASSUME TypeInv, NEW r \in Request, PublicStep(r)
    PROVE  TablesOK' /\ Evolves /\ Carries(r) /\ Quiet
<1> USE DEF TypeInv
<1>1. Quiet
    BY FindOwnerMoves, FindPublicAppMoves, UnlockPageMoves, FindPublicPageMoves, LoadRowsMoves,
       AnsweredMoves DEF PublicStep, Quiet, tables
<1>2. call[r] # NoRequest /\ ~IsForm(call[r])
    <2>1. call[r].pc \in {"find_owner", "find_public_app", "find_public_page", "load_rows",
                          "answered"}
        BY DEF PublicStep, FindOwner, FindPublicApp, UnlockPage, FindPublicPage, LoadRows,
               Answered, At
    <2> QED
        BY <2>1, NoRequestIsNothing DEF IsForm, FormStations
<1>3. call'[r] # NoRequest =>
          call'[r].pid = call[r].pid \/ call'[r].pid \in DOMAIN pages'
    <2>1. NotFound(r) => call'[r] = NoRequest \/ call'[r].pid = call[r].pid
        BY EndEffect, AnswersEffect, VisitorAt, <1>2 DEF NotFound, CallsOK, IsCall, IsVisit, IsUnlock, VisitFields
    <2>2. FindPublicPage(r) => call'[r].pid = call[r].pid \/ call'[r].pid \in DOMAIN pages'
        <3> PICK a, s : a = call[r].app /\ s = call[r].page
            OBVIOUS
        <3>1. Verdict(call[r], 0, call[r].listed) # "page"
            BY DEF Verdict
        <3>2. Found(a, s) # 0 => Found(a, s) \in DOMAIN pages
            BY FoundIsThere DEF PageAt
        <3> QED
            BY <1>1, <3>1, <3>2, FindPublicPageMoves DEF Quiet
    <2> QED
        BY <2>1, <2>2, FindOwnerMoves, FindPublicAppMoves, UnlockPageMoves, LoadRowsMoves,
           AnsweredMoves DEF PublicStep
<1> QED
    BY <1>1, <1>2, <1>3, QuietIsFine DEF Carries

LEMMA StoreStepsKeepTables ==
    ASSUME TypeInv, NEW r \in Request, StoreStep(r), UNCHANGED tables
    PROVE  TablesOK' /\ Evolves /\ Carries(r) /\ Quiet
<1> USE DEF TypeInv
<1>1. Quiet
    BY DEF Quiet, tables
<1>2. IsForm(call[r]) /\ call[r].user \in users'
    <2>1. call[r].pc \in {"get_pool", "migrate_cached", "open", "migrate_new", "insert",
                          "insert_blocked", "close_pool", "close_blocked", "closing", "remove_file"}
        BY DEF StoreStep, GetPool, MigrateCached, OpenPool, MigrateNew, InsertPool, ClosePool,
               PoolClosed, RemoveFile, Unblock, At
    <2> QED
        BY <1>1, <2>1, UserIsThere DEF Quiet
<1>3. Carries(r)
    BY <1>2, GoToCarries, EndCarries
       DEF StoreStep, GetPool, MigrateCached, OpenPool, MigrateNew, InsertPool, ClosePool,
           PoolClosed, RemoveFile, Unblock, Uncached
<1> QED
    BY <1>1, <1>3, QuietIsFine

LEMMA ProceedKeepsTables ==
    ASSUME TypeInv, NEW r \in Request, Proceed(r)
    PROVE  TablesOK' /\ Evolves /\ Carries(r)
BY AccountStepsKeepTables, AppStepsKeepTables, PageStepsKeepTables, PublicStepsKeepTables,
   StoreStepsKeepTables DEF Proceed

LEMMA CutOffKeepsTables ==
    ASSUME TypeInv, NEW r \in Request, CutOff(r)
    PROVE  TablesOK' /\ Evolves /\ Carries(r) /\ Quiet
<1>1. Quiet
    BY CutOffMoves DEF Quiet, TypeInv
<1> QED
    BY <1>1, CutOffMoves, QuietIsFine DEF Carries, TypeInv

-----------------------------------------------------------------------------
(* The first app *)

\* Only insert_app makes apps.
LEMMA NewApps ==
    ASSUME TypeInv, NEW r \in Request, Proceed(r) \/ CutOff(r),
           NEW a \in DOMAIN apps', a \notin DOMAIN apps
    PROVE  /\ InsertApp(r) /\ call[r].pc = "insert_app"
           /\ a = made.apps + 1 /\ apps'[a] = FirstApp(call[r])
           /\ AppAt(call[r].user, call[r].slug) = {}
           /\ call'[r].app = a /\ call'[r].pc = "insert_page"
<1>1. AccountStep(r) => UNCHANGED apps
    BY AccountStepsKeepTables
<1>2. AppStep(r) /\ ~InsertApp(r) => DOMAIN apps' \subseteq DOMAIN apps
    BY DEF AppStep, FindApp, RenameApp, PublishApp, CountApps, DeleteApp, Dress, tables
<1>3. PageStep(r) => UNCHANGED apps
    BY DEF PageStep, FindOwnPage, InsertPage, SnapshotBaseline, UpdatePage, UpdatePageAccess,
           DeletePage, tables
<1>4. PublicStep(r) \/ CutOff(r) => UNCHANGED apps
    BY PublicStepsKeepTables, CutOffKeepsTables DEF Quiet
<1>5. InsertApp(r)
    BY <1>1, <1>2, <1>3, <1>4 DEF Proceed, tables
<1> QED
    BY <1>5, InsertAppMoves DEF TypeInv

\* Only create_user leads a registration to its first app.
LEMMA NewFirstAppDue ==
    ASSUME TypeInv, NEW r \in Request, Proceed(r) \/ CutOff(r), AtFirstApp(call'[r])
    PROVE  call[r].user \notin users /\ call'[r].user = call[r].user /\ UNCHANGED apps
<1>1. Moves(r) /\ Carries(r) /\ call'[r] # NoRequest
    BY ProceedMoves, ProceedKeepsTables, CutOffMoves, CutOffKeepsTables, NoRequestIsNothing
       DEF TypeInv, AtFirstApp
<1>2. IsForm(call'[r]) /\ IsForm(call[r]) /\ call'[r].user = call[r].user
    <2>1. IsForm(call'[r])
        BY <1>1 DEF Moves, IsCall, IsVisit, IsUnlock, AtFirstApp
    <2> QED
        BY <1>1, <2>1, OnwardKinds DEF Moves, TypeInv, CallsOK
<1>3. call[r].pc = "create_user"
    BY <1>1, <1>2 DEF Carries, AtFirstApp
<1>4. CreateUser(r)
    BY <1>1, <1>3, CutOffMoves
       DEF Proceed, AccountStep, AppStep, PageStep, PublicStep, StoreStep,
           FindUser, CreateSession, DeleteSession, UpdateUser, FindApp, InsertApp, RenameApp,
           PublishApp, CountApps, DeleteApp, Dress, FindOwnPage, InsertPage, SnapshotBaseline,
           UpdatePage, UpdatePageAccess, DeletePage, FindOwner, FindPublicApp, UnlockPage,
           FindPublicPage, LoadRows, Answered, GetPool, MigrateCached, OpenPool, MigrateNew,
           InsertPool, ClosePool, PoolClosed, RemoveFile, Unblock, At, TypeInv
<1>5. call[r].user \notin users /\ UNCHANGED apps
    BY <1>1, <1>4, EndEffect DEF CreateUser, TypeInv
<1> QED
    BY <1>2, <1>5

LEMMA FirstAppsStayDue ==
    ASSUME TypeInv, NEW r \in Request, Proceed(r) \/ CutOff(r)
    PROVE  FirstAppsDue'
<1> USE DEF TypeInv
<1>1. Evolves /\ Moves(r)
    BY ProceedKeepsTables, CutOffKeepsTables, ProceedMoves, CutOffMoves
<1>2. \A q \in Request : AtFirstApp(call[q]) => call[q].user \in users
    BY DEF AtFirstApp, Sound, CallsOK, IsCall, NoRequest, IsVisit, IsUnlock
<1>3. SUFFICES ASSUME NEW q \in Request, AtFirstApp(call'[q])
               PROVE  /\ \A a \in DOMAIN apps' : apps'[a].owner = call'[q].user => ~apps'[a].default
                      /\ \A t \in Request \ {q} :
                             ~(AtFirstApp(call'[t]) /\ call'[t].user = call'[q].user)
    BY DEF FirstAppsDue, AtFirstApp, AppsOf
<1>4. CASE q = r
    <2>1. call[r].user \notin users /\ call'[r].user = call[r].user /\ UNCHANGED apps
        BY <1>3, <1>4, NewFirstAppDue
    <2>2. \A a \in DOMAIN apps : apps[a].owner # call[r].user
        BY <2>1 DEF TablesOK, WorkspaceTypeOK
    <2>3. \A t \in Request \ {r} : call'[t] = call[t]
        BY <1>1 DEF Moves, Alone
    <2> QED
        BY <1>2, <1>4, <2>1, <2>2, <2>3
<1>5. CASE q # r
    <2>1. call'[q] = call[q]
        BY <1>1, <1>5 DEF Moves, Alone
    <2>2. AtFirstApp(call[q]) /\ call[q].user \in users
        BY <1>2, <1>3, <2>1
    <2>3. ASSUME NEW a \in DOMAIN apps', apps'[a].owner = call[q].user, apps'[a].default
          PROVE  FALSE
        <3>1. CASE a \in DOMAIN apps
            BY <1>1, <2>2, <2>3, <3>1 DEF Evolves, FirstAppsDue, AppsOf, TablesOK, WorkspaceTypeOK
        <3>2. CASE a \notin DOMAIN apps
            <4>1. /\ call[r].pc = "insert_app" /\ apps'[a] = FirstApp(call[r])
                BY <3>2, NewApps
            <4>2. AtFirstApp(call[r]) /\ call[r].user = call[q].user
                BY <2>3, <4>1, FirstAppRow DEF AtFirstApp
            <4> QED
                BY <1>5, <2>2, <4>2 DEF FirstAppsDue
        <3> QED
            BY <3>1, <3>2
    <2>4. ASSUME NEW t \in Request \ {q}, AtFirstApp(call'[t]), call'[t].user = call[q].user
          PROVE  FALSE
        <3>1. CASE t = r
            BY <2>2, <2>4, <3>1, NewFirstAppDue
        <3>2. CASE t # r
            BY <1>1, <2>2, <2>4, <3>2 DEF Moves, Alone, FirstAppsDue
        <3> QED
            BY <3>1, <3>2
    <2> QED
        BY <2>1, <2>3, <2>4
<1> QED
    BY <1>4, <1>5

-----------------------------------------------------------------------------
(* A request begins, and every step *)

LEMMA BeginKeepsTypes ==
    ASSUME TypeInv, NEW r \in Request, Begin(r), UNCHANGED menu
    PROVE  TypeInv' /\ Evolves /\ Quiet
<1> USE DEF TypeInv
<1>1. Quiet
    BY BeginMoves DEF Quiet, tables
<1>2. Evolves /\ TablesOK'
    BY <1>1, QuietIsFine
<1> DEFINE c == call'[r]
<1>3. /\ Alone(r) /\ call[r] = NoRequest /\ c # NoRequest
      /\ c.app = 0 /\ c.pid = 0
      /\ \/ /\ IsForm(c) /\ c.pc = FirstStatement(c.op)
            /\ c.op \notin {"register", "login"} => c.user \in signedIn
         \/ IsVisit(c)
         \/ IsUnlock(c)
      /\ c.op \in {"register", "create_app"} => c.page = Home
    BY BeginMoves
<1>4. CallsOK'
    BY <1>3 DEF CallsOK, Alone, IsCall, IsForm, IsVisit, IsUnlock
<1>5. IsForm(c) => c.pc = FirstStatement(c.op) /\ (c.op \notin {"register", "login"} => c.user \in signedIn)
    BY <1>3, Kinds
<1>6. ~AtFirstApp(c)
    BY <1>3, <1>5 DEF AtFirstApp, FirstStatement, IsVisit, IsUnlock
<1>7. \A q \in Request \ {r} : call'[q] = call[q]
    BY <1>3 DEF Alone
<1>8. Sound(call[r])'
    <2>1. c.op = "login" => FirstStatement(c.op) = "find_user"
        BY DEF FirstStatement
    <2>2. c.op = "register" => FirstStatement(c.op) = "create_user"
        BY DEF FirstStatement
    <2> PICK d : d = c
        OBVIOUS
    <2>3. Sound(d)'
        BY <1>1, <1>3, <1>5, <2>1, <2>2 DEF Sound, Quiet, TablesOK, WorkspaceTypeOK
    <2> QED
        BY <2>3 DEF Sound
<1>9. ASSUME NEW q \in Request, q # r
      PROVE  Sound(call[q])'
    <2> PICK d : d = call[q]
        OBVIOUS
    <2>1. Sound(d)
        OBVIOUS
    <2>2. Sound(d)'
        BY <1>1, <2>1 DEF Sound, Quiet
    <2> QED
        BY <1>7, <1>9, <2>2 DEF Sound
<1>10. FirstAppsDue'
    BY <1>1, <1>6, <1>7 DEF FirstAppsDue, Quiet, AppsOf, AtFirstApp
<1> QED
    BY <1>1, <1>2, <1>4, <1>8, <1>9, <1>10

LEMMA StepKeepsTypes ==
    ASSUME TypeInv, NEW r \in Request, Proceed(r) \/ CutOff(r), UNCHANGED menu
    PROVE  TypeInv' /\ Evolves /\ Moves(r)
<1> USE DEF TypeInv
<1>1. TablesOK' /\ Evolves /\ Carries(r) /\ Moves(r)
    BY ProceedMoves, ProceedKeepsTables, CutOffMoves, CutOffKeepsTables
<1>2. CallsOK'
    BY <1>1, MovesKeepsCalls
<1>3. (\A q \in Request : Sound(call[q]))'
    BY <1>1, MovesKeepSound
<1> QED
    BY <1>1, <1>2, <1>3, FirstAppsStayDue

LEMMA StutterKeepsTypes ==
    ASSUME TypeInv, UNCHANGED workspaceVars
    PROVE  TypeInv' /\ Evolves /\ Quiet
BY DEF TypeInv, workspaceVars, CallsOK, TablesOK, WorkspaceTypeOK, Sound, FirstAppsDue, AtFirstApp,
       AppsOf, Evolves, Quiet

LEMMA NextKeepsTypes ==
    ASSUME TypeInv, [WorkspaceNext]_workspaceVars
    PROVE  TypeInv' /\ Evolves
BY BeginKeepsTypes, StepKeepsTypes, StutterKeepsTypes DEF WorkspaceNext

LEMMA InitMakesTypes ==
    ASSUME WorkspaceInit
    PROVE  TypeInv
<1>1. CallsOK /\ \A r \in Request : call[r] = NoRequest
    BY DEF WorkspaceInit, CallsOK, IsCall
<1>2. DOMAIN apps = {} /\ DOMAIN pages = {}
    BY DEF WorkspaceInit
<1>3. TablesOK
    BY <1>2 DEF WorkspaceInit, TablesOK, WorkspaceTypeOK
<1>4. FirstAppsDue /\ \A r \in Request : Sound(call[r])
    BY <1>1, NoRequestIsNothing DEF FirstAppsDue, AtFirstApp, Sound
<1> QED
    BY <1>1, <1>3, <1>4 DEF TypeInv, WorkspaceInit

LEMMA TypesHold == WorkspaceSpec => []TypeInv
BY InitMakesTypes, NextKeepsTypes, PTL DEF WorkspaceSpec

\* The keys and foreign keys hold after every statement of every handler: an
\* account is registered once and has at most one default app, an owner's slugs
\* and an app's page slugs are unique, and what refers to a row finds it.
THEOREM WorkspaceTypeCorrect == WorkspaceSpec => []WorkspaceTypeOK
<1>1. TypeInv => WorkspaceTypeOK
    BY DEF TypeInv, TablesOK
<1> QED
    BY <1>1, TypesHold, PTL

-----------------------------------------------------------------------------
(* What each step does to the tables *)

DataStations == {"get_pool", "migrate_cached", "open", "migrate_new", "insert", "insert_blocked"}

ClosingStations == {"close_pool", "close_blocked", "closing", "remove_file"}

\* Where a request is says which step is its next.
LEMMA NextStatement ==
    ASSUME NEW r \in Request, Proceed(r)
    PROVE  /\ call[r].pc = "create_user" => CreateUser(r)
           /\ call[r].pc = "find_app" => FindApp(r)
           /\ call[r].pc = "insert_app" => InsertApp(r)
           /\ call[r].pc = "count_apps" => CountApps(r)
           /\ call[r].pc = "delete_app" => DeleteApp(r)
           /\ call[r].pc = "find_page" => FindOwnPage(r)
           /\ call[r].pc = "insert_page" => InsertPage(r)
           /\ call[r].pc = "snapshot" => SnapshotBaseline(r)
           /\ call[r].pc = "delete_page" => DeletePage(r)
           /\ call[r].pc = "find_owner" => FindOwner(r)
           /\ call[r].pc = "find_public_app" => FindPublicApp(r)
           /\ call[r].pc = "find_public_page" => UnlockPage(r) \/ FindPublicPage(r)
           /\ call[r].pc = "load_rows" => LoadRows(r)
           /\ call[r].pc = "answered" => Answered(r)
           /\ call[r].pc = "get_pool" => GetPool(r)
           /\ call[r].pc = "migrate_cached" => MigrateCached(r)
           /\ call[r].pc = "open" => OpenPool(r)
           /\ call[r].pc = "migrate_new" => MigrateNew(r)
           /\ call[r].pc = "insert" => InsertPool(r)
           /\ call[r].pc \in {"insert_blocked", "close_blocked"} => Unblock(r)
           /\ call[r].pc = "close_pool" => ClosePool(r)
           /\ call[r].pc = "closing" => PoolClosed(r)
           /\ call[r].pc = "remove_file" => RemoveFile(r)
           /\ call[r].pc \in DataStations \cup ClosingStations => UNCHANGED tables
<1>1. /\ CreateUser(r) => call[r].pc = "create_user"
      /\ FindUser(r) => call[r].pc = "find_user"
      /\ CreateSession(r) => call[r].pc = "create_session"
      /\ DeleteSession(r) => call[r].pc = "delete_session"
      /\ UpdateUser(r) => call[r].pc = "update_user"
    BY DEF At, CreateUser, FindUser, CreateSession, DeleteSession, UpdateUser
<1>2. /\ FindApp(r) => call[r].pc = "find_app"
      /\ InsertApp(r) => call[r].pc = "insert_app"
      /\ RenameApp(r) => call[r].pc = "rename_app"
      /\ PublishApp(r) => call[r].pc = "publish_app"
      /\ CountApps(r) => call[r].pc = "count_apps"
      /\ DeleteApp(r) => call[r].pc = "delete_app"
      /\ Dress(r) => call[r].pc \in {"dress_app", "dress_page"}
    BY DEF At, FindApp, InsertApp, RenameApp, PublishApp, CountApps, DeleteApp, Dress
<1>3. /\ FindOwnPage(r) => call[r].pc = "find_page"
      /\ InsertPage(r) => call[r].pc = "insert_page"
      /\ SnapshotBaseline(r) => call[r].pc = "snapshot"
      /\ UpdatePage(r) => call[r].pc = "publish_page"
      /\ UpdatePageAccess(r) => call[r].pc = "access_page"
      /\ DeletePage(r) => call[r].pc = "delete_page"
    BY DEF At, FindOwnPage, InsertPage, SnapshotBaseline, UpdatePage, UpdatePageAccess, DeletePage
<1>4. /\ FindOwner(r) => call[r].pc = "find_owner"
      /\ FindPublicApp(r) => call[r].pc = "find_public_app"
      /\ UnlockPage(r) => call[r].pc = "find_public_page"
      /\ FindPublicPage(r) => call[r].pc = "find_public_page"
      /\ LoadRows(r) => call[r].pc = "load_rows"
      /\ Answered(r) => call[r].pc = "answered"
    BY DEF At, FindOwner, FindPublicApp, UnlockPage, FindPublicPage, LoadRows, Answered
<1>5. /\ GetPool(r) => call[r].pc = "get_pool"
      /\ MigrateCached(r) => call[r].pc = "migrate_cached"
      /\ OpenPool(r) => call[r].pc = "open"
      /\ MigrateNew(r) => call[r].pc = "migrate_new"
      /\ InsertPool(r) => call[r].pc = "insert"
      /\ ClosePool(r) => call[r].pc = "close_pool"
      /\ PoolClosed(r) => call[r].pc = "closing"
      /\ RemoveFile(r) => call[r].pc = "remove_file"
      /\ Unblock(r) => call[r].pc \in {"insert_blocked", "close_blocked"}
    BY DEF At, GetPool, MigrateCached, OpenPool, MigrateNew, InsertPool, ClosePool, PoolClosed, RemoveFile, Unblock
<1> QED
    BY <1>1, <1>2, <1>3, <1>4, <1>5
       DEF Proceed, AccountStep, AppStep, PageStep, PublicStep, StoreStep, DataStations,
           ClosingStations

\* Only create_page makes pages.
LEMMA NewPages ==
    ASSUME TypeInv, NEW r \in Request, Proceed(r) \/ CutOff(r),
           NEW p \in DOMAIN pages', p \notin DOMAIN pages
    PROVE  /\ InsertPage(r) /\ call[r].pc = "insert_page" /\ IsForm(call[r])
           /\ p = made.pages + 1 /\ pages'[p] = NewPage(call[r])
           /\ call[r].app \in DOMAIN apps /\ PageAt(call[r].app, call[r].page) = {}
           /\ call'[r].pid = p /\ call'[r].pc = "snapshot"
           /\ UNCHANGED <<users, listed, apps>>
<1>1. AccountStep(r) => UNCHANGED pages
    BY AccountStepsKeepTables
<1>2. AppStep(r) => DOMAIN pages' \subseteq DOMAIN pages
    BY DEF AppStep, FindApp, InsertApp, RenameApp, PublishApp, CountApps, DeleteApp, Dress, tables,
           RemainingPages
<1>3. PageStep(r) /\ ~InsertPage(r) => DOMAIN pages' \subseteq DOMAIN pages
    BY PageUpdatesAreInPlace
       DEF PageStep, FindOwnPage, DeletePage, tables, PagesInPlace
<1>4. PublicStep(r) \/ CutOff(r) => UNCHANGED pages
    BY PublicStepsKeepTables, CutOffKeepsTables DEF Quiet
<1>5. InsertPage(r)
    BY <1>1, <1>2, <1>3, <1>4 DEF Proceed, tables
<1> QED
    BY <1>5, InsertPageMoves DEF TypeInv

\* Only delete_app takes apps away.
LEMMA LostApps ==
    ASSUME TypeInv, NEW r \in Request, Proceed(r) \/ CutOff(r),
           NEW a \in DOMAIN apps, a \notin DOMAIN apps'
    PROVE  DeleteApp(r) /\ a = call[r].app
<1>1. AccountStep(r) => UNCHANGED apps
    BY AccountStepsKeepTables
<1>2. AppStep(r) /\ ~DeleteApp(r) => DOMAIN apps \subseteq DOMAIN apps'
    BY InsertAppMoves
       DEF AppStep, FindApp, RenameApp, PublishApp, CountApps, Dress, tables, TypeInv
<1>3. PageStep(r) => UNCHANGED apps
    BY DEF PageStep, FindOwnPage, InsertPage, SnapshotBaseline, UpdatePage, UpdatePageAccess,
           DeletePage, tables
<1>4. PublicStep(r) \/ CutOff(r) => UNCHANGED apps
    BY PublicStepsKeepTables, CutOffKeepsTables DEF Quiet
<1>5. DeleteApp(r)
    BY <1>1, <1>2, <1>3, <1>4 DEF Proceed, tables
<1> QED
    BY <1>5 DEF DeleteApp

\* Pages go one at a time or with their app.
LEMMA LostPages ==
    ASSUME TypeInv, NEW r \in Request, Proceed(r) \/ CutOff(r),
           NEW p \in DOMAIN pages, p \notin DOMAIN pages'
    PROVE  \/ DeletePage(r) /\ p = call[r].pid
           \/ DeleteApp(r) /\ pages[p].app = call[r].app /\ call[r].app \notin DOMAIN apps'
<1>1. AccountStep(r) => UNCHANGED pages
    BY AccountStepsKeepTables
<1>2. AppStep(r) /\ ~DeleteApp(r) => UNCHANGED pages
    BY DEF AppStep, FindApp, InsertApp, RenameApp, PublishApp, CountApps, Dress, tables
<1>3. PageStep(r) /\ ~DeletePage(r) => DOMAIN pages \subseteq DOMAIN pages'
    BY PageUpdatesAreInPlace, InsertPageMoves
       DEF PageStep, FindOwnPage, tables, PagesInPlace, TypeInv
<1>4. PublicStep(r) \/ CutOff(r) => UNCHANGED pages
    BY PublicStepsKeepTables, CutOffKeepsTables DEF Quiet
<1>5. DeletePage(r) \/ DeleteApp(r)
    BY <1>1, <1>2, <1>3, <1>4 DEF Proceed, tables
<1> QED
    BY <1>5 DEF DeleteApp, DeletePage, RemainingPages

\* The requests of the others stay where they are.
LEMMA OthersWait ==
    ASSUME TypeInv, NEW r \in Request, Proceed(r) \/ CutOff(r), NEW q \in Request, q # r
    PROVE  call'[q] = call[q]
BY ProceedMoves, CutOffMoves DEF Moves, Alone, TypeInv

-----------------------------------------------------------------------------
(* Pages and the users they are of *)

LEMMA AuthorsStay ==
    ASSUME TypeInv, AuthorsOwnTheirPages, [WorkspaceNext]_workspaceVars
    PROVE  AuthorsOwnTheirPages'
<1> USE DEF TypeInv
<1>1. CASE Quiet
    BY <1>1 DEF AuthorsOwnTheirPages, Quiet
<1>2. ASSUME NEW r \in Request, Proceed(r) \/ CutOff(r), UNCHANGED menu, NEW p \in DOMAIN pages'
      PROVE  pages'[p].author = apps'[pages'[p].app].owner
    <2>1. Evolves /\ TablesOK'
        BY <1>2, StepKeepsTypes
    <2>2. CASE p \in DOMAIN pages
        <3>1. pages'[p].app = pages[p].app /\ pages'[p].author = pages[p].author
            BY <2>1, <2>2 DEF Evolves, TablesOK, WorkspaceTypeOK
        <3>2. pages[p].app \in DOMAIN apps /\ pages[p].app \in DOMAIN apps'
            BY <2>1, <2>2, <3>1 DEF TablesOK, WorkspaceTypeOK
        <3> QED
            BY <2>1, <2>2, <3>1, <3>2 DEF Evolves, TablesOK, WorkspaceTypeOK, AuthorsOwnTheirPages
    <2>3. CASE p \notin DOMAIN pages
        BY <1>2, <2>3, NewPages DEF NewPage, Sound
    <2> QED
        BY <2>2, <2>3
<1> QED
    BY <1>1, <1>2, BeginKeepsTypes, StutterKeepsTypes DEF WorkspaceNext, AuthorsOwnTheirPages

\* Nobody's page is in another user's app.
THEOREM AuthorsOwn == WorkspaceSpec => []AuthorsOwnTheirPages
<1>1. WorkspaceInit => AuthorsOwnTheirPages
    BY DEF WorkspaceInit, AuthorsOwnTheirPages
<1> QED
    BY <1>1, AuthorsStay, TypesHold, PTL DEF WorkspaceSpec

-----------------------------------------------------------------------------
(* Home pages and baselines *)

\* The page that a request is about to delete is no home page.
SparesHome(c) == c.pc = "delete_page" /\ c.pid \in DOMAIN pages => pages[c.pid].slug # Home

WholeInv == AppsAreWhole /\ \A r \in Request : SparesHome(call[r])

LEMMA QuietKeepsSparesHome ==
    ASSUME TypeInv, Quiet, NEW c, SparesHome(c)
    PROVE  SparesHome(c)'
BY DEF SparesHome, Quiet

\* The station delete_page is reached from find_page alone.
LEMMA ToDeletePage ==
    ASSUME TypeInv, NEW r \in Request, Proceed(r) \/ CutOff(r), call'[r].pc = "delete_page"
    PROVE  FindOwnPage(r) /\ call[r].op = "delete_page" /\ call'[r] # NoRequest
<1> USE DEF TypeInv
<1>1. Moves(r) /\ call'[r] # NoRequest
    BY ProceedMoves, CutOffMoves, NoRequestIsNothing
<1>2. Proceed(r)
    BY <1>1, CutOffMoves
<1>3. IsForm(call'[r]) /\ call'[r].op = "delete_page"
    BY <1>1 DEF Moves, IsCall, IsForm, FormStations, IsVisit, IsUnlock
<1>4. IsForm(call[r]) /\ call[r].op = "delete_page"
    BY <1>1, <1>3, OnwardKinds DEF Moves, CallsOK
<1>5. call[r].pc \in {"find_app", "find_page", "delete_page"}
    BY <1>4 DEF IsForm, FormStations
<1>6. call[r].pc # "find_app"
    BY <1>1, <1>2, <1>4, NextStatement, FindAppMoves DEF AfterTheApp
<1>7. call[r].pc # "delete_page"
    BY <1>1, <1>2, NextStatement, EndEffect DEF DeletePage
<1> QED
    BY <1>1, <1>2, <1>4, <1>5, <1>6, <1>7, NextStatement

LEMMA HomesAreSpared ==
    ASSUME TypeInv, \A q \in Request : SparesHome(call[q]),
           NEW r \in Request, Proceed(r) \/ CutOff(r), UNCHANGED menu
    PROVE  (\A q \in Request : SparesHome(call[q]))'
<1> USE DEF TypeInv
<1>1. Evolves /\ TablesOK'
    BY StepKeepsTypes
<1>2. ASSUME NEW q \in Request, q # r
      PROVE  SparesHome(call[q])'
    <2>1. call'[q] = call[q] /\ SparesHome(call[q]) /\ Sound(call[q])
        BY <1>2, OthersWait
    <2>2. call[q].pc = "delete_page" => call[q].pid \in Nat /\ call[q].pid <= made.pages
        BY <2>1, NoRequestIsNothing DEF Sound
    <2> QED
        BY <1>1, <2>1, <2>2 DEF SparesHome, Evolves, TablesOK, WorkspaceTypeOK
<1>3. SparesHome(call[r])'
    <2> SUFFICES ASSUME call'[r].pc = "delete_page"
                 PROVE  SparesHome(call[r])'
        BY DEF SparesHome
    <2>1. FindOwnPage(r) /\ call[r].op = "delete_page" /\ call'[r] # NoRequest
        BY ToDeletePage
    <2> PICK p : p = call'[r].pid
        OBVIOUS
    <2>2. MayWrite(r, p) /\ UNCHANGED tables
        BY <2>1, FindOwnPageMoves
    <2> QED
        BY <2>1, <2>2 DEF MayWrite, SparesHome, tables
<1> QED
    BY <1>2, <1>3

\* A request that is making the first page of its app ends with it made, with
\* another there, or cut off.
LEMMA FirstPageIsMade ==
    ASSUME TypeInv, NEW r \in Request, Proceed(r) \/ CutOff(r),
           call[r].op \in {"register", "create_app"}, call[r].pc = "insert_page",
           NEW a \in DOMAIN apps, call[r].app = a
    PROVE  \/ <<"app", a>> \in broken'
           \/ PageAt(a, Home)' # {}
<1> USE DEF TypeInv
<1>1. CASE CutOff(r)
    <2>1. Debris(call[r]) = {<<"app", a>>}
        BY DEF Debris
    <2> QED
        BY <1>1, <2>1, CutOffMoves
<1>2. CASE Proceed(r)
    <2>1. InsertPage(r) /\ IsForm(call[r])
        BY <1>2, NextStatement, UserIsThere
    <2>2. call[r].page = Home
        BY <2>1 DEF Sound
    <2>3. CASE PageAt(a, Home) = {}
        <3>1. /\ pages' = [q \in DOMAIN pages \cup {made.pages + 1} |->
                             IF q = made.pages + 1 THEN NewPage(call[r]) ELSE pages[q]]
            BY <2>1, <2>2, <2>3, InsertPageMoves
        <3>2. /\ made.pages + 1 \in DOMAIN pages'
              /\ pages'[made.pages + 1].app = a /\ pages'[made.pages + 1].slug = Home
            BY <2>2, <3>1 DEF NewPage
        <3> QED
            BY <3>2 DEF PageAt
    <2>4. CASE PageAt(a, Home) # {}
        <3>1. UNCHANGED pages
            BY <2>1, <2>2, <2>4, InsertPageMoves
        <3> QED
            BY <2>4, <3>1 DEF PageAt
    <2> QED
        BY <2>3, <2>4
<1> QED
    BY <1>1, <1>2

LEMMA AppsStayWholeOnStep ==
    ASSUME TypeInv, WholeInv, NEW r \in Request, Proceed(r) \/ CutOff(r), UNCHANGED menu,
           NEW a \in DOMAIN apps'
    PROVE  \/ PageAt(a, Home)' # {}
           \/ <<"app", a>> \in broken'
           \/ Owing({"register", "create_app"}, "insert_page", "app", a)'
<1> USE DEF TypeInv
<1>1. Evolves /\ TablesOK'
    BY StepKeepsTypes
<1>2. CASE a \notin DOMAIN apps
    <2>1. /\ InsertApp(r) /\ call[r].pc = "insert_app"
          /\ call'[r].app = a /\ call'[r].pc = "insert_page"
        BY <1>2, NewApps
    <2>2. IsForm(call[r]) /\ Moves(r) /\ call'[r] # NoRequest
        BY <2>1, InsertAppMoves, NoRequestIsNothing
    <2>3. call[r].op \in {"register", "create_app"}
        BY <2>1, <2>2 DEF IsForm, FormStations
    <2>4. call'[r].op = call[r].op
        BY <2>2, OnwardKinds DEF Moves, CallsOK
    <2> QED
        BY <2>1, <2>3, <2>4 DEF Owing, At
<1>3. CASE a \in DOMAIN apps
    <2>1. CASE PageAt(a, Home) # {}
        <3>1. PICK p \in PageAt(a, Home) : TRUE
            BY <2>1
        <3>2. p \in DOMAIN pages /\ pages[p].app = a /\ pages[p].slug = Home
            BY DEF PageAt
        <3>3. p \in DOMAIN pages'
            BY <3>2, LostPages DEF WholeInv, SparesHome, DeletePage, At
        <3>4. pages'[p].app = a /\ pages'[p].slug = Home
            BY <1>1, <3>2, <3>3 DEF Evolves, TablesOK, WorkspaceTypeOK
        <3> QED
            BY <3>3, <3>4 DEF PageAt
    <2>2. CASE <<"app", a>> \in broken
        BY <1>1, <2>2 DEF Evolves
    <2>3. CASE Owing({"register", "create_app"}, "insert_page", "app", a)
        <3>1. PICK q \in Request : /\ call[q].op \in {"register", "create_app"}
                                   /\ call[q].pc = "insert_page" /\ call[q].app = a
            BY <2>3 DEF Owing, At
        <3>2. CASE q = r
            BY <1>3, <3>1, <3>2, FirstPageIsMade
        <3>3. CASE q # r
            BY <3>1, <3>3, OthersWait DEF Owing, At
        <3> QED
            BY <3>2, <3>3
    <2> QED
        BY <1>3, <2>1, <2>2, <2>3 DEF WholeInv, AppsAreWhole
<1> QED
    BY <1>2, <1>3

LEMMA PagesStayWholeOnStep ==
    ASSUME TypeInv, WholeInv, NEW r \in Request, Proceed(r) \/ CutOff(r), UNCHANGED menu,
           NEW p \in DOMAIN pages'
    PROVE  \/ pages'[p].baseline
           \/ <<"page", p>> \in broken'
           \/ Making("pid", p, {"snapshot"})'
<1> USE DEF TypeInv
<1>1. Evolves /\ TablesOK'
    BY StepKeepsTypes
<1>2. CASE p \notin DOMAIN pages
    BY <1>2, NewPages DEF Making
<1>3. CASE p \in DOMAIN pages
    <2>1. CASE pages[p].baseline
        BY <1>1, <1>3, <2>1 DEF Evolves, TablesOK, WorkspaceTypeOK
    <2>2. CASE <<"page", p>> \in broken
        BY <1>1, <2>2 DEF Evolves
    <2>3. CASE Making("pid", p, {"snapshot"})
        <3>1. PICK q \in Request : call[q].pc = "snapshot" /\ call[q].pid = p
            BY <2>3 DEF Making
        <3>2. CASE q # r
            BY <3>1, <3>2, OthersWait DEF Making
        <3>3. CASE q = r /\ CutOff(r)
            <4>1. Debris(call[r]) = {<<"page", p>>}
                BY <3>1, <3>3 DEF Debris
            <4> QED
                BY <3>3, <4>1, CutOffMoves
        <3>4. CASE q = r /\ Proceed(r)
            <4>1. SnapshotBaseline(r)
                BY <3>1, <3>4, NextStatement
            <4>2. pages' = [pages EXCEPT ![p].baseline = TRUE]
                BY <1>3, <3>1, <3>4, <4>1 DEF SnapshotBaseline
            <4> QED
                BY <1>3, <4>2 DEF TablesOK, PageFields
        <3> QED
            BY <3>2, <3>3, <3>4
    <2> QED
        BY <1>3, <2>1, <2>2, <2>3 DEF WholeInv, AppsAreWhole
<1> QED
    BY <1>2, <1>3

LEMMA WholeInvStays ==
    ASSUME TypeInv, WholeInv, [WorkspaceNext]_workspaceVars
    PROVE  WholeInv'
<1> USE DEF TypeInv
<1>1. ASSUME NEW r \in Request, Proceed(r) \/ CutOff(r), UNCHANGED menu
      PROVE  WholeInv'
    BY <1>1, HomesAreSpared, AppsStayWholeOnStep, PagesStayWholeOnStep DEF WholeInv, AppsAreWhole
<1>2. ASSUME NEW r \in Request, Begin(r), UNCHANGED menu
      PROVE  WholeInv'
    <2>1. /\ Quiet /\ \A q \in Request \ {r} : call'[q] = call[q]
          /\ call[r] = NoRequest
        BY <1>2, BeginKeepsTypes, BeginMoves DEF Alone
    <2>2. call'[r].pid = 0 /\ TablesOK'
        BY <1>2, BeginKeepsTypes, BeginMoves
    <2>3. \A q \in Request : SparesHome(call[q])'
        BY <2>1, <2>2 DEF SparesHome, Quiet, WholeInv, TablesOK, WorkspaceTypeOK
    <2>4. call[r].pc = "none"
        BY <2>1, NoRequestIsNothing
    <2>5. AppsAreWhole'
        BY <2>1, <2>4 DEF WholeInv, AppsAreWhole, Quiet, PageAt, Owing, Making, At
    <2> QED
        BY <2>3, <2>5 DEF WholeInv
<1>3. CASE UNCHANGED workspaceVars
    BY <1>3 DEF workspaceVars, WholeInv, AppsAreWhole, SparesHome, PageAt, Owing, Making, At
<1> QED
    BY <1>1, <1>2, <1>3 DEF WorkspaceNext

\* Whoever deletes what and wherever requests are cut off: an app without a home
\* page and a page without a baseline are being made, or were when their request
\* was cut off.
THEOREM AppsStayWhole == WorkspaceSpec => []AppsAreWhole
<1>1. WorkspaceInit => WholeInv
    BY NoRequestIsNothing DEF WorkspaceInit, WholeInv, AppsAreWhole, SparesHome
<1>2. WholeInv => AppsAreWhole
    BY DEF WholeInv
<1> QED
    BY <1>1, <1>2, WholeInvStays, TypesHold, PTL DEF WorkspaceSpec

-----------------------------------------------------------------------------
(* The last app *)

\* A deletion that has counted left its user another app, unless a second one
\* counted as well.
MayDelete(r) ==
    call[r].pc = "delete_app" /\ call[r].user \notin raced =>
        /\ \E a, b \in AppsOf(call[r].user) : a # b
        /\ \A q \in Request \ {r} : ~(call[q].pc = "delete_app" /\ call[q].user = call[r].user)

LastAppInv == LastAppStays /\ \A r \in Request : MayDelete(r)

LEMMA CountedTwo ==
    ASSUME TypeInv, NEW u, Cardinality(AppsOf(u)) > 1
    PROVE  \E a, b \in AppsOf(u) : a # b
<1>1. AppsOf(u) \subseteq 1..made.apps /\ made.apps \in Nat
    BY DEF TypeInv, TablesOK, WorkspaceTypeOK, AppsOf
<1>2. IsFiniteSet(AppsOf(u))
    <2>1. IsFiniteSet(1..made.apps)
        BY <1>1, FS_Interval
    <2> QED
        BY <1>1, <2>1, FS_Subset
<1>3. PICK a \in AppsOf(u) : TRUE
    BY <1>2, FS_EmptySet
<1>4. AppsOf(u) # {a}
    BY FS_Singleton
<1> QED
    BY <1>3, <1>4

\* The station delete_app is reached from the count alone.
LEMMA ToDeleteApp ==
    ASSUME TypeInv, NEW r \in Request, Proceed(r) \/ CutOff(r), call'[r].pc = "delete_app"
    PROVE  CountApps(r) /\ call'[r] # NoRequest /\ call'[r].user = call[r].user
<1> USE DEF TypeInv
<1>1. Moves(r) /\ call'[r] # NoRequest
    BY ProceedMoves, CutOffMoves, NoRequestIsNothing
<1>2. Proceed(r)
    BY <1>1, CutOffMoves
<1>3. IsForm(call'[r]) /\ call'[r].op = "delete_app"
    BY <1>1 DEF Moves, IsCall, IsForm, FormStations, IsVisit, IsUnlock
<1>4. IsForm(call[r]) /\ call[r].op = "delete_app" /\ call'[r].user = call[r].user
    BY <1>1, <1>3, OnwardKinds DEF Moves, CallsOK
<1>5. call[r].pc \in {"find_app", "count_apps", "delete_app", "close_pool", "close_blocked",
                      "closing", "remove_file"}
    BY <1>4 DEF IsForm, FormStations
<1>6. call[r].pc # "find_app"
    BY <1>1, <1>2, <1>4, NextStatement, FindAppMoves DEF AfterTheApp
<1>7. call[r].pc # "delete_app"
    <2>1. DeleteApp(r) => call'[r].pc = "close_pool"
        BY <1>4, GoToEffect, NoRequestIsNothing DEF DeleteApp
    <2> QED
        BY <1>2, <2>1, NextStatement
<1>8. call[r].pc \notin {"close_pool", "close_blocked", "closing", "remove_file"}
    <2>1. /\ call[r] # NoRequest
          /\ GoTo(r, "closing") => call'[r].pc = "closing"
          /\ GoTo(r, "close_blocked") => call'[r].pc = "close_blocked"
          /\ GoTo(r, "remove_file") => call'[r].pc = "remove_file"
          /\ ~End(r)
        BY <1>1, <1>4, GoToEffect, EndEffect, NoRequestIsNothing
    <2>2. ~ClosePool(r) /\ ~PoolClosed(r) /\ ~RemoveFile(r)
        BY <2>1 DEF ClosePool, Uncached, PoolClosed, RemoveFile
    <2>3. call[r].pc = "close_blocked" => ~Unblock(r)
        BY <2>1 DEF Unblock, Uncached, At
    <2> QED
        BY <1>2, <2>2, <2>3, NextStatement
<1> QED
    BY <1>1, <1>2, <1>4, <1>5, <1>6, <1>7, <1>8, NextStatement

\* The apps of a user whose app is not deleted in this step stay.
LEMMA AppsOfStay ==
    ASSUME TypeInv, NEW r \in Request, Proceed(r) \/ CutOff(r), UNCHANGED menu,
           NEW u, ~(call[r].pc = "delete_app" /\ call[r].user = u)
    PROVE  AppsOf(u) \subseteq AppsOf(u)'
<1> USE DEF TypeInv
<1>1. Evolves /\ TablesOK'
    BY StepKeepsTypes
<1>2. ASSUME NEW a \in DOMAIN apps, apps[a].owner = u
      PROVE  a \in DOMAIN apps' /\ apps'[a].owner = u
    <2>1. CASE a \in DOMAIN apps'
        BY <1>1, <1>2, <2>1 DEF Evolves, TablesOK, WorkspaceTypeOK
    <2>2. CASE a \notin DOMAIN apps'
        <3>1. DeleteApp(r) /\ a = call[r].app
            BY <2>2, LostApps
        <3>2. call[r].pc = "delete_app" /\ apps[a].owner = call[r].user
            BY <3>1, UserIsThere DEF DeleteApp, At
        <3> QED
            BY <1>2, <3>2
    <2> QED
        BY <2>1, <2>2
<1> QED
    BY <1>2 DEF AppsOf

LEMMA DeletionsStayCounted ==
    ASSUME TypeInv, \A q \in Request : MayDelete(q),
           NEW r \in Request, Proceed(r) \/ CutOff(r), UNCHANGED menu
    PROVE  (\A q \in Request : MayDelete(q))'
<1> USE DEF TypeInv
<1>1. Evolves
    BY StepKeepsTypes
<1>2. ASSUME CountApps(r), call'[r] # NoRequest
      PROVE  /\ UNCHANGED apps /\ call'[r].user = call[r].user
             /\ \E a, b \in AppsOf(call[r].user) : a # b
             /\ \A q \in Request \ {r} :
                    call[q].pc = "delete_app" /\ call[q].user = call[r].user =>
                        call[r].user \in raced'
    <2>1. IsForm(call[r]) /\ Moves(r) /\ ~End(r)
        BY <1>2, UserIsThere, AppStepsMove, EndEffect DEF CountApps, At
    <2>2. call'[r].user = call[r].user
        BY <1>2, <2>1, OnwardKinds DEF Moves, CallsOK
    <2> PICK u : u = call[r].user
        OBVIOUS
    <2>3. /\ Cardinality(AppsOf(u)) > 1 /\ UNCHANGED apps
          /\ raced' = IF \E q \in Request \ {r} : At(q, "delete_app") /\ call[q].user = u
                      THEN raced \cup {u} ELSE raced
        BY <1>2, <2>1 DEF CountApps
    <2> QED
        BY <2>2, <2>3, CountedTwo DEF At
<1>3. ASSUME NEW q \in Request, NEW u, u = call'[q].user, call'[q].pc = "delete_app", u \notin raced'
      PROVE  /\ \E a, b \in AppsOf(u)' : a # b
             /\ \A t \in Request \ {q} : ~(call'[t].pc = "delete_app" /\ call'[t].user = u)
    <2>1. u \notin raced
        BY <1>1, <1>3 DEF Evolves
    <2>2. CASE q = r
        <3>1. /\ CountApps(r) /\ UNCHANGED apps /\ u = call[r].user
              /\ \E a, b \in AppsOf(u) : a # b
              /\ \A t \in Request \ {r} : ~(call[t].pc = "delete_app" /\ call[t].user = u)
            BY <1>2, <1>3, <2>2, ToDeleteApp
        <3> QED
            BY <2>2, <3>1, OthersWait DEF AppsOf
    <2>3. CASE q # r
        <3>1. call'[q] = call[q]
            BY <2>3, OthersWait
        <3>2. /\ \E a, b \in AppsOf(u) : a # b
              /\ \A t \in Request \ {q} : ~(call[t].pc = "delete_app" /\ call[t].user = u)
            BY <1>3, <2>1, <3>1 DEF MayDelete
        <3>3. AppsOf(u) \subseteq AppsOf(u)'
            BY <2>3, <3>2, AppsOfStay
        <3>4. ~(call'[r].pc = "delete_app" /\ call'[r].user = u)
            BY <1>2, <1>3, <2>3, <3>1, ToDeleteApp
        <3> QED
            BY <3>2, <3>3, <3>4, OthersWait
    <2> QED
        BY <2>2, <2>3
<1> QED
    BY <1>3 DEF MayDelete, AppsOf

\* The step of a registration that has yet to make the first app.
LEMMA FirstAppIsMade ==
    ASSUME TypeInv, NEW r \in Request, Proceed(r) \/ CutOff(r), AtFirstApp(call[r])
    PROVE  \/ <<"user", call[r].user>> \in broken'
           \/ \E a \in DOMAIN apps' : apps'[a].owner = call[r].user
<1> USE DEF TypeInv
<1>1. CASE CutOff(r)
    <2>1. Debris(call[r]) = {<<"user", call[r].user>>}
        BY DEF Debris, AtFirstApp
    <2> QED
        BY <1>1, <2>1, CutOffMoves
<1>2. CASE Proceed(r)
    <2>1. InsertApp(r)
        BY <1>2, NextStatement DEF AtFirstApp
    <2>2. CASE AppAt(call[r].user, call[r].slug) # {}
        <3>1. UNCHANGED apps
            BY <2>1, <2>2, InsertAppMoves
        <3> QED
            BY <2>2, <3>1 DEF AppAt, AppsOf
    <2>3. CASE AppAt(call[r].user, call[r].slug) = {}
        <3>1. apps' = [b \in DOMAIN apps \cup {made.apps + 1} |->
                          IF b = made.apps + 1 THEN FirstApp(call[r]) ELSE apps[b]]
            BY <2>1, <2>3, InsertAppMoves
        <3>2. /\ made.apps + 1 \in DOMAIN apps'
              /\ apps'[made.apps + 1].owner = call[r].user
            BY <3>1, FirstAppRow
        <3> QED
            BY <3>2
    <2> QED
        BY <2>2, <2>3
<1> QED
    BY <1>1, <1>2

LEMMA LastAppStaysOnStep ==
    ASSUME TypeInv, LastAppInv, NEW r \in Request, Proceed(r) \/ CutOff(r), UNCHANGED menu,
           NEW u \in users'
    PROVE  \/ AppsOf(u)' # {}
           \/ <<"user", u>> \in broken' \/ Owing({"register"}, "insert_app", "user", u)'
           \/ u \in raced'
<1> USE DEF TypeInv
<1>1. Evolves
    BY StepKeepsTypes
<1>2. CASE u \notin users
    <2>1. users' # users
        BY <1>2
    <2>2. CreateUser(r) /\ u = call[r].user
        <3>1. AccountStep(r)
            BY <2>1, PublicStepsKeepTables, CutOffKeepsTables
               DEF Proceed, AppStep, PageStep, tables, Quiet, FindApp, InsertApp, RenameApp,
                   PublishApp, CountApps, DeleteApp, Dress, FindOwnPage, InsertPage,
                   SnapshotBaseline, UpdatePage, UpdatePageAccess, DeletePage
        <3> QED
            BY <1>2, <3>1 DEF AccountStep, CreateUser, FindUser, CreateSession, DeleteSession,
                              UpdateUser, tables
    <2>3. call[r].pc = "create_user" /\ GoTo(r, "insert_app")
        BY <1>2, <2>2 DEF CreateUser, At
    <2>4. IsForm(call[r]) /\ call[r].op = "register"
        BY <2>3, FormAt DEF IsForm, FormStations
    <2>5. call'[r].pc = "insert_app" /\ call'[r].op = "register" /\ call'[r].user = u
        BY <2>2, <2>3, <2>4, GoToEffect, Kinds, NoRequestIsNothing
    <2> QED
        BY <2>5 DEF Owing, At
<1>3. CASE u \in users
    <2>1. CASE u \in raced \/ <<"user", u>> \in broken
        BY <1>1, <2>1 DEF Evolves
    <2>2. CASE AppsOf(u) # {} /\ u \notin raced
        <3>1. CASE call[r].pc = "delete_app" /\ call[r].user = u
            <4>1. PICK a, b \in AppsOf(u) : a # b
                BY <2>2, <3>1 DEF LastAppInv, MayDelete
            <4>2. a \in DOMAIN apps' \/ b \in DOMAIN apps'
                BY <4>1, LostApps DEF AppsOf
            <4>3. \A c \in AppsOf(u) : c \in DOMAIN apps' => apps'[c].owner = u
                BY <1>1 DEF AppsOf, Evolves, TablesOK, WorkspaceTypeOK
            <4> QED
                BY <4>1, <4>2, <4>3 DEF AppsOf
        <3>2. CASE ~(call[r].pc = "delete_app" /\ call[r].user = u)
            BY <2>2, <3>2, AppsOfStay
        <3> QED
            BY <3>1, <3>2
    <2>3. CASE Owing({"register"}, "insert_app", "user", u)
        <3>1. PICK q \in Request : AtFirstApp(call[q]) /\ call[q].user = u
            BY <2>3 DEF Owing, At, AtFirstApp
        <3>2. CASE q = r
            BY <3>1, <3>2, FirstAppIsMade DEF AppsOf
        <3>3. CASE q # r
            BY <3>1, <3>3, OthersWait DEF Owing, At, AtFirstApp
        <3> QED
            BY <3>2, <3>3
    <2> QED
        BY <1>3, <2>1, <2>2, <2>3 DEF LastAppInv, LastAppStays
<1> QED
    BY <1>2, <1>3

HasApp(u) ==
    \/ AppsOf(u) # {}
    \/ <<"user", u>> \in broken \/ Owing({"register"}, "insert_app", "user", u)
    \/ u \in raced

LEMMA EachHasApp == LastAppStays <=> \A u \in users : HasApp(u)
BY DEF LastAppStays, HasApp

LEMMA EachHasAppNext ==
    ASSUME \A u \in users' : HasApp(u)'
    PROVE  LastAppStays'
BY DEF LastAppStays, HasApp

LEMMA LastAppInvStays ==
    ASSUME TypeInv, LastAppInv, [WorkspaceNext]_workspaceVars
    PROVE  LastAppInv'
<1> USE DEF TypeInv
<1>1. ASSUME NEW r \in Request, Proceed(r) \/ CutOff(r), UNCHANGED menu
      PROVE  LastAppInv'
    BY <1>1, DeletionsStayCounted, LastAppStaysOnStep DEF LastAppInv, LastAppStays
<1>2. ASSUME NEW r \in Request, Begin(r), UNCHANGED menu
      PROVE  LastAppInv'
    <2>1. /\ \A q \in Request \ {r} : call'[q] = call[q]
          /\ call[r].pc = "none" /\ UNCHANGED tables
        BY <1>2, BeginMoves, NoRequestIsNothing DEF Alone
    <2>2. call'[r].pc # "delete_app"
        BY <1>2, BeginMoves DEF FirstStatement
    <2>3. \A q \in Request : MayDelete(q)'
        BY <2>1, <2>2 DEF MayDelete, LastAppInv, tables, AppsOf
    <2>4. LastAppStays'
        <3>1. ASSUME NEW u \in users'
              PROVE  HasApp(u)'
            <4>1. HasApp(u)
                BY <2>1, EachHasApp DEF LastAppInv, tables
            <4>2. CASE Owing({"register"}, "insert_app", "user", u)
                BY <2>1, <4>2 DEF HasApp, Owing, At
            <4> QED
                BY <2>1, <4>1, <4>2 DEF HasApp, tables, AppsOf
        <3> QED
            BY <3>1, EachHasAppNext
    <2> QED
        BY <2>3, <2>4 DEF LastAppInv
<1>3. CASE UNCHANGED workspaceVars
    BY <1>3 DEF workspaceVars, LastAppInv, LastAppStays, MayDelete, AppsOf, Owing, At
<1> QED
    BY <1>1, <1>2, <1>3 DEF WorkspaceNext

\* From registration on a user has an app, but for two deletions that both
\* counted before either deleted, and a registration that was cut off.
THEOREM LastAppIsKept == WorkspaceSpec => []LastAppStays
<1>1. WorkspaceInit => LastAppInv
    BY NoRequestIsNothing DEF WorkspaceInit, LastAppInv, LastAppStays, MayDelete
<1>2. LastAppInv => LastAppStays
    BY DEF LastAppInv
<1> QED
    BY <1>1, <1>2, LastAppInvStays, TypesHold, PTL DEF WorkspaceSpec

-----------------------------------------------------------------------------
(* Files and pools *)

LEMMA StoreStays ==
    ASSUME TypeInv, NEW r \in Request, Proceed(r) \/ CutOff(r),
           call[r].pc \notin DataStations \cup ClosingStations \/ CutOff(r)
    PROVE  UNCHANGED storeVars
<1>1. AccountStep(r) \/ AppStep(r) => UNCHANGED storeVars
    BY DEF AccountStep, AppStep, CreateUser, FindUser, CreateSession, DeleteSession, UpdateUser,
           FindApp, InsertApp, RenameApp, PublishApp, CountApps, DeleteApp, Dress
<1>2. PageStep(r) \/ PublicStep(r) => UNCHANGED storeVars
    BY DEF PageStep, PublicStep, FindOwnPage, InsertPage, SnapshotBaseline, UpdatePage,
           UpdatePageAccess, DeletePage, FindOwner, FindPublicApp, UnlockPage, FindPublicPage,
           LoadRows, Answered
<1>3. StoreStep(r) => call[r].pc \in DataStations \cup ClosingStations
    BY DEF StoreStep, GetPool, MigrateCached, OpenPool, MigrateNew, InsertPool, ClosePool,
           PoolClosed, RemoveFile, Unblock, At, DataStations, ClosingStations
<1>4. CutOff(r) => UNCHANGED storeVars
    BY DEF CutOff
<1> QED
    BY <1>1, <1>2, <1>3, <1>4 DEF Proceed

LEMMA StoreFormAt ==
    ASSUME TypeInv, NEW r \in Request, call[r].pc \in DataStations \cup ClosingStations
    PROVE  /\ IsForm(call[r]) /\ call[r] # NoRequest
           /\ call[r].pc \in DataStations => call[r].op = "data"
           /\ call[r].pc \in ClosingStations => call[r].op = "delete_app"
<1>1. IsForm(call[r]) /\ call[r] # NoRequest
    BY FormAt DEF TypeInv, DataStations, ClosingStations
<1> QED
    BY <1>1 DEF IsForm, FormStations, DataStations, ClosingStations

LEMMA StoreGoTo ==
    ASSUME TypeInv, NEW r \in Request, call[r].pc \in DataStations \cup ClosingStations,
           NEW x, GoTo(r, x)
    PROVE  /\ call'[r].pc = x /\ call'[r].app = call[r].app /\ call'[r].op = call[r].op
           /\ call'[r] # NoRequest
<1>1. IsForm(call[r]) /\ call[r] # NoRequest
    BY StoreFormAt
<1>2. \A f \in DOMAIN call[r] \ {"pc"} : call'[r][f] = call[r][f]
    BY <1>1, GoToEffect DEF TypeInv
<1> QED
    BY <1>1, <1>2, GoToEffect, Kinds, NoRequestIsNothing DEF TypeInv, Onward

LEMMA DataMoves ==
    ASSUME TypeInv, NEW r \in Request, Proceed(r), call[r].pc \in DataStations
    PROVE  /\ UNCHANGED tables /\ call[r].op = "data"
           /\ call'[r] # NoRequest => call'[r].app = call[r].app /\ call'[r].op = "data"
           /\ files' \subseteq files \cup {call[r].app} /\ pools' \subseteq pools \cup {call[r].app}
<1>1. UNCHANGED tables /\ call[r].op = "data"
    BY NextStatement, StoreFormAt
<1>2. /\ GetPool(r) \/ MigrateCached(r) \/ OpenPool(r) \/ MigrateNew(r) \/ InsertPool(r) \/ Unblock(r)
      /\ call[r].pc # "close_blocked"
    BY NextStatement DEF DataStations
<1>3. call'[r] # NoRequest => \E x : GoTo(r, x)
    BY <1>2, EndEffect
       DEF GetPool, MigrateCached, OpenPool, MigrateNew, InsertPool, Unblock, At, TypeInv
<1>4. files' \subseteq files \cup {call[r].app} /\ pools' \subseteq pools \cup {call[r].app}
    BY <1>2 DEF GetPool, MigrateCached, OpenPool, MigrateNew, InsertPool, Unblock, At, storeVars
<1> QED
    BY <1>1, <1>3, <1>4, StoreGoTo

LEMMA ClosingMoves ==
    ASSUME TypeInv, NEW r \in Request, Proceed(r), call[r].pc \in ClosingStations
    PROVE  /\ UNCHANGED tables
           /\ files' \subseteq files /\ pools' \subseteq pools
           /\ \/ /\ call'[r] # NoRequest
                 /\ call'[r].app = call[r].app /\ call'[r].op = call[r].op
                 /\ call'[r].pc \in ClosingStations
                 /\ call'[r].pc \in {"closing", "remove_file"} =>
                        call[r].pc = "closing" \/ call[r].app \notin pools'
              \/ /\ call'[r] = NoRequest /\ call[r].pc = "remove_file"
                 /\ call[r].app \notin files'
<1>1. UNCHANGED tables
    BY NextStatement
<1>2. Uncached(r) => /\ call[r].app \notin pools' /\ pools' \subseteq pools
                     /\ call'[r].pc \in {"closing", "remove_file"} /\ call'[r] # NoRequest
                     /\ call'[r].app = call[r].app /\ call'[r].op = call[r].op
    BY StoreGoTo DEF Uncached
<1>3. CASE call[r].pc = "close_pool"
    BY <1>1, <1>2, <1>3, NextStatement, StoreGoTo DEF ClosePool, ClosingStations
<1>4. CASE call[r].pc = "close_blocked"
    BY <1>1, <1>2, <1>4, NextStatement DEF Unblock, ClosingStations, At
<1>5. CASE call[r].pc = "closing"
    BY <1>1, <1>5, NextStatement, StoreGoTo DEF PoolClosed, ClosingStations, storeVars
<1>6. CASE call[r].pc = "remove_file"
    BY <1>1, <1>6, NextStatement, EndEffect DEF RemoveFile, TypeInv
<1> QED
    BY <1>3, <1>4, <1>5, <1>6 DEF ClosingStations

\* What a data request and a deletion may rely on.
StoreSound(c) ==
    /\ c.op = "data" /\ c.pc # "find_app" => c.app \in DOMAIN apps \/ <<"file", c.app>> \in broken
    /\ c.pc \in ClosingStations => c.app \notin DOMAIN apps
    /\ c.pc \in {"closing", "remove_file"} => c.app \notin pools \/ <<"file", c.app>> \in broken

StoreInv == StoreFollowsApps /\ \A r \in Request : StoreSound(call[r])

\* An app of a data request that goes is marked.
LEMMA LostDataApps ==
    ASSUME TypeInv, NEW r \in Request, Proceed(r) \/ CutOff(r), NEW q \in Request,
           call[q].op = "data", call[q].app \in DOMAIN apps, call[q].app \notin DOMAIN apps'
    PROVE  <<"file", call[q].app>> \in broken'
<1> PICK a : a = call[q].app
    OBVIOUS
<1>1. DeleteApp(r) /\ a = call[r].app
    BY LostApps
<1>2. broken' = IF \E t \in Request : call[t].op = "data" /\ call[t].app = a
                THEN broken \cup {<<"file", a>>} ELSE broken
    BY <1>1 DEF DeleteApp
<1> QED
    BY <1>2

\* A deletion that has just deleted.
LEMMA JustDeleted ==
    ASSUME TypeInv, NEW r \in Request, DeleteApp(r)
    PROVE  /\ call'[r] # NoRequest /\ call'[r].pc = "close_pool" /\ call'[r].app = call[r].app
           /\ call'[r].op = "delete_app" /\ call'[r].app \notin DOMAIN apps'
<1>1. IsForm(call[r]) /\ call[r].op = "delete_app"
    BY UserIsThere DEF DeleteApp, At, IsForm, FormStations
<1>2. /\ call'[r].pc = "close_pool"
      /\ \A f \in DOMAIN call[r] \ {"pc"} : call'[r][f] = call[r][f]
    BY <1>1, GoToEffect, NoRequestIsNothing DEF DeleteApp, TypeInv
<1>3. call[r].app \notin DOMAIN apps'
    BY DEF DeleteApp
<1> QED
    BY <1>1, <1>2, <1>3, Kinds, NoRequestIsNothing

\* A pool or a file that appears is of an app that a data request is about.
LEMMA NewFiles ==
    ASSUME TypeInv, StoreInv, NEW r \in Request, Proceed(r) \/ CutOff(r),
           NEW a, (a \in files' /\ a \notin files) \/ (a \in pools' /\ a \notin pools)
    PROVE  /\ UNCHANGED tables /\ call[r].op = "data" /\ call[r].app = a
           /\ a \in DOMAIN apps \/ <<"file", a>> \in broken
<1>1. call[r].pc \in DataStations \cup ClosingStations /\ Proceed(r)
    BY StoreStays DEF storeVars
<1>2. call[r].pc \in DataStations
    BY <1>1, ClosingMoves
<1>3. UNCHANGED tables /\ call[r].op = "data" /\ call[r].app = a
    BY <1>1, <1>2, DataMoves
<1> QED
    BY <1>2, <1>3 DEF StoreInv, StoreSound, DataStations

LEMMA StoreSoundForOthers ==
    ASSUME TypeInv, StoreInv, NEW r \in Request, Proceed(r) \/ CutOff(r), UNCHANGED menu,
           NEW q \in Request, q # r
    PROVE  StoreSound(call[q])'
<1> USE DEF TypeInv
<1>1. Evolves /\ call'[q] = call[q] /\ StoreSound(call[q]) /\ TablesOK'
    BY StepKeepsTypes, OthersWait DEF StoreInv
<1> PICK c : c = call[q]
    OBVIOUS
<1>2. c.op = "data" /\ c.pc # "find_app" => c.app \in DOMAIN apps' \/ <<"file", c.app>> \in broken'
    BY <1>1, LostDataApps DEF StoreSound, Evolves
<1>3. ASSUME c.pc \in ClosingStations
      PROVE  c.app \notin DOMAIN apps'
    <2>1. c.app \in Nat /\ c.app <= made.apps /\ c.app \notin DOMAIN apps
        BY <1>1, <1>3, StoreFormAt DEF Sound, StoreSound
    <2> QED
        BY <1>1, <2>1 DEF Evolves, TablesOK, WorkspaceTypeOK
<1>4. ASSUME c.pc \in {"closing", "remove_file"}
      PROVE  c.app \notin pools' \/ <<"file", c.app>> \in broken'
    <2>1. c.app \notin pools \/ <<"file", c.app>> \in broken
        BY <1>1, <1>4 DEF StoreSound
    <2>2. c.app \notin DOMAIN apps
        BY <1>1, <1>4 DEF StoreSound, ClosingStations
    <2>3. CASE c.app \in pools' /\ c.app \notin pools
        BY <1>1, <2>2, <2>3, NewFiles DEF Evolves
    <2> QED
        BY <1>1, <2>1, <2>3 DEF Evolves
<1> QED
    BY <1>1, <1>2, <1>3, <1>4 DEF StoreSound

LEMMA StoreSoundForMover ==
    ASSUME TypeInv, StoreInv, NEW r \in Request, Proceed(r) \/ CutOff(r), UNCHANGED menu
    PROVE  StoreSound(call[r])'
<1> USE DEF TypeInv
<1>1. Evolves /\ Moves(r)
    BY StepKeepsTypes
<1>2. CASE call'[r] = NoRequest
    BY <1>2, NoRequestIsNothing DEF StoreSound, ClosingStations
<1>3. CASE call'[r] # NoRequest
    <2>1. Proceed(r) /\ StoreSound(call[r]) /\ Onward(call[r], call'[r]) /\ call[r] # NoRequest
        BY <1>1, <1>3, CutOffMoves, OnwardKinds DEF StoreInv, Moves, CallsOK
    <2>2. IsForm(call'[r]) <=> IsForm(call[r])
        BY <1>1, <1>3, <2>1, OnwardKinds DEF Moves, CallsOK
    <2>3. IsForm(call[r]) => call'[r].op = call[r].op
        BY <1>1, <1>3, <2>1, OnwardKinds DEF Moves, CallsOK
    <2>4. CASE call[r].pc \in DataStations
        <3>1. /\ UNCHANGED tables /\ call'[r].app = call[r].app /\ call[r].op = "data"
              /\ call'[r].op = "data"
            BY <1>3, <2>1, <2>4, DataMoves
        <3>2. call'[r].pc \notin ClosingStations
            BY <1>1, <1>3, <2>2, <3>1 DEF Moves, IsCall, IsForm, IsVisit, IsUnlock, FormStations, ClosingStations
        <3> QED
            BY <2>1, <2>4, <3>1, <3>2 DEF StoreSound, tables, DataStations, ClosingStations
    <2>5. CASE call[r].pc \in ClosingStations
        <3>1. call[r].op = "delete_app" /\ call'[r].op = call[r].op
            BY <1>3, <2>1, <2>5, StoreFormAt, ClosingMoves
        <3>2. UNCHANGED tables /\ pools' \subseteq pools /\ call'[r].app = call[r].app
              /\ (call'[r].pc \in {"closing", "remove_file"} =>
                        call[r].pc = "closing" \/ call[r].app \notin pools')
            BY <1>3, <2>1, <2>5, ClosingMoves
        <3> QED
            BY <2>1, <2>5, <3>1, <3>2 DEF StoreSound, tables
    <2>6. CASE call[r].pc = "delete_app"
        BY <2>1, <2>6, NextStatement, JustDeleted DEF StoreSound, ClosingStations
    <2>7. CASE call[r].pc \notin DataStations \cup ClosingStations \cup {"delete_app"}
        <3>1. call'[r].pc \notin ClosingStations
            <4>1. ASSUME call'[r].pc \in ClosingStations
                  PROVE  FALSE
                <5>1. IsForm(call'[r]) /\ call'[r].op = "delete_app"
                    BY <1>1, <1>3, <4>1 DEF Moves, IsCall, IsForm, IsVisit, IsUnlock, FormStations, ClosingStations
                <5>2. IsForm(call[r]) /\ call[r].op = "delete_app"
                    BY <2>2, <2>3, <5>1
                <5>3. call[r].pc \in {"find_app", "count_apps"}
                    BY <2>7, <5>2 DEF IsForm, FormStations, ClosingStations
                <5>4. FindApp(r) => call'[r].pc = "count_apps"
                    BY <1>3, <5>2, FindAppMoves DEF AfterTheApp
                <5>5. CountApps(r) => call'[r].pc = "delete_app"
                    BY <1>3, <2>1, GoToEffect, EndEffect DEF CountApps
                <5> QED
                    BY <2>1, <4>1, <5>3, <5>4, <5>5, NextStatement DEF ClosingStations
            <4> QED
                BY <4>1
        <3>2. ASSUME call'[r].op = "data", call'[r].pc # "find_app"
              PROVE  call'[r].app \in DOMAIN apps'
            <4>1. IsForm(call'[r])
                BY <1>1, <1>3, <3>2 DEF Moves, IsCall, IsVisit, IsUnlock
            <4>2. IsForm(call[r]) /\ call[r].op = "data"
                BY <2>2, <2>3, <3>2, <4>1
            <4>3. call[r].pc = "find_app"
                BY <2>7, <4>2 DEF IsForm, FormStations, DataStations
            <4>4. UNCHANGED tables /\ call'[r].app \in AppAt(call[r].user, call[r].slug)
                BY <1>3, <2>1, <4>3, NextStatement, FindAppMoves
            <4> QED
                BY <4>4 DEF AppAt, AppsOf, tables
        <3> QED
            BY <3>1, <3>2 DEF StoreSound, ClosingStations
    <2> QED
        BY <2>4, <2>5, <2>6, <2>7
<1> QED
    BY <1>2, <1>3

\* Where the deletion of an app can be when its file and pool are still there.
Closing(a) == Making("app", a, ClosingStations)

LEMMA ClosingGoesOn ==
    ASSUME TypeInv, StoreInv, NEW r \in Request, Proceed(r) \/ CutOff(r),
           NEW a, Closing(a), a \in files' \cup pools', a \notin DOMAIN apps
    PROVE  Closing(a)' \/ <<"file", a>> \in broken'
<1> USE DEF TypeInv
<1>1. PICK q \in Request : call[q].pc \in ClosingStations /\ call[q].app = a
    BY DEF Closing, Making
<1>2. CASE q # r
    BY <1>1, <1>2, OthersWait DEF Closing, Making
<1>3. CASE q = r /\ CutOff(r)
    <2>1. call[r].pc \in {"close_pool", "closing"}
        BY <1>1, <1>3 DEF CutOff, ClosingStations
    <2>2. Debris(call[r]) = {<<"file", a>>}
        BY <1>1, <1>3, <2>1, StoreFormAt DEF Debris
    <2> QED
        BY <1>3, <2>2, CutOffMoves
<1>4. CASE q = r /\ Proceed(r)
    <2>1. CASE call'[r] # NoRequest
        BY <1>1, <1>4, <2>1, ClosingMoves DEF Closing, Making
    <2>2. CASE call'[r] = NoRequest
        <3>1. call[r].pc = "remove_file" /\ a \notin files' /\ pools' \subseteq pools /\ UNCHANGED tables
            BY <1>1, <1>4, <2>2, ClosingMoves
        <3>2. a \in pools
            BY <3>1
        <3>3. <<"file", a>> \in broken
            BY <1>1, <1>4, <3>1, <3>2 DEF StoreInv, StoreSound
        <3> QED
            BY <3>1, <3>3 DEF tables
    <2> QED
        BY <2>1, <2>2
<1> QED
    BY <1>2, <1>3, <1>4

LEMMA StoreFollowsOnStep ==
    ASSUME TypeInv, StoreInv, NEW r \in Request, Proceed(r) \/ CutOff(r), UNCHANGED menu,
           NEW a \in files' \cup pools', a \notin DOMAIN apps'
    PROVE  <<"file", a>> \in broken' \/ Closing(a)'
<1>1. Evolves
    BY StepKeepsTypes
<1>2. CASE (a \in files' /\ a \notin files) \/ (a \in pools' /\ a \notin pools)
    <2>1. UNCHANGED tables /\ (a \in DOMAIN apps \/ <<"file", a>> \in broken)
        BY <1>2, NewFiles
    <2> QED
        BY <2>1 DEF tables
<1>3. CASE a \in files \cup pools /\ a \in DOMAIN apps
    <2>1. DeleteApp(r) /\ a = call[r].app
        BY <1>3, LostApps
    <2> QED
        BY <2>1, JustDeleted DEF Closing, Making, ClosingStations
<1>4. CASE a \in files \cup pools /\ a \notin DOMAIN apps
    <2>1. <<"file", a>> \in broken \/ Closing(a)
        BY <1>4 DEF StoreInv, StoreFollowsApps, Closing, ClosingStations
    <2> QED
        BY <1>1, <1>4, <2>1, ClosingGoesOn DEF Evolves
<1> QED
    BY <1>2, <1>3, <1>4

LEMMA EachFileFollows ==
    StoreFollowsApps <=>
        \A a \in (files \cup pools) \ DOMAIN apps : <<"file", a>> \in broken \/ Closing(a)
BY DEF StoreFollowsApps, Closing, ClosingStations

LEMMA EachFileFollowsNext ==
    ASSUME \A a \in files' \cup pools' :
               a \notin DOMAIN apps' => <<"file", a>> \in broken' \/ Closing(a)'
    PROVE  StoreFollowsApps'
BY DEF StoreFollowsApps, Closing, ClosingStations

LEMMA StoreInvStays ==
    ASSUME TypeInv, StoreInv, [WorkspaceNext]_workspaceVars
    PROVE  StoreInv'
<1> USE DEF TypeInv
<1>1. ASSUME NEW r \in Request, Proceed(r) \/ CutOff(r), UNCHANGED menu
      PROVE  StoreInv'
    <2>1. StoreFollowsApps'
        BY <1>1, StoreFollowsOnStep, EachFileFollowsNext
    <2>2. \A q \in Request : StoreSound(call[q])'
        BY <1>1, StoreSoundForOthers, StoreSoundForMover
    <2> QED
        BY <2>1, <2>2 DEF StoreInv
<1>2. ASSUME NEW r \in Request, Begin(r), UNCHANGED menu
      PROVE  StoreInv'
    <2>1. /\ \A q \in Request \ {r} : call'[q] = call[q]
          /\ call[r].pc = "none" /\ UNCHANGED <<tables, storeVars>>
        BY <1>2, BeginMoves, NoRequestIsNothing DEF Alone
    <2>2. /\ call'[r].pc \notin ClosingStations
          /\ call'[r].op = "data" => call'[r].pc = "find_app"
        BY <1>2, BeginMoves DEF FirstStatement, IsVisit, IsUnlock, ClosingStations
    <2>3. \A q \in Request : StoreSound(call[q])'
        BY <2>1, <2>2 DEF StoreSound, StoreInv, tables, storeVars, ClosingStations
    <2>4. ASSUME NEW a \in files' \cup pools', a \notin DOMAIN apps'
          PROVE  <<"file", a>> \in broken' \/ Closing(a)'
        <3>1. <<"file", a>> \in broken \/ Closing(a)
            BY <2>1, <2>4, EachFileFollows DEF StoreInv, tables, storeVars
        <3>2. Closing(a) => Closing(a)'
            BY <2>1 DEF Closing, Making, ClosingStations
        <3> QED
            BY <2>1, <3>1, <3>2 DEF tables
    <2> QED
        BY <2>3, <2>4, EachFileFollowsNext DEF StoreInv
<1>3. CASE UNCHANGED workspaceVars
    BY <1>3 DEF workspaceVars, StoreInv, StoreFollowsApps, StoreSound, Making
<1> QED
    BY <1>1, <1>2, <1>3 DEF WorkspaceNext

\* Whatever data requests run beside the deletion of their app, and whichever of
\* them wins the map: the app's file and pool are gone when the deletion has
\* ended, but when it was cut off or a data request was under way.
THEOREM StoreFollows == WorkspaceSpec => []StoreFollowsApps
<1>1. WorkspaceInit => StoreInv
    BY NoRequestIsNothing
       DEF WorkspaceInit, StoreInv, StoreFollowsApps, StoreSound, ClosingStations
<1>2. StoreInv => StoreFollowsApps
    BY DEF StoreInv
<1> QED
    BY <1>1, <1>2, StoreInvStays, TypesHold, PTL DEF WorkspaceSpec

-----------------------------------------------------------------------------
(* Visits *)

\* What the visit c would be answered now: TimelyAnswer of its slot.
Timely(c) ==
    IF c.of \notin users \/ PublicApp(c.of, c.slug) = {} THEN "missing"
    ELSE Verdict(c, AnyPage(UNION {PageAt(a, c.page) : a \in PublicApp(c.of, c.slug)}),
                 c.of \in listed)

\* The same visit, maybe further on.
SameVisit(c, d) ==
    /\ d.of = c.of /\ d.slug = c.slug /\ d.page = c.page /\ d.user = c.user /\ d.jar = c.jar

LEMMA TimelyAnswerIs ==
    ASSUME NEW r
    PROVE  TimelyAnswer(r) = Timely(call[r])
BY DEF TimelyAnswer, Timely, AnyPage

LEMMA SameVisitSameAnswer ==
    ASSUME NEW c, NEW d, SameVisit(c, d)
    PROVE  Timely(d) = Timely(c)
<1>1. \A p, b : Verdict(d, p, b) = Verdict(c, p, b)
    BY DEF Verdict, SameVisit
<1> QED
    BY <1>1 DEF Timely, SameVisit

LEMMA OnwardIsSameVisit ==
    ASSUME NEW c, NEW d, IsVisit(c), Onward(c, d)
    PROVE  SameVisit(c, d)
BY DEF IsVisit, VisitFields, Onward, SameVisit

\* A URL names at most one app.
LEMMA PublicAppIsOne ==
    ASSUME TablesOK, NEW u, NEW s, NEW a \in PublicApp(u, s), NEW b \in PublicApp(u, s)
    PROVE  a = b
BY DEF TablesOK, WorkspaceTypeOK, PublicApp, DefaultAppOf, AppAt, AppsOf

LEMMA TimelyAtTheApp ==
    ASSUME TablesOK, NEW c, c.of \in users, NEW a \in PublicApp(c.of, c.slug)
    PROVE  Timely(c) = Verdict(c, Found(a, c.page), c.of \in listed)
<1>1. PublicApp(c.of, c.slug) = {a}
    BY PublicAppIsOne
<1>2. UNION {PageAt(b, c.page) : b \in {a}} = PageAt(a, c.page)
    OBVIOUS
<1> QED
    BY <1>1, <1>2 DEF Timely, Found

\* Without a page the answer depends on no table.
Blank(c, profile) ==
    IF c.page = Home /\ (c.user = c.of \/ profile) THEN "profile" ELSE "missing"

LEMMA VerdictBlank ==
    ASSUME NEW c, NEW b
    PROVE  Verdict(c, 0, b) = Blank(c, b)
BY DEF Verdict, Blank

NoPage(c) == \E a \in PublicApp(c.of, c.slug) : PageAt(a, c.page) = {}

LEMMA FoundNothing ==
    ASSUME NEW a, NEW s, PageAt(a, s) = {}
    PROVE  Found(a, s) = 0
BY DEF Found, AnyPage

\* The same facts after a step.
LEMMA TimelyAnswerNext ==
    ASSUME NEW q, NEW d, d = call'[q]
    PROVE  TimelyAnswer(q)' = Timely(d)'
BY DEF TimelyAnswer, Timely, AnyPage

LEMMA SameVisitSameAnswerNext ==
    ASSUME NEW c, NEW d, SameVisit(c, d)
    PROVE  Timely(d)' = Timely(c)'
<1>1. \A p, b : Verdict(d, p, b)' = Verdict(c, p, b)'
    BY DEF Verdict, SameVisit
<1>2. \A p : Verdict(d, p, c.of \in listed)' = Verdict(c, p, c.of \in listed)'
    BY DEF Verdict, SameVisit
<1> QED
    BY <1>1, <1>2 DEF Timely, SameVisit

LEMMA NoPageNext ==
    ASSUME TablesOK', NEW c, c.of \in users', NoPage(c)'
    PROVE  Timely(c)' = Blank(c, c.of \in listed')
<1>1. PICK a \in PublicApp(c.of, c.slug)' : PageAt(a, c.page)' = {}
    BY DEF NoPage
<1>2. \A b \in PublicApp(c.of, c.slug)' : b = a
    BY DEF TablesOK, WorkspaceTypeOK, PublicApp, DefaultAppOf, AppAt, AppsOf
<1>3. PublicApp(c.of, c.slug)' = {a}
    BY <1>2
<1>4. (UNION {PageAt(b, c.page) : b \in PublicApp(c.of, c.slug)})' = {}
    BY <1>1, <1>3
<1>5. Timely(c)' = Verdict(c, 0, c.of \in listed)'
    BY <1>3, <1>4 DEF Timely, AnyPage
<1> QED
    BY <1>5 DEF Verdict, Blank

VisitSound(r, c) ==
    IsVisit(c) =>
        /\ Timely(c) \in fits[r]
        /\ c.pc \in {"find_public_app", "find_public_page"} => c.of \in users
        /\ r \notin shaken =>
               /\ c.pc = "find_public_page" => c.app \in PublicApp(c.of, c.slug)
               /\ c.pc \in {"find_public_app", "find_public_page"} /\ NoPage(c) =>
                      Blank(c, c.listed) \in fits[r]
               /\ c.pc = "load_rows" => "page" \in fits[r]
               /\ c.pc = "answered" =>
                      c.answer \in fits[r] \/ (c.answer = "error" /\ c.pid \notin DOMAIN pages)

VisitInv == \A r \in Request : VisitSound(r, call[r])

-----------------------------------------------------------------------------
(* The tables move under a visit *)

\* What Watch records for a visit that goes on.
LEMMA Watched ==
    ASSUME Watch, NEW q \in Request, call[q].op = "visit", call'[q].op = "visit"
    PROVE  /\ fits[q] \subseteq fits'[q] /\ TimelyAnswer(q)' \in fits'[q]
           /\ q \notin shaken' =>
                  q \notin shaken /\ ~AppMoves(call[q].of) /\ ~AppComesLate(call[q])
BY DEF Watch

LEMMA UnmovedAppsStayPublic ==
    ASSUME TypeInv, Evolves, NEW u, ~AppMoves(u), NEW s, NEW a
    PROVE  /\ a \in PublicApp(u, s) => a \in PublicApp(u, s)'
           /\ a \in PublicApp(u, s)' /\ a \in DOMAIN apps => a \in PublicApp(u, s)
<1>1. \A b \in AppsOf(u) : b \in DOMAIN apps' /\ apps'[b].slug = apps[b].slug
    BY DEF AppMoves
<1>2. \A b \in DOMAIN apps : b \in DOMAIN apps' =>
          apps'[b].owner = apps[b].owner /\ apps'[b].default = apps[b].default
    BY DEF Evolves, TypeInv, TablesOK, WorkspaceTypeOK
<1> QED
    BY <1>1, <1>2 DEF PublicApp, DefaultAppOf, AppAt, AppsOf

\* Home pages go with their apps only.
LEMMA HomesStay ==
    ASSUME TypeInv, WholeInv, Evolves, NEW r \in Request, Proceed(r) \/ CutOff(r),
           NEW a \in DOMAIN apps', a \in DOMAIN apps, PageAt(a, Home)' = {}
    PROVE  PageAt(a, Home) = {}
<1> SUFFICES ASSUME NEW p \in PageAt(a, Home)
             PROVE  FALSE
    OBVIOUS
<1>1. p \in DOMAIN pages /\ pages[p].app = a /\ pages[p].slug = Home
    BY DEF PageAt
<1>2. p \in DOMAIN pages'
    BY <1>1, LostPages DEF WholeInv, SparesHome, DeletePage, At
<1>3. pages'[p].app = a /\ pages'[p].slug = Home
    BY <1>1, <1>2 DEF Evolves, TypeInv, TablesOK, WorkspaceTypeOK
<1> QED
    BY <1>2, <1>3 DEF PageAt

\* A new app comes where no app was, or after others that moved.
LEMMA NewPublicApp ==
    ASSUME TypeInv, TypeInv', Evolves, NEW r \in Request, Proceed(r) \/ CutOff(r),
           NEW u, ~AppMoves(u), NEW s, NEW a \in PublicApp(u, s)', a \notin DOMAIN apps
    PROVE  PublicApp(u, s) = {} /\ apps'[a].owner = u /\ UNCHANGED <<users, listed>>
<1>1. a \in DOMAIN apps' /\ apps'[a].owner = u
    BY DEF PublicApp, DefaultAppOf, AppAt, AppsOf
<1>2. InsertApp(r)
    BY <1>1, NewApps
<1>3. ASSUME NEW b \in PublicApp(u, s)
      PROVE  FALSE
    <2>1. b \in PublicApp(u, s)' /\ b \in DOMAIN apps
        BY UnmovedAppsStayPublic DEF PublicApp, DefaultAppOf, AppAt, AppsOf
    <2>2. a = b
        BY <2>1, PublicAppIsOne DEF TypeInv, TablesOK, WorkspaceTypeOK, PublicApp, DefaultAppOf, AppAt, AppsOf
    <2> QED
        BY <2>1, <2>2
<1>4. UNCHANGED <<users, listed>>
    BY <1>2 DEF InsertApp
<1> QED
    BY <1>1, <1>3, <1>4

\* If c would find no page after the step, it had the answer for that before, or
\* has it now.
LEMMA NoPageIsWatched ==
    ASSUME TypeInv, TypeInv', WholeInv, Evolves, NEW r \in Request, Proceed(r) \/ CutOff(r),
           NEW c, IsVisit(c), c.of \in users, ~AppMoves(c.of), ~AppComesLate(c), NoPage(c)'
    PROVE  NoPage(c) \/ Blank(c, c.listed) \in {Timely(c), Timely(c)'}
<1>1. PICK a \in PublicApp(c.of, c.slug)' : PageAt(a, c.page)' = {}
    BY DEF NoPage
<1>2. Timely(c)' = Blank(c, c.of \in listed')
    BY NoPageNext DEF TypeInv, Evolves
<1>3. CASE c.page # Home
    BY <1>2, <1>3 DEF Blank
<1>4. CASE c.page = Home /\ a \in DOMAIN apps
    <2>1. a \in PublicApp(c.of, c.slug)
        BY <1>4, UnmovedAppsStayPublic
    <2>2. a \in DOMAIN apps'
        BY DEF PublicApp, DefaultAppOf, AppAt, AppsOf
    <2>3. PageAt(a, Home) = {}
        BY <1>1, <1>4, <2>2, HomesStay
    <2> QED
        BY <1>4, <2>1, <2>3 DEF NoPage
<1>5. CASE a \notin DOMAIN apps
    <2>1. PublicApp(c.of, c.slug) = {} /\ apps'[a].owner = c.of /\ UNCHANGED <<users, listed>>
        BY <1>5, NewPublicApp
    <2>2. a \in DOMAIN apps'
        BY DEF PublicApp, DefaultAppOf, AppAt, AppsOf
    <2>3. c.listed => c.of \in listed
        BY <1>5, <2>1, <2>2 DEF AppComesLate
    <2>4. Timely(c) = "missing"
        BY <2>1 DEF Timely
    <2> QED
        BY <1>2, <2>1, <2>3, <2>4 DEF Blank
<1> QED
    BY <1>3, <1>4, <1>5

\* The tables move, the visit does not.
LEMMA VisitStaysSound ==
    ASSUME TypeInv, TypeInv', WholeInv, Evolves,
           NEW r \in Request, Proceed(r) \/ CutOff(r) \/ Quiet, Watch,
           NEW q \in Request, NEW c, c = call[q], VisitSound(q, c), IsVisit(c),
           call'[q].op = "visit", SameVisit(c, call'[q])
    PROVE  VisitSound(q, c)'
<1>1. /\ fits[q] \subseteq fits'[q]
      /\ q \notin shaken' => q \notin shaken /\ ~AppMoves(c.of) /\ ~AppComesLate(c)
    BY Watched DEF IsVisit
<1>2. Timely(c)' \in fits'[q]
    <2> PICK d : d = call'[q]
        OBVIOUS
    <2>1. TimelyAnswer(q)' = Timely(d)'
        BY TimelyAnswerNext
    <2>2. Timely(d)' = Timely(c)'
        BY SameVisitSameAnswerNext
    <2> QED
        BY <2>1, <2>2, Watched DEF IsVisit
<1>3. c.pc \in {"find_public_app", "find_public_page"} => c.of \in users /\ c.of \in users'
    BY DEF VisitSound, Evolves
<1>4. ASSUME q \notin shaken', c.pc = "find_public_page"
      PROVE  c.app \in PublicApp(c.of, c.slug)'
    BY <1>1, <1>4, UnmovedAppsStayPublic DEF VisitSound
<1>5. ASSUME q \notin shaken', c.pc \in {"find_public_app", "find_public_page"}, NoPage(c)'
      PROVE  Blank(c, c.listed) \in fits'[q]
    <2>1. Quiet => NoPage(c)
        BY <1>5 DEF Quiet, NoPage, PublicApp, DefaultAppOf, AppAt, AppsOf, PageAt
    <2>2. ~Quiet => NoPage(c) \/ Blank(c, c.listed) \in {Timely(c), Timely(c)'}
        BY <1>1, <1>3, <1>5, NoPageIsWatched
    <2> QED
        BY <1>1, <1>2, <1>5, <2>1, <2>2 DEF VisitSound
<1>6. c.pid \in Nat /\ c.pid <= made.pages
    <2>1. c # NoRequest
        BY NoRequestIsNothing
    <2> QED
        BY <2>1 DEF TypeInv, Sound
<1>7. c.pid \notin DOMAIN pages => c.pid \notin DOMAIN pages'
    BY <1>6 DEF Evolves, TypeInv, TablesOK, WorkspaceTypeOK
<1> QED
    BY <1>1, <1>2, <1>3, <1>4, <1>5, <1>7 DEF VisitSound

-----------------------------------------------------------------------------
(* The visit goes on *)

\* It moves no table, and what was a right answer stays recorded.
LEMMA VisitGoesOn ==
    ASSUME TypeInv, TypeInv', NEW r \in Request, PublicStep(r), Watch,
           NEW c, c = call[r], IsVisit(c), NEW d, d = call'[r], IsVisit(d), Onward(c, d)
    PROVE  /\ Quiet /\ SameVisit(c, d)
           /\ fits[r] \subseteq fits'[r] /\ Timely(c) \in fits'[r] /\ Timely(d)' = Timely(c)
           /\ NoPage(d)' => NoPage(c)
           /\ r \notin shaken' => r \notin shaken
<1>1. Quiet /\ SameVisit(c, d)
    BY PublicStepsKeepTables, OnwardIsSameVisit
<1>2. /\ fits[r] \subseteq fits'[r] /\ TimelyAnswer(r)' \in fits'[r]
      /\ r \notin shaken' => r \notin shaken
    BY Watched DEF IsVisit
<1>3. TimelyAnswer(r)' = Timely(d)'
    BY TimelyAnswerNext
<1>4. Timely(d)' = Timely(c)'
    BY <1>1, SameVisitSameAnswerNext
<1>5. \A s, t : PublicApp(s, t)' = PublicApp(s, t) /\ PageAt(s, t)' = PageAt(s, t)
    BY <1>1 DEF Quiet, PublicApp, DefaultAppOf, AppAt, AppsOf, PageAt
<1>6. \A p, b : Verdict(c, p, b)' = Verdict(c, p, b)
    BY <1>1 DEF Quiet, Verdict
<1>7. Timely(c)' = Timely(c)
    <2>1. (UNION {PageAt(a, c.page) : a \in PublicApp(c.of, c.slug)})'
             = UNION {PageAt(a, c.page) : a \in PublicApp(c.of, c.slug)}
        BY <1>5
    <2>2. (c.of \in listed)' = (c.of \in listed) /\ (c.of \in users)' = (c.of \in users)
        BY <1>1 DEF Quiet
    <2>3. \A p : Verdict(c, p, c.of \in listed)' = Verdict(c, p, c.of \in listed)
        BY <1>1 DEF Quiet, Verdict
    <2> QED
        BY <1>5, <2>1, <2>2, <2>3 DEF Timely
<1>8. NoPage(d)' => NoPage(c)
    BY <1>1, <1>5 DEF NoPage, SameVisit
<1> QED
    BY <1>1, <1>2, <1>3, <1>4, <1>7, <1>8

\* The owner is found or not.
LEMMA OwnerFound ==
    ASSUME TypeInv, TypeInv', NEW r \in Request, PublicStep(r), FindOwner(r), Watch,
           NEW c, c = call[r], IsVisit(c), VisitSound(r, c), NEW d, d = call'[r], IsVisit(d)
    PROVE  VisitSound(r, d)'
<1>1. Onward(c, d) /\ \/ c.of \in users /\ d.pc = "find_public_app" /\ d.listed = (c.of \in listed)
                      \/ c.of \notin users /\ d.pc = "answered" /\ d.answer = "missing"
    BY FindOwnerMoves, NotFoundMoves, AnswersEffect, Kinds, NoRequestIsNothing DEF TypeInv
<1>2. /\ Quiet /\ SameVisit(c, d)
      /\ fits[r] \subseteq fits'[r] /\ Timely(c) \in fits'[r] /\ Timely(d)' = Timely(c)
      /\ NoPage(d)' => NoPage(c)
      /\ r \notin shaken' => r \notin shaken
    BY <1>1, VisitGoesOn
<1>3. CASE c.of \in users /\ d.pc = "find_public_app" /\ d.listed = (c.of \in listed)
    <2>1. NoPage(c) => Timely(c) = Blank(c, c.of \in listed)
        BY <1>3, TimelyAtTheApp, FoundNothing, VerdictBlank DEF NoPage, TypeInv
    <2>2. Blank(d, d.listed) = Blank(c, c.of \in listed)
        BY <1>2, <1>3 DEF Blank, SameVisit
    <2>3. d.of \in users'
        BY <1>2, <1>3 DEF SameVisit, Quiet
    <2> QED
        BY <1>2, <1>3, <2>1, <2>2, <2>3 DEF VisitSound
<1>4. CASE c.of \notin users /\ d.pc = "answered" /\ d.answer = "missing"
    BY <1>2, <1>4 DEF VisitSound, Timely
<1> QED
    BY <1>1, <1>3, <1>4

\* The app that the URL names is found or not.
LEMMA AppFound ==
    ASSUME TypeInv, TypeInv', NEW r \in Request, PublicStep(r), FindPublicApp(r), Watch,
           NEW c, c = call[r], IsVisit(c), VisitSound(r, c), NEW d, d = call'[r], IsVisit(d)
    PROVE  VisitSound(r, d)'
<1>1. /\ Onward(c, d) /\ c.pc = "find_public_app"
      /\ \/ /\ d.app \in PublicApp(c.of, c.slug) /\ d.pc = "find_public_page"
            /\ d.listed = c.listed
         \/ PublicApp(c.of, c.slug) = {} /\ d.pc = "answered" /\ d.answer = "missing"
    BY FindPublicAppMoves, NotFoundMoves, AnswersEffect, Kinds, NoRequestIsNothing DEF TypeInv
<1>2. /\ Quiet /\ SameVisit(c, d)
      /\ fits[r] \subseteq fits'[r] /\ Timely(c) \in fits'[r] /\ Timely(d)' = Timely(c)
      /\ NoPage(d)' => NoPage(c)
      /\ r \notin shaken' => r \notin shaken
    BY <1>1, VisitGoesOn
<1>3. CASE d.app \in PublicApp(c.of, c.slug) /\ d.pc = "find_public_page" /\ d.listed = c.listed
    <2>1. Blank(d, d.listed) = Blank(c, c.listed)
        BY <1>2, <1>3 DEF Blank, SameVisit
    <2>2. d.of \in users'
        BY <1>1, <1>2 DEF SameVisit, Quiet, VisitSound
    <2>3. d.app \in PublicApp(d.of, d.slug)'
        BY <1>2, <1>3 DEF SameVisit, Quiet, PublicApp, DefaultAppOf, AppAt, AppsOf
    <2> QED
        BY <1>1, <1>2, <1>3, <2>1, <2>2, <2>3 DEF VisitSound
<1>4. CASE PublicApp(c.of, c.slug) = {} /\ d.pc = "answered" /\ d.answer = "missing"
    BY <1>2, <1>4 DEF VisitSound, Timely
<1> QED
    BY <1>1, <1>3, <1>4

\* The page is found or not, and judged.
LEMMA PageFound ==
    ASSUME TypeInv, TypeInv', NEW r \in Request, PublicStep(r), FindPublicPage(r), Watch,
           NEW c, c = call[r], IsVisit(c), VisitSound(r, c), NEW d, d = call'[r], IsVisit(d)
    PROVE  VisitSound(r, d)'
<1> PICK p : p = Found(c.app, c.page)
    OBVIOUS
<1> PICK v : v = Verdict(c, p, c.listed)
    OBVIOUS
<1>1. /\ Onward(c, d) /\ c.pc = "find_public_page"
      /\ \/ v = "page" /\ d.pc = "load_rows"
         \/ v # "page" /\ d.pc = "answered" /\ d.answer = v
    BY FindPublicPageMoves DEF TypeInv
<1>2. /\ Quiet /\ SameVisit(c, d)
      /\ fits[r] \subseteq fits'[r] /\ Timely(c) \in fits'[r] /\ Timely(d)' = Timely(c)
      /\ r \notin shaken' => r \notin shaken
    BY <1>1, VisitGoesOn
<1>3. ASSUME r \notin shaken'
      PROVE  v \in fits'[r]
    <2>1. c.app \in PublicApp(c.of, c.slug) /\ c.of \in users
        BY <1>1, <1>2, <1>3 DEF VisitSound
    <2>2. CASE p = 0
        <3>1. 0 \notin DOMAIN pages
            BY DEF TypeInv, TablesOK, WorkspaceTypeOK
        <3>2. PageAt(c.app, c.page) = {}
            BY <2>2, <3>1 DEF Found, AnyPage, PageAt
        <3>3. NoPage(c)
            BY <2>1, <3>2 DEF NoPage
        <3>4. v = Blank(c, c.listed)
            BY <2>2, VerdictBlank
        <3> QED
            BY <1>1, <1>2, <1>3, <3>3, <3>4 DEF VisitSound
    <2>3. CASE p # 0
        <3>1. Timely(c) = Verdict(c, p, c.of \in listed)
            BY <2>1, TimelyAtTheApp DEF TypeInv
        <3>2. v = Timely(c)
            BY <2>3, <3>1 DEF Verdict
        <3> QED
            BY <1>2, <3>2
    <2> QED
        BY <2>2, <2>3
<1> QED
    BY <1>1, <1>2, <1>3 DEF VisitSound

\* The rows are read or gone.
LEMMA RowsLoaded ==
    ASSUME TypeInv, TypeInv', NEW r \in Request, PublicStep(r), LoadRows(r), Watch,
           NEW c, c = call[r], IsVisit(c), VisitSound(r, c), NEW d, d = call'[r], IsVisit(d)
    PROVE  VisitSound(r, d)'
<1>1. /\ Onward(c, d) /\ c.pc = "load_rows" /\ d.pc = "answered" /\ d.pid = c.pid
      /\ d.answer = IF c.pid \in DOMAIN pages THEN "page" ELSE "error"
    BY LoadRowsMoves DEF TypeInv
<1>2. /\ Quiet /\ SameVisit(c, d)
      /\ fits[r] \subseteq fits'[r] /\ Timely(c) \in fits'[r] /\ Timely(d)' = Timely(c)
      /\ r \notin shaken' => r \notin shaken
    BY <1>1, VisitGoesOn
<1> QED
    BY <1>1, <1>2 DEF VisitSound, Quiet

\* Of two kinds of request, the public site answers the visits.
LEMMA VisitorSteps ==
    ASSUME TypeInv, NEW r \in Request, Proceed(r), IsVisit(call[r]), IsVisit(call'[r])
    PROVE  PublicStep(r) /\ (FindOwner(r) \/ FindPublicApp(r) \/ FindPublicPage(r) \/ LoadRows(r))
<1>1. call'[r] # NoRequest
    BY NoRequestIsNothing
<1>2. FindOwner(r) \/ FindPublicApp(r) \/ FindPublicPage(r) \/ LoadRows(r)
    BY <1>1, NextStatement, UnlockPageMoves, AnsweredMoves DEF IsVisit, TypeInv
<1> QED
    BY <1>2 DEF PublicStep

LEMMA VisitSoundForMover ==
    ASSUME TypeInv, TypeInv', NEW r \in Request, Proceed(r) \/ CutOff(r), UNCHANGED menu, Watch,
           VisitInv
    PROVE  VisitSound(r, call[r])'
<1> PICK c : c = call[r]
    OBVIOUS
<1> PICK d : d = call'[r]
    OBVIOUS
<1>1. CASE ~IsVisit(d)
    BY <1>1 DEF VisitSound
<1>2. CASE IsVisit(d)
    <2>1. d # NoRequest
        BY <1>2, NoRequestIsNothing
    <2>2. Proceed(r) /\ Moves(r)
        BY <2>1, StepKeepsTypes, CutOffMoves DEF TypeInv
    <2>3. IsVisit(c)
        BY <1>2, <2>1, <2>2, OnwardKinds DEF Moves, TypeInv, CallsOK
    <2>4. /\ PublicStep(r)
          /\ FindOwner(r) \/ FindPublicApp(r) \/ FindPublicPage(r) \/ LoadRows(r)
        BY <1>2, <2>2, <2>3, VisitorSteps
    <2>5. VisitSound(r, c)
        BY DEF VisitInv
    <2>6. VisitSound(r, d)'
        BY <1>2, <2>3, <2>4, <2>5, OwnerFound, AppFound, PageFound, RowsLoaded
    <2> QED
        BY <2>6 DEF VisitSound
<1> QED
    BY <1>1, <1>2

LEMMA VisitSoundForOthers ==
    ASSUME TypeInv, TypeInv', WholeInv, Evolves,
           NEW r \in Request, Proceed(r) \/ CutOff(r) \/ Quiet, Watch, VisitInv,
           NEW q \in Request, call'[q] = call[q]
    PROVE  VisitSound(q, call[q])'
<1> PICK c : c = call[q]
    OBVIOUS
<1>1. CASE ~IsVisit(c)
    BY <1>1 DEF VisitSound
<1>2. CASE IsVisit(c)
    <2>1. VisitSound(q, c) /\ call'[q].op = "visit" /\ SameVisit(c, call'[q])
        BY <1>2 DEF VisitInv, IsVisit, SameVisit
    <2>2. VisitSound(q, c)'
        BY <1>2, <2>1, VisitStaysSound
    <2> QED
        BY <2>2 DEF VisitSound
<1> QED
    BY <1>1, <1>2

LEMMA VisitBeginsSound ==
    ASSUME TypeInv, NEW r \in Request, Begin(r), Watch
    PROVE  VisitSound(r, call[r])'
<1> PICK d : d = call'[r]
    OBVIOUS
<1>1. IsVisit(d) => d.pc = "find_owner"
    BY BeginMoves, Kinds DEF TypeInv, IsVisit, IsUnlock, IsForm, VisitFields, UnlockFields, FormFields
<1>2. IsVisit(d) => Timely(d)' \in fits'[r]
    BY TimelyAnswerNext DEF Watch, IsVisit
<1>3. VisitSound(r, d)'
    BY <1>1, <1>2 DEF VisitSound
<1> QED
    BY <1>3 DEF VisitSound

LEMMA VisitInvStays ==
    ASSUME TypeInv, WholeInv, VisitInv, [WorkspaceNext]_workspaceVars
    PROVE  VisitInv'
<1>1. TypeInv' /\ Evolves
    BY NextKeepsTypes
<1>2. ASSUME NEW r \in Request, Proceed(r) \/ CutOff(r), UNCHANGED menu, Watch
      PROVE  VisitInv'
    <2>1. \A q \in Request \ {r} : VisitSound(q, call[q])'
        BY <1>1, <1>2, OthersWait, VisitSoundForOthers
    <2>2. VisitSound(r, call[r])'
        BY <1>1, <1>2, VisitSoundForMover
    <2> QED
        BY <2>1, <2>2 DEF VisitInv
<1>3. ASSUME NEW r \in Request, Begin(r), UNCHANGED menu, Watch
      PROVE  VisitInv'
    <2>1. Quiet /\ \A q \in Request \ {r} : call'[q] = call[q]
        BY <1>3, BeginKeepsTypes, BeginMoves DEF Alone, TypeInv
    <2>2. \A q \in Request \ {r} : VisitSound(q, call[q])'
        BY <1>1, <1>3, <2>1, VisitSoundForOthers
    <2>3. VisitSound(r, call[r])'
        BY <1>3, VisitBeginsSound
    <2> QED
        BY <2>2, <2>3 DEF VisitInv
<1>4. CASE UNCHANGED workspaceVars
    <2>1. ASSUME NEW c
          PROVE  Timely(c)' = Timely(c) /\ NoPage(c)' = NoPage(c)
        <3>1. \A s, t : PublicApp(s, t)' = PublicApp(s, t) /\ PageAt(s, t)' = PageAt(s, t)
            BY <1>4 DEF workspaceVars, PublicApp, DefaultAppOf, AppAt, AppsOf, PageAt
        <3>2. (UNION {PageAt(a, c.page) : a \in PublicApp(c.of, c.slug)})'
                 = UNION {PageAt(a, c.page) : a \in PublicApp(c.of, c.slug)}
            BY <3>1
        <3>3. \A p : Verdict(c, p, c.of \in listed)' = Verdict(c, p, c.of \in listed)
            BY <1>4 DEF workspaceVars, Verdict
        <3>4. (c.of \in listed)' = (c.of \in listed) /\ (c.of \in users)' = (c.of \in users)
            BY <1>4 DEF workspaceVars
        <3>5. Timely(c)' = Timely(c)
            BY <3>1, <3>2, <3>3, <3>4 DEF Timely
        <3>6. NoPage(c)' = NoPage(c)
            BY <3>1 DEF NoPage
        <3> QED
            BY <3>5, <3>6
    <2>2. ASSUME NEW q \in Request, NEW c, VisitSound(q, c)
          PROVE  VisitSound(q, c)'
        <3>1. PublicApp(c.of, c.slug)' = PublicApp(c.of, c.slug)
            BY <1>4 DEF workspaceVars, PublicApp, DefaultAppOf, AppAt, AppsOf
        <3> QED
            BY <1>4, <2>1, <2>2, <3>1 DEF workspaceVars, VisitSound
    <2>3. UNCHANGED call
        BY <1>4 DEF workspaceVars
    <2>4. ASSUME NEW q \in Request
          PROVE  VisitSound(q, call[q])'
        <3> PICK c : c = call[q]
            OBVIOUS
        <3>1. VisitSound(q, c)'
            BY <2>2 DEF VisitInv
        <3> QED
            BY <2>3, <3>1 DEF VisitSound
    <2> QED
        BY <2>4 DEF VisitInv
<1> QED
    BY <1>2, <1>3, <1>4 DEF WorkspaceNext

\* What a visitor is told, although it is read in four statements with other
\* requests between them, was the answer at some moment of the visit: for every
\* visit during which no app of the owner was renamed or deleted, nor made after
\* the profile that the visit had found published was hidden, and but for the
\* error of a page that went before its rows were read.
THEOREM AnswersTimely == WorkspaceSpec => []AnswersAreTimely
<1>1. WorkspaceInit => VisitInv
    BY NoRequestIsNothing DEF WorkspaceInit, VisitInv, VisitSound
<1>2. WorkspaceInit => WholeInv
    BY NoRequestIsNothing DEF WorkspaceInit, WholeInv, AppsAreWhole, SparesHome
<1>3. TypeInv /\ VisitInv => AnswersAreTimely
    BY VisitorAt DEF AnswersAreTimely, VisitInv, VisitSound, TypeInv, CallsOK, At, IsCall, IsUnlock
<1> QED
    BY <1>1, <1>2, <1>3, VisitInvStays, WholeInvStays, TypesHold, PTL DEF WorkspaceSpec

=============================================================================
