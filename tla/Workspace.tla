----------------------------- MODULE Workspace -----------------------------
(***************************************************************************)
(* Accounts, apps and pages: registration, sessions, the app and page      *)
(* handlers and the public site, with the per-app files of AppStore.       *)
(*                                                                         *)
(* Each statement on Postgres commits on its own, so a handler is one step *)
(* per statement, and other requests run between them.  Elements,          *)
(* revisions and collections of a page or an app are other modules; here   *)
(* a page has its columns and whether it has a baseline revision.  Titles, *)
(* themes and head snippets are text that no rule reads: the forms that    *)
(* set them are forms that change nothing here.                            *)
(***************************************************************************)
EXTENDS AppStore

CONSTANTS
    User, NoUser,           \* usernames, and a viewer without a session
    Personal, NoSlug,       \* the slug of the first app; a URL without one
    Home,                   \* the page slug ""
    Password, NoPassword,
    Menus,                  \* sets of requests that clients may send
    MaxCalls, MaxCuts       \* bounds on requests begun and requests cut off

ASSUME WorkspaceAssumption ==
    /\ NoUser \notin User
    /\ NoPassword \notin Password
    /\ Personal # NoSlug
    /\ MaxCalls \in Nat /\ MaxCuts \in Nat

VARIABLES
    users,      \* registered usernames
    listed,     \* users whose profile is published
    signedIn,   \* users whose browser has a live session
    apps, pages,
    unlocked,   \* pages the visitor's browser has an unlock cookie for
    made,       \* how many ids of apps and pages have been handed out
    menu,       \* the requests that come in this behaviour
    begun, cuts,    \* history: requests begun, requests cut off
    broken,     \* history: what a request that was cut off left half-made
    raced,      \* history: users with two app deletions past the count at once
    fits,       \* history: the answers that were right during a visit
    shaken      \* history: visits during which an app of the owner moved, or
                \* came too late for what the visit had read

workspaceVars == <<call, files, pools, users, listed, signedIn, apps, pages, unlocked,
                   made, menu, begun, cuts, broken, raced, fits, shaken>>

tables == <<users, listed, signedIn, apps, pages, unlocked, made, raced, broken>>

-----------------------------------------------------------------------------
(* Requests, as they arrive *)

FirstStatement(op) ==
    CASE op = "register"     -> "create_user"
      [] op = "login"        -> "find_user"
      [] op = "logout"       -> "delete_session"
      [] op = "profile_form" -> "update_user"
      [] op = "create_app"   -> "insert_app"
      [] OTHER               -> "find_app"

Request0(op, u, s, p, arg) ==
    [op |-> op, pc |-> FirstStatement(op), user |-> u, slug |-> s, page |-> p, arg |-> arg,
     app |-> 0, pid |-> 0]

Registration(u)        == Request0("register", u, Personal, Home, "none")
Login(u)               == Request0("login", u, NoSlug, Home, "none")
Logout(u)              == Request0("logout", u, NoSlug, Home, "none")
AppCreation(u, s)      == Request0("create_app", u, s, Home, "none")
AppRename(u, s, t)     == Request0("rename_app", u, s, Home, t)
AppTheme(u, s)         == Request0("dress_app", u, s, Home, "none")
AppPublication(u, s, on) == Request0("publish_app", u, s, Home, on)
AppDeletion(u, s)      == Request0("delete_app", u, s, Home, "none")
ProfileForm(u, on)     == Request0("profile_form", u, NoSlug, Home, on)
DataRequest(u, s)      == Request0("data", u, s, Home, "none")
PageCreation(u, s, p)  == Request0("create_page", u, s, p, "none")
PageHead(u, s, p)      == Request0("dress_page", u, s, p, "none")
PageUpdate(u, s, p, on) == Request0("publish_page", u, s, p, on)
PageDeletion(u, s, p)  == Request0("delete_page", u, s, p, "none")

\* The whole form: an empty password field takes the password away.
PageAccess(u, s, p, pw, unlisted) ==
    Request0("access_page", u, s, p, [password |-> pw, unlisted |-> unlisted])

\* Requests to the public site: of, whose site it is.
Visit(viewer, of, s, p) ==
    [op |-> "visit", pc |-> "find_owner", user |-> viewer, of |-> of, slug |-> s, page |-> p,
     app |-> 0, pid |-> 0, listed |-> FALSE, jar |-> {}, answer |-> "none"]

Unlock(of, p, pw) ==
    [op |-> "unlock", pc |-> "find_owner", user |-> NoUser, of |-> of, slug |-> NoSlug, page |-> p,
     arg |-> pw, app |-> 0, pid |-> 0, listed |-> FALSE]

\* A request as it may arrive: an account and an app are made with their first
\* app and page.
IsRequest(c) ==
    \/ c.op = "visit" /\ c = Visit(c.user, c.of, c.slug, c.page)
    \/ c.op = "unlock" /\ c = Unlock(c.of, c.page, c.arg)
    \/ /\ c.op \in {"register", "create_app"} /\ c.user \in User
       /\ c = Request0(c.op, c.user, c.slug, Home, "none")
    \/ /\ c.op \in {"login", "logout", "profile_form", "rename_app", "dress_app", "publish_app",
                    "delete_app", "data", "create_page", "dress_page", "publish_page",
                    "access_page", "delete_page"}
       /\ c.user \in User
       /\ c = Request0(c.op, c.user, c.slug, c.page, c.arg)

ASSUME MenusAssumption == \A m \in Menus : \A c \in m : IsRequest(c)

NeedsSession(c) == c.op \notin {"register", "login", "visit", "unlock"}

\* Extractor and CSRF check; a visitor with a dead session is a visitor
\* without one.
Begin(r) ==
    /\ call[r] = NoRequest
    /\ begun < MaxCalls
    /\ begun' = begun + 1
    /\ \E c \in menu :
           /\ NeedsSession(c) => c.user \in signedIn
           /\ c.op = "visit" => c.user \in signedIn \cup {NoUser}
           /\ call' = [call EXCEPT ![r] = IF c.op = "visit" THEN [c EXCEPT !.jar = unlocked] ELSE c]
    /\ UNCHANGED <<tables, storeVars, cuts>>

-----------------------------------------------------------------------------
(* Queries *)

AppsOf(u) == {a \in DOMAIN apps : apps[a].owner = u}

\* A slip: the slug is looked up among everybody's apps.
AppAtAnyOwner(u, s) == {a \in DOMAIN apps : apps[a].slug = s}

\* find_app_by_owner_and_slug: none or one.
AppAt(u, s) == {a \in AppsOf(u) : apps[a].slug = s}

DefaultAppOf(u) == {a \in AppsOf(u) : apps[a].default}

\* What the public URL names.
PublicApp(u, s) == IF s = NoSlug THEN DefaultAppOf(u) ELSE AppAt(u, s)

PageAt(a, s) == {p \in DOMAIN pages : pages[p].app = a /\ pages[p].slug = s}

\* The statement that follows the lookup of the app.
AfterTheApp(op) ==
    CASE op = "delete_app" -> "count_apps"
      [] op = "create_page" -> "insert_page"
      [] op = "data" -> "get_pool"
      [] op \in {"rename_app", "publish_app", "dress_app"} -> op
      [] OTHER -> "find_page"

FindApp(r) ==
    /\ At(r, "find_app")
    /\ \/ \E a \in AppAt(call[r].user, call[r].slug) :
              call' = [call EXCEPT ![r].app = a, ![r].pc = AfterTheApp(call[r].op)]
       \/ AppAt(call[r].user, call[r].slug) = {} /\ End(r)
    /\ UNCHANGED <<tables, storeVars>>

\* A slip: the home page may be deleted.
MayWriteAny(r, p) == pages[p].author = call[r].user

\* Forbidden for other authors; the home page is not deleted.
MayWrite(r, p) ==
    /\ pages[p].author = call[r].user
    /\ call[r].op = "delete_page" => pages[p].slug # Home

FindOwnPage(r) ==
    /\ At(r, "find_page")
    /\ LET found == {p \in PageAt(call[r].app, call[r].page) : MayWrite(r, p)}
       IN  \/ \E p \in found : call' = [call EXCEPT ![r].pid = p, ![r].pc = call[r].op]
           \/ found = {} /\ End(r)
    /\ UNCHANGED <<tables, storeVars>>

-----------------------------------------------------------------------------
(* Accounts *)

CreateUser(r) ==
    /\ At(r, "create_user")
    /\ IF call[r].user \in users THEN End(r) ELSE GoTo(r, "insert_app")
    /\ users' = users \cup {call[r].user}
    /\ UNCHANGED <<listed, signedIn, apps, pages, unlocked, made, raced, broken, storeVars>>

\* An unknown name, or a password that does not verify.
FindUser(r) ==
    /\ At(r, "find_user")
    /\ \/ call[r].user \in users /\ GoTo(r, "create_session")
       \/ End(r)
    /\ UNCHANGED <<tables, storeVars>>

CreateSession(r) ==
    /\ At(r, "create_session")
    /\ signedIn' = signedIn \cup {call[r].user}
    /\ End(r)
    /\ UNCHANGED <<users, listed, apps, pages, unlocked, made, raced, broken, storeVars>>

DeleteSession(r) ==
    /\ At(r, "delete_session")
    /\ signedIn' = signedIn \ {call[r].user}
    /\ End(r)
    /\ UNCHANGED <<users, listed, apps, pages, unlocked, made, raced, broken, storeVars>>

UpdateUser(r) ==
    /\ At(r, "update_user")
    /\ listed' = IF call[r].arg THEN listed \cup {call[r].user} ELSE listed \ {call[r].user}
    /\ End(r)
    /\ UNCHANGED <<users, signedIn, apps, pages, unlocked, made, raced, broken, storeVars>>

-----------------------------------------------------------------------------
(* Apps *)

\* create_app, its first statement; UNIQUE (owner_id, slug).
InsertApp(r) ==
    /\ At(r, "insert_app")
    /\ LET a == made.apps + 1
       IN  \/ /\ AppAt(call[r].user, call[r].slug) = {}
              /\ made' = [made EXCEPT !.apps = a]
              /\ apps' = [b \in DOMAIN apps \cup {a} |->
                             IF b = a THEN [owner |-> call[r].user, slug |-> call[r].slug,
                                            default |-> call[r].op = "register", published |-> FALSE]
                             ELSE apps[b]]
              /\ call' = [call EXCEPT ![r].app = a, ![r].pc = "insert_page"]
           \/ /\ AppAt(call[r].user, call[r].slug) # {}
              /\ End(r)
              /\ UNCHANGED <<made, apps>>
    /\ UNCHANGED <<users, listed, signedIn, pages, unlocked, raced, broken, storeVars>>

\* Fails when the slug is another app's or the app is gone.
RenameApp(r) ==
    /\ At(r, "rename_app")
    /\ LET c == call[r]
       IN  \/ /\ c.app \in DOMAIN apps /\ AppAt(c.user, c.arg) \ {c.app} = {}
              /\ apps' = [apps EXCEPT ![c.app].slug = c.arg]
           \/ /\ c.app \notin DOMAIN apps \/ AppAt(c.user, c.arg) \ {c.app} # {}
              /\ UNCHANGED apps
    /\ End(r)
    /\ UNCHANGED <<users, listed, signedIn, pages, unlocked, made, raced, broken, storeVars>>

\* An UPDATE without a row to update is no error.
PublishApp(r) ==
    /\ At(r, "publish_app")
    /\ apps' = [a \in DOMAIN apps |->
                   IF a = call[r].app THEN [apps[a] EXCEPT !.published = call[r].arg] ELSE apps[a]]
    /\ End(r)
    /\ UNCHANGED <<users, listed, signedIn, pages, unlocked, made, raced, broken, storeVars>>

\* The theme of an app, the head of a page: text.
Dress(r) ==
    /\ At(r, "dress_app") \/ At(r, "dress_page")
    /\ End(r)
    /\ UNCHANGED <<tables, storeVars>>

\* A slip: the only app may go.
CountNoApps(r) ==
    /\ At(r, "count_apps")
    /\ GoTo(r, "delete_app")
    /\ UNCHANGED <<tables, storeVars>>

CountApps(r) ==
    /\ At(r, "count_apps")
    /\ \/ Cardinality(AppsOf(call[r].user)) <= 1 /\ End(r) /\ UNCHANGED raced
       \/ /\ Cardinality(AppsOf(call[r].user)) > 1
          /\ GoTo(r, "delete_app")
          /\ raced' = IF \E q \in Request \ {r} : At(q, "delete_app") /\ call[q].user = call[r].user
                      THEN raced \cup {call[r].user} ELSE raced
    /\ UNCHANGED <<users, listed, signedIn, apps, pages, unlocked, made, broken, storeVars>>

\* A slip: the rows of the app's pages stay.
KeptPages(a) == DOMAIN pages

\* ON DELETE CASCADE.
RemainingPages(a) == {p \in DOMAIN pages : pages[p].app # a}

DeleteApp(r) ==
    /\ At(r, "delete_app")
    /\ LET a == call[r].app
       IN  /\ apps' = [b \in DOMAIN apps \ {a} |-> apps[b]]
           /\ pages' = [p \in RemainingPages(a) |-> pages[p]]
           /\ broken' = IF \E q \in Request : call[q].op = "data" /\ call[q].app = a
                        THEN broken \cup {<<"file", a>>} ELSE broken
    /\ GoTo(r, "close_pool")
    /\ UNCHANGED <<users, listed, signedIn, unlocked, made, raced, storeVars>>

-----------------------------------------------------------------------------
(* Pages *)

\* create_page, its transaction; UNIQUE (app_id, slug), and the app must exist.
InsertPage(r) ==
    /\ At(r, "insert_page")
    /\ LET c == call[r]
           p == made.pages + 1
       IN  \/ /\ c.app \in DOMAIN apps /\ PageAt(c.app, c.page) = {}
              /\ made' = [made EXCEPT !.pages = p]
              /\ pages' = [q \in DOMAIN pages \cup {p} |->
                              IF q = p THEN [app |-> c.app, slug |-> c.page, author |-> c.user,
                                             published |-> FALSE, unlisted |-> FALSE,
                                             password |-> NoPassword, baseline |-> FALSE]
                              ELSE pages[q]]
              /\ call' = [call EXCEPT ![r].pid = p, ![r].pc = "snapshot"]
           \/ /\ c.app \notin DOMAIN apps \/ PageAt(c.app, c.page) # {}
              /\ End(r)
              /\ UNCHANGED <<made, pages>>
    /\ UNCHANGED <<users, listed, signedIn, apps, unlocked, raced, broken, storeVars>>

\* The baseline revision; an error if the page is gone.
SnapshotBaseline(r) ==
    /\ At(r, "snapshot")
    /\ \/ /\ call[r].pid \in DOMAIN pages
          /\ pages' = [pages EXCEPT ![call[r].pid].baseline = TRUE]
          /\ IF call[r].op = "register" THEN GoTo(r, "create_session") ELSE End(r)
       \/ call[r].pid \notin DOMAIN pages /\ End(r) /\ UNCHANGED pages
    /\ UNCHANGED <<users, listed, signedIn, apps, unlocked, made, raced, broken, storeVars>>

\* With RETURNING, so a page that is gone is an error, and nothing changes.
UpdatePage(r) ==
    /\ At(r, "publish_page")
    /\ pages' = [p \in DOMAIN pages |->
                    IF p = call[r].pid THEN [pages[p] EXCEPT !.published = call[r].arg] ELSE pages[p]]
    /\ End(r)
    /\ UNCHANGED <<users, listed, signedIn, apps, unlocked, made, raced, broken, storeVars>>

\* Both columns, whatever the form leaves as it was.
WithAccess(page, access) ==
    [page EXCEPT !.password = access.password, !.unlisted = access.unlisted]

UpdatePageAccess(r) ==
    /\ At(r, "access_page")
    /\ pages' = [p \in DOMAIN pages |->
                    IF p = call[r].pid THEN WithAccess(pages[p], call[r].arg) ELSE pages[p]]
    /\ End(r)
    /\ UNCHANGED <<users, listed, signedIn, apps, unlocked, made, raced, broken, storeVars>>

DeletePage(r) ==
    /\ At(r, "delete_page")
    /\ pages' = [p \in DOMAIN pages \ {call[r].pid} |-> pages[p]]
    /\ End(r)
    /\ UNCHANGED <<users, listed, signedIn, apps, unlocked, made, raced, broken, storeVars>>

-----------------------------------------------------------------------------
(* The public site *)

AnswerWith(r, answer) == call' = [call EXCEPT ![r].pc = "answered", ![r].answer = answer]

\* An unlock has no answer that matters.
NotFound(r) == IF call[r].op = "visit" THEN AnswerWith(r, "missing") ELSE End(r)

FindOwner(r) ==
    /\ At(r, "find_owner")
    /\ IF call[r].of \in users
       THEN call' = [call EXCEPT ![r].listed = call[r].of \in listed, ![r].pc = "find_public_app"]
       ELSE NotFound(r)
    /\ UNCHANGED <<tables, storeVars>>

FindPublicApp(r) ==
    /\ At(r, "find_public_app")
    /\ LET found == PublicApp(call[r].of, call[r].slug)
       IN  \/ \E a \in found : call' = [call EXCEPT ![r].app = a, ![r].pc = "find_public_page"]
           \/ found = {} /\ NotFound(r)
    /\ UNCHANGED <<tables, storeVars>>

\* The cookie names the page, not the password.
UnlockPage(r) ==
    /\ At(r, "find_public_page")
    /\ call[r].op = "unlock"
    /\ unlocked' = unlocked \cup {p \in PageAt(call[r].app, call[r].page) :
                                     pages[p].password = call[r].arg}
    /\ End(r)
    /\ UNCHANGED <<users, listed, signedIn, apps, pages, made, raced, broken, storeVars>>

\* The answer of render_public before it loads rows: p is the page or 0.
Verdict(c, p, profile) ==
    IF p = 0
    THEN IF c.page = Home /\ (c.user = c.of \/ profile) THEN "profile" ELSE "missing"
    ELSE IF c.user = c.of THEN "page"
    ELSE IF ~pages[p].published THEN "elsewhere"
    ELSE IF pages[p].unlisted THEN "missing"
    ELSE IF pages[p].password # NoPassword /\ p \notin c.jar THEN "gate"
    ELSE "page"

\* A slip: whether the page is published is read first, the password later.
FindPublishedFirst(r) ==
    /\ call[r].op = "visit"
    /\ LET c     == call[r]
           found == PageAt(c.app, c.page)
       IN  \/ /\ At(r, "find_public_page")
              /\ IF \E p \in found : pages[p].published /\ ~pages[p].unlisted
                 THEN call' = [call EXCEPT ![r].pid = CHOOSE p \in found : TRUE, ![r].pc = "gate"]
                 ELSE AnswerWith(r, "missing")
           \/ /\ At(r, "gate")
              /\ IF c.pid \in found /\ pages[c.pid].password = NoPassword
                 THEN GoTo(r, "load_rows")
                 ELSE AnswerWith(r, "missing")
    /\ UNCHANGED <<tables, storeVars>>

FindPublicPage(r) ==
    /\ At(r, "find_public_page")
    /\ call[r].op = "visit"
    /\ LET found   == PageAt(call[r].app, call[r].page)
           p       == IF found = {} THEN 0 ELSE CHOOSE q \in found : TRUE
           verdict == Verdict(call[r], p, call[r].listed)
       IN  IF verdict = "page"
           THEN call' = [call EXCEPT ![r].pid = p, ![r].pc = "load_rows"]
           ELSE AnswerWith(r, verdict)
    /\ UNCHANGED <<tables, storeVars>>

\* A page that is gone has no rows, and no rows make no tree.
LoadRows(r) ==
    /\ At(r, "load_rows")
    /\ AnswerWith(r, IF call[r].pid \in DOMAIN pages THEN "page" ELSE "error")
    /\ UNCHANGED <<tables, storeVars>>

Answered(r) ==
    /\ At(r, "answered")
    /\ End(r)
    /\ UNCHANGED <<tables, storeVars>>

-----------------------------------------------------------------------------
(* Requests that stop halfway *)

\* What is half-made when c stops.
Debris(c) ==
    CASE c.pc = "insert_app" /\ c.op = "register"                  -> {<<"user", c.user>>}
      [] c.pc = "insert_page" /\ c.op \in {"register", "create_app"} -> {<<"app", c.app>>}
      [] c.pc = "snapshot"                                         -> {<<"page", c.pid>>}
      [] c.pc \in {"close_pool", "closing"}                        -> {<<"file", c.app>>}
      [] OTHER                                                     -> {}

\* The client hangs up, the database fails or the process dies, at an await.
CutOff(r) ==
    /\ call[r].pc \notin {"none", "answered", "remove_file", "insert_blocked", "close_blocked"}
    /\ cuts < MaxCuts
    /\ cuts' = cuts + 1
    /\ broken' = broken \cup Debris(call[r])
    /\ End(r)
    /\ UNCHANGED <<users, listed, signedIn, apps, pages, unlocked, made, raced, begun, storeVars>>

-----------------------------------------------------------------------------
(* The specification *)

AccountStep(r) ==
    \/ CreateUser(r) \/ FindUser(r) \/ CreateSession(r) \/ DeleteSession(r) \/ UpdateUser(r)

AppStep(r) ==
    \/ FindApp(r) \/ InsertApp(r) \/ RenameApp(r) \/ PublishApp(r) \/ CountApps(r) \/ DeleteApp(r)
    \/ Dress(r)

PageStep(r) ==
    \/ FindOwnPage(r) \/ InsertPage(r) \/ SnapshotBaseline(r)
    \/ UpdatePage(r) \/ UpdatePageAccess(r) \/ DeletePage(r)

PublicStep(r) ==
    \/ FindOwner(r) \/ FindPublicApp(r) \/ UnlockPage(r)
    \/ FindPublicPage(r) \/ LoadRows(r) \/ Answered(r)

\* A handler goes on.
Proceed(r) ==
    /\ \/ WorkerFree /\ (AccountStep(r) \/ AppStep(r) \/ PageStep(r) \/ PublicStep(r))
       \/ StoreStep(r) /\ UNCHANGED tables
    /\ UNCHANGED <<begun, cuts>>

\* What a visit would be answered if it took no time.
TimelyAnswer(r) ==
    LET c    == call[r]
        As   == PublicApp(c.of, c.slug)
        Ps   == UNION {PageAt(a, c.page) : a \in As}
    IN  IF c.of \notin users \/ As = {} THEN "missing"
        ELSE Verdict(c, IF Ps = {} THEN 0 ELSE CHOOSE p \in Ps : TRUE, c.of \in listed)

\* An app of the owner is renamed or deleted.
AppMoves(u) == \E a \in AppsOf(u) : a \notin DOMAIN apps' \/ apps'[a].slug # apps[a].slug

\* An app of the owner is made after the profile, which c has found published,
\* has been hidden.
AppComesLate(c) ==
    /\ c.listed /\ c.of \notin listed
    /\ \E a \in DOMAIN apps' \ DOMAIN apps : apps'[a].owner = c.of

Watch ==
    /\ fits' = [r \in Request |->
                   IF call'[r].op = "visit" THEN fits[r] \cup {TimelyAnswer(r)'} ELSE {}]
    /\ shaken' = {r \in Request : /\ call[r].op = "visit" /\ call'[r].op = "visit"
                                  /\ \/ r \in shaken
                                     \/ AppMoves(call[r].of)
                                     \/ AppComesLate(call[r])}

WorkspaceInit ==
    /\ call = [r \in Request |-> NoRequest]
    /\ files = {} /\ pools = {}
    /\ users = {} /\ listed = {} /\ signedIn = {}
    /\ apps = <<>> /\ pages = <<>> /\ unlocked = {}
    /\ made = [apps |-> 0, pages |-> 0]
    /\ menu \in Menus
    /\ begun = 0 /\ cuts = 0
    /\ broken = {} /\ raced = {} /\ shaken = {}
    /\ fits = [r \in Request |-> {}]

WorkspaceNext ==
    \E r \in Request :
        /\ (WorkerFree /\ Begin(r)) \/ Proceed(r) \/ CutOff(r)
        /\ UNCHANGED menu
        /\ Watch

\* tokio polls every task that can go on, and its statements end.
WorkspaceFairness ==
    \A r \in Request : WF_workspaceVars(Proceed(r) /\ UNCHANGED menu /\ Watch)

WorkspaceSpec == WorkspaceInit /\ [][WorkspaceNext]_workspaceVars /\ WorkspaceFairness

-----------------------------------------------------------------------------
(* Properties *)

\* Some request is at one of pcs with this app or page.
Making(field, id, pcs) == \E r \in Request : call[r].pc \in pcs /\ call[r][field] = id

\* Some request of one of these kinds is at pc for this user or with this app.
Owing(ops, pc, field, id) ==
    \E r \in Request : call[r].op \in ops /\ At(r, pc) /\ call[r][field] = id

\* Keys and foreign keys: every app has an owner, every page an app, slugs are
\* unique where they must be, and an owner has at most one default app.
WorkspaceTypeOK ==
    /\ DOMAIN apps \subseteq 1..made.apps /\ DOMAIN pages \subseteq 1..made.pages
    /\ listed \cup signedIn \cup {apps[a].owner : a \in DOMAIN apps} \subseteq users
    /\ {pages[p].app : p \in DOMAIN pages} \subseteq DOMAIN apps
    /\ \A a, b \in DOMAIN apps :
           a # b /\ apps[a].owner = apps[b].owner =>
               apps[a].slug # apps[b].slug /\ ~(apps[a].default /\ apps[b].default)
    /\ \A p, q \in DOMAIN pages :
           p # q /\ pages[p].app = pages[q].app => pages[p].slug # pages[q].slug

\* Every app has its home page and every page its baseline revision, but while
\* they are being made or when the request that made them was cut off.
AppsAreWhole ==
    /\ \A a \in DOMAIN apps :
           \/ PageAt(a, Home) # {}
           \/ <<"app", a>> \in broken \/ Owing({"register", "create_app"}, "insert_page", "app", a)
    /\ \A p \in DOMAIN pages :
           \/ pages[p].baseline
           \/ <<"page", p>> \in broken \/ Making("pid", p, {"snapshot"})

\* A user has an app from registration on; only two deletions that both counted
\* before either deleted can take the last one.
LastAppStays ==
    \A u \in users :
        \/ AppsOf(u) # {}
        \/ <<"user", u>> \in broken \/ Owing({"register"}, "insert_app", "user", u)
        \/ u \in raced

\* Whatever slugs are reused and apps renamed between two statements, nobody's
\* page is in another user's app: the handlers that check the author refuse
\* nobody whom the lookup by owner let through.
AuthorsOwnTheirPages ==
    \A p \in DOMAIN pages : pages[p].author = apps[pages[p].app].owner

\* The file and the pool of a deleted app go with it, but while the deletion is
\* at it, when it was cut off, or when a data request was under way.
StoreFollowsApps ==
    \A a \in (files \cup pools) \ DOMAIN apps :
        \/ <<"file", a>> \in broken
        \/ Making("app", a, {"close_pool", "close_blocked", "closing", "remove_file"})

\* What a visitor is told was true at some moment of the visit, although it is
\* read in four statements; unless an app of the owner was renamed or deleted
\* meanwhile, or made after a profile was hidden that the visit found published,
\* and but for a page that is deleted before its rows are read.
AnswersAreTimely ==
    \A r \in Request \ shaken :
        At(r, "answered") =>
            \/ call[r].answer \in fits[r]
            \/ call[r].answer = "error" /\ call[r].pid \notin DOMAIN pages

\* Every request ends, unless all worker threads wait for a guard of the map and
\* the task that holds it has no thread left to go on with.
EveryRequestEnds ==
    \A r \in Request :
        call[r] # NoRequest ~> call[r] = NoRequest \/ (Guarded /\ ~WorkerFree)

=============================================================================
