---------------------------- MODULE MCWorkspace ----------------------------
(***************************************************************************)
(* Scenes for Workspace.  One starts with the empty database; the others   *)
(* start where legal calls have led: ann and bob are registered and signed *)
(* in, ann has a second app, her home page is published behind a password, *)
(* and the file of her first app is open.                                  *)
(***************************************************************************)
EXTENDS Workspace

Account(u) == {Registration(u), Login(u), Logout(u), ProfileForm(u, TRUE), ProfileForm(u, FALSE)}

\* ann registers, by several requests at once, and works from the first moment on.
Arrivals ==
    Account("ann") \cup
        {AppCreation("ann", "blog"), AppDeletion("ann", Personal),
         Visit(NoUser, "ann", NoSlug, Home), Visit("ann", "ann", NoSlug, Home)}

\* Apps come, go, change their names and have their data read and written.
AppWork ==
    {AppCreation("ann", "blog"), AppCreation("ann", "shop"),
     AppRename("ann", Personal, "shop"), AppPublication("ann", "blog", TRUE), AppTheme("ann", "blog"),
     AppDeletion("ann", Personal), AppDeletion("ann", "blog"), Unlock("ann", Home, "old"),
     DataRequest("ann", Personal), DataRequest("ann", "blog"), DataRequest("bob", Personal)}

\* The home page is published, hidden and locked while it is visited.
Visits ==
    {PageUpdate("ann", Personal, Home, on) : on \in BOOLEAN}
    \cup {PageAccess("ann", Personal, Home, pw, FALSE) : pw \in {NoPassword, "new"}}
    \cup {PageAccess("ann", Personal, Home, "old", TRUE), PageHead("ann", Personal, Home)}
    \cup {Visit(v, "ann", s, Home) : v \in {"ann", NoUser}, s \in {NoSlug, Personal}}
    \cup {Unlock("ann", Home, "old"), ProfileForm("ann", TRUE)}

\* Pages come and go while the app at their slug becomes another one.
Moves ==
    {PageCreation("ann", "blog", "about"), PageUpdate("ann", "blog", "about", TRUE),
     PageDeletion("ann", "blog", "about"), PageDeletion("ann", "blog", Home),
     PageUpdate("ann", "shop", Home, TRUE), Visit(NoUser, "ann", "blog", Home),
     Visit(NoUser, "ann", "blog", "about"), Visit("ann", "ann", "blog", "about"),
     AppRename("ann", "blog", "shop"), AppRename("ann", Personal, "blog"),
     AppDeletion("ann", "blog"), AppCreation("ann", "blog")}

\* Two users write pages at the same slugs.
Neighbours ==
    {PageCreation(u, Personal, "about") : u \in {"ann", "bob"}}
    \cup {PageDeletion(u, Personal, "about") : u \in {"ann", "bob"}}
    \cup {AppRename("ann", "blog", "shop"), AppRename("bob", Personal, "blog"),
          PageCreation("bob", "blog", "about"), PageUpdate("bob", "blog", Home, TRUE),
          Visit("bob", "bob", "blog", Home), Visit("bob", "ann", "blog", "none"),
          Visit(NoUser, "nobody", NoSlug, Home), Unlock("bob", "about", "old"),
          Unlock("nobody", Home, "old")}

\* The profile is hidden and apps are made while URLs of the site are visited.
Hiding ==
    {ProfileForm("ann", FALSE), ProfileForm("ann", TRUE), AppCreation("ann", "shop"),
     Visit(NoUser, "ann", "shop", Home), Visit("ann", "ann", "shop", Home)}

ASSUME \A c \in AppWork \cup Visits \cup Moves \cup Neighbours \cup Hiding : IsRequest(c)

App(u, s, default) == [owner |-> u, slug |-> s, default |-> default, published |-> FALSE]

HomePage(a, u, published, password) ==
    [app |-> a, slug |-> Home, author |-> u, published |-> published, unlisted |-> FALSE,
     password |-> password, baseline |-> TRUE]

Settled ==
    /\ call = [r \in Request |-> NoRequest]
    /\ files = {1} /\ pools = {1}
    /\ users = {"ann", "bob"} /\ signedIn = {"ann", "bob"}
    /\ apps = <<App("ann", Personal, TRUE), App("bob", Personal, TRUE), App("ann", "blog", FALSE)>>
    /\ pages = <<HomePage(1, "ann", TRUE, "old"), HomePage(2, "bob", FALSE, NoPassword),
                 HomePage(3, "ann", FALSE, NoPassword)>>
    /\ unlocked = {}
    /\ made = [apps |-> 3, pages |-> 3]
    /\ menu \in {AppWork, Visits, Moves, Neighbours, Hiding}
    /\ listed = IF menu = Hiding THEN {"ann"} ELSE {}
    /\ begun = 0 /\ cuts = 0
    /\ broken = {} /\ raced = {} /\ shaken = {}
    /\ fits = [r \in Request |-> {}]

MCMenus == {Arrivals}

MCInit == WorkspaceInit \/ Settled

MCSpec == MCInit /\ [][WorkspaceNext]_workspaceVars /\ WorkspaceFairness

=============================================================================
