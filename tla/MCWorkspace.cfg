CONSTANTS
    Request = {1, 2}
    Workers = 1
    User = {"ann", "bob"}
    NoUser = "nobody_signed_in"
    Personal = "personal"
    NoSlug = "no_slug"
    Home = "home"
    Password = {"old", "new"}
    NoPassword = "none"
    Menus <- MCMenus
    MaxCalls = 3
    MaxCuts = 1
SPECIFICATION MCSpec
CHECK_DEADLOCK FALSE
INVARIANT WorkspaceTypeOK
INVARIANT AppsAreWhole
INVARIANT LastAppStays
INVARIANT AuthorsOwnTheirPages
INVARIANT StoreFollowsApps
 
PROPERTY EveryRequestEnds
