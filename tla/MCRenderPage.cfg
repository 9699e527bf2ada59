CONSTANTS
    Coll = {"posts"}
    Loads <- MCLoads
    Uuid <- MCUuid
    Content = {"#body", "box", "form", "input", "#text"}
    MaxNodes = 14
    LibraryUuid = {1, 2, 3, 4}
    LibraryContent = {"box"}
    LibraryKeys = 4
SPECIFICATION Spec
INVARIANT ArenaTypeOK
INVARIANT RenderTypeOK
INVARIANT InvariantsHold
INVARIANT ListsAreComplete
INVARIANT AllBelowRoot
INVARIANT RendersEachRowOnce
INVARIANT SiblingsInOrder
INVARIANT RepeatersShowOneReading
 
INVARIANT FormsSubmit
INVARIANT FailsOnlyOnBadParents
PROPERTY OrderedTreeSteps
