SPECIFICATION ConcurrentSpec
CONSTANTS
    Elem = {1, 2, 3, 4, 5, 6}
    NoElem = NoElem
    Tag = {"div", "p", "#text"}
    TextTag = "#text"
    LeafTag = {"#text"}
    Data <- AllData
    Blank = {}
    Request = {r1, r2}
    Attr = {"id", "class"}
    Words = {"hello"}
    Scenes <- AllScenes
INVARIANT ConcurrentTypeOK
INVARIANT RowsStaySound
INVARIANT PageIsRecorded
INVARIANT PatchesStay
PROPERTY RequestsEndOnForests
CHECK_DEADLOCK FALSE
