\* Five elements and four requests, tags and content left out: the forests.
CONSTANTS
    Elem = {e1, e2, e3, e4, e5}
    NoElem = NoElem
    Tag = {Div}
    TextTag = Text
    LeafTag = {Text}
    Data = {blank}
    Blank = blank
    MaxRequests = 4
SPECIFICATION Spec
SYMMETRY Symmetry
\* The model stops at MaxRequests.
CHECK_DEADLOCK FALSE
INVARIANT PageIsSound
PROPERTY ImplementsEditHistory
