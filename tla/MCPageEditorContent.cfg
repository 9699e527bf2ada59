\* Three elements, leaf and other tags, two values of attributes and text.
CONSTANTS
    Elem = {e1, e2, e3}
    NoElem = NoElem
    Tag = {Div, Text}
    TextTag = Text
    LeafTag = {Text}
    Data = {blank, text}
    Blank = blank
    MaxRequests = 4
SPECIFICATION Spec
SYMMETRY Symmetry
\* The model stops at MaxRequests.
CHECK_DEADLOCK FALSE
INVARIANT TypeOK CursorShowsPage
