\* The replay of a snapshot checks foreign keys row by row.
CONSTANTS
    Elem = {e1, e2, e3}
    NoElem = NoElem
    Tag = {Div, Text}
    TextTag = Text
    LeafTag = {Text}
    Data = {blank, text}
    Blank = blank
    MaxRequests = 4
SPECIFICATION Spec
SYMMETRY Symmetry
\* The model stops at MaxRequests.
CHECK_DEADLOCK FALSE
INVARIANT StepTargetsReplay
