\* Two callers in one process, one in another, three changes, one fault.
CONSTANTS
    c1 = c1
    c2 = c2
    c3 = c3
    p1 = p1
    p2 = p2
    Caller = {c1, c2, c3}
    Process = {p1, p2}
    Home <- TwoAndOne
    Nobody = Nobody
    MaxRecords = 3
    MaxFaults = 1
SPECIFICATION Spec
SYMMETRY Symmetry
INVARIANT TypeOK PointerIsTrue ReadyIsCurrent RecordNeverConflicts
PROPERTY ImplementsReplica
