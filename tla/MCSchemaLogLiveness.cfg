\* Fewer changes and faults, no symmetry: liveness.
CONSTANTS
    c1 = c1
    c2 = c2
    c3 = c3
    p1 = p1
    p2 = p2
    Caller = {c1, c2, c3}
    Process = {p1, p2}
    Home <- TwoAndOne
    Nobody = Nobody
    MaxRecords = 2
    MaxFaults = 1
SPECIFICATION FairSpec
PROPERTY RecordedIsApplied
