\* Two processes reach the same change.
CONSTANTS
    c1 = c1
    c2 = c2
    c3 = c3
    p1 = p1
    p2 = p2
    Caller = {c1, c3}
    Process = {p1, p2}
    Home <- OneAndOne
    Nobody = Nobody
    MaxRecords = 1
    MaxFaults = 0
SPECIFICATION Spec
INVARIANT AppliedMigrationIsSkipped
