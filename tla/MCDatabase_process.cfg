CONSTANTS
    Commit = {a, b}
    MaxSeq = 2
    MaxGen = 5
    MaxFaults = 3
    Faults = {"process"}
SPECIFICATION FairSpec
INVARIANTS
    TypeOK
    HealthyIsCurrent
    SlotNeverAhead
    SlotLagsByAtMostOne
    ReaderNeverRefused
    ViewIsFresh
PROPERTIES
    ComesBack
