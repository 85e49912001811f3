CONSTANTS
    Commit = {a, b}
    MaxSeq = 2
    MaxGen = 5
    MaxFaults = 3
    Faults = {"power"}
SPECIFICATION Spec
INVARIANTS
    SlotNeverAhead
    ViewIsFresh
