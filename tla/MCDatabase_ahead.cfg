CONSTANTS
    Commit = {a, b}
    MaxSeq = 2
    MaxGen = 5
    MaxFaults = 2
    Faults = {"process", "power"}
SPECIFICATION Spec
INVARIANTS
    SlotNeverAhead
