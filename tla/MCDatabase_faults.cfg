CONSTANTS
    Commit = {a, b}
    MaxSeq = 2
    MaxGen = 5
    MaxFaults = 3
    Faults = {"process", "power"}
SPECIFICATION Spec
INVARIANTS
    HealthyIsCurrent
PROPERTIES
    KeepsStream
