CONSTANTS
    Root = {r1, r2}
    NoRoot = NoRoot
    MaxGen = 5
    Faults = {"power"}
SPECIFICATION Spec
INVARIANTS
    TypeOK
    PublishedRootSelectable
CHECK_DEADLOCK FALSE
