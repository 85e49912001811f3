CONSTANTS
    Root = {r1, r2}
    NoRoot = NoRoot
    MaxGen = 5
    Faults = {"abandon", "power"}
SPECIFICATION Spec
INVARIANTS
    PublishedRootSelectable
CHECK_DEADLOCK FALSE
