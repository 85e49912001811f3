CONSTANTS
    Root = {r1, r2}
    NoRoot = NoRoot
    MaxGen = 5
    Faults = {"abandon"}
SPECIFICATION Spec
INVARIANTS
    OwnFileIsBindable
CHECK_DEADLOCK FALSE
