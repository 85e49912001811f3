CONSTANTS
    n1 = n1
    n2 = n2
    n3 = n3
    Noop = Noop
    Nobody = Nobody
    Member = {n1, n2, n3}
    Command = {x}
    MaxLogEntries = 4
    Window = 2
    WriteLimit = 2
    Scenarios <- PublishScenarios
SPECIFICATION MemberSpec
INVARIANTS
    VisibleWritesArePermanent
    RecoveryNeverRefused
PROPERTIES
    VisibilityGrows
CHECK_DEADLOCK FALSE
