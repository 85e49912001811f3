CONSTANTS
    n1 = n1
    n2 = n2
    n3 = n3
    Noop = Noop
    Nobody = Nobody
    Member = {n1, n2, n3}
    Command = {x}
    MaxLogEntries = 5
    Window = 2
    Scenarios <- MCScenarios
SPECIFICATION Spec
INVARIANTS
    OneLeaderPerTerm
    CommittedHistoriesAgree
    CommittedOnQuorum
    LeaderHoldsCommitted
    MatchedIsDurable
    NoConflictRefused
    StepNeverFails
    RootsAlwaysOpen
    TermNeedsPreVotes
    HandoffCoversLog
    NoLostWakeup
PROPERTIES
    VoteIsKept
    DurableHistoryGrows
CHECK_DEADLOCK FALSE
