CONSTANTS
    Oid = {c1, c2}
    MaxSeq = 4
SPECIFICATION Spec
INVARIANTS
    TypeOK
    MarkersNameDurableCapsules
    AcknowledgedSurvives
    NeverFailsClosed
    UsableHandleKnowsItsLog
    IInv
PROPERTY ImplementsStream
