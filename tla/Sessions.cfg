SPECIFICATION ScopedSpec
CONSTANTS
    Sessions = {s1, s2, s3}
    Callers = {c1, c2}
    NumNodes = 2
    Lockable = {c1, c2}
    Controlled = {s1, s2, s3}
    None = None
    MaxGenerations = 2
    MaxFaults = 2
SYMMETRY Symmetry
CHECK_DEADLOCK FALSE
INVARIANTS
    TypeOK
    NodeOwnership
    OneSessionPerCaller
    ClaimsAreOwned
    DrainSeesEverySession
    CompleteIsClean
    CorrelatedRequestsAreMet
    OpenTicketsAreLinked
    DisconnectReceiptIsTrue
PROPERTIES
    OnlyTargetsAreCut
