SPECIFICATION Spec
CONSTANTS
    Names = {n1}
    Contents = {p1}
    Callers = {u1}
    Network = net
    Console = con
    Verdicts <- Unsure
    RecoversOps = FALSE
    Commands = {}
    MaxCrashes = 0
    MaxFaults = 0
    None = None
    Partial = partial
CHECK_DEADLOCK FALSE
INVARIANTS ReportAtRest
