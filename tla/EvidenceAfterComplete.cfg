SPECIFICATION FairSpec
CONSTANTS
    Sessions = {s1}
    Callers = {c1}
    NumNodes = 1
    Lockable = {}
    Controlled = {s1}
    None = None
    MaxGenerations = 1
    MaxFaults = 0
CHECK_DEADLOCK FALSE
INVARIANTS
    CompleteHasDrainedEvidence
