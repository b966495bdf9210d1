SPECIFICATION AllFairSpec
CONSTANTS
    Sessions = {s1}
    Callers = {c1}
    NumNodes = 1
    Lockable = {c1}
    Controlled = {s1}
    None = None
    MaxGenerations = 2
    MaxFaults = 1
    endA = endA
    host = host
    m1 = m1
    m2 = m2
    codeX = codeX
    codeY = codeY
CHECK_DEADLOCK FALSE
PROPERTIES
    ShutdownEnds
    DisconnectIsMet
    LockedOutLeaves
    CommandIsAnswered
    DeliveryIsDecided
