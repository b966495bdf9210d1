SPECIFICATION FairSpec
CONSTANTS
    endA = endA  host = host  endB = endB  m1 = m1  m2 = m2  codeX = codeX  codeY = codeY  None = None
    Nodes = {endA, host}
    Ends = {endA}
    Offline = {}
    Messages = {m1, m2}
    Codes = {codeX, codeY}
    Parent <- PairParent
    Origin <- FromA
    Code <- TwoCodes
    Dest <- AllBroadcast
    Dossiers0 <- AllSubscribed
    Mapping0 <- AllMapped
    MaxBatch = 2
    MaxAttempts = 2
    MaxWaiting = 1
    MaxChanges = 0
    MaxLosses = 1
PROPERTIES FullQueueDrains
CHECK_DEADLOCK FALSE
