SPECIFICATION Spec
CONSTANTS
    endA = endA  host = host  endB = endB  m1 = m1  m2 = m2  codeX = codeX  codeY = codeY  None = None
    Nodes = {endA, host, endB}
    Ends = {endA, endB}
    Offline = {endA, host, endB}
    Messages = {m1, m2}
    Codes = {codeX}
    Parent <- LineParent
    Origin <- FromA
    Code <- OneCode
    Dest <- SecondDirected
    Dossiers0 <- EndNotSubscribed
    Mapping0 <- EndsMapped
    MaxBatch = 2
    MaxAttempts = 2
    MaxWaiting = 2
    MaxChanges = 1
    MaxLosses = 1
INVARIANTS TypeOK AcceptedIsInCustody ForwardingIsIntended OnlyOverDossiers
PROPERTIES CustodySpec AcceptedIsFinal HeldNeedsPolicy
CHECK_DEADLOCK FALSE
