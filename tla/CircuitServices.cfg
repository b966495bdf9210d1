SPECIFICATION AllSpec
CONSTANTS
    Parts = {"crossing polls", "changing policy", "restored board", "file receipts",
             "files in transit", "repeated requests", "restored parent", "key changes",
             "restored catalog"}
    a = a
    b = b
    p1 = p1
    p2 = p2
    n1 = n1
    n2 = n2
    f1 = f1
    r1 = r1
    r2 = r2
    r3 = r3
    Requests = {r1, r2}
    Operations = {"subscribe"}
    Limit = 1
    Policies = {"auto-approve", "deny"}
    Snapshots = {"child"}
    MaxEdits = 1
    MaxFaults = 1
    None = None
CHECK_DEADLOCK FALSE
INVARIANTS FilesPassEveryHand
PROPERTIES RequestsApplyOnce OneWholeSession RestoreIsAccountedFor CatalogIsOneHistory
