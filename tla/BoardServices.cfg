SPECIFICATION AllSpec
CONSTANTS
    Parts = {"chat", "interrupted saves", "competing saves", "rival events", "clock set back",
             "changing offsets", "admission", "recovered uploads", "reports", "updates",
             "features"}
    s = s
    o = o
    c1 = c1
    c2 = c2
    Console = Console
    e1 = e1
    e2 = e2
    t = t
    n1 = n1
    p1 = p1
    p2 = p2
    u1 = u1
    net = net
    con = con
    partial = partial
    Commands = {c1, c2}
    Revoking = {c2}
    None = None
    MaxGenerations = 2
    MaxFaults = 1
    MaxEdits = 1
    Accidents = {"power", "hand"}
CHECK_DEADLOCK FALSE
INVARIANT SoleReportsAreClean
PROPERTIES SavesAreSettled ChatIsConsented NoSaveIsLost LeasesAreAccountedFor CatalogIsTrue UpdatesAreWhole
