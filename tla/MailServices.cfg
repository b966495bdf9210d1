SPECIFICATION AllSpec
CONSTANTS
    Parts = {"journaled artifacts", "artifacts and batches", "overlapping packets",
             "changing conference", "replies", "whole sessions", "broken sessions",
             "restored queue", "outbound queue", "echo mail", "restored node"}
    A = A
    B = B
    H = H
    P = P
    a1 = a1
    a2 = a2
    b1 = b1
    j1 = j1
    j2 = j2
    k1 = k1
    k2 = k2
    r1 = r1
    r2 = r2
    w1 = w1
    w2 = w2
    m1 = m1
    m2 = m2
    Works = {w1}
    Links = {B}
    LinkOf <- ToOne
    Peer = {"take", "skip", "leave"}
    Ends = {"clean", "custody"}
    MaxSessions = 1
    MaxAttempts = 2
    MaxPolicy = 0
    MaxWithdrawals = 1
    MaxOperator = 1
    MaxCrashes = 1
    MaxRestores = 1
CHECK_DEADLOCK FALSE
INVARIANTS RepliesPostOnce BothEndsAgree EchoesAreServedOnce
PROPERTIES WorkIsClaimedOnce CustodyOfArtifacts NothingIsPassedOver
