------------------------- MODULE MailServices_proofs -------------------------
(***************************************************************************)
(* Proofs about the services that carry mail in packets of other formats,  *)
(* as the run explores them.  What is proved of the components for any     *)
(* values of their constants (MailParts_proofs) holds of the instances     *)
(* side by side, and the promises follow from it.                          *)
(***************************************************************************)
EXTENDS MCMailServices, TLAPS

First == INSTANCE MailParts_proofs WITH
    Artifacts <- {a1, a2}, Batches <- {}, Jobs <- {j1, j2}, CustodyLinks <- {}, Unknown <- 1,
    Limit <- 4, CircuitLimit <- 8, CustodyCrashes <- 2, CustodyFaults <- 1,
    Content <- Uploads, ReviewedMembers <- {"y"}, Controls <- {"add"}, MaxNew <- 1, ReplyChanges <- 1,
    ReplyFaults <- 2,
    Points <- {P}, Boards <- {H, A, B, P}, Node <- Nodes, Peers <- Ring, Mails <- {m1},
    Echo <- {m1}, From <- (m1 :> P), To <- (m1 :> H),
    Route <- [b \in {H, A, B, P} |-> [d \in {H, A, B, P} |-> H]],
    Transit <- [b \in {H, A, B, P} |-> {}], MaxLost <- 1, MaxChanges <- 2,
    MaxRescans <- 1, FtnRestores <- 0,
    Requests <- {r1, r2}, Size <- 2, Addressed <- {}, PacketChanges <- 0, MaxResets <- 1,
    PacketCrashes <- 0
Second == INSTANCE MailParts_proofs WITH
    Works <- {w1, w2}, Links <- {B}, LinkOf <- [w \in {w1, w2} |-> B], MaxSessions <- 1,
    MaxCrashes <- 0, MaxRestores <- 0, Peer <- {"take", "skip"},
    Ends <- {"clean", "interrupted"}, MaxAttempts <- 2, MaxPolicy <- 1,
    MaxWithdrawals <- 0, MaxOperator <- 0, row <- outboundRow, live <- outboundLive,
    claim <- outboundClaim, health <- outboundHealth, run <- outboundRun,
    acked <- outboundAcked, taken <- outboundTaken, offers <- outboundOffers,
    policy <- outboundPolicy, up <- outboundUp, copy <- outboundCopy,
    freed <- outboundFreed, count <- outboundCount,
    Artifacts <- {a1, a2}, Batches <- {b1}, Jobs <- {j1}, CustodyLinks <- {k1, k2},
    Unknown <- 1, Limit <- 4, CircuitLimit <- 4, CustodyCrashes <- 2, CustodyFaults <- 1,
    Content <- Uploads, ReviewedMembers <- {"y"}, Controls <- {"add"}, MaxNew <- 1, ReplyChanges <- 1,
    ReplyFaults <- 2,
    Points <- {}, Boards <- {H, A}, Node <- Nodes, Peers <- Pair, Mails <- {m1, m2},
    Echo <- {m1, m2}, From <- (m1 :> A) @@ (m2 :> A), To <- (m1 :> H) @@ (m2 :> H),
    Route <- [b \in {H, A} |-> [d \in {H, A} |-> d]], Transit <- [b \in {H, A} |-> {}],
    MaxLost <- 1, MaxChanges <- 0, MaxRescans <- 0, FtnRestores <- 1,
    Requests <- {r1}, Size <- 2, Addressed <- {2}, PacketChanges <- 1, MaxResets <- 1,
    PacketCrashes <- 1

-----------------------------------------------------------------------------
(***************************************************************************)
(* A behaviour is about one component, and that component's own.           *)
(***************************************************************************)

\* Threads preserve packets of other networks.
LEMMA JournalBehaves ==
    AllSpec => []~(part = "journaled artifacts") \/ ([](part = "journaled artifacts") /\ First!CA!Spec)
<1>1. AllInit /\ part = "journaled artifacts" => First!CA!Init
    BY DEF AllInit, Journal!Init, First!CA!Init, Journal!Packets, First!CA!Packets, Journal!Writers,
       First!CA!Writers
<1>2. [AllNext]_all /\ part = "journaled artifacts" => [First!CA!Next]_(First!CA!vars)
  <2>1. Journal!Next => First!CA!Next
      BY DEF Journal!Next, First!CA!Next, Journal!Job, First!CA!Job, Journal!Link,
       First!CA!Link, Journal!Writers, First!CA!Writers, Journal!Fail, First!CA!Fail,
       Journal!Crash, First!CA!Crash, Journal!Stop, First!CA!Stop, Journal!Recovery,
       First!CA!Recovery, Journal!Reserve, First!CA!Reserve, Journal!Create,
       First!CA!Create, Journal!Compare, First!CA!Compare, Journal!Write, First!CA!Write,
       Journal!Finish, First!CA!Finish, Journal!Retain, First!CA!Retain, Journal!Commit,
       First!CA!Commit, Journal!Start, First!CA!Start, Journal!Open, First!CA!Open,
       Journal!Refuse, First!CA!Refuse, Journal!Packets, First!CA!Packets,
       Journal!Unlink, First!CA!Unlink, Journal!Forget, First!CA!Forget, Journal!Writing,
       First!CA!Writing, Journal!Full, First!CA!Full, Journal!Same, First!CA!Same,
       Journal!CircuitFull, First!CA!CircuitFull, Journal!Cardinality,
       First!CA!Cardinality, Journal!Validated, First!CA!Validated, Journal!Incomplete,
       First!CA!Incomplete, Journal!UsageFails, First!CA!UsageFails, Journal!Usage,
       First!CA!Usage, Journal!Files, First!CA!Files
  <2>2. UNCHANGED artifacts => UNCHANGED First!CA!vars
      BY DEF artifacts, First!CA!vars
  <2> QED
      BY <2>1, <2>2 DEF AllNext, all
<1>3. [AllNext]_all /\ part = "journaled artifacts" => (part = "journaled artifacts")'
    BY DEF AllNext, all, OnlyArtifacts
<1>4. [AllNext]_all /\ ~(part = "journaled artifacts") => (~(part = "journaled artifacts"))'
    BY DEF AllNext, all, OnlyArtifacts, OnlyPackets, OnlyReplies, OnlyDialog, OnlyQueued, OnlyOutbound, OnlyFtn
<1> QED
    BY <1>1, <1>2, <1>3, <1>4, PTL DEF AllSpec, First!CA!Spec

\* Beside them, links preserve the batches of CircuitNET.
LEMMA MixedBehaves ==
    AllSpec => []~(part = "artifacts and batches") \/ ([](part = "artifacts and batches") /\ Second!CA!Spec)
<1>1. AllInit /\ part = "artifacts and batches" => Second!CA!Init
    BY DEF AllInit, Mixed!Init, Second!CA!Init, Mixed!Packets, Second!CA!Packets, Mixed!Writers,
       Second!CA!Writers
<1>2. [AllNext]_all /\ part = "artifacts and batches" => [Second!CA!Next]_(Second!CA!vars)
  <2>1. Mixed!Next => Second!CA!Next
      BY DEF Mixed!Next, Second!CA!Next, Mixed!Job, Second!CA!Job, Mixed!Link, Second!CA!Link,
       Mixed!Writers, Second!CA!Writers, Mixed!Fail, Second!CA!Fail, Mixed!Crash,
       Second!CA!Crash, Mixed!Stop, Second!CA!Stop, Mixed!Recovery, Second!CA!Recovery,
       Mixed!Reserve, Second!CA!Reserve, Mixed!Create, Second!CA!Create, Mixed!Compare,
       Second!CA!Compare, Mixed!Write, Second!CA!Write, Mixed!Finish, Second!CA!Finish,
       Mixed!Retain, Second!CA!Retain, Mixed!Commit, Second!CA!Commit, Mixed!Start,
       Second!CA!Start, Mixed!Open, Second!CA!Open, Mixed!Refuse, Second!CA!Refuse,
       Mixed!Packets, Second!CA!Packets, Mixed!Unlink, Second!CA!Unlink, Mixed!Forget,
       Second!CA!Forget, Mixed!Writing, Second!CA!Writing, Mixed!Full, Second!CA!Full,
       Mixed!Same, Second!CA!Same, Mixed!CircuitFull, Second!CA!CircuitFull,
       Mixed!Cardinality, Second!CA!Cardinality, Mixed!Validated, Second!CA!Validated,
       Mixed!Incomplete, Second!CA!Incomplete, Mixed!UsageFails, Second!CA!UsageFails,
       Mixed!Usage, Second!CA!Usage, Mixed!Files, Second!CA!Files
  <2>2. UNCHANGED artifacts => UNCHANGED Second!CA!vars
      BY DEF artifacts, Second!CA!vars
  <2> QED
      BY <2>1, <2>2 DEF AllNext, all
<1>3. [AllNext]_all /\ part = "artifacts and batches" => (part = "artifacts and batches")'
    BY DEF AllNext, all, OnlyArtifacts
<1>4. [AllNext]_all /\ ~(part = "artifacts and batches") => (~(part = "artifacts and batches"))'
    BY DEF AllNext, all, OnlyArtifacts, OnlyPackets, OnlyReplies, OnlyDialog, OnlyQueued, OnlyOutbound, OnlyFtn
<1> QED
    BY <1>1, <1>2, <1>3, <1>4, PTL DEF AllSpec, Second!CA!Spec

\* A caller uploads packets, again and again.
LEMMA RepliesBehave ==
    AllSpec => []~(part = "replies") \/ ([](part = "replies") /\ First!OR!Spec)
<1>1. AllInit /\ part = "replies" => First!OR!Init
    BY DEF AllInit, Replies!Init, First!OR!Init, Replies!Keys, First!OR!Keys, Replies!Members,
       First!OR!Members, Replies!NoJob, First!OR!NoJob, Replies!Packets, First!OR!Packets
<1>2. [AllNext]_all /\ part = "replies" => [First!OR!Next]_(First!OR!vars)
  <2>1. Replies!Next => First!OR!Next
    <3>1. \A k : Replies!MemberOf(k) = First!OR!MemberOf(k)
        BY DEF Replies!MemberOf, First!OR!MemberOf
    <3>2. Replies!Here = First!OR!Here
        BY DEF Replies!Here, First!OR!Here
    <3>3. Replies!Held <=> First!OR!Held
        BY <3>1, <3>2 DEF Replies!Held, First!OR!Held, Replies!Keys, First!OR!Keys, Replies!Packets,
       First!OR!Packets
    <3>4. \A p : Replies!Upload(p) <=> First!OR!Upload(p)
        BY DEF Replies!Upload, First!OR!Upload, Replies!Busy, First!OR!Busy, Replies!history,
       First!OR!history, Replies!NoJob, First!OR!NoJob
    <3>5. \A p : Replies!Submit(p) <=> First!OR!Submit(p)
        BY DEF Replies!Submit, First!OR!Submit, Replies!Busy, First!OR!Busy, Replies!NoJob,
       First!OR!NoJob
    <3>6. Replies!Skip <=> First!OR!Skip
        BY <3>2 DEF Replies!Skip, First!OR!Skip, Replies!AtMember, First!OR!AtMember,
       Replies!AfterKnown, First!OR!AfterKnown, Replies!history, First!OR!history,
       Replies!Busy, First!OR!Busy, Replies!Onward, First!OR!Onward, Replies!NoJob,
       First!OR!NoJob
    <3>7. Replies!Hold <=> First!OR!Hold
        BY <3>3, <3>2 DEF Replies!Hold, First!OR!Hold, Replies!Fresh, First!OR!Fresh, Replies!Record,
       First!OR!Record, Replies!history, First!OR!history, Replies!AtMember,
       First!OR!AtMember, Replies!Onward, First!OR!Onward, Replies!Busy, First!OR!Busy,
       Replies!NoJob, First!OR!NoJob
    <3>8. Replies!Import <=> First!OR!Import
        BY <3>3, <3>1, <3>2 DEF Replies!Import, First!OR!Import, Replies!Fresh, First!OR!Fresh, Replies!Posted,
       First!OR!Posted, Replies!Record, First!OR!Record, Replies!history,
       First!OR!history, Replies!AtMember, First!OR!AtMember, Replies!Onward,
       First!OR!Onward, Replies!Busy, First!OR!Busy, Replies!NoJob, First!OR!NoJob
    <3>9. Replies!Control <=> First!OR!Control
        BY <3>3, <3>1, <3>2 DEF Replies!Control, First!OR!Control, Replies!Fresh, First!OR!Fresh, Replies!Record,
       First!OR!Record, Replies!history, First!OR!history, Replies!AtMember,
       First!OR!AtMember, Replies!Onward, First!OR!Onward, Replies!Busy, First!OR!Busy,
       Replies!NoJob, First!OR!NoJob
    <3>10. Replies!Reject <=> First!OR!Reject
        BY <3>3, <3>1, <3>2 DEF Replies!Reject, First!OR!Reject, Replies!Fresh, First!OR!Fresh, Replies!Record,
       First!OR!Record, Replies!AtMember, First!OR!AtMember, Replies!Onward,
       First!OR!Onward, Replies!Busy, First!OR!Busy, Replies!NoJob, First!OR!NoJob
    <3>11. Replies!RejectUnanswered <=> First!OR!RejectUnanswered
        BY <3>3, <3>1, <3>2 DEF Replies!RejectUnanswered, First!OR!RejectUnanswered, Replies!Fresh,
       First!OR!Fresh, Replies!Record, First!OR!Record, Replies!history,
       First!OR!history, Replies!AtMember, First!OR!AtMember, Replies!Onward,
       First!OR!Onward, Replies!Busy, First!OR!Busy, Replies!NoJob, First!OR!NoJob
    <3>12. Replies!Finished <=> First!OR!Finished
        BY DEF Replies!Finished, First!OR!Finished, Replies!Busy, First!OR!Busy,
       Replies!AtMember, First!OR!AtMember, Replies!NoJob, First!OR!NoJob
    <3> QED
        BY <3>4, <3>5, <3>6, <3>7, <3>8, <3>9, <3>10, <3>11, <3>12 DEF Replies!Next, First!OR!Next, Replies!Packets, First!OR!Packets, Replies!Step,
       First!OR!Step, Replies!Interrupt, First!OR!Interrupt, Replies!Disconnect,
       First!OR!Disconnect, Replies!Call, First!OR!Call, Replies!Allow, First!OR!Allow,
       Replies!Busy, First!OR!Busy, Replies!NoJob, First!OR!NoJob, Replies!history,
       First!OR!history
  <2>2. UNCHANGED replies => UNCHANGED First!OR!vars
      BY DEF replies, First!OR!vars
  <2> QED
      BY <2>1, <2>2 DEF AllNext, all
<1>3. [AllNext]_all /\ part = "replies" => (part = "replies")'
    BY DEF AllNext, all, OnlyReplies
<1>4. [AllNext]_all /\ ~(part = "replies") => (~(part = "replies"))'
    BY DEF AllNext, all, OnlyArtifacts, OnlyPackets, OnlyReplies, OnlyDialog, OnlyQueued, OnlyOutbound, OnlyFtn
<1> QED
    BY <1>1, <1>2, <1>3, <1>4, PTL DEF AllSpec, First!OR!Spec

\* Boards exchange an echo.
LEMMA EchoesBehave ==
    AllSpec => []~(part = "echo mail") \/ ([](part = "echo mail") /\ First!FM!Spec)
<1>1. AllInit /\ part = "echo mail" => First!FM!Init
    BY DEF AllInit, Echoes!Init, First!FM!Init, Echoes!NoCopy, First!FM!NoCopy, Echoes!NoEvidence,
       First!FM!NoEvidence
<1>2. [AllNext]_all /\ part = "echo mail" => [First!FM!Next]_(First!FM!vars)
  <2>1. Echoes!Next => First!FM!Next
    <3>1. \A m : Echoes!Post(m) <=> First!FM!Post(m)
        BY DEF Echoes!Post, First!FM!Post
    <3>2. \A m : Echoes!SendMail(m) <=> First!FM!SendMail(m)
        BY DEF Echoes!SendMail, First!FM!SendMail, Echoes!Publication, First!FM!Publication,
       Echoes!Item, First!FM!Item, Echoes!NetTargets, First!FM!NetTargets,
       Echoes!NoPacket, First!FM!NoPacket
    <3>3. \A S : Echoes!Cardinality(S) = First!FM!Cardinality(S)
        BY DEF Echoes!Cardinality, First!FM!Cardinality
    <3>4. \A b : Echoes!Scan(b) <=> First!FM!Scan(b)
        BY <3>3 DEF Echoes!Scan, First!FM!Scan, Echoes!Published, First!FM!Published,
       Echoes!Publication, First!FM!Publication, Echoes!Item, First!FM!Item,
       Echoes!EchoTargets, First!FM!EchoTargets, Echoes!NoPacket, First!FM!NoPacket
    <3>5. \A b, m : Echoes!Published(b, m) <=> First!FM!Published(b, m)
        BY DEF Echoes!Published, First!FM!Published
    <3>6. \A b, n, m, key : Echoes!Item(b, n, m, key) = First!FM!Item(b, n, m, key)
        BY DEF Echoes!Item, First!FM!Item, Echoes!NoPacket, First!FM!NoPacket
    <3>7. \A m, ident, ingress, seen, path, marked : Echoes!Publication(m, ident, ingress, seen, path, marked) = First!FM!Publication(m, ident, ingress, seen, path, marked)
        BY DEF Echoes!Publication, First!FM!Publication
    <3>8. \A b, m, seen, path, ingress : Echoes!EchoTargets(b, m, seen, path, ingress) = First!FM!EchoTargets(b, m, seen, path, ingress)
        BY DEF Echoes!EchoTargets, First!FM!EchoTargets
    <3>9. \A b, m : Echoes!NetTargets(b, m) = First!FM!NetTargets(b, m)
        BY DEF Echoes!NetTargets, First!FM!NetTargets
    <3>10. \A i, p : Echoes!Packed(i, p) = First!FM!Packed(i, p)
        BY DEF Echoes!Packed, First!FM!Packed, Echoes!Own, First!FM!Own
    <3>11. \A i : Echoes!Build(i) <=> First!FM!Build(i)
        BY <3>10 DEF Echoes!Build, First!FM!Build, Echoes!board, First!FM!board
    <3>12. \A n, b, p : Echoes!Outcome(n, b, p) = First!FM!Outcome(n, b, p)
        BY DEF Echoes!Outcome, First!FM!Outcome, Echoes!Prior, First!FM!Prior, Echoes!Loops,
       First!FM!Loops, Echoes!Routable, First!FM!Routable, Echoes!Scope, First!FM!Scope
    <3>13. \A n, b, p, items : Echoes!Toss(n, b, p, items) <=> First!FM!Toss(n, b, p, items)
        BY <3>12, <3>8, <3>9, <3>7, <3>6 DEF Echoes!Toss, First!FM!Toss
    <3>14. \A i : Echoes!Transfer(i) <=> First!FM!Transfer(i)
        BY <3>13 DEF Echoes!Transfer, First!FM!Transfer, Echoes!Happens, First!FM!Happens
    <3>15. \A b, n : Echoes!Unsubscribe(b, n) <=> First!FM!Unsubscribe(b, n)
        BY DEF Echoes!Unsubscribe, First!FM!Unsubscribe, Echoes!Happens, First!FM!Happens,
       Echoes!Unsent, First!FM!Unsent
    <3>16. \A b, n : Echoes!Subscribe(b, n) <=> First!FM!Subscribe(b, n)
        BY DEF Echoes!Subscribe, First!FM!Subscribe, Echoes!Happens, First!FM!Happens
    <3>17. \A i : Echoes!Release(i) <=> First!FM!Release(i)
        BY DEF Echoes!Release, First!FM!Release, Echoes!Happens, First!FM!Happens,
       Echoes!NoPacket, First!FM!NoPacket, Echoes!board, First!FM!board
    <3>18. \A b, n : Echoes!Rescan(b, n) <=> First!FM!Rescan(b, n)
        BY <3>6 DEF Echoes!Rescan, First!FM!Rescan, Echoes!Happens, First!FM!Happens, Echoes!board,
       First!FM!board
    <3>19. \A b : Echoes!Backup(b) <=> First!FM!Backup(b)
        BY DEF Echoes!Backup, First!FM!Backup, Echoes!NoCopy, First!FM!NoCopy, Echoes!board,
       First!FM!board
    <3>20. \A b : Echoes!Restore(b) <=> First!FM!Restore(b)
        BY DEF Echoes!Restore, First!FM!Restore, Echoes!NoCopy, First!FM!NoCopy, Echoes!Happens,
       First!FM!Happens, Echoes!Unsent, First!FM!Unsent
    <3>21. \A b : Echoes!Reconcile(b) <=> First!FM!Reconcile(b)
        BY DEF Echoes!Reconcile, First!FM!Reconcile, Echoes!NoEvidence, First!FM!NoEvidence
    <3> QED
        BY <3>1, <3>2, <3>4, <3>11, <3>14, <3>17, <3>16, <3>15, <3>18, <3>19, <3>20, <3>21 DEF Echoes!Next, First!FM!Next
  <2>2. UNCHANGED ftn => UNCHANGED First!FM!vars
      BY DEF ftn, First!FM!vars
  <2> QED
      BY <2>1, <2>2 DEF AllNext, all
<1>3. [AllNext]_all /\ part = "echo mail" => (part = "echo mail")'
    BY DEF AllNext, all, OnlyFtn
<1>4. [AllNext]_all /\ ~(part = "echo mail") => (~(part = "echo mail"))'
    BY DEF AllNext, all, OnlyArtifacts, OnlyPackets, OnlyReplies, OnlyDialog, OnlyQueued, OnlyOutbound, OnlyFtn
<1> QED
    BY <1>1, <1>2, <1>3, <1>4, PTL DEF AllSpec, First!FM!Spec

\* A board is restored, and writes on.
LEMMA SerialsBehave ==
    AllSpec => []~(part = "restored node") \/ ([](part = "restored node") /\ Second!FM!Spec)
<1>1. AllInit /\ part = "restored node" => Second!FM!Init
    BY DEF AllInit, Serials!Init, Second!FM!Init, Serials!NoCopy, Second!FM!NoCopy,
       Serials!NoEvidence, Second!FM!NoEvidence
<1>2. [AllNext]_all /\ part = "restored node" => [Second!FM!Next]_(Second!FM!vars)
  <2>1. Serials!Next => Second!FM!Next
    <3>1. \A m : Serials!Post(m) <=> Second!FM!Post(m)
        BY DEF Serials!Post, Second!FM!Post
    <3>2. \A m : Serials!SendMail(m) <=> Second!FM!SendMail(m)
        BY DEF Serials!SendMail, Second!FM!SendMail, Serials!Publication, Second!FM!Publication,
       Serials!Item, Second!FM!Item, Serials!NetTargets, Second!FM!NetTargets,
       Serials!NoPacket, Second!FM!NoPacket
    <3>3. \A S : Serials!Cardinality(S) = Second!FM!Cardinality(S)
        BY DEF Serials!Cardinality, Second!FM!Cardinality
    <3>4. \A b : Serials!Scan(b) <=> Second!FM!Scan(b)
        BY <3>3 DEF Serials!Scan, Second!FM!Scan, Serials!Published, Second!FM!Published,
       Serials!Publication, Second!FM!Publication, Serials!Item, Second!FM!Item,
       Serials!EchoTargets, Second!FM!EchoTargets, Serials!NoPacket, Second!FM!NoPacket
    <3>5. \A b, m : Serials!Published(b, m) <=> Second!FM!Published(b, m)
        BY DEF Serials!Published, Second!FM!Published
    <3>6. \A b, n, m, key : Serials!Item(b, n, m, key) = Second!FM!Item(b, n, m, key)
        BY DEF Serials!Item, Second!FM!Item, Serials!NoPacket, Second!FM!NoPacket
    <3>7. \A m, ident, ingress, seen, path, marked : Serials!Publication(m, ident, ingress, seen, path, marked) = Second!FM!Publication(m, ident, ingress, seen, path, marked)
        BY DEF Serials!Publication, Second!FM!Publication
    <3>8. \A b, m, seen, path, ingress : Serials!EchoTargets(b, m, seen, path, ingress) = Second!FM!EchoTargets(b, m, seen, path, ingress)
        BY DEF Serials!EchoTargets, Second!FM!EchoTargets
    <3>9. \A b, m : Serials!NetTargets(b, m) = Second!FM!NetTargets(b, m)
        BY DEF Serials!NetTargets, Second!FM!NetTargets
    <3>10. \A i, p : Serials!Packed(i, p) = Second!FM!Packed(i, p)
        BY DEF Serials!Packed, Second!FM!Packed, Serials!Own, Second!FM!Own
    <3>11. \A i : Serials!Build(i) <=> Second!FM!Build(i)
        BY <3>10 DEF Serials!Build, Second!FM!Build, Serials!board, Second!FM!board
    <3>12. \A n, b, p : Serials!Outcome(n, b, p) = Second!FM!Outcome(n, b, p)
        BY DEF Serials!Outcome, Second!FM!Outcome, Serials!Prior, Second!FM!Prior, Serials!Loops,
       Second!FM!Loops, Serials!Routable, Second!FM!Routable, Serials!Scope,
       Second!FM!Scope
    <3>13. \A n, b, p, items : Serials!Toss(n, b, p, items) <=> Second!FM!Toss(n, b, p, items)
        BY <3>12, <3>8, <3>9, <3>7, <3>6 DEF Serials!Toss, Second!FM!Toss
    <3>14. \A i : Serials!Transfer(i) <=> Second!FM!Transfer(i)
        BY <3>13 DEF Serials!Transfer, Second!FM!Transfer, Serials!Happens, Second!FM!Happens
    <3>15. \A b, n : Serials!Unsubscribe(b, n) <=> Second!FM!Unsubscribe(b, n)
        BY DEF Serials!Unsubscribe, Second!FM!Unsubscribe, Serials!Happens, Second!FM!Happens,
       Serials!Unsent, Second!FM!Unsent
    <3>16. \A b, n : Serials!Subscribe(b, n) <=> Second!FM!Subscribe(b, n)
        BY DEF Serials!Subscribe, Second!FM!Subscribe, Serials!Happens, Second!FM!Happens
    <3>17. \A i : Serials!Release(i) <=> Second!FM!Release(i)
        BY DEF Serials!Release, Second!FM!Release, Serials!Happens, Second!FM!Happens,
       Serials!NoPacket, Second!FM!NoPacket, Serials!board, Second!FM!board
    <3>18. \A b, n : Serials!Rescan(b, n) <=> Second!FM!Rescan(b, n)
        BY <3>6 DEF Serials!Rescan, Second!FM!Rescan, Serials!Happens, Second!FM!Happens,
       Serials!board, Second!FM!board
    <3>19. \A b : Serials!Backup(b) <=> Second!FM!Backup(b)
        BY DEF Serials!Backup, Second!FM!Backup, Serials!NoCopy, Second!FM!NoCopy, Serials!board,
       Second!FM!board
    <3>20. \A b : Serials!Restore(b) <=> Second!FM!Restore(b)
        BY DEF Serials!Restore, Second!FM!Restore, Serials!NoCopy, Second!FM!NoCopy,
       Serials!Happens, Second!FM!Happens, Serials!Unsent, Second!FM!Unsent
    <3>21. \A b : Serials!Reconcile(b) <=> Second!FM!Reconcile(b)
        BY DEF Serials!Reconcile, Second!FM!Reconcile, Serials!NoEvidence, Second!FM!NoEvidence
    <3> QED
        BY <3>1, <3>2, <3>4, <3>11, <3>14, <3>17, <3>16, <3>15, <3>18, <3>19, <3>20, <3>21 DEF Serials!Next, Second!FM!Next
  <2>2. UNCHANGED ftn => UNCHANGED Second!FM!vars
      BY DEF ftn, Second!FM!vars
  <2> QED
      BY <2>1, <2>2 DEF AllNext, all
<1>3. [AllNext]_all /\ part = "restored node" => (part = "restored node")'
    BY DEF AllNext, all, OnlyFtn
<1>4. [AllNext]_all /\ ~(part = "restored node") => (~(part = "restored node"))'
    BY DEF AllNext, all, OnlyArtifacts, OnlyPackets, OnlyReplies, OnlyDialog, OnlyQueued, OnlyOutbound, OnlyFtn
<1> QED
    BY <1>1, <1>2, <1>3, <1>4, PTL DEF AllSpec, Second!FM!Spec

\* The requests of a caller overlap.
LEMMA OverlapBehaves ==
    AllSpec => []~(part = "overlapping packets") \/ ([](part = "overlapping packets") /\ First!OP!Spec)
<1>1. AllInit /\ part = "overlapping packets" => First!OP!Init
    BY DEF AllInit, Overlap!Init, First!OP!Init, Overlap!Numbers, First!OP!Numbers
<1>2. [AllNext]_all /\ part = "overlapping packets" => [First!OP!Next]_(First!OP!vars)
  <2>1. Overlap!Next => First!OP!Next
    <3>1. \A S : Overlap!Cardinality(S) = First!OP!Cardinality(S)
        BY DEF Overlap!Cardinality, First!OP!Cardinality
    <3>2. Overlap!Highest = First!OP!Highest
        BY <3>1 DEF Overlap!Highest, First!OP!Highest, Overlap!Numbers, First!OP!Numbers
    <3>3. \A sel : Overlap!Chosen(sel) = First!OP!Chosen(sel)
        BY DEF Overlap!Chosen, First!OP!Chosen, Overlap!Readable, First!OP!Readable,
       Overlap!Numbers, First!OP!Numbers
    <3>4. \A members : Overlap!HighWater(members) = First!OP!HighWater(members)
        BY DEF Overlap!HighWater, First!OP!HighWater
    <3>5. \A r, sel : Overlap!Snapshot(r, sel) <=> First!OP!Snapshot(r, sel)
        BY <3>3, <3>4 DEF Overlap!Snapshot, First!OP!Snapshot, Overlap!rows, First!OP!rows, Overlap!marks,
       First!OP!marks
    <3>6. \A r : Overlap!Insert(r) <=> First!OP!Insert(r)
        BY DEF Overlap!Insert, First!OP!Insert, Overlap!Agrees, First!OP!Agrees, Overlap!rows,
       First!OP!rows, Overlap!marks, First!OP!marks, Overlap!history, First!OP!history
    <3>7. \A r : Overlap!Begin(r) <=> First!OP!Begin(r)
        BY DEF Overlap!Begin, First!OP!Begin, Overlap!Holds, First!OP!Holds, Overlap!rows,
       First!OP!rows, Overlap!marks, First!OP!marks, Overlap!history, First!OP!history,
       Overlap!Agrees, First!OP!Agrees
    <3>8. \A r : Overlap!Cancel(r) <=> First!OP!Cancel(r)
        BY DEF Overlap!Cancel, First!OP!Cancel, Overlap!rows, First!OP!rows, Overlap!marks,
       First!OP!marks, Overlap!history, First!OP!history
    <3>9. \A r : Overlap!Leave(r) <=> First!OP!Leave(r)
        BY DEF Overlap!Leave, First!OP!Leave, Overlap!rows, First!OP!rows, Overlap!marks,
       First!OP!marks, Overlap!history, First!OP!history
    <3>10. \A r, success : Overlap!Finish(r, success) <=> First!OP!Finish(r, success)
        BY DEF Overlap!Finish, First!OP!Finish, Overlap!Members, First!OP!Members, Overlap!rows,
       First!OP!rows, Overlap!marks, First!OP!marks
    <3>11. \A r : Overlap!Observe(r) <=> First!OP!Observe(r)
        BY DEF Overlap!Observe, First!OP!Observe, Overlap!Delivered, First!OP!Delivered,
       Overlap!rows, First!OP!rows, Overlap!marks, First!OP!marks, Overlap!Holds,
       First!OP!Holds, Overlap!Agrees, First!OP!Agrees
    <3>12. \A r : Overlap!Confirm(r) <=> First!OP!Confirm(r)
        BY DEF Overlap!Confirm, First!OP!Confirm, Overlap!Holds, First!OP!Holds, Overlap!Unmoved,
       First!OP!Unmoved, Overlap!Advance, First!OP!Advance, Overlap!Members,
       First!OP!Members, Overlap!rows, First!OP!rows, Overlap!Agrees, First!OP!Agrees,
       Overlap!Larger, First!OP!Larger
    <3>13. \A r : Overlap!Stale(r) <=> First!OP!Stale(r)
        BY DEF Overlap!Stale, First!OP!Stale, Overlap!Holds, First!OP!Holds, Overlap!Unmoved,
       First!OP!Unmoved, Overlap!rows, First!OP!rows, Overlap!marks, First!OP!marks,
       Overlap!history, First!OP!history, Overlap!Agrees, First!OP!Agrees
    <3>14. \A r : Overlap!Preview(r) <=> First!OP!Preview(r)
        BY DEF Overlap!Preview, First!OP!Preview, Overlap!Delivered, First!OP!Delivered,
       Overlap!rows, First!OP!rows, Overlap!marks, First!OP!marks, Overlap!history,
       First!OP!history, Overlap!Holds, First!OP!Holds, Overlap!Agrees, First!OP!Agrees
    <3>15. \A r : Overlap!Request(r) <=> First!OP!Request(r)
        BY <3>5, <3>6, <3>7, <3>8, <3>9, <3>10, <3>11, <3>12, <3>13, <3>14 DEF Overlap!Request, First!OP!Request, Overlap!Selections, First!OP!Selections
    <3>16. Overlap!Post <=> First!OP!Post
        BY <3>2 DEF Overlap!Post, First!OP!Post, Overlap!marks, First!OP!marks, Overlap!history,
       First!OP!history
    <3>17. Overlap!Configure <=> First!OP!Configure
        BY DEF Overlap!Configure, First!OP!Configure, Overlap!marks, First!OP!marks,
       Overlap!history, First!OP!history
    <3>18. Overlap!Look <=> First!OP!Look
        BY DEF Overlap!Look, First!OP!Look, Overlap!rows, First!OP!rows, Overlap!history,
       First!OP!history
    <3>19. Overlap!Restart <=> First!OP!Restart
        BY DEF Overlap!Restart, First!OP!Restart, Overlap!Settle, First!OP!Settle, Overlap!rows,
       First!OP!rows, Overlap!marks, First!OP!marks, Overlap!history, First!OP!history
    <3>20. \A n : Overlap!Change(n) <=> First!OP!Change(n)
        BY DEF Overlap!Change, First!OP!Change, Overlap!marks, First!OP!marks
    <3>21. \A n : Overlap!Read(n) <=> First!OP!Read(n)
        BY DEF Overlap!Read, First!OP!Read, Overlap!Readable, First!OP!Readable, Overlap!Larger,
       First!OP!Larger, Overlap!rows, First!OP!rows, Overlap!Numbers, First!OP!Numbers
    <3>22. \A n : Overlap!Reset(n) <=> First!OP!Reset(n)
        BY <3>2 DEF Overlap!Reset, First!OP!Reset, Overlap!rows, First!OP!rows
    <3> QED
        BY <3>15, <3>16, <3>17, <3>18, <3>19, <3>20, <3>21, <3>22 DEF Overlap!Next, First!OP!Next, Overlap!Numbers, First!OP!Numbers
  <2>2. UNCHANGED packets => UNCHANGED First!OP!vars
      BY DEF packets, First!OP!vars, First!OP!rows, First!OP!marks, First!OP!history
  <2> QED
      BY <2>1, <2>2 DEF AllNext, all
<1>3. [AllNext]_all /\ part = "overlapping packets" => (part = "overlapping packets")'
    BY DEF AllNext, all, OnlyPackets
<1>4. [AllNext]_all /\ ~(part = "overlapping packets") => (~(part = "overlapping packets"))'
    BY DEF AllNext, all, OnlyArtifacts, OnlyPackets, OnlyReplies, OnlyDialog, OnlyQueued, OnlyOutbound, OnlyFtn
<1> QED
    BY <1>1, <1>2, <1>3, <1>4, PTL DEF AllSpec, First!OP!Spec

\* The conference changes under a packet.
LEMMA CurrentBehaves ==
    AllSpec => []~(part = "changing conference") \/ ([](part = "changing conference") /\ Second!OP!Spec)
<1>1. AllInit /\ part = "changing conference" => Second!OP!Init
    BY DEF AllInit, Current!Init, Second!OP!Init, Current!Numbers, Second!OP!Numbers
<1>2. [AllNext]_all /\ part = "changing conference" => [Second!OP!Next]_(Second!OP!vars)
  <2>1. Current!Next => Second!OP!Next
    <3>1. \A S : Current!Cardinality(S) = Second!OP!Cardinality(S)
        BY DEF Current!Cardinality, Second!OP!Cardinality
    <3>2. Current!Highest = Second!OP!Highest
        BY <3>1 DEF Current!Highest, Second!OP!Highest, Current!Numbers, Second!OP!Numbers
    <3>3. \A sel : Current!Chosen(sel) = Second!OP!Chosen(sel)
        BY DEF Current!Chosen, Second!OP!Chosen, Current!Readable, Second!OP!Readable,
       Current!Numbers, Second!OP!Numbers
    <3>4. \A members : Current!HighWater(members) = Second!OP!HighWater(members)
        BY DEF Current!HighWater, Second!OP!HighWater
    <3>5. \A r, sel : Current!Snapshot(r, sel) <=> Second!OP!Snapshot(r, sel)
        BY <3>3, <3>4 DEF Current!Snapshot, Second!OP!Snapshot, Current!rows, Second!OP!rows, Current!marks,
       Second!OP!marks
    <3>6. \A r : Current!Insert(r) <=> Second!OP!Insert(r)
        BY DEF Current!Insert, Second!OP!Insert, Current!Agrees, Second!OP!Agrees, Current!rows,
       Second!OP!rows, Current!marks, Second!OP!marks, Current!history, Second!OP!history
    <3>7. \A r : Current!Begin(r) <=> Second!OP!Begin(r)
        BY DEF Current!Begin, Second!OP!Begin, Current!Holds, Second!OP!Holds, Current!rows,
       Second!OP!rows, Current!marks, Second!OP!marks, Current!history,
       Second!OP!history, Current!Agrees, Second!OP!Agrees
    <3>8. \A r : Current!Cancel(r) <=> Second!OP!Cancel(r)
        BY DEF Current!Cancel, Second!OP!Cancel, Current!rows, Second!OP!rows, Current!marks,
       Second!OP!marks, Current!history, Second!OP!history
    <3>9. \A r : Current!Leave(r) <=> Second!OP!Leave(r)
        BY DEF Current!Leave, Second!OP!Leave, Current!rows, Second!OP!rows, Current!marks,
       Second!OP!marks, Current!history, Second!OP!history
    <3>10. \A r, success : Current!Finish(r, success) <=> Second!OP!Finish(r, success)
        BY DEF Current!Finish, Second!OP!Finish, Current!Members, Second!OP!Members,
       Current!rows, Second!OP!rows, Current!marks, Second!OP!marks
    <3>11. \A r : Current!Observe(r) <=> Second!OP!Observe(r)
        BY DEF Current!Observe, Second!OP!Observe, Current!Delivered, Second!OP!Delivered,
       Current!rows, Second!OP!rows, Current!marks, Second!OP!marks, Current!Holds,
       Second!OP!Holds, Current!Agrees, Second!OP!Agrees
    <3>12. \A r : Current!Confirm(r) <=> Second!OP!Confirm(r)
        BY DEF Current!Confirm, Second!OP!Confirm, Current!Holds, Second!OP!Holds,
       Current!Unmoved, Second!OP!Unmoved, Current!Advance, Second!OP!Advance,
       Current!Members, Second!OP!Members, Current!rows, Second!OP!rows, Current!Agrees,
       Second!OP!Agrees, Current!Larger, Second!OP!Larger
    <3>13. \A r : Current!Stale(r) <=> Second!OP!Stale(r)
        BY DEF Current!Stale, Second!OP!Stale, Current!Holds, Second!OP!Holds, Current!Unmoved,
       Second!OP!Unmoved, Current!rows, Second!OP!rows, Current!marks, Second!OP!marks,
       Current!history, Second!OP!history, Current!Agrees, Second!OP!Agrees
    <3>14. \A r : Current!Preview(r) <=> Second!OP!Preview(r)
        BY DEF Current!Preview, Second!OP!Preview, Current!Delivered, Second!OP!Delivered,
       Current!rows, Second!OP!rows, Current!marks, Second!OP!marks, Current!history,
       Second!OP!history, Current!Holds, Second!OP!Holds, Current!Agrees,
       Second!OP!Agrees
    <3>15. \A r : Current!Request(r) <=> Second!OP!Request(r)
        BY <3>5, <3>6, <3>7, <3>8, <3>9, <3>10, <3>11, <3>12, <3>13, <3>14 DEF Current!Request, Second!OP!Request, Current!Selections, Second!OP!Selections
    <3>16. Current!Post <=> Second!OP!Post
        BY <3>2 DEF Current!Post, Second!OP!Post, Current!marks, Second!OP!marks, Current!history,
       Second!OP!history
    <3>17. Current!Configure <=> Second!OP!Configure
        BY DEF Current!Configure, Second!OP!Configure, Current!marks, Second!OP!marks,
       Current!history, Second!OP!history
    <3>18. Current!Look <=> Second!OP!Look
        BY DEF Current!Look, Second!OP!Look, Current!rows, Second!OP!rows, Current!history,
       Second!OP!history
    <3>19. Current!Restart <=> Second!OP!Restart
        BY DEF Current!Restart, Second!OP!Restart, Current!Settle, Second!OP!Settle,
       Current!rows, Second!OP!rows, Current!marks, Second!OP!marks, Current!history,
       Second!OP!history
    <3>20. \A n : Current!Change(n) <=> Second!OP!Change(n)
        BY DEF Current!Change, Second!OP!Change, Current!marks, Second!OP!marks
    <3>21. \A n : Current!Read(n) <=> Second!OP!Read(n)
        BY DEF Current!Read, Second!OP!Read, Current!Readable, Second!OP!Readable,
       Current!Larger, Second!OP!Larger, Current!rows, Second!OP!rows, Current!Numbers,
       Second!OP!Numbers
    <3>22. \A n : Current!Reset(n) <=> Second!OP!Reset(n)
        BY <3>2 DEF Current!Reset, Second!OP!Reset, Current!rows, Second!OP!rows
    <3> QED
        BY <3>15, <3>16, <3>17, <3>18, <3>19, <3>20, <3>21, <3>22 DEF Current!Next, Second!OP!Next, Current!Numbers, Second!OP!Numbers
  <2>2. UNCHANGED packets => UNCHANGED Second!OP!vars
      BY DEF packets, Second!OP!vars, Second!OP!rows, Second!OP!marks, Second!OP!history
  <2> QED
      BY <2>1, <2>2 DEF AllNext, all
<1>3. [AllNext]_all /\ part = "changing conference" => (part = "changing conference")'
    BY DEF AllNext, all, OnlyPackets
<1>4. [AllNext]_all /\ ~(part = "changing conference") => (~(part = "changing conference"))'
    BY DEF AllNext, all, OnlyArtifacts, OnlyPackets, OnlyReplies, OnlyDialog, OnlyQueued, OnlyOutbound, OnlyFtn
<1> QED
    BY <1>1, <1>2, <1>3, <1>4, PTL DEF AllSpec, Second!OP!Spec

-----------------------------------------------------------------------------
(***************************************************************************)
(* The promises of the services.                                           *)
(***************************************************************************)

\* The packet directory keeps its whole promise, where every file has a row and where
\* batches share it (preserve_artifact, retain, recover).
THEOREM CustodyOfArtifactsHolds == AllSpec => CustodyOfArtifacts
<1>1. First!CA!CustodyAssumption
    <2>1. Journal!CustodyAssumption
        BY AssumptionsHold DEF AssumptionsHold
    <2> QED
        BY <2>1 DEF Journal!CustodyAssumption, First!CA!CustodyAssumption, Journal!LimitsAreNumbers,
       First!CA!LimitsAreNumbers, Journal!FormatsDiffer, First!CA!FormatsDiffer
<1>2. Second!CA!CustodyAssumption
    <2>1. Mixed!CustodyAssumption
        BY AssumptionsHold DEF AssumptionsHold
    <2> QED
        BY <2>1 DEF Mixed!CustodyAssumption, Second!CA!CustodyAssumption, Mixed!LimitsAreNumbers,
       Second!CA!LimitsAreNumbers, Mixed!FormatsDiffer, Second!CA!FormatsDiffer
<1>3. First!CA!Spec => []First!CustodyJournalOwns
    BY <1>1, First!PartialIsJournaledHolds, PTL
<1>4. Second!CA!Spec => []Second!CA!TypeOK /\ []Second!CA!CompleteIsWhole
            /\ [][Second!CA!OnlyPendingRemoved]_(Second!CA!vars)
    BY <1>2, Second!CustodyTypeCorrect, Second!CompleteIsWholeHolds,
       Second!OnlyPendingRemovedHolds, PTL
<1>5. First!CustodyJournalOwns => Journal!PartialIsJournaled
    BY DEF First!CustodyJournalOwns, Journal!PartialIsJournaled, Journal!Packets
<1>6. Second!CA!TypeOK /\ Second!CA!CompleteIsWhole => Mixed!TypeOK /\ Mixed!CompleteIsWhole
    BY DEF Mixed!TypeOK, Second!CA!TypeOK, Mixed!CompleteIsWhole, Second!CA!CompleteIsWhole,
       Mixed!Packets, Second!CA!Packets, Mixed!Writers, Second!CA!Writers,
       Mixed!Cardinality, Second!CA!Cardinality
<1>7. [AllNext]_all /\ part = "artifacts and batches" /\ [Second!CA!OnlyPendingRemoved]_(Second!CA!vars)
        => [part = "artifacts and batches" => Mixed!OnlyPendingRemoved]_all
    BY DEF AllNext, all, OnlyArtifacts, artifacts, Mixed!OnlyPendingRemoved, Second!CA!OnlyPendingRemoved, Mixed!Packets,
       Second!CA!Packets, Second!CA!vars
<1>8. [AllNext]_all /\ ~(part = "artifacts and batches")
        => [part = "artifacts and batches" => Mixed!OnlyPendingRemoved]_all
    OBVIOUS
<1>9. AllSpec => [][AllNext]_all
    BY PTL DEF AllSpec
<1> QED
    BY <1>3, <1>4, <1>5, <1>6, <1>7, <1>8, <1>9, JournalBehaves, MixedBehaves, PTL
       DEF CustodyOfArtifacts

\* Replies keep their whole promise: no packet of the run holds one record twice
\* (import_offline_replies_reviewed).
THEOREM RepliesPostOnceHolds == AllSpec => []RepliesPostOnce
<1>1. First!OR!RepliesAssumption
    <2>1. Replies!RepliesAssumption
        BY AssumptionsHold DEF AssumptionsHold
    <2> QED
        BY <2>1 DEF Replies!RepliesAssumption, First!OR!RepliesAssumption, Replies!Packets,
       First!OR!Packets, Replies!Members, First!OR!Members, Replies!IsFiniteSet,
       First!OR!IsFiniteSet, Replies!Keys, First!OR!Keys
<1>2. First!ReplyDistinctMembers
  <2>1. First!OR!Packets = {"old", "new"}
      BY DEF First!OR!Packets, Uploads
  <2> QED
      BY <2>1 DEF First!ReplyDistinctMembers, Uploads
<1>3. First!OR!Spec => []First!OR!TypeOK /\ []First!OR!PostsHaveReceipts /\ []First!OR!RetryPostsOnce
    BY <1>1, <1>2, First!ReplyTypeCorrect, First!PostsHaveReceiptsHolds, First!RetryPostsOnceHolds, PTL
<1>4. First!OR!TypeOK /\ First!OR!PostsHaveReceipts /\ First!OR!RetryPostsOnce
        => Replies!TypeOK /\ Replies!PostsHaveReceipts /\ Replies!RetryPostsOnce
  <2>1. \A S : Replies!Cardinality(S) = First!OR!Cardinality(S)
      BY DEF Replies!Cardinality, First!OR!Cardinality
  <2>2. First!OR!TypeOK => Replies!TypeOK
      BY DEF Replies!TypeOK, First!OR!TypeOK, Replies!Keys, First!OR!Keys, Replies!Outcomes,
       First!OR!Outcomes, Replies!Members, First!OR!Members, Replies!Busy, First!OR!Busy,
       Replies!Packets, First!OR!Packets, Replies!NoJob, First!OR!NoJob
  <2>3. \A m : Replies!Imported(m) = First!OR!Imported(m)
      BY DEF Replies!Imported, First!OR!Imported, Replies!Keys, First!OR!Keys,
       Replies!MemberOf, First!OR!MemberOf, Replies!Packets, First!OR!Packets
  <2>4. Replies!Members = First!OR!Members
      BY DEF Replies!Members, First!OR!Members, Replies!Packets, First!OR!Packets
  <2>5. First!OR!PostsHaveReceipts => Replies!PostsHaveReceipts
      BY <2>1, <2>3, <2>4 DEF Replies!PostsHaveReceipts, First!OR!PostsHaveReceipts
  <2>6. First!OR!RetryPostsOnce => Replies!RetryPostsOnce
      BY <2>1, <2>3, <2>4 DEF Replies!RetryPostsOnce, First!OR!RetryPostsOnce
  <2> QED
      BY <2>2, <2>5, <2>6
<1>5. (part = "replies" => Replies!TypeOK /\ Replies!PostsHaveReceipts /\ Replies!RetryPostsOnce)
        => RepliesPostOnce
    BY DEF RepliesPostOnce
<1> QED
    BY <1>3, <1>4, <1>5, RepliesBehave, PTL

\* Echo mail keeps its whole promise: no board of the exchange is restored, and the one that
\* is gives no identity twice (toss_ftn_admitted, build_ftn, reconcile_ftn_recovery).
THEOREM EchoesAreServedOnceHolds == AllSpec => []EchoesAreServedOnce
<1>1. First!FM!FtnAssumption
    <2>1. Echoes!FtnAssumption
        BY AssumptionsHold DEF AssumptionsHold
    <2> QED
        BY <2>1 DEF Echoes!FtnAssumption, First!FM!FtnAssumption, Echoes!PeersAssumption,
       First!FM!PeersAssumption, Echoes!PointsAssumption, First!FM!PointsAssumption,
       Echoes!MailsAssumption, First!FM!MailsAssumption, Echoes!IsFiniteSet,
       First!FM!IsFiniteSet
<1>2. Second!FM!FtnAssumption
    <2>1. Serials!FtnAssumption
        BY AssumptionsHold DEF AssumptionsHold
    <2> QED
        BY <2>1 DEF Serials!FtnAssumption, Second!FM!FtnAssumption, Serials!PeersAssumption,
       Second!FM!PeersAssumption, Serials!PointsAssumption, Second!FM!PointsAssumption,
       Serials!MailsAssumption, Second!FM!MailsAssumption, Serials!IsFiniteSet,
       Second!FM!IsFiniteSet
<1>8. First!FM!Spec => []First!FM!PublishedOnce
    BY <1>1, First!PublishedOnceHolds
<1>9. First!FM!Spec => []First!FM!SeenIsServed
    BY <1>1, First!SeenIsServedHolds
<1>3. First!FM!Spec => []First!FM!TypeOK /\ []First!FM!PublishedOnce /\ []First!FM!SeenIsServed
    BY <1>1, <1>8, <1>9, First!FtnTypeCorrect, PTL
<1>4. Second!FM!Spec => []Second!FM!NoConflict
    BY <1>2, Second!NoConflictHolds, PTL
<1>5. First!FM!TypeOK /\ First!FM!PublishedOnce /\ First!FM!SeenIsServed
        => Echoes!TypeOK /\ Echoes!PublishedOnce /\ Echoes!SeenIsServed
    BY DEF Echoes!TypeOK, First!FM!TypeOK, Echoes!PublishedOnce, First!FM!PublishedOnce,
       Echoes!SeenIsServed, First!FM!SeenIsServed, Echoes!NoPacket, First!FM!NoPacket,
       Echoes!Published, First!FM!Published, Echoes!Quarantined, First!FM!Quarantined,
       Echoes!OnTheWay, First!FM!OnTheWay
<1>6. Second!FM!NoConflict => Serials!NoConflict
    BY DEF Second!FM!NoConflict, Serials!NoConflict
<1>7. (/\ part = "echo mail" => Echoes!TypeOK /\ Echoes!PublishedOnce /\ Echoes!SeenIsServed
       /\ part = "restored node" => Serials!NoConflict)
        => EchoesAreServedOnce
    BY DEF EchoesAreServedOnce
<1> QED
    BY <1>3, <1>4, <1>5, <1>6, <1>7, EchoesBehave, SerialsBehave, PTL

\* Mail that a caller was not sent stays ahead of the pointer, which only the caller sets back;
\* what is confirmed is what was sent and still stands (prepare_offline_packet,
\* confirm_offline_delivery, check_manifest).
THEOREM NothingIsPassedOverHolds == AllSpec => NothingIsPassedOver
<1>1. First!OP!PacketAssumption
    <2>1. Overlap!PacketAssumption
        BY AssumptionsHold DEF AssumptionsHold
    <2> QED
        BY <2>1 DEF Overlap!PacketAssumption, First!OP!PacketAssumption, Overlap!BoundsAreNumbers,
       First!OP!BoundsAreNumbers, Overlap!AddressedExist, First!OP!AddressedExist
<1>2. Second!OP!PacketAssumption
    <2>1. Current!PacketAssumption
        BY AssumptionsHold DEF AssumptionsHold
    <2> QED
        BY <2>1 DEF Current!PacketAssumption, Second!OP!PacketAssumption, Current!BoundsAreNumbers,
       Second!OP!BoundsAreNumbers, Current!AddressedExist, Second!OP!AddressedExist
<1> DEFINE Knows == First!OP!OnlySetGoesBack /\ First!OP!ConfirmedKnowingly /\ First!OP!ConfirmedIsCurrent
           Stands == Second!OP!OnlySetGoesBack /\ Second!OP!ConfirmedKnowingly /\ Second!OP!ConfirmedIsCurrent
<1>3. First!OP!Spec => []First!OP!NothingSkipped
    BY <1>1, First!NothingSkippedHolds, PTL
<1>4. First!OP!Spec => [][Knows]_(First!OP!vars)
    BY <1>1, First!PointerMovesKnowingly, PTL
<1>5. Second!OP!Spec => [](Second!OP!TypeOK /\ Second!OP!ReceivedWasSent)
    BY <1>2, Second!ReceivedWasSentHolds, PTL
<1>6. Second!OP!Spec => [][Stands]_(Second!OP!vars)
    BY <1>2, Second!PointerMovesKnowingly, PTL
<1>7. First!OP!NothingSkipped => Overlap!NothingSkipped
    BY DEF Overlap!NothingSkipped, First!OP!NothingSkipped, Overlap!Readable,
       First!OP!Readable, Overlap!Numbers, First!OP!Numbers
<1>8. Second!OP!TypeOK /\ Second!OP!ReceivedWasSent => Current!TypeOK /\ Current!ReceivedWasSent
    BY DEF Current!TypeOK, Second!OP!TypeOK, Current!ReceivedWasSent,
       Second!OP!ReceivedWasSent, Current!Numbers, Second!OP!Numbers, Current!Selections,
       Second!OP!Selections, Current!Member, Second!OP!Member
<1>9. Knows => Overlap!OnlySetGoesBack /\ Overlap!ConfirmedKnowingly
    BY DEF Overlap!OnlySetGoesBack, First!OP!OnlySetGoesBack, Overlap!ConfirmedKnowingly,
       First!OP!ConfirmedKnowingly
<1>10. Stands => Current!ConfirmedIsCurrent
    BY DEF Current!ConfirmedIsCurrent, Second!OP!ConfirmedIsCurrent, Current!Readable,
       Second!OP!Readable, Current!Numbers, Second!OP!Numbers
<1> HIDE DEF Knows, Stands
<1>11. [AllNext]_all /\ part = "overlapping packets" /\ [Knows]_(First!OP!vars)
        => [part = "overlapping packets" => Overlap!OnlySetGoesBack /\ Overlap!ConfirmedKnowingly]_all
    BY <1>9 DEF AllNext, all, OnlyPackets, packets, First!OP!vars, First!OP!rows, First!OP!marks, First!OP!history
<1>12. [AllNext]_all /\ ~(part = "overlapping packets")
        => [part = "overlapping packets" => Overlap!OnlySetGoesBack /\ Overlap!ConfirmedKnowingly]_all
    OBVIOUS
<1>13. [AllNext]_all /\ part = "changing conference" /\ [Stands]_(Second!OP!vars)
        => [part = "changing conference" => Current!ConfirmedIsCurrent]_all
    BY <1>10 DEF AllNext, all, OnlyPackets, packets, Second!OP!vars, Second!OP!rows, Second!OP!marks, Second!OP!history
<1>14. [AllNext]_all /\ ~(part = "changing conference")
        => [part = "changing conference" => Current!ConfirmedIsCurrent]_all
    OBVIOUS
<1>15. AllSpec => [][AllNext]_all
    BY PTL DEF AllSpec
<1>16. AllSpec => [](part = "overlapping packets" => Overlap!NothingSkipped)
    BY <1>3, <1>7, OverlapBehaves, PTL
<1>17. AllSpec => [](part = "changing conference" => Current!TypeOK /\ Current!ReceivedWasSent)
    BY <1>5, <1>8, CurrentBehaves, PTL
<1>18. AllSpec => [][part = "overlapping packets" => Overlap!OnlySetGoesBack /\ Overlap!ConfirmedKnowingly]_all
    BY <1>4, <1>11, <1>12, <1>15, OverlapBehaves, PTL
<1>19. AllSpec => [][part = "changing conference" => Current!ConfirmedIsCurrent]_all
    BY <1>6, <1>13, <1>14, <1>15, CurrentBehaves, PTL
<1> QED
    BY <1>16, <1>17, <1>18, <1>19, PTL DEF NothingIsPassedOver
=============================================================================
