------------------------ MODULE CircuitServices_proofs ------------------------
(***************************************************************************)
(* Proofs about the CircuitNET services as the run explores them.  What is *)
(* proved of the components for any values of their constants              *)
(* (CircuitParts_proofs) holds of the instances side by side, and the      *)
(* promises follow from it.                                                *)
(***************************************************************************)
EXTENDS MCCircuitServices, TLAPS

Small == INSTANCE CircuitParts_proofs WITH
    Boards <- {a, b}, Initiators <- {<<a, b>>, <<b, a>>}, Capacity <- 2, Tries <- 1,
    MaxPolls <- 1, MaxFaults <- 1, MaxHolds <- 0, MayStop <- {}, faults <- linkFaults,
    Length <- 2, Files <- {f1}, MaxIds <- 1, Native <- {<<1, f1>>}, Refused <- {},
    Verdicts <- {"published", "pending"}, MaxAttempts <- 2, FileLimit <- 1, FileEdits <- 1,
    FileFaults <- 2,
    Requests <- {r3}, Operations <- {"subscribe", "unsubscribe"}, Limit <- 1,
    Policies <- {"auto-approve", "deny"}, Snapshots <- {"parent"}, MaxEdits <- 2,
    ControlFaults <- 1, Depth <- 2, Lifecycles <- {"active", "retired"},
    Replaceable <- {1}, CatalogSnapshots <- {}, CatalogLimit <- 1, MaxRevs <- 2,
    MaxKeys <- 2, CatalogFaults <- 0, LineLength <- 2, Posts <- {p1, p2}, Names <- {n1, n2},
    NoPost <- None, LineAttempts <- 1, MaxRestores <- 1
Large == INSTANCE CircuitParts_proofs WITH
    Boards <- {a, b}, Initiators <- {<<a, b>>}, Capacity <- 2, Tries <- 2,
    MaxPolls <- 1, MaxFaults <- 1, MaxHolds <- 1, MayStop <- {}, faults <- linkFaults,
    Length <- 3, Files <- {f1}, MaxIds <- 2, Native <- {<<1, f1>>, <<3, f1>>},
    Refused <- {}, Verdicts <- {"published"}, MaxAttempts <- 1, FileLimit <- 2,
    FileEdits <- 0, FileFaults <- 1,
    ControlFaults <- MaxFaults, controlChild <- child, controlParent <- parent,
    controlAvail <- avail, controlSess <- sess, controlBackup <- backup,
    controlEdits <- edits, controlFaults <- faults, Depth <- 2,
    Lifecycles <- {"active"}, Replaceable <- {1}, CatalogSnapshots <- {1, 2},
    CatalogLimit <- 2, MaxRevs <- 2, MaxKeys <- 1, CatalogFaults <- 1, LineLength <- 2,
    Posts <- {p1, p2}, Names <- {n1, n2}, NoPost <- None, LineAttempts <- 1, MaxRestores <- 1

-----------------------------------------------------------------------------
(***************************************************************************)
(* A behaviour is about one component, and that component's own.           *)
(***************************************************************************)

\* Both boards may poll.
LEMMA CrossingBehaves ==
    AllSpec => []~(part = "crossing polls") \/ ([](part = "crossing polls") /\ Small!Spec)
<1>1. AllInit /\ part = "crossing polls" => Small!Init
    BY DEF AllInit, Crossing!Init, Small!Init, Crossing!Links, Small!Links, Crossing!Quiet,
       Small!Quiet
<1>2. [AllNext]_all /\ part = "crossing polls" => [Small!Next]_(Small!vars)
  <2>1. Crossing!Next => Small!Next
      BY DEF Crossing!Next, Small!Next, Crossing!Links, Small!Links, Crossing!StartPoll,
       Small!StartPoll, Crossing!Outbound, Small!Outbound, Crossing!Breaks, Small!Breaks,
       Crossing!Keys, Small!Keys, Crossing!Inbound, Small!Inbound, Crossing!ServerBreaks,
       Small!ServerBreaks, Crossing!Hold, Small!Hold, Crossing!Stop, Small!Stop,
       Crossing!Room, Small!Room, Crossing!Take, Small!Take, Crossing!Bind, Small!Bind,
       Crossing!Quiet, Small!Quiet, Crossing!policy, Small!policy, Crossing!GiveUp,
       Small!GiveUp, Crossing!Connect, Small!Connect, Crossing!Secure, Small!Secure,
       Crossing!NotSecured, Small!NotSecured, Crossing!SendForward, Small!SendForward,
       Crossing!AckForward, Small!AckForward, Crossing!ReceiveReverse,
       Small!ReceiveReverse, Crossing!SendClose, Small!SendClose, Crossing!Done,
       Small!Done, Crossing!Cut, Small!Cut, Crossing!Read, Small!Read, Crossing!Record,
       Small!Record, Crossing!Fault, Small!Fault, Crossing!Codes, Small!Codes,
       Crossing!End, Small!End, Crossing!Heard, Small!Heard, Crossing!Current,
       Small!Current, Crossing!permits, Small!permits, Crossing!Accept, Small!Accept,
       Crossing!Identify, Small!Identify, Crossing!SendHello, Small!SendHello,
       Crossing!ReceiveForward, Small!ReceiveForward, Crossing!SendReverse,
       Small!SendReverse, Crossing!AckReverse, Small!AckReverse, Crossing!Closed,
       Small!Closed, Crossing!ServerCut, Small!ServerCut, Crossing!ServerRead,
       Small!ServerRead, Crossing!ServerRecord, Small!ServerRecord, Crossing!Worker,
       Small!Worker, Crossing!Put, Small!Put, Crossing!counters, Small!counters,
       Crossing!Admitted, Small!Admitted, Crossing!Refusal, Small!Refusal,
       Crossing!Release, Small!Release, Crossing!Connection, Small!Connection,
       Crossing!Wire, Small!Wire, Crossing!Initiator, Small!Initiator, Crossing!Quits,
       Small!Quits, Crossing!rest, Small!rest, Crossing!Awaited, Small!Awaited,
       Crossing!Recorded, Small!Recorded, Crossing!Again, Small!Again,
       Crossing!Responder, Small!Responder, Crossing!ServerQuits, Small!ServerQuits,
       Crossing!Forgets, Small!Forgets, Crossing!TriedAgain, Small!TriedAgain
  <2>2. UNCHANGED links => UNCHANGED Small!vars
      BY DEF links, Small!vars
  <2> QED
      BY <2>1, <2>2 DEF AllNext, all
<1>3. [AllNext]_all /\ part = "crossing polls" => (part = "crossing polls")'
    BY DEF AllNext, all, OnlyLinks
<1>4. [AllNext]_all /\ ~(part = "crossing polls") => (~(part = "crossing polls"))'
    BY DEF AllNext, all, OnlyLinks, OnlyLine, OnlyFiles, OnlyRequests, OnlyControls, OnlyCatalogs
<1> QED
    BY <1>1, <1>2, <1>3, <1>4, PTL DEF AllSpec, Small!Spec

\* One board polls, tries again and may be held.
LEMMA PolicyBehaves ==
    AllSpec => []~(part = "changing policy") \/ ([](part = "changing policy") /\ Large!Spec)
<1>1. AllInit /\ part = "changing policy" => Large!Init
    BY DEF AllInit, Policy!Init, Large!Init, Policy!Links, Large!Links, Policy!Quiet, Large!Quiet
<1>2. [AllNext]_all /\ part = "changing policy" => [Large!Next]_(Large!vars)
  <2>1. Policy!Next => Large!Next
      BY DEF Policy!Next, Large!Next, Policy!Links, Large!Links, Policy!StartPoll,
       Large!StartPoll, Policy!Outbound, Large!Outbound, Policy!Breaks, Large!Breaks,
       Policy!Keys, Large!Keys, Policy!Inbound, Large!Inbound, Policy!ServerBreaks,
       Large!ServerBreaks, Policy!Hold, Large!Hold, Policy!Stop, Large!Stop, Policy!Room,
       Large!Room, Policy!Take, Large!Take, Policy!Bind, Large!Bind, Policy!Quiet,
       Large!Quiet, Policy!policy, Large!policy, Policy!GiveUp, Large!GiveUp,
       Policy!Connect, Large!Connect, Policy!Secure, Large!Secure, Policy!NotSecured,
       Large!NotSecured, Policy!SendForward, Large!SendForward, Policy!AckForward,
       Large!AckForward, Policy!ReceiveReverse, Large!ReceiveReverse, Policy!SendClose,
       Large!SendClose, Policy!Done, Large!Done, Policy!Cut, Large!Cut, Policy!Read,
       Large!Read, Policy!Record, Large!Record, Policy!Fault, Large!Fault, Policy!Codes,
       Large!Codes, Policy!End, Large!End, Policy!Heard, Large!Heard, Policy!Current,
       Large!Current, Policy!permits, Large!permits, Policy!Accept, Large!Accept,
       Policy!Identify, Large!Identify, Policy!SendHello, Large!SendHello,
       Policy!ReceiveForward, Large!ReceiveForward, Policy!SendReverse,
       Large!SendReverse, Policy!AckReverse, Large!AckReverse, Policy!Closed,
       Large!Closed, Policy!ServerCut, Large!ServerCut, Policy!ServerRead,
       Large!ServerRead, Policy!ServerRecord, Large!ServerRecord, Policy!Worker,
       Large!Worker, Policy!Put, Large!Put, Policy!counters, Large!counters,
       Policy!Admitted, Large!Admitted, Policy!Refusal, Large!Refusal, Policy!Release,
       Large!Release, Policy!Connection, Large!Connection, Policy!Wire, Large!Wire,
       Policy!Initiator, Large!Initiator, Policy!Quits, Large!Quits, Policy!rest,
       Large!rest, Policy!Awaited, Large!Awaited, Policy!Recorded, Large!Recorded,
       Policy!Again, Large!Again, Policy!Responder, Large!Responder, Policy!ServerQuits,
       Large!ServerQuits, Policy!Forgets, Large!Forgets, Policy!TriedAgain,
       Large!TriedAgain
  <2>2. UNCHANGED links => UNCHANGED Large!vars
      BY DEF links, Large!vars
  <2> QED
      BY <2>1, <2>2 DEF AllNext, all
<1>3. [AllNext]_all /\ part = "changing policy" => (part = "changing policy")'
    BY DEF AllNext, all, OnlyLinks
<1>4. [AllNext]_all /\ ~(part = "changing policy") => (~(part = "changing policy"))'
    BY DEF AllNext, all, OnlyLinks, OnlyLine, OnlyFiles, OnlyRequests, OnlyControls, OnlyCatalogs
<1> QED
    BY <1>1, <1>2, <1>3, <1>4, PTL DEF AllSpec, Large!Spec

\* A file waits for approval, and offers are repeated.
LEMMA ReceiptsBehave ==
    AllSpec => []~(part = "file receipts") \/ ([](part = "file receipts") /\ Small!CF!Spec)
<1>1. AllInit /\ part = "file receipts" => Small!CF!Init
    BY DEF AllInit, Receipts!Init, Small!CF!Init, Receipts!Boards, Small!CF!Boards, Receipts!Ids,
       Small!CF!Ids, Receipts!Links, Small!CF!Links, Receipts!Idle, Small!CF!Idle
<1>2. [AllNext]_all /\ part = "file receipts" => [Small!CF!Next]_(Small!CF!vars)
  <2>1. Receipts!Next => Small!CF!Next
      BY DEF Receipts!Next, Small!CF!Next, Receipts!Boards, Small!CF!Boards, Receipts!Admit,
       Small!CF!Admit, Receipts!Wake, Small!CF!Wake, Receipts!Links, Small!CF!Links,
       Receipts!Poll, Small!CF!Poll, Receipts!Phase, Small!CF!Phase, Receipts!WrongHash,
       Small!CF!WrongHash, Receipts!Break, Small!CF!Break, Receipts!Subscribe,
       Small!CF!Subscribe, Receipts!Ids, Small!CF!Ids, Receipts!Retry, Small!CF!Retry,
       Receipts!Review, Small!CF!Review, Receipts!Prepare, Small!CF!Prepare,
       Receipts!List, Small!CF!List, Receipts!Attempt, Small!CF!Attempt, Receipts!Close,
       Small!CF!Close, Receipts!Settle, Small!CF!Settle, Receipts!Answer,
       Small!CF!Answer, Receipts!Import, Small!CF!Import, Receipts!Record,
       Small!CF!Record, Receipts!Refuses, Small!CF!Refuses, Receipts!Idle, Small!CF!Idle,
       Receipts!custody, Small!CF!custody, Receipts!Edit, Small!CF!Edit,
       Receipts!Stopped, Small!CF!Stopped, Receipts!Unpublished, Small!CF!Unpublished,
       Receipts!Cardinality, Small!CF!Cardinality, Receipts!Own, Small!CF!Own,
       Receipts!Fanout, Small!CF!Fanout, Receipts!Reconsidered, Small!CF!Reconsidered,
       Receipts!FirstOf, Small!CF!FirstOf, Receipts!Offerable, Small!CF!Offerable,
       Receipts!Min, Small!CF!Min, Receipts!Known, Small!CF!Known, Receipts!File,
       Small!CF!File, Receipts!End, Small!CF!End, Receipts!Path, Small!CF!Path,
       Receipts!Fresh, Small!CF!Fresh, Receipts!Published, Small!CF!Published
  <2>2. UNCHANGED files => UNCHANGED Small!CF!vars
      BY DEF files, Small!CF!vars, Small!CF!custody
  <2> QED
      BY <2>1, <2>2 DEF AllNext, all
<1>3. [AllNext]_all /\ part = "file receipts" => (part = "file receipts")'
    BY DEF AllNext, all, OnlyFiles
<1>4. [AllNext]_all /\ ~(part = "file receipts") => (~(part = "file receipts"))'
    BY DEF AllNext, all, OnlyLinks, OnlyLine, OnlyFiles, OnlyRequests, OnlyControls, OnlyCatalogs
<1> QED
    BY <1>1, <1>2, <1>3, <1>4, PTL DEF AllSpec, Small!CF!Spec

\* Three boards, and both ends have the file.
LEMMA TransitBehaves ==
    AllSpec => []~(part = "files in transit") \/ ([](part = "files in transit") /\ Large!CF!Spec)
<1>1. AllInit /\ part = "files in transit" => Large!CF!Init
    BY DEF AllInit, Transit!Init, Large!CF!Init, Transit!Boards, Large!CF!Boards, Transit!Ids,
       Large!CF!Ids, Transit!Links, Large!CF!Links, Transit!Idle, Large!CF!Idle
<1>2. [AllNext]_all /\ part = "files in transit" => [Large!CF!Next]_(Large!CF!vars)
  <2>1. Transit!Next => Large!CF!Next
      BY DEF Transit!Next, Large!CF!Next, Transit!Boards, Large!CF!Boards, Transit!Admit,
       Large!CF!Admit, Transit!Wake, Large!CF!Wake, Transit!Links, Large!CF!Links,
       Transit!Poll, Large!CF!Poll, Transit!Phase, Large!CF!Phase, Transit!WrongHash,
       Large!CF!WrongHash, Transit!Break, Large!CF!Break, Transit!Subscribe,
       Large!CF!Subscribe, Transit!Ids, Large!CF!Ids, Transit!Retry, Large!CF!Retry,
       Transit!Review, Large!CF!Review, Transit!Prepare, Large!CF!Prepare, Transit!List,
       Large!CF!List, Transit!Attempt, Large!CF!Attempt, Transit!Close, Large!CF!Close,
       Transit!Settle, Large!CF!Settle, Transit!Answer, Large!CF!Answer, Transit!Import,
       Large!CF!Import, Transit!Record, Large!CF!Record, Transit!Refuses,
       Large!CF!Refuses, Transit!Idle, Large!CF!Idle, Transit!custody, Large!CF!custody,
       Transit!Edit, Large!CF!Edit, Transit!Stopped, Large!CF!Stopped,
       Transit!Unpublished, Large!CF!Unpublished, Transit!Cardinality,
       Large!CF!Cardinality, Transit!Own, Large!CF!Own, Transit!Fanout, Large!CF!Fanout,
       Transit!Reconsidered, Large!CF!Reconsidered, Transit!FirstOf, Large!CF!FirstOf,
       Transit!Offerable, Large!CF!Offerable, Transit!Min, Large!CF!Min, Transit!Known,
       Large!CF!Known, Transit!File, Large!CF!File, Transit!End, Large!CF!End,
       Transit!Path, Large!CF!Path, Transit!Fresh, Large!CF!Fresh, Transit!Published,
       Large!CF!Published
  <2>2. UNCHANGED files => UNCHANGED Large!CF!vars
      BY DEF files, Large!CF!vars, Large!CF!custody
  <2> QED
      BY <2>1, <2>2 DEF AllNext, all
<1>3. [AllNext]_all /\ part = "files in transit" => (part = "files in transit")'
    BY DEF AllNext, all, OnlyFiles
<1>4. [AllNext]_all /\ ~(part = "files in transit") => (~(part = "files in transit"))'
    BY DEF AllNext, all, OnlyLinks, OnlyLine, OnlyFiles, OnlyRequests, OnlyControls, OnlyCatalogs
<1> QED
    BY <1>1, <1>2, <1>3, <1>4, PTL DEF AllSpec, Large!CF!Spec

\* A board of the line is restored.
LEMMA LineBehaves ==
    AllSpec => []~(part = "restored board") \/ ([](part = "restored board") /\ Small!CR!Spec)
<1>1. AllInit /\ part = "restored board" => Small!CR!Init
    BY DEF AllInit, Line!Init, Small!CR!Init, Line!Boards, Small!CR!Boards, Line!Empty,
       Small!CR!Empty, Line!NoRow, Small!CR!NoRow
<1>2. [AllNext]_all /\ part = "restored board" => [Small!CR!Next]_(Small!CR!vars)
  <2>1. Line!Next => Small!CR!Next
      BY DEF Line!Next, Small!CR!Next, Line!Post, Small!CR!Post, Line!Scan, Small!CR!Scan,
       Line!Boards, Small!CR!Boards, Line!Prepare, Small!CR!Prepare, Line!Backup,
       Small!CR!Backup, Line!Restore, Small!CR!Restore, Line!Batches, Small!CR!Batches,
       Line!Import, Small!CR!Import, Line!Acknowledge, Small!CR!Acknowledge, Line!Failed,
       Small!CR!Failed, Line!Retry, Small!CR!Retry, Line!Unscanned, Small!CR!Unscanned,
       Line!Cardinality, Small!CR!Cardinality, Line!Publish, Small!CR!Publish,
       Line!NextBatches, Small!CR!NextBatches, Line!SetRows, Small!CR!SetRows,
       Line!HoldRestored, Small!CR!HoldRestored, Line!Unsettled, Small!CR!Unsettled,
       Line!Burnt, Small!CR!Burnt, Line!NoRow, Small!CR!NoRow, Line!Prior,
       Small!CR!Prior, Line!Sendable, Small!CR!Sendable, Line!Terminal, Small!CR!Terminal
  <2>2. UNCHANGED line => UNCHANGED Small!CR!vars
      BY DEF line, Small!CR!vars
  <2> QED
      BY <2>1, <2>2 DEF AllNext, all
<1>3. [AllNext]_all /\ part = "restored board" => (part = "restored board")'
    BY DEF AllNext, all, OnlyLine
<1>4. [AllNext]_all /\ ~(part = "restored board") => (~(part = "restored board"))'
    BY DEF AllNext, all, OnlyLinks, OnlyLine, OnlyFiles, OnlyRequests, OnlyControls, OnlyCatalogs
<1> QED
    BY <1>1, <1>2, <1>3, <1>4, PTL DEF AllSpec, Small!CR!Spec

\* The parent forgets what it applied.
LEMMA ForgottenBehaves ==
    AllSpec => []~(part = "restored parent") \/ ([](part = "restored parent") /\ Small!CC!Spec)
<1>1. AllInit /\ part = "restored parent" => Small!CC!Init
    BY DEF AllInit, Forgotten!Init, Small!CC!Init, Forgotten!Idle, Small!CC!Idle
<1>2. [AllNext]_all /\ part = "restored parent" => [Small!CC!Next]_(Small!CC!vars)
  <2>1. Forgotten!Next => Small!CC!Next
      BY DEF Forgotten!Next, Small!CC!Next, Forgotten!Request, Small!CC!Request,
       Forgotten!Retry, Small!CC!Retry, Forgotten!Decide, Small!CC!Decide,
       Forgotten!SetPolicy, Small!CC!SetPolicy, Forgotten!Subscribe, Small!CC!Subscribe,
       Forgotten!Map, Small!CC!Map, Forgotten!Exchange, Small!CC!Exchange,
       Forgotten!Break, Small!CC!Break, Forgotten!Save, Small!CC!Save, Forgotten!Restore,
       Small!CC!Restore, Forgotten!New, Small!CC!New, Forgotten!Says, Small!CC!Says,
       Forgotten!Edit, Small!CC!Edit, Forgotten!Decidable, Small!CC!Decidable,
       Forgotten!Answered, Small!CC!Answered, Forgotten!Outcome, Small!CC!Outcome,
       Forgotten!Idle, Small!CC!Idle, Forgotten!Start, Small!CC!Start, Forgotten!Return,
       Small!CC!Return, Forgotten!Receive, Small!CC!Receive, Forgotten!Persist,
       Small!CC!Persist, Forgotten!Wants, Small!CC!Wants, Forgotten!Pending,
       Small!CC!Pending, Forgotten!Known, Small!CC!Known, Forgotten!FirstOutcome,
       Small!CC!FirstOutcome, Forgotten!First, Small!CC!First, Forgotten!Conflict,
       Small!CC!Conflict, Forgotten!Terminal, Small!CC!Terminal, Forgotten!ToEnd,
       Small!CC!ToEnd, Forgotten!Unsettled, Small!CC!Unsettled, Forgotten!Cardinality,
       Small!CC!Cardinality, Forgotten!Before, Small!CC!Before, Forgotten!RemoveAt,
       Small!CC!RemoveAt
  <2>2. UNCHANGED controls => UNCHANGED Small!CC!vars
      BY DEF controls, Small!CC!vars
  <2> QED
      BY <2>1, <2>2 DEF AllNext, all
<1>3. [AllNext]_all /\ part = "restored parent" => (part = "restored parent")'
    BY DEF AllNext, all, OnlyControls
<1>4. [AllNext]_all /\ ~(part = "restored parent") => (~(part = "restored parent"))'
    BY DEF AllNext, all, OnlyLinks, OnlyLine, OnlyFiles, OnlyRequests, OnlyControls, OnlyCatalogs
<1> QED
    BY <1>1, <1>2, <1>3, <1>4, PTL DEF AllSpec, Small!CC!Spec

\* The root changes keys, and no board is rebuilt from a backup.
LEMMA KeysBehaves ==
    AllSpec => []~(part = "key changes") \/ ([](part = "key changes") /\ Small!CT!Spec)
<1>1. AllInit /\ part = "key changes" => Small!CT!Init
    BY DEF AllInit, Keys!Init, Small!CT!Init, Keys!Boards, Small!CT!Boards, Keys!Fresh,
       Small!CT!Fresh, Keys!Children, Small!CT!Children, Keys!Idle, Small!CT!Idle
<1>2. [AllNext]_all /\ part = "key changes" => [Small!CT!Next]_(Small!CT!vars)
  <2>1. Keys!Next => Small!CT!Next
    <3>1. \A s, t : Keys!IsPrefixOf(s, t) <=> Small!CT!IsPrefixOf(s, t)
        BY DEF Keys!IsPrefixOf, Small!CT!IsPrefixOf
    <3>2. \A at : Keys!Key(at) = Small!CT!Key(at)
        BY DEF Keys!Key, Small!CT!Key
    <3>3. \A at, n : Keys!AuthorityAt(at, n) = Small!CT!AuthorityAt(at, n)
        BY DEF Keys!AuthorityAt, Small!CT!AuthorityAt
    <3>4. \A at, h : Keys!Accepts(at, h) <=> Small!CT!Accepts(at, h)
        BY <3>1, <3>3 DEF Keys!Accepts, Small!CT!Accepts, Keys!Lawful, Small!CT!Lawful
    <3>5. \A at, h : Keys!Accept(at, h) <=> Small!CT!Accept(at, h)
        BY DEF Keys!Accept, Small!CT!Accept
    <3>6. \A at : Keys!Stopped(at) <=> Small!CT!Stopped(at)
        BY DEF Keys!Stopped, Small!CT!Stopped, Keys!Children, Small!CT!Children
    <3>7. \A status : Keys!Publish(status) <=> Small!CT!Publish(status)
        BY <3>2, <3>6, <3>4, <3>5 DEF Keys!Publish, Small!CT!Publish
    <3>8. \A at, h : Keys!Import(at, h) <=> Small!CT!Import(at, h)
        BY <3>6, <3>4, <3>5 DEF Keys!Import, Small!CT!Import
    <3>9. \A at, mapped : Keys!Choose(at, mapped) <=> Small!CT!Choose(at, mapped)
        BY <3>6 DEF Keys!Choose, Small!CT!Choose
    <3>10. \A k : Keys!Announce(k) <=> Small!CT!Announce(k)
        BY <3>2 DEF Keys!Announce, Small!CT!Announce, Keys!board, Small!CT!board
    <3>11. \A at, t : Keys!Enrollable(at, t) <=> Small!CT!Enrollable(at, t)
        BY <3>2 DEF Keys!Enrollable, Small!CT!Enrollable
    <3>12. \A at, t : Keys!Enroll(at, t) <=> Small!CT!Enroll(at, t)
        BY <3>6, <3>11 DEF Keys!Enroll, Small!CT!Enroll
    <3>13. \A at, s : Keys!Becomes(at, s) <=> Small!CT!Becomes(at, s)
        BY DEF Keys!Becomes, Small!CT!Becomes
    <3>14. \A at : Keys!Save(at) <=> Small!CT!Save(at)
        BY <3>6 DEF Keys!Save, Small!CT!Save, Keys!board, Small!CT!board
    <3>15. \A at : Keys!Restorable(at) <=> Small!CT!Restorable(at)
        BY <3>2, <3>1 DEF Keys!Restorable, Small!CT!Restorable
    <3>16. \A at : Keys!Restore(at) <=> Small!CT!Restore(at)
        BY <3>6, <3>15, <3>13 DEF Keys!Restore, Small!CT!Restore
    <3>17. \A at : Keys!Rebuild(at) <=> Small!CT!Rebuild(at)
        BY <3>6, <3>13 DEF Keys!Rebuild, Small!CT!Rebuild, Keys!Fresh, Small!CT!Fresh
    <3>18. \A c : Keys!Start(c) <=> Small!CT!Start(c)
        BY DEF Keys!Start, Small!CT!Start, Keys!Idle, Small!CT!Idle, Keys!board, Small!CT!board
    <3>19. \A c : Keys!Ask(c) <=> Small!CT!Ask(c)
        BY DEF Keys!Ask, Small!CT!Ask, Keys!Idle, Small!CT!Idle
    <3>20. \A n, m : Keys!Upto(n, m) = Small!CT!Upto(n, m)
        BY DEF Keys!Upto, Small!CT!Upto
    <3>21. \A c : Keys!Answer(c) <=> Small!CT!Answer(c)
        BY <3>20, <3>1 DEF Keys!Answer, Small!CT!Answer, Keys!Idle, Small!CT!Idle
    <3>22. \A c : Keys!Object(c) <=> Small!CT!Object(c)
        BY <3>4, <3>5 DEF Keys!Object, Small!CT!Object, Keys!Idle, Small!CT!Idle
    <3>23. \A c : Keys!Ack(c) <=> Small!CT!Ack(c)
        BY DEF Keys!Ack, Small!CT!Ack, Keys!Acknowledged, Small!CT!Acknowledged, Keys!Idle,
       Small!CT!Idle
    <3>24. \A c : Keys!Break(c) <=> Small!CT!Break(c)
        BY DEF Keys!Break, Small!CT!Break, Keys!Idle, Small!CT!Idle, Keys!board, Small!CT!board
    <3>25. \A c : Keys!Phase(c) <=> Small!CT!Phase(c)
        BY <3>19, <3>21, <3>22, <3>23 DEF Keys!Phase, Small!CT!Phase
    <3> QED
        BY <3>7, <3>10, <3>8, <3>9, <3>12, <3>14, <3>16, <3>17, <3>18, <3>25, <3>24 DEF Keys!Next, Small!CT!Next, Keys!Boards, Small!CT!Boards, Keys!Children,
       Small!CT!Children
  <2>2. UNCHANGED catalogs => UNCHANGED Small!CT!vars
      BY DEF catalogs, Small!CT!vars, Small!CT!board
  <2> QED
      BY <2>1, <2>2 DEF AllNext, all
<1>3. [AllNext]_all /\ part = "key changes" => (part = "key changes")'
    BY DEF AllNext, all, OnlyCatalogs
<1>4. [AllNext]_all /\ ~(part = "key changes") => (~(part = "key changes"))'
    BY DEF AllNext, all, OnlyLinks, OnlyLine, OnlyFiles, OnlyRequests, OnlyControls, OnlyCatalogs
<1> QED
    BY <1>1, <1>2, <1>3, <1>4, PTL DEF AllSpec, Small!CT!Spec

\* Boards are restored from backups, and the root is rebuilt.
LEMMA RewoundBehaves ==
    AllSpec => []~(part = "restored catalog") \/ ([](part = "restored catalog") /\ Large!CT!Spec)
<1>1. AllInit /\ part = "restored catalog" => Large!CT!Init
    BY DEF AllInit, Rewound!Init, Large!CT!Init, Rewound!Boards, Large!CT!Boards, Rewound!Fresh,
       Large!CT!Fresh, Rewound!Children, Large!CT!Children, Rewound!Idle, Large!CT!Idle
<1>2. [AllNext]_all /\ part = "restored catalog" => [Large!CT!Next]_(Large!CT!vars)
  <2>1. Rewound!Next => Large!CT!Next
    <3>1. \A s, t : Rewound!IsPrefixOf(s, t) <=> Large!CT!IsPrefixOf(s, t)
        BY DEF Rewound!IsPrefixOf, Large!CT!IsPrefixOf
    <3>2. \A at : Rewound!Key(at) = Large!CT!Key(at)
        BY DEF Rewound!Key, Large!CT!Key
    <3>3. \A at, n : Rewound!AuthorityAt(at, n) = Large!CT!AuthorityAt(at, n)
        BY DEF Rewound!AuthorityAt, Large!CT!AuthorityAt
    <3>4. \A at, h : Rewound!Accepts(at, h) <=> Large!CT!Accepts(at, h)
        BY <3>1, <3>3 DEF Rewound!Accepts, Large!CT!Accepts, Rewound!Lawful, Large!CT!Lawful
    <3>5. \A at, h : Rewound!Accept(at, h) <=> Large!CT!Accept(at, h)
        BY DEF Rewound!Accept, Large!CT!Accept
    <3>6. \A at : Rewound!Stopped(at) <=> Large!CT!Stopped(at)
        BY DEF Rewound!Stopped, Large!CT!Stopped, Rewound!Children, Large!CT!Children
    <3>7. \A status : Rewound!Publish(status) <=> Large!CT!Publish(status)
        BY <3>2, <3>6, <3>4, <3>5 DEF Rewound!Publish, Large!CT!Publish
    <3>8. \A at, h : Rewound!Import(at, h) <=> Large!CT!Import(at, h)
        BY <3>6, <3>4, <3>5 DEF Rewound!Import, Large!CT!Import
    <3>9. \A at, mapped : Rewound!Choose(at, mapped) <=> Large!CT!Choose(at, mapped)
        BY <3>6 DEF Rewound!Choose, Large!CT!Choose
    <3>10. \A k : Rewound!Announce(k) <=> Large!CT!Announce(k)
        BY <3>2 DEF Rewound!Announce, Large!CT!Announce, Rewound!board, Large!CT!board
    <3>11. \A at, t : Rewound!Enrollable(at, t) <=> Large!CT!Enrollable(at, t)
        BY <3>2 DEF Rewound!Enrollable, Large!CT!Enrollable
    <3>12. \A at, t : Rewound!Enroll(at, t) <=> Large!CT!Enroll(at, t)
        BY <3>6, <3>11 DEF Rewound!Enroll, Large!CT!Enroll
    <3>13. \A at, s : Rewound!Becomes(at, s) <=> Large!CT!Becomes(at, s)
        BY DEF Rewound!Becomes, Large!CT!Becomes
    <3>14. \A at : Rewound!Save(at) <=> Large!CT!Save(at)
        BY <3>6 DEF Rewound!Save, Large!CT!Save, Rewound!board, Large!CT!board
    <3>15. \A at : Rewound!Restorable(at) <=> Large!CT!Restorable(at)
        BY <3>2, <3>1 DEF Rewound!Restorable, Large!CT!Restorable
    <3>16. \A at : Rewound!Restore(at) <=> Large!CT!Restore(at)
        BY <3>6, <3>15, <3>13 DEF Rewound!Restore, Large!CT!Restore
    <3>17. \A at : Rewound!Rebuild(at) <=> Large!CT!Rebuild(at)
        BY <3>6, <3>13 DEF Rewound!Rebuild, Large!CT!Rebuild, Rewound!Fresh, Large!CT!Fresh
    <3>18. \A c : Rewound!Start(c) <=> Large!CT!Start(c)
        BY DEF Rewound!Start, Large!CT!Start, Rewound!Idle, Large!CT!Idle, Rewound!board,
       Large!CT!board
    <3>19. \A c : Rewound!Ask(c) <=> Large!CT!Ask(c)
        BY DEF Rewound!Ask, Large!CT!Ask, Rewound!Idle, Large!CT!Idle
    <3>20. \A n, m : Rewound!Upto(n, m) = Large!CT!Upto(n, m)
        BY DEF Rewound!Upto, Large!CT!Upto
    <3>21. \A c : Rewound!Answer(c) <=> Large!CT!Answer(c)
        BY <3>20, <3>1 DEF Rewound!Answer, Large!CT!Answer, Rewound!Idle, Large!CT!Idle
    <3>22. \A c : Rewound!Object(c) <=> Large!CT!Object(c)
        BY <3>4, <3>5 DEF Rewound!Object, Large!CT!Object, Rewound!Idle, Large!CT!Idle
    <3>23. \A c : Rewound!Ack(c) <=> Large!CT!Ack(c)
        BY DEF Rewound!Ack, Large!CT!Ack, Rewound!Acknowledged, Large!CT!Acknowledged,
       Rewound!Idle, Large!CT!Idle
    <3>24. \A c : Rewound!Break(c) <=> Large!CT!Break(c)
        BY DEF Rewound!Break, Large!CT!Break, Rewound!Idle, Large!CT!Idle, Rewound!board,
       Large!CT!board
    <3>25. \A c : Rewound!Phase(c) <=> Large!CT!Phase(c)
        BY <3>19, <3>21, <3>22, <3>23 DEF Rewound!Phase, Large!CT!Phase
    <3> QED
        BY <3>7, <3>10, <3>8, <3>9, <3>12, <3>14, <3>16, <3>17, <3>18, <3>25, <3>24 DEF Rewound!Next, Large!CT!Next, Rewound!Boards, Large!CT!Boards, Rewound!Children,
       Large!CT!Children
  <2>2. UNCHANGED catalogs => UNCHANGED Large!CT!vars
      BY DEF catalogs, Large!CT!vars, Large!CT!board
  <2> QED
      BY <2>1, <2>2 DEF AllNext, all
<1>3. [AllNext]_all /\ part = "restored catalog" => (part = "restored catalog")'
    BY DEF AllNext, all, OnlyCatalogs
<1>4. [AllNext]_all /\ ~(part = "restored catalog") => (~(part = "restored catalog"))'
    BY DEF AllNext, all, OnlyLinks, OnlyLine, OnlyFiles, OnlyRequests, OnlyControls, OnlyCatalogs
<1> QED
    BY <1>1, <1>2, <1>3, <1>4, PTL DEF AllSpec, Large!CT!Spec

-----------------------------------------------------------------------------
(***************************************************************************)
(* The promises of the services.                                           *)
(***************************************************************************)

\* Subscription requests keep their whole promise for any values of their constants
\* (circuitnet_receive_control, circuitnet_control_result).
THEOREM RequestsApplyOnceHolds == Spec => RequestsApplyOnce
<1>1. Large!CC!ControlAssumption
    <2>1. ControlAssumption
        BY AssumptionsHold DEF AssumptionsHold
    <2> QED
        BY <2>1 DEF ControlAssumption, Large!CC!ControlAssumption, Ops, Large!CC!Ops, Outgoing,
       Large!CC!Outgoing, Incoming, Large!CC!Incoming, Result, Large!CC!Result, Outcomes,
       Large!CC!Outcomes, Terminal, Large!CC!Terminal
<1>2. Init => Large!CC!Init
    BY DEF Init, Large!CC!Init, Idle, Large!CC!Idle
<1>3. [Next]_vars => [Large!CC!Next]_(Large!CC!vars)
    BY DEF Next, Large!CC!Next, vars, Large!CC!vars, Request, Large!CC!Request, Retry,
       Large!CC!Retry, Decide, Large!CC!Decide, SetPolicy, Large!CC!SetPolicy, Subscribe,
       Large!CC!Subscribe, Map, Large!CC!Map, Exchange, Large!CC!Exchange, Break,
       Large!CC!Break, Save, Large!CC!Save, Restore, Large!CC!Restore, New, Large!CC!New,
       Says, Large!CC!Says, Edit, Large!CC!Edit, Decidable, Large!CC!Decidable, Answered,
       Large!CC!Answered, Outcome, Large!CC!Outcome, Idle, Large!CC!Idle, Start,
       Large!CC!Start, Return, Large!CC!Return, Receive, Large!CC!Receive, Persist,
       Large!CC!Persist, Wants, Large!CC!Wants, Pending, Large!CC!Pending, Known,
       Large!CC!Known, FirstOutcome, Large!CC!FirstOutcome, First, Large!CC!First,
       Conflict, Large!CC!Conflict, Terminal, Large!CC!Terminal, ToEnd, Large!CC!ToEnd,
       Unsettled, Large!CC!Unsettled, Cardinality, Large!CC!Cardinality, Before,
       Large!CC!Before, RemoveAt, Large!CC!RemoveAt
<1>4. Spec => Large!CC!Spec
    BY <1>2, <1>3, PTL DEF Spec, Large!CC!Spec
<1>5. Spec => Large!CC!RequestsApplyOnce
    BY <1>1, <1>4, Large!RequestsApplyOnceHolds
<1>6. /\ Large!CC!TypeOK => TypeOK
      /\ Large!CC!AppliedOnce => AppliedOnce
      /\ Large!CC!ResultsAgree => ResultsAgree
    BY DEF TypeOK, Large!CC!TypeOK, AppliedOnce, Large!CC!AppliedOnce, ResultsAgree,
       Large!CC!ResultsAgree, Child, Large!CC!Child, Parent, Large!CC!Parent,
       Cardinality, Large!CC!Cardinality, Result, Large!CC!Result, ToSet, Large!CC!ToSet,
       Terminal, Large!CC!Terminal, Outgoing, Large!CC!Outgoing, Incoming,
       Large!CC!Incoming, Outcomes, Large!CC!Outcomes, Ops, Large!CC!Ops
<1>7. [Large!CC!TerminalStays]_(Large!CC!vars) => [TerminalStays]_vars
    BY DEF TerminalStays, Large!CC!TerminalStays, vars, Large!CC!vars, Restore,
       Large!CC!Restore, Terminal, Large!CC!Terminal, Edit, Large!CC!Edit, Idle,
       Large!CC!Idle
<1> QED
    BY <1>5, <1>6, <1>7, PTL DEF RequestsApplyOnce, Large!CC!RequestsApplyOnce

\* The links keep their whole promise, for boards that poll each other and for one whose
\* policy changes while it tries (Permit, exchange, record_health).
THEOREM OneWholeSessionHolds == AllSpec => OneWholeSession
<1>1. Small!LinkAssumption
    <2>1. Crossing!LinkAssumption
        BY AssumptionsHold DEF AssumptionsHold
    <2> QED
        BY <2>1 DEF Crossing!LinkAssumption, Small!LinkAssumption
<1>2. Large!LinkAssumption
    <2>1. Policy!LinkAssumption
        BY AssumptionsHold DEF AssumptionsHold
    <2> QED
        BY <2>1 DEF Policy!LinkAssumption, Large!LinkAssumption
<1>3. Small!Spec => []Small!TypeOK /\ []Small!OneSession /\ [][Small!SuccessIsKept]_(Small!vars)
    BY <1>1, Small!TypeCorrect, Small!OneSessionHolds, Small!SuccessIsKeptHolds, PTL
<1>4. Large!Spec => []Large!TypeOK /\ []Large!OneSession /\ []Large!SuccessIsWhole
    BY <1>2, Large!TypeCorrect, Large!OneSessionHolds, Large!SuccessIsWholeHolds, PTL
<1>5. Small!TypeOK /\ Small!OneSession => Crossing!TypeOK /\ Crossing!OneSession
    BY DEF Crossing!TypeOK, Small!TypeOK, Crossing!OneSession, Small!OneSession,
       Crossing!Permits, Small!Permits, Crossing!Sessions, Small!Sessions,
       Crossing!Links, Small!Links, Crossing!Batches, Small!Batches,
       Crossing!Cardinality, Small!Cardinality, Crossing!Polling, Small!Polling,
       Crossing!Live, Small!Live, Crossing!Bound, Small!Bound
<1>6. Large!TypeOK /\ Large!OneSession /\ Large!SuccessIsWhole
        => Policy!TypeOK /\ Policy!OneSession /\ Policy!SuccessIsWhole
    BY DEF Policy!TypeOK, Large!TypeOK, Policy!OneSession, Large!OneSession,
       Policy!SuccessIsWhole, Large!SuccessIsWhole, Policy!Permits, Large!Permits,
       Policy!Sessions, Large!Sessions, Policy!Links, Large!Links, Policy!Batches,
       Large!Batches, Policy!Wire, Large!Wire, Policy!Cardinality, Large!Cardinality,
       Policy!Polling, Large!Polling, Policy!Live, Large!Live, Policy!Bound, Large!Bound,
       Policy!Current, Large!Current
<1>7. [AllNext]_all /\ part = "crossing polls" /\ [Small!SuccessIsKept]_(Small!vars)
        => [part = "crossing polls" => Crossing!SuccessIsKept]_all
    BY DEF AllNext, all, OnlyLinks, links, Crossing!SuccessIsKept, Small!SuccessIsKept, Small!vars
<1>8. [AllNext]_all /\ ~(part = "crossing polls") => [part = "crossing polls" => Crossing!SuccessIsKept]_all
    OBVIOUS
<1>9. AllSpec => [][AllNext]_all
    BY PTL DEF AllSpec
<1> QED
    BY <1>3, <1>4, <1>5, <1>6, <1>7, <1>8, <1>9, CrossingBehaves, PolicyBehaves, PTL DEF OneWholeSession

\* Files keep their whole promise, between two boards that repeat their offers and along
\* three boards whose both ends have the file (circuitnet_file_record,
\* circuitnet_files_prepare).
THEOREM FilesPassEveryHandHolds == AllSpec => []FilesPassEveryHand
<1>1. Small!CF!FilesAssumption
    <2>1. Receipts!FilesAssumption
        BY AssumptionsHold DEF AssumptionsHold
    <2> QED
        BY <2>1 DEF Receipts!FilesAssumption, Small!CF!FilesAssumption, Receipts!Outcomes,
       Small!CF!Outcomes, Receipts!Publication, Small!CF!Publication, Receipts!Delivery,
       Small!CF!Delivery, Receipts!Boards, Small!CF!Boards, Receipts!Statuses,
       Small!CF!Statuses
<1>2. Large!CF!FilesAssumption
    <2>1. Transit!FilesAssumption
        BY AssumptionsHold DEF AssumptionsHold
    <2> QED
        BY <2>1 DEF Transit!FilesAssumption, Large!CF!FilesAssumption, Transit!Outcomes,
       Large!CF!Outcomes, Transit!Publication, Large!CF!Publication, Transit!Delivery,
       Large!CF!Delivery, Transit!Boards, Large!CF!Boards, Transit!Statuses,
       Large!CF!Statuses
<1>3. Small!CF!Spec => []Small!CF!TypeOK /\ []Small!CF!ReceiptsAgree
    BY <1>1, Small!FileTypeCorrect, Small!ReceiptsAgreeHolds, PTL
<1>4. Large!CF!Spec => []Large!CF!TypeOK /\ []Large!CF!OriginIsLocal /\ []Large!CF!EachHandHasFiledIt
    BY <1>2, Large!FileTypeCorrect, Large!OriginIsLocalHolds, Large!EachHandHasFiledItHolds, PTL
<1>5. Small!CF!TypeOK /\ Small!CF!ReceiptsAgree => Receipts!TypeOK /\ Receipts!ReceiptsAgree
    BY DEF Receipts!TypeOK, Small!CF!TypeOK, Receipts!ReceiptsAgree, Small!CF!ReceiptsAgree,
       Receipts!Boards, Small!CF!Boards, Receipts!Statuses, Small!CF!Statuses,
       Receipts!Ids, Small!CF!Ids, Receipts!Publication, Small!CF!Publication,
       Receipts!Links, Small!CF!Links, Receipts!Delivery, Small!CF!Delivery,
       Receipts!Places, Small!CF!Places, Receipts!Outcomes, Small!CF!Outcomes
<1>6. Large!CF!TypeOK /\ Large!CF!OriginIsLocal /\ Large!CF!EachHandHasFiledIt
        => Transit!TypeOK /\ Transit!OriginIsLocal /\ Transit!EachHandHasFiledIt
    BY DEF Transit!TypeOK, Large!CF!TypeOK, Transit!OriginIsLocal, Large!CF!OriginIsLocal,
       Transit!EachHandHasFiledIt, Large!CF!EachHandHasFiledIt, Transit!Boards,
       Large!CF!Boards, Transit!Statuses, Large!CF!Statuses, Transit!Ids, Large!CF!Ids,
       Transit!Publication, Large!CF!Publication, Transit!Links, Large!CF!Links,
       Transit!Delivery, Large!CF!Delivery, Transit!Places, Large!CF!Places,
       Transit!Outcomes, Large!CF!Outcomes, Transit!File, Large!CF!File, Transit!Path,
       Large!CF!Path
<1>7. (part = "file receipts" => Receipts!TypeOK /\ Receipts!ReceiptsAgree)
      /\ (part = "files in transit" =>
            Transit!TypeOK /\ Transit!OriginIsLocal /\ Transit!EachHandHasFiledIt)
      => FilesPassEveryHand
    BY DEF FilesPassEveryHand
<1> QED
    BY <1>3, <1>4, <1>5, <1>6, <1>7, ReceiptsBehave, TransitBehaves, PTL

\* Restores keep what they promise: a restored board sends nothing unlooked at, what was
\* accepted is forgotten only in the receiver's own restore, and a parent that forgot
\* answers nothing that its child has on record otherwise (hold_restored_circuitnet,
\* circuitnet_import_inner, circuitnet_control_result).
THEOREM RestoreIsAccountedForHolds == AllSpec => RestoreIsAccountedFor
<1>1. Small!CR!LineAssumption
    <2>1. Line!LineAssumption
        BY AssumptionsHold DEF AssumptionsHold
    <2> QED
        BY <2>1 DEF Line!LineAssumption, Small!CR!LineAssumption
<1>2. Small!CC!ControlAssumption
    <2>1. Forgotten!ControlAssumption
        BY AssumptionsHold DEF AssumptionsHold
    <2> QED
        BY <2>1 DEF Forgotten!ControlAssumption, Small!CC!ControlAssumption, Forgotten!Ops,
       Small!CC!Ops, Forgotten!Outgoing, Small!CC!Outgoing, Forgotten!Incoming,
       Small!CC!Incoming, Forgotten!Result, Small!CC!Result, Forgotten!Outcomes,
       Small!CC!Outcomes, Forgotten!Terminal, Small!CC!Terminal
<1> DEFINE Kept == Small!CR!TypeOK /\ Small!CR!RestoredIsReviewed
                   /\ Small!CR!OnlyRestoreLoses /\ Small!CR!SecondNameNeedsRestore
<1>3. Small!CR!Spec => []Kept
    BY <1>1, Small!RestoreHolds, PTL
<1>4. Small!CC!Spec => Small!CC!RequestsApplyOnce
    BY <1>2, Small!RequestsApplyOnceHolds
<1>5. Small!CC!Spec => [](Small!CC!TypeOK /\ Small!CC!AppliedOnce)
                       /\ [][Small!CC!TerminalStays]_(Small!CC!vars)
    BY <1>4, PTL DEF Small!CC!RequestsApplyOnce
<1>6. Kept => /\ Line!TypeOK /\ Line!RestoredIsReviewed
              /\ Line!OnlyRestoreLoses /\ Line!SecondNameNeedsRestore
    BY DEF Line!TypeOK, Small!CR!TypeOK, Line!RestoredIsReviewed,
       Small!CR!RestoredIsReviewed, Line!OnlyRestoreLoses, Small!CR!OnlyRestoreLoses,
       Line!SecondNameNeedsRestore, Small!CR!SecondNameNeedsRestore, Line!Boards,
       Small!CR!Boards, Line!Database, Small!CR!Database, Line!Batches, Small!CR!Batches,
       Line!Row, Small!CR!Row, Line!States, Small!CR!States, Line!Terminal,
       Small!CR!Terminal
<1>7. Small!CC!TypeOK /\ Small!CC!AppliedOnce => Forgotten!TypeOK /\ Forgotten!AppliedOnce
    BY DEF Forgotten!TypeOK, Small!CC!TypeOK, Forgotten!AppliedOnce, Small!CC!AppliedOnce,
       Forgotten!Child, Small!CC!Child, Forgotten!Parent, Small!CC!Parent,
       Forgotten!Cardinality, Small!CC!Cardinality, Forgotten!Result, Small!CC!Result,
       Forgotten!ToSet, Small!CC!ToSet, Forgotten!Terminal, Small!CC!Terminal,
       Forgotten!Outgoing, Small!CC!Outgoing, Forgotten!Incoming, Small!CC!Incoming,
       Forgotten!Outcomes, Small!CC!Outcomes, Forgotten!Ops, Small!CC!Ops
<1>8. Small!CC!TerminalStays => Forgotten!TerminalStays
    BY DEF Forgotten!TerminalStays, Small!CC!TerminalStays, Forgotten!Restore,
       Small!CC!Restore, Forgotten!Terminal, Small!CC!Terminal, Forgotten!Edit,
       Small!CC!Edit, Forgotten!Idle, Small!CC!Idle
<1> HIDE DEF Kept
<1>9. [AllNext]_all /\ part = "restored parent" /\ [Small!CC!TerminalStays]_(Small!CC!vars)
        => [part = "restored parent" => Forgotten!TerminalStays]_all
    BY <1>8 DEF AllNext, all, OnlyControls, controls, Small!CC!vars
<1>10. [AllNext]_all /\ ~(part = "restored parent")
        => [part = "restored parent" => Forgotten!TerminalStays]_all
    OBVIOUS
<1>11. AllSpec => [][AllNext]_all
    BY PTL DEF AllSpec
<1>12. AllSpec => [](part = "restored board" =>
            /\ Line!TypeOK /\ Line!RestoredIsReviewed
            /\ Line!OnlyRestoreLoses /\ Line!SecondNameNeedsRestore)
    BY <1>3, <1>6, LineBehaves, PTL
<1>13. AllSpec => [](part = "restored parent" => Forgotten!TypeOK /\ Forgotten!AppliedOnce)
    BY <1>5, <1>7, ForgottenBehaves, PTL
<1>14. AllSpec => [][part = "restored parent" => Forgotten!TerminalStays]_all
    BY <1>5, <1>9, <1>10, <1>11, ForgottenBehaves, PTL
<1> QED
    BY <1>12, <1>13, <1>14, PTL DEF RestoreIsAccountedFor

\* A board keeps one history, through key changes and through restores: it verifies, is not
\* rewound short of a rebuild, and a parent does not believe its child further than it is
\* (Signed::follows, circuitnet_catalog_receive, circuitnet_catalog_peer,
\* circuitnet_catalog_check_restore).
THEOREM CatalogIsOneHistoryHolds == AllSpec => CatalogIsOneHistory
<1>1. Small!CT!CatalogAssumption
    <2>1. Keys!CatalogAssumption
        BY AssumptionsHold DEF AssumptionsHold
    <2> QED
        BY <2>1 DEF Keys!CatalogAssumption, Small!CT!CatalogAssumption
<1>2. Large!CT!CatalogAssumption
    <2>1. Rewound!CatalogAssumption
        BY AssumptionsHold DEF AssumptionsHold
    <2> QED
        BY <2>1 DEF Rewound!CatalogAssumption, Large!CT!CatalogAssumption
<1>3. {1} \cap Large!CT!Children = {}
    BY DEF Large!CT!Children
<1> DEFINE Kept == Small!CT!TypeOK /\ Small!CT!WholeHistory /\ Small!CT!HistoryVerifies
                   /\ Small!CT!RoutingIsAdmitted
<1>4. Small!CT!Spec => []Kept
    BY <1>1, Small!OneHistoryHolds, PTL
<1>5. Large!CT!Spec => [](Large!CT!TypeOK /\ Large!CT!WholeHistory /\ Large!CT!HistoryVerifies
                         /\ Large!CT!RoutingIsAdmitted)
    BY <1>2, Large!OneHistoryHolds, PTL
<1>6. Large!CT!Spec => [][Large!CT!HistoryStays]_(Large!CT!vars)
    BY <1>2, Large!HistoryStaysHolds, PTL
<1>7. Large!CT!Spec => []Large!CT!PeerNotAhead
    BY <1>2, <1>3, Large!PeerNotAheadHolds, PTL
<1>8. Kept => Keys!TypeOK /\ Keys!WholeHistory /\ Keys!HistoryVerifies /\ Keys!RoutingIsAdmitted
    BY DEF Keys!TypeOK, Small!CT!TypeOK, Keys!WholeHistory, Small!CT!WholeHistory,
       Keys!HistoryVerifies, Small!CT!HistoryVerifies, Keys!RoutingIsAdmitted,
       Small!CT!RoutingIsAdmitted, Keys!Boards, Small!CT!Boards, Keys!Revision,
       Small!CT!Revision, Keys!Epoch, Small!CT!Epoch, Keys!Children, Small!CT!Children,
       Keys!AuthorityAt, Small!CT!AuthorityAt
<1>9. Large!CT!WholeHistory /\ Large!CT!PeerNotAhead => Rewound!WholeHistory /\ Rewound!PeerNotAhead
    BY DEF Rewound!WholeHistory, Large!CT!WholeHistory, Rewound!PeerNotAhead,
       Large!CT!PeerNotAhead, Rewound!Boards, Large!CT!Boards, Rewound!Children,
       Large!CT!Children
<1>10. Large!CT!HistoryStays => Rewound!HistoryStays
    BY DEF Rewound!HistoryStays, Large!CT!HistoryStays, Rewound!Boards, Large!CT!Boards,
       Rewound!Rebuild, Large!CT!Rebuild, Rewound!IsPrefixOf, Large!CT!IsPrefixOf,
       Rewound!Stopped, Large!CT!Stopped, Rewound!Becomes, Large!CT!Becomes,
       Rewound!Fresh, Large!CT!Fresh, Rewound!Children, Large!CT!Children
<1> HIDE DEF Kept
<1>11. [AllNext]_all /\ part = "restored catalog" /\ [Large!CT!HistoryStays]_(Large!CT!vars)
        => [part = "restored catalog" => Rewound!HistoryStays]_all
    BY <1>10 DEF AllNext, all, OnlyCatalogs, catalogs, Large!CT!vars, Large!CT!board
<1>12. [AllNext]_all /\ ~(part = "restored catalog")
        => [part = "restored catalog" => Rewound!HistoryStays]_all
    OBVIOUS
<1>13. AllSpec => [][AllNext]_all
    BY PTL DEF AllSpec
<1>14. AllSpec => [](part = "key changes" =>
            Keys!TypeOK /\ Keys!WholeHistory /\ Keys!HistoryVerifies /\ Keys!RoutingIsAdmitted)
    BY <1>4, <1>8, KeysBehaves, PTL
<1>15. AllSpec => [](part = "restored catalog" => Rewound!WholeHistory /\ Rewound!PeerNotAhead)
    BY <1>5, <1>7, <1>9, RewoundBehaves, PTL
<1>16. AllSpec => [][part = "restored catalog" => Rewound!HistoryStays]_all
    BY <1>6, <1>11, <1>12, <1>13, RewoundBehaves, PTL
<1> QED
    BY <1>14, <1>15, <1>16, PTL DEF CatalogIsOneHistory
=============================================================================
