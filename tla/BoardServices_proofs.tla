------------------------- MODULE BoardServices_proofs -------------------------
(***************************************************************************)
(* Proofs about the board's services as the run explores them.  What is    *)
(* proved of the components for any values of their constants              *)
(* (BoardParts_proofs) holds of the instances side by side, and the        *)
(* promises follow from it.                                                *)
(***************************************************************************)
EXTENDS MCBoardServices, TLAPS

First == INSTANCE BoardParts_proofs WITH
    Sessions <- {s}, Owners <- {o}, MaxInteractions <- 2, Capacity <- 1, MaxHandoffs <- 1,
    slot <- hubSlot, cur <- hubCur,
    SaveFaults <- MaxFaults, FileEdits <- MaxEdits,
    FileNames <- {n1}, Contents <- {p1, p2}, Uploaders <- {u1}, Network <- net,
    FileTool <- con, Verdicts <- Scanned, RecoversOps <- FALSE,
    FileCommands <- {"import", "rescan", "review", "policy"}, AreaCrashes <- 1,
    AreaFaults <- 1, Partial <- partial
Second == INSTANCE BoardParts_proofs WITH
    Sessions <- {s}, Owners <- {o}, MaxInteractions <- 2, Capacity <- 1, MaxHandoffs <- 1,
    slot <- hubSlot, cur <- hubCur,
    Commands <- {c1, c2}, Revoking <- {}, MaxGenerations <- 2, SaveFaults <- 1,
    FileEdits <- 1, Accidents <- {},
    FileNames <- {n1}, Contents <- {p1, p2}, Uploaders <- {u1}, Network <- net,
    FileTool <- con, Verdicts <- Scanned, RecoversOps <- TRUE,
    FileCommands <- {"rescan", "import"}, AreaCrashes <- 2,
    AreaFaults <- 0, Partial <- partial
Third == INSTANCE BoardParts_proofs WITH
    Sessions <- {s}, Owners <- {o}, MaxInteractions <- 2, Capacity <- 1, MaxHandoffs <- 1,
    slot <- hubSlot, cur <- hubCur,
    SaveFaults <- MaxFaults, FileEdits <- MaxEdits,
    FileNames <- {n1}, Contents <- {p1, p2}, Uploaders <- {}, Network <- net,
    FileTool <- con, Verdicts <- Unsure, RecoversOps <- FALSE,
    FileCommands <- {"import", "rescan", "review", "policy"}, AreaCrashes <- 2,
    AreaFaults <- 1, Partial <- partial

-----------------------------------------------------------------------------
(***************************************************************************)
(* A behaviour is about one component, and that component's own.           *)
(***************************************************************************)

\* A caller and an operator talk.
LEMMA ChatBehaves ==
    AllSpec => []~(part = "chat") \/ ([](part = "chat") /\ First!Spec)
<1>1. AllInit /\ part = "chat" => First!Init
    BY DEF AllInit, Chat!Init, First!Init, Chat!NoSlot, First!NoSlot, Chat!Ids, First!Ids
<1>2. [AllNext]_all /\ part = "chat" => [First!Next]_(First!vars)
  <2>1. Chat!Next => First!Next
      BY DEF Chat!Next, First!Next, Chat!Operators, First!Operators, Chat!Streams,
       First!Streams, Chat!Caller, First!Caller, Chat!SetAvailability,
       First!SetAvailability, Chat!SetPolicy, First!SetPolicy, Chat!RequestDisconnect,
       First!RequestDisconnect, Chat!Decline, First!Decline, Chat!ConsoleAnswer,
       First!ConsoleAnswer, Chat!Handoffs, First!Handoffs, Chat!AnswerCallerPage,
       First!AnswerCallerPage, Chat!InviteOperatorChat, First!InviteOperatorChat,
       Chat!SweepOnly, First!SweepOnly, Chat!Detach, First!Detach, Chat!EndAttachment,
       First!EndAttachment, Chat!Ids, First!Ids, Chat!Redeem, First!Redeem,
       Chat!StreamLeaves, First!StreamLeaves, Chat!StreamNotices, First!StreamNotices,
       Chat!OperatorGone, First!OperatorGone, Chat!OperatorSends, First!OperatorSends,
       Chat!OperatorReads, First!OperatorReads, Chat!Page, First!Page, Chat!PageAnswered,
       First!PageAnswered, Chat!PageDropped, First!PageDropped, Chat!PageTimesOut,
       First!PageTimesOut, Chat!Withdraw, First!Withdraw, Chat!Prompt, First!Prompt,
       Chat!DeclineInvitation, First!DeclineInvitation, Chat!Authorize, First!Authorize,
       Chat!AcceptInvitation, First!AcceptInvitation, Chat!InvitationRefused,
       First!InvitationRefused, Chat!CallerReceives, First!CallerReceives,
       Chat!CallerNotices, First!CallerNotices, Chat!CallerLeaves, First!CallerLeaves,
       Chat!CallerSends, First!CallerSends, Chat!Cancelled, First!Cancelled,
       Chat!CallerGone, First!CallerGone, Chat!Hangup, First!Hangup, Chat!SessionEnded,
       First!SessionEnded, Chat!Release, First!Release, Chat!NoSlot, First!NoSlot,
       Chat!TrySend, First!TrySend, Chat!ends, First!ends, Chat!callers, First!callers,
       Chat!hub, First!hub, Chat!channels, First!channels, Chat!Live, First!Live,
       Chat!Occupied, First!Occupied, Chat!TellCaller, First!TellCaller, Chat!Answerable,
       First!Answerable, Chat!Answer, First!Answer, Chat!RoomFor, First!RoomFor,
       Chat!Expire, First!Expire, Chat!CloseChat, First!CloseChat, Chat!Contains,
       First!Contains, Chat!Speaker, First!Speaker, Chat!Go, First!Go, Chat!Done,
       First!Done, Chat!Disconnected, First!Disconnected, Chat!RemoveSlot,
       First!RemoveSlot, Chat!InvitedTo, First!InvitedTo, Chat!ChatIsOver,
       First!ChatIsOver, Chat!LeaveChat, First!LeaveChat, Chat!TellOperator,
       First!TellOperator, Chat!CallerEnd, First!CallerEnd, Chat!Cardinality,
       First!Cardinality, Chat!Alive, First!Alive, Chat!CallerHolds, First!CallerHolds
  <2>2. UNCHANGED hub => UNCHANGED First!vars
      BY DEF hub, First!vars, First!hub, First!ends, First!channels, First!callers
  <2> QED
      BY <2>1, <2>2 DEF AllNext, all
<1>3. [AllNext]_all /\ part = "chat" => (part = "chat")'
    BY DEF AllNext, all, OnlyHub
<1>4. [AllNext]_all /\ ~(part = "chat") => (~(part = "chat"))'
    BY DEF AllNext, all, OnlyHub, OnlySaves, OnlyEvents, OnlyTimes, OnlyArea_files, OnlyDeployment
<1> QED
    BY <1>1, <1>2, <1>3, <1>4, PTL DEF AllSpec, First!Spec

\* Two commands save at once.
LEMMA CompetingSavesBehave ==
    AllSpec => []~(part = "competing saves") \/ ([](part = "competing saves") /\ Second!CM!Spec)
<1>1. AllInit /\ part = "competing saves" => Second!CM!Init
    BY DEF AllInit, Compete!Init, Second!CM!Init, Compete!InitialFile, Second!CM!InitialFile
<1>2. [AllNext]_all /\ part = "competing saves" => [Second!CM!Next]_(Second!CM!vars)
  <2>1. Compete!Next => Second!CM!Next
      BY DEF Compete!Next, Second!CM!Next, Compete!Start, Second!CM!Start, Compete!Crash,
       Second!CM!Crash, Compete!PowerLoss, Second!CM!PowerLoss, Compete!WriteBack,
       Second!CM!WriteBack, Compete!Snapshot, Second!CM!Snapshot, Compete!Enter,
       Second!CM!Enter, Compete!Step, Second!CM!Step, Compete!Fails, Second!CM!Fails,
       Compete!AdminSave, Second!CM!AdminSave, Compete!ManualEdit, Second!CM!ManualEdit,
       Compete!LinkFails, Second!CM!LinkFails, Compete!disk, Second!CM!disk,
       Compete!journal, Second!CM!journal, Compete!client, Second!CM!client, Compete!Die,
       Second!CM!Die, Compete!memory, Second!CM!memory, Compete!Version,
       Second!CM!Version, Compete!Finish, Second!CM!Finish, Compete!Reject,
       Second!CM!Reject, Compete!Authorize, Second!CM!Authorize, Compete!Accept,
       Second!CM!Accept, Compete!Refuse, Second!CM!Refuse, Compete!Validate,
       Second!CM!Validate, Compete!SavePrevious, Second!CM!SavePrevious, Compete!Replace,
       Second!CM!Replace, Compete!Publish, Second!CM!Publish, Compete!SyncParent,
       Second!CM!SyncParent, Compete!Settle, Second!CM!Settle, Compete!Settled,
       Second!CM!Settled, Compete!Opening, Second!CM!Opening, Compete!Leave,
       Second!CM!Leave, Compete!LinkProves, Second!CM!LinkProves, Compete!FinishLinked,
       Second!CM!FinishLinked, Compete!Continue, Second!CM!Continue,
       Compete!RejectUncommitted, Second!CM!RejectUncommitted, Compete!Granted,
       Second!CM!Granted, Compete!Current, Second!CM!Current, Compete!Written,
       Second!CM!Written, Compete!NextPublished, Second!CM!NextPublished
  <2>2. UNCHANGED vars => UNCHANGED Second!CM!vars
      BY DEF Second!CM!vars, Second!CM!disk, Second!CM!journal, Second!CM!memory, Second!CM!client, vars, disk, journal, memory, client
  <2> QED
      BY <2>1, <2>2 DEF AllNext, all
<1>3. [AllNext]_all /\ part = "competing saves" => (part = "competing saves")'
    BY DEF AllNext, all, OnlySaves
<1>4. [AllNext]_all /\ ~(part = "competing saves") => (~(part = "competing saves"))'
    BY DEF AllNext, all, OnlyHub, OnlySaves, OnlyEvents, OnlyTimes, OnlyArea_files, OnlyDeployment
<1> QED
    BY <1>1, <1>2, <1>3, <1>4, PTL DEF AllSpec, Second!CM!Spec

\* A caller uploads, and the network and the operator import.
LEMMA AdmissionBehaves ==
    AllSpec => []~(part = "admission") \/ ([](part = "admission") /\ First!FC!Spec)
<1>1. AllInit /\ part = "admission" => First!FC!Init
    BY DEF AllInit, Admission!Init, First!FC!Init, Admission!Workers, First!FC!Workers,
       Admission!Idle, First!FC!Idle
<1>2. [AllNext]_all /\ part = "admission" => [First!FC!Next]_(First!FC!vars)
  <2>1. Admission!Next => First!FC!Next
      BY DEF Admission!Next, First!FC!Next, Admission!Workers, First!FC!Workers,
       Admission!Step, First!FC!Step, Admission!GiveUp, First!FC!GiveUp,
       Admission!Arrive, First!FC!Arrive, Admission!Operator, First!FC!Operator,
       Admission!LeaseExpires, First!FC!LeaseExpires, Admission!Crash, First!FC!Crash,
       Admission!Stop, First!FC!Stop, Admission!Start, First!FC!Start, Admission!Operate,
       First!FC!Operate, Admission!Create, First!FC!Create, Admission!Copy,
       First!FC!Copy, Admission!Mark, First!FC!Mark, Admission!InsertRow,
       First!FC!InsertRow, Admission!Complete, First!FC!Complete, Admission!Admit,
       First!FC!Admit, Admission!Link, First!FC!Link, Admission!Lookup, First!FC!Lookup,
       Admission!Alias, First!FC!Alias, Admission!Begin, First!FC!Begin,
       Admission!Inspect, First!FC!Inspect, Admission!Report, First!FC!Report,
       Admission!Decide, First!FC!Decide, Admission!Running, First!FC!Running,
       Admission!Abandon, First!FC!Abandon, Admission!Import, First!FC!Import,
       Admission!Upload, First!FC!Upload, Admission!SetPolicy, First!FC!SetPolicy,
       Admission!Rescan, First!FC!Rescan, Admission!Review, First!FC!Review,
       Admission!Recover, First!FC!Recover, Admission!files, First!FC!files,
       Admission!At, First!FC!At, Admission!operations, First!FC!operations,
       Admission!Name, First!FC!Name, Admission!Goto, First!FC!Goto, Admission!Done,
       First!FC!Done, Admission!Vacant, First!FC!Vacant, Admission!Close, First!FC!Close,
       Admission!Insert, First!FC!Insert, Admission!Readmit, First!FC!Readmit,
       Admission!WhileInspected, First!FC!WhileInspected, Admission!Status,
       First!FC!Status, Admission!Decision, First!FC!Decision, Admission!Left,
       First!FC!Left, Admission!Gone, First!FC!Gone, Admission!Idle, First!FC!Idle,
       Admission!Job, First!FC!Job, Admission!Approvable, First!FC!Approvable,
       Admission!Free, First!FC!Free, Admission!NewRow, First!FC!NewRow,
       Admission!Withdrawn, First!FC!Withdrawn, Admission!Undecided, First!FC!Undecided,
       Admission!Life, First!FC!Life
  <2>2. UNCHANGED area_files => UNCHANGED First!FC!vars
      BY DEF area_files, First!FC!vars, First!FC!files, First!FC!operations
  <2> QED
      BY <2>1, <2>2 DEF AllNext, all
<1>3. [AllNext]_all /\ part = "admission" => (part = "admission")'
    BY DEF AllNext, all, OnlyArea_files
<1>4. [AllNext]_all /\ ~(part = "admission") => (~(part = "admission"))'
    BY DEF AllNext, all, OnlyHub, OnlySaves, OnlyEvents, OnlyTimes, OnlyArea_files, OnlyDeployment
<1> QED
    BY <1>1, <1>2, <1>3, <1>4, PTL DEF AllSpec, First!FC!Spec

\* Dead uploads are recovered.
LEMMA RecoveredBehaves ==
    AllSpec => []~(part = "recovered uploads") \/ ([](part = "recovered uploads") /\ Second!FC!Spec)
<1>1. AllInit /\ part = "recovered uploads" => Second!FC!Init
    BY DEF AllInit, Recovered!Init, Second!FC!Init, Recovered!Workers, Second!FC!Workers,
       Recovered!Idle, Second!FC!Idle
<1>2. [AllNext]_all /\ part = "recovered uploads" => [Second!FC!Next]_(Second!FC!vars)
  <2>1. Recovered!Next => Second!FC!Next
      BY DEF Recovered!Next, Second!FC!Next, Recovered!Workers, Second!FC!Workers,
       Recovered!Step, Second!FC!Step, Recovered!GiveUp, Second!FC!GiveUp,
       Recovered!Arrive, Second!FC!Arrive, Recovered!Operator, Second!FC!Operator,
       Recovered!LeaseExpires, Second!FC!LeaseExpires, Recovered!Crash, Second!FC!Crash,
       Recovered!Stop, Second!FC!Stop, Recovered!Start, Second!FC!Start,
       Recovered!Operate, Second!FC!Operate, Recovered!Create, Second!FC!Create,
       Recovered!Copy, Second!FC!Copy, Recovered!Mark, Second!FC!Mark,
       Recovered!InsertRow, Second!FC!InsertRow, Recovered!Complete, Second!FC!Complete,
       Recovered!Admit, Second!FC!Admit, Recovered!Link, Second!FC!Link,
       Recovered!Lookup, Second!FC!Lookup, Recovered!Alias, Second!FC!Alias,
       Recovered!Begin, Second!FC!Begin, Recovered!Inspect, Second!FC!Inspect,
       Recovered!Report, Second!FC!Report, Recovered!Decide, Second!FC!Decide,
       Recovered!Running, Second!FC!Running, Recovered!Abandon, Second!FC!Abandon,
       Recovered!Import, Second!FC!Import, Recovered!Upload, Second!FC!Upload,
       Recovered!SetPolicy, Second!FC!SetPolicy, Recovered!Rescan, Second!FC!Rescan,
       Recovered!Review, Second!FC!Review, Recovered!Recover, Second!FC!Recover,
       Recovered!files, Second!FC!files, Recovered!At, Second!FC!At,
       Recovered!operations, Second!FC!operations, Recovered!Name, Second!FC!Name,
       Recovered!Goto, Second!FC!Goto, Recovered!Done, Second!FC!Done, Recovered!Vacant,
       Second!FC!Vacant, Recovered!Close, Second!FC!Close, Recovered!Insert,
       Second!FC!Insert, Recovered!Readmit, Second!FC!Readmit, Recovered!WhileInspected,
       Second!FC!WhileInspected, Recovered!Status, Second!FC!Status, Recovered!Decision,
       Second!FC!Decision, Recovered!Left, Second!FC!Left, Recovered!Gone,
       Second!FC!Gone, Recovered!Idle, Second!FC!Idle, Recovered!Job, Second!FC!Job,
       Recovered!Approvable, Second!FC!Approvable, Recovered!Free, Second!FC!Free,
       Recovered!NewRow, Second!FC!NewRow, Recovered!Withdrawn, Second!FC!Withdrawn,
       Recovered!Undecided, Second!FC!Undecided, Recovered!Life, Second!FC!Life
  <2>2. UNCHANGED area_files => UNCHANGED Second!FC!vars
      BY DEF area_files, Second!FC!vars, Second!FC!files, Second!FC!operations
  <2> QED
      BY <2>1, <2>2 DEF AllNext, all
<1>3. [AllNext]_all /\ part = "recovered uploads" => (part = "recovered uploads")'
    BY DEF AllNext, all, OnlyArea_files
<1>4. [AllNext]_all /\ ~(part = "recovered uploads") => (~(part = "recovered uploads"))'
    BY DEF AllNext, all, OnlyHub, OnlySaves, OnlyEvents, OnlyTimes, OnlyArea_files, OnlyDeployment
<1> QED
    BY <1>1, <1>2, <1>3, <1>4, PTL DEF AllSpec, Second!FC!Spec

\* No caller uploads.
LEMMA ReportsBehave ==
    AllSpec => []~(part = "reports") \/ ([](part = "reports") /\ Third!FC!Spec)
<1>1. AllInit /\ part = "reports" => Third!FC!Init
    BY DEF AllInit, Reports!Init, Third!FC!Init, Reports!Workers, Third!FC!Workers, Reports!Idle,
       Third!FC!Idle
<1>2. [AllNext]_all /\ part = "reports" => [Third!FC!Next]_(Third!FC!vars)
  <2>1. Reports!Next => Third!FC!Next
      BY DEF Reports!Next, Third!FC!Next, Reports!Workers, Third!FC!Workers, Reports!Step,
       Third!FC!Step, Reports!GiveUp, Third!FC!GiveUp, Reports!Arrive, Third!FC!Arrive,
       Reports!Operator, Third!FC!Operator, Reports!LeaseExpires, Third!FC!LeaseExpires,
       Reports!Crash, Third!FC!Crash, Reports!Stop, Third!FC!Stop, Reports!Start,
       Third!FC!Start, Reports!Operate, Third!FC!Operate, Reports!Create,
       Third!FC!Create, Reports!Copy, Third!FC!Copy, Reports!Mark, Third!FC!Mark,
       Reports!InsertRow, Third!FC!InsertRow, Reports!Complete, Third!FC!Complete,
       Reports!Admit, Third!FC!Admit, Reports!Link, Third!FC!Link, Reports!Lookup,
       Third!FC!Lookup, Reports!Alias, Third!FC!Alias, Reports!Begin, Third!FC!Begin,
       Reports!Inspect, Third!FC!Inspect, Reports!Report, Third!FC!Report,
       Reports!Decide, Third!FC!Decide, Reports!Running, Third!FC!Running,
       Reports!Abandon, Third!FC!Abandon, Reports!Import, Third!FC!Import,
       Reports!Upload, Third!FC!Upload, Reports!SetPolicy, Third!FC!SetPolicy,
       Reports!Rescan, Third!FC!Rescan, Reports!Review, Third!FC!Review, Reports!Recover,
       Third!FC!Recover, Reports!files, Third!FC!files, Reports!At, Third!FC!At,
       Reports!operations, Third!FC!operations, Reports!Name, Third!FC!Name,
       Reports!Goto, Third!FC!Goto, Reports!Done, Third!FC!Done, Reports!Vacant,
       Third!FC!Vacant, Reports!Close, Third!FC!Close, Reports!Insert, Third!FC!Insert,
       Reports!Readmit, Third!FC!Readmit, Reports!WhileInspected,
       Third!FC!WhileInspected, Reports!Status, Third!FC!Status, Reports!Decision,
       Third!FC!Decision, Reports!Left, Third!FC!Left, Reports!Gone, Third!FC!Gone,
       Reports!Idle, Third!FC!Idle, Reports!Job, Third!FC!Job, Reports!Approvable,
       Third!FC!Approvable, Reports!Free, Third!FC!Free, Reports!NewRow, Third!FC!NewRow,
       Reports!Withdrawn, Third!FC!Withdrawn, Reports!Undecided, Third!FC!Undecided,
       Reports!Life, Third!FC!Life
  <2>2. UNCHANGED area_files => UNCHANGED Third!FC!vars
      BY DEF area_files, Third!FC!vars, Third!FC!files, Third!FC!operations
  <2> QED
      BY <2>1, <2>2 DEF AllNext, all
<1>3. [AllNext]_all /\ part = "reports" => (part = "reports")'
    BY DEF AllNext, all, OnlyArea_files
<1>4. [AllNext]_all /\ ~(part = "reports") => (~(part = "reports"))'
    BY DEF AllNext, all, OnlyHub, OnlySaves, OnlyEvents, OnlyTimes, OnlyArea_files, OnlyDeployment
<1> QED
    BY <1>1, <1>2, <1>3, <1>4, PTL DEF AllSpec, Third!FC!Spec

-----------------------------------------------------------------------------
(***************************************************************************)
(* The promises of the services.                                           *)
(***************************************************************************)

\* Saves keep their whole promise for any commands, generations, failures, edits and
\* accidents (apply, recover).
THEOREM SavesAreSettledHolds == Spec => SavesAreSettled
<1>1. First!CM!CommitAssumption
    <2>1. CommitAssumption
        BY AssumptionsHold DEF AssumptionsHold
    <2> QED
        BY <2>1 DEF CommitAssumption, First!CM!CommitAssumption, Versions, First!CM!Versions,
       Contents, First!CM!Contents
<1>2. Init => First!CM!Init
    BY DEF Init, First!CM!Init, InitialFile, First!CM!InitialFile
<1>3. [Next]_vars => [First!CM!Next]_(First!CM!vars)
    BY DEF Next, First!CM!Next, vars, First!CM!vars, Start, First!CM!Start, Crash,
       First!CM!Crash, PowerLoss, First!CM!PowerLoss, WriteBack, First!CM!WriteBack,
       Snapshot, First!CM!Snapshot, Enter, First!CM!Enter, Step, First!CM!Step, Fails,
       First!CM!Fails, AdminSave, First!CM!AdminSave, ManualEdit, First!CM!ManualEdit,
       disk, First!CM!disk, journal, First!CM!journal, memory, First!CM!memory, client,
       First!CM!client, LinkFails, First!CM!LinkFails, Die, First!CM!Die, Version,
       First!CM!Version, Finish, First!CM!Finish, Reject, First!CM!Reject, Authorize,
       First!CM!Authorize, Accept, First!CM!Accept, Refuse, First!CM!Refuse, Validate,
       First!CM!Validate, SavePrevious, First!CM!SavePrevious, Replace, First!CM!Replace,
       Publish, First!CM!Publish, SyncParent, First!CM!SyncParent, Settle,
       First!CM!Settle, Settled, First!CM!Settled, Opening, First!CM!Opening, Leave,
       First!CM!Leave, LinkProves, First!CM!LinkProves, FinishLinked,
       First!CM!FinishLinked, Continue, First!CM!Continue, RejectUncommitted,
       First!CM!RejectUncommitted, Granted, First!CM!Granted, Current, First!CM!Current,
       Written, First!CM!Written, NextPublished, First!CM!NextPublished
<1>4. Spec => First!CM!Spec
    BY <1>2, <1>3, PTL DEF Spec, First!CM!Spec
<1>5. Spec => First!CM!SavesAreSettled
    BY <1>1, <1>4, First!SavesAreSettledHolds
<1>6. First!CM!TypeOK /\ First!CM!RejectedIsNotStored /\ First!CM!PublishedIsStored
          /\ First!CM!RepliesAreSettled /\ First!CM!OldRowsAreSettled
        => TypeOK /\ RejectedIsNotStored /\ PublishedIsStored /\ RepliesAreSettled
           /\ OldRowsAreSettled
    BY DEF TypeOK, First!CM!TypeOK, RejectedIsNotStored, First!CM!RejectedIsNotStored,
       PublishedIsStored, First!CM!PublishedIsStored, RepliesAreSettled,
       First!CM!RepliesAreSettled, OldRowsAreSettled, First!CM!OldRowsAreSettled, File,
       First!CM!File, Versions, First!CM!Versions, Replies, First!CM!Replies, Opening,
       First!CM!Opening, Contents, First!CM!Contents, Links, First!CM!Links
<1>7. [First!CM!CompletionNeedsItsFile /\ First!CM!RevocationHolds]_(First!CM!vars)
        => [CompletionNeedsItsFile /\ RevocationHolds]_vars
    BY DEF CompletionNeedsItsFile, First!CM!CompletionNeedsItsFile, RevocationHolds,
       First!CM!RevocationHolds, vars, First!CM!vars, disk, First!CM!disk, journal,
       First!CM!journal, memory, First!CM!memory, client, First!CM!client
<1> QED
    BY <1>5, <1>6, <1>7, PTL DEF SavesAreSettled, First!CM!SavesAreSettled

\* Where two commands save, no update is lost: what ConfigurationCommit does for any
\* commands while nobody edits by hand or loses power is what the register does (apply,
\* configuration_version).
THEOREM NoSaveIsLostHolds == AllSpec => NoSaveIsLost
<1>1. Second!CM!CommitAssumption
    <2>1. Compete!CommitAssumption
        BY AssumptionsHold DEF AssumptionsHold
    <2> QED
        BY <2>1 DEF Compete!CommitAssumption, Second!CM!CommitAssumption, Compete!Versions,
       Second!CM!Versions, Compete!Contents, Second!CM!Contents
<1>2. Second!CM!Spec => Second!CM!Register!Init
        /\ [][Second!CM!Register!Next]_(Second!CM!Register!vars)
  <2>1. Second!CM!Spec => Second!CM!ImplementsRegister
      BY <1>1, Second!RegisterImplemented
  <2> QED
      BY <2>1, PTL DEF Second!CM!ImplementsRegister, Second!CM!Register!Spec
<1>3. Second!CM!Register!Init => Compete!Register!Init
    BY DEF Compete!Register!Init, Second!CM!Register!Init,
       Compete!Version, Second!CM!Version, Compete!Outcome, Second!CM!Outcome,
       Compete!LinkProves, Second!CM!LinkProves
<1>4. [Second!CM!Register!Next]_(Second!CM!Register!vars)
        => [Compete!Register!Next]_(Compete!Register!vars)
    BY DEF Compete!Register!Next, Second!CM!Register!Next, Compete!Register!vars,
       Second!CM!Register!vars, Compete!Register!Prepare, Second!CM!Register!Prepare,
       Compete!Register!Save, Second!CM!Register!Save, Compete!Register!Refuse,
       Second!CM!Register!Refuse, Compete!Register!Edit, Second!CM!Register!Edit,
       Compete!Version, Second!CM!Version, Compete!Outcome, Second!CM!Outcome,
       Compete!LinkProves, Second!CM!LinkProves
<1>5. [AllNext]_all /\ part = "competing saves" /\ [Compete!Register!Next]_(Compete!Register!vars)
        => [part = "competing saves" => [Compete!Register!Next]_(Compete!Register!vars)]_all
    OBVIOUS
<1>6. [AllNext]_all /\ ~(part = "competing saves")
        => [part = "competing saves" => [Compete!Register!Next]_(Compete!Register!vars)]_all
    OBVIOUS
<1>7. AllSpec => [][AllNext]_all
    BY PTL DEF AllSpec
<1> QED
    BY <1>2, <1>3, <1>4, <1>5, <1>6, <1>7, CompetingSavesBehave, PTL DEF NoSaveIsLost

\* Chat keeps its whole promise for any sessions, operators and bounds (InteractionHub,
\* answer, remove_slot).
THEOREM ChatIsConsentedHolds == AllSpec => ChatIsConsented
<1>1. First!HubAssumption
    <2>1. Chat!HubAssumption
        BY AssumptionsHold DEF AssumptionsHold
    <2> QED
        BY <2>1 DEF Chat!HubAssumption, First!HubAssumption
<1>2. First!Spec => []First!TypeOK /\ []First!SlotsAreHeld
        /\ [][First!ConsentIsExact /\ First!SlotsOutliveOldEnds]_(First!vars)
    BY <1>1, First!SlotsAreHeldHolds, First!ConsentAndOldEnds, PTL
<1>3. First!TypeOK /\ First!SlotsAreHeld => Chat!TypeOK /\ Chat!SlotsAreHeld
    BY DEF Chat!TypeOK, First!TypeOK, Chat!SlotsAreHeld, First!SlotsAreHeld, Chat!Slots,
       First!Slots, Chat!Ids, First!Ids, Chat!ChatPlace, First!ChatPlace,
       Chat!CallerPlace, First!CallerPlace, Chat!SlotIsHeld, First!SlotIsHeld,
       Chat!PageState, First!PageState, Chat!NoSlot, First!NoSlot, Chat!CallerHolds,
       First!CallerHolds, Chat!Alive, First!Alive
<1>4. [AllNext]_all /\ part = "chat" /\ [First!ConsentIsExact /\ First!SlotsOutliveOldEnds]_(First!vars)
        => [part = "chat" => Chat!ConsentIsExact /\ Chat!SlotsOutliveOldEnds]_all
    BY DEF AllNext, all, OnlyHub, hub, Chat!ConsentIsExact, First!ConsentIsExact, Chat!SlotsOutliveOldEnds,
       First!SlotsOutliveOldEnds, Chat!Occupied, First!Occupied, First!vars, First!hub, First!ends, First!channels, First!callers
<1>5. [AllNext]_all /\ ~(part = "chat")
        => [part = "chat" => Chat!ConsentIsExact /\ Chat!SlotsOutliveOldEnds]_all
    OBVIOUS
<1>6. AllSpec => [][AllNext]_all
    BY PTL DEF AllSpec
<1> QED
    BY <1>2, <1>3, <1>4, <1>5, <1>6, ChatBehaves, PTL DEF ChatIsConsented

\* Where callers upload, the catalog keeps its bytes and what was rejected stays so, and
\* nothing is offered that every inspection finds bad; were dead uploads recovered, no
\* other bytes would take the place of a file's and the store would keep what was
\* inspected (commit_upload, import_file, finish_admission, recover_file_operations).
THEOREM CatalogIsTrueHolds == AllSpec => CatalogIsTrue
<1>1. First!FC!CustodyAssumption
    <2>1. Admission!CustodyAssumption
        BY AssumptionsHold DEF AssumptionsHold
    <2> QED
        BY <2>1 DEF Admission!CustodyAssumption, First!FC!CustodyAssumption, Admission!Rows,
       First!FC!Rows, Admission!Lives, First!FC!Lives, Admission!Statuses,
       First!FC!Statuses
<1>2. Second!FC!CustodyAssumption
    <2>1. Recovered!CustodyAssumption
        BY AssumptionsHold DEF AssumptionsHold
    <2> QED
        BY <2>1 DEF Recovered!CustodyAssumption, Second!FC!CustodyAssumption, Recovered!Rows,
       Second!FC!Rows, Recovered!Lives, Second!FC!Lives, Recovered!Statuses,
       Second!FC!Statuses
<1>4. First!FC!Spec => []First!FC!TypeOK /\ []First!FC!ActiveIsPublished
        /\ []First!FC!CatalogHasBytes /\ []First!FC!BadIsNeverOffered
        /\ [][First!FC!RejectedStays]_(First!FC!vars)
    BY <1>1, First!ActiveIsPublishedHolds, First!CatalogHasBytesHolds,
       First!BadIsNeverOfferedHolds, First!RejectedStaysHolds, PTL
<1>5. Second!FC!Spec => []Second!FC!ActiveIsPublished /\ []Second!FC!NoForeignBytes
        /\ []Second!FC!InspectedIsStored /\ []Second!FC!BadIsNeverOffered
    BY <1>2, Second!ActiveIsPublishedHolds, Second!NoForeignBytesHolds,
       Second!BadIsNeverOfferedHolds, PTL
<1>7. First!FC!TypeOK /\ First!FC!ActiveIsPublished /\ First!FC!CatalogHasBytes
        => Admission!TypeOK /\ Admission!ActiveIsPublished /\ Admission!CatalogHasBytes
    BY DEF Admission!TypeOK, First!FC!TypeOK, Admission!ActiveIsPublished,
       First!FC!ActiveIsPublished, Admission!CatalogHasBytes, First!FC!CatalogHasBytes,
       Admission!Rows, First!FC!Rows, Admission!Workers, First!FC!Workers,
       Admission!Gone, First!FC!Gone, Admission!Places, First!FC!Places,
       Admission!InspectedIsStored, First!FC!InspectedIsStored, Admission!Lives,
       First!FC!Lives, Admission!Statuses, First!FC!Statuses
<1>8. First!FC!BadIsNeverOffered => Admission!BadIsNeverOffered
    BY DEF Admission!BadIsNeverOffered, First!FC!BadIsNeverOffered
<1>9. Second!FC!ActiveIsPublished /\ Second!FC!NoForeignBytes
        /\ Second!FC!InspectedIsStored /\ Second!FC!BadIsNeverOffered
        => Recovered!ActiveIsPublished /\ Recovered!NoForeignBytes
           /\ Recovered!InspectedIsStored /\ Recovered!BadIsNeverOffered
    BY DEF Recovered!ActiveIsPublished, Second!FC!ActiveIsPublished,
       Recovered!NoForeignBytes, Second!FC!NoForeignBytes, Recovered!InspectedIsStored,
       Second!FC!InspectedIsStored, Recovered!BadIsNeverOffered,
       Second!FC!BadIsNeverOffered
<1>10. First!FC!RejectedStays => Admission!RejectedStays
    BY DEF Admission!RejectedStays, First!FC!RejectedStays
<1>11. [AllNext]_all /\ part = "admission" /\ [First!FC!RejectedStays]_(First!FC!vars)
        => [part = "admission" => Admission!RejectedStays]_all
    BY <1>10 DEF AllNext, all, OnlyArea_files, area_files, First!FC!vars, First!FC!files, First!FC!operations
<1>12. [AllNext]_all /\ ~(part = "admission")
        => [part = "admission" => Admission!RejectedStays]_all
    OBVIOUS
<1>13. AllSpec => [][AllNext]_all
    BY PTL DEF AllSpec
<1>14. AllSpec => [](part = "admission" =>
            /\ Admission!TypeOK /\ Admission!ActiveIsPublished
            /\ Admission!CatalogHasBytes /\ Admission!BadIsNeverOffered)
    BY <1>4, <1>7, <1>8, AdmissionBehaves, PTL
<1>15. AllSpec => [](part = "recovered uploads" =>
            /\ Recovered!ActiveIsPublished /\ Recovered!NoForeignBytes
            /\ Recovered!InspectedIsStored /\ Recovered!BadIsNeverOffered)
    BY <1>5, <1>9, RecoveredBehaves, PTL
<1>17. AllSpec => [][part = "admission" => Admission!RejectedStays]_all
    BY <1>4, <1>11, <1>12, <1>13, AdmissionBehaves, PTL
<1> QED
    BY <1>14, <1>15, <1>17, PTL DEF CatalogIsTrue

\* Where no caller uploads the report beside a file that is offered or
\* may be approved is a clean one (finish_admission, admission_status).
THEOREM SoleReportsAreCleanHolds == AllSpec => []SoleReportsAreClean
<1>1. Third!FC!CustodyAssumption
    <2>1. Reports!CustodyAssumption
        BY AssumptionsHold DEF AssumptionsHold
    <2> QED
        BY <2>1 DEF Reports!CustodyAssumption, Third!FC!CustodyAssumption, Reports!Rows,
       Third!FC!Rows, Reports!Lives, Third!FC!Lives, Reports!Statuses, Third!FC!Statuses
<1>2. Third!FC!Spec => []Third!FC!CleanReport
    BY <1>1, Third!CleanReportHolds
<1>3. Third!FC!CleanReport => Reports!CleanReport
    BY DEF Reports!CleanReport, Third!FC!CleanReport
<1> QED
    BY <1>2, <1>3, ReportsBehave, PTL DEF SoleReportsAreClean
=============================================================================
