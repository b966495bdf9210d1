---------------------------- MODULE MCBoardServices ----------------------------
(***************************************************************************)
(* The board's services for model checking, small instances of them side    *)
(* by side.  They share no state, so a behaviour is about one of them, or   *)
(* about one instance of it, and the others stay as they begin: every       *)
(* behaviour of every component is one of this specification.  The          *)
(* constants of ConfigurationCommit are the ones the configuration gives.   *)
(***************************************************************************)
EXTENDS ConfigurationCommit, Integers, TLC
CONSTANTS
    Parts,  \* the components whose behaviours are explored
    s, o, c1, c2, Console, e1, e2, t, n1, p1, p2, u1, net, con, partial

VARIABLES
    part,  \* the component a behaviour is about
    available, next, hubSlot, disconnect, attached, allowed, toCaller, toOperator, chat,
    holder, pos, hubCur,
    enabled, policy, version, due, since, running, requested, seen, open, generation,
    prepared, mail, queue, eventUp, stopping, todo, passGen, run, eventCur, at, quota,
    prepGen, preparing, counts,
    zone, timeSlot, days, now, last,
    areaRow, area, store, areaJournal, stale, lease, approval, areaJob, areaUp,
    areaCrashes, areaFaults,
    control, board, aside, snapshots, daemon, deployJob, offered, deployCrashes,
    deployFaults

hub == <<available, next, hubSlot, disconnect, attached, allowed, toCaller, toOperator,
         chat, holder, pos, hubCur>>
events == <<enabled, policy, version, due, since, running, requested, seen, open,
            generation, prepared, mail, queue, eventUp, stopping, todo, passGen, run,
            eventCur, at, quota, prepGen, preparing, counts>>
times == <<zone, timeSlot, days, now, last>>
area_files == <<areaRow, area, store, areaJournal, stale, lease, approval, areaJob,
                areaUp, areaCrashes, areaFaults>>
deployment == <<control, board, aside, snapshots, daemon, deployJob, offered,
                deployCrashes, deployFaults>>
all == <<part, hub, vars, events, times, area_files, deployment>>

\* clocks go forward at one instant and back at another, by one civil time
Clocks(f, b) == [i \in 0..60 |-> (IF i < f THEN 0 ELSE 1) - (IF i < b THEN 0 ELSE 1)]
ClockZones == {Clocks(f, b) : f \in {3, 6, 7, 13}, b \in {5, 10, 11}}

Chat == INSTANCE InteractionHub WITH
    Sessions <- {s}, Owners <- {o}, Console <- Console, MaxInteractions <- 2,
    Capacity <- 1, MaxHandoffs <- 1, None <- None, slot <- hubSlot, cur <- hubCur
Compete == INSTANCE ConfigurationCommit WITH
    Commands <- {c1, c2}, Revoking <- {}, None <- None, MaxGenerations <- 2,
    MaxFaults <- 1, MaxEdits <- 1, Accidents <- {}
Rivals == INSTANCE EventScheduler WITH
    Events <- {e1, e2}, Targets <- {t}, TargetOf <- [e \in {e1, e2} |-> t],
    Policies <- {"hybrid"}, SkipMissed <- {e2}, Interval <- 1, Spacing <- 1,
    Outcomes <- {"succeeded"}, MaxMail <- 0, MaxSaves <- 2, MaxCrashes <- 1,
    MaxFaults <- 1, MaxSetBack <- 0, None <- None, up <- eventUp, cur <- eventCur
Clock == INSTANCE EventScheduler WITH
    Events <- {e1}, Targets <- {t}, TargetOf <- [e \in {e1} |-> t],
    Policies <- {"hybrid"}, SkipMissed <- {e1}, Interval <- 2, Spacing <- 1,
    Outcomes <- {"succeeded"}, MaxMail <- 1, MaxSaves <- 1, MaxCrashes <- 0,
    MaxFaults <- 0, MaxSetBack <- 1, None <- None, up <- eventUp, cur <- eventCur
Offsets == INSTANCE EventTimes WITH
    DayLength <- 4, Week <- 3, Horizon <- 60, Zones <- ClockZones, SearchDays <- 7,
    slot <- timeSlot
\* p2 is bad whoever inspects it; the scanner does not always answer the same for p1
Scanned == [c \in {p1, p2} |-> IF c = p2 THEN {"bad"} ELSE {"clean", "bad"}]
Unsure == [c \in {p1, p2} |-> {"clean", "bad"}]
Admission == INSTANCE FileCustody WITH
    Names <- {n1}, Contents <- {p1, p2}, Callers <- {u1}, Network <- net,
    Console <- con, Verdicts <- Scanned, RecoversOps <- FALSE,
    Commands <- {"import", "rescan", "review", "policy"}, MaxCrashes <- 1,
    MaxFaults <- 1, None <- None, Partial <- partial, row <- areaRow,
    journal <- areaJournal, job <- areaJob, up <- areaUp, crashes <- areaCrashes,
    faults <- areaFaults
Recovered == INSTANCE FileCustody WITH
    Names <- {n1}, Contents <- {p1, p2}, Callers <- {u1}, Network <- net,
    Console <- con, Verdicts <- Scanned, RecoversOps <- TRUE,
    Commands <- {"rescan", "import"}, MaxCrashes <- 2, MaxFaults <- 0, None <- None,
    Partial <- partial, row <- areaRow, journal <- areaJournal, job <- areaJob,
    up <- areaUp, crashes <- areaCrashes, faults <- areaFaults
Reports == INSTANCE FileCustody WITH
    Names <- {n1}, Contents <- {p1, p2}, Callers <- {}, Network <- net, Console <- con,
    Verdicts <- Unsure, RecoversOps <- FALSE,
    Commands <- {"import", "rescan", "review", "policy"}, MaxCrashes <- 2,
    MaxFaults <- 1, None <- None, Partial <- partial, row <- areaRow,
    journal <- areaJournal, job <- areaJob, up <- areaUp, crashes <- areaCrashes,
    faults <- areaFaults
Updates == INSTANCE Deployment WITH
    Newest <- 3, Schema <- <<1, 1, 2>>, Format <- <<1, 2, 2>>, Feature <- <<1, 1, 1>>,
    MaxData <- 2, MaxBackups <- 2, MaxCrashes <- 1, MaxFaults <- 1, None <- None,
    job <- deployJob, crashes <- deployCrashes, faults <- deployFaults
Features == INSTANCE Deployment WITH
    Newest <- 3, Schema <- <<1, 1, 1>>, Format <- <<1, 2, 2>>, Feature <- <<1, 2, 1>>,
    MaxData <- 1, MaxBackups <- 2, MaxCrashes <- 1, MaxFaults <- 1, None <- None,
    job <- deployJob, crashes <- deployCrashes, faults <- deployFaults

AllInit ==
    /\ part \in Parts
    /\ Chat!Init
    /\ part # "competing saves" => Init
    /\ part = "competing saves" => Compete!Init
    /\ part # "clock set back" => Rivals!Init
    /\ part = "clock set back" => Clock!Init
    /\ Offsets!Init /\ (part # "changing offsets" => zone = Clocks(3, 5) /\ timeSlot = 0 /\ days = {0} /\ now = 0)
    /\ part \notin {"recovered uploads", "reports"} => Admission!Init
    /\ part = "recovered uploads" => Recovered!Init
    /\ part = "reports" => Reports!Init
    /\ part # "features" => Updates!Init
    /\ part = "features" => Features!Init

\* A step of one component leaves the others alone.
OnlyHub == UNCHANGED <<part, vars, events, times, area_files, deployment>>
OnlySaves == UNCHANGED <<part, hub, events, times, area_files, deployment>>
OnlyEvents == UNCHANGED <<part, hub, vars, times, area_files, deployment>>
OnlyTimes == UNCHANGED <<part, hub, vars, events, area_files, deployment>>
OnlyArea_files == UNCHANGED <<part, hub, vars, events, times, deployment>>
OnlyDeployment == UNCHANGED <<part, hub, vars, events, times, area_files>>
AllNext ==
    \/ part = "chat" /\ Chat!Next /\ OnlyHub
    \/ part = "interrupted saves" /\ Next /\ OnlySaves
    \/ part = "competing saves" /\ Compete!Next /\ OnlySaves
    \/ part = "rival events" /\ Rivals!Next /\ OnlyEvents
    \/ part = "clock set back" /\ Clock!Next /\ OnlyEvents
    \/ part = "changing offsets" /\ Offsets!Next /\ OnlyTimes
    \/ part = "admission" /\ Admission!Next /\ OnlyArea_files
    \/ part = "recovered uploads" /\ Recovered!Next /\ OnlyArea_files
    \/ part = "reports" /\ Reports!Next /\ OnlyArea_files
    \/ part = "updates" /\ Updates!Next /\ OnlyDeployment
    \/ part = "features" /\ Features!Next /\ OnlyDeployment
AllSpec == AllInit /\ [][AllNext]_all

\* what the theorems about the components assume of their constants
ASSUME AssumptionsHold ==
    /\ CommitAssumption /\ Compete!CommitAssumption /\ Chat!HubAssumption
    /\ Admission!CustodyAssumption /\ Recovered!CustodyAssumption
    /\ Reports!CustodyAssumption

-----------------------------------------------------------------------------
\* A slot is held by somebody on each side that its state names, an operator's
\* invitation becomes a chat only by the caller's own answer, and an interaction
\* that was replaced cannot end its successor (InteractionHub, answer, remove_slot).
ChatIsConsented ==
    /\ [](part = "chat" => Chat!TypeOK /\ Chat!SlotsAreHeld)
    /\ [][part = "chat" => Chat!ConsentIsExact /\ Chat!SlotsOutliveOldEnds]_all

\* Where saves compete, the authority implements a register under compare-and-swap: no
\* update is lost and no decided outcome changes (apply, recover, configuration_version).
NoSaveIsLost ==
    /\ part = "competing saves" => Compete!Register!Init
    /\ [][part = "competing saves" =>
            [Compete!Register!Next]_(Compete!Register!vars)]_all

\* History rows and leases are of one mind and die with the daemon, a target has one
\* event and a slot one run, and a preparation that counts as done has left no message
\* behind.  However the clocks change, the next slot is the first one its civil time
\* has, and no day has two (event_claim, event_complete, event_recover, prepare,
\* next_after).
LeasesAreAccountedFor ==
    /\ [](part = "rival events" =>
            Rivals!HistoryMatchesLeases /\ Rivals!LeaseHasThread /\ Rivals!OneEventPerTarget)
    /\ [](part = "clock set back" =>
            Clock!TypeOK /\ Clock!PreparedIsScanned /\ Clock!RunNowCoalesces)
    /\ [](part = "changing offsets" => Offsets!SlotIsFirst)
    /\ [][part = "clock set back" => Clock!OneCatchUp]_all
    /\ [][part = "changing offsets" => Offsets!OneSlotADay]_all

\* Callers upload while the network and the operator import: what the catalog names is
\* there with its own bytes, what is offered was decided, nothing is that every
\* inspection finds bad, and what the operator rejected stays rejected, through rescans,
\* reviews, failures and a crash in any order.  Were dead uploads recovered, an entry of
\* the area could go; no other bytes would take its place and the store would keep what
\* was inspected (commit_upload, import_file, finish_admission, recover_file_operations).
CatalogIsTrue ==
    /\ [](part = "admission" =>
            /\ Admission!TypeOK /\ Admission!ActiveIsPublished
            /\ Admission!CatalogHasBytes /\ Admission!BadIsNeverOffered)
    /\ [](part = "recovered uploads" =>
            /\ Recovered!ActiveIsPublished /\ Recovered!NoForeignBytes
            /\ Recovered!InspectedIsStored /\ Recovered!BadIsNeverOffered)
    /\ [][part = "admission" => Admission!RejectedStays]_all

\* Where no caller uploads, what is offered or may be approved has a clean report beside
\* it, through imports, rescans, reviews, failures and two crashes.  It is not so where a
\* caller's inspection and the network's overlap (finish_admission, admission_status).
SoleReportsAreClean == part = "reports" => Reports!CleanReport

\* An update that is closed left all of the new board or all of the old one, nothing the
\* board wrote since is taken back, and the active version can keep what the board
\* has (recover, restore_precommit, rollback).
UpdatesAreWhole ==
    /\ [](part = "updates" => Updates!TypeOK) /\ [](part = "features" => Features!ActiveFits)
    /\ [][part = "updates" => /\ Updates!UpdateIsAtomic /\ Updates!NothingRewinds
                              /\ Updates!CatalogNeverRewinds]_all
=============================================================================
