----------------------------- MODULE Deployment -----------------------------
(***************************************************************************)
(* The deployment manager (sf-bbs/deployment): adoption of a board, backup, *)
(* update with migration in a staged copy, recovery of an interrupted       *)
(* update, runtime rollback and destructive restore.  Three stores change   *)
(* one at a time: the manager's SQLite journal, the board's database and    *)
(* the board's configuration; a restore exchanges whole directories.  The   *)
(* process may die between any two changes.                                 *)
(***************************************************************************)
EXTENDS Integers, Sequences, FiniteSets, TLC

CONSTANTS
    Newest,               \* versions 1..Newest are released, in this order
    Schema, Format, Feature,  \* of each version: target schema, configuration format,
                              \* generation of durable features
    MaxData, MaxBackups,  \* bounds: board changes, checkpoints the retention budget holds
    MaxCrashes, MaxFaults,
    None

Versions == 1..Newest
DeploymentAssumption ==
    /\ Newest \in Nat \ {0} /\ {MaxData, MaxBackups, MaxCrashes, MaxFaults} \subseteq Nat
    /\ {Schema, Format, Feature} \subseteq [Versions -> Nat]
    /\ None \notin Versions
    /\ \A v, w \in Versions : v < w => Format[v] <= Format[w]

VARIABLES
    control,     \* deployment.sqlite3: the manager's durable record
    board,       \* the board directory: its database, configuration and locator
    aside,       \* the sibling a restore renames the board to
    snapshots,   \* directories under backups/, registered or not
    daemon,      \* version of the daemon that holds the board lock
    job,         \* the manager process that holds both locks
    offered,     \* newest package in the release source
    crashes, faults

vars == <<control, board, aside, snapshots, daemon, job, offered, crashes, faults>>
dirs == <<board, aside>>
counters == <<offered, crashes, faults>>

Phases == {"Backup", "VerifyBackup", "StageRelease", "VerifyRelease", "Migrate", "Validate",
           "ApplyRuntime", "ValidateActive", "Commit", "Cleanup", "ManualRestore"}
Committed == {"Commit", "Cleanup"}
Adopting == {"ApplyRuntime", "ValidateActive"}
Idle == [at |-> "idle"]
At(p) == job.at = p
Goto(p) == job' = [job EXCEPT !.at = p]
Content(d) == [db |-> d.db, config |-> d.config]
Managed == board # None /\ board.locator
Pending == control # None /\ control.tx # None

TypeOK ==
    /\ control # None =>
        /\ control.active \in control.releases /\ control.releases \subseteq Versions
        /\ control.previous \in Seq(Versions) /\ control.required \in Nat
        /\ control.backups \subseteq DOMAIN snapshots
    /\ Pending =>
        /\ control.tx.phase \in Phases /\ control.tx.old \in control.releases
        /\ control.active = IF control.tx.phase \in Committed THEN control.tx.target ELSE control.tx.old
        /\ control.tx.phase \in Adopting => control.tx.checkpoint # 0 /\ control.tx.stage # None
    /\ Len(snapshots) <= MaxBackups /\ daemon \in Versions \cup {None}
    /\ offered \in Versions /\ crashes \in 0..MaxCrashes /\ faults \in 0..MaxFaults

Init ==
    /\ control = None /\ aside = None /\ snapshots = <<>> /\ daemon = None /\ job = Idle
    /\ board = [db |-> [schema |-> Schema[1], data |-> 0, catalog |-> 0],
                config |-> Format[1], locator |-> FALSE]
    /\ offered = 1 /\ crashes = 0 /\ faults = 0

-----------------------------------------------------------------------------
(***************************************************************************)
(* The board.                                                               *)
(***************************************************************************)

\* Plausible mistake: a pending transaction does not keep the daemon away.
PendingIgnored(v) == Managed => v = control.active
\* check_board_access
Admitted(v) == Managed => ~Pending /\ v = control.active
\* the board lock; an unmanaged board is migrated forward when it starts
DaemonStart(v) ==
    /\ daemon = None /\ At("idle") /\ board # None /\ Admitted(v) /\ v <= offered
    /\ board.db.schema <= Schema[v]
    /\ daemon' = v /\ board' = [board EXCEPT !.db.schema = Schema[v]]
    /\ UNCHANGED <<control, aside, snapshots, job, counters>>
\* callers change the board; some changes are catalog revisions of a network
DaemonWrite ==
    /\ daemon # None /\ board.db.data < MaxData
    /\ \E c \in {0, 1} :
        board' = [board EXCEPT !.db.data = @ + 1, !.db.catalog = @ + c]
    /\ UNCHANGED <<control, aside, snapshots, daemon, job, counters>>
DaemonStop ==
    /\ daemon # None /\ daemon' = None
    /\ UNCHANGED <<control, dirs, snapshots, job, counters>>
Publish ==
    /\ offered < Newest /\ offered' = offered + 1
    /\ UNCHANGED <<control, dirs, snapshots, daemon, job, crashes, faults>>

-----------------------------------------------------------------------------
(***************************************************************************)
(* Compatibility.                                                           *)
(***************************************************************************)

\* RuntimeDescriptor::compatible: read and write ranges are the target schema
Compatible(v, db, config, required) ==
    /\ db.schema = Schema[v] /\ config <= Format[v] /\ required <= Feature[v]
\* live_state: the generations the running manager knows of, and those required so far
Required == IF Feature[control.active] > control.required
            THEN Feature[control.active] ELSE control.required
\* Plausible mistake: a release may have dropped a feature the board needs.
NewerSchema(v) == v > control.active /\ Schema[v] >= board.db.schema
CompatibleUpgrade(v) ==
    /\ v > control.active /\ Schema[v] >= board.db.schema /\ Feature[v] >= Required
Later(a, b) == IF a > b THEN a ELSE b
\* the worker's migration keeps the rows
Migrated(c, v) == [db |-> [c.db EXCEPT !.schema = Later(@, Schema[v])], config |-> Later(c.config, Format[v])]

-----------------------------------------------------------------------------
(***************************************************************************)
(* Adoption.                                                                *)
(***************************************************************************)

Locks == daemon = None /\ At("idle")
Ready == Locks /\ Managed /\ control # None /\ control.tx = None
Record(v) == [active |-> v, previous |-> <<>>, releases |-> {v}, required |-> Feature[v],
              backups |-> {}, tx |-> None, pending |-> TRUE]
Adopt(v) ==
    /\ Locks /\ board # None /\ v <= offered /\ Compatible(v, board.db, board.config, 0)
    /\ IF control = None THEN ~board.locator /\ control' = Record(v)
       ELSE control.pending /\ control.active = v /\ UNCHANGED control
    /\ job' = [at |-> IF board.locator THEN "adopted" ELSE "locator"]
    /\ UNCHANGED <<dirs, snapshots, daemon, counters>>
WriteLocator ==
    /\ At("locator") /\ board' = [board EXCEPT !.locator = TRUE] /\ Goto("adopted")
    /\ UNCHANGED <<control, aside, snapshots, daemon, counters>>
Adopted ==
    /\ At("adopted") /\ control' = [control EXCEPT !.pending = FALSE] /\ job' = Idle
    /\ UNCHANGED <<dirs, snapshots, daemon, counters>>

-----------------------------------------------------------------------------
(***************************************************************************)
(* Backup and update.                                                       *)
(***************************************************************************)

Snapshot == [content |-> Content(board), runtime |-> control.active]
Room == Len(snapshots) < MaxBackups
Save(tx) == control' = [control EXCEPT !.tx = tx]
Phase(p) == control' = [control EXCEPT !.tx.phase = p]

\* Manager::backup: a directory first, then its place in the history
Backup ==
    /\ Ready /\ Room /\ snapshots' = Append(snapshots, Snapshot)
    /\ job' = [at |-> "register", id |-> Len(snapshots) + 1]
    /\ UNCHANGED <<control, dirs, daemon, counters>>
Register ==
    /\ At("register")
    /\ control' = [control EXCEPT !.backups = @ \cup {job.id}, !.pending = FALSE]
    /\ job' = Idle
    /\ UNCHANGED <<dirs, snapshots, daemon, counters>>

Transaction(p, v) ==
    [phase |-> p, old |-> control.active, target |-> v, checkpoint |-> 0, stage |-> None]
\* Manager::update takes the newest package
Update ==
    /\ Ready /\ Room /\ CompatibleUpgrade(offered)
    /\ Save(Transaction("Backup", offered))
    /\ job' = [at |-> "checkpoint"]
    /\ UNCHANGED <<dirs, snapshots, daemon, counters>>
Checkpoint ==
    /\ At("checkpoint") /\ snapshots' = Append(snapshots, Snapshot)
    /\ job' = [at |-> "verify", id |-> Len(snapshots) + 1]
    /\ UNCHANGED <<control, dirs, daemon, counters>>
VerifyBackup ==
    /\ At("verify") /\ Goto("release")
    /\ control' = [control EXCEPT !.backups = @ \cup {job.id}, !.tx.checkpoint = job.id,
                                  !.tx.phase = "VerifyBackup"]
    /\ UNCHANGED <<dirs, snapshots, daemon, counters>>
StageRelease ==
    /\ At("release") /\ Phase("StageRelease") /\ Goto("probe")
    /\ UNCHANGED <<dirs, snapshots, daemon, counters>>
VerifyRelease ==
    /\ At("probe") /\ Goto("migrate")
    /\ control' = [control EXCEPT !.releases = @ \cup {control.tx.target}, !.tx.phase = "VerifyRelease"]
    /\ UNCHANGED <<dirs, snapshots, daemon, counters>>
\* the candidate migrates a copy of the checkpoint
Migrate ==
    /\ At("migrate") /\ Phase("Migrate")
    /\ job' = [at |-> "validate", id |-> job.id,
               stage |-> Migrated(snapshots[job.id].content, control.tx.target)]
    /\ UNCHANGED <<dirs, snapshots, daemon, counters>>
Validate ==
    /\ At("validate") /\ Phase("Validate")
    /\ Compatible(control.tx.target, job.stage.db, job.stage.config, Feature[control.tx.target])
    /\ Goto("apply")
    /\ UNCHANGED <<dirs, snapshots, daemon, counters>>
\* Plausible mistake: the journal says where adoption begins when it is over.
JournalLate(c) == c
Journaled(c) == [c EXCEPT !.tx.phase = "ApplyRuntime", !.tx.stage = job.stage]
ApplyRuntime ==
    /\ At("apply") /\ control' = Journaled(control) /\ Goto("database")
    /\ UNCHANGED <<dirs, snapshots, daemon, counters>>
ReplaceDatabase ==
    /\ At("database") /\ board' = [board EXCEPT !.db = job.stage.db] /\ Goto("configuration")
    /\ UNCHANGED <<control, aside, snapshots, daemon, counters>>
ReplaceConfiguration ==
    /\ At("configuration") /\ board' = [board EXCEPT !.config = job.stage.config] /\ Goto("active")
    /\ UNCHANGED <<control, aside, snapshots, daemon, counters>>
ValidateActive ==
    /\ At("active") /\ Phase("ValidateActive") /\ Goto("commit")
    /\ UNCHANGED <<dirs, snapshots, daemon, counters>>
Keep(s, vs) == SelectSeq(s, LAMBDA v : v \notin vs)
Raised(v) == Later(control.required, Feature[v])
\* the active runtime, what it requires and COMMIT are one transaction of the journal
Commit ==
    LET tx == control.tx IN
    /\ At("commit") /\ Content(board) = job.stage
    /\ control' = [control EXCEPT !.active = tx.target, !.required = Raised(tx.target),
                     !.previous = <<tx.old>> \o Keep(@, {tx.old, tx.target}), !.tx.phase = "Commit",
                     !.pending = FALSE]
    /\ Goto("cleanup")
    /\ UNCHANGED <<dirs, snapshots, daemon, counters>>
Cleanup ==
    /\ At("cleanup") /\ Phase("Cleanup") /\ Goto("finish")
    /\ UNCHANGED <<dirs, snapshots, daemon, counters>>
Finish ==
    /\ At("finish") /\ control' = [control EXCEPT !.tx = None, !.pending = @ /\ control.tx.phase \in Committed]
    /\ job' = Idle
    /\ UNCHANGED <<dirs, snapshots, daemon, counters>>

-----------------------------------------------------------------------------
(***************************************************************************)
(* Recovery: recover_locked.                                                *)
(***************************************************************************)

\* Plausible mistake: a committed update is taken back too.
AlwaysUndo(tx) == IF tx.phase \in Committed \cup Adopting THEN "undo" ELSE "close"
Resumed(tx) == IF tx.phase \in Committed THEN "cleanup"
               ELSE IF tx.phase \in Adopting THEN "undo" ELSE "close"
\* any command of the launcher recovers first; a manual restore is left to the operator
Recover ==
    /\ Locks /\ Pending /\ Managed /\ control.tx.phase # "ManualRestore"
    /\ job' = [at |-> Resumed(control.tx)]
    /\ UNCHANGED <<control, dirs, snapshots, daemon, counters>>
Kept == snapshots[control.tx.checkpoint].content
\* restore_precommit
UndoDatabase ==
    /\ At("undo") /\ board' = [board EXCEPT !.db = Kept.db] /\ Goto("undo configuration")
    /\ UNCHANGED <<control, aside, snapshots, daemon, counters>>
\* Plausible mistake: the configuration is not taken back.
DatabaseOnly(b) == b
ConfigurationKept(b) == [b EXCEPT !.config = Kept.config]
UndoConfiguration ==
    /\ At("undo configuration") /\ board' = ConfigurationKept(board) /\ Goto("close")
    /\ UNCHANGED <<control, aside, snapshots, daemon, counters>>
\* the old runtime inspects its board before the transaction is closed
Close ==
    LET tx == control.tx IN
    /\ At("close") /\ Compatible(tx.old, board.db, board.config, 0)
    /\ tx.phase \in Adopting => Content(board) = Kept
    /\ control' = [control EXCEPT !.active = tx.old, !.tx = None, !.pending = FALSE]
    /\ job' = Idle
    /\ UNCHANGED <<dirs, snapshots, daemon, counters>>

-----------------------------------------------------------------------------
(***************************************************************************)
(* Runtime rollback and manual restore.                                     *)
(***************************************************************************)

\* Plausible mistake: the requirements of the current runtime are not asked for.
RunsSchema(v) == Compatible(v, board.db, board.config, 0)
Candidate(v) == Compatible(v, board.db, board.config, Required)
Rollback ==
    LET found == {k \in DOMAIN control.previous : Candidate(control.previous[k])}
        v == control.previous[CHOOSE k \in found : \A l \in found : k <= l]
    IN  /\ Ready /\ found # {}
        /\ control' = [control EXCEPT !.active = v,
              !.previous = <<control.active>> \o Keep(@, {v, control.active}), !.pending = FALSE]
        /\ UNCHANGED <<dirs, snapshots, daemon, job, counters>>

\* Plausible mistake: older catalogs may replace newer ones.
AnyCatalog(db) == TRUE
\* circuitnet_catalog_check_restore
CatalogKept(db) == board.db.catalog <= db.catalog
Restore(id) ==
    /\ Ready /\ id \in control.backups
    /\ Compatible(control.active, snapshots[id].content.db, snapshots[id].content.config, 0)
    /\ CatalogKept(snapshots[id].content.db)
    /\ Save([Transaction("ManualRestore", control.active) EXCEPT !.checkpoint = id])
    /\ job' = [at |-> "move aside", before |-> board]
    /\ UNCHANGED <<dirs, snapshots, daemon, counters>>
\* restore_board_locked: a sibling of the board's name keeps it from starting
MoveAside ==
    /\ At("move aside") /\ aside = None
    /\ aside' = board /\ board' = None /\ Goto("publish")
    /\ UNCHANGED <<control, snapshots, daemon, counters>>
PublishRestored ==
    /\ At("publish") /\ Goto("drop")
    /\ board' = Kept @@ [locator |-> aside.locator]
    /\ UNCHANGED <<control, aside, snapshots, daemon, counters>>
\* the rename fails: back to the old board, when that rename works
PublishFails ==
    /\ At("publish") /\ faults < MaxFaults /\ faults' = faults + 1
    /\ \/ board' = aside /\ aside' = None
       \/ UNCHANGED dirs
    /\ Goto("failed")
    /\ UNCHANGED <<control, snapshots, daemon, offered, crashes>>
DropAside ==
    /\ At("drop") /\ aside' = None /\ Goto("finish")
    /\ UNCHANGED <<control, board, snapshots, daemon, counters>>
\* an error closes the transaction only when the board is as it was
RestoreFailed ==
    /\ At("failed") /\ job' = Idle
    /\ IF board = job.before THEN Save(None) ELSE UNCHANGED control
    /\ UNCHANGED <<dirs, snapshots, daemon, counters>>

-----------------------------------------------------------------------------
(***************************************************************************)
(* Failures.                                                                *)
(***************************************************************************)

\* A step is refused: an update reads what it has saved and goes back unless it has
\* committed; a restore looks at the board; everything else is left to recovery.
Fail ==
    /\ ~At("idle") /\ ~At("publish") /\ faults < MaxFaults /\ faults' = faults + 1
    /\ job' = IF job.at \in {"checkpoint", "verify", "release", "probe", "migrate", "validate", "apply",
                            "database", "configuration", "active", "commit"}
              THEN [at |-> Resumed(control.tx)]
              ELSE IF job.at \in {"move aside", "drop"} THEN [job EXCEPT !.at = "failed"] ELSE Idle
    /\ UNCHANGED <<control, dirs, snapshots, daemon, offered, crashes>>
Crash ==
    /\ crashes < MaxCrashes /\ crashes' = crashes + 1 /\ job' = Idle /\ daemon' = None
    /\ UNCHANGED <<control, dirs, snapshots, offered, faults>>

UpdateStep ==
    \/ Checkpoint \/ VerifyBackup \/ StageRelease \/ VerifyRelease \/ Migrate \/ Validate
    \/ ApplyRuntime \/ ReplaceDatabase \/ ReplaceConfiguration \/ ValidateActive \/ Commit
    \/ Cleanup \/ Finish
RecoveryStep == UndoDatabase \/ UndoConfiguration \/ Close
RestoreStep == MoveAside \/ PublishRestored \/ PublishFails \/ DropAside \/ RestoreFailed
ManagerStep == UpdateStep \/ RecoveryStep \/ RestoreStep \/ Register \/ WriteLocator \/ Adopted
ManagerCommands ==
    \/ Backup \/ Update \/ Recover \/ Rollback
    \/ \E id \in DOMAIN snapshots : Restore(id)
    \/ \E v \in Versions : Adopt(v)
Daemon == DaemonWrite \/ DaemonStop \/ \E v \in Versions : DaemonStart(v)
Next == ManagerStep \/ ManagerCommands \/ Daemon \/ Publish \/ Fail \/ Crash
Spec == Init /\ [][Next]_vars

\* The manager's process runs, and the operator has a pending update recovered.
Fairness == WF_vars(ManagerStep) /\ WF_vars(Recover)
FairSpec == Spec /\ Fairness

-----------------------------------------------------------------------------
(***************************************************************************)
(* Properties.                                                              *)
(***************************************************************************)

\* "The active pointer [...], required feature generations and COMMIT share one
\* transaction", and "rollback selects a previous runtime compatible with the current
\* schema, configuration and required durable feature generations": whenever nothing
\* is pending, the active runtime can run the managed board as it is.
ActiveFits ==
    Managed /\ control # None /\ control.tx = None
        => Compatible(control.active, board.db, board.config, control.required)

\* "A persisted pre-COMMIT transaction is recovered to its verified checkpoint";
\* "Committed transactions [...] never trigger database recovery": when a transaction of
\* an update is closed, the board is all of what was validated or all of what was there.
UpdateIsAtomic ==
    LET tx == control.tx IN
     Pending /\ tx.phase # "ManualRestore" /\ control'.tx = None
      => Content(board) = IF tx.phase \in Committed THEN tx.stage
                          ELSE IF tx.checkpoint = 0 THEN Content(board)
                          ELSE snapshots[tx.checkpoint].content

\* Only a restore the operator has asked for takes the board back: recovery never loses
\* what callers did after the checkpoint.
NothingRewinds == board # None /\ board' # None => board'.db.data >= board.db.data

\* "Replacement also refuses a snapshot that discards a newer known signed catalog
\* revision", whatever has happened between the check and the exchange.
CatalogNeverRewinds ==
    board = None /\ board' # None => board'.db.catalog >= aside.db.catalog

\* "recovery is repeatable if interrupted": an update that was interrupted anywhere is
\* closed when the operator has it recovered.
RecoveryEnds == Pending /\ control.tx.phase # "ManualRestore" ~> ~Pending
=============================================================================
