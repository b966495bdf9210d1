----------------------------- MODULE FileCustody -----------------------------
(***************************************************************************)
(* Native admission of files: caller uploads (sf-core/file.rs), imports of  *)
(* the network and of the operator (sf-core/files/mod.rs), inspection,      *)
(* review and rescan.  A file is a catalog row, an entry of the area        *)
(* directory and an object of the content store; a database transaction     *)
(* and a change of a directory are steps of their own, and the process may  *)
(* die between any two.                                                     *)
(***************************************************************************)
EXTENDS Integers, FiniteSets

CONSTANTS
    Names,        \* file names of one area
    Contents,     \* payloads; a payload stands for its hash and size
    Callers,      \* sessions that upload
    Network,      \* the one import that holds network_lock
    Console,      \* the operator's tool, which needs the board stopped
    Verdicts,     \* payload -> results its inspections may have: scanners change, and fail
    RecoversOps,   \* is recover_file_operations ever called
    Commands,     \* operations the operator uses
    MaxCrashes, MaxFaults,   \* bounds
    None, Partial

Lives == {"pending-review", "active", "disabled"}
Statuses == {"missing", "inspecting", "quarantined", "pending-approval", "published", "rejected"}
Rows == [bytes : Contents, life : Lives, status : Statuses,
         report : {"none", "clean", "bad"}, hold : BOOLEAN]

CustodyAssumption ==
    /\ Network # Console /\ {Network, Console} \cap Callers = {}
    /\ Verdicts \in [Contents -> SUBSET {"clean", "bad"}] /\ RecoversOps \in BOOLEAN
    /\ Commands \subseteq {"import", "rescan", "review", "policy"}
    /\ MaxCrashes \in Nat /\ MaxFaults \in Nat
    /\ {None, Partial} \cap Contents = {} /\ None # Partial /\ None \notin Rows

VARIABLES
    row,       \* name -> catalog row with its validation
    area,      \* name -> what the area directory holds
    store,     \* payloads in the content store
    journal,   \* worker -> phase of the file_operations row of its upload
    stale,     \* rows of uploads whose worker is gone
    lease,     \* names leased, by whom
    approval,  \* approval_required of the area's safety policy
    job,       \* worker -> what it does and where it is
    up, crashes, faults

files == <<row, area, store>>
operations == <<journal, stale, lease>>
vars == <<files, operations, approval, job, up, crashes, faults>>

Workers == Callers \cup {Network, Console}
Gone == "gone"
Places == {"idle", "operate", "create", "copy", "mark", "insert", "complete", "admit", "stored",
           "lookup", "alias", "begin", "inspect", "report", "decide"}
Idle == [at |-> "idle"]
Job(at, n, c, hold) == [at |-> at, name |-> n, bytes |-> c, hold |-> hold, verdict |-> "none"]
At(w, p) == job[w].at = p
Running(w) == IF w = Console THEN ~up ELSE up
Goto(w, p) == job' = [job EXCEPT ![w].at = p]
Done(w) == job' = [job EXCEPT ![w] = Idle]
Name(w) == job[w].name

TypeOK ==
    /\ row \in [Names -> Rows \cup {None}]
    /\ area \in [Names -> Contents \cup {None, Partial}] /\ store \subseteq Contents
    /\ journal \in [Workers -> {None, "staged", "bytes-published"}]
    /\ stale \subseteq [name : Names, phase : {"staged", "bytes-published", "needs-review"}]
    /\ lease \in [Names -> Callers \cup {None, Gone}]
    /\ approval \in BOOLEAN /\ \A w \in Workers : job[w].at \in Places
    /\ up \in BOOLEAN /\ crashes \in 0..MaxCrashes /\ faults \in 0..MaxFaults

Init ==
    /\ row = [n \in Names |-> None] /\ area = [n \in Names |-> None] /\ store = {}
    /\ journal = [w \in Workers |-> None] /\ stale = {} /\ lease = [n \in Names |-> None]
    /\ approval \in BOOLEAN /\ job = [w \in Workers |-> Idle]
    /\ up = TRUE /\ crashes = 0 /\ faults = 0

-----------------------------------------------------------------------------
(***************************************************************************)
(* Caller uploads: FileStorage::commit_upload.                              *)
(***************************************************************************)

\* the session has asked whether the catalog has the name, and staged the bytes;
\* a description with a slash asks for review
Upload(w, n, c, hold) ==
    /\ w \in Callers /\ up /\ At(w, "idle") /\ row[n] = None
    /\ job' = [job EXCEPT ![w] = Job("operate", n, c, hold)]
    /\ UNCHANGED <<files, operations, approval, up, crashes, faults>>
\* a journal row and the lease of the name
Operate(w) ==
    /\ Running(w) /\ At(w, "operate")
    /\ IF lease[Name(w)] = None
       THEN /\ lease' = [lease EXCEPT ![Name(w)] = w]
            /\ journal' = [journal EXCEPT ![w] = "staged"] /\ Goto(w, "create")
       ELSE Done(w) /\ UNCHANGED <<lease, journal>>
    /\ UNCHANGED <<files, stale, approval, up, crashes, faults>>
Free(n, w) == lease' = IF lease[n] = w THEN [lease EXCEPT ![n] = None] ELSE lease
Close(w) == journal' = [journal EXCEPT ![w] = None] /\ Free(Name(w), w)
\* Plausible mistake: an existing file is overwritten.
Overwrite(n) == TRUE
Vacant(n) == area[n] = None
Create(w) ==
    /\ Running(w) /\ At(w, "create")
    /\ IF Vacant(Name(w))
       THEN area' = [area EXCEPT ![Name(w)] = Partial] /\ Goto(w, "copy") /\ UNCHANGED <<journal, lease>>
       ELSE Close(w) /\ Done(w) /\ UNCHANGED area
    /\ UNCHANGED <<row, store, stale, approval, up, crashes, faults>>
Copy(w) ==
    /\ Running(w) /\ At(w, "copy")
    /\ \/ area' = [area EXCEPT ![Name(w)] = job[w].bytes] /\ Goto(w, "mark")
          /\ UNCHANGED <<journal, lease, faults>>
       \/ /\ faults < MaxFaults /\ faults' = faults + 1          \* the disk is full
          /\ area' = [area EXCEPT ![Name(w)] = None] /\ Close(w) /\ Done(w)
    /\ UNCHANGED <<row, store, stale, approval, up, crashes>>
Mark(w) ==
    /\ Running(w) /\ At(w, "mark")
    /\ journal' = [journal EXCEPT ![w] = "bytes-published"] /\ Goto(w, "insert")
    /\ UNCHANGED <<files, stale, lease, approval, up, crashes, faults>>
NewRow(w) == [bytes |-> job[w].bytes, life |-> "pending-review", status |-> "missing",
              report |-> "none", hold |-> FALSE]
\* Plausible mistake: the bytes of a refused row stay in the area.
LeftThere(n) == area
Withdrawn(n) == [area EXCEPT ![n] = None]
\* insert_file_entry_with_custody: a name of the catalog is refused, storage may fail,
\* and either way the bytes are removed
Insert(w) ==
    LET n == Name(w) IN
    \/ /\ row[n] = None /\ row' = [row EXCEPT ![n] = NewRow(w)] /\ UNCHANGED <<area, faults>>
       /\ Goto(w, IF w \in Callers THEN "complete" ELSE "begin") /\ UNCHANGED <<journal, lease>>
    \/ /\ \/ row[n] # None /\ UNCHANGED faults
          \/ faults < MaxFaults /\ faults' = faults + 1
       /\ area' = Withdrawn(n) /\ Close(w) /\ Done(w) /\ UNCHANGED row
InsertRow(w) ==
    /\ Running(w) /\ At(w, "insert") /\ Insert(w)
    /\ UNCHANGED <<store, stale, approval, up, crashes>>
Complete(w) ==
    /\ Running(w) /\ At(w, "complete") /\ Close(w) /\ Goto(w, "admit")
    /\ UNCHANGED <<files, stale, approval, up, crashes, faults>>
\* admit_completed_upload: the bytes are read back, verified and stored ...
Admit(w) ==
    /\ Running(w) /\ At(w, "admit")
    /\ IF area[Name(w)] = row[Name(w)].bytes
       THEN store' = store \cup {area[Name(w)]} /\ Goto(w, "stored")
       ELSE Done(w) /\ UNCHANGED store
    /\ UNCHANGED <<row, area, operations, approval, up, crashes, faults>>
\* ... and the entry of the area becomes a link to the stored object (link_content)
Link(w) ==
    /\ Running(w) /\ At(w, "stored")
    /\ IF row[Name(w)].bytes \in store
       THEN area' = [area EXCEPT ![Name(w)] = row[Name(w)].bytes] /\ Goto(w, "begin")
       ELSE Done(w) /\ UNCHANGED area
    /\ UNCHANGED <<row, store, operations, approval, up, crashes, faults>>

-----------------------------------------------------------------------------
(***************************************************************************)
(* Imports: FileStorage::import_file.                                       *)
(***************************************************************************)

\* the payload goes to the content store first
Import(w, n, c) ==
    /\ w \in {Network, Console} /\ Running(w) /\ At(w, "idle")
    /\ w = Console => "import" \in Commands
    /\ store' = store \cup {c} /\ job' = [job EXCEPT ![w] = Job("lookup", n, c, FALSE)]
    /\ UNCHANGED <<row, area, operations, approval, up, crashes, faults>>
\* Plausible mistake: a rejected file is admitted again when it is offered again.
Reopens(n) == TRUE
Undecided(n) == row[n].status = "missing"
Readmit(w, n) == (w = Network /\ row[n].status # "rejected") \/ Undecided(n)
Lookup(w) ==
    LET n == Name(w) IN
    /\ Running(w) /\ At(w, "lookup")
    /\ IF row[n] = None THEN Goto(w, "alias")
       ELSE IF row[n].bytes = job[w].bytes /\ Readmit(w, n) THEN Goto(w, "stored")
       ELSE Done(w)                            \* a collision, or an existing file
    /\ UNCHANGED <<files, operations, approval, up, crashes, faults>>
\* hard_link: refused when the area has an entry of that name
Alias(w) ==
    /\ Running(w) /\ At(w, "alias")
    /\ IF area[Name(w)] = None
       THEN area' = [area EXCEPT ![Name(w)] = job[w].bytes] /\ Goto(w, "insert")
       ELSE Done(w) /\ UNCHANGED area
    /\ UNCHANGED <<row, store, operations, approval, up, crashes, faults>>

-----------------------------------------------------------------------------
(***************************************************************************)
(* Inspection: finish_admission, whose first transaction takes the file out *)
(* of circulation and whose last one decides.                               *)
(***************************************************************************)

\* Plausible mistake: the file stays active while it is inspected.
StaysActive(n) == row[n].life
WhileInspected(n) == "pending-review"
Begin(w) ==
    LET n == Name(w) IN
    /\ Running(w) /\ At(w, "begin")
    /\ row' = [row EXCEPT ![n].status = "inspecting", ![n].report = "none",
                          ![n].life = WhileInspected(n), ![n].hold = approval \/ job[w].hold]
    /\ job' = [job EXCEPT ![w].at = "inspect", ![w].hold = approval \/ job[w].hold]
    /\ UNCHANGED <<area, store, operations, approval, up, crashes, faults>>
\* the stored object is opened and inspected, with no transaction open
Inspect(w, v) ==
    /\ Running(w) /\ At(w, "inspect") /\ v \in Verdicts[row[Name(w)].bytes]
    /\ IF row[Name(w)].bytes \in store
       THEN job' = [job EXCEPT ![w].at = "report", ![w].verdict = v] ELSE Done(w)
    /\ UNCHANGED <<files, operations, approval, up, crashes, faults>>
Report(w) ==
    /\ Running(w) /\ At(w, "report") /\ row' = [row EXCEPT ![Name(w)].report = job[w].verdict]
    /\ Goto(w, "decide")
    /\ UNCHANGED <<area, store, operations, approval, up, crashes, faults>>
\* Plausible mistake: approval overrides a bad inspection.
HoldFirst(w) == IF job[w].hold THEN "pending-approval"
                ELSE IF job[w].verdict = "bad" THEN "quarantined" ELSE "published"
Decision(w) == IF job[w].verdict = "bad" THEN "quarantined"
               ELSE IF job[w].hold THEN "pending-approval" ELSE "published"
\* Plausible mistake: the admission's status is written as the lifecycle.
AsStatus(status) == status
Life(status) == CASE status = "published" -> "active"
                  [] status = "rejected" -> "disabled"
                  [] OTHER -> "pending-review"
\* admission_status
Status(n, s) == row' = [row EXCEPT ![n].status = s, ![n].life = Life(s)]
Decide(w) ==
    /\ Running(w) /\ At(w, "decide") /\ Status(Name(w), Decision(w)) /\ Done(w)
    /\ UNCHANGED <<area, store, operations, approval, up, crashes, faults>>

-----------------------------------------------------------------------------
(***************************************************************************)
(* The operator's tool, on a stopped board.                                 *)
(***************************************************************************)

\* Plausible mistake: anything may be approved.
AnyStatus(n) == TRUE
Approvable(n) == row[n].status = "pending-approval"
\* review_file_admission; limits and scanning are taken as unchanged since the inspection
Review(n, approve) ==
    /\ ~up /\ At(Console, "idle") /\ "review" \in Commands
    /\ row[n] # None /\ row[n].status # "missing" /\ (approve => Approvable(n))
    /\ Status(n, IF approve THEN "published" ELSE "rejected")
    /\ UNCHANGED <<area, store, operations, approval, job, up, crashes, faults>>
\* rescan_file
Rescan(n) ==
    /\ ~up /\ At(Console, "idle") /\ "rescan" \in Commands /\ row[n] # None
    /\ job' = [job EXCEPT ![Console] = IF row[n].status = "missing" THEN Job("admit", n, row[n].bytes, TRUE)
                                       ELSE Job("begin", n, row[n].bytes, FALSE)]
    /\ UNCHANGED <<files, operations, approval, up, crashes, faults>>
\* set_file_safety_policy
SetPolicy ==
    /\ ~up /\ At(Console, "idle") /\ "policy" \in Commands /\ approval' = ~approval
    /\ UNCHANGED <<files, operations, job, up, crashes, faults>>
\* recover_file_operations: the staging path of an upload is its place in the area
Recover(o) ==
    /\ RecoversOps /\ ~up /\ At(Console, "idle") /\ o \in stale /\ o.phase # "needs-review"
    /\ IF o.phase = "staged"
       THEN area' = [area EXCEPT ![o.name] = None] /\ stale' = stale \ {o}
       ELSE stale' = (stale \ {o}) \cup {[o EXCEPT !.phase = "needs-review"]} /\ UNCHANGED area
    /\ lease' = IF lease[o.name] = Gone THEN [lease EXCEPT ![o.name] = None] ELSE lease
    /\ UNCHANGED <<row, store, journal, approval, job, up, crashes, faults>>

-----------------------------------------------------------------------------
(***************************************************************************)
(* Failures.                                                                *)
(***************************************************************************)

\* leases last five minutes: an upload that takes longer goes on without one
LeaseExpires(n) ==
    /\ lease[n] # None /\ lease' = [lease EXCEPT ![n] = None]
    /\ UNCHANGED <<files, journal, stale, approval, job, up, crashes, faults>>
Left(W) == {[name |-> Name(w), phase |-> journal[w]] : w \in {v \in W : journal[v] # None}}
Abandon(W) ==
    /\ stale' = stale \cup Left(W)
    /\ journal' = [w \in Workers |-> IF w \in W THEN None ELSE journal[w]]
    /\ lease' = [n \in Names |-> IF lease[n] \in W THEN Gone ELSE lease[n]]
    /\ job' = [w \in Workers |-> IF w \in W THEN Idle ELSE job[w]]
    /\ UNCHANGED <<files, approval>>
\* storage refuses a step and the worker returns its error; the steps that clean up
\* after a failure have an alternative for it
GiveUp(w) ==
    /\ Running(w) /\ job[w].at \notin {"idle", "create", "copy", "insert"} /\ faults < MaxFaults /\ faults' = faults + 1
    /\ Abandon({w}) /\ UNCHANGED <<up, crashes>>
Crash ==
    /\ crashes < MaxCrashes /\ crashes' = crashes + 1
    /\ up' = FALSE /\ Abandon(Workers) /\ UNCHANGED faults
Stop ==
    /\ up /\ up' = FALSE /\ \A w \in Workers : At(w, "idle")
    /\ UNCHANGED <<files, operations, approval, job, crashes, faults>>
\* the daemon starts when the board lock is free; it recovers no file operation
Start ==
    /\ ~up /\ At(Console, "idle") /\ up' = TRUE
    /\ UNCHANGED <<files, operations, approval, job, crashes, faults>>

Step(w) ==
    \/ Operate(w) \/ Create(w) \/ Copy(w) \/ Mark(w) \/ InsertRow(w) \/ Complete(w)
    \/ Admit(w) \/ Link(w) \/ Lookup(w) \/ Alias(w)
    \/ Begin(w) \/ (\E v \in {"clean", "bad"} : Inspect(w, v)) \/ Report(w) \/ Decide(w)
Arrive ==
    \E n \in Names, c \in Contents :
        \/ \E w \in {Network, Console} : Import(w, n, c)
        \/ \E w \in Callers, hold \in BOOLEAN : Upload(w, n, c, hold)
Operator ==
    \/ SetPolicy \/ \E n \in Names : Rescan(n) \/ \E approve \in BOOLEAN : Review(n, approve)
    \/ \E o \in stale : Recover(o)
Next ==
    \/ \E w \in Workers : Step(w) \/ GiveUp(w)
    \/ Arrive \/ Operator \/ \E n \in Names : LeaseExpires(n)
    \/ Crash \/ Stop \/ Start
Spec == Init /\ [][Next]_vars

\* Workers run, a stopped board is started again, and the peer offers its file until
\* it is answered.
Offer(n) == \E c \in Contents : Import(Network, n, c)
Fairness ==
    /\ \A w \in Workers : WF_vars(Step(w))
    /\ WF_vars(Start) /\ \A n \in Names : SF_vars(Offer(n))
FairSpec == Spec /\ Fairness

-----------------------------------------------------------------------------
(***************************************************************************)
(* Properties.                                                              *)
(***************************************************************************)

\* "A crash before completion leaves Inspecting unpublished": what callers can
\* download has been decided, and decided so.
ActiveIsPublished == \A n \in Names : row[n] # None => (row[n].life = "active" <=> row[n].status = "published")

\* What has been inspected stays in the content store under its hash, whatever becomes
\* of its entry in the area (store_content, link_content).
InspectedIsStored ==
    \A n \in Names : row[n] # None /\ row[n].status # "missing" => row[n].bytes \in store

\* What the catalog names is there, so that a rescan can take an unfinished admission up
\* again.  True of the program as it is, which calls recover_file_operations from its
\* tests alone: with RecoversOps the entry of a cataloged file can go.
CatalogHasBytes ==
    /\ \A n \in Names : row[n] # None => area[n] = row[n].bytes
    /\ InspectedIsStored

\* "Published originals are immutable": whatever recovery removes, no other bytes come
\* to stand under the name of a cataloged file.
NoForeignBytes == \A n \in Names : row[n] # None => area[n] \in {row[n].bytes, None}

\* "A new remote publication cannot reopen an existing locally rejected file."
RejectedStays ==
    \A n \in Names : up /\ row[n] # None /\ row[n].status = "rejected"
          => row'[n].status = "rejected"

\* Malware "quarantine[s] regardless of approval": nothing is offered, or waits for an
\* approval, whose bytes every inspection finds bad, however uploads, imports and
\* rescans of it overlap (finish_admission decides by its own report alone).
BadIsNeverOffered ==
    \A n \in Names : row[n] # None /\ row[n].status \in {"published", "pending-approval"}
        => "clean" \in Verdicts[row[n].bytes]

\* The same sentence of the report that is stored with the file: what is published or
\* may be approved has a clean one.  True where no caller uploads, so that one worker
\* inspects at a time; two inspections of one file can leave the report of one with the
\* decision of the other.
CleanReport ==
    \A n \in Names : row[n] # None /\ row[n].status \in {"published", "pending-approval"}
        => row[n].report = "clean"

\* The claim validate_files_authority makes of every file, "missing-file-inspection" and
\* "invalid-file-approval" otherwise: at rest, when no inspection is under way, the
\* report beside what is published or may be approved is a clean one.
ReportAtRest == (\A w \in Workers : At(w, "idle")) => CleanReport

\* "Filesystem and SQLite commits are explicitly reconciled across crashes": a
\* journal row of a dead upload does not stay, and refuse every cold backup.
JournalSettles == stale # {} ~> stale = {}

\* A file that the network offers again and again is in the catalog some day.
OfferedArrives == \A n \in Names : <>(row[n] # None)
=============================================================================
