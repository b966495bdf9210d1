---------------------------- MODULE EventScheduler ----------------------------
(***************************************************************************)
(* The board's scheduled events: the durable rows of sf-core/events.rs and *)
(* the two threads of sf-bbs/events.rs, the scheduler that claims, runs and *)
(* completes them one at a time and the preparer that turns committed       *)
(* messages into queued work.                                               *)
(*                                                                          *)
(* Times are kept relative to the wall clock: due[e] is how far the next    *)
(* slot is ahead (negative: missed), since[e] how long ago the last run     *)
(* started.  The clock may be set back, which moves both.                   *)
(***************************************************************************)
EXTENDS Integers, FiniteSets

CONSTANTS
    Events,
    Targets,       \* what events poll: a link, or a profile with its neighbors
    TargetOf,      \* event -> its target
    Policies,      \* exchange policies that occur
    SkipMissed,    \* events with MissedPolicy::Skip; the others run once
    Interval,      \* seconds between slots
    Spacing,       \* minimum_spacing_seconds
    Outcomes,      \* how a session may end
    MaxMail, MaxSaves, MaxCrashes, MaxFaults, MaxSetBack,  \* bounds
    None

SchedulerAssumption ==
    /\ TargetOf \in [Events -> Targets] /\ SkipMissed \subseteq Events
    /\ Policies \subseteq {"manual", "scheduled", "immediate", "hybrid"}
    /\ Interval \in Nat \ {0} /\ Spacing \in Nat \ {0}
    /\ Outcomes \subseteq {"succeeded", "failed", "busy"}
    /\ {MaxMail, MaxSaves, MaxCrashes, MaxFaults, MaxSetBack} \subseteq Nat

VARIABLES
    enabled, policy, version,   \* definitions: one function over Events each
    due, since,                 \* next_due and last_started, relative to now
    running, requested, seen,   \* running lease, Run Now, observed_generation
    open,                       \* runs whose history row has no result
    generation, prepared,       \* network_preparation
    mail,                       \* target -> committed messages not yet scanned
    queue,                      \* target -> outbound work that may be sent
    up, stopping,               \* the daemon, and its shutdown phase
    todo, passGen, run, cur, at, \* the scheduler's pass, its claim and the claimed event
    quota, prepGen, preparing,  \* the preparer's scan
    counts                      \* what the bounds count

definitions == <<enabled, policy, version>>
times == <<due, since>>
leases == <<running, requested, seen, open>>
work == <<generation, mail, queue>>
daemon == <<up, stopping>>
scheduler == <<todo, passGen, run, cur, at>>
preparer == <<quota, prepGen, preparing>>
vars == <<definitions, times, leases, work, prepared, daemon, scheduler, preparer, counts>>

\* run names are random and never collide; those in use are told apart
Runs == 1..(Cardinality(Events) + 1)
NoDue == Interval + MaxSetBack + 1          \* next_due is null
Rested == Spacing + MaxSetBack              \* how long ago a run is told apart
Missed == -(2 * Interval + 1)               \* how far back a missed slot is told apart
Bounds == [mail |-> MaxMail, saves |-> MaxSaves, crashes |-> MaxCrashes,
           faults |-> MaxFaults, setBack |-> MaxSetBack]
May(k) == counts[k] < Bounds[k]
Count(k) == counts' = [counts EXCEPT ![k] = @ + 1]

TypeOK ==
    /\ enabled \in [Events -> BOOLEAN] /\ policy \in [Events -> Policies]
    /\ version \in [Events -> 0..MaxSaves]
    /\ due \in [Events -> Missed..NoDue] /\ since \in [Events -> -MaxSetBack..Rested]
    /\ running \in [Events -> Runs \cup {0}] /\ requested \in [Events -> BOOLEAN]
    /\ seen \in [Events -> -1..(1 + 2 * MaxMail)] /\ open \subseteq Runs
    /\ generation \in 1..(1 + 2 * MaxMail) /\ prepared \in 0..generation
    /\ mail \in [Targets -> 0..MaxMail] /\ queue \in [Targets -> 0..MaxMail]
    /\ up \in BOOLEAN /\ stopping \in BOOLEAN
    /\ todo \subseteq Events /\ passGen \in 0..generation /\ run \in Runs \cup {0} /\ cur \in Events \cup {None}
    /\ at \in {"wait", "pass", "run", "complete", "continue"}
    /\ quota \in [Targets -> 0..MaxMail] /\ preparing \in BOOLEAN /\ prepGen \in 0..generation
    /\ \A k \in DOMAIN counts : counts[k] \in 0..Bounds[k]

Init ==
    /\ enabled = [e \in Events |-> FALSE] /\ policy \in [Events -> Policies]
    /\ version = [e \in Events |-> 0]
    /\ due = [e \in Events |-> NoDue] /\ since = [e \in Events |-> Rested]
    /\ running = [e \in Events |-> 0] /\ requested = [e \in Events |-> FALSE]
    /\ seen = [e \in Events |-> 0] /\ open = {}
    /\ generation = 1 /\ prepared = 0
    /\ mail = [t \in Targets |-> 0] /\ queue = [t \in Targets |-> 0]
    /\ up = FALSE /\ stopping = FALSE
    /\ todo = {} /\ passGen = 0 /\ run = 0 /\ cur = None /\ at = "wait"
    /\ quota = [t \in Targets |-> 0] /\ preparing = FALSE /\ prepGen = 0
    /\ counts = [k \in DOMAIN Bounds |-> 0]

-----------------------------------------------------------------------------
(***************************************************************************)
(* Definitions and Run Now: operator commands of a running board.          *)
(***************************************************************************)

Recurs(on, p) == on /\ p \in {"scheduled", "hybrid"}
\* Definition::next, from the present
NextDue(on, p) == IF Recurs(on, p) THEN Interval ELSE NoDue

\* Plausible mistake: targets are not compared.
NoRival(e) == TRUE
Unrivalled(e) == \A o \in Events \ {e} : ~(enabled[o] /\ TargetOf[o] = TargetOf[e])
\* event_save: the version it was read at, no lease, and one enabled event per target
Save(e, on, p) ==
    /\ up /\ May("saves") /\ Count("saves")
    /\ running[e] = 0
    /\ on => Unrivalled(e)
    /\ enabled' = [enabled EXCEPT ![e] = on] /\ policy' = [policy EXCEPT ![e] = p]
    /\ version' = [version EXCEPT ![e] = @ + 1]
    /\ due' = [due EXCEPT ![e] = NextDue(on, p)]
    /\ requested' = [requested EXCEPT ![e] = FALSE]
    /\ UNCHANGED <<since, running, seen, open, work, prepared, daemon, scheduler, preparer>>

\* Plausible mistake: Run Now is remembered while the event runs.
AlwaysRequest(e) == TRUE
Coalesced(e) == running[e] = 0
\* event_run_now
RunNow(e) ==
    /\ up /\ enabled[e]
    /\ requested' = [requested EXCEPT ![e] = Coalesced(e)]
    /\ UNCHANGED <<definitions, times, running, seen, open, work, prepared, daemon, scheduler,
                   preparer, counts>>

-----------------------------------------------------------------------------
(***************************************************************************)
(* Messages, and the preparer.                                              *)
(***************************************************************************)

\* a message is committed; a trigger of the same transaction raises the generation
Post(t) ==
    /\ up /\ May("mail") /\ Count("mail")
    /\ mail' = [mail EXCEPT ![t] = @ + 1] /\ generation' = generation + 1
    /\ UNCHANGED <<definitions, times, leases, queue, prepared, daemon, scheduler, preparer>>

\* prepare: the generation is read before the scan
PrepareStart ==
    /\ up /\ ~stopping /\ ~preparing /\ generation # prepared
    /\ preparing' = TRUE /\ prepGen' = generation /\ quota' = mail
    /\ UNCHANGED <<definitions, times, leases, work, prepared, daemon, scheduler, counts>>
\* one message becomes queued work, which is activity too
PrepareScan(t) ==
    /\ up /\ preparing /\ quota[t] > 0
    /\ quota' = [quota EXCEPT ![t] = @ - 1] /\ mail' = [mail EXCEPT ![t] = @ - 1]
    /\ queue' = [queue EXCEPT ![t] = @ + 1] /\ generation' = generation + 1
    /\ UNCHANGED <<definitions, times, leases, prepared, daemon, scheduler, prepGen, preparing,
                   counts>>
\* Plausible mistake: the scan is recorded as of now.
GenerationNow == generation
\* Plausible mistake: an off-by-one.
OneAhead == prepGen + 1
Prepared == prepGen
PrepareComplete ==
    /\ up /\ preparing /\ \A t \in Targets : quota[t] = 0
    /\ preparing' = FALSE
    /\ prepared' = IF Prepared > prepared THEN Prepared ELSE prepared
    /\ UNCHANGED <<definitions, times, leases, work, daemon, scheduler, quota, prepGen, counts>>
\* a scan that fails or is cut short by the shutdown records nothing
PrepareCutShort ==
    /\ up /\ preparing /\ (stopping \/ May("faults"))
    /\ preparing' = FALSE /\ quota' = [t \in Targets |-> 0]
    /\ IF stopping THEN UNCHANGED counts ELSE Count("faults")
    /\ UNCHANGED <<definitions, times, leases, work, prepared, daemon, scheduler, prepGen>>

-----------------------------------------------------------------------------
(***************************************************************************)
(* The scheduler.                                                           *)
(***************************************************************************)

\* a pass reads the generation, then the events
Pass ==
    /\ up /\ ~stopping /\ at = "wait"
    /\ at' = "pass" /\ passGen' = generation /\ todo' = Events
    /\ UNCHANGED <<definitions, times, leases, work, prepared, daemon, run, cur, preparer, counts>>
PassOver ==
    /\ up /\ at = "pass" /\ (todo = {} \/ stopping)
    /\ at' = "wait" /\ todo' = {}
    /\ UNCHANGED <<definitions, times, leases, work, prepared, daemon, passGen, run, cur,
                   preparer, counts>>

HasActivity(e) == queue[TargetOf[e]] > 0
Activity(e) == IF HasActivity(e) THEN passGen ELSE seen[e]
\* Plausible mistake: a slot is due at its second only.
OnTheSecond(e) == due[e] = 0 /\ policy[e] \in {"scheduled", "hybrid"}
Due(e) == due[e] <= 0 /\ policy[e] \in {"scheduled", "hybrid"}
Prompt(e) == Activity(e) > seen[e] /\ policy[e] \in {"immediate", "hybrid"}
\* Plausible mistake: Run Now waits for a slot or for activity.
WithoutRunNow(e) ==
    enabled[e] /\ running[e] = 0 /\ since[e] >= Spacing /\ (Due(e) \/ Prompt(e))
Claimable(e) ==
    /\ enabled[e] /\ running[e] = 0 /\ since[e] >= Spacing
    /\ requested[e] \/ Due(e) \/ Prompt(e)
\* Plausible mistake: the next slot is counted from the missed one.
FromSlot(e) == due[e] + Interval
FromNow(e) == Interval
NewRun == CHOOSE r \in Runs : r \notin open /\ \A q \in Runs : q < r => q \in open
\* event_claim
Claim(e) ==
    /\ up /\ ~stopping /\ at = "pass" /\ e \in todo /\ Claimable(e)
    /\ run' = NewRun /\ cur' = e /\ at' = "run" /\ todo' = todo \ {e}
    /\ running' = [running EXCEPT ![e] = run'] /\ open' = open \cup {run'}
    /\ requested' = [requested EXCEPT ![e] = FALSE]
    /\ seen' = [seen EXCEPT ![e] = Activity(e)]
    /\ since' = [since EXCEPT ![e] = 0]
    /\ due' = IF Due(e) THEN [due EXCEPT ![e] = FromNow(e)] ELSE due
    /\ UNCHANGED <<definitions, work, prepared, daemon, passGen, preparer, counts>>
Unclaimed(e) ==
    /\ up /\ ~stopping /\ at = "pass" /\ e \in todo /\ ~Claimable(e)
    /\ todo' = todo \ {e}
    /\ UNCHANGED <<definitions, times, leases, work, prepared, daemon, passGen, run, cur, at,
                   preparer, counts>>

\* execute: a session sends a batch, or fails, or finds the link busy or the board stopping
Execute(outcome) ==
    /\ up /\ at = "run"
    /\ queue' = IF outcome = "succeeded" /\ queue[TargetOf[cur]] > 0
                THEN [queue EXCEPT ![TargetOf[cur]] = @ - 1] ELSE queue
    /\ at' = IF outcome = "succeeded" THEN "continue" ELSE "complete"
    /\ UNCHANGED <<definitions, times, leases, generation, mail, prepared, daemon, todo, passGen,
                   run, cur, preparer, counts>>

Mine(e) == running[e] = run
Release == running' = [e \in Events |-> IF Mine(e) THEN 0 ELSE running[e]]
\* event_complete: the lease and the history row in one transaction
Complete ==
    /\ up /\ at \in {"complete", "continue"} /\ run \in open
    /\ Release /\ open' = open \ {run}
    /\ IF at = "complete" THEN at' = "pass" /\ run' = 0 /\ cur' = None ELSE UNCHANGED <<at, run, cur>>
    /\ UNCHANGED <<definitions, times, requested, seen, work, prepared, daemon, todo, passGen,
                   preparer, counts>>
\* storage fails: the pass ends, the lease stays
CompleteFails ==
    /\ up /\ at \in {"complete", "continue"} /\ run \in open /\ May("faults") /\ Count("faults")
    /\ at' = "wait" /\ todo' = {} /\ run' = 0 /\ cur' = None
    /\ UNCHANGED <<definitions, times, leases, work, prepared, daemon, passGen, preparer>>
\* Plausible mistake: a finished session never rearms.
NoMore(e) == FALSE
MoreToSend(e) == queue[TargetOf[e]] > 0
\* event_continue: what a successful session left is activity again
Continue ==
    /\ up /\ at = "continue" /\ run \notin open
    /\ seen' = IF MoreToSend(cur) THEN [seen EXCEPT ![cur] = -1] ELSE seen
    /\ at' = "pass" /\ run' = 0 /\ cur' = None
    /\ UNCHANGED <<definitions, times, running, requested, open, work, prepared, daemon, todo,
                   passGen, preparer, counts>>

-----------------------------------------------------------------------------
(***************************************************************************)
(* The daemon and the clock.                                                *)
(***************************************************************************)

\* Plausible mistake: a restart leaves the history of the interrupted run open.
KeepOpen == UNCHANGED open
CloseOpen == open' = {}
\* Plausible mistake: the lease outlives its daemon.
KeepLeases == UNCHANGED running
ClearLeases == running' = [e \in Events |-> 0]
\* start: event_recover, then both threads
Start ==
    /\ ~up /\ up' = TRUE /\ stopping' = FALSE
    /\ CloseOpen /\ ClearLeases
    /\ due' = [e \in Events |-> IF e \in SkipMissed /\ due[e] < 0
                                THEN NextDue(enabled[e], policy[e]) ELSE due[e]]
    /\ todo' = {} /\ run' = 0 /\ cur' = None /\ at' = "wait"
    /\ preparing' = FALSE /\ quota' = [t \in Targets |-> 0]
    /\ UNCHANGED <<definitions, since, requested, seen, work, prepared, passGen, prepGen, counts>>
Down ==
    /\ up' = FALSE /\ stopping' = FALSE
    /\ todo' = {} /\ run' = 0 /\ cur' = None /\ at' = "wait"
    /\ preparing' = FALSE /\ quota' = [t \in Targets |-> 0]
    /\ UNCHANGED <<definitions, times, leases, work, prepared, passGen, prepGen>>
Crash == up /\ May("crashes") /\ Count("crashes") /\ Down
RequestShutdown ==
    /\ up /\ ~stopping /\ May("crashes") /\ stopping' = TRUE
    /\ UNCHANGED <<definitions, times, leases, work, prepared, up, scheduler, preparer, counts>>
\* the daemon exits once neither thread has work
Exit == up /\ stopping /\ at = "wait" /\ ~preparing /\ Count("crashes") /\ Down

Least(a, b) == IF a < b THEN a ELSE b
Later(k) ==
    /\ due' = [e \in Events |-> IF due[e] = NoDue THEN NoDue
                                ELSE IF due[e] - k < Missed THEN Missed ELSE due[e] - k]
    /\ since' = [e \in Events |-> Least(Rested, since[e] + k)]
    /\ UNCHANGED <<definitions, leases, work, prepared, daemon, scheduler, preparer>>
Tick == Later(1) /\ (due' # due \/ since' # since) /\ UNCHANGED counts
\* the wall clock is set back; a slot never exceeds what it is told apart by
SetBack == May("setBack") /\ Count("setBack") /\ Later(-1)

SchedulerStep ==
    \/ Pass \/ PassOver \/ Complete \/ Continue
    \/ \E e \in Events : Claim(e) \/ Unclaimed(e)
PreparerStep == PrepareStart \/ PrepareComplete \/ \E t \in Targets : PrepareScan(t)
Operator == \E e \in Events : RunNow(e) \/ \E on \in BOOLEAN, p \in Policies : Save(e, on, p)
Next ==
    \/ SchedulerStep \/ CompleteFails \/ \E o \in Outcomes : Execute(o)
    \/ PreparerStep \/ PrepareCutShort
    \/ Operator \/ \E t \in Targets : Post(t)
    \/ Start \/ Crash \/ RequestShutdown \/ Exit
    \/ Tick \/ SetBack
Spec == Init /\ [][Next]_vars

\* Threads run, sessions end and do not fail for ever, the board is started again.
Fairness ==
    /\ WF_vars(SchedulerStep) /\ WF_vars(\E o \in Outcomes : Execute(o))
    /\ SF_vars(Execute("succeeded"))
    /\ WF_vars(PreparerStep \/ PrepareCutShort) /\ WF_vars(Start) /\ WF_vars(Exit) /\ WF_vars(Tick)
FairSpec == Spec /\ Fairness

-----------------------------------------------------------------------------
(***************************************************************************)
(* Properties.                                                              *)
(***************************************************************************)

\* The two tables agree: a history row without a result is a lease, and the
\* other way round, through crashes, failed completions and restarts.
HistoryMatchesLeases == open = {running[e] : e \in Events} \ {0}

\* A lease belongs to the scheduler's current claim.  Only a completion that
\* storage refused leaves one behind, and never beyond the daemon's life.
LeaseHasThread ==
    \A e \in Events : up /\ running[e] # 0 => running[e] = run \/ counts.faults > 0

\* Run Now is never queued behind a run that is already there.
RunNowCoalesces == \A e \in Events : requested[e] => running[e] = 0

\* Enabled events never share a target: no schedule is multiplied.
OneEventPerTarget ==
    \A e, o \in Events : enabled[e] /\ enabled[o] /\ TargetOf[e] = TargetOf[o] => e = o

\* When the preparation says it is up to date, no committed message is unscanned.
PreparedIsScanned == prepared = generation => \A t \in Targets : mail[t] = 0

\* A missed slot is caught up once: the claim that runs it leaves nothing due.
OneCatchUp ==
    \A e \in Events : running'[e] \notin {0, running[e]} /\ due[e] <= 0 /\ Recurs(enabled[e], policy[e])
                      => due'[e] > 0

\* Work for a hybrid event is sent, through failures, busy links and restarts.
HybridDrains ==
    \A e \in Events : enabled[e] /\ policy[e] = "hybrid" /\ queue[TargetOf[e]] > 0
        ~> queue[TargetOf[e]] = 0 \/ ~enabled[e] \/ policy[e] # "hybrid"
\* A committed message becomes queued work.
MailIsQueued == \A t \in Targets : mail[t] > 0 ~> mail[t] = 0
\* Run Now runs, unless the definition is saved anew.
RunNowRuns == \A e \in Events : requested[e] ~> ~requested[e]

\* "Immediate responds to durable queue activity": queued work of an immediate
\* event is sent.
ImmediateResponds ==
    \A e \in Events : enabled[e] /\ policy[e] = "immediate" /\ queue[TargetOf[e]] > 0
        ~> queue[TargetOf[e]] = 0 \/ ~enabled[e] \/ policy[e] # "immediate"
=============================================================================
