---------------------------- MODULE BoardSessions ----------------------------
(***************************************************************************)
(* The caller-session lifecycle of the board daemon: node leases, durable  *)
(* caller claims, disconnect requests and their tickets, operator          *)
(* disconnect workers, caller lockout, graceful shutdown, crash and        *)
(* restart.  One thread runs run_connection per session; operator tasks,   *)
(* disconnect workers and the daemon runner run beside it and meet in the  *)
(* node table, in the InteractionHub and in the database.                  *)
(*                                                                         *)
(* The occupancy generation of a node slot is not a variable: a daemon     *)
(* never reuses a session identity, so a slot that shows the same session  *)
(* shows the same occupancy, and an exact (node, session) match decides    *)
(* what the code's (node, session, occupancy) match decides.               *)
(***************************************************************************)
EXTENDS Integers, FiniteSets

CONSTANTS
    Sessions,        \* session identities of one daemon run; next_session restarts with it
    Callers,         \* caller accounts
    NumNodes,        \* configured and enabled nodes, numbered from 1
    Lockable,        \* bound: the callers an operator locks out
    Controlled,      \* bound: the sessions an operator or the console disconnects
    None,            \* an empty slot, lease or claim
    MaxGenerations,  \* bound: daemon starts explored
    MaxFaults        \* bound: database failures and unwinds explored

ASSUME ConstantsAssumption ==
    /\ NumNodes \in Nat
    /\ Lockable \subseteq Callers /\ Controlled \subseteq Sessions
    /\ MaxGenerations \in Nat
    /\ MaxFaults \in Nat
    /\ None \notin Sessions
    /\ None \notin Callers
    /\ None \notin 1..NumNodes
    /\ None \notin [generation: Nat, node: 1..NumNodes, session: Sessions]

Nodes == 1..NumNodes

VARIABLES
    phase,           \* ShutdownControl.phase, or "Down" when no daemon runs
    generation,      \* daemon_generation, fresh at every load
    occupant,        \* NodeSlot.session_id
    nodeCaller,      \* NodeSlot.caller_id
    pc,              \* where the thread of a session is in run_connection
    lease,           \* NodeLease.node_id of that thread
    who,             \* AuthenticationState::Authenticated(caller)
    accounting,      \* accounting_result
    account,         \* callers.state: Active, or Disabled for locked out and deleted
    claim,           \* caller_sessions, keyed by caller
    request,         \* InteractionHub.disconnects: which kind of request made the entry
    cut,             \* sessions whose transport an emergency close shut
    scanning,        \* set_caller_state committed, node snapshot not taken
    targets,         \* sessions that snapshot still has to be asked to leave
    cmd,             \* the operator disconnect command against a session
    cmdTicket,       \* the ticket its worker holds
    evidenceFailed,  \* live_controls.evidence_failed
    drain,           \* where the daemon runner is in drain
    todo,            \* sessions the current loop of drain has not visited
    drainTicket,     \* the tickets drain holds
    faults           \* failures left to inject

nodeVars == <<occupant, nodeCaller>>
threadVars == <<pc, lease, who, accounting>>
dbVars == <<account, claim>>
lockoutVars == <<scanning, targets>>
cmdVars == <<cmd, cmdTicket, evidenceFailed>>
drainVars == <<drain, todo, drainTicket>>
ticketVars == <<request, cmdTicket, drainTicket>>
vars == <<phase, generation, nodeVars, threadVars, dbVars, request, cut,
          lockoutVars, cmdVars, drainVars, faults>>

Phases == {"Down", "Running", "Requested", "Draining", "Complete", "Failed"}
Engine == {"login", "admitted", "online"}       \* inside run_stock_session
Holding == Engine \cup {"ended", "finished", "leasing"}
PCs == Holding \cup {"new", "released", "tail", "gone", "aborted"}
Tickets == {"none", "open", "dropped", "completed", "failed"}
Correlated == {"operator", "board"}
Results == {"session-disconnected", "stale-target", "disconnect-finalization-failed"}
Cmds == {"idle", "accepted", "requested", "tracked", "closing", "stale",
         "rejected", "unrecorded"} \cup Results
Claims == [generation: Nat, node: Nodes, session: Sessions]

ClaimOf(s) == [generation |-> generation, node |-> lease[s], session |-> s]
Up == phase # "Down"
\* Plausible mistake: acting on the target without the exact match.
UncheckedLive(s) == TRUE
\* with_session_target: the node lock is held and the exact session is there
Live(s) == \E n \in Nodes : occupant[n] = s

\* Plausible mistake: a node without a caller taken for a free one.
NoCallerWaiting == {n \in Nodes : nodeCaller[n] = None}
Waiting == {n \in Nodes : occupant[n] = None}

\* Plausible mistake: every slot, the free ones too.
EverySlot == {occupant[n] : n \in Nodes}
Occupants == {occupant[n] : n \in Nodes} \ {None}

\* Plausible mistake: the barrier falls when drain ends, not when it is asked for.
AdmittingUntilVerdict == phase \in {"Running", "Requested", "Draining"}
Admitting == phase = "Running"

\* Plausible mistake: the claim matched by generation and node only.
NodeClaim(s, c) ==
    claim[c] # None /\ claim[c].generation = generation /\ claim[c].node = lease[s]
OwnClaim(s, c) == claim[c] = ClaimOf(s)

Fault == faults > 0 /\ faults' = faults - 1
NoFault == UNCHANGED faults

(***************************************************************************)
(* The hub: making, dropping and resolving disconnect requests.  A ticket  *)
(* is shared by the entry and by whoever asked; "open" is the ticket of    *)
(* the entry the session has now, "dropped" one that nobody will resolve.  *)
(***************************************************************************)
RequestDisconnect(s, kind) ==
    request' = [request EXCEPT ![s] = IF @ = "none" THEN kind ELSE @]

\* Plausible mistake: every entry goes, correlated or not.
SessionEndedDropsAll(s) ==
    IF request[s] # "none"
    THEN /\ request' = [request EXCEPT ![s] = "none"]
         /\ drainTicket' = [drainTicket EXCEPT ![s] = IF @ = "open" THEN "dropped" ELSE @]
         /\ UNCHANGED cmdTicket
    ELSE UNCHANGED ticketVars
\* session_ended: an uncorrelated entry goes, its ticket unresolved
SessionEnded(s) ==
    IF request[s] = "caller"
    THEN /\ request' = [request EXCEPT ![s] = "none"]
         /\ drainTicket' = [drainTicket EXCEPT ![s] = IF @ = "open" THEN "dropped" ELSE @]
         /\ UNCHANGED cmdTicket
    ELSE UNCHANGED ticketVars

\* Plausible mistake: the entry is met only when accounting succeeded.
FinalizedOnSuccess(s, outcome) ==
    IF request[s] # "none" /\ outcome = "completed"
    THEN /\ request' = [request EXCEPT ![s] = "none"]
         /\ drainTicket' = [drainTicket EXCEPT ![s] = IF @ = "open" THEN outcome ELSE @]
         /\ cmdTicket' = [cmdTicket EXCEPT ![s] = IF @ = "open" THEN outcome ELSE @]
    ELSE UNCHANGED ticketVars
\* Plausible mistake: reaching the finalizer counts as success.
FinalizedAsSuccess(s, outcome) ==
    IF request[s] # "none"
    THEN /\ request' = [request EXCEPT ![s] = "none"]
         /\ drainTicket' = [drainTicket EXCEPT ![s] = IF @ = "open" THEN "completed" ELSE @]
         /\ cmdTicket' = [cmdTicket EXCEPT ![s] = IF @ = "open" THEN "completed" ELSE @]
    ELSE UNCHANGED ticketVars
\* disconnect_finalized: any entry goes, its ticket says how accounting went
DisconnectFinalized(s, outcome) ==
    IF request[s] # "none"
    THEN /\ request' = [request EXCEPT ![s] = "none"]
         /\ drainTicket' = [drainTicket EXCEPT ![s] = IF @ = "open" THEN outcome ELSE @]
         /\ cmdTicket' = [cmdTicket EXCEPT ![s] = IF @ = "open" THEN outcome ELSE @]
    ELSE UNCHANGED ticketVars

-----------------------------------------------------------------------------
(***************************************************************************)
(* The connection thread.                                                  *)
(***************************************************************************)

\* Under the shutdown lock: refuse, or take the lowest waiting node.
Connect(s) ==
    /\ Up /\ pc[s] = "new"
    /\ \/ /\ ~Admitting \/ Waiting = {}
          /\ pc' = [pc EXCEPT ![s] = "gone"]
          /\ UNCHANGED <<nodeVars, lease>>
       \/ /\ Admitting
          /\ \E n \in Waiting :
               /\ \A m \in Waiting : n <= m
               /\ occupant' = [occupant EXCEPT ![n] = s]
               /\ lease' = [lease EXCEPT ![s] = n]
          /\ pc' = [pc EXCEPT ![s] = "login"]
          /\ UNCHANGED nodeCaller
    /\ UNCHANGED <<phase, generation, who, accounting, dbVars, request, cut, lockoutVars,
                   cmdVars, drainVars, faults>>

\* admit_caller_session commits the claim.  The reload after the commit can
\* still fail; the thread then never learns that it is authenticated.
Admit(s, c) ==
    /\ Up /\ pc[s] = "login"
    /\ account[c] = "Active"
    /\ claim[c] = None
    /\ claim' = [claim EXCEPT ![c] = ClaimOf(s)]
    /\ \/ /\ pc' = [pc EXCEPT ![s] = "admitted"]
          /\ who' = [who EXCEPT ![s] = c]
          /\ NoFault
       \/ /\ Fault
          /\ pc' = [pc EXCEPT ![s] = "ended"]
          /\ UNCHANGED who
    /\ IF pc'[s] = "ended" THEN SessionEnded(s) ELSE UNCHANGED ticketVars
    /\ UNCHANGED <<phase, generation, nodeVars, lease, accounting, account, cut, lockoutVars,
                   cmd, evidenceFailed, drain, todo>>

\* caller_authenticated -> mark_online
MarkOnline(s) ==
    /\ Up /\ pc[s] = "admitted"
    /\ occupant[lease[s]] = s
    /\ nodeCaller' = [nodeCaller EXCEPT ![lease[s]] = who[s]]
    /\ pc' = [pc EXCEPT ![s] = "online"]
    /\ UNCHANGED <<phase, generation, occupant, lease, who, accounting, dbVars, request, cut,
                   lockoutVars, cmdVars, drainVars, faults>>

\* run_stock_session returns and run_connection calls session_ended
End(s) ==
    /\ pc' = [pc EXCEPT ![s] = "ended"]
    /\ SessionEnded(s)
    /\ UNCHANGED <<phase, generation, nodeVars, lease, who, accounting, dbVars, cut, lockoutVars,
                   cmd, evidenceFailed, drain, todo, faults>>

\* goodbye, end of input, a lost transport, a refused login, an idle or time limit
EndByCaller(s) == Up /\ pc[s] \in {"login", "online"} /\ End(s)

\* the polling terminal sees the request, or the transport was closed under it
EndByDisconnect(s) ==
    /\ Up /\ pc[s] \in {"login", "online"}
    /\ request[s] # "none" \/ s \in cut
    /\ End(s)

\* Plausible mistake: the dispatch does not reload the caller.
NoDispatchCheck(s) == FALSE /\ End(s)

\* refresh_caller_access_for_dispatch finds the account no longer active
EndByDispatch(s) ==
    /\ Up /\ pc[s] = "online"
    /\ account[who[s]] # "Active"
    /\ End(s)

\* finish_caller_session_observed; a session that never authenticated has nothing to settle
Finish(s) ==
    /\ Up /\ pc[s] = "ended"
    /\ pc' = [pc EXCEPT ![s] = "finished"]
    /\ \/ /\ who[s] = None
          /\ accounting' = [accounting EXCEPT ![s] = "completed"]
          /\ UNCHANGED claim /\ NoFault
       \/ /\ who[s] # None
          /\ OwnClaim(s, who[s])
          /\ claim' = [claim EXCEPT ![who[s]] = None]
          /\ accounting' = [accounting EXCEPT ![s] = "completed"]
          /\ NoFault
       \/ /\ who[s] # None
          /\ \/ ~OwnClaim(s, who[s]) /\ NoFault
             \/ Fault
          /\ accounting' = [accounting EXCEPT ![s] = "failed"]
          /\ UNCHANGED claim
    /\ UNCHANGED <<phase, generation, nodeVars, lease, who, account, request, cut, lockoutVars,
                   cmdVars, drainVars>>

\* NodeSlot.clear through the lease
ClearSlot(s) ==
    /\ occupant[lease[s]] = s
    /\ occupant' = [occupant EXCEPT ![lease[s]] = None]
    /\ nodeCaller' = [nodeCaller EXCEPT ![lease[s]] = None]

\* lease.mark_disconnecting and lease.release, then the session's time adjustment and transport entry go
Release(s) ==
    /\ Up /\ pc[s] = "finished"
    /\ ClearSlot(s)
    /\ pc' = [pc EXCEPT ![s] = "released"]
    /\ UNCHANGED <<phase, generation, lease, who, accounting, dbVars, request, cut,
                   lockoutVars, cmdVars, drainVars, faults>>

Finalize(s) ==
    /\ Up /\ pc[s] = "released"
    /\ pc' = [pc EXCEPT ![s] = "tail"]
    /\ DisconnectFinalized(s, accounting[s])
    /\ UNCHANGED <<phase, generation, nodeVars, lease, who, accounting, dbVars, cut, lockoutVars,
                   cmd, evidenceFailed, drain, todo, faults>>

\* CallerConnectionCleanup::drop: the claim is abandoned by exact identity
\* unless the database fails, then session_ended runs again
Abandon(s) ==
    /\ \/ claim' = [c \in Callers |-> IF OwnClaim(s, c) THEN None ELSE claim[c]]
       \/ faults' # faults /\ UNCHANGED claim
    /\ SessionEnded(s)
    /\ UNCHANGED <<phase, generation, nodeVars, lease, who, accounting, account, cut,
                   lockoutVars, cmd, evidenceFailed, drain, todo>>

\* at the end of run_connection
Cleanup(s) ==
    /\ Up /\ pc[s] = "tail"
    /\ pc' = [pc EXCEPT ![s] = "gone"]
    /\ NoFault \/ Fault
    /\ Abandon(s)

\* on an early error return, or on a panic in the session engine
Unwind(s) ==
    /\ Up /\ pc[s] \in Engine \cup {"ended"}
    /\ pc' = [pc EXCEPT ![s] = "leasing"]
    /\ Fault
    /\ Abandon(s)

\* NodeLease::drop on the unwinding path; disconnect_finalized is never reached
DropLease(s) ==
    /\ Up /\ pc[s] = "leasing"
    /\ ClearSlot(s)
    /\ pc' = [pc EXCEPT ![s] = "aborted"]
    /\ UNCHANGED <<phase, generation, lease, who, accounting, dbVars, request, cut,
                   lockoutVars, cmdVars, drainVars, faults>>

-----------------------------------------------------------------------------
(***************************************************************************)
(* Caller lockout: set_caller_state and invalidate_caller_sessions.        *)
(***************************************************************************)
Lockout(c) ==
    /\ Up /\ c \notin scanning /\ targets[c] = {}
    /\ account' = [account EXCEPT ![c] = "Disabled"]
    /\ scanning' = scanning \cup {c}
    /\ UNCHANGED <<phase, generation, nodeVars, threadVars, claim, request, cut, targets,
                   cmdVars, drainVars, faults>>

Reactivate(c) ==
    /\ Up /\ account[c] = "Disabled"
    /\ account' = [account EXCEPT ![c] = "Active"]
    /\ UNCHANGED <<phase, generation, nodeVars, threadVars, claim, request, cut, lockoutVars,
                   cmdVars, drainVars, faults>>

\* one consistent snapshot of the node table ...
Scan(c) ==
    /\ Up /\ c \in scanning
    /\ scanning' = scanning \ {c}
    /\ targets' = [targets EXCEPT
                     ![c] = {occupant[n] : n \in {m \in Nodes : nodeCaller[m] = c}}]
    /\ UNCHANGED <<phase, generation, nodeVars, threadVars, dbVars, request, cut,
                   cmdVars, drainVars, faults>>

\* ... and one uncorrelated request per session in it, whatever has become of it
Invalidate(c, s) ==
    /\ Up /\ s \in targets[c]
    /\ targets' = [targets EXCEPT ![c] = @ \ {s}]
    /\ RequestDisconnect(s, "caller")
    /\ UNCHANGED <<phase, generation, nodeVars, threadVars, dbVars, cut, scanning,
                   cmdVars, drainVars, faults>>

\* the console's disconnect command: no exact match, no ticket kept
ConsoleDisconnect(s) ==
    /\ Up /\ pc[s] # "new"
    /\ RequestDisconnect(s, "caller")
    /\ UNCHANGED <<phase, generation, nodeVars, threadVars, dbVars, cut, lockoutVars,
                   cmdVars, drainVars, faults>>

-----------------------------------------------------------------------------
(***************************************************************************)
(* An operator's exact-session disconnect (live_control::dispatch) and the *)
(* worker it leaves behind.  Preflight tokens and replayed command         *)
(* identities only ever reject a command: they are the choice to reject.   *)
(***************************************************************************)

\* the receipt is journalled, the target validated, no shutdown in progress
AcceptDisconnect(s) ==
    /\ phase = "Running" /\ cmd[s] = "idle"
    /\ \E n \in Nodes :
         occupant[n] = s /\ nodeCaller[n] # None
    /\ cmd' = [cmd EXCEPT ![s] = "accepted"]
    /\ UNCHANGED <<phase, generation, nodeVars, threadVars, dbVars, request, cut, lockoutVars,
                   cmdTicket, evidenceFailed, drainVars, faults>>

\* under the node lock: only the first request for the session gets a worker
RequestOperatorDisconnect(s) ==
    /\ Up /\ cmd[s] = "accepted"
    /\ \/ /\ Live(s) /\ request[s] = "none"
          /\ RequestDisconnect(s, "operator")
          /\ cmd' = [cmd EXCEPT ![s] = "requested"]
          /\ cmdTicket' = [cmdTicket EXCEPT ![s] = "open"]
       \/ /\ cmd' = [cmd EXCEPT ![s] = "rejected"]
          /\ UNCHANGED <<request, cmdTicket>>
    /\ UNCHANGED <<phase, generation, nodeVars, threadVars, dbVars, cut, lockoutVars,
                   evidenceFailed, drainVars, faults>>

\* audit and event, then track(): pending_work counts the worker from here on
TrackWorker(s) ==
    /\ Up /\ cmd[s] = "requested"
    /\ \/ cmd' = [cmd EXCEPT ![s] = "tracked"] /\ NoFault
       \/ cmd' = [cmd EXCEPT ![s] = "unrecorded"] /\ Fault
    /\ UNCHANGED <<phase, generation, nodeVars, threadVars, dbVars, request, cut, lockoutVars,
                   cmdTicket, evidenceFailed, drainVars>>

\* Plausible mistake: closing whoever is on the node by now.
CloseByNode(s) ==
    cut' \in {cut} \cup {cut \cup {occupant[n]} : n \in {m \in Nodes : m = lease[s] /\ occupant[m] # None}}
\* the owned close needs the transport entry (a serial line has no handle)
EmergencyClose(s) ==
    cut' \in {cut} \cup (IF Live(s) /\ pc[s] # "leasing" THEN {cut \cup {s}} ELSE {})

\* the grace period is over, or the ticket was resolved within it
WorkerGrace(s) ==
    /\ Up /\ cmd[s] = "tracked"
    /\ cmd' = [cmd EXCEPT ![s] = IF Live(s) THEN "closing" ELSE "stale"]
    /\ IF cmdTicket[s] = "open" THEN EmergencyClose(s) ELSE UNCHANGED cut
    /\ UNCHANGED <<phase, generation, nodeVars, threadVars, dbVars, request, lockoutVars,
                   cmdTicket, evidenceFailed, drainVars, faults>>

\* Plausible mistake: a stale target is not reported.
ReportsLiveOnly(s) == cmd[s] = "closing"
ReadyToReport(s) == cmd[s] \in {"closing", "stale"}

\* what the final receipt says
ResultOf(s) ==
    IF cmdTicket[s] = "completed" THEN "session-disconnected"
    ELSE IF cmd[s] = "stale" THEN "stale-target"
    ELSE "disconnect-finalization-failed"

\* the final receipt, its audit and its event; evidence_failed when one of them
\* cannot be written
WorkerFinish(s) ==
    /\ Up /\ ReadyToReport(s)
    /\ \/ /\ cmd' = [cmd EXCEPT ![s] = ResultOf(s)]
          /\ NoFault /\ UNCHANGED evidenceFailed
       \/ /\ \E result \in {ResultOf(s), "unrecorded"} : cmd' = [cmd EXCEPT ![s] = result]
          /\ evidenceFailed' = TRUE
          /\ Fault
    /\ UNCHANGED <<phase, generation, nodeVars, threadVars, dbVars, request, cut, lockoutVars,
                   cmdTicket, drainVars>>

PendingWork == \E s \in Sessions : cmd[s] \in {"tracked", "closing", "stale"}

-----------------------------------------------------------------------------
(***************************************************************************)
(* Graceful shutdown: the request, then drain on the daemon runner.  Any   *)
(* event or audit that cannot be written makes the attempt fail.           *)
(***************************************************************************)

\* an accepted operator command or the console's flag, under the shutdown lock
RequestShutdown ==
    /\ phase = "Running"
    /\ phase' = "Requested"
    /\ UNCHANGED <<generation, nodeVars, threadVars, dbVars, request, cut, lockoutVars,
                   cmdVars, drainVars, faults>>

BeginDrain ==
    /\ phase = "Requested"
    /\ phase' = "Draining"
    /\ drain' = "collect"
    /\ todo' = Occupants
    /\ UNCHANGED <<generation, nodeVars, threadVars, dbVars, request, cut, lockoutVars,
                   cmdVars, drainTicket, faults>>

\* request_board_shutdown reuses an existing entry and its ticket
Collect(s) ==
    /\ phase = "Draining" /\ drain = "collect" /\ s \in todo
    /\ todo' = todo \ {s}
    /\ IF Live(s)
       THEN /\ RequestDisconnect(s, "board")
            /\ drainTicket' = [drainTicket EXCEPT ![s] = "open"]
       ELSE UNCHANGED <<request, drainTicket>>
    /\ UNCHANGED <<phase, generation, nodeVars, threadVars, dbVars, cut, lockoutVars,
                   cmdVars, drain, faults>>

Unresolved == {s \in Sessions : drainTicket[s] \in {"open", "dropped"}}

DrainGrace ==
    /\ phase = "Draining" /\ drain = "collect" /\ todo = {}
    /\ drain' = "closing"
    /\ todo' = {s \in Sessions : drainTicket[s] # "none"}
    /\ UNCHANGED <<phase, generation, nodeVars, threadVars, dbVars, request, cut, lockoutVars,
                   cmdVars, drainTicket, faults>>

DrainClose(s) ==
    /\ phase = "Draining" /\ drain = "closing" /\ s \in todo
    /\ todo' = todo \ {s}
    /\ IF s \in Unresolved THEN EmergencyClose(s) ELSE UNCHANGED cut
    /\ UNCHANGED <<phase, generation, nodeVars, threadVars, dbVars, request, lockoutVars,
                   cmdVars, drain, drainTicket, faults>>

\* Plausible mistake: free nodes taken as proof that everything settled.
NodesAreFree == \A n \in Nodes : occupant[n] = None
DrainClean ==
    /\ \A s \in Sessions : drainTicket[s] \in {"none", "completed"}
    /\ ~PendingWork
    /\ ~evidenceFailed
    /\ \A n \in Nodes : occupant[n] = None

\* Plausible mistake: the second wait has no deadline.
WaitsForTickets == todo = {} /\ Unresolved = {}
\* every ticket resolved, or six seconds passed
SecondWaitOver == todo = {}

DrainVerdict ==
    /\ phase = "Draining" /\ drain = "closing" /\ SecondWaitOver
    /\ drain' = "done"
    /\ \/ phase' = (IF DrainClean THEN "Complete" ELSE "Failed") /\ NoFault
       \/ phase' = "Failed" /\ Fault
    /\ UNCHANGED <<generation, nodeVars, threadVars, dbVars, request, cut, lockoutVars,
                   cmdVars, todo, drainTicket>>

DrainError ==
    /\ phase = "Draining" /\ Fault
    /\ phase' = "Failed"
    /\ drain' = "done"
    /\ UNCHANGED <<generation, nodeVars, threadVars, dbVars, request, cut, lockoutVars,
                   cmdVars, todo, drainTicket>>

-----------------------------------------------------------------------------
(***************************************************************************)
(* Process exit and crash lose everything but the database; load recovers  *)
(* the claims before it serves.                                            *)
(***************************************************************************)
Volatile ==
    /\ occupant' = [n \in Nodes |-> None]
    /\ nodeCaller' = [n \in Nodes |-> None]
    /\ pc' = [s \in Sessions |-> "new"]
    /\ lease' = [s \in Sessions |-> None]
    /\ who' = [s \in Sessions |-> None]
    /\ accounting' = [s \in Sessions |-> "none"]
    /\ request' = [s \in Sessions |-> "none"]
    /\ cut' = {}
    /\ scanning' = {}
    /\ targets' = [c \in Callers |-> {}]
    /\ cmd' = [s \in Sessions |-> "idle"]
    /\ cmdTicket' = [s \in Sessions |-> "none"]
    /\ evidenceFailed' = FALSE
    /\ drain' = "idle"
    /\ todo' = {}
    /\ drainTicket' = [s \in Sessions |-> "none"]

\* serve_with_operator returns after a complete drain
Exit ==
    /\ phase = "Complete" /\ phase' = "Down"
    /\ Volatile
    /\ UNCHANGED <<generation, dbVars, faults>>

Crash ==
    /\ Up /\ generation < MaxGenerations
    /\ phase' = "Down"
    /\ Volatile
    /\ UNCHANGED <<generation, dbVars, faults>>

\* Plausible mistake: claims left to age out.
RecoverNothing == UNCHANGED claim
\* recover_caller_sessions, under the exclusive board lock
RecoverClaims == claim' = [c \in Callers |-> None]

Load ==
    /\ phase = "Down" /\ generation < MaxGenerations
    /\ phase' = "Running"
    /\ generation' = generation + 1
    /\ RecoverClaims
    /\ UNCHANGED <<nodeVars, threadVars, account, request, cut, lockoutVars, cmdVars,
                   drainVars, faults>>

Init ==
    /\ phase = "Down" /\ generation = 0
    /\ occupant = [n \in Nodes |-> None]
    /\ nodeCaller = [n \in Nodes |-> None]
    /\ pc = [s \in Sessions |-> "new"]
    /\ lease = [s \in Sessions |-> None]
    /\ who = [s \in Sessions |-> None]
    /\ accounting = [s \in Sessions |-> "none"]
    /\ account = [c \in Callers |-> "Active"]
    /\ claim = [c \in Callers |-> None]
    /\ request = [s \in Sessions |-> "none"]
    /\ cut = {}
    /\ scanning = {} /\ targets = [c \in Callers |-> {}]
    /\ cmd = [s \in Sessions |-> "idle"]
    /\ cmdTicket = [s \in Sessions |-> "none"]
    /\ evidenceFailed = FALSE
    /\ drain = "idle" /\ todo = {}
    /\ drainTicket = [s \in Sessions |-> "none"]
    /\ faults = MaxFaults

Thread(s) ==
    \/ Connect(s) \/ (\E c \in Callers : Admit(s, c)) \/ MarkOnline(s)
    \/ EndByCaller(s) \/ EndByDisconnect(s) \/ EndByDispatch(s)
    \/ Finish(s) \/ Release(s) \/ Finalize(s)
    \/ Cleanup(s) \/ Unwind(s) \/ DropLease(s)

Operator ==
    \/ \E c \in Lockable : \/ Lockout(c) \/ Reactivate(c) \/ Scan(c)
                          \/ \E s \in Sessions : Invalidate(c, s)
    \/ \E s \in Controlled : \/ ConsoleDisconnect(s)
                           \/ AcceptDisconnect(s) \/ RequestOperatorDisconnect(s)
                           \/ TrackWorker(s) \/ WorkerGrace(s) \/ WorkerFinish(s)

Drain ==
    \/ BeginDrain \/ DrainGrace \/ DrainVerdict \/ DrainError
    \/ \E s \in Sessions : Collect(s) \/ DrainClose(s)

Next ==
    \/ \E s \in Sessions : Thread(s)
    \/ Operator
    \/ RequestShutdown \/ Drain
    \/ Exit \/ Crash \/ Load

Spec == Init /\ [][Next]_vars

\* Every thread keeps running once it has something to do; each wait in the code
\* is bounded (a 100 ms poll, a grace period, an idle or call deadline).  Nobody
\* has to call, to lock anybody out, to shut down, to fail or to restart.
Fairness ==
    /\ \A s \in Sessions :
         /\ WF_vars(MarkOnline(s)) /\ WF_vars(EndByDisconnect(s)) /\ WF_vars(EndByDispatch(s))
         /\ WF_vars(Finish(s)) /\ WF_vars(Release(s)) /\ WF_vars(Finalize(s))
         /\ WF_vars(Cleanup(s)) /\ WF_vars(DropLease(s))
         /\ WF_vars(RequestOperatorDisconnect(s)) /\ WF_vars(TrackWorker(s))
         /\ WF_vars(WorkerGrace(s)) /\ WF_vars(WorkerFinish(s))
         /\ WF_vars(Collect(s)) /\ WF_vars(DrainClose(s))
         /\ \A c \in Callers : WF_vars(Invalidate(c, s))
    /\ \A c \in Callers : WF_vars(Scan(c))
    /\ WF_vars(BeginDrain) /\ WF_vars(DrainGrace) /\ WF_vars(DrainVerdict)

FairSpec == Spec /\ Fairness

-----------------------------------------------------------------------------
(***************************************************************************)
(* Properties.                                                             *)
(***************************************************************************)

\* Every variable of the daemon and of its database has its type.
TypeOK ==
    /\ phase \in Phases /\ generation \in 0..MaxGenerations
    /\ occupant \in [Nodes -> Sessions \cup {None}]
    /\ nodeCaller \in [Nodes -> Callers \cup {None}]
    /\ pc \in [Sessions -> PCs]
    /\ lease \in [Sessions -> Nodes \cup {None}]
    /\ who \in [Sessions -> Callers \cup {None}]
    /\ accounting \in [Sessions -> {"none", "completed", "failed"}]
    /\ account \in [Callers -> {"Active", "Disabled"}]
    /\ claim \in [Callers -> Claims \cup {None}]
    /\ request \in [Sessions -> {"none", "caller"} \cup Correlated]
    /\ cut \subseteq Sessions
    /\ scanning \subseteq Callers
    /\ targets \in [Callers -> SUBSET Sessions]
    /\ cmd \in [Sessions -> Cmds]
    /\ cmdTicket \in [Sessions -> Tickets]
    /\ evidenceFailed \in BOOLEAN
    /\ drain \in {"idle", "collect", "closing", "done"}
    /\ todo \subseteq Sessions
    /\ drainTicket \in [Sessions -> Tickets]
    /\ faults \in 0..MaxFaults

\* A node is shown as a session's exactly while that session's thread holds the
\* lease on it: no node leaks, none is cleared by another session, none shared.
NodeOwnership ==
    \A n \in Nodes, s \in Sessions :
        occupant[n] = s <=> (pc[s] \in Holding /\ lease[s] = n)

\* A caller is in at most one authenticated session at a time, across every
\* interleaving of admission, settlement, abandonment, crash and restart.
OneSessionPerCaller ==
    \A s, t \in Sessions :
        /\ who[s] # None /\ who[s] = who[t]
        /\ {pc[s], pc[t]} \subseteq {"admitted", "online", "ended"}
        => s = t

\* While no failure was injected, a durable claim always belongs to a running
\* thread of this daemon that still holds the claimed node: a crash leaves no
\* claim that outlives the next load, a normal end none that outlives the node.
ClaimsAreOwned ==
    Up /\ faults = MaxFaults =>
        \A c \in Callers : claim[c] # None =>
            /\ claim[c].generation = generation
            /\ who[claim[c].session] = c
            /\ pc[claim[c].session] \in {"admitted", "online", "ended"}
            /\ occupant[claim[c].node] = claim[c].session

\* A correlated request is always met by its session's finalizer, unless the
\* thread unwinds: none is entered after disconnect_finalized has run.
CorrelatedRequestsAreMet ==
    \A s \in Sessions : request[s] \in Correlated =>
        pc[s] \in Holding \cup {"released", "aborted"}

\* Nobody is waiting on an open ticket without an entry that can resolve it.
OpenTicketsAreLinked ==
    \A s \in Sessions :
        /\ cmdTicket[s] = "open" => request[s] \in Correlated
        /\ drainTicket[s] = "open" => request[s] # "none"

\* Only sessions somebody asked to disconnect ever have their transport shut.
CutsOnlyTargets ==
    \A s \in cut' \ cut : request[s] # "none" \/ drainTicket[s] = "dropped"
OnlyTargetsAreCut == [][CutsOnlyTargets]_vars

\* A completed receipt is earned: the session settled with the database, left
\* its node and ran its finalizer.
DisconnectReceiptIsTrue ==
    \A s \in Sessions : cmd[s] = "session-disconnected" =>
        pc[s] \in {"tail", "gone"} /\ accounting[s] = "completed"

\* From the moment drain takes its snapshot, every occupied node is one it has
\* a ticket for or still has to visit: no session slips in behind the barrier.
DrainSeesEverySession ==
    phase = "Draining" =>
        \A n \in Nodes : occupant[n] # None =>
            \/ drainTicket[occupant[n]] # "none"
            \/ drain = "collect" /\ occupant[n] \in todo

\* A clean shutdown leaves no session holding a node, no thread inside the
\* session engine, and every session drain asked to leave has settled.
CompleteIsClean ==
    phase = "Complete" =>
        /\ \A s \in Sessions : pc[s] \notin Holding
        /\ \A s \in Sessions : drainTicket[s] # "none" => accounting[s] = "completed"

\* An accepted shutdown ends: the daemon runner always reaches a verdict.
ShutdownEnds ==
    phase = "Requested" ~> phase \in {"Complete", "Failed", "Down"}

\* A correlated disconnect always ends in its session's finalizer, however the
\* caller behaves, unless the thread unwinds past it.
DisconnectIsMet ==
    \A s \in Sessions : request[s] \in Correlated ~> request[s] = "none" \/ pc[s] = "aborted"

\* A locked-out caller is out: even a session the lockout did not find leaves
\* at the latest when its next command is dispatched.
LockedOutLeaves ==
    \A s \in Sessions, c \in Callers :
        (account[c] = "Disabled" /\ who[s] = c /\ pc[s] = "online")
            ~> (pc[s] # "online" \/ account[c] = "Active")

\* An accepted operator disconnect gets a final answer.
CommandIsAnswered ==
    \A s \in Sessions :
        cmd[s] = "accepted" ~> cmd[s] \in Results \cup {"rejected", "unrecorded", "idle"}

-----------------------------------------------------------------------------
(***************************************************************************)
(* What the documentation says and the code does not guarantee.            *)
(***************************************************************************)

\* docs/research/m039-tranche-7-b021b3-shutdown-integrated.md, step 7: a clean
\* shutdown is one that has verified drained control evidence.
CompleteHasDrainedEvidence ==
    phase = "Complete" => \A s \in Sessions : cmd[s] # "requested"

\* The same report: the attempt reports failure if safe finalization or evidence
\* persistence cannot be established.  Here, a failed verdict has such a cause.
FailedShutdownHasCause ==
    [][phase = "Draining" /\ phase' = "Failed" =>
         \/ faults' # faults \/ evidenceFailed \/ PendingWork
         \/ \E s \in Sessions : \/ pc[s] \in Holding \cup {"released", "aborted"}
                                \/ accounting[s] = "failed"]_vars

\* docs/sfng-caller-access.md: disabling a caller requests disconnection of that
\* caller's active sessions.
LockoutFindsSession ==
    \A c \in Callers, s \in Sessions :
        /\ account[c] = "Disabled" /\ c \notin scanning /\ targets[c] = {}
        /\ who[s] = c /\ pc[s] = "online"
        => request[s] # "none"
=============================================================================
