--------------------------- MODULE CircuitControl ---------------------------
(***************************************************************************)
(* Subscription requests of a child to its CircuitNET parent.  The child's *)
(* operator queues a request; each exchange with the parent carries the    *)
(* unsettled ones, least recently answered first; the parent commits an    *)
(* answer for each before it returns them, and the child settles what is   *)
(* final.  Lost answers are recovered by asking again.                     *)
(*                                                                         *)
(* One codename; the parent's topology and profile admit the child, so no  *)
(* request is unauthorized or malformed.  Both boards may be restored from *)
(* a backup.                                                               *)
(***************************************************************************)
EXTENDS Integers, Sequences, SequencesExt, FiniteSets

CONSTANTS Requests,     \* request identities, never drawn twice
          Operations,   \* those the child's operator uses
          Limit,        \* requests of one exchange, 16 in the code
          Policies, Snapshots,  \* what the parent may choose, who has a backup
          MaxEdits, MaxFaults,  \* bounds: operator commands, broken sessions
          None

VARIABLES
    child,    \* [out: request -> row or None, order: by last answer]
    parent,   \* [in: request -> row or None, dossier, policy, changes]
    avail,    \* the parent carries the codename
    sess,     \* the control phase of the exchange: the requests it carries, and
              \*   the parent's results
    backup,   \* saved child and parent
    edits, faults
vars == <<child, parent, avail, sess, backup, edits, faults>>

Terminal == {"applied", "already-subscribed", "already-unsubscribed", "denied",
             "unknown-codename"}
Outcomes == Terminal \cup {"accepted", "pending-approval"}
Ops == {"subscribe", "unsubscribe", "query"}
Result == [outcome : Outcomes, listed : BOOLEAN]
Says(o) == [outcome |-> o, listed |-> FALSE]
Outgoing == [op : Ops, result : Result, settled : BOOLEAN]
Incoming == [op : Ops, result : Result]
ControlAssumption ==
    /\ Limit \in Nat \ {0} /\ {MaxEdits, MaxFaults} \subseteq Nat
    /\ Operations \subseteq Ops
    /\ Policies \subseteq {"require-approval", "auto-approve", "deny"}
    /\ None \notin Outgoing \cup Incoming
Child == [out : [Requests -> Outgoing \cup {None}], order : Seq(Requests)]
Parent == [in : [Requests -> Incoming \cup {None}], dossier : BOOLEAN,
           policy : {"require-approval", "auto-approve", "deny"},
           changes : [Requests -> Nat]]
Idle == [at |-> "idle", batch |-> {}, results |-> [r \in Requests |-> None]]

TypeOK ==
    /\ child \in Child /\ parent \in Parent /\ avail \in BOOLEAN
    /\ sess.at \in {"idle", "requests", "results"}
    /\ sess.batch \subseteq Requests /\ Cardinality(sess.batch) <= Limit
    /\ sess.results \in [Requests -> Result \cup {None}]
    /\ \A r \in Requests : sess.results[r] # None => r \in sess.batch
    /\ ToSet(child.order) = {r \in Requests : child.out[r] # None}
    /\ \A r \in Requests : child.out[r] # None /\ child.out[r].settled
            => child.out[r].result.outcome \in Terminal
    /\ edits \in 0..MaxEdits /\ faults \in 0..MaxFaults

Init ==
    /\ child = [out |-> [r \in Requests |-> None], order |-> <<>>]
    /\ parent = [in |-> [r \in Requests |-> None], dossier |-> FALSE,
                 policy |-> "require-approval", changes |-> [r \in Requests |-> 0]]
    /\ avail = TRUE /\ sess = Idle
    /\ backup = [child |-> None, parent |-> None]
    /\ edits = 0 /\ faults = 0

-----------------------------------------------------------------------------
(* The operators.                                                          *)

(* Identities are random: one that was ever drawn, by a child restored     *)
(* since, is not drawn again.                                              *)
New(r) == child.out[r] = None /\ parent.in[r] = None
          /\ \A b \in {backup.child} \ {None} : b.out[r] = None

Request(r, op) ==
    /\ New(r)
    /\ child' = [out |-> [child.out EXCEPT ![r] =
                    [op |-> op, result |-> Says("accepted"), settled |-> FALSE]],
                 order |-> Append(child.order, r)]
    /\ UNCHANGED <<parent, avail, sess, backup, edits, faults>>

Edit == edits < MaxEdits /\ edits' = edits + 1

Retry(r) ==
    /\ Edit /\ child.out[r] # None
    /\ child' = [out |-> [child.out EXCEPT ![r] =
                    [op |-> @.op, result |-> @.result, settled |-> FALSE]],
                 order |-> child.order]
    /\ UNCHANGED <<parent, avail, sess, backup, faults>>

SetPolicy(p) ==
    /\ Edit /\ p \in Policies
    /\ parent' = [in |-> parent.in, dossier |-> parent.dossier, policy |-> p,
                  changes |-> parent.changes]
    /\ UNCHANGED <<child, avail, sess, backup, faults>>

Subscribe(wanted) ==
    /\ Edit /\ avail
    /\ parent' = [in |-> parent.in, dossier |-> wanted, policy |-> parent.policy,
                  changes |-> parent.changes]
    /\ UNCHANGED <<child, avail, sess, backup, faults>>

(* Mappings are edited on a stopped board.                                 *)
Map ==
    /\ Edit /\ sess = Idle
    /\ avail' = ~avail
    /\ UNCHANGED <<child, parent, sess, backup, faults>>

-----------------------------------------------------------------------------
(* The parent: one transaction for a request or a decision.                *)

Wants(op) == op = "subscribe"
Outcome(op) ==
    CASE ~avail -> "unknown-codename"
      [] avail /\ parent.dossier = Wants(op) ->
            IF Wants(op) THEN "already-subscribed" ELSE "already-unsubscribed"
      [] OTHER -> "applied"

(* The parent's row and dossier after the answer outcome to r.             *)
Answered(r, op, outcome) ==
    LET changed == outcome = "applied" /\ op # "query"
    IN [in |-> [parent.in EXCEPT ![r] = [op |-> op, result |-> [outcome |-> outcome,
                        listed |-> op = "query" /\ parent.dossier]]],
        dossier |-> IF changed THEN Wants(op) ELSE parent.dossier,
        policy |-> parent.policy,
        changes |-> IF changed THEN [parent.changes EXCEPT ![r] = @ + 1]
                    ELSE parent.changes]

FirstOutcome(op) ==
    CASE op = "query" -> "applied"
      [] op # "query" /\ ~avail -> "unknown-codename"
      [] op # "query" /\ avail /\ parent.policy = "deny" -> "denied"
      [] op # "query" /\ avail /\ parent.policy = "require-approval" -> "pending-approval"
      [] OTHER -> Outcome(op)

Known_Forgotten(r) == FALSE
Known(r) == parent.in[r] # None

(* The requests of the session stand in the child's order.                 *)
Before(q, r) == \E i, j \in DOMAIN child.order :
    i < j /\ child.order[i] = q /\ child.order[j] = r
First(r, S) == r \in S /\ \A q \in S : ~Before(q, r)

Receive(r) ==
    LET op == child.out[r].op
        after == IF Known(r) THEN parent ELSE Answered(r, op, FirstOutcome(op))
    IN /\ sess.at = "requests"
       /\ First(r, {q \in sess.batch : sess.results[q] = None})
       /\ parent' = after
       /\ sess' = [at |-> "requests", batch |-> sess.batch,
                   results |-> [sess.results EXCEPT ![r] = after.in[r].result]]
       /\ UNCHANGED <<child, avail, backup, edits, faults>>

Decidable_Again(r) == parent.in[r] # None /\ parent.in[r].op # "query"
Decidable(r) ==
    parent.in[r] # None /\ parent.in[r].result.outcome = "pending-approval"

Decide(r, approve) ==
    /\ Decidable(r)
    /\ LET op == parent.in[r].op
       IN parent' = Answered(r, op,
             IF ~approve \/ parent.policy = "deny" THEN "denied" ELSE Outcome(op))
    /\ UNCHANGED <<child, avail, sess, backup, edits, faults>>

-----------------------------------------------------------------------------
(* The exchange, as the child sees it.                                     *)
Unsettled == {i \in DOMAIN child.order : ~child.out[child.order[i]].settled}
Pending_Unlimited == {child.order[i] : i \in Unsettled}
Pending == {child.order[i] : i \in {k \in Unsettled :
                Cardinality({j \in Unsettled : j <= k}) <= Limit}}

Start ==
    /\ sess.at = "idle"
    /\ sess' = [at |-> "requests", batch |-> Pending, results |-> Idle.results]
    /\ UNCHANGED <<child, parent, avail, backup, edits, faults>>

Return ==
    /\ sess.at = "requests" /\ \A r \in sess.batch : sess.results[r] # None
    /\ sess' = IF sess.batch = {} THEN Idle
               ELSE [at |-> "results", batch |-> sess.batch, results |-> sess.results]
    /\ UNCHANGED <<child, parent, avail, backup, edits, faults>>

Conflict_Never(old, new) == FALSE
Conflict(old, new) == old.outcome \in Terminal /\ old # new

ToEnd_Kept(order, r) == order
ToEnd(order, r) ==
    LET at == CHOOSE i \in DOMAIN order : order[i] = r
    IN  Append(RemoveAt(order, at), r)

(* Each result is persisted on its own.  A final result that differs from  *)
(* the one on record fails the exchange, messages and all.                 *)
Persist(r) ==
    LET new == sess.results[r]
        old == child.out[r]
    IN /\ sess.at = "results" /\ First(r, sess.batch)
       /\ IF Conflict(old.result, new)
          THEN sess' = Idle /\ UNCHANGED child
          ELSE /\ child' = [out |-> [child.out EXCEPT ![r] =
                                [op |-> old.op, result |-> new,
                                 settled |-> new.outcome \in Terminal]],
                            order |-> ToEnd(child.order, r)]
               /\ sess' = IF sess.batch = {r} THEN Idle
                          ELSE [at |-> "results", batch |-> sess.batch \ {r},
                                results |-> [sess.results EXCEPT ![r] = None]]
       /\ UNCHANGED <<parent, avail, backup, edits, faults>>

Break ==
    /\ sess.at # "idle" /\ faults < MaxFaults
    /\ faults' = faults + 1
    /\ sess' = Idle
    /\ UNCHANGED <<child, parent, avail, backup, edits>>

-----------------------------------------------------------------------------
(* Backup and restore, of stopped boards.                                  *)
Save ==
    /\ sess = Idle
    /\ \/ "child" \in Snapshots /\ backup.child = None
          /\ backup' = [child |-> child, parent |-> backup.parent]
       \/ "parent" \in Snapshots /\ backup.parent = None
          /\ backup' = [child |-> backup.child, parent |-> parent]
    /\ UNCHANGED <<child, parent, avail, sess, edits, faults>>

Restore ==
    /\ Edit /\ sess = Idle
    /\ \/ backup.child # None /\ child' = backup.child /\ UNCHANGED parent
       \/ backup.parent # None /\ parent' = backup.parent /\ UNCHANGED child
    /\ UNCHANGED <<avail, sess, backup, faults>>

Exchange == Start \/ Return \/ \E r \in Requests : Receive(r) \/ Persist(r)

Next ==
    \/ \E r \in Requests, op \in Operations : Request(r, op)
    \/ \E r \in Requests : Retry(r) \/ \E approve \in BOOLEAN : Decide(r, approve)
    \/ \E p \in Policies : SetPolicy(p)
    \/ \E wanted \in BOOLEAN : Subscribe(wanted)
    \/ Map \/ Exchange \/ Break \/ Save \/ Restore

Spec == Init /\ [][Next]_vars
(* Boards poll on a schedule, and an exchange goes on until it breaks.     *)
Fairness == WF_vars(Exchange)
FairSpec == Spec /\ Fairness

-----------------------------------------------------------------------------
(* A request changes the dossier at most once in the life of the parent's  *)
(* database, however often it is repeated, retried or decided, so that a   *)
(* late repetition never undoes what an operator did since                 *)
(* (circuitnet_receive_control, circuitnet_decide_control).                *)
AppliedOnce == \A r \in Requests : parent.changes[r] <= 1

(* Without a restore of the parent, what the child has on record as final  *)
(* is what the parent has on record (circuitnet_control_result).           *)
ResultsAgree ==
    \A r \in Requests :
        (child.out[r] # None /\ child.out[r].result.outcome \in Terminal)
            => parent.in[r] # None /\ parent.in[r].result = child.out[r].result

(* A final result never changes at the child, whatever a parent restored   *)
(* to an earlier state answers now (circuitnet_control_result).            *)
TerminalStays ==
    ~Restore => \A r \in Requests :
      (child.out[r] # None /\ child.out[r].result.outcome \in Terminal)
          => child'.out[r].result = child.out[r].result

(* What the control requests promise.                                      *)
RequestsApplyOnce ==
    /\ [](/\ TypeOK /\ AppliedOnce
          /\ "parent" \notin Snapshots => ResultsAgree)
    /\ [][TerminalStays]_vars

(* Every request reaches the parent, although there may be more requests   *)
(* than an exchange takes and nobody decides the ones already there        *)
(* (circuitnet_pending_controls orders by the last answer).                *)
EveryRequestIsHeard ==
    \A r \in Requests : (child.out[r] # None) ~> (parent.in[r] # None)
=============================================================================
