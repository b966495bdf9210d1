----------------------------- MODULE CircuitNet -----------------------------
(***************************************************************************)
(* CircuitNET store-and-forward: every board of one network profile, its   *)
(* durable per-neighbor delivery queue, and the exchange of batches and    *)
(* receipts between neighbors, live or by files an operator carries.       *)
(*                                                                         *)
(* A batch is content-addressed and its content follows from the sender's  *)
(* database, so a batch is a hop and a set of messages.  A batch once      *)
(* prepared may reach the neighbor late, many times or never, and so may   *)
(* the receipt it earned: offline files travel like that, and a live       *)
(* exchange is one such delivery inside a session.  The path a message     *)
(* carries is the unique tree path from its origin to the sender, checked  *)
(* at every import.                                                        *)
(***************************************************************************)
EXTENDS Integers, FiniteSets, Sequences

CONSTANTS
    Nodes, Parent,       \* Profile.topology: the parent of each node, None for the top
    Ends,                \* nodes of role End; Host and Root nodes can transit
    Messages,            \* messages callers write
    Origin, Code, Dest,  \* their origin, codename, and destination or None
    Codes,
    None,
    Offline,             \* boards with Profile.trusted_offline: exchange by files
    Dossiers0, Mapping0, \* the policy each board starts with
    MaxBatch,            \* members of a batch: 32 in the code, or fewer when bytes run out
    MaxAttempts,         \* delivery attempts of a queue row: 12 in the code
    MaxWaiting,          \* queue rows per neighbor not yet accepted: 1000 in the code
    MaxChanges,          \* bound: operator changes of policy explored
    MaxLosses            \* bound: sessions that end without recording a failure

Hops == {h \in Nodes \X Nodes : Parent[h[1]] = h[2] \/ Parent[h[2]] = h[1]}
Mappings == [send: BOOLEAN, receive: BOOLEAN]

ASSUME NetworkAssumption ==
    /\ Parent \in [Nodes -> Nodes \cup {None}]
    /\ Ends \subseteq Nodes /\ Offline \subseteq Nodes
    /\ Origin \in [Messages -> Nodes]
    /\ Code \in [Messages -> Codes]
    /\ Dest \in [Messages -> Nodes \cup {None}]
    /\ None \notin Nodes /\ None \notin Mappings
    /\ Dossiers0 \in [Nodes -> SUBSET (Nodes \X Codes)]
    /\ Mapping0 \in [Nodes -> [Codes -> Mappings \cup {None}]]
    /\ MaxBatch \in Nat \ {0} /\ MaxAttempts \in Nat \ {0}
    /\ MaxWaiting \in Nat /\ MaxChanges \in Nat /\ MaxLosses \in Nat

VARIABLES
    enabled,    \* Profile.enabled of each board
    dossiers,   \* circuitnet_dossiers: subscribed <<neighbor, codename>> pairs
    mapping,    \* circuitnet_mappings: codename to conference, with its flags
    copy,       \* messages and circuitnet_messages: a board's copy of a message
    queue,      \* network_outbound_queue.state, one row per hop and message
    attempts,   \* network_outbound_queue.attempts
    artifact,   \* network_outbound_queue.artifact_id, as the batch's members
    offers,     \* circuitnet_batches of all boards
    imports,    \* circuitnet_imports of all boards; each earned a receipt
    pending,    \* Session.pending: the batch a live session waits to be acknowledged
    granted,    \* history: every subscription a board ever had
    changes,    \* operator changes left to explore
    losses      \* unrecorded session ends left to explore

policyVars == <<enabled, dossiers, mapping, granted, changes>>
queueVars == <<queue, attempts, artifact>>
vars == <<policyVars, copy, queueVars, offers, imports, pending, losses>>

Copies == {"absent", "posted", "conference", "transit", "removed"}
RowStates == {"none", "pending", "ready", "retry", "held", "failed", "accepted"}
Batches == Hops \X SUBSET Messages

-----------------------------------------------------------------------------
(***************************************************************************)
(* Topology and policy.                                                    *)
(***************************************************************************)
Neighbors(n) == {b \in Nodes : <<n, b>> \in Hops}
CanTransit(n) == n \notin Ends
Walks == UNION {[1..k -> Nodes] : k \in 1..Cardinality(Nodes)}

SimplePath(p, a, b) ==
    /\ p[1] = a /\ p[Len(p)] = b
    /\ \A i \in 1..(Len(p) - 1) : <<p[i], p[i + 1]>> \in Hops
    /\ \A i, j \in 1..Len(p) : p[i] = p[j] => i = j

\* What Topology.validate accepts is a tree: distinct nodes, one without a parent,
\* and no cycle on the way up to it.
ASSUME TreeAssumption ==
    /\ IsFiniteSet(Nodes)
    /\ \A a, b \in Nodes : \E p \in Walks :
           SimplePath(p, a, b) /\ \A q \in Walks : SimplePath(q, a, b) => q = p

\* Topology.path: the only simple path of the tree
Path == [d \in Nodes \X Nodes |-> CHOOSE p \in Walks : SimplePath(p, d[1], d[2])]
OnPath == [d \in Nodes \X Nodes |-> {Path[d][i] : i \in 1..Len(Path[d])}]
On(n, a, b) == n \in OnPath[<<a, b>>]

Directed(m) == Dest[m] # None
Subscribed(n, b, c) == <<b, c>> \in dossiers[n]
\* the message is active in the version that was published
KnownActive(n, m) == copy[n][m] \in {"conference", "transit"}
\* the message has a row in circuitnet_messages
Known(n, m) == copy[n][m] \in {"conference", "transit", "removed"}
Sends(n, c) == mapping[n][c] # None /\ mapping[n][c].send

\* Plausible mistake: only broadcast messages are routed on.
BroadcastTargets(n, m) ==
    {b \in Neighbors(n) : ~On(b, Origin[m], n) /\ ~Directed(m) /\ Subscribed(n, b, Code[m])}
\* publish: the neighbors a message is queued for
Targets(n, m) ==
    {b \in Neighbors(n) :
        /\ ~On(b, Origin[m], n)
        /\ IF Directed(m) THEN n # Dest[m] /\ On(b, n, Dest[m])
                          ELSE Subscribed(n, b, Code[m])}

Waiting(h) == {m \in Messages : queue[h][m] \notin {"none", "accepted"}}
HasRoom(n, S) ==
    \A b \in Neighbors(n) :
        LET new == {m \in S : b \in Targets(n, m)}
        IN  new # {} => Cardinality(Waiting(<<n, b>>)) + Cardinality(new) <= MaxWaiting

Publish(n, S) ==
    queue' = [h \in Hops |-> [m \in Messages |->
                 IF h[1] = n /\ m \in S /\ h[2] \in Targets(n, m)
                 THEN "pending" ELSE queue[h][m]]]

\* eligible: what a board may send right now
Eligible(h, m) ==
    LET n == h[1]  c == Code[m]
    IN  /\ enabled[n] /\ KnownActive(n, m)
        /\ Directed(m) \/ Subscribed(n, h[2], c)
        /\ IF Directed(m) /\ Origin[m] # n
           THEN CanTransit(n) /\ (mapping[n][c] # None => mapping[n][c].send)
           ELSE IF mapping[n][c] # None
                THEN mapping[n][c].send /\ copy[n][m] = "conference"
                ELSE CanTransit(n)

\* Plausible mistake: what the operator unsubscribed may still come in.
AcceptableUnsubscribed(h, m) ==
    LET b == h[2]  map == mapping[b][Code[m]]
    IN  IF Directed(m) THEN On(b, Origin[m], Dest[m]) ELSE CanTransit(b) \/ map # None
\* the policy of circuitnet_import_inner on a message the board does not know
Acceptable(h, m) ==
    LET n == h[1]  b == h[2]  map == mapping[b][Code[m]]
    IN  /\ ~On(b, Origin[m], n)
        /\ IF Directed(m)
           THEN On(b, Origin[m], Dest[m]) /\ (CanTransit(b) \/ b = Dest[m])
           ELSE Subscribed(b, n, Code[m])
        /\ IF Directed(m) /\ b # Dest[m]
           THEN map # None => map.receive /\ map.send
           ELSE IF map # None THEN map.receive ELSE ~Directed(m) /\ CanTransit(b)

\* Plausible mistake: an imported message filed like one a caller wrote here.
PlacedAsNative(b, m) == IF mapping[b][Code[m]] # None THEN "posted" ELSE "transit"
\* insert_native: in the mapped conference, or in transit custody out of sight
Placement(b, m) ==
    IF mapping[b][Code[m]] # None /\ (Directed(m) => b = Dest[m]) THEN "conference" ELSE "transit"

-----------------------------------------------------------------------------
(***************************************************************************)
(* Writing, scanning and offering.                                         *)
(***************************************************************************)

\* A caller writes a message in a mapped conference; only a mapping that sends
\* at that moment gives it an identity proof for the network.
Post(m) ==
    LET n == Origin[m]
    IN  /\ copy[n][m] = "absent"
        /\ enabled[n] /\ Sends(n, Code[m])
        /\ copy' = [copy EXCEPT ![n][m] = "posted"]
        /\ UNCHANGED <<policyVars, queueVars, offers, imports, pending, losses>>

Unscanned(n) == {m \in Messages : copy[n][m] = "posted" /\ Sends(n, Code[m])}

\* circuitnet_scan: one transaction; no room for one of them aborts all
Scan(n) ==
    LET S == Unscanned(n)
    IN  /\ enabled[n] /\ S # {}
        /\ HasRoom(n, S)
        /\ copy' = [copy EXCEPT ![n] = [m \in Messages |->
                        IF m \in S THEN "conference" ELSE copy[n][m]]]
        /\ Publish(n, S)
        /\ UNCHANGED <<policyVars, attempts, artifact, offers, imports, pending, losses>>

\* Plausible mistake: a held row keeps its offer at the head of the line.
HeldPrior(h) ==
    {artifact[h][m] : m \in {x \in Messages :
        queue[h][x] \in {"ready", "retry", "held"} /\ attempts[h][x] < MaxAttempts}} \ {{}}
\* the offers that must be finished before new traffic is added
Prior(h) ==
    {artifact[h][m] : m \in {x \in Messages :
        queue[h][x] \in {"ready", "retry"} /\ attempts[h][x] < MaxAttempts}} \ {{}}

\* the rows of the prior offer the code finds first, or all rows without one
Candidates(h, prior) ==
    {m \in Messages : /\ queue[h][m] \in {"pending", "ready", "retry"}
                      /\ attempts[h][m] < MaxAttempts
                      /\ prior # {} => artifact[h][m] = prior}

\* S goes into a batch of its own, D is held
Offer(h, S, D) ==
    /\ queue' = [queue EXCEPT ![h] = [m \in Messages |->
                    IF m \in S THEN "ready" ELSE IF m \in D THEN "held" ELSE @[m]]]
    /\ artifact' = [artifact EXCEPT ![h] = [m \in Messages |-> IF m \in S THEN S ELSE @[m]]]
    /\ pending' = [pending EXCEPT ![h] = S]
    /\ offers' = IF S = {} THEN offers ELSE offers \cup {<<h, S>>}

\* circuitnet_prepare: candidates are visited in the order of their local
\* numbers until the batch is full; those not eligible are held on the way.
\* An empty batch still commits the holds.
Prepare(h) ==
    /\ enabled[h[1]] /\ pending[h] = {}
    /\ \E prior \in (IF Prior(h) = {} THEN {{}} ELSE Prior(h)) :
       LET C == Candidates(h, prior)
           E == {m \in C : Eligible(h, m)}
       IN  \E S \in SUBSET E, D \in SUBSET (C \ E) :
             /\ Cardinality(S) <= MaxBatch
             /\ Cardinality(S) < MaxBatch => S = E /\ D = C \ E
             /\ S \cup D # {}
             /\ Offer(h, S, D)
    /\ UNCHANGED <<policyVars, copy, attempts, imports, losses>>

\* Session.send scans under the network lock before it prepares, and a scan that
\* fails ends the session: nothing is prepared while new posts find no room.
PollSend(h) == Unscanned(h[1]) = {} /\ Prepare(h)

Idle(n) == \A h \in Hops : h[1] = n => pending[h] = {}
\* the cold command prepares what is queued, into a file
Export(h) == h[1] \in Offline /\ Idle(h[1]) /\ Prepare(h)

-----------------------------------------------------------------------------
(***************************************************************************)
(* Importing, acknowledging and failing.                                   *)
(***************************************************************************)

\* Plausible mistake: identity is not looked up, the batch is what is new.
AllMembers(b, S) == S
\* the members of a batch the board does not have yet; the others are duplicates
NewMembers(b, S) == {m \in S : ~Known(b, m)}

\* circuitnet_import of a batch not seen before, in one transaction: any member
\* the policy refuses, or no room to forward one, refuses the whole batch.  A
\* batch seen before only earns its receipt again.
Import(h, S) ==
    LET b == h[2]  new == NewMembers(b, S)
    IN  /\ <<h, S>> \in offers /\ <<h, S>> \notin imports
        /\ enabled[b]
        /\ \A m \in new : Acceptable(h, m)
        /\ HasRoom(b, new)
        /\ copy' = [copy EXCEPT ![b] = [m \in Messages |->
                        IF m \in new THEN Placement(b, m) ELSE copy[b][m]]]
        /\ Publish(b, new)
        /\ imports' = imports \cup {<<h, S>>}
        /\ UNCHANGED <<policyVars, attempts, artifact, offers, pending, losses>>

\* Plausible mistake: a receipt settles everything in flight to the neighbor.
InFlight(h, S) == {m \in Messages : m \in S \/ queue[h][m] = "ready"}
\* the rows of circuitnet_batch_members a receipt settles, in whatever state
Settled(h, S) == S

\* circuitnet_acknowledge: by the live session that waits for it, or from a
\* file while the board is stopped
Acknowledge(h, S) ==
    /\ <<h, S>> \in imports
    /\ pending[h] = S \/ (h[1] \in Offline /\ Idle(h[1]))
    /\ queue' = [queue EXCEPT ![h] = [m \in Messages |->
                    IF m \in Settled(h, S) THEN "accepted" ELSE @[m]]]
    /\ pending' = [pending EXCEPT ![h] = {}]
    /\ UNCHANGED <<policyVars, copy, attempts, artifact, offers, imports, losses>>

\* Plausible mistake: a failed transfer counts against every member.
AllOf(h) == pending[h]
\* the rows circuitnet_failed counts an attempt against
Counted(h) == {m \in pending[h] : queue[h][m] = "ready" /\ attempts[h][m] < MaxAttempts}

\* Session.finish after an error: refused, timed out, cut off; or an export
\* whose file could not be written
LinkFailed(h) ==
    /\ pending[h] # {}
    /\ queue' = [queue EXCEPT ![h] = [m \in Messages |->
                    IF m \notin Counted(h) THEN @[m]
                    ELSE IF attempts[h][m] = MaxAttempts - 1 THEN "failed" ELSE "retry"]]
    /\ attempts' = [attempts EXCEPT ![h] = [m \in Messages |->
                       IF m \in Counted(h) THEN @[m] + 1 ELSE @[m]]]
    /\ pending' = [pending EXCEPT ![h] = {}]
    /\ UNCHANGED <<policyVars, copy, artifact, offers, imports, losses>>

\* A crash in mid-session, or an export whose file is on its way: rows stay ready.
LinkLost(h) ==
    /\ pending[h] # {} /\ losses > 0
    /\ losses' = losses - 1
    /\ pending' = [pending EXCEPT ![h] = {}]
    /\ UNCHANGED <<policyVars, copy, queueVars, offers, imports>>

-----------------------------------------------------------------------------
(***************************************************************************)
(* The operator.                                                           *)
(***************************************************************************)
Change == changes > 0 /\ changes' = changes - 1

\* circuitnet_subscribe
Subscribe(n, b, c) ==
    /\ Change
    /\ b \in Neighbors(n) /\ ~Subscribed(n, b, c)
    /\ dossiers' = [dossiers EXCEPT ![n] = @ \cup {<<b, c>>}]
    /\ granted' = granted \cup {<<n, b, c>>}
    /\ UNCHANGED <<enabled, mapping, copy, queueVars, offers, imports, pending, losses>>

\* Plausible mistake: accepted rows are held as well.
HeldEvenIfAccepted(h, c) == {m \in Messages : queue[h][m] # "none" /\ ~Directed(m) /\ Code[m] = c}
\* what an unsubscription holds
HeldByUnsubscribe(h, c) == {m \in Waiting(h) : ~Directed(m) /\ Code[m] = c}

Unsubscribe(n, b, c) ==
    /\ Change
    /\ Subscribed(n, b, c)
    /\ dossiers' = [dossiers EXCEPT ![n] = @ \ {<<b, c>>}]
    /\ queue' = [queue EXCEPT ![<<n, b>>] = [m \in Messages |->
                    IF m \in HeldByUnsubscribe(<<n, b>>, c) THEN "held" ELSE @[m]]]
    /\ UNCHANGED <<enabled, mapping, granted, copy, attempts, artifact, offers, imports,
                   pending, losses>>

\* circuitnet_map
SetMapping(n, c, map) ==
    /\ Change
    /\ mapping[n][c] # map
    /\ mapping' = [mapping EXCEPT ![n][c] = map]
    /\ UNCHANGED <<enabled, dossiers, granted, copy, queueVars, offers, imports, pending, losses>>

\* circuitnet_configure; the topology is frozen once messages are retained
Toggle(n) ==
    /\ Change
    /\ enabled' = [enabled EXCEPT ![n] = ~@]
    /\ UNCHANGED <<dossiers, mapping, granted, copy, queueVars, offers, imports, pending, losses>>

\* a caller or the sysop deletes a conference message, or makes it private; its
\* version moves on for good and the identity stays known
Remove(n, m) ==
    /\ Change
    /\ copy[n][m] = "conference"
    /\ copy' = [copy EXCEPT ![n][m] = "removed"]
    /\ UNCHANGED <<enabled, dossiers, mapping, granted, queueVars, offers, imports, pending, losses>>

\* what circuitnet_retry accepts
Retryable(h, m) ==
    Eligible(h, m) /\ attempts[h][m] < MaxAttempts /\ queue[h][m] \in {"held", "retry"}

Retry(h, m) ==
    /\ Retryable(h, m)
    /\ queue' = [queue EXCEPT ![h][m] = "retry"]
    /\ UNCHANGED <<policyVars, copy, attempts, artifact, offers, imports, pending, losses>>

-----------------------------------------------------------------------------
Init ==
    /\ enabled = [n \in Nodes |-> TRUE]
    /\ dossiers = Dossiers0
    /\ mapping = Mapping0
    /\ copy = [n \in Nodes |-> [m \in Messages |-> "absent"]]
    /\ queue = [h \in Hops |-> [m \in Messages |-> "none"]]
    /\ attempts = [h \in Hops |-> [m \in Messages |-> 0]]
    /\ artifact = [h \in Hops |-> [m \in Messages |-> {}]]
    /\ offers = {} /\ imports = {}
    /\ pending = [h \in Hops |-> {}]
    /\ granted = {g \in Nodes \X Nodes \X Codes : <<g[2], g[3]>> \in Dossiers0[g[1]]}
    /\ changes = MaxChanges /\ losses = MaxLosses

Operator ==
    \/ \E n, b \in Nodes, c \in Codes : Subscribe(n, b, c) \/ Unsubscribe(n, b, c)
    \/ \E n \in Nodes, c \in Codes, map \in Mappings : SetMapping(n, c, map)
    \/ \E n \in Nodes : Toggle(n) \/ \E m \in Messages : Remove(n, m)
    \/ \E h \in Hops, m \in Messages : Retry(h, m)

Next ==
    \/ \E m \in Messages : Post(m)
    \/ \E n \in Nodes : Scan(n)
    \/ \E h \in Hops : PollSend(h) \/ Export(h) \/ LinkFailed(h) \/ LinkLost(h)
    \/ \E batch \in offers : Import(batch[1], batch[2]) \/ Acknowledge(batch[1], batch[2])
    \/ Operator

Spec == Init /\ [][Next]_vars

\* An operator who configured a neighbor polls it again and again, as a recurring
\* event does, which scans first; every frame wait of a session has a deadline, so
\* a session ends.
Fairness ==
    /\ \A n \in Nodes : WF_vars(Scan(n))
    /\ \A h \in Hops : WF_vars(PollSend(h)) /\ WF_vars(LinkFailed(h))
FairSpec == Spec /\ Fairness

-----------------------------------------------------------------------------
(***************************************************************************)
(* Properties.                                                             *)
(***************************************************************************)

\* Every relation of every board has its type, and only the board a message was
\* written on takes it for its own.
TypeOK ==
    /\ enabled \in [Nodes -> BOOLEAN]
    /\ dossiers \in [Nodes -> SUBSET (Nodes \X Codes)]
    /\ mapping \in [Nodes -> [Codes -> Mappings \cup {None}]]
    /\ copy \in [Nodes -> [Messages -> Copies]]
    /\ \A n \in Nodes, m \in Messages : copy[n][m] = "posted" => n = Origin[m]
    /\ queue \in [Hops -> [Messages -> RowStates]]
    /\ attempts \in [Hops -> [Messages -> 0..MaxAttempts]]
    /\ artifact \in [Hops -> [Messages -> SUBSET Messages]]
    /\ offers \subseteq Batches /\ imports \subseteq Batches
    /\ pending \in [Hops -> SUBSET Messages]
    /\ granted \subseteq Nodes \X Nodes \X Codes
    /\ changes \in 0..MaxChanges /\ losses \in 0..MaxLosses

\* What circuitnet_status calls accepted is in the neighbor's native custody,
\* whatever was lost, re-offered in another batch, held or acknowledged late.
AcceptedIsInCustody ==
    \A h \in Hops, m \in Messages : queue[h][m] = "accepted" => Known(h[2], m)

\* A board that took custody of a message has a queue row for every further
\* board it owes it to: for a directed message always, for a broadcast as long
\* as no operator has changed any policy.
ForwardingIsIntended ==
    \A h \in Hops, m \in Messages :
        Known(h[1], m) /\ ~On(h[2], Origin[m], h[1]) =>
            /\ Directed(m) /\ On(h[2], h[1], Dest[m]) => queue[h][m] # "none"
            /\ ~Directed(m) /\ changes = MaxChanges /\ Subscribed(h[1], h[2], Code[m])
                   => queue[h][m] # "none"

\* A broadcast only ever crossed hops that both ends had subscribed to.
OnlyOverDossiers ==
    \A n \in Nodes, m \in Messages : Known(n, m) /\ ~Directed(m) /\ n # Origin[m] =>
        \E b \in Neighbors(n) :
            /\ Known(b, m) /\ On(b, Origin[m], n)
            /\ {<<n, b, Code[m]>>, <<b, n, Code[m]>>} \subseteq granted

\* A receipt is never undone: not by a failed session, a hold or a retry.
AcceptedIsFinal ==
    [][\A h \in Hops, m \in Messages :
          queue[h][m] = "accepted" => queue'[h][m] = "accepted"]_vars

\* A held message goes out again only while policy allows it, never by itself.
HeldNeedsPolicy ==
    [][\A h \in Hops, m \in Messages :
          queue[h][m] = "held" /\ queue'[h][m] \in {"ready", "retry", "pending"}
              => Eligible(h, m)]_vars

\* Custody is taken once per node, from a neighbor that has it, and hops are
\* confirmed only after the fact: the exchange implements MessageCustody.
Custody == INSTANCE MessageCustody WITH
    holds <- [m \in Messages |-> {n \in Nodes : Known(n, m)}],
    done <- {d \in Hops \X Messages : queue[d[1]][d[2]] = "accepted"}
CustodySpec == Custody!Spec

\* Every queued delivery is decided: delivered, held for review or failed, in a
\* bounded number of attempts, unless the operator disables the profile.
DeliveryIsDecided ==
    \A h \in Hops, m \in Messages :
        queue[h][m] \in {"pending", "ready", "retry"}
            ~> queue[h][m] \in {"held", "failed", "accepted"} \/ ~enabled[h[1]]

-----------------------------------------------------------------------------
(***************************************************************************)
(* What the documentation says and the code does not do.                   *)
(***************************************************************************)

\* docs/technical/circuitnet-ng-specification.md: attempts are capped before
\* operator review.  A row that failed at the cap is one a review can release.
FailedCanBeReviewed ==
    \A h \in Hops, m \in Messages :
        queue[h][m] = "failed" /\ Eligible(h, m) => Retryable(h, m)

\* docs/technical/circuitnet.md: when a queue is exhausted, new work is rejected.
\* Work that is queued already still goes out to a neighbor that is polled.
FullQueueDrains ==
    \A h \in Hops, m \in Messages :
        queue[h][m] = "pending" /\ Cardinality(Waiting(h)) = MaxWaiting
            ~> queue[h][m] # "pending" \/ ~enabled[h[1]]
=============================================================================
