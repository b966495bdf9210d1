-------------------------- MODULE CircuitNet_proofs --------------------------
(***************************************************************************)
(* Proofs about CircuitNet, for every topology, policy, set of messages    *)
(* and bound.  The inductive invariant is TypeOK with ExchangeInv: what a  *)
(* queue row, a batch and an import say about whose custody a message is   *)
(* in, and that a row not yet written has no attempts.  Where a message    *)
(* goes is RoutingInv, about grants and offers, over lemmas about simple   *)
(* paths: TreeAssumption says that two boards have exactly one between     *)
(* them, which is what the topology's validation lets through.             *)
(***************************************************************************)
EXTENDS CircuitNet, TLAPS, FiniteSetTheorems

\* A board queues only what it has.
RowsAreKnown ==
    \A h \in Hops, m \in Messages : queue[h][m] # "none" => Known(h[1], m)

\* A board offers only what it has.
OffersAreKnown ==
    \A batch \in offers : \A m \in batch[2] : Known(batch[1][1], m)

\* Only offered batches are imported, and every member is then in custody.
ImportsAreKnown ==
    /\ imports \subseteq offers
    /\ \A batch \in imports : \A m \in batch[2] : Known(batch[1][2], m)

ExchangeInv ==
    RowsAreKnown /\ OffersAreKnown /\ ImportsAreKnown /\ AcceptedIsInCustody

Inv == TypeOK /\ ExchangeInv

-----------------------------------------------------------------------------
\* A hop joins two boards.
LEMMA HopEnds == \A h \in Hops : h[1] \in Nodes /\ h[2] \in Nodes
BY DEF Hops

\* Whatever the order of its candidates, a preparation offers and holds only
\* rows that were in the exchange below the attempt ceiling.
LEMMA PreparedRows ==
    ASSUME NEW h \in Hops, Prepare(h)
    PROVE  \E S, D \in SUBSET Messages :
             /\ Offer(h, S, D)
             /\ \A m \in S \cup D : /\ queue[h][m] \in {"pending", "ready", "retry"}
                                  /\ attempts[h][m] < MaxAttempts
<1>1. PICK prior \in (IF Prior(h) = {} THEN {{}} ELSE Prior(h)) :
        \E S \in SUBSET {m \in Candidates(h, prior) : Eligible(h, m)},
           D \in SUBSET (Candidates(h, prior) \ {m \in Candidates(h, prior) : Eligible(h, m)}) :
           Offer(h, S, D)
    BY DEF Prepare
<1>2. PICK S \in SUBSET Candidates(h, prior), D \in SUBSET Candidates(h, prior) : Offer(h, S, D)
    BY <1>1
<1>3. /\ S \in SUBSET Messages /\ D \in SUBSET Messages
      /\ \A m \in S \cup D : /\ queue[h][m] \in {"pending", "ready", "retry"}
                           /\ attempts[h][m] < MaxAttempts
    BY <1>2 DEF Candidates
<1> QED
    BY <1>2, <1>3

\* The boards start in a state of the right type.
LEMMA InitTypes == Init => TypeOK
<1> SUFFICES ASSUME Init PROVE TypeOK
    OBVIOUS
<1> USE NetworkAssumption
<1>1. granted \subseteq Nodes \X Nodes \X Codes
    BY DEF Init
<1> QED
    BY <1>1 DEF Init, TypeOK, Copies, RowStates

\* Every step keeps the types.
LEMMA StepTypes == TypeOK /\ [Next]_vars => TypeOK'
<1> SUFFICES ASSUME TypeOK, [Next]_vars PROVE TypeOK'
    OBVIOUS
<1> USE NetworkAssumption, HopEnds DEF TypeOK
<1>1. ASSUME NEW m \in Messages, Post(m) PROVE TypeOK'
    BY <1>1 DEF Post, policyVars, queueVars, Copies
<1>2. ASSUME NEW n \in Nodes, Scan(n) PROVE TypeOK'
  <2>1. copy' \in [Nodes -> [Messages -> Copies]]
      BY <1>2 DEF Scan, Copies
  <2>2. \A k \in Nodes, m \in Messages : copy'[k][m] = "posted" => k = Origin[m]
      BY <1>2 DEF Scan
  <2>3. queue' \in [Hops -> [Messages -> RowStates]]
      BY <1>2 DEF Scan, Publish, RowStates
  <2> QED
      BY <1>2, <2>1, <2>2, <2>3 DEF Scan, policyVars
<1>3. ASSUME NEW h \in Hops, Prepare(h) PROVE TypeOK'
  <2>2. PICK S \in SUBSET Messages, D \in SUBSET Messages : Offer(h, S, D)
      BY <1>3, PreparedRows
  <2>4. queue' \in [Hops -> [Messages -> RowStates]]
      BY <2>2 DEF Offer, RowStates
  <2>5. /\ artifact' \in [Hops -> [Messages -> SUBSET Messages]]
        /\ pending' \in [Hops -> SUBSET Messages]
        /\ offers' \subseteq Batches
      BY <2>2 DEF Offer, Batches
  <2> QED
      BY <1>3, <2>4, <2>5 DEF Prepare, policyVars
<1>4. ASSUME NEW h \in Hops, LinkFailed(h) PROVE TypeOK'
  <2>1. queue' \in [Hops -> [Messages -> RowStates]]
      BY <1>4 DEF LinkFailed, RowStates
  <2>2. attempts' \in [Hops -> [Messages -> 0..MaxAttempts]]
      BY <1>4 DEF LinkFailed, Counted
  <2> QED
      BY <1>4, <2>1, <2>2 DEF LinkFailed, policyVars
<1>5. ASSUME NEW h \in Hops, LinkLost(h) PROVE TypeOK'
    BY <1>5 DEF LinkLost, policyVars, queueVars
<1>6. ASSUME NEW batch \in offers, Import(batch[1], batch[2]) PROVE TypeOK'
  <2> DEFINE b == batch[1][2]  new == NewMembers(b, batch[2])
  <2>1. batch = <<batch[1], batch[2]>> /\ batch[1] \in Hops /\ batch[2] \in SUBSET Messages
      BY DEF Batches
  <2>2. \A m \in Messages : Placement(b, m) \in {"conference", "transit"}
      BY DEF Placement
  <2>3. copy' \in [Nodes -> [Messages -> Copies]]
      BY <1>6, <2>1, <2>2 DEF Import, Copies
  <2>4. \A k \in Nodes, m \in Messages : copy'[k][m] = "posted" => k = Origin[m]
      BY <1>6, <2>1, <2>2 DEF Import
  <2>5. queue' \in [Hops -> [Messages -> RowStates]]
      BY <1>6 DEF Import, Publish, RowStates
  <2>6. imports' \subseteq Batches
      BY <1>6, <2>1 DEF Import
  <2> QED
      BY <1>6, <2>3, <2>4, <2>5, <2>6 DEF Import, policyVars
<1>7. ASSUME NEW batch \in offers, Acknowledge(batch[1], batch[2]) PROVE TypeOK'
  <2>1. batch[1] \in Hops /\ batch[2] \in SUBSET Messages
      BY DEF Batches
  <2>2. queue' \in [Hops -> [Messages -> RowStates]]
      BY <1>7, <2>1 DEF Acknowledge, RowStates
  <2> QED
      BY <1>7, <2>1, <2>2 DEF Acknowledge, policyVars
<1>8. ASSUME Operator PROVE TypeOK'
  <2>1. ASSUME NEW n \in Nodes, NEW b \in Nodes, NEW c \in Codes, Subscribe(n, b, c)
        PROVE TypeOK'
    <3>1. /\ dossiers' \in [Nodes -> SUBSET (Nodes \X Codes)]
          /\ granted' \subseteq Nodes \X Nodes \X Codes
          /\ changes' \in 0..MaxChanges
        BY <2>1 DEF Subscribe, Change
    <3> QED
        BY <2>1, <3>1 DEF Subscribe, queueVars
  <2>2. ASSUME NEW n \in Nodes, NEW b \in Nodes, NEW c \in Codes, Unsubscribe(n, b, c)
        PROVE TypeOK'
    <3>1. /\ dossiers' \in [Nodes -> SUBSET (Nodes \X Codes)]
          /\ changes' \in 0..MaxChanges
        BY <2>2 DEF Unsubscribe, Change
    <3>2. queue' \in [Hops -> [Messages -> RowStates]]
        BY <2>2 DEF Unsubscribe, RowStates
    <3> QED
        BY <2>2, <3>1, <3>2 DEF Unsubscribe
  <2>3. ASSUME NEW n \in Nodes, NEW c \in Codes, NEW map \in Mappings, SetMapping(n, c, map)
        PROVE TypeOK'
    <3>1. /\ mapping' \in [Nodes -> [Codes -> Mappings \cup {None}]]
          /\ changes' \in 0..MaxChanges
        BY <2>3 DEF SetMapping, Change
    <3> QED
        BY <2>3, <3>1 DEF SetMapping, queueVars
  <2>4. ASSUME NEW n \in Nodes, Toggle(n) PROVE TypeOK'
    <3>1. enabled' \in [Nodes -> BOOLEAN] /\ changes' \in 0..MaxChanges
        BY <2>4 DEF Toggle, Change
    <3> QED
        BY <2>4, <3>1 DEF Toggle, queueVars
  <2>5. ASSUME NEW n \in Nodes, NEW m \in Messages, Remove(n, m) PROVE TypeOK'
    <3>1. /\ copy' \in [Nodes -> [Messages -> Copies]]
          /\ \A k \in Nodes, q \in Messages : copy'[k][q] = "posted" => k = Origin[q]
          /\ changes' \in 0..MaxChanges
        BY <2>5 DEF Remove, Change, Copies
    <3> QED
        BY <2>5, <3>1 DEF Remove, queueVars
  <2>6. ASSUME NEW h \in Hops, NEW m \in Messages, Retry(h, m) PROVE TypeOK'
    <3>1. queue' \in [Hops -> [Messages -> RowStates]]
        BY <2>6 DEF Retry, RowStates
    <3> QED
        BY <2>6, <3>1 DEF Retry, policyVars
  <2> QED
      BY <1>8, <2>1, <2>2, <2>3, <2>4, <2>5, <2>6 DEF Operator
<1>9. CASE UNCHANGED vars
    BY <1>9 DEF vars, policyVars, queueVars
<1> HIDE DEF TypeOK
<1> QED
    BY <1>1, <1>2, <1>3, <1>4, <1>5, <1>6, <1>7, <1>8, <1>9 DEF Next, PollSend, Export

\* TypeOK holds in every state of every network: no transaction of a board
\* leaves a relation outside its type, and a message written on one board is
\* never filed as native on another.
THEOREM TypeCorrect == Spec => []TypeOK
BY InitTypes, StepTypes, PTL DEF Spec

-----------------------------------------------------------------------------
(***************************************************************************)
(* The life of a queue row.                                                *)
(***************************************************************************)
Unmoved(h, m) == queue'[h][m] = queue[h][m] /\ attempts'[h][m] = attempts[h][m]
Written(h, m) ==
    /\ queue[h][m] = "none" /\ queue'[h][m] = "pending"
    /\ attempts'[h][m] = attempts[h][m] /\ Known(h[1], m)'
Visited(h, m) ==
    /\ queue[h][m] \in {"pending", "ready", "retry"} /\ attempts[h][m] < MaxAttempts
    /\ queue'[h][m] \in {"ready", "held"} /\ attempts'[h][m] = attempts[h][m]
Missed(h, m) ==
    /\ queue[h][m] = "ready" /\ attempts[h][m] < MaxAttempts
    /\ queue'[h][m] = (IF attempts[h][m] = MaxAttempts - 1 THEN "failed" ELSE "retry")
    /\ attempts'[h][m] = attempts[h][m] + 1
Receipted(h, m) ==
    /\ queue'[h][m] = "accepted" /\ attempts'[h][m] = attempts[h][m]
    /\ Known(h[1], m) /\ Known(h[2], m)
Suspended(h, m) ==
    /\ queue[h][m] \notin {"none", "accepted"}
    /\ queue'[h][m] = "held" /\ attempts'[h][m] = attempts[h][m]
Released(h, m) ==
    /\ queue[h][m] \in {"held", "retry"} /\ attempts[h][m] < MaxAttempts /\ Eligible(h, m)
    /\ queue'[h][m] = "retry" /\ attempts'[h][m] = attempts[h][m]

RowStep(h, m) ==
    \/ Unmoved(h, m) \/ Written(h, m) \/ Visited(h, m) \/ Missed(h, m)
    \/ Receipted(h, m) \/ Suspended(h, m) \/ Released(h, m)

\* Custody is never given up: what a board knows it keeps knowing.
LEMMA KnownGrows ==
    ASSUME TypeOK, [Next]_vars
    PROVE  \A n \in Nodes, m \in Messages : Known(n, m) => Known(n, m)'
<1> USE NetworkAssumption, HopEnds DEF TypeOK, Known
<1>1. ASSUME NEW m \in Messages, Post(m)
      PROVE \A n \in Nodes, q \in Messages : Known(n, q) => Known(n, q)'
    BY <1>1 DEF Post
<1>2. ASSUME NEW k \in Nodes, Scan(k)
      PROVE \A n \in Nodes, m \in Messages : Known(n, m) => Known(n, m)'
    BY <1>2 DEF Scan
<1>3. ASSUME NEW h \in Hops, Prepare(h) \/ LinkFailed(h) \/ LinkLost(h) PROVE UNCHANGED copy
    BY <1>3 DEF Prepare, LinkFailed, LinkLost
<1>4. ASSUME NEW batch \in offers, Import(batch[1], batch[2])
      PROVE \A n \in Nodes, m \in Messages : Known(n, m) => Known(n, m)'
  <2>1. \A m \in Messages : Placement(batch[1][2], m) \in {"conference", "transit"}
      BY DEF Placement
  <2>2. batch[1][2] \in Nodes
      BY DEF Batches
  <2> QED
      BY <1>4, <2>1, <2>2 DEF Import
<1>5. ASSUME NEW batch \in offers, Acknowledge(batch[1], batch[2]) PROVE UNCHANGED copy
    BY <1>5 DEF Acknowledge
<1>6. ASSUME NEW n \in Nodes, NEW m \in Messages, Remove(n, m)
      PROVE \A k \in Nodes, q \in Messages : Known(k, q) => Known(k, q)'
    BY <1>6 DEF Remove
<1>7. ASSUME Operator, ~ \E n \in Nodes, m \in Messages : Remove(n, m) PROVE UNCHANGED copy
    BY <1>7 DEF Operator, Subscribe, Unsubscribe, SetMapping, Toggle, Retry
<1>8. CASE UNCHANGED vars
    BY <1>8 DEF vars
<1> QED
    BY <1>1, <1>2, <1>3, <1>4, <1>5, <1>6, <1>7, <1>8 DEF Next, PollSend, Export

\* Publishing writes rows only for messages the board did not have before.
LEMMA PublishedRows ==
    ASSUME TypeOK, RowsAreKnown, NEW n \in Nodes, NEW S \in SUBSET Messages,
           \A m \in S : ~Known(n, m) /\ Known(n, m)',
           Publish(n, S), UNCHANGED attempts
    PROVE  \A h \in Hops, m \in Messages : Unmoved(h, m) \/ Written(h, m)
BY HopEnds DEF TypeOK, RowsAreKnown, Publish, Unmoved, Written

\* Every step moves a queue row along its life or not at all.
LEMMA RowsMove ==
    ASSUME TypeOK, RowsAreKnown, OffersAreKnown, ImportsAreKnown, [Next]_vars
    PROVE  \A h \in Hops, m \in Messages : RowStep(h, m)
<1> USE NetworkAssumption, HopEnds
<1>1. ASSUME NEW m \in Messages, Post(m) PROVE UNCHANGED <<queue, attempts>>
    BY <1>1 DEF Post, queueVars
<1>2. ASSUME NEW n \in Nodes, Scan(n) PROVE \A h \in Hops, m \in Messages : RowStep(h, m)
  <2> DEFINE S == {m \in Messages : copy[n][m] = "posted" /\ Sends(n, Code[m])}
  <2>1. Publish(n, S) /\ UNCHANGED attempts
      BY <1>2 DEF Scan, Unscanned
  <2>2. \A m \in S : ~Known(n, m) /\ Known(n, m)'
      BY <1>2 DEF Scan, Unscanned, TypeOK, Known
  <2> QED
      BY <2>1, <2>2, PublishedRows DEF RowStep
<1>3. ASSUME NEW g \in Hops, Prepare(g) PROVE \A h \in Hops, m \in Messages : RowStep(h, m)
  <2>1. PICK S \in SUBSET Messages, D \in SUBSET Messages :
          /\ Offer(g, S, D)
          /\ \A m \in S \cup D : /\ queue[g][m] \in {"pending", "ready", "retry"}
                               /\ attempts[g][m] < MaxAttempts
      BY <1>3, PreparedRows
  <2>2. UNCHANGED attempts
      BY <1>3 DEF Prepare
  <2>3. ASSUME NEW h \in Hops, NEW m \in Messages PROVE Unmoved(h, m) \/ Visited(h, m)
      BY <2>1, <2>2 DEF TypeOK, Offer, Unmoved, Visited
  <2> QED
      BY <2>3 DEF RowStep
<1>4. ASSUME NEW g \in Hops, LinkFailed(g) PROVE \A h \in Hops, m \in Messages : RowStep(h, m)
  <2>1. ASSUME NEW h \in Hops, NEW m \in Messages PROVE Unmoved(h, m) \/ Missed(h, m)
      BY <1>4 DEF TypeOK, LinkFailed, Counted, Unmoved, Missed
  <2> QED
      BY <2>1 DEF RowStep
<1>5. ASSUME NEW g \in Hops, LinkLost(g) PROVE UNCHANGED <<queue, attempts>>
    BY <1>5 DEF LinkLost, queueVars
<1>6. ASSUME NEW batch \in offers, Import(batch[1], batch[2])
      PROVE \A h \in Hops, m \in Messages : RowStep(h, m)
  <2> DEFINE b == batch[1][2]  new == NewMembers(b, batch[2])
  <2>1. b \in Nodes /\ batch[2] \in SUBSET Messages
      BY DEF TypeOK, Batches
  <2>2. Publish(b, new) /\ UNCHANGED attempts
      BY <1>6 DEF Import
  <2>3. \A m \in Messages : Placement(b, m) \in {"conference", "transit"}
      BY DEF Placement
  <2>4. new \in SUBSET Messages /\ \A m \in new : ~Known(b, m) /\ Known(b, m)'
      BY <1>6, <2>1, <2>3 DEF Import, NewMembers, TypeOK, Known
  <2> QED
      BY <2>1, <2>2, <2>4, PublishedRows DEF RowStep
<1>7. ASSUME NEW batch \in offers, Acknowledge(batch[1], batch[2])
      PROVE \A h \in Hops, m \in Messages : RowStep(h, m)
  <2>1. batch[1] \in Hops /\ batch[2] \in SUBSET Messages /\ batch = <<batch[1], batch[2]>>
      BY DEF TypeOK, Batches
  <2>2. \A m \in batch[2] : Known(batch[1][1], m) /\ Known(batch[1][2], m)
      BY <1>7, <2>1 DEF Acknowledge, OffersAreKnown, ImportsAreKnown
  <2>3. ASSUME NEW h \in Hops, NEW m \in Messages PROVE Unmoved(h, m) \/ Receipted(h, m)
      BY <1>7, <2>1, <2>2 DEF TypeOK, Acknowledge, Settled, Unmoved, Receipted
  <2> QED
      BY <2>3 DEF RowStep
<1>8. ASSUME NEW n \in Nodes, NEW b \in Nodes, NEW c \in Codes, Unsubscribe(n, b, c)
      PROVE \A h \in Hops, m \in Messages : RowStep(h, m)
  <2>1. ASSUME NEW h \in Hops, NEW m \in Messages PROVE Unmoved(h, m) \/ Suspended(h, m)
      BY <1>8 DEF TypeOK, Unsubscribe, HeldByUnsubscribe, Waiting, Unmoved, Suspended
  <2> QED
      BY <2>1 DEF RowStep
<1>9. ASSUME NEW g \in Hops, NEW q \in Messages, Retry(g, q)
      PROVE \A h \in Hops, m \in Messages : RowStep(h, m)
  <2>1. ASSUME NEW h \in Hops, NEW m \in Messages PROVE Unmoved(h, m) \/ Released(h, m)
      BY <1>9 DEF TypeOK, Retry, Retryable, Unmoved, Released
  <2> QED
      BY <2>1 DEF RowStep
<1>10. ASSUME NEW n \in Nodes,
              \/ \E b \in Nodes, c \in Codes : Subscribe(n, b, c)
              \/ \E c \in Codes, map \in Mappings : SetMapping(n, c, map)
              \/ Toggle(n) \/ \E m \in Messages : Remove(n, m)
       PROVE UNCHANGED <<queue, attempts>>
    BY <1>10 DEF Subscribe, SetMapping, Toggle, Remove, queueVars
<1>11. CASE UNCHANGED vars
    BY <1>11 DEF vars, queueVars, RowStep, Unmoved
<1>12. CASE UNCHANGED <<queue, attempts>>
    BY <1>12 DEF RowStep, Unmoved
<1> QED
    BY <1>1, <1>2, <1>3, <1>4, <1>5, <1>6, <1>7, <1>8, <1>9, <1>10, <1>11, <1>12
    DEF Next, PollSend, Export, Operator

-----------------------------------------------------------------------------
(***************************************************************************)
(* The invariant of the exchange.                                          *)
(***************************************************************************)

\* A network that starts has no rows, offers or imports.
LEMMA InitInv == Init => ExchangeInv
<1> SUFFICES ASSUME Init PROVE ExchangeInv
    OBVIOUS
<1>1. \A h \in Hops, m \in Messages : queue[h][m] = "none"
    BY DEF Init
<1>2. offers = {} /\ imports = {}
    BY DEF Init
<1> QED
    BY <1>1, <1>2
    DEF ExchangeInv, RowsAreKnown, OffersAreKnown, ImportsAreKnown, AcceptedIsInCustody

\* Only a preparation makes an offer, of rows its board has.
LEMMA OfferStep ==
    ASSUME TypeOK, RowsAreKnown, OffersAreKnown, [Next]_vars
    PROVE  /\ offers \subseteq offers'
           /\ \A batch \in offers' : \A m \in batch[2] : Known(batch[1][1], m)
<1> DEFINE Kept == offers' = offers
<1>1. ASSUME NEW h \in Hops, Prepare(h)
      PROVE /\ offers \subseteq offers'
            /\ \A batch \in offers' : \A m \in batch[2] : Known(batch[1][1], m)
  <2>1. PICK S \in SUBSET Messages, D \in SUBSET Messages :
          /\ Offer(h, S, D)
          /\ \A m \in S \cup D : /\ queue[h][m] \in {"pending", "ready", "retry"}
                               /\ attempts[h][m] < MaxAttempts
      BY <1>1, PreparedRows
  <2>2. \A m \in S : Known(h[1], m)
      BY <2>1 DEF RowsAreKnown
  <2>3. offers' = offers \/ offers' = offers \cup {<<h, S>>}
      BY <2>1 DEF Offer
  <2> QED
      BY <2>2, <2>3 DEF OffersAreKnown
<1>2. ASSUME \/ \E m \in Messages : Post(m)
             \/ \E n \in Nodes : Scan(n)
             \/ \E h \in Hops : LinkFailed(h) \/ LinkLost(h)
             \/ \E batch \in offers : Import(batch[1], batch[2]) \/ Acknowledge(batch[1], batch[2])
             \/ UNCHANGED vars
      PROVE Kept
    BY <1>2 DEF Post, Scan, LinkFailed, LinkLost, Import, Acknowledge, vars
<1>3. ASSUME Operator PROVE Kept
    BY <1>3 DEF Operator, Subscribe, Unsubscribe, SetMapping, Toggle, Remove, Retry
<1>4. ASSUME Kept
      PROVE /\ offers \subseteq offers'
            /\ \A batch \in offers' : \A m \in batch[2] : Known(batch[1][1], m)
    BY <1>4 DEF OffersAreKnown
<1> HIDE DEF Kept
<1> QED
    BY <1>1, <1>2, <1>3, <1>4 DEF Next, PollSend, Export

\* After an import the board knows every member of the batch.
LEMMA ImportStep ==
    ASSUME TypeOK, OffersAreKnown, ImportsAreKnown, [Next]_vars
    PROVE  \A batch \in imports' :
             /\ batch \in offers
             /\ \A m \in batch[2] : Known(batch[1][2], m)'
<1> DEFINE Goal == \A batch \in imports' :
                     /\ batch \in offers
                     /\ \A m \in batch[2] : Known(batch[1][2], m)'
<1>1. \A n \in Nodes, m \in Messages : Known(n, m) => Known(n, m)'
    BY KnownGrows
<1>2. \A batch \in imports : \A m \in batch[2] :
         batch \in offers /\ Known(batch[1][2], m)'
    BY <1>1, HopEnds DEF TypeOK, ImportsAreKnown, Batches
<1>3. ASSUME NEW batch \in offers, Import(batch[1], batch[2]) PROVE Goal
  <2> DEFINE b == batch[1][2]  new == NewMembers(b, batch[2])
  <2>1. b \in Nodes /\ batch[2] \in SUBSET Messages /\ batch = <<batch[1], batch[2]>>
      BY HopEnds DEF TypeOK, Batches
  <2>2. \A m \in Messages : Placement(b, m) \in {"conference", "transit"}
      BY DEF Placement
  <2>3. \A m \in new : Known(b, m)'
      BY <1>3, <2>1, <2>2 DEF Import, NewMembers, TypeOK, Known
  <2>4. \A m \in batch[2] : Known(b, m)'
      BY <1>1, <2>1, <2>3 DEF NewMembers
  <2>5. imports' = imports \cup {batch}
      BY <1>3, <2>1 DEF Import
  <2> QED
      BY <1>2, <2>4, <2>5 DEF ImportsAreKnown
<1>4. ASSUME imports' = imports PROVE Goal
    BY <1>2, <1>4 DEF ImportsAreKnown
<1>5. ASSUME \/ \E m \in Messages : Post(m)
             \/ \E n \in Nodes : Scan(n)
             \/ \E h \in Hops : Prepare(h) \/ LinkFailed(h) \/ LinkLost(h)
             \/ \E batch \in offers : Acknowledge(batch[1], batch[2])
             \/ UNCHANGED vars
      PROVE imports' = imports
    BY <1>5 DEF Post, Scan, Prepare, LinkFailed, LinkLost, Acknowledge, vars
<1>6. ASSUME Operator PROVE imports' = imports
    BY <1>6 DEF Operator, Subscribe, Unsubscribe, SetMapping, Toggle, Remove, Retry
<1> HIDE DEF Goal
<1>7. Goal
    BY <1>3, <1>4, <1>5, <1>6 DEF Next, PollSend, Export
<1> QED
    BY <1>7 DEF Goal

\* Every step keeps the invariant.
LEMMA StepInv == Inv /\ [Next]_vars => ExchangeInv'
<1> SUFFICES ASSUME TypeOK, ExchangeInv, [Next]_vars PROVE ExchangeInv'
    BY DEF Inv
<1>1. RowsAreKnown /\ OffersAreKnown /\ ImportsAreKnown /\ AcceptedIsInCustody
    BY DEF ExchangeInv
<1>2. \A h \in Hops, m \in Messages : RowStep(h, m)
    BY <1>1, RowsMove
<1>3. \A n \in Nodes, m \in Messages : Known(n, m) => Known(n, m)'
    BY KnownGrows
<1>4. TypeOK'
    BY StepTypes
<1>5. RowsAreKnown'
    BY <1>1, <1>2, <1>3, HopEnds
    DEF RowsAreKnown, RowStep, Unmoved, Written, Visited, Missed, Receipted, Suspended, Released
<1>6. OffersAreKnown' /\ ImportsAreKnown'
  <2>1. /\ offers \subseteq offers'
        /\ \A batch \in offers' : \A m \in batch[2] : Known(batch[1][1], m)
      BY <1>1, OfferStep
  <2>2. \A batch \in imports' :
          /\ batch \in offers
          /\ \A m \in batch[2] : Known(batch[1][2], m)'
      BY <1>1, ImportStep
  <2>3. \A batch \in offers' : batch[1][1] \in Nodes /\ batch[2] \in SUBSET Messages
      BY <1>4, HopEnds DEF TypeOK, Batches
  <2> QED
      BY <1>3, <2>1, <2>2, <2>3 DEF OffersAreKnown, ImportsAreKnown
<1>7. AcceptedIsInCustody'
    BY <1>1, <1>2, <1>3, HopEnds
    DEF AcceptedIsInCustody, RowStep, Unmoved, Written, Visited, Missed, Receipted, Suspended,
        Released
<1> QED
    BY <1>5, <1>6, <1>7 DEF ExchangeInv

\* The exchange invariant holds in every state of every network.
THEOREM ExchangeInvariant == Spec => []Inv
<1>1. Init => Inv
    BY InitTypes, InitInv DEF Inv
<1>2. Inv /\ [Next]_vars => Inv'
    BY StepTypes, StepInv DEF Inv
<1> QED
    BY <1>1, <1>2, PTL DEF Spec

\* A delivery a board reports as accepted is in its neighbor's custody, however
\* sessions were cut, batches offered again and receipts delayed or repeated.
THEOREM AcceptedIsInCustodyHolds == Spec => []AcceptedIsInCustody
<1>1. Inv => AcceptedIsInCustody
    BY DEF Inv, ExchangeInv
<1> QED
    BY <1>1, ExchangeInvariant, PTL

\* No handler takes back a receipt: not circuitnet_failed after a late one, not
\* an unsubscription, not a retry.
THEOREM AcceptedIsFinalHolds == Spec => AcceptedIsFinal
<1>1. Inv /\ [Next]_vars =>
        [\A h \in Hops, m \in Messages :
            queue[h][m] = "accepted" => queue'[h][m] = "accepted"]_vars
    BY RowsMove
    DEF Inv, ExchangeInv, RowStep, Unmoved, Written, Visited, Missed, Receipted, Suspended,
        Released
<1> QED
    BY <1>1, ExchangeInvariant, PTL DEF Spec, AcceptedIsFinal

\* A held delivery goes out again only through circuitnet_retry, while policy
\* allows it: no scan, failed session or new preparation revives it.
THEOREM HeldNeedsPolicyHolds == Spec => HeldNeedsPolicy
<1>1. Inv /\ [Next]_vars =>
        [\A h \in Hops, m \in Messages :
            queue[h][m] = "held" /\ queue'[h][m] \in {"ready", "retry", "pending"}
                => Eligible(h, m)]_vars
    BY RowsMove
    DEF Inv, ExchangeInv, RowStep, Unmoved, Written, Visited, Missed, Receipted, Suspended,
        Released
<1> QED
    BY <1>1, ExchangeInvariant, PTL DEF Spec, HeldNeedsPolicy

-----------------------------------------------------------------------------
(***************************************************************************)
(* Paths of the tree.                                                      *)
(***************************************************************************)

\* A simple path visits no more boards than there are.
LEMMA PathLength ==
    ASSUME NEW p \in Seq(Nodes), \A i, j \in 1..Len(p) : p[i] = p[j] => i = j, IsFiniteSet(Nodes)
    PROVE  Len(p) <= Cardinality(Nodes)
<1>1. p \in Injection(1..Len(p), Nodes)
    BY DEF Injection, IsInjective
<1>2. Cardinality(1..Len(p)) <= Cardinality(Nodes)
    BY <1>1, FS_Injection
<1>3. Cardinality(1..Len(p)) = Len(p)
    BY FS_Interval
<1> QED
    BY <1>2, <1>3

\* Path is the simple path between two boards, and there is no other.
LEMMA PathIs ==
    ASSUME NEW a \in Nodes, NEW b \in Nodes
    PROVE  /\ Path[<<a, b>>] \in Walks /\ SimplePath(Path[<<a, b>>], a, b)
           /\ \A q \in Walks : SimplePath(q, a, b) => q = Path[<<a, b>>]
<1>1. Path[<<a, b>>] = CHOOSE p \in Walks : SimplePath(p, a, b)
    BY DEF Path
<1>2. PICK p \in Walks : SimplePath(p, a, b) /\ \A q \in Walks : SimplePath(q, a, b) => q = p
    BY TreeAssumption
<1> HIDE DEF SimplePath, Walks
<1> QED
    BY <1>1, <1>2

\* Walks are the nonempty sequences of boards no longer than the network is large.
LEMMA WalksAre ==
   /\ \A p \in Walks : p \in Seq(Nodes) /\ Len(p) \in 1..Cardinality(Nodes)
   /\ \A p \in Seq(Nodes) : Len(p) \in 1..Cardinality(Nodes) => p \in Walks
<1>0. Cardinality(Nodes) \in Nat
   BY TreeAssumption, FS_CardinalityType
<1>1. ASSUME NEW p \in Walks PROVE p \in Seq(Nodes) /\ Len(p) \in 1..Cardinality(Nodes)
  <2>1. PICK k \in 1..Cardinality(Nodes) : p \in [1..k -> Nodes]
     BY DEF Walks
  <2> QED BY <2>1, <1>0
<1>2. ASSUME NEW p \in Seq(Nodes), Len(p) \in 1..Cardinality(Nodes) PROVE p \in Walks
  BY <1>2 DEF Walks
<1> QED BY <1>1, <1>2

\* Nothing is on the way from a board to itself.
LEMMA OwnPath == \A a, b \in Nodes : On(b, a, a) => b = a
<1> SUFFICES ASSUME NEW a \in Nodes, NEW b \in Nodes, On(b, a, a) PROVE b = a
    OBVIOUS
<1>1. SimplePath(<<a>>, a, a)
    BY DEF SimplePath
<1>2. 1 <= Cardinality(Nodes) /\ Cardinality(Nodes) \in Nat
    <2>1. Cardinality({a}) <= Cardinality(Nodes) 
       BY TreeAssumption, FS_Subset
    <2> QED BY <2>1, FS_Singleton, TreeAssumption, FS_CardinalityType
<1>3. <<a>> \in Seq(Nodes) /\ Len(<<a>>) \in 1..Cardinality(Nodes)
    BY <1>2
<1>31. <<a>> \in Walks
    BY <1>3, WalksAre
<1>4. Path[<<a, a>>] = <<a>>
    BY <1>1, <1>31, PathIs
<1> QED
    BY <1>4 DEF On, OnPath

\* A path begins and ends where it should.
LEMMA PathEnds == \A a, b \in Nodes : On(a, a, b) /\ On(b, a, b)
<1> SUFFICES ASSUME NEW a \in Nodes, NEW b \in Nodes PROVE On(a, a, b) /\ On(b, a, b)
    OBVIOUS
<1>1. Path[<<a, b>>] \in Seq(Nodes) /\ Len(Path[<<a, b>>]) \in Nat \ {0}
    BY PathIs, WalksAre
<1>2. Path[<<a, b>>][1] = a /\ Path[<<a, b>>][Len(Path[<<a, b>>])] = b
    BY PathIs DEF SimplePath
<1> QED
    BY <1>1, <1>2 DEF On, OnPath

\* Of two neighbors one is on the way from any board to the other: a path that
\* avoids a neighbor of its last board goes on to that neighbor.
LEMMA OneSideOfAHop ==
    ASSUME NEW h \in Hops, NEW o \in Nodes, ~On(h[2], o, h[1])
    PROVE  On(h[1], o, h[2])
<1> DEFINE a == h[1]  b == h[2]  p == Path[<<o, a>>]  k == Len(p)  q == Append(p, b)
<1>1. a \in Nodes /\ b \in Nodes /\ <<a, b>> \in Hops
    BY DEF Hops
<1>2. p \in Seq(Nodes) /\ k \in Nat \ {0} /\ SimplePath(p, o, a)
    BY <1>1, PathIs, WalksAre
<1> HIDE DEF p
<1>3. \A i \in 1..k : p[i] # b
    BY <1>1 DEF On, OnPath, p
<1>4. q \in Seq(Nodes) /\ Len(q) = k + 1 /\ q[k + 1] = b /\ \A i \in 1..k : q[i] = p[i]
    BY <1>1, <1>2
<1>5. SimplePath(q, o, b)
  <2>1. q[1] = o /\ q[Len(q)] = b
     BY <1>2, <1>4 DEF SimplePath
  <2>2. \A i \in 1..(Len(q) - 1) : <<q[i], q[i + 1]>> \in Hops
     <3> SUFFICES ASSUME NEW i \in 1..k PROVE <<q[i], q[i + 1]>> \in Hops
        BY <1>4
     <3>1. CASE i = k
        <4>1. q[i] = a /\ q[i + 1] = b
           BY <3>1, <1>2, <1>4 DEF SimplePath
        <4> QED BY <4>1, <1>1
     <3>2. CASE i < k
        BY <3>2, <1>2, <1>4 DEF SimplePath
     <3> QED BY <3>1, <3>2
  <2>3. \A i, j \in 1..Len(q) : q[i] = q[j] => i = j
     BY <1>2, <1>3, <1>4 DEF SimplePath
  <2> QED BY <2>1, <2>2, <2>3 DEF SimplePath
<1>6. q \in Walks
  <2>1. Len(q) <= Cardinality(Nodes)
     <3>1. \A i, j \in 1..Len(q) : q[i] = q[j] => i = j
        BY <1>5 DEF SimplePath
     <3> QED BY <1>4, <3>1, PathLength, TreeAssumption
  <2>2. Len(q) \in 1..Cardinality(Nodes)
     <3>1. Cardinality(Nodes) \in Nat
        BY TreeAssumption, FS_CardinalityType
     <3> HIDE DEF q
     <3> QED BY <1>2, <1>4, <2>1, <3>1
  <2> HIDE DEF q
  <2> QED BY <1>4, <2>2, WalksAre
<1>7. Path[<<o, b>>] = q
    BY <1>1, <1>5, <1>6, PathIs
<1>8. q[k] = a
    BY <1>2, <1>4 DEF SimplePath
<1> HIDE DEF q
<1>9. a \in {q[i] : i \in 1..Len(q)}
    BY <1>2, <1>4, <1>8
<1> QED
    BY <1>1, <1>7, <1>9 DEF On, OnPath

-----------------------------------------------------------------------------
(***************************************************************************)
(* Where custody goes: routing and subscriptions.                          *)
(***************************************************************************)

\* Every subscription in force is in the history of subscriptions.
DossiersAreGranted ==
    \A n, b \in Nodes, c \in Codes : Subscribed(n, b, c) => <<n, b, c>> \in granted

\* A broadcast was only ever offered where its sender had a subscription.
OffersWereSubscribed ==
    \A batch \in offers : \A m \in batch[2] :
        ~Directed(m) => <<batch[1][1], batch[1][2], Code[m]>> \in granted

RoutingInv ==
    DossiersAreGranted /\ OffersWereSubscribed /\ ForwardingIsIntended /\ OnlyOverDossiers

\* No policy that routing depends on moves.
SamePolicy == UNCHANGED <<dossiers, granted, changes>>

\* How a board comes to know a message: it wrote it, or a neighbor offered it
\* and the import policy accepts it.  Either way it queues it for every target.
Taken(n, m) ==
    /\ \/ n = Origin[m]
       \/ \E a \in Nodes, S \in SUBSET Messages :
             /\ <<a, n>> \in Hops /\ <<<<a, n>>, S>> \in offers /\ m \in S
             /\ Acceptable(<<a, n>>, m)
    /\ \A b \in Targets(n, m) : queue'[<<n, b>>][m] = "pending"
    /\ SamePolicy

\* Custody is only ever taken that way.
LEMMA CustodyIsTaken ==
    ASSUME TypeOK, [Next]_vars, NEW n \in Nodes, NEW m \in Messages, ~Known(n, m), Known(n, m)'
    PROVE  Taken(n, m)
<1> USE NetworkAssumption, HopEnds
<1> DEFINE Kept == Known(n, m)' = Known(n, m)
<1>1. ASSUME NEW q \in Messages, Post(q) PROVE Kept
    BY <1>1 DEF Post, TypeOK, Known
<1>2. ASSUME NEW k \in Nodes, Scan(k) PROVE Kept \/ Taken(n, m)
  <2>1. copy[k][m] = "posted" => k = Origin[m]
      BY DEF TypeOK
  <2>2. CASE k = n /\ m \in Unscanned(k)
    <3>1. n = Origin[m]
        BY <2>1, <2>2 DEF Unscanned
    <3>2. \A b \in Targets(n, m) : <<n, b>> \in Hops /\ <<n, b>>[1] = n /\ <<n, b>>[2] = b
        BY DEF Targets, Neighbors
    <3>3. \A b \in Targets(n, m) : queue'[<<n, b>>][m] = "pending"
        BY <1>2, <2>2, <3>2 DEF Scan, Publish
    <3> QED
        BY <1>2, <3>1, <3>3 DEF Scan, Taken, policyVars, SamePolicy
  <2>3. CASE ~(k = n /\ m \in Unscanned(k))
      BY <1>2, <2>3 DEF Scan, TypeOK, Known
  <2> QED
      BY <2>2, <2>3
<1>3. ASSUME NEW batch \in offers, Import(batch[1], batch[2]) PROVE Kept \/ Taken(n, m)
  <2> DEFINE a == batch[1][1]  b == batch[1][2]  S == batch[2]  new == NewMembers(b, S)
  <2>0. batch[1] \in Hops /\ S \in SUBSET Messages /\ batch = <<batch[1], S>>
      BY DEF TypeOK, Batches
  <2>1. /\ a \in Nodes /\ b \in Nodes /\ <<a, b>> \in Hops /\ batch[1] = <<a, b>>
        /\ S \in SUBSET Messages /\ batch = <<<<a, b>>, S>>
      BY <2>0 DEF Hops
  <2>2. CASE b = n /\ m \in new
    <3>1. m \in S /\ Acceptable(<<a, n>>, m)
        BY <1>3, <2>1, <2>2 DEF Import, NewMembers
    <3>2. \A c \in Targets(n, m) : <<n, c>> \in Hops /\ <<n, c>>[1] = n /\ <<n, c>>[2] = c
        BY DEF Targets, Neighbors
    <3>3. \A c \in Targets(n, m) : queue'[<<n, c>>][m] = "pending"
        BY <1>3, <2>2, <3>2 DEF Import, Publish
    <3> QED
        BY <1>3, <2>1, <2>2, <3>1, <3>3 DEF Import, Taken, policyVars, SamePolicy
  <2>3. CASE ~(b = n /\ m \in new)
      BY <1>3, <2>1, <2>3 DEF Import, TypeOK, Known
  <2> QED
      BY <2>2, <2>3
<1>4. ASSUME \/ \E h \in Hops : Prepare(h) \/ LinkFailed(h) \/ LinkLost(h)
             \/ \E batch \in offers : Acknowledge(batch[1], batch[2])
             \/ UNCHANGED vars
      PROVE Kept
    BY <1>4 DEF Prepare, LinkFailed, LinkLost, Acknowledge, vars, Known
<1>5. ASSUME NEW k \in Nodes, NEW q \in Messages, Remove(k, q) PROVE Kept
    BY <1>5 DEF Remove, TypeOK, Known
<1>6. ASSUME Operator, ~ \E k \in Nodes, q \in Messages : Remove(k, q) PROVE Kept
    BY <1>6 DEF Operator, Subscribe, Unsubscribe, SetMapping, Toggle, Retry, Known
<1> QED
    BY <1>1, <1>2, <1>3, <1>4, <1>5, <1>6 DEF Next, PollSend, Export

\* Only the operator moves subscriptions, which uses up a change; what was granted
\* stays in the history, and a new subscription enters it.
LEMMA PolicyStep ==
    ASSUME TypeOK, DossiersAreGranted, [Next]_vars
    PROVE  /\ SamePolicy \/ changes' < MaxChanges
           /\ granted \subseteq granted'
           /\ DossiersAreGranted'
<1> DEFINE Goal == /\ SamePolicy \/ changes' < MaxChanges
                   /\ granted \subseteq granted'
                   /\ DossiersAreGranted'
<1> USE NetworkAssumption, HopEnds
<1>a. changes \in 0..MaxChanges /\ MaxChanges \in Nat
    BY DEF TypeOK
<1>b. ASSUME Change PROVE changes' < MaxChanges
    BY <1>a, <1>b DEF Change
<1>1. ASSUME SamePolicy PROVE Goal
    BY <1>1 DEF SamePolicy, DossiersAreGranted, Subscribed
<1>2. ASSUME NEW n \in Nodes, NEW b \in Nodes, NEW c \in Codes, Subscribe(n, b, c) PROVE Goal
  <2>1. \A k, d \in Nodes, e \in Codes :
          Subscribed(k, d, e)' => Subscribed(k, d, e) \/ <<k, d, e>> = <<n, b, c>>
      BY <1>2 DEF Subscribe, Subscribed, TypeOK
  <2> QED
      BY <1>2, <1>b, <2>1 DEF Subscribe, DossiersAreGranted
<1>3. ASSUME NEW n \in Nodes, NEW b \in Nodes, NEW c \in Codes, Unsubscribe(n, b, c) PROVE Goal
  <2>1. \A k, d \in Nodes, e \in Codes : Subscribed(k, d, e)' => Subscribed(k, d, e)
      BY <1>3 DEF Unsubscribe, Subscribed, TypeOK
  <2> QED
      BY <1>3, <1>b, <2>1 DEF Unsubscribe, DossiersAreGranted
<1>4. ASSUME \/ \E n \in Nodes, c \in Codes, map \in Mappings : SetMapping(n, c, map)
             \/ \E n \in Nodes : Toggle(n)
             \/ \E n \in Nodes, m \in Messages : Remove(n, m)
      PROVE Goal
    BY <1>4, <1>b DEF SetMapping, Toggle, Remove, DossiersAreGranted, Subscribed
<1>5. ASSUME \/ \E m \in Messages : Post(m)
             \/ \E n \in Nodes : Scan(n)
             \/ \E h \in Hops : Prepare(h) \/ LinkFailed(h) \/ LinkLost(h)
             \/ \E batch \in offers : Import(batch[1], batch[2]) \/ Acknowledge(batch[1], batch[2])
             \/ \E h \in Hops, m \in Messages : Retry(h, m)
             \/ UNCHANGED vars
      PROVE SamePolicy
    BY <1>5 DEF Post, Scan, Prepare, LinkFailed, LinkLost, Import, Acknowledge, Retry, vars,
                policyVars, SamePolicy
<1> HIDE DEF Goal
<1>6. Goal
    BY <1>1, <1>2, <1>3, <1>4, <1>5 DEF Next, PollSend, Export, Operator
<1> QED
    BY <1>6 DEF Goal

\* Only a preparation makes an offer, of what its board is subscribed to send.
LEMMA OffersSubscribed ==
    ASSUME TypeOK, DossiersAreGranted, OffersWereSubscribed, [Next]_vars
    PROVE  OffersWereSubscribed'
<1> USE NetworkAssumption, HopEnds
<1>1. granted \subseteq granted'
    BY PolicyStep
<1>2. ASSUME NEW h \in Hops, Prepare(h)
      PROVE \E S \in SUBSET Messages :
               /\ offers' = offers \cup {<<h, S>>} \/ offers' = offers
               /\ \A m \in S : Eligible(h, m)
  <2>1. PICK prior \in (IF Prior(h) = {} THEN {{}} ELSE Prior(h)) :
          \E S \in SUBSET {m \in Candidates(h, prior) : Eligible(h, m)},
             D \in SUBSET (Candidates(h, prior) \ {m \in Candidates(h, prior) : Eligible(h, m)}) :
             Offer(h, S, D)
      BY <1>2 DEF Prepare
  <2>2. PICK S \in SUBSET {m \in Candidates(h, prior) : Eligible(h, m)} : \E D : Offer(h, S, D)
      BY <2>1
  <2>3. S \in SUBSET Messages
      BY <2>2 DEF Candidates
  <2> QED
      BY <2>2, <2>3 DEF Offer
<1>3. ASSUME NEW h \in Hops, Prepare(h) PROVE OffersWereSubscribed'
  <2>1. PICK S \in SUBSET Messages : /\ offers' = offers \cup {<<h, S>>} \/ offers' = offers
                                     /\ \A m \in S : Eligible(h, m)
      BY <1>3, <1>2
  <2>2. \A m \in S : ~Directed(m) => Subscribed(h[1], h[2], Code[m])
      BY <2>1 DEF Eligible
  <2>3. \A m \in S : ~Directed(m) => <<h[1], h[2], Code[m]>> \in granted
      BY <2>2 DEF DossiersAreGranted
  <2> QED
      BY <1>1, <2>1, <2>3 DEF OffersWereSubscribed
<1>4. ASSUME offers' = offers PROVE OffersWereSubscribed'
    BY <1>1, <1>4 DEF OffersWereSubscribed
<1>5. ASSUME \/ \E m \in Messages : Post(m)
             \/ \E n \in Nodes : Scan(n)
             \/ \E h \in Hops : LinkFailed(h) \/ LinkLost(h)
             \/ \E batch \in offers : Import(batch[1], batch[2]) \/ Acknowledge(batch[1], batch[2])
             \/ UNCHANGED vars
      PROVE offers' = offers
    BY <1>5 DEF Post, Scan, LinkFailed, LinkLost, Import, Acknowledge, vars
<1>6. ASSUME Operator PROVE offers' = offers
    BY <1>6 DEF Operator, Subscribe, Unsubscribe, SetMapping, Toggle, Remove, Retry
<1> QED
    BY <1>3, <1>4, <1>5, <1>6 DEF Next, PollSend, Export

\* Every step keeps the routing promises.
LEMMA RoutingStep == Inv /\ RoutingInv /\ [Next]_vars => RoutingInv'
<1> SUFFICES ASSUME TypeOK, ExchangeInv, RoutingInv, [Next]_vars PROVE RoutingInv'
    BY DEF Inv
<1> USE NetworkAssumption, HopEnds
<1>1. /\ DossiersAreGranted /\ OffersWereSubscribed /\ ForwardingIsIntended /\ OnlyOverDossiers
      /\ RowsAreKnown /\ OffersAreKnown /\ ImportsAreKnown
    BY DEF RoutingInv, ExchangeInv
<1>2. /\ SamePolicy \/ changes' < MaxChanges
      /\ granted \subseteq granted'
      /\ DossiersAreGranted'
    BY <1>1, PolicyStep
<1>3. OffersWereSubscribed'
    BY <1>1, OffersSubscribed
<1>4. \A n \in Nodes, m \in Messages : Known(n, m) => Known(n, m)'
    BY KnownGrows
<1>5. ForwardingIsIntended'
  <2> SUFFICES ASSUME NEW h \in Hops, NEW m \in Messages,
                      Known(h[1], m)', ~On(h[2], Origin[m], h[1]),
                      \/ Directed(m) /\ On(h[2], h[1], Dest[m])
                      \/ ~Directed(m) /\ changes' = MaxChanges /\ Subscribed(h[1], h[2], Code[m])'
               PROVE  queue'[h][m] # "none"
      BY DEF ForwardingIsIntended, Directed, On
  <2>1. changes' = MaxChanges => SamePolicy
      BY <1>2 DEF TypeOK
  <2>2. \/ Directed(m) /\ On(h[2], h[1], Dest[m])
        \/ ~Directed(m) /\ changes = MaxChanges /\ Subscribed(h[1], h[2], Code[m])
      BY <2>1 DEF SamePolicy, Subscribed
  <2>3. CASE Known(h[1], m)
    <3>1. queue[h][m] # "none"
        BY <1>1, <2>2, <2>3 DEF ForwardingIsIntended
    <3>2. RowStep(h, m)
        BY <1>1, RowsMove
    <3> QED
        BY <3>1, <3>2
        DEF RowStep, Unmoved, Written, Visited, Missed, Receipted, Suspended, Released
  <2>4. CASE ~Known(h[1], m)
    <3>1. Taken(h[1], m)
        BY <2>4, CustodyIsTaken
    <3>2. Directed(m) => h[1] # Dest[m]
        \* nothing is on the way from the destination to itself but the destination,
        \* which is on the way from the origin
        BY <2>2, OwnPath, PathEnds
    <3>3. h = <<h[1], h[2]>> /\ h[2] \in Neighbors(h[1])
        BY DEF Hops, Neighbors
    <3>4. h[2] \in Targets(h[1], m)
        BY <2>2, <3>2, <3>3 DEF Targets
    <3> QED
        BY <3>1, <3>3, <3>4 DEF Taken
  <2> QED
      BY <2>3, <2>4
<1>6. OnlyOverDossiers'
  <2> SUFFICES ASSUME NEW n \in Nodes, NEW m \in Messages,
                      Known(n, m)', ~Directed(m), n # Origin[m]
               PROVE  \E b \in Neighbors(n) :
                        /\ Known(b, m)' /\ On(b, Origin[m], n)
                        /\ {<<n, b, Code[m]>>, <<b, n, Code[m]>>} \subseteq granted'
      BY DEF OnlyOverDossiers, Directed, On, Neighbors
  <2>1. CASE Known(n, m)
    <3>1. PICK b \in Neighbors(n) :
            /\ Known(b, m) /\ On(b, Origin[m], n)
            /\ {<<n, b, Code[m]>>, <<b, n, Code[m]>>} \subseteq granted
        BY <1>1, <2>1 DEF OnlyOverDossiers
    <3> QED
        BY <1>2, <1>4, <3>1 DEF Neighbors
  <2>2. CASE ~Known(n, m)
    <3>1. PICK a \in Nodes, S \in SUBSET Messages :
            /\ <<a, n>> \in Hops /\ <<<<a, n>>, S>> \in offers /\ m \in S
            /\ Acceptable(<<a, n>>, m)
        BY <2>2, CustodyIsTaken DEF Taken
    <3>2. a \in Neighbors(n)
        BY <3>1 DEF Neighbors, Hops
    <3>3. Known(a, m)
        BY <1>1, <3>1 DEF OffersAreKnown
    <3>4. On(a, Origin[m], n)
        BY <3>1, OneSideOfAHop DEF Acceptable
    <3>5. <<a, n, Code[m]>> \in granted
        BY <1>1, <3>1 DEF OffersWereSubscribed
    <3>6. Subscribed(n, a, Code[m])
        BY <3>1 DEF Acceptable
    <3>7. <<n, a, Code[m]>> \in granted
        BY <1>1, <3>6 DEF DossiersAreGranted
    <3> QED
        BY <1>2, <1>4, <3>2, <3>3, <3>4, <3>5, <3>7
  <2> QED
      BY <2>1, <2>2
<1> QED
    BY <1>2, <1>3, <1>5, <1>6 DEF RoutingInv

\* The routing invariant holds in every state of every tree of boards.
THEOREM RoutingInvariant == Spec => [](Inv /\ RoutingInv)
<1>1. Init => Inv /\ RoutingInv
  <2>1. ASSUME Init PROVE RoutingInv
    <3>1. DossiersAreGranted
        BY <2>1, NetworkAssumption DEF Init, DossiersAreGranted, Subscribed
    <3>2. OffersWereSubscribed
        BY <2>1 DEF Init, OffersWereSubscribed
    <3>3. \A n \in Nodes, m \in Messages : ~Known(n, m)
        BY <2>1 DEF Init, Known
    <3> QED
        BY <3>1, <3>2, <3>3, HopEnds DEF RoutingInv, ForwardingIsIntended, OnlyOverDossiers
  <2> QED
      BY <2>1, InitTypes, InitInv DEF Inv
<1>2. Inv /\ RoutingInv /\ [Next]_vars => (Inv /\ RoutingInv)'
    BY StepTypes, StepInv, RoutingStep DEF Inv
<1> QED
    BY <1>1, <1>2, PTL DEF Spec

\* A board that takes custody of a message queues it for every further board it
\* owes it to, and no later step loses the row: publish routes a message that is
\* written and one that is imported alike.
THEOREM ForwardingIsIntendedHolds == Spec => []ForwardingIsIntended
<1>1. RoutingInv => ForwardingIsIntended
    BY DEF RoutingInv
<1> QED
    BY <1>1, RoutingInvariant, PTL

\* A broadcast reaches a board only from the neighbor towards its origin, over a
\* hop both operators subscribed to at some time.
THEOREM OnlyOverDossiersHolds == Spec => []OnlyOverDossiers
<1>1. RoutingInv => OnlyOverDossiers
    BY DEF RoutingInv
<1> QED
    BY <1>1, RoutingInvariant, PTL

-----------------------------------------------------------------------------
(***************************************************************************)
(* The exchange implements MessageCustody.                                 *)
(***************************************************************************)
holdsBar == [m \in Messages |-> {n \in Nodes : Known(n, m)}]
doneBar == {d \in Hops \X Messages : queue[d[1]][d[2]] = "accepted"}

\* No board holds anything at the start.
LEMMA InitMaps == Init => Custody!Init
BY DEF Init, Known, Custody!Init

\* Boards that learn of no message and rows that stay or leave what they were
\* without reaching or leaving acceptance are invisible to the abstract view.
LEMMA SameView ==
    ASSUME \A n \in Nodes, m \in Messages : Known(n, m)' = Known(n, m),
           \A h \in Hops, m \in Messages :
               (queue'[h][m] = "accepted") = (queue[h][m] = "accepted")
    PROVE  UNCHANGED <<holdsBar, doneBar>>
<1>1. \A m \in Messages : {n \in Nodes : Known(n, m)'} = {n \in Nodes : Known(n, m)}
    OBVIOUS
<1>2. UNCHANGED holdsBar
    BY <1>1 DEF holdsBar
<1>3. \A d \in Hops \X Messages :
        (queue'[d[1]][d[2]] = "accepted") = (queue[d[1]][d[2]] = "accepted")
    OBVIOUS
<1>4. UNCHANGED doneBar
    BY <1>3 DEF doneBar
<1> QED
    BY <1>2, <1>4

\* One board that takes custody of the messages of S, all new to it.
LEMMA TakesCustody ==
    ASSUME NEW b \in Nodes, NEW S \in SUBSET Messages,
           \A m \in S : ~Known(b, m) /\ Known(b, m)',
           \A n \in Nodes, m \in Messages :
               (n # b \/ m \notin S) => Known(n, m)' = Known(n, m),
           \A h \in Hops, m \in Messages :
               (queue'[h][m] = "accepted") = (queue[h][m] = "accepted")
    PROVE  /\ holdsBar' = [m \in Messages |->
                              IF m \in S THEN holdsBar[m] \cup {b} ELSE holdsBar[m]]
           /\ \A m \in S : b \notin holdsBar[m]
           /\ UNCHANGED doneBar
<1>1. \A m \in Messages : {n \in Nodes : Known(n, m)'} =
        IF m \in S THEN {n \in Nodes : Known(n, m)} \cup {b} ELSE {n \in Nodes : Known(n, m)}
    OBVIOUS
<1>2. \A d \in Hops \X Messages :
        (queue'[d[1]][d[2]] = "accepted") = (queue[d[1]][d[2]] = "accepted")
    OBVIOUS
<1> QED
    BY <1>1, <1>2 DEF holdsBar, doneBar

\* Every step of the exchange is a step of MessageCustody or invisible to it.
LEMMA StepMaps == Inv /\ [Next]_vars => [Custody!Next]_<<holdsBar, doneBar>>
<1> SUFFICES ASSUME TypeOK, ExchangeInv, [Next]_vars
             PROVE  Custody!Next \/ UNCHANGED <<holdsBar, doneBar>>
    BY DEF Inv
<1> DEFINE Goal == Custody!Next \/ UNCHANGED <<holdsBar, doneBar>>
           Same == UNCHANGED <<copy, queue>>
           Steady == \A h \in Hops, m \in Messages :
                        (queue'[h][m] = "accepted") = (queue[h][m] = "accepted")
<1> USE NetworkAssumption, HopEnds
<1>a. /\ RowsAreKnown /\ OffersAreKnown /\ ImportsAreKnown
    BY DEF ExchangeInv
<1>b. ASSUME NEW S \in SUBSET Messages, NEW n \in Nodes, Publish(n, S),
             \A m \in S : ~Known(n, m) /\ Known(n, m)', UNCHANGED attempts
      PROVE Steady
    BY <1>a, <1>b, PublishedRows DEF Unmoved, Written
<1>c. ASSUME UNCHANGED copy, Steady PROVE Goal
    BY <1>c, SameView DEF Known
<1>1. ASSUME NEW m \in Messages, Post(m) PROVE Goal
  <2>1. \A n \in Nodes, q \in Messages : Known(n, q)' = Known(n, q)
      BY <1>1 DEF Post, Known, TypeOK
  <2>2. UNCHANGED queue
      BY <1>1 DEF Post, queueVars
  <2> QED
      BY <2>1, <2>2, SameView
<1>2. ASSUME NEW n \in Nodes, Scan(n) PROVE Goal
  <2> DEFINE S == {m \in Messages : copy[n][m] = "posted" /\ Sends(n, Code[m])}
  <2>1. \A m \in S : ~Known(n, m) /\ Known(n, m)' /\ Origin[m] = n
      BY <1>2 DEF Scan, Unscanned, TypeOK, Known
  <2>2. \A k \in Nodes, m \in Messages :
           (k # n \/ m \notin S) => Known(k, m)' = Known(k, m)
      BY <1>2 DEF Scan, Unscanned, TypeOK, Known
  <2>3. Publish(n, S) /\ UNCHANGED attempts
      BY <1>2 DEF Scan, Unscanned
  <2>4. /\ holdsBar' = [m \in Messages |->
                          IF m \in S THEN holdsBar[m] \cup {n} ELSE holdsBar[m]]
        /\ \A m \in S : n \notin holdsBar[m]
        /\ UNCHANGED doneBar
      BY <1>b, <2>1, <2>2, <2>3, TakesCustody
  <2>5. S \in SUBSET {m \in Messages : Origin[m] = n /\ n \notin holdsBar[m]}
      BY <2>1, <2>4
  <2>6. Custody!Publish(n)
      BY <2>4, <2>5 DEF Custody!Publish, holdsBar, doneBar
  <2> QED
      BY <2>6 DEF Custody!Next
<1>3. ASSUME NEW batch \in offers, Import(batch[1], batch[2]) PROVE Goal
  <2> DEFINE g == batch[1]  b == g[2]  S == NewMembers(b, batch[2])
  <2>1. g \in Hops /\ b \in Nodes /\ batch[2] \in SUBSET Messages
      BY DEF TypeOK, Batches
  <2>2. \A m \in Messages : Placement(b, m) \in {"conference", "transit"}
      BY DEF Placement
  <2>3. S \in SUBSET Messages /\ \A m \in S : ~Known(b, m) /\ Known(b, m)'
      BY <1>3, <2>1, <2>2 DEF Import, NewMembers, TypeOK, Known
  <2>4. \A k \in Nodes, m \in Messages :
           (k # b \/ m \notin S) => Known(k, m)' = Known(k, m)
      BY <1>3, <2>1 DEF Import, NewMembers, TypeOK, Known
  <2>5. Publish(b, S) /\ UNCHANGED attempts
      BY <1>3 DEF Import
  <2>6. /\ holdsBar' = [m \in Messages |->
                          IF m \in S THEN holdsBar[m] \cup {b} ELSE holdsBar[m]]
        /\ \A m \in S : b \notin holdsBar[m]
        /\ UNCHANGED doneBar
      BY <1>b, <2>1, <2>3, <2>4, <2>5, TakesCustody
  <2>7. \A m \in S : g[1] \in holdsBar[m]
      BY <1>a, <2>1 DEF OffersAreKnown, NewMembers, holdsBar
  <2>8. S \in SUBSET {m \in Messages : g[1] \in holdsBar[m] /\ g[2] \notin holdsBar[m]}
      BY <2>3, <2>6, <2>7
  <2>9. Custody!Cross(g)
      BY <2>6, <2>8 DEF Custody!Cross, holdsBar, doneBar
  <2> QED
      BY <2>1, <2>9 DEF Custody!Next
<1>4. ASSUME NEW batch \in offers, Acknowledge(batch[1], batch[2]) PROVE Goal
  <2> DEFINE g == batch[1]  S == batch[2]
  <2>0. g \in Hops /\ S \in SUBSET Messages /\ batch = <<g, S>>
      BY DEF TypeOK, Batches
  <2>1. g \in Hops /\ S \in SUBSET Messages /\ batch \in imports
      BY <1>4, <2>0 DEF Acknowledge
  <2>2. S \in SUBSET {m \in Messages : g[1] \in holdsBar[m] /\ g[2] \in holdsBar[m]}
      BY <1>a, <2>1 DEF OffersAreKnown, ImportsAreKnown, holdsBar
  <2>3. \A d \in Hops \X Messages :
          queue'[d[1]][d[2]] = "accepted" <=>
              queue[d[1]][d[2]] = "accepted" \/ (d[1] = g /\ d[2] \in S)
      BY <1>4, <2>1 DEF Acknowledge, Settled, TypeOK
  <2>4. doneBar' = doneBar \cup {<<g, m>> : m \in S}
      BY <2>1, <2>3 DEF doneBar
  <2>5. UNCHANGED holdsBar
      BY <1>4 DEF Acknowledge, holdsBar, Known
  <2>6. Custody!Confirm(g)
      BY <2>2, <2>4, <2>5 DEF Custody!Confirm, holdsBar, doneBar
  <2> QED
      BY <2>1, <2>6 DEF Custody!Next
<1>5. ASSUME NEW g \in Hops, Prepare(g) PROVE Goal
  <2>1. PICK S \in SUBSET Messages, D \in SUBSET Messages :
          /\ Offer(g, S, D)
          /\ \A m \in S \cup D : /\ queue[g][m] \in {"pending", "ready", "retry"}
                               /\ attempts[g][m] < MaxAttempts
      BY <1>5, PreparedRows
  <2>2. Steady
      BY <2>1 DEF TypeOK, Offer
  <2>3. UNCHANGED copy
      BY <1>5 DEF Prepare
  <2> QED
      BY <1>c, <2>2, <2>3
<1>6. ASSUME NEW g \in Hops, LinkFailed(g) PROVE Goal
  <2>1. Steady
      BY <1>6 DEF LinkFailed, Counted, TypeOK
  <2>2. UNCHANGED copy
      BY <1>6 DEF LinkFailed
  <2> QED
      BY <1>c, <2>1, <2>2
<1>7. ASSUME NEW n \in Nodes, NEW b \in Nodes, NEW c \in Codes, Unsubscribe(n, b, c) PROVE Goal
  <2>1. Steady
      BY <1>7 DEF Unsubscribe, HeldByUnsubscribe, Waiting, TypeOK
  <2>2. UNCHANGED copy
      BY <1>7 DEF Unsubscribe
  <2> QED
      BY <1>c, <2>1, <2>2
<1>8. ASSUME NEW n \in Nodes, NEW q \in Messages, Remove(n, q) PROVE Goal
  <2>1. \A k \in Nodes, m \in Messages : Known(k, m)' = Known(k, m)
      BY <1>8 DEF Remove, Known, TypeOK
  <2>2. UNCHANGED queue
      BY <1>8 DEF Remove, queueVars
  <2> QED
      BY <2>1, <2>2, SameView
<1>9. ASSUME NEW g \in Hops, NEW q \in Messages, Retry(g, q) PROVE Goal
  <2>1. Steady
      BY <1>9 DEF Retry, Retryable, TypeOK
  <2>2. UNCHANGED copy
      BY <1>9 DEF Retry
  <2> QED
      BY <1>c, <2>1, <2>2
<1>10. ASSUME \/ \E h \in Hops : LinkLost(h)
              \/ \E n, b \in Nodes, c \in Codes : Subscribe(n, b, c)
              \/ \E n \in Nodes, c \in Codes, map \in Mappings : SetMapping(n, c, map)
              \/ \E n \in Nodes : Toggle(n)
              \/ UNCHANGED vars
       PROVE Same
    BY <1>10 DEF LinkLost, Subscribe, SetMapping, Toggle, queueVars, vars
<1>11. ASSUME Same PROVE Goal
    BY <1>c, <1>11
<1> HIDE DEF Goal, Same, Steady
<1>12. Goal
    BY <1>1, <1>2, <1>3, <1>4, <1>5, <1>6, <1>7, <1>8, <1>9, <1>10, <1>11
    DEF Next, PollSend, Export, Operator
<1> QED
    BY <1>12 DEF Goal

\* The exchange implements MessageCustody: over any tree of boards, with any
\* losses, repetitions, delays and operator changes, custody is taken once per
\* board, from a neighbor that has it, and confirmed only after the fact.
THEOREM CustodyImplemented == Spec => CustodySpec
<1>1. Init => Custody!Init
    BY InitMaps
<1>2. Inv /\ [Next]_vars => [Custody!Next]_<<holdsBar, doneBar>>
    BY StepMaps
<1> QED
    BY <1>1, <1>2, ExchangeInvariant, PTL DEF Spec, CustodySpec, Custody!Spec, holdsBar, doneBar
=============================================================================
