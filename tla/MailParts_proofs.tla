--------------------------- MODULE MailParts_proofs ---------------------------
(***************************************************************************)
(* Proofs about the components that carry mail.  The module extends        *)
(* BinkpQueue, the outbound queue.  The other components are instances     *)
(* with parameters of their own: CA is ArtifactCustody, OR is              *)
(* OfflineReplies, FM is FtnMail, OP is OfflinePackets.                    *)
(***************************************************************************)
EXTENDS BinkpQueue, Sequences, TLAPS, FiniteSetTheorems, WellFoundedInduction

(***************************************************************************)
(* Proofs about BinkpQueue, for any works, links, peers and bounds.         *)
(*                                                                          *)
(* A claim is only meaningful with its session: the inductive invariant     *)
(* ties the claims to the session on record and, while the daemon runs, to  *)
(* the thread of that session.  A copy of the board is a board of its own,  *)
(* so what the invariant says of rows it says of the copy's rows too.       *)
(***************************************************************************)

Row == [state : States, attempts : 0 .. MaxAttempts, made : BOOLEAN, waits : BOOLEAN,
        policy : 0 .. MaxPolicy]
ClaimState == {"none", "claimed", "offered", "skipped"}
Health == [active : BOOLEAN, policy : 0 .. MaxPolicy, failures : 0 .. MaxAttempts,
           waits : BOOLEAN, held : BOOLEAN]
Stages == {"none", "begun", "built", "exchange", "broken"}
Run == [stage : Stages, policy : 0 .. MaxPolicy, ids : SUBSET Works]
Copy == [row : [Works -> Row], claim : [Works -> ClaimState], health : [Links -> Health],
         offers : [Works -> Nat]]
Bounded == {"policy", "withdraw", "operator", "crash", "restore"}

RowsTyped ==
    /\ row \in [Works -> Row] /\ claim \in [Works -> ClaimState] /\ health \in [Links -> Health]
    /\ offers \in [Works -> Nat]
RestTyped ==
    /\ run \in [Links -> Run] /\ live \in [Works -> BOOLEAN] /\ taken \in [Works -> Nat]
    /\ count \in [Bounded -> Nat] /\ policy = count["policy"] /\ policy \in 0 .. MaxPolicy
    /\ acked \subseteq Works /\ freed \subseteq Works /\ up \in BOOLEAN
CopyTyped == copy = NoCopy \/ copy \in Copy

\* While the daemon runs, a link has a session's thread exactly when a session is on
\* record; without the daemon there is no thread.  A thread prepares its own link's work.
SessionsRun ==
    \A l \in Links : /\ run[l].stage # "none" <=> health[l].active /\ up
                     /\ \A w \in run[l].ids : LinkOf[w] = l

\* A claim has its session, the session is past its preparation, and the work is
\* neither accepted nor at its last attempt.
ClaimHeld(w) == claim[w] # "none" =>
    /\ health[LinkOf[w]].active /\ row[w].state # "accepted" /\ row[w].attempts < MaxAttempts
    /\ up => run[LinkOf[w]].stage \in {"exchange", "broken"}

\* An acknowledgement, on its way, on record or in the copy, means that the peer has it.
WasTaken(w) ==
    /\ row[w].state = "accepted" \/ w \in acked => taken[w] > 0
    /\ copy # NoCopy /\ copy.row[w].state = "accepted" => taken[w] > 0

\* Each offer is an attempt on record or the one under way, on the board and in its copy.
Tried(rows, claims, given, w) ==
    /\ given[w] <= rows[w].attempts + IF claims[w] \in {"offered", "skipped"} THEN 1 ELSE 0
    /\ claims[w] # "none" => rows[w].attempts < MaxAttempts
OfferTried(w) ==
    /\ Tried(row, claim, offers, w)
    /\ copy # NoCopy => Tried(copy.row, copy.claim, copy.offers, w)

\* After a restore, what the copy had queued is settled or held until it is released.
ReviewAwaited(w) == count["restore"] > 0 =>
    /\ copy # NoCopy
    /\ copy.row[w].state # "none" /\ w \notin freed =>
          row[w].state \in {"held", "accepted", "failed"} /\ claim[w] = "none"

WorkInv(w) == ClaimHeld(w) /\ WasTaken(w) /\ OfferTried(w) /\ ReviewAwaited(w)
Inv == RowsTyped /\ RestTyped /\ CopyTyped /\ SessionsRun /\ \A w \in Works : WorkInv(w)

-----------------------------------------------------------------------------
\* What the operators on rows keep.
LEMMA OneMoreIs ==
    ASSUME QueueAssumption, NEW n \in 0 .. MaxAttempts
    PROVE  /\ OneMore(n) \in 0 .. MaxAttempts /\ n <= OneMore(n)
           /\ n < MaxAttempts => OneMore(n) = n + 1
           /\ n = MaxAttempts => OneMore(n) = MaxAttempts
BY DEF QueueAssumption, BoundsAssumption, OneMore

LEMMA MovedIs ==
    ASSUME NEW r \in Row, NEW state \in States, NEW n \in 0 .. MaxAttempts,
        NEW waits \in BOOLEAN
    PROVE  Moved(r, state, n, waits) \in Row
BY DEF Moved, Row

LEMMA HeldIs ==
    ASSUME NEW r \in Row
    PROVE  /\ [r EXCEPT !.state = "held"] \in Row
           /\ [r EXCEPT !.state = "held"].state = "held"
           /\ [r EXCEPT !.state = "held"].attempts = r.attempts
BY DEF Row, States

LEMMA RestedIs ==
    ASSUME NEW r \in Row, NEW h \in Health
    PROVE  /\ [r EXCEPT !.waits = FALSE] \in Row
           /\ [r EXCEPT !.waits = FALSE].state = r.state
           /\ [r EXCEPT !.waits = FALSE].attempts = r.attempts
           /\ [h EXCEPT !.waits = FALSE] \in Health
           /\ [h EXCEPT !.waits = FALSE].active = h.active
BY DEF Row, Health

\* Binding holds some eligible rows and keeps the others.
LEMMA BoundIs ==
    ASSUME NEW rows \in [Works -> Row], NEW digest
    PROVE  /\ Bound(rows, digest) \in [Works -> Row]
           /\ \A w \in Works :
                /\ Bound(rows, digest)[w].attempts = rows[w].attempts
                /\ \/ Bound(rows, digest)[w] = rows[w]
                   \/ rows[w].state \in Eligible /\ Bound(rows, digest)[w].state = "held"
<1>1. ASSUME NEW w \in Works
      PROVE  /\ Bound(rows, digest)[w] \in Row
             /\ Bound(rows, digest)[w].attempts = rows[w].attempts
             /\ \/ Bound(rows, digest)[w] = rows[w]
                \/ rows[w].state \in Eligible /\ Bound(rows, digest)[w].state = "held"
    BY HeldIs DEF Bound
<1> QED
    BY <1>1 DEF Bound

\* Work that was routed under another policy is held; what is eligible may be packed.
Rerouted ==
    /\ row' \in [Works -> Row]
    /\ \A w \in Works :
          /\ row'[w].attempts = row[w].attempts
          /\ \/ row'[w] = row[w]
             \/ row[w].state \in Eligible /\ row'[w].state \in {"held", "ready"}

\* What a settled claim leaves.
LEMMA SettledIs ==
    ASSUME QueueAssumption, RowsTyped, NEW w \in Works, NEW why, NEW old
    PROVE  /\ Settled(w, why, w \in old) \in Row
           /\ Settled(w, why, w \in old).attempts = OneMore(row[w].attempts)
           /\ Settled(w, why, w \in old).state \in {"held", "failed", "retry"}
           /\ row[w].state = "held" => Settled(w, why, w \in old).state = "held"
<1>1. row[w] \in Row /\ row[w].attempts \in 0 .. MaxAttempts
    BY DEF RowsTyped, Row
<1>2. OneMore(row[w].attempts) \in 0 .. MaxAttempts
    BY <1>1, OneMoreIs
<1> QED
    BY <1>1, <1>2, MovedIs DEF Settled, Moved, States

\* What the end of sessions leaves: of their claims, and of the rest.
Ended(links) ==
    /\ row' \in [Works -> Row] /\ claim' \in [Works -> ClaimState] /\ health' \in [Links -> Health]
    /\ \A l \in Links : /\ l \in links => ~health'[l].active
                        /\ l \notin links => health'[l] = health[l]
    /\ \A w \in Works :
          /\ LinkOf[w] \in links => claim'[w] = "none"
          /\ LinkOf[w] \notin links => claim'[w] = claim[w]
          /\ LinkOf[w] \notin links \/ claim[w] = "none" => row'[w] = row[w]
          /\ LinkOf[w] \in links /\ claim[w] # "none" =>
                /\ row'[w].attempts = OneMore(row[w].attempts)
                /\ row'[w].state \in {"held", "failed", "retry"}
                /\ row[w].state = "held" => row'[w].state = "held"
LEMMA EndedIs ==
    ASSUME QueueAssumption, RowsTyped, NEW links \in SUBSET Links, NEW why, NEW old,
           row' = FinishedRows(why, links, old), health' = FinishedHealth(why, links),
           claim' = FinishedClaims(links)
    PROVE  Ended(links)
<1>1. ASSUME NEW w \in Works
      PROVE  /\ row'[w] \in Row
             /\ LinkOf[w] \notin links \/ claim[w] = "none" => row'[w] = row[w]
             /\ LinkOf[w] \in links /\ claim[w] # "none" =>
                   /\ row'[w].attempts = OneMore(row[w].attempts)
                   /\ row'[w].state \in {"held", "failed", "retry"}
                   /\ row[w].state = "held" => row'[w].state = "held"
  <2>1. CASE claim[w] # "none" /\ LinkOf[w] \in links
    <3>1. row'[w] = Settled(w, why, w \in old)
        BY <2>1 DEF FinishedRows
    <3> QED BY <2>1, <3>1, SettledIs
  <2>2. CASE ~(claim[w] # "none" /\ LinkOf[w] \in links)
    <3>1. row'[w] = row[w]
        BY <2>2 DEF FinishedRows
    <3> QED BY <2>2, <3>1 DEF RowsTyped
  <2> QED BY <2>1, <2>2
<1>2. row' \in [Works -> Row]
    BY <1>1 DEF FinishedRows
<1>3. ASSUME NEW l \in Links
      PROVE  /\ health'[l] \in Health
             /\ l \in links => ~health'[l].active
             /\ l \notin links => health'[l] = health[l]
  <2>1. health[l] \in Health /\ health[l].failures \in 0 .. MaxAttempts
      BY DEF RowsTyped, Health
  <2>2. OneMore(health[l].failures) \in 0 .. MaxAttempts /\ 0 \in 0 .. MaxAttempts
      BY <2>1, OneMoreIs DEF QueueAssumption, BoundsAssumption
  <2> QED
      BY <2>1, <2>2 DEF FinishedHealth, Health
<1>4. health' \in [Links -> Health]
    BY <1>3 DEF FinishedHealth
<1>5. claim' \in [Works -> ClaimState]
    BY DEF FinishedClaims, RowsTyped, ClaimState
<1>6. \A w \in Works : /\ LinkOf[w] \in links => claim'[w] = "none"
                       /\ LinkOf[w] \notin links => claim'[w] = claim[w]
    BY DEF FinishedClaims
<1> QED
    BY <1>1, <1>2, <1>3, <1>4, <1>5, <1>6 DEF Ended

\* The end of one session, whatever its reason.
LEMMA FinishIs ==
    ASSUME QueueAssumption, RowsTyped, NEW l \in Links, NEW why, Finish(l, why)
    PROVE  Ended({l})
BY EndedIs DEF Finish

\* What a step may never do to a row: let go a held one, or take back an acceptance.
Kept == HeldIsReviewed /\ AcceptedIsFinal

\* When sessions have ended, the invariant holds of what they leave.
LEMMA EndedKeeps ==
    ASSUME QueueAssumption, Inv, NEW links \in SUBSET Links, Ended(links), SessionsRun',
           acked' \subseteq acked, UNCHANGED <<offers, live, taken, policy, copy, freed,
               count>>,
           run' \in [Links -> Run], \A l \in Links \ links : run'[l] = run[l],
           up' \in BOOLEAN, up' = up \/ \A l \in Links : ~health'[l].active
    PROVE  Inv' /\ Kept
<1>1. RowsTyped' /\ RestTyped' /\ CopyTyped'
    BY DEF Inv, Ended, RowsTyped, RestTyped, CopyTyped
<1>2. ASSUME NEW v \in Works
      PROVE  /\ WorkInv(v)'
             /\ row[v].state = "held" => row'[v].state = "held"
             /\ row[v].state = "accepted" => row'[v].state = "accepted"
  <2>1. ClaimHeld(v) /\ WasTaken(v) /\ OfferTried(v) /\ ReviewAwaited(v) /\ LinkOf[v] \in Links
      BY DEF Inv, WorkInv, QueueAssumption, LinksAssumption
  <2>2. row[v].attempts \in 0 .. MaxAttempts /\ offers[v] \in Nat /\ MaxAttempts \in Nat
      BY DEF Inv, RowsTyped, Row, QueueAssumption, BoundsAssumption
  <2>3. CASE LinkOf[v] \in links /\ claim[v] # "none"
    <3>1. /\ row'[v].attempts = row[v].attempts + 1 /\ claim'[v] = "none"
          /\ row'[v].state \in {"held", "failed", "retry"}
          /\ row[v].state = "held" => row'[v].state = "held"
          /\ row[v].state # "accepted"
        BY <2>1, <2>2, <2>3, OneMoreIs DEF Ended, ClaimHeld
    <3>2. ClaimHeld(v)'
        BY <3>1 DEF ClaimHeld
    <3>3. WasTaken(v)'
        BY <2>1, <3>1 DEF WasTaken
    <3>4. OfferTried(v)'
        BY <2>1, <2>2, <3>1 DEF OfferTried, Tried
    <3>5. ReviewAwaited(v)'
        BY <2>1, <2>3, <3>1 DEF ReviewAwaited
    <3> QED BY <3>1, <3>2, <3>3, <3>4, <3>5 DEF WorkInv
  <2>4. CASE ~(LinkOf[v] \in links /\ claim[v] # "none")
    <3>1. /\ row'[v] = row[v] /\ claim'[v] = claim[v]
          /\ claim[v] # "none" => LinkOf[v] \notin links /\ health'[LinkOf[v]] = health[LinkOf[v]]
        BY <2>1, <2>4 DEF Ended
    <3>2. ClaimHeld(v)'
        BY <2>1, <3>1 DEF ClaimHeld
    <3>3. WasTaken(v)'
        BY <2>1, <3>1 DEF WasTaken
    <3>4. OfferTried(v)'
        BY <2>1, <3>1 DEF OfferTried, Tried
    <3>5. ReviewAwaited(v)'
        BY <2>1, <3>1 DEF ReviewAwaited
    <3> QED BY <3>1, <3>2, <3>3, <3>4, <3>5 DEF WorkInv
  <2> QED BY <2>3, <2>4
<1>3. Kept
    BY <1>2 DEF Kept, HeldIsReviewed, AcceptedIsFinal
<1> QED
    BY <1>1, <1>2, <1>3 DEF Inv

LEMMA FinishStep ==
    ASSUME QueueAssumption, Inv, NEW l \in Links, NEW why, Finish(l, why),
           UNCHANGED <<live, taken, policy, up, copy, freed, count>>
    PROVE  Inv' /\ Kept
<1>1. Ended({l})
    BY FinishIs DEF Inv
<1>2. /\ acked' \subseteq acked /\ UNCHANGED offers
      /\ run' = [run EXCEPT ![l] = NoRun] /\ run \in [Links -> Run] /\ up \in BOOLEAN
    BY DEF Finish, Inv, RestTyped
<1>3. NoRun \in Run /\ NoRun.stage = "none" /\ NoRun.ids = {}
    BY DEF NoRun, Run, Stages, QueueAssumption, BoundsAssumption
<1>4. /\ run' \in [Links -> Run] /\ run'[l] = NoRun
      /\ \A k \in Links \ {l} : run'[k] = run[k]
    BY <1>2, <1>3
<1>5. SessionsRun'
    BY <1>1, <1>3, <1>4 DEF SessionsRun, Ended, Inv
<1> QED
    BY <1>1, <1>2, <1>4, <1>5, EndedKeeps

\* The work may still be sent when its offer is about to leave.
MayBeOffered(w) == row[w].state \in Eligible /\ live[w] /\ row[w].policy = policy

-----------------------------------------------------------------------------
\* Every step keeps the types, the sessions' threads and what is known of each work.
LEMMA Step == ASSUME QueueAssumption, Inv, Next PROVE Inv' /\ Kept
<1>a. RowsTyped /\ RestTyped /\ CopyTyped
    BY DEF Inv
<1>b. SessionsRun /\ \A w \in Works : WorkInv(w)
    BY DEF Inv
<1>c. /\ \A w \in Works : LinkOf[w] \in Links
      /\ \A w \in Works : row[w] \in Row /\ row[w].attempts \in Nat /\ row[w].attempts <= MaxAttempts
                          /\ offers[w] \in Nat /\ taken[w] \in Nat
      /\ NoRun \in Run /\ NoRun.stage = "none" /\ MaxPolicy \in Nat
      /\ MaxAttempts \in Nat \ {0} /\ policy \in 0 .. MaxPolicy
  <2>1. \A w \in Works : row[w] \in Row /\ row[w].attempts \in 0 .. MaxAttempts
      BY <1>a DEF RowsTyped, Row
  <2> QED
      BY <1>a, <2>1 DEF QueueAssumption, LinksAssumption, BoundsAssumption, RowsTyped,
          RestTyped,
         NoRun, Run, Stages
<1>1. ASSUME NEW w \in Works, Queue(w) PROVE Inv' /\ Kept
  <2>1. /\ row' \in [Works -> Row] /\ row[w].state = "none"
        /\ \A v \in Works :
              /\ row'[v].attempts = row[v].attempts
              /\ \/ row'[v] = row[v]
                 \/ v = w /\ row'[v].state \in {"held", "pending"}
                 \/ row[v].state \in Eligible /\ row'[v].state = "held"
    <3> DEFINE new == [row EXCEPT ![w] = [state |-> "pending", attempts |-> row[w].attempts,
                          made |-> row[w].made, waits |-> row[w].waits, policy |-> policy]]
    <3>1. new \in [Works -> Row] /\ new[w].state = "pending" /\ new[w].attempts = row[w].attempts
      <4>1. [state |-> "pending", attempts |-> row[w].attempts, made |-> row[w].made,
             waits |-> row[w].waits, policy |-> policy] \in Row
          BY <1>c DEF Row, States
      <4> QED BY <4>1, <1>a DEF RowsTyped
    <3>2. \A v \in Works : v # w => new[v] = row[v]
        BY <1>a DEF RowsTyped
    <3>3. row' = Bound(new, policy) /\ row[w].state = "none"
        BY <1>1 DEF Queue
    <3> HIDE DEF new
    <3> QED BY <3>1, <3>2, <3>3, BoundIs DEF Eligible
  <2>2. RowsTyped'
      BY <1>a, <1>c, <1>1, <2>1 DEF RowsTyped, Queue
  <2>3. RestTyped'
      BY <1>a, <1>c, <1>1, <2>1 DEF RestTyped, Run, Stages, NoRun, Bounded,
          QueueAssumption, BoundsAssumption, Queue
  <2>4. CopyTyped'
      BY <1>a, <1>c, <1>1, <2>1 DEF CopyTyped, Queue
  <2>5. SessionsRun'
      BY <1>a, <1>c, <1>1, <2>1, <1>b DEF SessionsRun, RestTyped, RowsTyped, Run, NoRun,
          Queue
  <2>6. ASSUME NEW v \in Works PROVE WorkInv(v)'
    <3>1. ClaimHeld(v) /\ WasTaken(v) /\ OfferTried(v) /\ ReviewAwaited(v)
        BY <1>b DEF WorkInv
    <3>2. ClaimHeld(v)'
        BY <1>a, <1>b, <1>c, <1>1, <2>1, <3>1 DEF ClaimHeld, SessionsRun, RowsTyped,
            RestTyped, Run, ClaimState, Eligible, Queue
    <3>3. WasTaken(v)'
        BY <1>a, <1>b, <1>c, <1>1, <2>1, <3>1 DEF WasTaken, ClaimHeld, RowsTyped,
            RestTyped, Run, ClaimState, Eligible, Queue
    <3>4. OfferTried(v)'
        BY <1>a, <1>b, <1>c, <1>1, <2>1, <3>1 DEF OfferTried, Tried, ClaimHeld, RowsTyped,
            RestTyped, Run, ClaimState, Eligible, Queue
    <3>5. ReviewAwaited(v)'
        BY <1>a, <1>b, <1>c, <1>1, <2>1, <3>1 DEF ReviewAwaited, RowsTyped, RestTyped, Run,
            ClaimState, Eligible, Queue
    <3> QED BY <3>2, <3>3, <3>4, <3>5 DEF WorkInv
  <2>7. Kept
      BY <1>a, <1>c, <1>1, <2>1 DEF Kept, HeldIsReviewed, AcceptedIsFinal, Eligible,
          RowsTyped, RestTyped, Bounded, Queue
  <2> QED BY <2>2, <2>3, <2>4, <2>5, <2>6, <2>7 DEF Inv
<1>2. ASSUME NEW l \in Links, Begin(l) PROVE Inv' /\ Kept
  <2>1. row' = Bound(row, policy)
      BY <1>2 DEF Begin
  <2>2. Rerouted
      BY <2>1, <1>a, BoundIs DEF RowsTyped, Rerouted
  <2>3. /\ health' \in [Links -> Health] /\ ~health[l].active /\ up /\ health'[l].active
        /\ \A k \in Links : k # l => health'[k] = health[k]
    <3>1. health[l] \in Health
        BY <1>a DEF RowsTyped
    <3>2. /\ health'[l] \in Health /\ health'[l].active /\ ~health[l].active /\ up
          /\ health' = [health EXCEPT ![l] = health'[l]]
        BY <1>a, <1>c, <1>2, <3>1 DEF Begin, RowsTyped, Health
    <3> QED BY <1>a, <3>2 DEF RowsTyped
  <2>4. /\ run' \in [Links -> Run] /\ run'[l].stage = "begun" /\ run'[l].ids = {}
        /\ \A k \in Links : k # l => run'[k] = run[k]
    <3>1. [stage |-> "begun", policy |-> policy, ids |-> {}] \in Run
        BY <1>c DEF Run, Stages
    <3> QED BY <1>a, <1>2, <3>1 DEF Begin, RestTyped
  <2>5. RowsTyped'
      BY <1>a, <1>c, <1>2, <2>1, <2>2, <2>3, <2>4 DEF RowsTyped, Begin, Rerouted
  <2>6. RestTyped'
      BY <1>a, <1>c, <1>2, <2>1, <2>2, <2>3, <2>4 DEF RestTyped, Run, Stages, NoRun,
          Bounded, QueueAssumption, BoundsAssumption, Begin, Rerouted
  <2>7. CopyTyped'
      BY <1>a, <1>c, <1>2, <2>1, <2>2, <2>3, <2>4 DEF CopyTyped, Begin, Rerouted
  <2>8. SessionsRun'
      BY <1>a, <1>c, <1>2, <2>1, <2>2, <2>3, <2>4, <1>b DEF SessionsRun, RestTyped,
          RowsTyped, Run, NoRun, Begin, Rerouted
  <2>9. ASSUME NEW v \in Works PROVE WorkInv(v)'
    <3>1. ClaimHeld(v) /\ WasTaken(v) /\ OfferTried(v) /\ ReviewAwaited(v)
        BY <1>b DEF WorkInv
    <3>2. ClaimHeld(v)'
        BY <1>a, <1>b, <1>c, <1>2, <2>1, <2>2, <2>3, <2>4, <3>1 DEF ClaimHeld, SessionsRun,
            RowsTyped, RestTyped, Run, ClaimState, Eligible, Begin, Rerouted
    <3>3. WasTaken(v)'
        BY <1>a, <1>b, <1>c, <1>2, <2>1, <2>2, <2>3, <2>4, <3>1 DEF WasTaken, ClaimHeld,
            RowsTyped, RestTyped, Run, ClaimState, Eligible, Begin, Rerouted
    <3>4. OfferTried(v)'
        BY <1>a, <1>b, <1>c, <1>2, <2>1, <2>2, <2>3, <2>4, <3>1 DEF OfferTried, Tried,
            ClaimHeld, RowsTyped, RestTyped, Run, ClaimState, Eligible, Begin, Rerouted
    <3>5. ReviewAwaited(v)'
        BY <1>a, <1>b, <1>c, <1>2, <2>1, <2>2, <2>3, <2>4, <3>1 DEF ReviewAwaited, RowsTyped,
            RestTyped, Run, ClaimState, Eligible, Begin, Rerouted
    <3> QED BY <3>2, <3>3, <3>4, <3>5 DEF WorkInv
  <2>10. Kept
      BY <1>a, <1>c, <1>2, <2>1, <2>2, <2>3, <2>4 DEF Kept, HeldIsReviewed,
          AcceptedIsFinal, Eligible, RowsTyped, RestTyped, Bounded, Begin, Rerouted
  <2> QED BY <2>5, <2>6, <2>7, <2>8, <2>9, <2>10 DEF Inv
<1>3. ASSUME NEW l \in Links, Prepare(l) PROVE Inv' /\ Kept
  <2>1. Rerouted
    <3> DEFINE ids == {v \in Worked(l) : row[v].state \in Eligible /\ ~row[v].waits}
               built == [v \in Works |->
                   IF v \notin ids THEN row[v]
                   ELSE IF ~Valid(v, run[l].policy) \/ row[v].policy # policy
                   THEN [row[v] EXCEPT !.state = "held"]
                   ELSE IF row[v].made THEN row[v]
                   ELSE [state |-> "ready", attempts |-> row[v].attempts, made |-> TRUE,
                         waits |-> row[v].waits, policy |-> row[v].policy]]
    <3>1. row' = Bound(built, run[l].policy)
        BY <1>3 DEF Prepare
    <3>2. ASSUME NEW v \in Works
          PROVE  /\ built[v] \in Row /\ built[v].attempts = row[v].attempts
                 /\ \/ built[v] = row[v]
                    \/ row[v].state \in Eligible /\ built[v].state \in {"held", "ready"}
      <4>1. row[v] \in Row
          BY <1>c
      <4>2. [state |-> "ready", attempts |-> row[v].attempts, made |-> TRUE,
             waits |-> row[v].waits, policy |-> row[v].policy] \in Row
          BY <4>1 DEF Row, States
      <4> QED BY <4>1, <4>2, HeldIs DEF Worked
    <3>3. built \in [Works -> Row]
        BY <3>2
    <3> HIDE DEF built
    <3> QED BY <3>1, <3>2, <3>3, BoundIs DEF Rerouted, Eligible
  <2>2. /\ run' \in [Links -> Run] /\ run[l].stage = "begun" /\ run'[l].stage = "built"
        /\ run'[l].ids \subseteq Worked(l)
        /\ \A k \in Links : k # l => run'[k] = run[k]
    <3>1. run[l].policy \in 0 .. MaxPolicy
        BY <1>a DEF RestTyped, Run
    <3>2. [stage |-> "built", policy |-> run[l].policy,
           ids |-> {v \in Worked(l) : row[v].state \in Eligible /\ ~row[v].waits}] \in Run
        BY <3>1 DEF Run, Stages, Worked
    <3> QED BY <1>a, <1>3, <3>2 DEF Prepare, RestTyped
  <2>3. RowsTyped'
      BY <1>a, <1>c, <1>3, <2>1, <2>2 DEF RowsTyped, Prepare, Rerouted, Worked
  <2>4. RestTyped'
      BY <1>a, <1>c, <1>3, <2>1, <2>2 DEF RestTyped, Run, Stages, NoRun, Bounded,
          QueueAssumption, BoundsAssumption, Prepare, Rerouted, Worked
  <2>5. CopyTyped'
      BY <1>a, <1>c, <1>3, <2>1, <2>2 DEF CopyTyped, Prepare, Rerouted, Worked
  <2>6. SessionsRun'
      BY <1>a, <1>c, <1>3, <2>1, <2>2, <1>b DEF SessionsRun, RestTyped, RowsTyped, Run,
          NoRun, Prepare, Rerouted, Worked
  <2>7. ASSUME NEW v \in Works PROVE WorkInv(v)'
    <3>1. ClaimHeld(v) /\ WasTaken(v) /\ OfferTried(v) /\ ReviewAwaited(v)
        BY <1>b DEF WorkInv
    <3>2. ClaimHeld(v)'
        BY <1>a, <1>b, <1>c, <1>3, <2>1, <2>2, <3>1 DEF ClaimHeld, SessionsRun, RowsTyped,
            RestTyped, Run, ClaimState, Eligible, Prepare, Rerouted, Worked
    <3>3. WasTaken(v)'
        BY <1>a, <1>b, <1>c, <1>3, <2>1, <2>2, <3>1 DEF WasTaken, ClaimHeld, RowsTyped,
            RestTyped, Run, ClaimState, Eligible, Prepare, Rerouted, Worked
    <3>4. OfferTried(v)'
        BY <1>a, <1>b, <1>c, <1>3, <2>1, <2>2, <3>1 DEF OfferTried, Tried, ClaimHeld,
            RowsTyped, RestTyped, Run, ClaimState, Eligible, Prepare, Rerouted, Worked
    <3>5. ReviewAwaited(v)'
        BY <1>a, <1>b, <1>c, <1>3, <2>1, <2>2, <3>1 DEF ReviewAwaited, RowsTyped, RestTyped,
            Run, ClaimState, Eligible, Prepare, Rerouted, Worked
    <3> QED BY <3>2, <3>3, <3>4, <3>5 DEF WorkInv
  <2>8. Kept
      BY <1>a, <1>c, <1>3, <2>1, <2>2 DEF Kept, HeldIsReviewed, AcceptedIsFinal, Eligible,
          RowsTyped, RestTyped, Bounded, Prepare, Rerouted, Worked
  <2> QED BY <2>3, <2>4, <2>5, <2>6, <2>7, <2>8 DEF Inv
<1>4. ASSUME NEW l \in Links, Claim(l) PROVE Inv' /\ Kept
  <2>1. row' = Bound(row, run[l].policy)
      BY <1>4 DEF Claim
  <2>2. Rerouted
      BY <2>1, <1>a, BoundIs DEF RowsTyped, Rerouted
  <2>3. /\ claim' \in [Works -> ClaimState]
        /\ \A v \in Works : \/ claim'[v] = claim[v]
                            \/ /\ claim'[v] = "claimed" /\ row'[v].state \in {"ready",
                                "retry"}
                               /\ row'[v].attempts < MaxAttempts /\ v \in run[l].ids
                               /\ LinkOf[v] = l /\ health[l].active
      BY <1>a, <1>b, <1>4 DEF Claim, RowsTyped, ClaimState, SessionsRun
  <2>4. /\ run' \in [Links -> Run] /\ run[l].stage = "built" /\ run'[l].stage = "exchange" /\ run'[l].ids = {}
        /\ \A k \in Links : k # l => run'[k] = run[k]
    <3>1. run[l].policy \in 0 .. MaxPolicy
        BY <1>a DEF RestTyped, Run
    <3>2. [stage |-> "exchange", policy |-> run[l].policy, ids |-> {}] \in Run
        BY <3>1 DEF Run, Stages
    <3> QED BY <1>a, <1>4, <3>2 DEF Claim, RestTyped
  <2>5. RowsTyped'
      BY <1>a, <1>c, <1>4, <2>1, <2>2, <2>3, <2>4 DEF RowsTyped, Claim, Rerouted
  <2>6. RestTyped'
      BY <1>a, <1>c, <1>4, <2>1, <2>2, <2>3, <2>4 DEF RestTyped, Run, Stages, NoRun,
          Bounded, QueueAssumption, BoundsAssumption, Claim, Rerouted
  <2>7. CopyTyped'
      BY <1>a, <1>c, <1>4, <2>1, <2>2, <2>3, <2>4 DEF CopyTyped, Claim, Rerouted
  <2>8. SessionsRun'
      BY <1>a, <1>c, <1>4, <2>1, <2>2, <2>3, <2>4, <1>b DEF SessionsRun, RestTyped,
          RowsTyped, Run, NoRun, Claim, Rerouted
  <2>9. ASSUME NEW v \in Works PROVE WorkInv(v)'
    <3>1. ClaimHeld(v) /\ WasTaken(v) /\ OfferTried(v) /\ ReviewAwaited(v)
        BY <1>b DEF WorkInv
    <3>2. ClaimHeld(v)'
        BY <1>a, <1>b, <1>c, <1>4, <2>1, <2>2, <2>3, <2>4, <3>1 DEF ClaimHeld, SessionsRun,
            RowsTyped, RestTyped, Run, ClaimState, Eligible, Claim, Rerouted
    <3>3. WasTaken(v)'
        BY <1>a, <1>b, <1>c, <1>4, <2>1, <2>2, <2>3, <2>4, <3>1 DEF WasTaken, ClaimHeld,
            RowsTyped, RestTyped, Run, ClaimState, Eligible, Claim, Rerouted
    <3>4. OfferTried(v)'
        BY <1>a, <1>b, <1>c, <1>4, <2>1, <2>2, <2>3, <2>4, <3>1 DEF OfferTried, Tried,
            ClaimHeld, RowsTyped, RestTyped, Run, ClaimState, Eligible, Claim, Rerouted
    <3>5. ReviewAwaited(v)'
        BY <1>a, <1>b, <1>c, <1>4, <2>1, <2>2, <2>3, <2>4, <3>1 DEF ReviewAwaited, RowsTyped,
            RestTyped, Run, ClaimState, Eligible, Claim, Rerouted
    <3> QED BY <3>2, <3>3, <3>4, <3>5 DEF WorkInv
  <2>10. Kept
      BY <1>a, <1>c, <1>4, <2>1, <2>2, <2>3, <2>4 DEF Kept, HeldIsReviewed,
          AcceptedIsFinal, Eligible, RowsTyped, RestTyped, Bounded, Claim, Rerouted
  <2> QED BY <2>5, <2>6, <2>7, <2>8, <2>9, <2>10 DEF Inv
<1>5. ASSUME NEW w \in Works, Offer(w), MayBeOffered(w) PROVE Inv' /\ Kept
  <2>1. /\ claim[w] = "claimed" /\ LinkOf[w] \in Links
        /\ UNCHANGED <<row, health, run, acked, live, taken, policy, up, copy, freed,
            count>>
      BY <1>c, <1>5 DEF Offer, MayBeOffered
  <2>2. /\ claim' \in [Works -> ClaimState] /\ claim'[w] = "offered"
        /\ \A v \in Works : v # w => claim'[v] = claim[v]
      BY <1>a, <1>5 DEF Offer, MayBeOffered, RowsTyped, ClaimState
  <2>3. /\ offers' \in [Works -> Nat] /\ offers'[w] = offers[w] + 1
        /\ \A v \in Works : v # w => offers'[v] = offers[v]
      BY <1>a, <1>5 DEF Offer, MayBeOffered, RowsTyped
  <2>4. RowsTyped'
      BY <1>a, <1>c, <1>5, <2>1, <2>2, <2>3 DEF RowsTyped
  <2>5. RestTyped'
      BY <1>a, <1>c, <1>5, <2>1, <2>2, <2>3 DEF RestTyped, Run, Stages, NoRun, Bounded,
          QueueAssumption, BoundsAssumption
  <2>6. CopyTyped'
      BY <1>a, <1>c, <1>5, <2>1, <2>2, <2>3 DEF CopyTyped
  <2>7. SessionsRun'
      BY <1>a, <1>c, <1>5, <2>1, <2>2, <2>3, <1>b DEF SessionsRun, RestTyped, RowsTyped,
          Run, NoRun
  <2>8. ASSUME NEW v \in Works PROVE WorkInv(v)'
    <3>1. ClaimHeld(v) /\ WasTaken(v) /\ OfferTried(v) /\ ReviewAwaited(v)
        BY <1>b DEF WorkInv
    <3>2. ClaimHeld(v)'
        BY <1>a, <1>b, <1>c, <1>5, <2>1, <2>2, <2>3, <3>1 DEF ClaimHeld, SessionsRun,
            RowsTyped, RestTyped, Run, ClaimState, Eligible
    <3>3. WasTaken(v)'
        BY <1>a, <1>b, <1>c, <1>5, <2>1, <2>2, <2>3, <3>1 DEF WasTaken, ClaimHeld,
            RowsTyped, RestTyped, Run, ClaimState, Eligible
    <3>4. OfferTried(v)'
        BY <1>a, <1>b, <1>c, <1>5, <2>1, <2>2, <2>3, <3>1 DEF OfferTried, Tried, ClaimHeld,
            RowsTyped, RestTyped, Run, ClaimState, Eligible
    <3>5. ReviewAwaited(v)'
        BY <1>a, <1>b, <1>c, <1>5, <2>1, <2>2, <2>3, <3>1 DEF ReviewAwaited, RowsTyped,
            RestTyped, Run, ClaimState, Eligible
    <3> QED BY <3>2, <3>3, <3>4, <3>5 DEF WorkInv
  <2>9. Kept
      BY <1>a, <1>c, <1>5, <2>1, <2>2, <2>3 DEF Kept, HeldIsReviewed, AcceptedIsFinal,
          Eligible, RowsTyped, RestTyped, Bounded
  <2> QED BY <2>4, <2>5, <2>6, <2>7, <2>8, <2>9 DEF Inv
<1>6. ASSUME NEW w \in Works, Answer(w) PROVE Inv' /\ Kept
  <2>1. UNCHANGED <<row, live, health, offers, policy, up, copy, freed, count>>
      BY <1>6 DEF Answer
  <2>2. /\ claim' \in [Works -> ClaimState]
        /\ \A v \in Works : \/ claim'[v] = claim[v]
                            \/ claim[v] = "offered" /\ claim'[v] = "skipped"
      BY <1>a, <1>6 DEF Answer, RowsTyped, ClaimState
  <2>3. /\ taken' \in [Works -> Nat] /\ acked' \subseteq Works
        /\ \A v \in Works : /\ taken'[v] >= taken[v]
                            /\ v \in acked' => v \in acked \/ taken'[v] > 0
      BY <1>a, <1>c, <1>6 DEF Answer, RestTyped
  <2>4. /\ run' \in [Links -> Run]
        /\ \A k \in Links : \/ run'[k] = run[k]
                            \/ /\ run[k].stage = "exchange" /\ run'[k].stage = "broken"
                               /\ run'[k].ids = run[k].ids
    <3>1. CASE UNCHANGED run
        BY <1>a, <3>1 DEF RestTyped
    <3>2. CASE run' = [run EXCEPT ![LinkOf[w]].stage = "broken"]
      <4>1. run[LinkOf[w]] \in Run /\ run[LinkOf[w]].stage = "exchange"
          BY <1>a, <1>c, <1>6 DEF Answer, RestTyped
      <4>2. /\ [run[LinkOf[w]] EXCEPT !.stage = "broken"] \in Run
            /\ [run[LinkOf[w]] EXCEPT !.stage = "broken"].stage = "broken"
            /\ [run[LinkOf[w]] EXCEPT !.stage = "broken"].ids = run[LinkOf[w]].ids
          BY <4>1 DEF Run, Stages
      <4> QED BY <1>a, <1>c, <3>2, <4>1, <4>2 DEF RestTyped
    <3> QED BY <1>6, <3>1, <3>2 DEF Answer
  <2>5. RowsTyped'
      BY <1>a, <1>c, <1>6, <2>1, <2>2, <2>3, <2>4 DEF RowsTyped
  <2>6. RestTyped'
      BY <1>a, <1>c, <1>6, <2>1, <2>2, <2>3, <2>4 DEF RestTyped, Run, Stages, NoRun,
          Bounded, QueueAssumption, BoundsAssumption
  <2>7. CopyTyped'
      BY <1>a, <1>c, <1>6, <2>1, <2>2, <2>3, <2>4 DEF CopyTyped
  <2>8. SessionsRun'
      BY <1>a, <1>c, <1>6, <2>1, <2>2, <2>3, <2>4, <1>b DEF SessionsRun, RestTyped,
          RowsTyped, Run, NoRun
  <2>9. ASSUME NEW v \in Works PROVE WorkInv(v)'
    <3>1. ClaimHeld(v) /\ WasTaken(v) /\ OfferTried(v) /\ ReviewAwaited(v)
        BY <1>b DEF WorkInv
    <3>2. ClaimHeld(v)'
        BY <1>a, <1>b, <1>c, <1>6, <2>1, <2>2, <2>3, <2>4, <3>1 DEF ClaimHeld, SessionsRun,
            RowsTyped, RestTyped, Run, ClaimState, Eligible
    <3>3. WasTaken(v)'
        BY <1>a, <1>b, <1>c, <1>6, <2>1, <2>2, <2>3, <2>4, <3>1 DEF WasTaken, ClaimHeld,
            RowsTyped, RestTyped, Run, ClaimState, Eligible
    <3>4. OfferTried(v)'
        BY <1>a, <1>b, <1>c, <1>6, <2>1, <2>2, <2>3, <2>4, <3>1 DEF OfferTried, Tried,
            ClaimHeld, RowsTyped, RestTyped, Run, ClaimState, Eligible
    <3>5. ReviewAwaited(v)'
        BY <1>a, <1>b, <1>c, <1>6, <2>1, <2>2, <2>3, <2>4, <3>1 DEF ReviewAwaited, RowsTyped,
            RestTyped, Run, ClaimState, Eligible
    <3> QED BY <3>2, <3>3, <3>4, <3>5 DEF WorkInv
  <2>10. Kept
      BY <1>a, <1>c, <1>6, <2>1, <2>2, <2>3, <2>4 DEF Kept, HeldIsReviewed,
          AcceptedIsFinal, Eligible, RowsTyped, RestTyped, Bounded
  <2> QED BY <2>5, <2>6, <2>7, <2>8, <2>9, <2>10 DEF Inv
<1>7. ASSUME NEW w \in Works, Accept(w) PROVE Inv' /\ Kept
  <2>1. /\ w \in acked /\ claim[w] = "offered" /\ row[w].state # "accepted"
        /\ row[w].attempts < MaxAttempts /\ acked' = acked \ {w}
        /\ UNCHANGED <<live, health, run, taken, offers, policy, up, copy, freed, count>>
      BY <1>7 DEF Accept
  <2>2. /\ row' \in [Works -> Row] /\ row'[w].state = "accepted"
        /\ row'[w].attempts = row[w].attempts + 1
        /\ \A v \in Works : v # w => row'[v] = row[v]
    <3>1. row' = [row EXCEPT ![w] = Moved(row[w], "accepted", row[w].attempts + 1, FALSE)]
        BY <1>7 DEF Accept
    <3>2. row[w].attempts + 1 \in 0 .. MaxAttempts /\ "accepted" \in States
        BY <1>c, <2>1 DEF States
    <3>3. Moved(row[w], "accepted", row[w].attempts + 1, FALSE) \in Row
        BY <1>c, <3>2, MovedIs
    <3> QED BY <1>a, <3>1, <3>3 DEF RowsTyped, Moved
  <2>3. /\ claim' \in [Works -> ClaimState] /\ claim'[w] = "none"
        /\ \A v \in Works : v # w => claim'[v] = claim[v]
      BY <1>a, <1>7 DEF Accept, RowsTyped, ClaimState
  <2>4. RowsTyped'
      BY <1>a, <1>c, <1>7, <2>1, <2>2, <2>3 DEF RowsTyped
  <2>5. RestTyped'
      BY <1>a, <1>c, <1>7, <2>1, <2>2, <2>3 DEF RestTyped, Run, Stages, NoRun, Bounded,
          QueueAssumption, BoundsAssumption
  <2>6. CopyTyped'
      BY <1>a, <1>c, <1>7, <2>1, <2>2, <2>3 DEF CopyTyped
  <2>7. SessionsRun'
      BY <1>a, <1>c, <1>7, <2>1, <2>2, <2>3, <1>b DEF SessionsRun, RestTyped, RowsTyped,
          Run, NoRun
  <2>8. ASSUME NEW v \in Works PROVE WorkInv(v)'
    <3>1. ClaimHeld(v) /\ WasTaken(v) /\ OfferTried(v) /\ ReviewAwaited(v)
        BY <1>b DEF WorkInv
    <3>2. ClaimHeld(v)'
        BY <1>a, <1>b, <1>c, <1>7, <2>1, <2>2, <2>3, <3>1 DEF ClaimHeld, SessionsRun,
            RowsTyped, RestTyped, Run, ClaimState, Eligible
    <3>3. WasTaken(v)'
        BY <1>a, <1>b, <1>c, <1>7, <2>1, <2>2, <2>3, <3>1 DEF WasTaken, ClaimHeld,
            RowsTyped, RestTyped, Run, ClaimState, Eligible
    <3>4. OfferTried(v)'
        BY <1>a, <1>b, <1>c, <1>7, <2>1, <2>2, <2>3, <3>1 DEF OfferTried, Tried, ClaimHeld,
            RowsTyped, RestTyped, Run, ClaimState, Eligible
    <3>5. ReviewAwaited(v)'
        BY <1>a, <1>b, <1>c, <1>7, <2>1, <2>2, <2>3, <3>1 DEF ReviewAwaited, RowsTyped,
            RestTyped, Run, ClaimState, Eligible
    <3> QED BY <3>2, <3>3, <3>4, <3>5 DEF WorkInv
  <2>9. Kept
      BY <1>a, <1>c, <1>7, <2>1, <2>2, <2>3 DEF Kept, HeldIsReviewed, AcceptedIsFinal,
          Eligible, RowsTyped, RestTyped, Bounded
  <2> QED BY <2>4, <2>5, <2>6, <2>7, <2>8, <2>9 DEF Inv
<1>8. ASSUME NEW l \in Links, End(l) PROVE Inv' /\ Kept
    BY <1>8, FinishStep DEF End
<1>9. ASSUME NEW w \in Works, Hold(w) PROVE Inv' /\ Kept
  <2>1. row' = [Bound(row, policy) EXCEPT ![w] = Moved(@, "held", @.attempts, FALSE)]
      BY <1>9 DEF Hold
  <2>2. /\ row' \in [Works -> Row]
        /\ \A v \in Works : row'[v].attempts = row[v].attempts
        /\ \A v \in Works : \/ row'[v] = row[v]
                            \/ row[v].state # "accepted" /\ row'[v].state = "held"
    <3> DEFINE rows == Bound(row, policy)
    <3>1. rows \in [Works -> Row] /\ rows[w] = row[w]
        BY <1>a, <1>9, BoundIs DEF Hold, RowsTyped
    <3>2. /\ \A v \in Works : /\ rows[v].attempts = row[v].attempts
                              /\ \/ rows[v] = row[v]
                                 \/ row[v].state \in Eligible /\ rows[v].state = "held"
        BY <1>a, BoundIs DEF RowsTyped
    <3>3. row[w].state # "accepted"
        BY <1>9, <3>1 DEF Hold, Eligible
    <3> DEFINE put == Moved(row[w], "held", row[w].attempts, FALSE)
    <3>4. row[w].attempts \in 0 .. MaxAttempts /\ {"held", "ready",
        "pending"} \subseteq States
        BY <1>c DEF States
    <3>5. put \in Row /\ put.attempts = row[w].attempts /\ put.state = "held"
        BY <1>c, <3>4, MovedIs DEF Moved
    <3>6. row' = [rows EXCEPT ![w] = put]
        BY <2>1, <3>1
    <3> HIDE DEF rows, put
    <3> QED BY <3>1, <3>2, <3>3, <3>5, <3>6 DEF Eligible
  <2>3. /\ count' \in [Bounded -> Nat] /\ count'["policy"] = count["policy"]
        /\ count'["restore"] = count["restore"]
      BY <1>a, <1>9 DEF Hold, Happens, RestTyped, Bounded
  <2>4. claim[w] = "none" /\ UNCHANGED <<live, claim, health, run, acked, taken, offers,
      policy, up, copy, freed>>
      BY <1>9 DEF Hold
  <2>5. RowsTyped'
      BY <1>a, <1>c, <1>9, <2>1, <2>2, <2>3, <2>4 DEF RowsTyped
  <2>6. RestTyped'
      BY <1>a, <1>c, <1>9, <2>1, <2>2, <2>3, <2>4 DEF RestTyped, Run, Stages, NoRun,
          Bounded, QueueAssumption, BoundsAssumption
  <2>7. CopyTyped'
      BY <1>a, <1>c, <1>9, <2>1, <2>2, <2>3, <2>4 DEF CopyTyped
  <2>8. SessionsRun'
      BY <1>a, <1>c, <1>9, <2>1, <2>2, <2>3, <2>4, <1>b DEF SessionsRun, RestTyped,
          RowsTyped, Run, NoRun
  <2>9. ASSUME NEW v \in Works PROVE WorkInv(v)'
    <3>1. ClaimHeld(v) /\ WasTaken(v) /\ OfferTried(v) /\ ReviewAwaited(v)
        BY <1>b DEF WorkInv
    <3>2. ClaimHeld(v)'
        BY <1>a, <1>b, <1>c, <1>9, <2>1, <2>2, <2>3, <2>4, <3>1 DEF ClaimHeld, SessionsRun,
            RowsTyped, RestTyped, Run, ClaimState, Eligible
    <3>3. WasTaken(v)'
        BY <1>a, <1>b, <1>c, <1>9, <2>1, <2>2, <2>3, <2>4, <3>1 DEF WasTaken, ClaimHeld,
            RowsTyped, RestTyped, Run, ClaimState, Eligible
    <3>4. OfferTried(v)'
        BY <1>a, <1>b, <1>c, <1>9, <2>1, <2>2, <2>3, <2>4, <3>1 DEF OfferTried, Tried,
            ClaimHeld, RowsTyped, RestTyped, Run, ClaimState, Eligible
    <3>5. ReviewAwaited(v)'
        BY <1>a, <1>b, <1>c, <1>9, <2>1, <2>2, <2>3, <2>4, <3>1 DEF ReviewAwaited, RowsTyped,
            RestTyped, Run, ClaimState, Eligible
    <3> QED BY <3>2, <3>3, <3>4, <3>5 DEF WorkInv
  <2>10. Kept
      BY <1>a, <1>c, <1>9, <2>1, <2>2, <2>3, <2>4 DEF Kept, HeldIsReviewed,
          AcceptedIsFinal, Eligible, RowsTyped, RestTyped, Bounded
  <2> QED BY <2>5, <2>6, <2>7, <2>8, <2>9, <2>10 DEF Inv
<1>10. ASSUME NEW w \in Works, Release(w) PROVE Inv' /\ Kept
  <2>1. row' = [Bound(row, policy) EXCEPT ![w] = Moved(@,
      IF @.made THEN "ready" ELSE "pending", @.attempts, FALSE)]
      BY <1>10 DEF Release
  <2>2. /\ row' \in [Works -> Row]
        /\ \A v \in Works : row'[v].attempts = row[v].attempts
        /\ \A v \in Works : \/ row'[v] = row[v]
                            \/ row[v].state # "accepted" /\ row'[v].state = "held"
                            \/ v = w /\ "accepted" \notin {row[v].state, row'[v].state}
    <3> DEFINE rows == Bound(row, policy)
    <3>1. rows \in [Works -> Row] /\ rows[w] = row[w]
        BY <1>a, <1>10, BoundIs DEF Release, RowsTyped
    <3>2. /\ \A v \in Works : /\ rows[v].attempts = row[v].attempts
                              /\ \/ rows[v] = row[v]
                                 \/ row[v].state \in Eligible /\ rows[v].state = "held"
        BY <1>a, BoundIs DEF RowsTyped
    <3>3. row[w].state # "accepted"
        BY <1>10, <3>1 DEF Release, Eligible
    <3> DEFINE put == Moved(row[w], IF row[w].made THEN "ready" ELSE "pending",
        row[w].attempts, FALSE)
    <3>4. row[w].attempts \in 0 .. MaxAttempts /\ {"held", "ready",
        "pending"} \subseteq States
        BY <1>c DEF States
    <3>5. put \in Row /\ put.attempts = row[w].attempts /\ put.state # "accepted"
        BY <1>c, <3>4, MovedIs DEF Moved
    <3>6. row' = [rows EXCEPT ![w] = put]
        BY <2>1, <3>1
    <3> HIDE DEF rows, put
    <3> QED BY <3>1, <3>2, <3>3, <3>5, <3>6 DEF Eligible
  <2>3. /\ claim[w] = "none" /\ freed' = freed \cup {w}
        /\ UNCHANGED <<live, claim, run, acked, taken, offers, policy, up, copy>>
      BY <1>10 DEF Release
  <2>4. /\ health' \in [Links -> Health]
        /\ \A k \in Links : health'[k].active = health[k].active
    <3>1. health[LinkOf[w]] \in Health /\ LinkOf[w] \in Links
        BY <1>a, <1>c DEF RowsTyped
    <3>2. [active |-> FALSE, policy |-> health[LinkOf[w]].policy, failures |-> 0,
        waits |-> FALSE,
           held |-> FALSE] \in Health
        BY <1>c, <3>1 DEF Health
    <3>3. CASE health' = health
        BY <1>a, <3>3 DEF RowsTyped
    <3>4. CASE /\ ~health[LinkOf[w]].active
               /\ health' = [health EXCEPT ![LinkOf[w]] =
                     [active |-> FALSE, policy |-> health[LinkOf[w]].policy, failures |-> 0,
                      waits |-> FALSE, held |-> FALSE]]
      <4> DEFINE cleared == [active |-> FALSE, policy |-> health[LinkOf[w]].policy,
                             failures |-> 0, waits |-> FALSE, held |-> FALSE]
      <4>1. cleared \in Health /\ cleared.active = FALSE /\ health[LinkOf[w]].active = FALSE
          BY <3>1, <3>2, <3>4 DEF Health
      <4>2. health' = [health EXCEPT ![LinkOf[w]] = cleared]
          BY <3>4
      <4> HIDE DEF cleared
      <4> QED BY <1>a, <3>1, <4>1, <4>2 DEF RowsTyped
    <3> QED BY <1>10, <3>3, <3>4 DEF Release
  <2>5. /\ count' \in [Bounded -> Nat] /\ count'["policy"] = count["policy"]
        /\ count'["restore"] = count["restore"]
      BY <1>a, <1>10 DEF Release, Happens, RestTyped, Bounded
  <2>6. RowsTyped'
      BY <1>a, <1>c, <1>10, <2>1, <2>2, <2>3, <2>4, <2>5 DEF RowsTyped
  <2>7. RestTyped'
      BY <1>a, <1>c, <1>10, <2>1, <2>2, <2>3, <2>4, <2>5 DEF RestTyped, Run, Stages, NoRun,
          Bounded, QueueAssumption, BoundsAssumption
  <2>8. CopyTyped'
      BY <1>a, <1>c, <1>10, <2>1, <2>2, <2>3, <2>4, <2>5 DEF CopyTyped
  <2>9. SessionsRun'
      BY <1>a, <1>c, <1>10, <2>1, <2>2, <2>3, <2>4, <2>5, <1>b DEF SessionsRun, RestTyped,
          RowsTyped, Run, NoRun
  <2>10. ASSUME NEW v \in Works PROVE WorkInv(v)'
    <3>1. ClaimHeld(v) /\ WasTaken(v) /\ OfferTried(v) /\ ReviewAwaited(v)
        BY <1>b DEF WorkInv
    <3>2. ClaimHeld(v)'
        BY <1>a, <1>b, <1>c, <1>10, <2>1, <2>2, <2>3, <2>4, <2>5, <3>1 DEF ClaimHeld,
            SessionsRun, RowsTyped, RestTyped, Run, ClaimState, Eligible
    <3>3. WasTaken(v)'
        BY <1>a, <1>b, <1>c, <1>10, <2>1, <2>2, <2>3, <2>4, <2>5, <3>1 DEF WasTaken,
            ClaimHeld, RowsTyped, RestTyped, Run, ClaimState, Eligible
    <3>4. OfferTried(v)'
        BY <1>a, <1>b, <1>c, <1>10, <2>1, <2>2, <2>3, <2>4, <2>5, <3>1 DEF OfferTried,
            Tried, ClaimHeld, RowsTyped, RestTyped, Run, ClaimState, Eligible
    <3>5. ReviewAwaited(v)'
        BY <1>a, <1>b, <1>c, <1>10, <2>1, <2>2, <2>3, <2>4, <2>5, <3>1 DEF ReviewAwaited,
            RowsTyped, RestTyped, Run, ClaimState, Eligible
    <3> QED BY <3>2, <3>3, <3>4, <3>5 DEF WorkInv
  <2>11. Kept
      BY <1>a, <1>c, <1>10, <2>1, <2>2, <2>3, <2>4, <2>5 DEF Kept, HeldIsReviewed,
          AcceptedIsFinal, Eligible, RowsTyped, RestTyped, Bounded
  <2> QED BY <2>6, <2>7, <2>8, <2>9, <2>10, <2>11 DEF Inv
<1>11. ASSUME NEW w \in Works, Withdraw(w) PROVE Inv' /\ Kept
  <2>1. RowsTyped'
      BY <1>a, <1>c, <1>11 DEF RowsTyped, Withdraw, Happens
  <2>2. RestTyped'
      BY <1>a, <1>c, <1>11 DEF RestTyped, Run, Stages, NoRun, Bounded, QueueAssumption,
          BoundsAssumption, Withdraw, Happens
  <2>3. CopyTyped'
      BY <1>a, <1>c, <1>11 DEF CopyTyped, Withdraw, Happens
  <2>4. SessionsRun'
      BY <1>a, <1>c, <1>11, <1>b DEF SessionsRun, RestTyped, RowsTyped, Run, NoRun,
          Withdraw, Happens
  <2>5. ASSUME NEW v \in Works PROVE WorkInv(v)'
    <3>1. ClaimHeld(v) /\ WasTaken(v) /\ OfferTried(v) /\ ReviewAwaited(v)
        BY <1>b DEF WorkInv
    <3>2. ClaimHeld(v)'
        BY <1>a, <1>b, <1>c, <1>11, <3>1 DEF ClaimHeld, SessionsRun, RowsTyped, RestTyped,
            Run, ClaimState, Eligible, Withdraw, Happens
    <3>3. WasTaken(v)'
        BY <1>a, <1>b, <1>c, <1>11, <3>1 DEF WasTaken, ClaimHeld, RowsTyped, RestTyped,
            Run, ClaimState, Eligible, Withdraw, Happens
    <3>4. OfferTried(v)'
        BY <1>a, <1>b, <1>c, <1>11, <3>1 DEF OfferTried, Tried, ClaimHeld, RowsTyped,
            RestTyped, Run, ClaimState, Eligible, Withdraw, Happens
    <3>5. ReviewAwaited(v)'
        BY <1>a, <1>b, <1>c, <1>11, <3>1 DEF ReviewAwaited, RowsTyped, RestTyped, Run,
            ClaimState, Eligible, Withdraw, Happens
    <3> QED BY <3>2, <3>3, <3>4, <3>5 DEF WorkInv
  <2>6. Kept
      BY <1>a, <1>c, <1>11 DEF Kept, HeldIsReviewed, AcceptedIsFinal, Eligible, RowsTyped,
          RestTyped, Bounded, Withdraw, Happens
  <2> QED BY <2>1, <2>2, <2>3, <2>4, <2>5, <2>6 DEF Inv
<1>12. ASSUME NEW l \in Links, LinkRested(l) PROVE Inv' /\ Kept
  <2>1. /\ health' \in [Links -> Health]
        /\ \A k \in Links : health'[k].active = health[k].active
    <3>1. health[l] \in Health
        BY <1>a DEF RowsTyped
    <3>2. /\ [health[l] EXCEPT !.waits = FALSE] \in Health
          /\ [health[l] EXCEPT !.waits = FALSE].active = health[l].active
        BY <3>1 DEF Health
    <3> QED BY <1>a, <1>12, <3>2 DEF LinkRested, RowsTyped
  <2>2. UNCHANGED <<row, live, claim, run, acked, taken, offers, policy, up, copy, freed,
      count>>
      BY <1>12 DEF LinkRested
  <2>3. RowsTyped'
      BY <1>a, <1>c, <1>12, <2>1, <2>2 DEF RowsTyped
  <2>4. RestTyped'
      BY <1>a, <1>c, <1>12, <2>1, <2>2 DEF RestTyped, Run, Stages, NoRun, Bounded,
          QueueAssumption, BoundsAssumption
  <2>5. CopyTyped'
      BY <1>a, <1>c, <1>12, <2>1, <2>2 DEF CopyTyped
  <2>6. SessionsRun'
      BY <1>a, <1>c, <1>12, <2>1, <2>2, <1>b DEF SessionsRun, RestTyped, RowsTyped, Run,
          NoRun
  <2>7. ASSUME NEW v \in Works PROVE WorkInv(v)'
    <3>1. ClaimHeld(v) /\ WasTaken(v) /\ OfferTried(v) /\ ReviewAwaited(v)
        BY <1>b DEF WorkInv
    <3>2. ClaimHeld(v)'
        BY <1>a, <1>b, <1>c, <1>12, <2>1, <2>2, <3>1 DEF ClaimHeld, SessionsRun, RowsTyped,
            RestTyped, Run, ClaimState, Eligible
    <3>3. WasTaken(v)'
        BY <1>a, <1>b, <1>c, <1>12, <2>1, <2>2, <3>1 DEF WasTaken, ClaimHeld, RowsTyped,
            RestTyped, Run, ClaimState, Eligible
    <3>4. OfferTried(v)'
        BY <1>a, <1>b, <1>c, <1>12, <2>1, <2>2, <3>1 DEF OfferTried, Tried, ClaimHeld,
            RowsTyped, RestTyped, Run, ClaimState, Eligible
    <3>5. ReviewAwaited(v)'
        BY <1>a, <1>b, <1>c, <1>12, <2>1, <2>2, <3>1 DEF ReviewAwaited, RowsTyped, RestTyped,
            Run, ClaimState, Eligible
    <3> QED BY <3>2, <3>3, <3>4, <3>5 DEF WorkInv
  <2>8. Kept
      BY <1>a, <1>c, <1>12, <2>1, <2>2 DEF Kept, HeldIsReviewed, AcceptedIsFinal, Eligible,
          RowsTyped, RestTyped, Bounded
  <2> QED BY <2>3, <2>4, <2>5, <2>6, <2>7, <2>8 DEF Inv
<1>13. ASSUME NEW w \in Works, WorkRested(w) PROVE Inv' /\ Kept
  <2>1. /\ row' \in [Works -> Row]
        /\ \A v \in Works : row'[v].attempts = row[v].attempts /\ row'[v].state = row[v].state
    <3>1. /\ [row[w] EXCEPT !.waits = FALSE] \in Row
          /\ [row[w] EXCEPT !.waits = FALSE].state = row[w].state
          /\ [row[w] EXCEPT !.waits = FALSE].attempts = row[w].attempts
        BY <1>c DEF Row
    <3> QED BY <1>a, <1>13, <3>1 DEF WorkRested, RowsTyped
  <2>2. UNCHANGED <<live, claim, health, run, acked, taken, offers, policy, up, copy,
      freed, count>>
      BY <1>13 DEF WorkRested
  <2>3. RowsTyped'
      BY <1>a, <1>c, <1>13, <2>1, <2>2 DEF RowsTyped
  <2>4. RestTyped'
      BY <1>a, <1>c, <1>13, <2>1, <2>2 DEF RestTyped, Run, Stages, NoRun, Bounded,
          QueueAssumption, BoundsAssumption
  <2>5. CopyTyped'
      BY <1>a, <1>c, <1>13, <2>1, <2>2 DEF CopyTyped
  <2>6. SessionsRun'
      BY <1>a, <1>c, <1>13, <2>1, <2>2, <1>b DEF SessionsRun, RestTyped, RowsTyped, Run,
          NoRun
  <2>7. ASSUME NEW v \in Works PROVE WorkInv(v)'
    <3>1. ClaimHeld(v) /\ WasTaken(v) /\ OfferTried(v) /\ ReviewAwaited(v)
        BY <1>b DEF WorkInv
    <3>2. ClaimHeld(v)'
        BY <1>a, <1>b, <1>c, <1>13, <2>1, <2>2, <3>1 DEF ClaimHeld, SessionsRun, RowsTyped,
            RestTyped, Run, ClaimState, Eligible
    <3>3. WasTaken(v)'
        BY <1>a, <1>b, <1>c, <1>13, <2>1, <2>2, <3>1 DEF WasTaken, ClaimHeld, RowsTyped,
            RestTyped, Run, ClaimState, Eligible
    <3>4. OfferTried(v)'
        BY <1>a, <1>b, <1>c, <1>13, <2>1, <2>2, <3>1 DEF OfferTried, Tried, ClaimHeld,
            RowsTyped, RestTyped, Run, ClaimState, Eligible
    <3>5. ReviewAwaited(v)'
        BY <1>a, <1>b, <1>c, <1>13, <2>1, <2>2, <3>1 DEF ReviewAwaited, RowsTyped, RestTyped,
            Run, ClaimState, Eligible
    <3> QED BY <3>2, <3>3, <3>4, <3>5 DEF WorkInv
  <2>8. Kept
      BY <1>a, <1>c, <1>13, <2>1, <2>2 DEF Kept, HeldIsReviewed, AcceptedIsFinal, Eligible,
          RowsTyped, RestTyped, Bounded
  <2> QED BY <2>3, <2>4, <2>5, <2>6, <2>7, <2>8 DEF Inv
<1>14. ASSUME ChangePolicy PROVE Inv' /\ Kept
  <2>1. RowsTyped'
      BY <1>a, <1>c, <1>14 DEF RowsTyped, ChangePolicy, Happens
  <2>2. RestTyped'
      BY <1>a, <1>c, <1>14 DEF RestTyped, Run, Stages, NoRun, Bounded, QueueAssumption,
          BoundsAssumption, ChangePolicy, Happens
  <2>3. CopyTyped'
      BY <1>a, <1>c, <1>14 DEF CopyTyped, ChangePolicy, Happens
  <2>4. SessionsRun'
      BY <1>a, <1>c, <1>14, <1>b DEF SessionsRun, RestTyped, RowsTyped, Run, NoRun,
          ChangePolicy, Happens
  <2>5. ASSUME NEW v \in Works PROVE WorkInv(v)'
    <3>1. ClaimHeld(v) /\ WasTaken(v) /\ OfferTried(v) /\ ReviewAwaited(v)
        BY <1>b DEF WorkInv
    <3>2. ClaimHeld(v)'
        BY <1>a, <1>b, <1>c, <1>14, <3>1 DEF ClaimHeld, SessionsRun, RowsTyped, RestTyped,
            Run, ClaimState, Eligible, ChangePolicy, Happens
    <3>3. WasTaken(v)'
        BY <1>a, <1>b, <1>c, <1>14, <3>1 DEF WasTaken, ClaimHeld, RowsTyped, RestTyped,
            Run, ClaimState, Eligible, ChangePolicy, Happens
    <3>4. OfferTried(v)'
        BY <1>a, <1>b, <1>c, <1>14, <3>1 DEF OfferTried, Tried, ClaimHeld, RowsTyped,
            RestTyped, Run, ClaimState, Eligible, ChangePolicy, Happens
    <3>5. ReviewAwaited(v)'
        BY <1>a, <1>b, <1>c, <1>14, <3>1 DEF ReviewAwaited, RowsTyped, RestTyped, Run,
            ClaimState, Eligible, ChangePolicy, Happens
    <3> QED BY <3>2, <3>3, <3>4, <3>5 DEF WorkInv
  <2>6. Kept
      BY <1>a, <1>c, <1>14 DEF Kept, HeldIsReviewed, AcceptedIsFinal, Eligible, RowsTyped,
          RestTyped, Bounded, ChangePolicy, Happens
  <2> QED BY <2>1, <2>2, <2>3, <2>4, <2>5, <2>6 DEF Inv
<1>15. ASSUME Crash PROVE Inv' /\ Kept
  <2>1. run' \in [Links -> Run] /\ \A k \in Links : run'[k] = NoRun
      BY <1>c, <1>15 DEF Crash
  <2>2. /\ count' \in [Bounded -> Nat] /\ count'["policy"] = count["policy"]
        /\ count'["restore"] = count["restore"]
      BY <1>a, <1>15 DEF Crash, Happens, RestTyped, Bounded
  <2>3. up' = FALSE /\ acked' = {} /\ UNCHANGED <<row, live, claim, health, taken, offers,
      policy, copy, freed>>
      BY <1>15 DEF Crash
  <2>4. RowsTyped'
      BY <1>a, <1>c, <1>15, <2>1, <2>2, <2>3 DEF RowsTyped
  <2>5. RestTyped'
      BY <1>a, <1>c, <1>15, <2>1, <2>2, <2>3 DEF RestTyped, Run, Stages, NoRun, Bounded,
          QueueAssumption, BoundsAssumption
  <2>6. CopyTyped'
      BY <1>a, <1>c, <1>15, <2>1, <2>2, <2>3 DEF CopyTyped
  <2>7. SessionsRun'
      BY <1>a, <1>c, <1>15, <2>1, <2>2, <2>3, <1>b DEF SessionsRun, RestTyped, RowsTyped,
          Run, NoRun
  <2>8. ASSUME NEW v \in Works PROVE WorkInv(v)'
    <3>1. ClaimHeld(v) /\ WasTaken(v) /\ OfferTried(v) /\ ReviewAwaited(v)
        BY <1>b DEF WorkInv
    <3>2. ClaimHeld(v)'
        BY <1>a, <1>b, <1>c, <1>15, <2>1, <2>2, <2>3, <3>1 DEF ClaimHeld, SessionsRun,
            RowsTyped, RestTyped, Run, ClaimState, Eligible
    <3>3. WasTaken(v)'
        BY <1>a, <1>b, <1>c, <1>15, <2>1, <2>2, <2>3, <3>1 DEF WasTaken, ClaimHeld,
            RowsTyped, RestTyped, Run, ClaimState, Eligible
    <3>4. OfferTried(v)'
        BY <1>a, <1>b, <1>c, <1>15, <2>1, <2>2, <2>3, <3>1 DEF OfferTried, Tried,
            ClaimHeld, RowsTyped, RestTyped, Run, ClaimState, Eligible
    <3>5. ReviewAwaited(v)'
        BY <1>a, <1>b, <1>c, <1>15, <2>1, <2>2, <2>3, <3>1 DEF ReviewAwaited, RowsTyped,
            RestTyped, Run, ClaimState, Eligible
    <3> QED BY <3>2, <3>3, <3>4, <3>5 DEF WorkInv
  <2>9. Kept
      BY <1>a, <1>c, <1>15, <2>1, <2>2, <2>3 DEF Kept, HeldIsReviewed, AcceptedIsFinal,
          Eligible, RowsTyped, RestTyped, Bounded
  <2> QED BY <2>4, <2>5, <2>6, <2>7, <2>8, <2>9 DEF Inv
<1>16. ASSUME Start PROVE Inv' /\ Kept
  <2> DEFINE links == {l \in Links : health[l].active}
  <2>1. Ended(links)
      BY <1>a, <1>16, EndedIs DEF Start
  <2>2. /\ up' = TRUE /\ ~up
        /\ UNCHANGED <<live, run, acked, taken, offers, policy, copy, freed, count>>
      BY <1>16 DEF Start
  <2>3. \A l \in Links : ~health'[l].active
      BY <2>1 DEF Ended
  <2>4. SessionsRun'
      BY <1>b, <2>2, <2>3 DEF SessionsRun
  <2> QED BY <1>a, <2>1, <2>2, <2>3, <2>4, EndedKeeps DEF RestTyped
<1>17. ASSUME Backup PROVE Inv' /\ Kept
  <2>1. RowsTyped'
      BY <1>a, <1>c, <1>17 DEF RowsTyped, Backup
  <2>2. RestTyped'
      BY <1>a, <1>c, <1>17 DEF RestTyped, Run, Stages, NoRun, Bounded, QueueAssumption,
          BoundsAssumption, Backup
  <2>3. CopyTyped'
      BY <1>a, <1>c, <1>17 DEF CopyTyped, Copy, RowsTyped, Backup
  <2>4. SessionsRun'
      BY <1>a, <1>c, <1>17, <1>b DEF SessionsRun, RestTyped, RowsTyped, Run, NoRun, Backup
  <2>5. ASSUME NEW v \in Works PROVE WorkInv(v)'
    <3>1. ClaimHeld(v) /\ WasTaken(v) /\ OfferTried(v) /\ ReviewAwaited(v)
        BY <1>b DEF WorkInv
    <3>2. ClaimHeld(v)'
        BY <1>a, <1>b, <1>c, <1>17, <3>1 DEF ClaimHeld, SessionsRun, RowsTyped, RestTyped,
            Run, ClaimState, Eligible, Backup
    <3>3. WasTaken(v)'
        BY <1>a, <1>b, <1>c, <1>17, <3>1 DEF WasTaken, ClaimHeld, RowsTyped, RestTyped,
            Run, ClaimState, Eligible, Backup
    <3>4. OfferTried(v)'
        BY <1>a, <1>b, <1>c, <1>17, <3>1 DEF OfferTried, Tried, ClaimHeld, RowsTyped,
            RestTyped, Run, ClaimState, Eligible, Backup
    <3>5. ReviewAwaited(v)'
        BY <1>a, <1>b, <1>c, <1>17, <3>1 DEF ReviewAwaited, RowsTyped, RestTyped, Run,
            ClaimState, Eligible, Backup
    <3> QED BY <3>2, <3>3, <3>4, <3>5 DEF WorkInv
  <2>6. Kept
      BY <1>a, <1>c, <1>17 DEF Kept, HeldIsReviewed, AcceptedIsFinal, Eligible, RowsTyped,
          RestTyped, Bounded, Backup
  <2> QED BY <2>1, <2>2, <2>3, <2>4, <2>5, <2>6 DEF Inv
<1>18. ASSUME Restore PROVE Inv' /\ Kept
  <2>1. copy \in Copy /\ ~up
      BY <1>a, <1>18 DEF Restore, CopyTyped
  <2>2. UNCHANGED <<live, run, acked, taken, policy, up,
      copy>> /\ offers' = copy.offers /\ freed' = {}
      BY <1>18 DEF Restore
  <2>3. ASSUME NEW v \in Works
        PROVE  /\ row'[v] \in Row
               /\ row'[v].attempts = IF copy.claim[v] = "none" THEN copy.row[v].attempts
                                     ELSE OneMore(copy.row[v].attempts)
               /\ row'[v].state \in {"none", "held", "accepted", "failed"}
               /\ row'[v].state \in {"none",
                   "accepted"} => row'[v].state = copy.row[v].state
    <3>1. copy.row[v] \in Row /\ copy.row[v].attempts \in 0 .. MaxAttempts
        BY <2>1 DEF Copy, Row
    <3> DEFINE tried == OneMore(copy.row[v].attempts)
               put == IF copy.claim[v] = "none" THEN copy.row[v]
                      ELSE Moved(copy.row[v],
                          IF tried = MaxAttempts THEN "failed" ELSE "retry",
                                 tried, TRUE)
    <3>2. tried \in 0 .. MaxAttempts /\ {"failed", "retry"} \subseteq States
        BY <3>1, OneMoreIs DEF States
    <3>3. /\ put \in Row
          /\ copy.claim[v] = "none" => put = copy.row[v]
          /\ copy.claim[v] # "none" => put.attempts = tried /\ put.state \in {"failed",
              "retry"}
        BY <3>1, <3>2, MovedIs DEF Moved
    <3>4. row'[v] = ForReview(put)
        BY <1>18 DEF Restore
    <3> HIDE DEF put, tried
    <3>5. /\ ForReview(put) \in Row /\ ForReview(put).attempts = put.attempts
          /\ \/ ForReview(put) = put /\ put.state \notin Eligible
             \/ ForReview(put).state = "held"
        BY <3>3, HeldIs DEF ForReview
    <3>6. put.state \in States
        BY <3>3 DEF Row
    <3> QED BY <3>3, <3>4, <3>5, <3>6 DEF Eligible, States, tried
  <2>4. row' \in [Works -> Row]
      BY <1>18, <2>3 DEF Restore
  <2>5. /\ health' \in [Links -> Health]
        /\ \A k \in Links : ~health'[k].active
    <3>1. ASSUME NEW k \in Links PROVE health'[k] \in Health /\ ~health'[k].active
      <4>1. copy.health[k] \in Health /\ copy.health[k].failures \in 0 .. MaxAttempts
          BY <2>1 DEF Copy, Health
      <4>2. OneMore(copy.health[k].failures) \in 0 .. MaxAttempts
          BY <4>1, OneMoreIs
      <4> QED BY <1>18, <4>1, <4>2 DEF Restore, Health
    <3> QED BY <1>18, <3>1 DEF Restore
  <2>6. claim' \in [Works -> ClaimState] /\ \A v \in Works : claim'[v] = "none"
      BY <1>18 DEF Restore, ClaimState
  <2>7. ASSUME NEW v \in Works PROVE row'[v].attempts >= offers'[v]
    <3>1. Tried(copy.row, copy.claim, copy.offers, v)
        BY <1>b, <1>18 DEF WorkInv, OfferTried, Restore
    <3>2. copy.row[v].attempts \in 0 .. MaxAttempts /\ copy.offers[v] \in Nat
        BY <2>1 DEF Copy, Row
    <3> QED BY <2>2, <2>3, <3>1, <3>2, OneMoreIs DEF Tried
  <2>8. /\ count' \in [Bounded -> Nat] /\ count'["policy"] = count["policy"]
        /\ count'["restore"] = count["restore"] + 1 /\ count["restore"] \in Nat
      BY <1>a, <1>18 DEF Restore, Happens, RestTyped, Bounded
  <2>9. RowsTyped'
      BY <1>a, <1>c, <1>18, <2>1, <2>2, <2>3, <2>4, <2>5, <2>6, <2>7, <2>8 DEF RowsTyped,
          Copy
  <2>10. RestTyped'
      BY <1>a, <1>c, <1>18, <2>1, <2>2, <2>3, <2>4, <2>5, <2>6, <2>7, <2>8 DEF RestTyped,
          Run, Stages, NoRun, Bounded, QueueAssumption, BoundsAssumption, Copy
  <2>11. CopyTyped'
      BY <1>a, <1>c, <1>18, <2>1, <2>2, <2>3, <2>4, <2>5, <2>6, <2>7, <2>8 DEF CopyTyped,
          Copy
  <2>12. SessionsRun'
      BY <1>a, <1>c, <1>18, <2>1, <2>2, <2>3, <2>4, <2>5, <2>6, <2>7, <2>8,
          <1>b DEF SessionsRun, RestTyped, RowsTyped, Run, NoRun, Copy
  <2>13. ASSUME NEW v \in Works PROVE WorkInv(v)'
    <3>1. ClaimHeld(v) /\ WasTaken(v) /\ OfferTried(v) /\ ReviewAwaited(v)
        BY <1>b DEF WorkInv
    <3>2. ClaimHeld(v)'
        BY <2>6 DEF ClaimHeld
    <3>3. WasTaken(v)'
        BY <2>2, <2>3, <3>1, <1>18 DEF WasTaken, Restore
    <3>4. OfferTried(v)'
      <4>1. copy # NoCopy
          BY <1>18 DEF Restore
      <4>2. offers'[v] \in Nat /\ row'[v].attempts \in Nat
          BY <2>1, <2>2, <2>3 DEF Copy, Row
      <4>3. Tried(row', claim', offers', v)
          BY <2>6, <2>7, <4>2 DEF Tried
      <4>4. Tried(copy'.row, copy'.claim, copy'.offers, v)
          BY <2>2, <3>1, <4>1 DEF OfferTried
      <4> QED BY <4>3, <4>4 DEF OfferTried
    <3>5. ReviewAwaited(v)'
        BY <1>18, <2>2, <2>3, <2>6 DEF ReviewAwaited, Restore
    <3> QED BY <3>2, <3>3, <3>4, <3>5 DEF WorkInv
  <2>14. Kept
      BY <1>a, <1>c, <1>18, <2>1, <2>2, <2>3, <2>4, <2>5, <2>6, <2>7, <2>8 DEF Kept,
          HeldIsReviewed, AcceptedIsFinal, Eligible, RowsTyped, RestTyped, Bounded, Copy
  <2> QED BY <2>9, <2>10, <2>11, <2>12, <2>13, <2>14 DEF Inv
<1>19. ASSUME NEW w \in Works, Offer(w), ~MayBeOffered(w) PROVE Inv' /\ Kept
    BY <1>c, <1>19, FinishStep DEF Offer, MayBeOffered
<1> QED
    BY <1>1, <1>2, <1>3, <1>4, <1>5, <1>6, <1>7, <1>8, <1>9, <1>10, <1>11, <1>12, <1>13,
        <1>14, <1>15, <1>16, <1>17, <1>18, <1>19 DEF Next

LEMMA InitInv == ASSUME QueueAssumption, Init PROVE Inv
<1>1. 0 \in 0 .. MaxAttempts /\ 0 \in 0 .. MaxPolicy /\ 0 \in Nat
    BY DEF QueueAssumption, BoundsAssumption
<1>2. /\ [state |-> "none", attempts |-> 0, made |-> FALSE, waits |-> FALSE, policy |-> 0] \in Row
      /\ [active |-> FALSE, policy |-> 0, failures |-> 0, waits |-> FALSE, held |-> FALSE]
            \in Health
      /\ NoRun \in Run
    BY <1>1 DEF Row, Health, Run, States, Stages, NoRun
<1>3. RowsTyped
    BY <1>1, <1>2 DEF Init, RowsTyped, ClaimState
<1>4. RestTyped /\ CopyTyped
    BY <1>1, <1>2 DEF Init, RestTyped, CopyTyped, Bounded
<1>5. SessionsRun
    BY DEF Init, SessionsRun, NoRun
<1>6. ASSUME NEW w \in Works PROVE WorkInv(w)
    BY DEF Init, WorkInv, ClaimHeld, WasTaken, OfferTried, Tried, ReviewAwaited, QueueAssumption,
       LinksAssumption
<1> QED
    BY <1>3, <1>4, <1>5, <1>6 DEF Inv

LEMMA InvNext == ASSUME QueueAssumption, Inv, [Next]_vars PROVE Inv' /\ [Kept]_vars
<1>1. CASE Next
    BY <1>1, Step
<1>2. CASE UNCHANGED vars
    BY <1>2 DEF vars, Inv, RowsTyped, RestTyped, CopyTyped, SessionsRun, WorkInv, ClaimHeld, WasTaken,
       OfferTried, Tried, ReviewAwaited
<1> QED
    BY <1>1, <1>2

\* The inductive invariant holds of every run.
THEOREM QueueInvariant == QueueAssumption => (Spec => []Inv)
<1> SUFFICES ASSUME QueueAssumption PROVE Spec => []Inv
    OBVIOUS
<1>1. Init => Inv
    BY InitInv
<1>2. Inv /\ [Next]_vars => Inv'
    BY InvNext
<1> QED
    BY <1>1, <1>2, PTL DEF Spec

\* What the invariant says in the module's own words.
LEMMA InvImplies ==
    ASSUME QueueAssumption, Inv
    PROVE  TypeOK /\ ClaimsHaveSession /\ AcceptedWasTaken /\ OffersAreAttempts /\ RestoredAwaitsReview
<1>1. TypeOK
    BY DEF Inv, RowsTyped, RestTyped, Row, Health, ClaimState, TypeOK, Run, Stages
<1>2. ASSUME NEW w \in Works PROVE ClaimHeld(w) /\ WasTaken(w) /\ OfferTried(w) /\ ReviewAwaited(w)
    BY <1>2 DEF Inv, WorkInv
<1>3. ClaimsHaveSession
    BY <1>2 DEF ClaimsHaveSession, ClaimHeld
<1>4. AcceptedWasTaken
    BY <1>2 DEF AcceptedWasTaken, WasTaken
<1>5. OffersAreAttempts
    BY <1>2 DEF OffersAreAttempts, OfferTried, Tried
<1>6. RestoredAwaitsReview
    BY <1>2 DEF RestoredAwaitsReview, ReviewAwaited
<1> QED
    BY <1>1, <1>3, <1>4, <1>5, <1>6

\* Work is claimed once, by the one session of its link; what the queue counts as accepted
\* the peer has; every offer is an attempt on record, through crashes and restores; and a
\* held work waits for the operator: for any number of works, links, crashes and restores.
THEOREM WorkIsClaimedOnceHolds == QueueAssumption => (Spec => WorkIsClaimedOnce)
<1> SUFFICES ASSUME QueueAssumption PROVE Spec => WorkIsClaimedOnce
    OBVIOUS
<1>1. Spec => []Inv
    BY QueueInvariant
<1>2. Inv => TypeOK /\ ClaimsHaveSession /\ AcceptedWasTaken /\ OffersAreAttempts
             /\ RestoredAwaitsReview
    BY InvImplies
<1>3. Inv /\ [Next]_vars => [HeldIsReviewed /\ AcceptedIsFinal]_vars
    BY InvNext DEF Kept
<1> QED
    BY <1>1, <1>2, <1>3, PTL DEF Spec, WorkIsClaimedOnce

-----------------------------------------------------------------------------
(***************************************************************************)
(* Proofs about ArtifactCustody, for any packets, threads, limits, crashes *)
(* and failures.                                                           *)
(*                                                                         *)
(* A file is created exclusively and only recovery removes one, while no   *)
(* thread runs; so a thread that writes is alone with its file, and what   *)
(* it has written or compared stays whole until it completes the row.  The *)
(* invariant says what a thread at each step knows of its row and its      *)
(* file.                                                                   *)
(***************************************************************************)
CONSTANTS Artifacts, Batches, Jobs, CustodyLinks, Unknown, Limit, CircuitLimit,
    CustodyCrashes, CustodyFaults
VARIABLES artifactPhase, artifactRow, file, artifactPc, want, artifactCrashes,
    artifactFaults
CA == INSTANCE ArtifactCustody WITH Links <- CustodyLinks,
    MaxCrashes <- CustodyCrashes, MaxFaults <- CustodyFaults, phase <- artifactPhase,
    row <- artifactRow, pc <- artifactPc, crashes <- artifactCrashes,
    faults <- artifactFaults

\* The instance counts as the standard module does.
LEMMA CustodyCounts == \A S : CA!Cardinality(S) = Cardinality(S) /\ (CA!IsFiniteSet(S) <=> IsFiniteSet(S))
BY DEF CA!Cardinality, Cardinality, CA!IsFiniteSet, IsFiniteSet

CustodyTyped ==
    /\ artifactPhase \in {"up", "down", "recovering"}
    /\ artifactRow \in [CA!Packets -> {"none", "pending", "complete"}]
    /\ file \in [CA!Packets -> {"none", "partial", "whole"}]
    /\ artifactPc \in [CA!Writers -> {"idle", "reserved", "present", "writing", "written"}]
    /\ want \in [CA!Writers -> CA!Packets]
    /\ artifactCrashes \in 0..CustodyCrashes /\ artifactFaults \in 0..CustodyFaults

CustodyBusy(w) == artifactPc[w] # "idle"

\* Jobs write packets of their format and links batches, whose rows are never pending.
CustodyFormatsKept ==
    /\ \A w \in Jobs : want[w] \in Artifacts
    /\ \A c \in CustodyLinks : want[c] \in Batches /\ artifactPc[c] # "present"
    /\ \A b \in Batches : artifactRow[b] # "pending"

\* What a thread at each step knows of the file and the row it works on.
CustodyKnows(w) ==
    /\ artifactPc[w] = "writing" => file[want[w]] = "partial"
    /\ artifactPc[w] = "written" => file[want[w]] = "whole"
    /\ artifactPc[w] = "present" => artifactRow[want[w]] = "complete"
    /\ w \in Jobs /\ artifactPc[w] \in {"reserved", "writing"} => artifactRow[want[w]] = "pending"
    /\ w \in Jobs /\ CustodyBusy(w) => artifactRow[want[w]] # "none"
CustodyThreadsKnow == \A w \in CA!Writers : CustodyKnows(w)

\* A pending row has one job, a file that is written one writer, and the database one
\* transaction of a link.
CustodyAlone ==
    /\ \A v, w \in Jobs : CustodyBusy(v) /\ CustodyBusy(w) /\ want[v] = want[w] /\ artifactRow[want[w]] = "pending" => v = w
    /\ \A v, w \in CA!Writers : artifactPc[v] = "writing" /\ artifactPc[w] = "writing" /\ want[v] = want[w] => v = w
    /\ \A c, d \in CustodyLinks : CustodyBusy(c) /\ CustodyBusy(d) => c = d

\* No thread runs while the daemon is down or recovers.
CustodyNoneRuns == artifactPhase # "up" => \A w \in CA!Writers : ~CustodyBusy(w)

\* Ownership is journaled, whatever else the directory holds.
CustodyJournalOwns == \A a \in Artifacts : file[a] = "partial" => artifactRow[a] = "pending"

CustodyInv ==
    /\ CustodyTyped /\ CustodyFormatsKept /\ CustodyThreadsKnow /\ CustodyAlone /\ CustodyNoneRuns
    /\ CA!CompleteIsWhole /\ CustodyJournalOwns

-----------------------------------------------------------------------------
\* The directory, the rows and the threads begin with nothing.
LEMMA CustodyInitEstablishes == CA!CustodyAssumption /\ CA!Init => CustodyInv
<1> SUFFICES ASSUME CA!CustodyAssumption, CA!Init PROVE CustodyInv
    OBVIOUS
<1>1. CustodyTyped /\ CustodyNoneRuns /\ CustodyAlone
    BY DEF CA!CustodyAssumption, CA!LimitsAreNumbers, CA!Init, CustodyTyped, CustodyNoneRuns, CustodyAlone, CustodyBusy, CA!Writers
<1>2. CustodyFormatsKept /\ CustodyThreadsKnow
    BY DEF CA!CustodyAssumption, CA!Init, CustodyFormatsKept, CustodyThreadsKnow, CustodyKnows, CustodyBusy, CA!Writers, CA!Packets
<1>3. CA!CompleteIsWhole /\ CustodyJournalOwns
    BY DEF CA!Init, CA!CompleteIsWhole, CustodyJournalOwns, CA!Packets
<1> QED
    BY <1>1, <1>2, <1>3 DEF CustodyInv

-----------------------------------------------------------------------------
(***************************************************************************)
(* Each step keeps the invariant.                                          *)
(***************************************************************************)
LEMMA CustodyReserveKeeps == ASSUME CA!CustodyAssumption, CustodyInv, NEW w \in Jobs, CA!Reserve(w) PROVE CustodyInv'
<1>1. CustodyTyped'
    BY DEF CA!Reserve, CustodyInv, CustodyTyped, CA!Writers, CA!Packets
<1>2. CustodyFormatsKept'
    BY DEF CA!Reserve, CA!CustodyAssumption, CA!FormatsDiffer, CustodyInv, CustodyTyped, CustodyFormatsKept, CA!Writers,
        CA!Packets
<1>3. CustodyThreadsKnow'
    BY DEF CA!Reserve, CustodyInv, CustodyTyped, CustodyThreadsKnow, CustodyKnows, CustodyBusy, CA!Packets
<1>4. CustodyAlone'
    BY DEF CA!Reserve, CA!CustodyAssumption, CustodyInv, CustodyTyped, CustodyThreadsKnow, CustodyKnows, CustodyAlone, CustodyBusy, CA!Writers
<1>5. CustodyNoneRuns'
    BY DEF CA!Reserve, CustodyNoneRuns
<1>6. CA!CompleteIsWhole'
    BY DEF CA!Reserve, CustodyInv, CustodyTyped, CA!CompleteIsWhole
<1>7. CustodyJournalOwns'
    BY DEF CA!Reserve, CustodyInv, CustodyTyped, CustodyJournalOwns, CA!Packets
<1> QED
    BY <1>1, <1>2, <1>3, <1>4, <1>5, <1>6, <1>7 DEF CustodyInv

LEMMA CustodyCreateKeeps == ASSUME CA!CustodyAssumption, CustodyInv, NEW w \in CA!Writers, CA!Create(w) PROVE CustodyInv'
<1>1. CustodyTyped'
    BY DEF CA!Create, CustodyInv, CustodyTyped
<1>2. CustodyFormatsKept'
    BY DEF CA!Create, CustodyInv, CustodyFormatsKept
<1>3. CustodyThreadsKnow'
    BY DEF CA!Create, CustodyInv, CustodyTyped, CustodyThreadsKnow, CustodyKnows, CustodyBusy, CA!CompleteIsWhole
<1>4. CustodyAlone'
    BY DEF CA!Create, CustodyInv, CustodyThreadsKnow, CustodyKnows, CustodyAlone, CustodyBusy
<1>5. CustodyNoneRuns'
    BY DEF CA!Create, CustodyNoneRuns
<1>6. CA!CompleteIsWhole'
    BY DEF CA!Create, CustodyInv, CA!CompleteIsWhole
<1>7. CustodyJournalOwns'
    BY DEF CA!Create, CA!CustodyAssumption, CA!FormatsDiffer, CustodyInv, CustodyTyped, CustodyFormatsKept,
        CustodyThreadsKnow, CustodyKnows, CA!CompleteIsWhole, CustodyJournalOwns, CA!Writers
<1> QED
    BY <1>1, <1>2, <1>3, <1>4, <1>5, <1>6, <1>7 DEF CustodyInv

LEMMA CustodyCompareKeeps == ASSUME CA!CustodyAssumption, CustodyInv, NEW w \in CA!Writers, CA!Compare(w) PROVE CustodyInv'
<1>1. CustodyTyped'
    BY DEF CA!Compare, CustodyInv, CustodyTyped
<1>2. CustodyFormatsKept'
    BY DEF CA!Compare, CustodyInv, CustodyFormatsKept
<1>3. CustodyThreadsKnow'
    BY DEF CA!Compare, CA!Same, CustodyInv, CustodyThreadsKnow, CustodyKnows, CustodyBusy
<1>4. CustodyAlone'
    BY DEF CA!Compare, CustodyInv, CustodyAlone, CustodyBusy
<1>5. CustodyNoneRuns'
    BY DEF CA!Compare, CustodyNoneRuns
<1>6. CA!CompleteIsWhole'
    BY DEF CA!Compare, CustodyInv, CA!CompleteIsWhole
<1>7. CustodyJournalOwns'
    BY DEF CA!Compare, CustodyInv, CustodyJournalOwns
<1> QED
    BY <1>1, <1>2, <1>3, <1>4, <1>5, <1>6, <1>7 DEF CustodyInv

LEMMA CustodyWriteKeeps == ASSUME CA!CustodyAssumption, CustodyInv, NEW w \in CA!Writers, CA!Write(w) PROVE CustodyInv'
<1>1. CustodyTyped'
    BY DEF CA!Write, CustodyInv, CustodyTyped
<1>2. CustodyFormatsKept'
    BY DEF CA!Write, CustodyInv, CustodyFormatsKept
<1>3. CustodyThreadsKnow'
    BY DEF CA!Write, CustodyInv, CustodyTyped, CustodyThreadsKnow, CustodyKnows, CustodyAlone, CustodyBusy
<1>4. CustodyAlone'
    BY DEF CA!Write, CustodyInv, CustodyAlone, CustodyBusy
<1>5. CustodyNoneRuns'
    BY DEF CA!Write, CustodyNoneRuns
<1>6. CA!CompleteIsWhole'
    BY DEF CA!Write, CustodyInv, CA!CompleteIsWhole
<1>7. CustodyJournalOwns'
    BY DEF CA!Write, CustodyInv, CustodyJournalOwns
<1> QED
    BY <1>1, <1>2, <1>3, <1>4, <1>5, <1>6, <1>7 DEF CustodyInv

LEMMA CustodyFinishKeeps == ASSUME CA!CustodyAssumption, CustodyInv, NEW w \in Jobs, CA!Finish(w) PROVE CustodyInv'
<1>1. CustodyTyped'
    BY DEF CA!Finish, CustodyInv, CustodyTyped
<1>2. CustodyFormatsKept'
    BY DEF CA!Finish, CustodyInv, CustodyFormatsKept
<1>3. CustodyThreadsKnow'
    BY DEF CA!Finish, CustodyInv, CustodyThreadsKnow, CustodyKnows, CustodyAlone, CustodyBusy
<1>4. CustodyAlone'
    BY DEF CA!Finish, CustodyInv, CustodyAlone, CustodyBusy
<1>5. CustodyNoneRuns'
    BY DEF CA!Finish, CustodyNoneRuns
<1>6. CA!CompleteIsWhole'
    BY DEF CA!Finish, CustodyInv, CustodyThreadsKnow, CustodyKnows, CA!CompleteIsWhole, CA!Writers
<1>7. CustodyJournalOwns'
    BY DEF CA!Finish, CustodyInv, CustodyThreadsKnow, CustodyKnows, CustodyJournalOwns, CA!Writers
<1> QED
    BY <1>1, <1>2, <1>3, <1>4, <1>5, <1>6, <1>7 DEF CustodyInv

LEMMA CustodyRetainKeeps == ASSUME CA!CustodyAssumption, CustodyInv, NEW c \in CustodyLinks, artifactPc[c] = "idle" /\ CA!Retain(c) PROVE CustodyInv'
<1>1. CustodyTyped'
    BY DEF CA!Retain, CustodyInv, CustodyTyped
<1>2. CustodyFormatsKept'
    BY DEF CA!Retain, CustodyInv, CustodyFormatsKept
<1>3. CustodyThreadsKnow'
    BY DEF CA!Retain, CA!CustodyAssumption, CustodyInv, CustodyThreadsKnow, CustodyKnows, CustodyBusy
<1>4. CustodyAlone'
    BY DEF CA!Retain, CA!Writing, CA!CustodyAssumption, CustodyInv, CustodyAlone, CustodyBusy
<1>5. CustodyNoneRuns'
    BY DEF CA!Retain, CustodyNoneRuns
<1>6. CA!CompleteIsWhole'
    BY DEF CA!Retain, CustodyInv, CA!CompleteIsWhole
<1>7. CustodyJournalOwns'
    BY DEF CA!Retain, CustodyInv, CustodyJournalOwns
<1> QED
    BY <1>1, <1>2, <1>3, <1>4, <1>5, <1>6, <1>7 DEF CustodyInv

LEMMA CustodyCommitKeeps == ASSUME CA!CustodyAssumption, CustodyInv, NEW c \in CustodyLinks, CA!Commit(c) PROVE CustodyInv'
<1>1. CustodyTyped'
    BY DEF CA!Commit, CustodyInv, CustodyTyped
<1>2. CustodyFormatsKept'
    BY DEF CA!Commit, CustodyInv, CustodyFormatsKept
<1>3. CustodyThreadsKnow'
    BY DEF CA!Commit, CustodyInv, CustodyFormatsKept, CustodyThreadsKnow, CustodyKnows, CustodyBusy
<1>4. CustodyAlone'
    BY DEF CA!Commit, CustodyInv, CustodyAlone, CustodyBusy
<1>5. CustodyNoneRuns'
    BY DEF CA!Commit, CustodyNoneRuns
<1>6. CA!CompleteIsWhole'
    BY DEF CA!Commit, CustodyInv, CustodyThreadsKnow, CustodyKnows, CA!CompleteIsWhole, CA!Writers
<1>7. CustodyJournalOwns'
    BY DEF CA!Commit, CustodyInv, CustodyFormatsKept, CustodyJournalOwns
<1> QED
    BY <1>1, <1>2, <1>3, <1>4, <1>5, <1>6, <1>7 DEF CustodyInv

LEMMA CustodyFailKeeps == ASSUME CA!CustodyAssumption, CustodyInv, NEW w \in CA!Writers, CA!Fail(w) PROVE CustodyInv'
<1>1. CustodyTyped'
    BY DEF CA!Fail, CA!CustodyAssumption, CA!LimitsAreNumbers, CustodyInv, CustodyTyped
<1>2. CustodyFormatsKept'
    BY DEF CA!Fail, CustodyInv, CustodyFormatsKept
<1>3. CustodyThreadsKnow'
    BY DEF CA!Fail, CustodyInv, CustodyThreadsKnow, CustodyKnows, CustodyBusy
<1>4. CustodyAlone'
    BY DEF CA!Fail, CustodyInv, CustodyAlone, CustodyBusy
<1>5. CustodyNoneRuns'
    BY DEF CA!Fail, CustodyNoneRuns
<1>6. CA!CompleteIsWhole'
    BY DEF CA!Fail, CustodyInv, CA!CompleteIsWhole
<1>7. CustodyJournalOwns'
    BY DEF CA!Fail, CustodyInv, CustodyJournalOwns
<1> QED
    BY <1>1, <1>2, <1>3, <1>4, <1>5, <1>6, <1>7 DEF CustodyInv

LEMMA CustodyCrashKeeps == ASSUME CA!CustodyAssumption, CustodyInv, CA!Crash PROVE CustodyInv'
<1>1. CustodyTyped'
    BY DEF CA!Crash, CA!CustodyAssumption, CA!LimitsAreNumbers, CustodyInv, CustodyTyped
<1>2. CustodyFormatsKept'
    BY DEF CA!Crash, CustodyInv, CustodyFormatsKept, CA!Writers
<1>3. CustodyThreadsKnow'
    BY DEF CA!Crash, CustodyThreadsKnow, CustodyKnows, CustodyBusy
<1>4. CustodyAlone'
    BY DEF CA!Crash, CustodyAlone, CustodyBusy, CA!Writers
<1>5. CustodyNoneRuns'
    BY DEF CA!Crash, CustodyBusy, CustodyNoneRuns
<1>6. CA!CompleteIsWhole'
    BY DEF CA!Crash, CustodyInv, CA!CompleteIsWhole
<1>7. CustodyJournalOwns'
    BY DEF CA!Crash, CustodyInv, CustodyJournalOwns
<1> QED
    BY <1>1, <1>2, <1>3, <1>4, <1>5, <1>6, <1>7 DEF CustodyInv

LEMMA CustodyStopKeeps == ASSUME CA!CustodyAssumption, CustodyInv, CA!Stop PROVE CustodyInv'
<1>1. CustodyTyped'
    BY DEF CA!Stop, CustodyInv, CustodyTyped
<1>2. CustodyFormatsKept'
    BY DEF CA!Stop, CustodyInv, CustodyFormatsKept
<1>3. CustodyThreadsKnow'
    BY DEF CA!Stop, CustodyThreadsKnow, CustodyKnows, CustodyBusy
<1>4. CustodyAlone'
    BY DEF CA!Stop, CustodyInv, CustodyAlone, CustodyBusy
<1>5. CustodyNoneRuns'
    BY DEF CA!Stop, CustodyBusy, CustodyNoneRuns
<1>6. CA!CompleteIsWhole'
    BY DEF CA!Stop, CustodyInv, CA!CompleteIsWhole
<1>7. CustodyJournalOwns'
    BY DEF CA!Stop, CustodyInv, CustodyJournalOwns
<1> QED
    BY <1>1, <1>2, <1>3, <1>4, <1>5, <1>6, <1>7 DEF CustodyInv

LEMMA CustodyStartKeeps == ASSUME CA!CustodyAssumption, CustodyInv, CA!Start PROVE CustodyInv'
<1>1. CustodyTyped'
    BY DEF CA!Start, CustodyInv, CustodyTyped
<1>2. CustodyFormatsKept'
    BY DEF CA!Start, CustodyInv, CustodyFormatsKept
<1>3. CustodyThreadsKnow'
    BY DEF CA!Start, CustodyInv, CustodyThreadsKnow, CustodyKnows, CustodyBusy
<1>4. CustodyAlone'
    BY DEF CA!Start, CustodyInv, CustodyAlone, CustodyBusy
<1>5. CustodyNoneRuns'
    BY DEF CA!Start, CustodyInv, CustodyBusy, CustodyNoneRuns
<1>6. CA!CompleteIsWhole'
    BY DEF CA!Start, CustodyInv, CA!CompleteIsWhole
<1>7. CustodyJournalOwns'
    BY DEF CA!Start, CustodyInv, CustodyJournalOwns
<1> QED
    BY <1>1, <1>2, <1>3, <1>4, <1>5, <1>6, <1>7 DEF CustodyInv

LEMMA CustodyUnlinkKeeps == ASSUME CA!CustodyAssumption, CustodyInv, NEW a \in CA!Packets, CA!Unlink(a) PROVE CustodyInv'
<1>1. CustodyTyped'
    BY DEF CA!Unlink, CustodyInv, CustodyTyped
<1>2. CustodyFormatsKept'
    BY DEF CA!Unlink, CustodyInv, CustodyFormatsKept
<1>3. CustodyThreadsKnow'
    BY DEF CA!Unlink, CustodyInv, CustodyThreadsKnow, CustodyKnows, CustodyBusy, CustodyNoneRuns
<1>4. CustodyAlone'
    BY DEF CA!Unlink, CustodyInv, CustodyAlone, CustodyBusy
<1>5. CustodyNoneRuns'
    BY DEF CA!Unlink, CustodyInv, CustodyBusy, CustodyNoneRuns
<1>6. CA!CompleteIsWhole'
    BY DEF CA!Unlink, CA!Incomplete, CustodyInv, CA!CompleteIsWhole
<1>7. CustodyJournalOwns'
    BY DEF CA!Unlink, CustodyInv, CustodyJournalOwns
<1> QED
    BY <1>1, <1>2, <1>3, <1>4, <1>5, <1>6, <1>7 DEF CustodyInv

LEMMA CustodyForgetKeeps == ASSUME CA!CustodyAssumption, CustodyInv, NEW a \in CA!Packets, CA!Forget(a) PROVE CustodyInv'
<1>1. CustodyTyped'
    BY DEF CA!Forget, CustodyInv, CustodyTyped
<1>2. CustodyFormatsKept'
    BY DEF CA!Forget, CustodyInv, CustodyFormatsKept
<1>3. CustodyThreadsKnow'
    BY DEF CA!Forget, CustodyInv, CustodyThreadsKnow, CustodyKnows, CustodyBusy, CustodyNoneRuns
<1>4. CustodyAlone'
    BY DEF CA!Forget, CustodyInv, CustodyAlone, CustodyBusy
<1>5. CustodyNoneRuns'
    BY DEF CA!Forget, CustodyInv, CustodyBusy, CustodyNoneRuns
<1>6. CA!CompleteIsWhole'
    BY DEF CA!Forget, CustodyInv, CA!CompleteIsWhole
<1>7. CustodyJournalOwns'
    BY DEF CA!Forget, CustodyInv, CustodyJournalOwns
<1> QED
    BY <1>1, <1>2, <1>3, <1>4, <1>5, <1>6, <1>7 DEF CustodyInv

LEMMA CustodyOpenKeeps == ASSUME CA!CustodyAssumption, CustodyInv, CA!Open PROVE CustodyInv'
<1>1. CustodyTyped'
    BY DEF CA!Open, CustodyInv, CustodyTyped
<1>2. CustodyFormatsKept'
    BY DEF CA!Open, CustodyInv, CustodyFormatsKept
<1>3. CustodyThreadsKnow'
    BY DEF CA!Open, CustodyInv, CustodyThreadsKnow, CustodyKnows, CustodyBusy
<1>4. CustodyAlone'
    BY DEF CA!Open, CustodyInv, CustodyAlone, CustodyBusy
<1>5. CustodyNoneRuns'
    BY DEF CA!Open, CustodyNoneRuns
<1>6. CA!CompleteIsWhole'
    BY DEF CA!Open, CA!Validated, CA!Same, CA!CompleteIsWhole
<1>7. CustodyJournalOwns'
    BY DEF CA!Open, CustodyInv, CustodyJournalOwns
<1> QED
    BY <1>1, <1>2, <1>3, <1>4, <1>5, <1>6, <1>7 DEF CustodyInv

LEMMA CustodyRefuseKeeps == ASSUME CA!CustodyAssumption, CustodyInv, CA!Refuse PROVE CustodyInv'
<1>1. CustodyTyped'
    BY DEF CA!Refuse, CustodyInv, CustodyTyped
<1>2. CustodyFormatsKept'
    BY DEF CA!Refuse, CustodyInv, CustodyFormatsKept
<1>3. CustodyThreadsKnow'
    BY DEF CA!Refuse, CustodyInv, CustodyThreadsKnow, CustodyKnows, CustodyBusy
<1>4. CustodyAlone'
    BY DEF CA!Refuse, CustodyInv, CustodyAlone, CustodyBusy
<1>5. CustodyNoneRuns'
    BY DEF CA!Refuse, CustodyInv, CustodyBusy, CustodyNoneRuns
<1>6. CA!CompleteIsWhole'
    BY DEF CA!Refuse, CustodyInv, CA!CompleteIsWhole
<1>7. CustodyJournalOwns'
    BY DEF CA!Refuse, CustodyInv, CustodyJournalOwns
<1> QED
    BY <1>1, <1>2, <1>3, <1>4, <1>5, <1>6, <1>7 DEF CustodyInv

-----------------------------------------------------------------------------
\* Every reachable state keeps the invariant: what a thread knows of its row and
\* file stays true until it acts on it (preserve_artifact, retain, recover).
THEOREM CustodyInvariant == CA!CustodyAssumption => (CA!Spec => []CustodyInv)
<1> SUFFICES ASSUME CA!CustodyAssumption PROVE CA!Spec => []CustodyInv
    OBVIOUS
<1>1. CA!Init => CustodyInv
    BY CustodyInitEstablishes
<1>2. CustodyInv /\ [CA!Next]_(CA!vars) => CustodyInv'
  <2> SUFFICES ASSUME CustodyInv, [CA!Next]_(CA!vars) PROVE CustodyInv'
      OBVIOUS
  <2>1. ASSUME NEW w \in Jobs, CA!Job(w) PROVE CustodyInv'
    <3>1. w \in CA!Writers
        BY DEF CA!Writers
    <3> QED
        BY <2>1, <3>1, CustodyReserveKeeps, CustodyCreateKeeps, CustodyCompareKeeps, CustodyWriteKeeps, CustodyFinishKeeps
        DEF CA!Job
  <2>2. ASSUME NEW c \in CustodyLinks, CA!Link(c) PROVE CustodyInv'
    <3>1. c \in CA!Writers
        BY DEF CA!Writers
    <3> QED
        BY <2>2, <3>1, CustodyRetainKeeps, CustodyCreateKeeps, CustodyCompareKeeps, CustodyWriteKeeps, CustodyCommitKeeps
        DEF CA!Link
  <2>3. ASSUME NEW w \in CA!Writers, CA!Fail(w) PROVE CustodyInv'
      BY <2>3, CustodyFailKeeps
  <2>4. CASE CA!Crash \/ CA!Stop
      BY <2>4, CustodyCrashKeeps, CustodyStopKeeps
  <2>5. CASE CA!Recovery
      BY <2>5, CustodyStartKeeps, CustodyOpenKeeps, CustodyRefuseKeeps, CustodyUnlinkKeeps, CustodyForgetKeeps DEF CA!Recovery
  <2>6. CASE UNCHANGED CA!vars
      BY <2>6
      DEF CA!vars, CustodyInv, CustodyTyped, CustodyFormatsKept, CustodyThreadsKnow, CustodyKnows, CustodyAlone, CustodyBusy, CustodyNoneRuns,
          CA!CompleteIsWhole, CustodyJournalOwns
  <2> QED
      BY <2>1, <2>2, <2>3, <2>4, <2>5, <2>6 DEF CA!Next
<1> QED
    BY <1>1, <1>2, PTL DEF CA!Spec

\* At most one thread of a link is in a transaction, so TypeOK's count is at most one.
LEMMA CustodyAtMostOne ==
    ASSUME NEW S, \A c, d \in S : c = d
    PROVE  Cardinality(S) <= 1
<1>1. CASE S = {}
    BY <1>1, FS_EmptySet
<1>2. CASE S # {}
  <2>1. PICK c : c \in S
      BY <1>2
  <2>2. S = {c}
      BY <2>1
  <2>3. Cardinality({c}) = 1
      BY FS_Singleton
  <2> QED
      BY <2>2, <2>3
<1> QED
    BY <1>1, <1>2

\* Every variable keeps its type, and CircuitNET has one transaction at a time,
\* whatever the threads, faults and crashes.
THEOREM CustodyTypeCorrect == CA!CustodyAssumption => (CA!Spec => []CA!TypeOK)
<1> SUFFICES ASSUME CA!CustodyAssumption PROVE CA!Spec => []CA!TypeOK
    OBVIOUS
<1>1. ASSUME CustodyInv PROVE CA!TypeOK
  <2>1. Cardinality({c \in CustodyLinks : artifactPc[c] # "idle"}) <= 1
      BY <1>1, CustodyAtMostOne DEF CustodyInv, CustodyAlone, CustodyBusy
  <2> QED
      BY <1>1, <2>1, CustodyCounts DEF CustodyInv, CustodyTyped, CA!TypeOK
<1> QED
    BY <1>1, CustodyInvariant, PTL

\* A complete row has its whole file, for any writers, crashes and failed statements
\* (DiskArtifactStore::validate).
THEOREM CompleteIsWholeHolds == CA!CustodyAssumption => (CA!Spec => []CA!CompleteIsWhole)
<1>1. CustodyInv => CA!CompleteIsWhole
    BY DEF CustodyInv
<1> QED
    BY <1>1, CustodyInvariant, PTL

\* The files of journaled jobs: one that is not whole has the pending row by which
\* recovery finds it; where CircuitNET stores nothing, that is every file.
THEOREM PartialIsJournaledHolds ==
    CA!CustodyAssumption => (CA!Spec => [](CustodyJournalOwns /\ (Batches = {} => CA!PartialIsJournaled)))
<1> SUFFICES ASSUME CA!CustodyAssumption
             PROVE  CA!Spec => [](CustodyJournalOwns /\ (Batches = {} => CA!PartialIsJournaled))
    OBVIOUS
<1>1. CustodyInv => CustodyJournalOwns /\ (Batches = {} => CA!PartialIsJournaled)
    BY DEF CustodyInv, CustodyJournalOwns, CA!PartialIsJournaled, CA!Packets
<1> QED
    BY <1>1, CustodyInvariant, PTL

\* No step but recovery's takes a whole file away, and only the file of a pending row
\* (DiskArtifactStore::recover).
THEOREM OnlyPendingRemovedHolds == CA!CustodyAssumption => (CA!Spec => [][CA!OnlyPendingRemoved]_(CA!vars))
<1> SUFFICES ASSUME CA!CustodyAssumption PROVE CA!Spec => [][CA!OnlyPendingRemoved]_(CA!vars)
    OBVIOUS
<1>1. ASSUME CustodyInv, CA!Next PROVE CA!OnlyPendingRemoved
  <2>1. file \in [CA!Packets -> {"none", "partial", "whole"}] /\ want \in [CA!Writers -> CA!Packets]
      BY <1>1 DEF CustodyInv, CustodyTyped
  <2>2. ASSUME NEW w \in CA!Writers, CA!Create(w) \/ CA!Write(w) PROVE CA!OnlyPendingRemoved
      BY <2>1, <2>2 DEF CA!Create, CA!Write, CA!OnlyPendingRemoved
  <2>3. ASSUME NEW a \in CA!Packets, CA!Unlink(a) PROVE CA!OnlyPendingRemoved
      BY <2>3 DEF CA!Unlink, CA!Incomplete, CA!OnlyPendingRemoved
  <2>4. ASSUME file' = file PROVE CA!OnlyPendingRemoved
      BY <2>4 DEF CA!OnlyPendingRemoved
  <2>5. ASSUME NEW w \in Jobs, CA!Job(w) PROVE CA!OnlyPendingRemoved
    <3>1. w \in CA!Writers
        BY DEF CA!Writers
    <3> QED
        BY <2>2, <2>4, <2>5, <3>1 DEF CA!Job, CA!Reserve, CA!Compare, CA!Finish
  <2>6. ASSUME NEW c \in CustodyLinks, CA!Link(c) PROVE CA!OnlyPendingRemoved
    <3>1. c \in CA!Writers
        BY DEF CA!Writers
    <3> QED
        BY <2>2, <2>4, <2>6, <3>1 DEF CA!Link, CA!Retain, CA!Compare, CA!Commit
  <2>7. ASSUME NEW w \in CA!Writers, CA!Fail(w) PROVE CA!OnlyPendingRemoved
      BY <2>4, <2>7 DEF CA!Fail
  <2>8. CASE CA!Crash \/ CA!Stop
      BY <2>4, <2>8 DEF CA!Crash, CA!Stop
  <2>9. CASE CA!Recovery
      BY <2>3, <2>4, <2>9 DEF CA!Recovery, CA!Start, CA!Open, CA!Refuse, CA!Forget
  <2> QED
      BY <1>1, <2>5, <2>6, <2>7, <2>8, <2>9 DEF CA!Next
<1>2. CustodyInv /\ [CA!Next]_(CA!vars) => [CA!OnlyPendingRemoved]_(CA!vars)
    BY <1>1
<1> QED
    BY <1>2, CustodyInvariant, PTL DEF CA!Spec

-----------------------------------------------------------------------------
(***************************************************************************)
(* Replies, for any packets, reviewed members, controls and bounds.        *)
(*                                                                         *)
(* An import posts a member only where no receipt of another packet has    *)
(* its digest under this token, and the receipt is written with the post:  *)
(* what was imported under one token is from one packet, so that a member  *)
(* is counted once for each token.                                         *)
(***************************************************************************)
CONSTANTS Content, ReviewedMembers, Controls, MaxNew, ReplyChanges, ReplyFaults
VARIABLES receipt, posts, job, online, allowed, tokens, replyChanges, replyFaults,
    meant, ended, refused
OR == INSTANCE OfflineReplies WITH Reviewed <- ReviewedMembers,
    MaxChanges <- ReplyChanges, MaxFaults <- ReplyFaults, changes <- replyChanges,
    faults <- replyFaults

\* The instance counts as the standard module does.
LEMMA ReplyCounts == \A S : OR!Cardinality(S) = Cardinality(S) /\ (OR!IsFiniteSet(S) <=> IsFiniteSet(S))
BY DEF OR!Cardinality, Cardinality, OR!IsFiniteSet, IsFiniteSet

\* No packet holds one record twice.
ReplyDistinctMembers == \A p \in OR!Packets : \A i, j \in DOMAIN Content[p] : Content[p][i] = Content[p][j] => i = j

ReplyJobs == [packet : OR!Packets, token : 0..tokens, at : Nat \ {0}]
ReplyTyped ==
    /\ receipt \in [OR!Keys -> OR!Outcomes]
    /\ posts \in [OR!Members -> Nat]
    /\ OR!Busy => job \in ReplyJobs /\ job.at <= Len(Content[job.packet]) + 1
    /\ online \in BOOLEAN /\ allowed \in BOOLEAN
    /\ tokens \in 0..MaxNew /\ replyChanges \in 0..ReplyChanges /\ replyFaults \in 0..ReplyFaults
    /\ \A k \in OR!Keys : k[2] > tokens => receipt[k] = "none"
\* One member is imported from one packet only under each token.
ReplyFromOnePacket == \A j, k \in OR!Keys :
    (receipt[j] = "imported" /\ receipt[k] = "imported" /\ OR!MemberOf(j) = OR!MemberOf(k) /\ j[2] = k[2])
        => j[1] = k[1]
\* A new submission has its token for itself.
ReplyOwnToken == (OR!Busy /\ job.token # 0) =>
    \A k \in OR!Keys : (receipt[k] = "imported" /\ k[2] = job.token) => k[1] = job.packet
ReplyInv == ReplyTyped /\ ReplyFromOnePacket /\ ReplyOwnToken /\ OR!PostsHaveReceipts

-----------------------------------------------------------------------------
LEMMA ReplyKeyParts ==
    ASSUME OR!RepliesAssumption, NEW k \in OR!Keys
    PROVE  /\ k[1] \in OR!Packets /\ k[2] \in 0..MaxNew /\ k[3] \in 1..Len(Content[k[1]])
           /\ k = <<k[1], k[2], k[3]>> /\ OR!MemberOf(k) \in OR!Members
<1>1. PICK p \in OR!Packets : k \in {<<p, t, i>> : t \in 0..MaxNew, i \in DOMAIN Content[p]}
    BY DEF OR!Keys
<1>2. PICK t \in 0..MaxNew, i \in DOMAIN Content[p] : k = <<p, t, i>>
    BY <1>1
<1>3. Content[p] \in Seq(OR!Members)
    BY DEF OR!RepliesAssumption
<1>4. i \in 1..Len(Content[p])
    BY <1>3
<1>5. Content[p][i] \in OR!Members
    BY DEF OR!Members
<1> QED
    BY <1>2, <1>4, <1>5 DEF OR!MemberOf

LEMMA ReplyHereIsKey ==
    ASSUME OR!RepliesAssumption, ReplyInv, OR!AtMember
    PROVE  /\ OR!Here \in OR!Keys /\ OR!Here[1] = job.packet /\ OR!Here[2] = job.token /\ OR!MemberOf(OR!Here) \in OR!Members
           /\ job \in ReplyJobs /\ job.at + 1 <= Len(Content[job.packet]) + 1
<1>1. job \in ReplyJobs /\ job.at <= Len(Content[job.packet])
    BY DEF ReplyInv, ReplyTyped, OR!AtMember
<1>2. job.packet \in OR!Packets /\ job.token \in 0..tokens /\ job.at \in Nat \ {0} /\ tokens \in 0..MaxNew /\ MaxNew \in Nat
    BY <1>1 DEF ReplyJobs, ReplyInv, ReplyTyped, OR!RepliesAssumption
<1>3. Content[job.packet] \in Seq(OR!Members)
    BY <1>2 DEF OR!RepliesAssumption
<1>4. job.at \in DOMAIN Content[job.packet] /\ Len(Content[job.packet]) \in Nat
    BY <1>1, <1>2, <1>3
<1>5. job.token \in 0..MaxNew
    BY <1>2
<1>6. OR!Here \in OR!Keys
    BY <1>2, <1>4, <1>5 DEF OR!Here, OR!Keys
<1>7. OR!MemberOf(OR!Here) \in OR!Members
    BY <1>6, ReplyKeyParts
<1> QED
    BY <1>1, <1>2, <1>4, <1>6, <1>7 DEF OR!Here

LEMMA ReplyImportedIsFinite ==
    ASSUME OR!RepliesAssumption, NEW m
    PROVE  IsFiniteSet(OR!Imported(m)) /\ Cardinality(OR!Imported(m)) \in Nat
<1>1. IsFiniteSet(OR!Imported(m))
    BY ReplyCounts, FS_Subset DEF OR!Imported, OR!RepliesAssumption
<1> QED
    BY <1>1, FS_CardinalityType

\* Steps that record nothing.
LEMMA ReplyQuietStep ==
    ASSUME OR!RepliesAssumption, ReplyInv, UNCHANGED <<receipt, posts>>,
           online' \in BOOLEAN, allowed' \in BOOLEAN,
           replyChanges' \in 0..ReplyChanges, replyFaults' \in 0..ReplyFaults,
           tokens' = tokens, job' = OR!NoJob \/ job' = job
    PROVE  ReplyInv'
<1>1. ReplyTyped'
    BY DEF ReplyInv, ReplyTyped, OR!Busy, ReplyJobs
<1>2. ReplyFromOnePacket'
    BY DEF ReplyInv, ReplyFromOnePacket, OR!MemberOf
<1>3. ReplyOwnToken'
    BY DEF ReplyInv, ReplyOwnToken, OR!Busy, OR!NoJob
<1>4. OR!PostsHaveReceipts'
    BY DEF ReplyInv, OR!PostsHaveReceipts, OR!Imported, OR!MemberOf
<1> QED
    BY <1>1, <1>2, <1>3, <1>4 DEF ReplyInv

LEMMA ReplyUploadStep == ASSUME OR!RepliesAssumption, ReplyInv, NEW p \in OR!Packets, OR!Upload(p) PROVE ReplyInv'
<1>1. job' = [packet |-> p, token |-> 0, at |-> 1]
      /\ UNCHANGED <<receipt, posts, online, allowed, tokens, replyChanges, replyFaults, OR!history>>
    BY DEF OR!Upload
<1>2. Content[p] \in Seq(OR!Members) /\ Len(Content[p]) \in Nat /\ tokens \in Nat
    BY DEF OR!RepliesAssumption, ReplyInv, ReplyTyped
<1>3. ReplyTyped'
    BY <1>1, <1>2 DEF ReplyInv, ReplyTyped, OR!Busy, ReplyJobs
<1>4. ReplyFromOnePacket' /\ OR!PostsHaveReceipts'
    BY <1>1 DEF ReplyInv, ReplyFromOnePacket, OR!MemberOf, OR!PostsHaveReceipts, OR!Imported
<1>5. ReplyOwnToken'
    BY <1>1 DEF ReplyOwnToken
<1> QED
    BY <1>3, <1>4, <1>5 DEF ReplyInv

LEMMA ReplySubmitStep == ASSUME OR!RepliesAssumption, ReplyInv, NEW p \in OR!Packets, OR!Submit(p) PROVE ReplyInv'
<1>1. /\ tokens' = tokens + 1 /\ tokens < MaxNew
      /\ job' = [packet |-> p, token |-> tokens', at |-> 1]
      /\ UNCHANGED <<receipt, posts, online, allowed, replyChanges, replyFaults>>
    BY DEF OR!Submit
<1>2. Content[p] \in Seq(OR!Members) /\ Len(Content[p]) \in Nat /\ tokens \in Nat /\ MaxNew \in Nat
    BY DEF OR!RepliesAssumption, ReplyInv, ReplyTyped
<1>3. \A k \in OR!Keys : k[2] > tokens' => receipt[k] = "none"
    BY <1>1, <1>2, ReplyKeyParts DEF ReplyInv, ReplyTyped
<1>4. ReplyTyped'
    <2>1. tokens' \in 0..MaxNew
        BY <1>1, <1>2
    <2>2. job' \in [packet : OR!Packets, token : 0..tokens', at : Nat \ {0}] /\ job'.at <= Len(Content[job'.packet]) + 1
        BY <1>1, <1>2
    <2> QED
        BY <1>1, <1>3, <2>1, <2>2 DEF ReplyInv, ReplyTyped, OR!Busy, ReplyJobs
<1>5. ReplyFromOnePacket' /\ OR!PostsHaveReceipts'
    BY <1>1 DEF ReplyInv, ReplyFromOnePacket, OR!MemberOf, OR!PostsHaveReceipts, OR!Imported
<1>6. ReplyOwnToken'
    <2>1. \A k \in OR!Keys : k[2] = tokens' => receipt'[k] # "imported"
        BY <1>1, <1>2, ReplyKeyParts DEF ReplyInv, ReplyTyped
    <2> QED
        BY <1>1, <2>1 DEF ReplyOwnToken
<1> QED
    BY <1>4, <1>5, <1>6 DEF ReplyInv

LEMMA ReplyOnwardIsTyped ==
    ASSUME OR!RepliesAssumption, ReplyInv, OR!AtMember, job' = OR!Onward, tokens' = tokens
    PROVE  /\ job' \in [packet : OR!Packets, token : 0..tokens', at : Nat \ {0}]
           /\ job'.at <= Len(Content[job'.packet]) + 1
           /\ job'.packet = job.packet /\ job'.token = job.token /\ OR!Busy
<1>1. job \in ReplyJobs /\ job.at + 1 <= Len(Content[job.packet]) + 1 /\ OR!Busy
    BY ReplyHereIsKey DEF OR!AtMember
<1> QED
    BY <1>1 DEF OR!Onward, ReplyJobs

LEMMA ReplySkipStep == ASSUME OR!RepliesAssumption, ReplyInv, OR!Skip PROVE ReplyInv'
<1>1. OR!AtMember /\ job' = OR!Onward /\ UNCHANGED <<receipt, posts, online, allowed, tokens, replyChanges, replyFaults, OR!history>>
    BY DEF OR!Skip, OR!AfterKnown
<1>2. /\ job' \in [packet : OR!Packets, token : 0..tokens', at : Nat \ {0}]
      /\ job'.at <= Len(Content[job'.packet]) + 1
      /\ job'.packet = job.packet /\ job'.token = job.token /\ OR!Busy
    BY <1>1, ReplyOnwardIsTyped
<1>3. ReplyTyped'
    BY <1>1, <1>2 DEF ReplyInv, ReplyTyped, ReplyJobs, OR!Busy
<1>4. ReplyFromOnePacket' /\ OR!PostsHaveReceipts'
    BY <1>1 DEF ReplyInv, ReplyFromOnePacket, OR!MemberOf, OR!PostsHaveReceipts, OR!Imported
<1>5. ReplyOwnToken'
    BY <1>1, <1>2 DEF ReplyInv, ReplyOwnToken
<1> QED
    BY <1>3, <1>4, <1>5 DEF ReplyInv

\* A member gets an outcome that is not a message.
LEMMA ReplyAnswerStep ==
    ASSUME OR!RepliesAssumption, ReplyInv, OR!Fresh, NEW o \in OR!Outcomes \ {"none", "imported"}, OR!Record(o),
           UNCHANGED <<posts, online, allowed, tokens, replyChanges, replyFaults>>
    PROVE  ReplyInv'
<1>0. OR!AtMember /\ job' = OR!Onward /\ receipt' = [receipt EXCEPT ![OR!Here] = o] /\ receipt[OR!Here] = "none"
    BY DEF OR!Fresh, OR!Record
<1>1. OR!Here \in OR!Keys /\ OR!Here[2] = job.token /\ job \in ReplyJobs
    BY <1>0, ReplyHereIsKey
<1>2. /\ job' \in [packet : OR!Packets, token : 0..tokens', at : Nat \ {0}]
      /\ job'.at <= Len(Content[job'.packet]) + 1
      /\ job'.packet = job.packet /\ job'.token = job.token /\ OR!Busy
    BY <1>0, ReplyOnwardIsTyped
<1> HIDE DEF OR!Here
<1>3. \A k \in OR!Keys : receipt'[k] = IF k = OR!Here THEN o ELSE receipt[k]
    BY <1>0, <1>1 DEF ReplyInv, ReplyTyped
<1>4. \A k \in OR!Keys : receipt'[k] = "imported" <=> receipt[k] = "imported"
    BY <1>0, <1>3
<1>5. ReplyTyped'
    <2>1. receipt' \in [OR!Keys -> OR!Outcomes]
        BY <1>0, <1>1 DEF ReplyInv, ReplyTyped
    <2>2. ~(job.token > tokens)
        BY <1>1 DEF ReplyJobs, ReplyInv, ReplyTyped
    <2>3. \A k \in OR!Keys : k[2] > tokens' => receipt'[k] = "none"
        BY <1>1, <1>3, <2>2 DEF ReplyInv, ReplyTyped
    <2> QED
        BY <1>2, <2>1, <2>3 DEF ReplyInv, ReplyTyped, ReplyJobs, OR!Busy
<1>6. ReplyFromOnePacket'
    BY <1>4 DEF ReplyInv, ReplyFromOnePacket, OR!MemberOf
<1>7. ReplyOwnToken'
    BY <1>2, <1>4 DEF ReplyInv, ReplyOwnToken
<1>8. OR!PostsHaveReceipts'
    <2>1. \A m : OR!Imported(m)' = OR!Imported(m)
        BY <1>4 DEF OR!Imported, OR!MemberOf
    <2> QED
        BY <2>1 DEF ReplyInv, OR!PostsHaveReceipts
<1> QED
    BY <1>5, <1>6, <1>7, <1>8 DEF ReplyInv

LEMMA ReplyImportStep == ASSUME OR!RepliesAssumption, ReplyInv, OR!Import PROVE ReplyInv'
<1> DEFINE m == OR!MemberOf(OR!Here)
<1>0. /\ OR!AtMember /\ job' = OR!Onward /\ receipt' = [receipt EXCEPT ![OR!Here] = "imported"] /\ receipt[OR!Here] = "none"
      /\ ~OR!Held /\ posts' = [posts EXCEPT ![m] = @ + 1]
      /\ UNCHANGED <<online, allowed, tokens, replyChanges, replyFaults>>
    BY DEF OR!Import, OR!Fresh, OR!Record, OR!Posted
<1>1. OR!Here \in OR!Keys /\ OR!Here[1] = job.packet /\ OR!Here[2] = job.token /\ m \in OR!Members /\ job \in ReplyJobs
    BY <1>0, ReplyHereIsKey
<1>2. /\ job' \in [packet : OR!Packets, token : 0..tokens', at : Nat \ {0}]
      /\ job'.at <= Len(Content[job'.packet]) + 1
      /\ job'.packet = job.packet /\ job'.token = job.token /\ OR!Busy
    BY <1>0, ReplyOnwardIsTyped
<1>9. \A k \in OR!Keys : (receipt[k] = "imported" /\ OR!MemberOf(k) = m /\ k[2] = job.token) => k[1] = job.packet
    <2> SUFFICES ASSUME NEW k \in OR!Keys, receipt[k] = "imported", OR!MemberOf(k) = m, k[2] = job.token
                 PROVE  k[1] = job.packet
        OBVIOUS
    <2>1. CASE job.token = 0
        <3>1. <<k[1], k[2]>> = <<job.packet, job.token>>
            BY <1>0, <2>1 DEF OR!Held
        <3> QED
            BY <3>1
    <2>2. CASE job.token # 0
        BY <1>2, <2>2 DEF ReplyInv, ReplyOwnToken
    <2> QED
        BY <2>1, <2>2
<1> HIDE DEF OR!Here, m
<1>3. \A k \in OR!Keys : receipt'[k] = IF k = OR!Here THEN "imported" ELSE receipt[k]
    BY <1>0, <1>1 DEF ReplyInv, ReplyTyped
<1>5. ReplyTyped'
    <2>1. receipt' \in [OR!Keys -> OR!Outcomes]
        BY <1>0, <1>1 DEF ReplyInv, ReplyTyped, OR!Outcomes
    <2>2. ~(job.token > tokens)
        BY <1>1 DEF ReplyJobs, ReplyInv, ReplyTyped
    <2>3. \A k \in OR!Keys : k[2] > tokens' => receipt'[k] = "none"
        BY <1>0, <1>1, <1>3, <2>2 DEF ReplyInv, ReplyTyped
    <2>4. posts' \in [OR!Members -> Nat]
        BY <1>0, <1>1 DEF ReplyInv, ReplyTyped
    <2> QED
        BY <1>0, <1>2, <2>1, <2>3, <2>4 DEF ReplyInv, ReplyTyped, ReplyJobs, OR!Busy
<1>6. ReplyFromOnePacket'
    BY <1>1, <1>3, <1>9 DEF ReplyInv, ReplyFromOnePacket, OR!MemberOf, m
<1>7. ReplyOwnToken'
    BY <1>1, <1>2, <1>3 DEF ReplyInv, ReplyOwnToken
<1>8. OR!PostsHaveReceipts'
    <2> SUFFICES ASSUME NEW n \in OR!Members PROVE posts'[n] = Cardinality(OR!Imported(n)')
        BY ReplyCounts DEF OR!PostsHaveReceipts
    <2>1. posts[n] = Cardinality(OR!Imported(n)) /\ posts[n] \in Nat
        BY ReplyCounts DEF ReplyInv, OR!PostsHaveReceipts, ReplyTyped
    <2>2. CASE n # m
        <3>1. posts'[n] = posts[n]
            BY <1>0, <1>1, <2>2 DEF ReplyInv, ReplyTyped
        <3>2. OR!Imported(n)' = OR!Imported(n)
            BY <1>1, <1>3, <2>2 DEF OR!Imported, OR!MemberOf, m
        <3> QED
            BY <2>1, <3>1, <3>2
    <2>3. CASE n = m
        <3>1. posts'[n] = posts[n] + 1
            BY <1>0, <1>1, <2>3 DEF ReplyInv, ReplyTyped
        <3>2. OR!Imported(n)' = OR!Imported(n) \cup {OR!Here}
            BY <1>1, <1>3, <2>3 DEF OR!Imported, OR!MemberOf, m
        <3>3. OR!Here \notin OR!Imported(n)
            BY <1>0 DEF OR!Imported
        <3>4. IsFiniteSet(OR!Imported(n))
            BY ReplyImportedIsFinite
        <3>5. Cardinality(OR!Imported(n) \cup {OR!Here}) = Cardinality(OR!Imported(n)) + 1
            BY <3>3, <3>4, FS_AddElement
        <3> QED
            BY <2>1, <3>1, <3>2, <3>5
    <2> QED
        BY <2>2, <2>3
<1> QED
    BY <1>5, <1>6, <1>7, <1>8 DEF ReplyInv

LEMMA ReplyInvNext == ASSUME OR!RepliesAssumption, ReplyInv, [OR!Next]_(OR!vars) PROVE ReplyInv'
<1>1. CASE UNCHANGED OR!vars
    <2>1. /\ UNCHANGED <<receipt, posts>> /\ online' = online /\ allowed' = allowed
          /\ replyChanges' = replyChanges /\ replyFaults' = replyFaults /\ tokens' = tokens /\ job' = job
        BY <1>1 DEF OR!vars
    <2>2. online' \in BOOLEAN /\ allowed' \in BOOLEAN /\ replyChanges' \in 0..ReplyChanges /\ replyFaults' \in 0..ReplyFaults
        BY <2>1 DEF ReplyInv, ReplyTyped
    <2> QED
        BY <2>1, <2>2, ReplyQuietStep
<1>2. ASSUME NEW p \in OR!Packets, OR!Upload(p) \/ OR!Submit(p) PROVE ReplyInv'
    BY <1>2, ReplyUploadStep, ReplySubmitStep
<1>3. CASE OR!Skip
    BY <1>3, ReplySkipStep
<1>4. CASE OR!Hold \/ OR!Control \/ OR!Reject \/ OR!RejectUnanswered
    <2>1. OR!Fresh /\ UNCHANGED <<posts, online, allowed, tokens, replyChanges, replyFaults>>
        BY <1>4 DEF OR!Hold, OR!Control, OR!Reject, OR!RejectUnanswered
    <2>2. OR!Record("possible-duplicate") \/ OR!Record("control") \/ OR!Record("rejected")
        BY <1>4 DEF OR!Hold, OR!Control, OR!Reject, OR!RejectUnanswered
    <2>3. {"possible-duplicate", "control", "rejected"} \subseteq OR!Outcomes \ {"none", "imported"}
        BY DEF OR!Outcomes
    <2> QED
        BY <2>1, <2>2, <2>3, ReplyAnswerStep
<1>5. CASE OR!Import
    BY <1>5, ReplyImportStep
<1>6. CASE OR!Finished \/ OR!Interrupt \/ OR!Disconnect \/ OR!Call \/ OR!Allow
    <2>1. UNCHANGED <<receipt, posts>> /\ tokens' = tokens /\ (job' = OR!NoJob \/ job' = job)
        BY <1>6 DEF OR!Finished, OR!Interrupt, OR!Disconnect, OR!Call, OR!Allow
    <2>2. online' \in BOOLEAN /\ allowed' \in BOOLEAN
        BY <1>6 DEF OR!Finished, OR!Interrupt, OR!Disconnect, OR!Call, OR!Allow, ReplyInv, ReplyTyped
    <2>3. replyChanges' \in 0..ReplyChanges /\ replyFaults' \in 0..ReplyFaults
        BY <1>6 DEF OR!Finished, OR!Interrupt, OR!Disconnect, OR!Call, OR!Allow, ReplyInv, ReplyTyped, OR!RepliesAssumption
    <2> QED
        BY <2>1, <2>2, <2>3, ReplyQuietStep
<1> QED
    BY <1>1, <1>2, <1>3, <1>4, <1>5, <1>6 DEF OR!Next, OR!Step

LEMMA ReplyInitInv == ASSUME OR!RepliesAssumption, OR!Init PROVE ReplyInv
<1>1. ReplyTyped
    BY DEF OR!Init, ReplyTyped, OR!Outcomes, OR!Busy, OR!RepliesAssumption
<1>2. ReplyFromOnePacket /\ ReplyOwnToken
    BY DEF OR!Init, ReplyFromOnePacket, ReplyOwnToken, OR!Busy
<1>3. OR!PostsHaveReceipts
    <2>1. \A m \in OR!Members : OR!Imported(m) = {} /\ posts[m] = 0
        BY DEF OR!Init, OR!Imported
    <2> QED
        BY <2>1, ReplyCounts, FS_EmptySet DEF OR!PostsHaveReceipts
<1> QED
    BY <1>1, <1>2, <1>3 DEF ReplyInv

\* The inductive invariant holds of every run, for any packets, members and bounds.
THEOREM RepliesInvariant == OR!RepliesAssumption => (OR!Spec => []ReplyInv)
<1> SUFFICES ASSUME OR!RepliesAssumption PROVE OR!Spec => []ReplyInv
    OBVIOUS
<1>1. OR!Init => ReplyInv
    BY ReplyInitInv
<1>2. ReplyInv /\ [OR!Next]_(OR!vars) => ReplyInv'
    BY ReplyInvNext
<1> QED
    BY <1>1, <1>2, PTL DEF OR!Spec

\* A member is posted once, and once for each new submission, because its imports have
\* different tokens: where no packet holds a record twice.
LEMMA ReplyPostedOncePerToken ==
    ASSUME OR!RepliesAssumption, ReplyDistinctMembers, ReplyInv
    PROVE  OR!RetryPostsOnce
<1> SUFFICES ASSUME NEW m \in OR!Members
             PROVE  posts[m] <= 1 + Cardinality({t \in 1..MaxNew : \E k \in OR!Imported(m) : k[2] = t})
    BY ReplyCounts DEF OR!RetryPostsOnce
<1> DEFINE I == OR!Imported(m)
           T == {t \in 1..MaxNew : \E k \in I : k[2] = t}
           f == [k \in I |-> k[2]]
<1>1. MaxNew \in Nat
    BY DEF OR!RepliesAssumption
<1>2. IsFiniteSet(T) /\ Cardinality(T) \in Nat
    <2>1. IsFiniteSet(1..MaxNew)
        BY <1>1, FS_Interval
    <2>2. IsFiniteSet(T)
        BY <2>1, FS_Subset
    <2> QED
        BY <2>2, FS_CardinalityType
<1>3. \A k \in I : k[2] \in T \cup {0}
    BY <1>1, ReplyKeyParts DEF OR!Imported
<1>4. \A j, k \in I : j[2] = k[2] => j = k
    <2> SUFFICES ASSUME NEW j \in I, NEW k \in I, j[2] = k[2] PROVE j = k
        OBVIOUS
    <2>1. j \in OR!Keys /\ k \in OR!Keys /\ receipt[j] = "imported" /\ receipt[k] = "imported"
          /\ OR!MemberOf(j) = m /\ OR!MemberOf(k) = m
        BY DEF OR!Imported
    <2>2. j[1] = k[1]
        BY <2>1 DEF ReplyInv, ReplyFromOnePacket
    <2>3. j[1] \in OR!Packets /\ j[3] \in DOMAIN Content[j[1]] /\ k[3] \in DOMAIN Content[j[1]]
        BY <2>1, <2>2, ReplyKeyParts DEF OR!RepliesAssumption
    <2>4. j[3] = k[3]
        BY <2>1, <2>2, <2>3 DEF ReplyDistinctMembers, OR!MemberOf
    <2> QED
        BY <2>1, <2>2, <2>4, ReplyKeyParts
<1>5. f \in Injection(I, T \cup {0})
    BY <1>3, <1>4 DEF Injection, IsInjective
<1>6. IsFiniteSet(T \cup {0}) /\ Cardinality(T \cup {0}) = Cardinality(T) + 1
    <2>1. 0 \notin T
        OBVIOUS
    <2> HIDE DEF T
    <2> QED
        BY <1>2, <2>1, FS_AddElement
<1> HIDE DEF T, f, I
<1>7. Cardinality(I) <= Cardinality(T \cup {0})
    BY <1>5, <1>6, FS_Injection
<1>8. posts[m] = Cardinality(I)
    BY ReplyCounts DEF ReplyInv, OR!PostsHaveReceipts, I
<1>9. posts[m] <= 1 + Cardinality(T)
    BY <1>2, <1>6, <1>7, <1>8
<1> QED
    BY <1>9 DEF T, I

\* Every receipt has a packet, a token and a member, and the running import is one of
\* them.
THEOREM ReplyTypeCorrect == OR!RepliesAssumption => (OR!Spec => []OR!TypeOK)
<1>1. ReplyInv => OR!TypeOK
    BY DEF ReplyInv, ReplyTyped, OR!TypeOK, ReplyJobs
<1> QED
    BY <1>1, RepliesInvariant, PTL

\* A native message is posted with its receipt or not at all, through any crashes, failed
\* statements and lost callers (import_offline_replies_reviewed).
THEOREM PostsHaveReceiptsHolds == OR!RepliesAssumption => (OR!Spec => []OR!PostsHaveReceipts)
<1>1. ReplyInv => OR!PostsHaveReceipts
    BY DEF ReplyInv
<1> QED
    BY <1>1, RepliesInvariant, PTL

\* A packet that is sent again, alone or with others that repeat its members, posts no
\* member twice without a new submission (import_offline_replies_reviewed, duplicate).
THEOREM RetryPostsOnceHolds == (OR!RepliesAssumption /\ ReplyDistinctMembers) => (OR!Spec => []OR!RetryPostsOnce)
<1> SUFFICES ASSUME OR!RepliesAssumption, ReplyDistinctMembers PROVE OR!Spec => []OR!RetryPostsOnce
    OBVIOUS
<1>1. ReplyInv => OR!RetryPostsOnce
    BY ReplyPostedOncePerToken
<1> QED
    BY <1>1, RepliesInvariant, PTL

-----------------------------------------------------------------------------
(***************************************************************************)
(* Proofs about FtnMail, for any boards, links, mails and bounds.          *)
(*                                                                         *)
(* An identity is one mail's: a board that is not held has given out only  *)
(* smaller serials than its next one, and a board that was restored stays  *)
(* held until its serials are beyond what the replaced root had.  Where no *)
(* board is restored, a mail also has one identity, that of its author's   *)
(* board, so that its copies are recognized wherever they come from; and   *)
(* what a packet or a publication lists as seen is in place or in a queue. *)
(***************************************************************************)
CONSTANTS Boards, Points, Node, Peers, Mails, Echo, From, To, Route, Transit, MaxLost,
    MaxChanges, MaxRescans, FtnRestores
VARIABLES native, pub, receipts, ftnQueue, subs, serial, hold, ftnCopy, evidence,
    ftnCount
FM == INSTANCE FtnMail WITH MaxRestores <- FtnRestores, queue <- ftnQueue,
    copy <- ftnCopy, count <- ftnCount

\* The instance counts as the standard module does.
LEMMA FtnCounts == \A S : FM!Cardinality(S) = Cardinality(S) /\ (FM!IsFiniteSet(S) <=> IsFiniteSet(S))
BY DEF FM!Cardinality, Cardinality, FM!IsFiniteSet, IsFiniteSet

FtnPlaces == Boards \cup {Node[b] : b \in Boards}
FtnKeys == {"normal", "rescan"}
FtnIdentity == Boards \X Nat
FtnArtifacts == {<<b, m, k, n>> : b \in Boards, m \in Mails, k \in FtnKeys, n \in Nat}
FtnOutcomes == {"imported", "duplicate", "loop", "denied", "conflict", "routing"}
FtnEvents == {"lost", "change", "rescan", "restore"}
FtnPacket == [mail : Mails, ident : FtnIdentity, artifact : FtnArtifacts, seen : SUBSET FtnPlaces,
           path : SUBSET FtnPlaces, marked : BOOLEAN]
FtnItems == [at : Boards, to : Boards, mail : Mails, key : FtnKeys,
          state : {"pending", "ready", "held", "accepted"}, packet : FtnPacket \cup {FM!NoPacket}]
FtnPublications == [mail : Mails, ident : FtnIdentity, ingress : Boards, seen : SUBSET FtnPlaces,
                 path : SUBSET FtnPlaces, marked : BOOLEAN]
FtnReceipts == [link : Boards, artifact : FtnArtifacts, outcome : FtnOutcomes]
FtnCopies == [native : SUBSET Mails, pub : SUBSET FtnPublications, receipts : SUBSET FtnReceipts,
           subs : SUBSET Boards, serial : Nat \ {0}, items : SUBSET FtnItems]
FtnEvidence == [serial : Nat, accepted : SUBSET FtnItems, held : BOOLEAN]

\* A queue row is for a link of its board, and its packet is about its mail.
FtnItemFits(i) ==
    /\ i \in FtnItems /\ i.to \in Peers[i.at]
    /\ i.packet # FM!NoPacket =>
          i.packet \in FtnPacket /\ i.packet.mail = i.mail /\ i.packet.artifact[2] = i.mail
    /\ i.state = "ready" => i.packet # FM!NoPacket
FtnFits(Q) == \A i \in Q : FtnItemFits(i)
FtnWritten(b) == {m \in Mails : From[m] = b}
FtnCopyFits(b) == ftnCopy[b] # FM!NoCopy =>
    /\ ftnCopy[b] \in FtnCopies /\ FtnFits(ftnCopy[b].items)
    /\ ftnCopy[b].native \subseteq FtnWritten(b) /\ ftnCopy[b].subs \subseteq Peers[b]

FtnBoardTyped ==
    /\ native \in [Boards -> SUBSET Mails] /\ \A b \in Boards : native[b] \subseteq FtnWritten(b)
    /\ pub \in [Boards -> SUBSET FtnPublications]
    /\ receipts \in [Boards -> SUBSET FtnReceipts]
    /\ subs \in [Boards -> SUBSET Boards] /\ \A b \in Boards : subs[b] \subseteq Peers[b]
    /\ serial \in [Boards -> Nat \ {0}]
FtnRestTyped ==
    /\ hold \in [Boards -> BOOLEAN] /\ evidence \in [Boards -> FtnEvidence]
    /\ ftnCount \in [FtnEvents -> Nat]
FtnCopyTyped == DOMAIN ftnCopy = Boards /\ (ftnCopy = [b \in Boards |-> ftnCopy[b]]) /\ \A b \in Boards : FtnCopyFits(b)
FtnTyped == FtnBoardTyped /\ FtnFits(ftnQueue) /\ FtnRestTyped /\ FtnCopyTyped

-----------------------------------------------------------------------------
(* Types.                                                                     *)

\* A count stays a count.
LEMMA FtnCountTyped ==
    ASSUME FtnRestTyped, NEW e \in FtnEvents, FM!Happens(e) PROVE ftnCount' \in [FtnEvents -> Nat]
BY DEF FtnRestTyped, FM!Happens, FtnEvents

\* A new row fits its queue.
LEMMA FtnNewItemFits ==
    ASSUME FM!FtnAssumption, NEW b \in Boards, NEW n \in Peers[b], NEW m \in Mails, NEW k \in FtnKeys
    PROVE  FtnItemFits(FM!Item(b, n, m, k))
<1>1. n \in Boards
    BY DEF FM!FtnAssumption, FM!PeersAssumption
<1>2. FM!Item(b, n, m, k) \in FtnItems
    BY <1>1 DEF FM!Item, FtnItems
<1> QED
    BY <1>2 DEF FM!Item, FtnItemFits

\* Its state may change, to ready only with a packet.
LEMMA FtnStateFits ==
    ASSUME NEW i, FtnItemFits(i), NEW x \in {"pending", "ready", "held", "accepted"},
           x = "ready" => i.packet # FM!NoPacket
    PROVE  /\ FtnItemFits([i EXCEPT !.state = x])
           /\ [i EXCEPT !.state = x].packet = i.packet
           /\ [i EXCEPT !.state = x].at = i.at
           /\ [i EXCEPT !.state = x].to = i.to
           /\ [i EXCEPT !.state = x].mail = i.mail
           /\ [i EXCEPT !.state = x].key = i.key
           /\ [i EXCEPT !.state = x].state = x
BY DEF FtnItemFits, FtnItems

\* Where an echo and where NetMail goes.
LEMMA FtnTargetsAreLinked ==
    ASSUME FM!FtnAssumption, FtnTyped, NEW b \in Boards, NEW m \in Mails
    PROVE  /\ \A seen, path, ingress : FM!EchoTargets(b, m, seen, path, ingress) \subseteq Peers[b]
           /\ m \notin Echo /\ (b = To[m] \/ Route[b][To[m]] # b) => FM!NetTargets(b, m) \subseteq Peers[b]
<1>1. subs[b] \subseteq Peers[b]
    BY DEF FtnTyped, FtnBoardTyped
<1>2. m \notin Echo => Route[b][To[m]] \in Peers[b] \cup {b}
    BY DEF FM!FtnAssumption, FM!MailsAssumption
<1> QED
    BY <1>1, <1>2 DEF FM!EchoTargets, FM!NetTargets

LEMMA FtnCopyKept == ASSUME FtnCopyTyped, UNCHANGED ftnCopy PROVE FtnCopyTyped'
BY DEF FtnCopyTyped, FtnCopyFits, FtnFits, FtnItemFits

LEMMA FtnPostTyped == ASSUME FM!FtnAssumption, FtnTyped, NEW m \in Mails, FM!Post(m) PROVE FtnTyped'
<1>1. From[m] \in Boards
    BY DEF FM!FtnAssumption, FM!MailsAssumption
<1>2. FtnBoardTyped'
    BY <1>1 DEF FM!Post, FtnTyped, FtnBoardTyped, FtnWritten
<1> QED
    BY <1>2, FtnCopyKept DEF FM!Post, FtnTyped, FtnFits, FtnRestTyped

\* A publication of a board's own.
LEMMA FtnOwnPublication ==
    ASSUME NEW b \in Boards, NEW m \in Mails, NEW k \in Nat
    PROVE  /\ FM!Publication(m, <<b, k>>, b, {}, {}, FALSE) \in FtnPublications
           /\ FM!Publication(m, <<b, k>>, b, {}, {}, FALSE).mail = m
           /\ FM!Publication(m, <<b, k>>, b, {}, {}, FALSE).ident = <<b, k>>
           /\ FM!Publication(m, <<b, k>>, b, {}, {}, FALSE).ingress = b
           /\ FM!Publication(m, <<b, k>>, b, {}, {}, FALSE).seen = {}
           /\ FM!Publication(m, <<b, k>>, b, {}, {}, FALSE).path = {}
BY DEF FM!Publication, FtnPublications, FtnIdentity

\* The messages a scan publishes, and the serials it draws.
LEMMA FtnFreshIsFinite ==
    ASSUME FM!FtnAssumption, FtnTyped, NEW b \in Boards
    PROVE  LET fresh == {m \in native[b] \cap Echo : ~FM!Published(b, m)}
           IN  fresh \subseteq Mails /\ Cardinality(fresh) \in Nat
<1> DEFINE fresh == {m \in native[b] \cap Echo : ~FM!Published(b, m)}
<1>1. fresh \subseteq Mails /\ IsFiniteSet(Mails)
    BY FtnCounts DEF FM!FtnAssumption, FM!MailsAssumption
<1> HIDE DEF fresh
<1>2. Cardinality(fresh) \in Nat
    BY <1>1, FS_Subset, FS_CardinalityType
<1> QED
    BY <1>1, <1>2 DEF fresh

LEMMA FtnScanTyped == ASSUME FM!FtnAssumption, FtnTyped, NEW b \in Boards, FM!Scan(b) PROVE FtnTyped'
<1> DEFINE fresh == {m \in native[b] \cap Echo : ~FM!Published(b, m)}
<1>1. fresh \subseteq Mails /\ Cardinality(fresh) \in Nat
    BY FtnFreshIsFinite
<1>2. PICK number \in [fresh -> serial[b] .. serial[b] + Cardinality(fresh) - 1] :
          pub' = [pub EXCEPT ![b] = @ \cup
                    {FM!Publication(m, <<b, number[m]>>, b, {}, {}, FALSE) : m \in fresh}]
    BY FtnCounts DEF FM!Scan
<1>3. /\ serial' = [serial EXCEPT ![b] = @ + Cardinality(fresh)]
      /\ ftnQueue' = ftnQueue \cup UNION
              {{FM!Item(b, n, m, "normal") : n \in FM!EchoTargets(b, m, {}, {}, b)} : m \in fresh}
      /\ UNCHANGED <<native, receipts, subs, hold, ftnCopy, evidence, ftnCount>>
    BY FtnCounts DEF FM!Scan
<1> HIDE DEF fresh
<1>4. serial[b] \in Nat \ {0}
    BY DEF FtnTyped, FtnBoardTyped
<1>5. \A m \in fresh : FM!Publication(m, <<b, number[m]>>, b, {}, {}, FALSE) \in FtnPublications
  <2>1. ASSUME NEW m \in fresh PROVE number[m] \in Nat /\ m \in Mails
      BY <1>1, <1>2, <1>4
  <2> QED
      BY <2>1, FtnOwnPublication
<1>6. pub' \in [Boards -> SUBSET FtnPublications]
    BY <1>2, <1>5 DEF FtnTyped, FtnBoardTyped
<1>7. serial' \in [Boards -> Nat \ {0}]
    BY <1>1, <1>3, <1>4 DEF FtnTyped, FtnBoardTyped
<1>8. FtnFits(ftnQueue')
  <2>1. \A m \in fresh : \A n \in FM!EchoTargets(b, m, {}, {}, b) : n \in Peers[b]
      BY <1>1, FtnTargetsAreLinked
  <2>2. \A m \in fresh : \A n \in FM!EchoTargets(b, m, {}, {}, b) : FtnItemFits(FM!Item(b, n, m, "normal"))
      BY <1>1, <2>1, FtnNewItemFits DEF FtnKeys
  <2> QED
      BY <1>3, <2>2 DEF FtnTyped, FtnFits
<1>9. FtnBoardTyped'
    BY <1>3, <1>6, <1>7 DEF FtnTyped, FtnBoardTyped
<1> QED
    BY <1>3, <1>8, <1>9, FtnCopyKept DEF FtnTyped, FtnFits, FtnRestTyped

LEMMA FtnSendMailTyped == ASSUME FM!FtnAssumption, FtnTyped, NEW m \in Mails, FM!SendMail(m) PROVE FtnTyped'
<1> DEFINE b == From[m]
<1>1. b \in Boards /\ serial[b] \in Nat \ {0}
    BY DEF FtnTyped, FtnBoardTyped, FM!FtnAssumption, FM!MailsAssumption
<1>2. /\ m \notin Echo /\ b # To[m] /\ Route[b][To[m]] # b
      /\ native' = [native EXCEPT ![b] = @ \cup {m}]
      /\ pub' = [pub EXCEPT ![b] = @ \cup {FM!Publication(m, <<b, serial[b]>>, b, {}, {}, FALSE)}]
      /\ serial' = [serial EXCEPT ![b] = @ + 1]
      /\ ftnQueue' = ftnQueue \cup {FM!Item(b, n, m, "normal") : n \in FM!NetTargets(b, m)}
      /\ UNCHANGED <<receipts, subs, hold, ftnCopy, evidence, ftnCount>>
    BY DEF FM!SendMail
<1>3. b = From[m]
    OBVIOUS
<1> HIDE DEF b
<1>4. FM!Publication(m, <<b, serial[b]>>, b, {}, {}, FALSE) \in FtnPublications
    BY <1>1, FtnOwnPublication
<1>5. pub' \in [Boards -> SUBSET FtnPublications]
    BY <1>2, <1>4 DEF FtnTyped, FtnBoardTyped
<1>6. native' \in [Boards -> SUBSET Mails] /\ \A c \in Boards : native'[c] \subseteq FtnWritten(c)
    BY <1>1, <1>2, <1>3 DEF FtnTyped, FtnBoardTyped, FtnWritten
<1>7. serial' \in [Boards -> Nat \ {0}]
    BY <1>1, <1>2 DEF FtnTyped, FtnBoardTyped
<1>8. FtnFits(ftnQueue')
  <2>1. FM!NetTargets(b, m) \subseteq Peers[b]
      BY <1>1, <1>2, FtnTargetsAreLinked
  <2>2. \A n \in FM!NetTargets(b, m) : FtnItemFits(FM!Item(b, n, m, "normal"))
      BY <1>1, <2>1, FtnNewItemFits DEF FtnKeys
  <2> QED
      BY <1>2, <2>2 DEF FtnTyped, FtnFits
<1>9. FtnBoardTyped'
    BY <1>2, <1>5, <1>6, <1>7 DEF FtnTyped, FtnBoardTyped
<1> QED
    BY <1>2, <1>8, <1>9, FtnCopyKept DEF FtnTyped, FtnFits, FtnRestTyped

\* What a packet is built from.
LEMMA FtnPackedFits ==
    ASSUME FM!FtnAssumption, FtnTyped, NEW i \in ftnQueue, NEW p \in pub[i.at], p.mail = i.mail
    PROVE  /\ FM!Packed(i, p) \in FtnPacket /\ FM!Packed(i, p).mail = i.mail
           /\ FM!Packed(i, p).artifact[2] = i.mail /\ FM!Packed(i, p).ident = p.ident
           /\ FM!Packed(i, p) # FM!NoPacket
<1>1. FtnItemFits(i) /\ i \in FtnItems
    BY DEF FtnTyped, FtnFits, FtnItemFits
<1>2. i.at \in Boards /\ i.mail \in Mails /\ i.key \in FtnKeys
    BY <1>1 DEF FtnItems
<1>3. p \in FtnPublications
    BY <1>2 DEF FtnTyped, FtnBoardTyped
<1>4. p.ident \in FtnIdentity /\ p.seen \subseteq FtnPlaces /\ p.path \subseteq FtnPlaces /\ p.marked \in BOOLEAN
    BY <1>3 DEF FtnPublications
<1> DEFINE targets == {j \in ftnQueue : j.at = i.at /\ j.mail = i.mail /\ j.key = i.key}
           nodes == {Node[j.to] : j \in {k \in targets : k.to \notin Points}}
           seen == p.seen \cup FM!Own(i.at) \cup nodes
           listed == IF i.mail \notin Echo THEN {} ELSE IF seen = {} THEN {Node[i.at]} ELSE seen
           passed == IF i.mail \in Echo THEN p.path \cup FM!Own(i.at) ELSE p.path \cup {i.at}
           name == <<i.at, i.mail, i.key, ftnCount["restore"]>>
           marked == i.key = "rescan" \/ p.marked
<1>5. FM!Packed(i, p) = [mail |-> i.mail, ident |-> p.ident, artifact |-> name, seen |-> listed,
                      path |-> passed, marked |-> marked]
    BY DEF FM!Packed
<1>6. \A j \in ftnQueue : j.to \in Boards
    BY DEF FtnTyped, FtnFits, FtnItemFits, FtnItems
<1>7. FM!Own(i.at) \subseteq FtnPlaces /\ nodes \subseteq FtnPlaces /\ {Node[i.at]} \subseteq FtnPlaces
    BY <1>2, <1>6 DEF FM!Own, FtnPlaces
<1>8. listed \subseteq FtnPlaces /\ passed \subseteq FtnPlaces
    BY <1>2, <1>4, <1>7 DEF FtnPlaces
<1>9. ftnCount["restore"] \in Nat
    BY DEF FtnTyped, FtnRestTyped, FtnEvents
<1>10. name \in FtnArtifacts /\ name[2] = i.mail
    BY <1>2, <1>9 DEF FtnArtifacts
<1>11. marked \in BOOLEAN
    BY <1>4
<1> HIDE DEF listed, passed, name, marked
<1>12. FM!Packed(i, p) \in FtnPacket
    BY <1>2, <1>4, <1>5, <1>8, <1>10, <1>11 DEF FtnPacket
<1>13. DOMAIN FM!Packed(i, p) # DOMAIN FM!NoPacket
    BY <1>5 DEF FM!NoPacket
<1> QED
    BY <1>5, <1>10, <1>12, <1>13

\* A row that is built is held or ready.
LEMMA FtnBuiltFits ==
    ASSUME FM!FtnAssumption, FtnTyped, NEW i \in ftnQueue, NEW p \in pub[i.at], p.mail = i.mail
    PROVE  LET j == [i EXCEPT !.state = "ready", !.packet = FM!Packed(i, p)]
           IN  /\ FtnItemFits(j) /\ j.packet = FM!Packed(i, p) /\ j.at = i.at /\ j.to = i.to
               /\ j.mail = i.mail /\ j.key = i.key /\ j.state = "ready"
<1>1. FtnItemFits(i)
    BY DEF FtnTyped, FtnFits
<1>2. /\ FM!Packed(i, p) \in FtnPacket /\ FM!Packed(i, p).mail = i.mail
      /\ FM!Packed(i, p).artifact[2] = i.mail /\ FM!Packed(i, p) # FM!NoPacket
    BY FtnPackedFits
<1> DEFINE k == FM!Packed(i, p)
<1> HIDE DEF k
<1> QED
    BY <1>1, <1>2 DEF FtnItemFits, FtnItems, k

LEMMA FtnBuildTyped == ASSUME FM!FtnAssumption, FtnTyped, NEW i \in ftnQueue, FM!Build(i) PROVE FtnTyped'
<1>1. PICK p \in pub[i.at] :
          /\ p.mail = i.mail
          /\ ftnQueue' = (ftnQueue \ {i}) \cup
                {IF i.mail \in Echo /\ i.to \notin subs[i.at]
                 THEN [i EXCEPT !.state = "held"]
                 ELSE [i EXCEPT !.state = "ready", !.packet = FM!Packed(i, p)]}
    BY DEF FM!Build
<1>2. UNCHANGED <<native, pub, receipts, subs, serial, hold, ftnCopy, evidence, ftnCount>>
    BY DEF FM!Build, FM!board
<1>3. FtnItemFits(i)
    BY DEF FtnTyped, FtnFits
<1>4. FtnItemFits([i EXCEPT !.state = "held"])
    BY <1>3, FtnStateFits
<1>5. FtnItemFits([i EXCEPT !.state = "ready", !.packet = FM!Packed(i, p)])
    BY <1>1, FtnBuiltFits
<1>6. FtnFits(ftnQueue')
    BY <1>1, <1>4, <1>5 DEF FtnTyped, FtnFits
<1> QED
    BY <1>2, <1>6, FtnCopyKept DEF FtnTyped, FtnBoardTyped, FtnFits, FtnRestTyped

\* A packet that is ready, as what its receiver gets.
LEMMA FtnReadyPacket ==
    ASSUME FM!FtnAssumption, FtnTyped, NEW i \in ftnQueue, i.state = "ready"
    PROVE  /\ i \in FtnItems /\ i.packet \in FtnPacket /\ i.packet.mail = i.mail /\ i.mail \in Mails
           /\ i.packet.artifact[2] = i.mail /\ i.packet # FM!NoPacket
           /\ i.at \in Boards /\ i.to \in Boards /\ i.to \in Peers[i.at] /\ i.at \in Peers[i.to]
           /\ i.at # i.to
<1>1. FtnItemFits(i)
    BY DEF FtnTyped, FtnFits
<1>2. i.at \in Boards /\ i.to \in Boards /\ i.to \in Peers[i.at] /\ i.mail \in Mails
    BY <1>1 DEF FtnItemFits, FtnItems
<1> QED
    BY <1>1, <1>2 DEF FtnItemFits, FM!FtnAssumption, FM!PeersAssumption

\* What a toss adds.
LEMMA FtnImportedPublication ==
    ASSUME NEW p \in FtnPacket, NEW b \in Boards
    PROVE  LET q == FM!Publication(p.mail, p.ident, b, p.seen, p.path, p.marked)
           IN  /\ q \in FtnPublications /\ q.mail = p.mail /\ q.ident = p.ident /\ q.ingress = b
               /\ q.seen = p.seen /\ q.path = p.path
BY DEF FM!Publication, FtnPublications, FtnPacket

FtnGoes(n, b, p) ==
    IF p.mail \in Echo
    THEN IF p.marked THEN {} ELSE FM!EchoTargets(n, p.mail, p.seen, p.path, b)
    ELSE FM!NetTargets(n, p.mail)

\* The three ways a toss goes.
LEMMA FtnTossWays ==
    ASSUME NEW n, NEW b, NEW p, NEW items, FM!Toss(n, b, p, items)
    PROVE  \/ /\ \E r \in receipts[n] : r.link = b /\ r.artifact = p.artifact
              /\ UNCHANGED <<pub, receipts>> /\ ftnQueue' = items
           \/ /\ FM!Outcome(n, b, p) # "imported"
              /\ receipts' = [receipts EXCEPT ![n] = @ \cup
                    {[link |-> b, artifact |-> p.artifact, outcome |-> FM!Outcome(n, b, p)]}]
              /\ pub' = pub /\ ftnQueue' = items
           \/ /\ FM!Outcome(n, b, p) = "imported"
              /\ receipts' = [receipts EXCEPT ![n] = @ \cup
                    {[link |-> b, artifact |-> p.artifact, outcome |-> "imported"]}]
              /\ pub' = [pub EXCEPT ![n] = @ \cup
                    {FM!Publication(p.mail, p.ident, b, p.seen, p.path, p.marked)}]
              /\ ftnQueue' = items \cup {FM!Item(n, t, p.mail, "normal") : t \in FtnGoes(n, b, p)}
BY DEF FM!Toss, FtnGoes

LEMMA FtnOutcomeTyped == ASSUME NEW n, NEW b, NEW p PROVE FM!Outcome(n, b, p) \in FtnOutcomes
BY DEF FM!Outcome, FtnOutcomes

\* An import goes on over the links of the board.
LEMMA FtnGoesAreLinked ==
    ASSUME FM!FtnAssumption, FtnTyped, NEW n \in Boards, NEW b, NEW p \in FtnPacket,
           FM!Outcome(n, b, p) = "imported"
    PROVE  FtnGoes(n, b, p) \subseteq Peers[n]
<1>1. p.mail \in Mails
    BY DEF FtnPacket
<1>2. p.mail \notin Echo => n = To[p.mail] \/ Route[n][To[p.mail]] # n
    BY DEF FM!Outcome, FM!Routable
<1>3. p.mail \notin Echo => FM!NetTargets(n, p.mail) \subseteq Peers[n]
    BY <1>1, <1>2, FtnTargetsAreLinked
<1>4. FM!EchoTargets(n, p.mail, p.seen, p.path, b) \subseteq Peers[n]
    BY <1>1, FtnTargetsAreLinked
<1> QED
    BY <1>3, <1>4 DEF FtnGoes

LEMMA FtnTossTyped ==
    ASSUME FM!FtnAssumption, FtnTyped, NEW n \in Boards, NEW b \in Boards, NEW p \in FtnPacket,
           NEW items, FtnFits(items), FM!Toss(n, b, p, items)
    PROVE  /\ pub' \in [Boards -> SUBSET FtnPublications]
           /\ receipts' \in [Boards -> SUBSET FtnReceipts] /\ FtnFits(ftnQueue')
<1>1. pub \in [Boards -> SUBSET FtnPublications] /\ receipts \in [Boards -> SUBSET FtnReceipts]
    BY DEF FtnTyped, FtnBoardTyped
<1>2. p.artifact \in FtnArtifacts /\ p.mail \in Mails
    BY DEF FtnPacket
<1>3. \A o \in FtnOutcomes : [link |-> b, artifact |-> p.artifact, outcome |-> o] \in FtnReceipts
    BY <1>2 DEF FtnReceipts
<1>4. CASE UNCHANGED <<pub, receipts>> /\ ftnQueue' = items
    BY <1>1, <1>4 DEF FtnFits
<1>5. ASSUME NEW o \in FtnOutcomes,
             receipts' = [receipts EXCEPT ![n] = @ \cup {[link |-> b, artifact |-> p.artifact, outcome |-> o]}]
      PROVE  receipts' \in [Boards -> SUBSET FtnReceipts]
    BY <1>1, <1>3, <1>5
<1>6. CASE /\ receipts' = [receipts EXCEPT ![n] = @ \cup
                    {[link |-> b, artifact |-> p.artifact, outcome |-> FM!Outcome(n, b, p)]}]
           /\ pub' = pub /\ ftnQueue' = items
    BY <1>1, <1>5, <1>6, FtnOutcomeTyped DEF FtnFits
<1>7. CASE /\ FM!Outcome(n, b, p) = "imported"
           /\ receipts' = [receipts EXCEPT ![n] = @ \cup
                    {[link |-> b, artifact |-> p.artifact, outcome |-> "imported"]}]
           /\ pub' = [pub EXCEPT ![n] = @ \cup
                    {FM!Publication(p.mail, p.ident, b, p.seen, p.path, p.marked)}]
           /\ ftnQueue' = items \cup {FM!Item(n, t, p.mail, "normal") : t \in FtnGoes(n, b, p)}
  <2>1. FM!Publication(p.mail, p.ident, b, p.seen, p.path, p.marked) \in FtnPublications
      BY FtnImportedPublication
  <2>2. pub' \in [Boards -> SUBSET FtnPublications]
      BY <1>1, <1>7, <2>1
  <2>3. "imported" \in FtnOutcomes
      BY DEF FtnOutcomes
  <2>4. receipts' \in [Boards -> SUBSET FtnReceipts]
      BY <1>5, <1>7, <2>3
  <2>5. \A t \in FtnGoes(n, b, p) : FtnItemFits(FM!Item(n, t, p.mail, "normal"))
      BY <1>2, <1>7, FtnGoesAreLinked, FtnNewItemFits DEF FtnKeys
  <2>6. FtnFits(ftnQueue')
      BY <1>7, <2>5 DEF FtnFits
  <2> QED
      BY <2>2, <2>4, <2>6
<1> QED
    BY <1>4, <1>6, <1>7, FtnTossWays

LEMMA FtnTransferTyped == ASSUME FM!FtnAssumption, FtnTyped, NEW i \in ftnQueue, FM!Transfer(i) PROVE FtnTyped'
<1>1. i.state = "ready" /\ UNCHANGED <<native, subs, serial, hold, ftnCopy, evidence>>
    BY DEF FM!Transfer
<1>2. /\ i.packet \in FtnPacket /\ i.at \in Boards /\ i.to \in Boards
    BY <1>1, FtnReadyPacket
<1>3. FtnFits(ftnQueue) /\ FtnFits((ftnQueue \ {i}) \cup {[i EXCEPT !.state = "accepted"]})
    BY FtnStateFits DEF FtnTyped, FtnFits
<1>4. PICK items \in {ftnQueue, (ftnQueue \ {i}) \cup {[i EXCEPT !.state = "accepted"]}} :
          FM!Toss(i.to, i.at, i.packet, items)
    BY DEF FM!Transfer
<1>5. FtnFits(items)
    BY <1>3, <1>4
<1>6. /\ pub' \in [Boards -> SUBSET FtnPublications]
      /\ receipts' \in [Boards -> SUBSET FtnReceipts] /\ FtnFits(ftnQueue')
    BY <1>2, <1>4, <1>5, FtnTossTyped
<1>7. ftnCount' \in [FtnEvents -> Nat]
    BY FtnCountTyped DEF FM!Transfer, FtnTyped, FtnRestTyped, FtnEvents
<1> QED
    BY <1>1, <1>6, <1>7, FtnCopyKept DEF FtnTyped, FtnBoardTyped, FtnRestTyped

LEMMA FtnUnsubscribeTyped ==
    ASSUME FM!FtnAssumption, FtnTyped, NEW b \in Boards, NEW n \in Boards, FM!Unsubscribe(b, n) PROVE FtnTyped'
<1>1. /\ subs' = [subs EXCEPT ![b] = @ \ {n}]
      /\ UNCHANGED <<native, pub, receipts, serial, hold, ftnCopy, evidence>>
      /\ FM!Happens("change")
    BY DEF FM!Unsubscribe
<1>2. PICK claimed \in SUBSET {i \in ftnQueue : i.state = "ready"} :
          ftnQueue' = {IF i.at = b /\ i.to = n /\ i.mail \in Echo /\ i.state \in FM!Unsent
                       /\ i \notin claimed
                    THEN [i EXCEPT !.state = "held"] ELSE i : i \in ftnQueue}
    BY DEF FM!Unsubscribe
<1>3. \A i \in ftnQueue : FtnItemFits(i) /\ FtnItemFits([i EXCEPT !.state = "held"])
    BY FtnStateFits DEF FtnTyped, FtnFits
<1>4. FtnFits(ftnQueue')
    BY <1>2, <1>3 DEF FtnFits
<1>5. ftnCount' \in [FtnEvents -> Nat]
    BY <1>1, FtnCountTyped DEF FtnTyped, FtnEvents
<1> QED
    BY <1>1, <1>4, <1>5, FtnCopyKept DEF FtnTyped, FtnBoardTyped, FtnRestTyped

LEMMA FtnSubscribeTyped ==
    ASSUME FM!FtnAssumption, FtnTyped, NEW b \in Boards, NEW n \in Boards, FM!Subscribe(b, n) PROVE FtnTyped'
<1>1. /\ subs' = [subs EXCEPT ![b] = @ \cup {n}] /\ n \in Peers[b]
      /\ UNCHANGED <<native, pub, receipts, ftnQueue, serial, hold, ftnCopy, evidence>>
      /\ FM!Happens("change")
    BY DEF FM!Subscribe
<1>2. ftnCount' \in [FtnEvents -> Nat]
    BY <1>1, FtnCountTyped DEF FtnTyped, FtnEvents
<1> QED
    BY <1>1, <1>2, FtnCopyKept DEF FtnTyped, FtnBoardTyped, FtnRestTyped, FtnFits

LEMMA FtnReleaseTyped == ASSUME FM!FtnAssumption, FtnTyped, NEW i \in ftnQueue, FM!Release(i) PROVE FtnTyped'
<1>1. /\ ftnQueue' = (ftnQueue \ {i}) \cup
            {[i EXCEPT !.state = IF i.packet = FM!NoPacket THEN "pending" ELSE "ready"]}
      /\ UNCHANGED <<native, pub, receipts, subs, serial, hold, ftnCopy, evidence>>
      /\ FM!Happens("change")
    BY DEF FM!Release, FM!board
<1>2. FtnItemFits([i EXCEPT !.state = IF i.packet = FM!NoPacket THEN "pending" ELSE "ready"])
    BY FtnStateFits DEF FtnTyped, FtnFits
<1>3. FtnFits(ftnQueue')
    BY <1>1, <1>2 DEF FtnTyped, FtnFits
<1>4. ftnCount' \in [FtnEvents -> Nat]
    BY <1>1, FtnCountTyped DEF FtnTyped, FtnEvents
<1> QED
    BY <1>1, <1>3, <1>4, FtnCopyKept DEF FtnTyped, FtnBoardTyped, FtnRestTyped

LEMMA FtnRescanTyped ==
    ASSUME FM!FtnAssumption, FtnTyped, NEW b \in Boards, NEW n \in Boards, FM!Rescan(b, n) PROVE FtnTyped'
<1>1. /\ n \in subs[b]
      /\ ftnQueue' = {i \in ftnQueue : ~(i.at = b /\ i.to = n /\ i.key = "rescan")} \cup
            {FM!Item(b, n, p.mail, "rescan") : p \in {q \in pub[b] : q.mail \in Echo}}
      /\ UNCHANGED <<native, pub, receipts, subs, serial, hold, ftnCopy, evidence>>
      /\ FM!Happens("rescan")
    BY DEF FM!Rescan, FM!board
<1>2. n \in Peers[b] /\ \A p \in pub[b] : p.mail \in Mails
    BY <1>1 DEF FtnTyped, FtnBoardTyped, FtnPublications
<1>3. \A p \in pub[b] : FtnItemFits(FM!Item(b, n, p.mail, "rescan"))
    BY <1>2, FtnNewItemFits DEF FtnKeys
<1>4. FtnFits(ftnQueue')
    BY <1>1, <1>3 DEF FtnTyped, FtnFits
<1>5. ftnCount' \in [FtnEvents -> Nat]
    BY <1>1, FtnCountTyped DEF FtnTyped, FtnEvents
<1> QED
    BY <1>1, <1>4, <1>5, FtnCopyKept DEF FtnTyped, FtnBoardTyped, FtnRestTyped

LEMMA FtnBackupTyped == ASSUME FM!FtnAssumption, FtnTyped, NEW b \in Boards, FM!Backup(b) PROVE FtnTyped'
<1> DEFINE c == [native |-> native[b], pub |-> pub[b], receipts |-> receipts[b], subs |-> subs[b],
                 serial |-> serial[b], items |-> {i \in ftnQueue : i.at = b}]
<1>1. /\ ftnCopy' = [ftnCopy EXCEPT ![b] = c]
      /\ UNCHANGED <<native, pub, receipts, subs, serial, ftnQueue, hold, evidence, ftnCount>>
    BY DEF FM!Backup, FM!board
<1>2. {i \in ftnQueue : i.at = b} \subseteq FtnItems /\ FtnFits({i \in ftnQueue : i.at = b})
    BY DEF FtnTyped, FtnFits, FtnItemFits
<1>3. c \in FtnCopies
    BY <1>2 DEF FtnCopies, FtnTyped, FtnBoardTyped
<1>4. c.items = {i \in ftnQueue : i.at = b} /\ c.native = native[b] /\ c.subs = subs[b]
    OBVIOUS
<1> HIDE DEF c
<1>5. FtnCopyTyped'
  <2>1. DOMAIN ftnCopy' = Boards /\ ftnCopy' = [a \in Boards |-> ftnCopy'[a]]
      BY <1>1 DEF FtnTyped, FtnCopyTyped
  <2>2. ASSUME NEW a \in Boards PROVE FtnCopyFits(a)'
    <3>1. CASE a = b
      <4>1. ftnCopy'[b] = c
          BY <1>1 DEF FtnTyped, FtnCopyTyped
      <4>2. FtnFits(c.items) /\ c.native \subseteq FtnWritten(b) /\ c.subs \subseteq Peers[b]
          BY <1>2, <1>4 DEF FtnTyped, FtnBoardTyped
      <4> QED
          BY <1>3, <3>1, <4>1, <4>2 DEF FtnCopyFits, FtnFits
    <3>2. CASE a # b
      <4>1. ftnCopy'[a] = ftnCopy[a] /\ FtnCopyFits(a)
          BY <1>1, <3>2 DEF FtnTyped, FtnCopyTyped
      <4> QED
          BY <4>1 DEF FtnCopyFits, FtnFits
    <3> QED BY <3>1, <3>2
  <2> QED
      BY <2>1, <2>2 DEF FtnCopyTyped
<1> QED
    BY <1>1, <1>5 DEF FtnTyped, FtnBoardTyped, FtnRestTyped, FtnFits

\* What a restore puts back.
LEMMA FtnRestoredRow ==
    ASSUME NEW i, FtnItemFits(i)
    PROVE  LET j == IF i.state \in FM!Unsent THEN [i EXCEPT !.state = "held"] ELSE i
           IN  FtnItemFits(j) /\ j.packet = i.packet /\ j.at = i.at /\ j.to = i.to /\ j.mail = i.mail
BY FtnStateFits

LEMMA FtnRestoreTyped == ASSUME FM!FtnAssumption, FtnTyped, NEW b \in Boards, FM!Restore(b) PROVE FtnTyped'
<1> DEFINE c == ftnCopy[b]
           items == {i \in ftnQueue : i.at = b}
           back == {IF i.state \in FM!Unsent THEN [i EXCEPT !.state = "held"] ELSE i : i \in c.items}
           e == [serial |-> serial[b], held |-> hold[b], accepted |-> {i \in items : i.state = "accepted"}]
<1>1. /\ c # FM!NoCopy /\ FM!Happens("restore")
      /\ native' = [native EXCEPT ![b] = c.native]
      /\ pub' = [pub EXCEPT ![b] = c.pub]
      /\ receipts' = [receipts EXCEPT ![b] = c.receipts]
      /\ subs' = [subs EXCEPT ![b] = c.subs]
      /\ serial' = [serial EXCEPT ![b] = c.serial]
      /\ ftnQueue' = (ftnQueue \ items) \cup back
      /\ hold' = [hold EXCEPT ![b] = TRUE]
      /\ evidence' = [evidence EXCEPT ![b] = e]
      /\ ftnCopy' = ftnCopy
    BY DEF FM!Restore
<1>2. c \in FtnCopies /\ FtnFits(c.items) /\ c.native \subseteq FtnWritten(b) /\ c.subs \subseteq Peers[b]
    BY <1>1 DEF FtnTyped, FtnCopyTyped, FtnCopyFits
<1>3. /\ c.native \in SUBSET Mails /\ c.pub \in SUBSET FtnPublications /\ c.receipts \in SUBSET FtnReceipts
      /\ c.subs \in SUBSET Boards /\ c.serial \in Nat \ {0}
    BY <1>2 DEF FtnCopies
<1>4. e \in FtnEvidence
    BY DEF FtnEvidence, FtnTyped, FtnBoardTyped, FtnRestTyped, FtnFits, FtnItemFits
<1>5. FtnFits(back)
    BY <1>2, FtnRestoredRow DEF FtnFits
<1> HIDE DEF c, items, back, e
<1>6. FtnFits(ftnQueue')
    BY <1>1, <1>5 DEF FtnTyped, FtnFits
<1>7. FtnBoardTyped'
    BY <1>1, <1>2, <1>3 DEF FtnTyped, FtnBoardTyped
<1>8. ftnCount' \in [FtnEvents -> Nat]
    BY <1>1, FtnCountTyped DEF FtnTyped, FtnEvents
<1>9. FtnRestTyped'
    BY <1>1, <1>4, <1>8 DEF FtnTyped, FtnRestTyped
<1> QED
    BY <1>1, <1>6, <1>7, <1>9, FtnCopyKept DEF FtnTyped

LEMMA FtnReconcileTyped == ASSUME FM!FtnAssumption, FtnTyped, NEW b \in Boards, FM!Reconcile(b) PROVE FtnTyped'
<1> DEFINE e == evidence[b]
<1>1. /\ hold' = [hold EXCEPT ![b] = IF e.serial >= serial[b] THEN e.held ELSE @]
      /\ serial' = [serial EXCEPT ![b] = IF e.serial > @ THEN e.serial ELSE @]
      /\ ftnQueue' = {IF \E a \in e.accepted : [a EXCEPT !.state = i.state] = i
                   THEN [i EXCEPT !.state = "accepted"] ELSE i : i \in ftnQueue}
      /\ UNCHANGED <<native, pub, receipts, subs, ftnCopy, evidence, ftnCount>>
    BY DEF FM!Reconcile
<1>2. e \in FtnEvidence /\ serial[b] \in Nat \ {0}
    BY DEF FtnTyped, FtnRestTyped, FtnBoardTyped
<1>3. e.serial \in Nat /\ e.held \in BOOLEAN
    BY <1>2 DEF FtnEvidence
<1>4. \A i \in ftnQueue : FtnItemFits(i) /\ FtnItemFits([i EXCEPT !.state = "accepted"])
    BY FtnStateFits DEF FtnTyped, FtnFits
<1> HIDE DEF e
<1>5. FtnFits(ftnQueue')
    BY <1>1, <1>4 DEF FtnFits
<1>6. hold' \in [Boards -> BOOLEAN] /\ serial' \in [Boards -> Nat \ {0}]
    BY <1>1, <1>2, <1>3 DEF FtnTyped, FtnRestTyped, FtnBoardTyped
<1> QED
    BY <1>1, <1>5, <1>6, FtnCopyKept DEF FtnTyped, FtnBoardTyped, FtnRestTyped

LEMMA FtnTypedNext == ASSUME FM!FtnAssumption, FtnTyped, [FM!Next]_(FM!vars) PROVE FtnTyped'
<1>1. CASE UNCHANGED FM!vars
    BY <1>1, FtnCopyKept DEF FM!vars, FtnTyped, FtnBoardTyped, FtnRestTyped, FtnFits
<1>2. ASSUME NEW b \in Boards, FM!Scan(b) \/ FM!Backup(b) \/ FM!Restore(b) \/ FM!Reconcile(b) PROVE FtnTyped'
    BY <1>2, FtnScanTyped, FtnBackupTyped, FtnRestoreTyped, FtnReconcileTyped
<1>3. ASSUME NEW i \in ftnQueue, FM!Build(i) \/ FM!Transfer(i) \/ FM!Release(i) PROVE FtnTyped'
    BY <1>3, FtnBuildTyped, FtnTransferTyped, FtnReleaseTyped
<1>4. ASSUME NEW b \in Boards, NEW n \in Boards, FM!Subscribe(b, n) \/ FM!Unsubscribe(b, n) \/ FM!Rescan(b, n)
      PROVE  FtnTyped'
    BY <1>4, FtnSubscribeTyped, FtnUnsubscribeTyped, FtnRescanTyped
<1>5. ASSUME NEW m \in Mails, FM!Post(m) \/ FM!SendMail(m) PROVE FtnTyped'
    BY <1>5, FtnPostTyped, FtnSendMailTyped
<1> QED
    BY <1>1, <1>2, <1>3, <1>4, <1>5 DEF FM!Next

LEMMA FtnTypedInit == ASSUME FM!FtnAssumption, FM!Init PROVE FtnTyped
<1>1. FtnBoardTyped
    BY DEF FM!Init, FtnBoardTyped, FM!FtnAssumption, FM!PeersAssumption, FtnWritten
<1>2. FM!NoEvidence \in FtnEvidence
    BY DEF FM!NoEvidence, FtnEvidence
<1>3. FtnRestTyped
    BY <1>2 DEF FM!Init, FtnRestTyped, FtnEvents
<1> QED
    BY <1>1, <1>3 DEF FM!Init, FtnTyped, FtnFits, FtnCopyTyped, FtnCopyFits

-----------------------------------------------------------------------------
(* Identities.                                                                *)

FtnPubSights(S, x, m) == \E p \in S : p.ident = x /\ p.mail = m
FtnItemSights(Q, x, m) == \E i \in Q : i.packet # FM!NoPacket /\ i.packet.ident = x /\ i.packet.mail = m
FtnCopySights(c, x, m) == c # FM!NoCopy /\ (FtnPubSights(c.pub, x, m) \/ FtnItemSights(c.items, x, m))

\* The mail is known by the identity somewhere: in a publication, in a packet or in the copy
\* of a board.
FtnSighted(x, m) ==
    \/ \E b \in Boards : FtnPubSights(pub[b], x, m)
    \/ FtnItemSights(ftnQueue, x, m)
    \/ \E b \in Boards : FtnCopySights(ftnCopy[b], x, m)

\* An identity is one mail's.
FtnOneMail == \A x, m, n : FtnSighted(x, m) /\ FtnSighted(x, n) => m = n

\* What a board gives out next is new, and so is what it gives out once its serials are
\* reconciled.
FtnSerialsAreNew ==
    \A m : \A b \in Boards, k \in Nat : FtnSighted(<<b, k>>, m) =>
        /\ ~hold[b] => k < serial[b]
        /\ hold[b] /\ ~evidence[b].held => k < evidence[b].serial

FtnNoneConflicts ==
    \A b \in Boards :
        /\ \A r \in receipts[b] : r.outcome # "conflict"
        /\ ftnCopy[b] # FM!NoCopy => \A r \in ftnCopy[b].receipts : r.outcome # "conflict"

FtnIdentityInv == FtnTyped /\ FtnOneMail /\ FtnSerialsAreNew /\ FtnNoneConflicts

\* Rows that come from rows sight nothing new.
LEMMA FtnSameSights ==
    ASSUME NEW Q, NEW R,
           \A j \in R : j.packet = FM!NoPacket \/ \E i \in Q : j.packet = i.packet
    PROVE  \A x, m : FtnItemSights(R, x, m) => FtnItemSights(Q, x, m)
BY DEF FtnItemSights

\* A step that sights nothing new and leaves serials alone.
LEMMA FtnNothingNew ==
    ASSUME FtnIdentityInv, UNCHANGED <<serial, hold, evidence>>,
           \A x, m : FtnSighted(x, m)' => FtnSighted(x, m)
    PROVE  FtnOneMail' /\ FtnSerialsAreNew'
<1>1. serial' = serial /\ hold' = hold /\ evidence' = evidence
    OBVIOUS
<1>2. FtnOneMail /\ FtnSerialsAreNew
    BY DEF FtnIdentityInv
<1>3. FtnOneMail'
    BY <1>2 DEF FtnOneMail
<1>4. FtnSerialsAreNew'
    BY <1>1, <1>2 DEF FtnSerialsAreNew
<1> QED
    BY <1>3, <1>4

\* A step that changes only the queue.
LEMMA FtnQueueSights ==
    ASSUME UNCHANGED <<pub, ftnCopy>>,
           \A j \in ftnQueue' : j.packet = FM!NoPacket \/ \E i \in ftnQueue : j.packet = i.packet
    PROVE  \A x, m : FtnSighted(x, m)' => FtnSighted(x, m)
<1>1. \A x, m : FtnItemSights(ftnQueue', x, m) => FtnItemSights(ftnQueue, x, m)
    BY FtnSameSights
<1>2. pub' = pub /\ ftnCopy' = ftnCopy
    OBVIOUS
<1> QED
    BY <1>1, <1>2 DEF FtnSighted

LEMMA FtnConflictsKept == ASSUME FtnNoneConflicts, UNCHANGED <<receipts, ftnCopy>> PROVE FtnNoneConflicts'
BY DEF FtnNoneConflicts

FtnNothingSighted == \A x, m : FtnSighted(x, m)' => FtnSighted(x, m)
FtnHomeSighted(b) ==
    \A x, m : FtnSighted(x, m)' => FtnSighted(x, m) \/ (From[m] = b /\ FtnPubSights(pub'[b], x, m))

\* A step that changes only states of rows, or adds rows without a packet.
LEMMA FtnQuietStep ==
    ASSUME FtnIdentityInv, UNCHANGED <<pub, receipts, ftnCopy, serial, hold, evidence>>,
           \A j \in ftnQueue' : j.packet = FM!NoPacket \/ \E i \in ftnQueue : j.packet = i.packet
    PROVE  FtnOneMail' /\ FtnSerialsAreNew' /\ FtnNoneConflicts' /\ FtnNothingSighted
<1>1. UNCHANGED <<pub, ftnCopy>> /\ UNCHANGED <<serial, hold, evidence>> /\ UNCHANGED <<receipts, ftnCopy>>
    OBVIOUS
<1>2. \A x, m : FtnSighted(x, m)' => FtnSighted(x, m)
    BY <1>1, FtnQueueSights
<1>3. FtnOneMail' /\ FtnSerialsAreNew'
    BY <1>1, <1>2, FtnNothingNew
<1>4. FtnNoneConflicts'
    BY <1>1, FtnConflictsKept DEF FtnIdentityInv
<1> QED
    BY <1>2, <1>3, <1>4 DEF FtnNothingSighted

\* The rows of the quiet steps.
LEMMA FtnQuietRows ==
    ASSUME FM!FtnAssumption, FtnTyped
    PROVE  /\ \A i \in ftnQueue : FM!Release(i) => \A j \in ftnQueue' : j.packet = FM!NoPacket \/ \E k \in ftnQueue : j.packet = k.packet
           /\ \A b, n \in Boards : FM!Unsubscribe(b, n) \/ FM!Rescan(b, n) =>
                  \A j \in ftnQueue' : j.packet = FM!NoPacket \/ \E k \in ftnQueue : j.packet = k.packet
<1>1. \A i \in ftnQueue : \A x \in {"pending", "ready", "held", "accepted"} :
          (x = "ready" => i.packet # FM!NoPacket) => [i EXCEPT !.state = x].packet = i.packet
    BY FtnStateFits DEF FtnTyped, FtnFits
<1>2. ASSUME NEW i \in ftnQueue, FM!Release(i), NEW j \in ftnQueue' PROVE \E k \in ftnQueue : j.packet = k.packet
  <2>1. j \in ftnQueue \/ j = [i EXCEPT !.state = IF i.packet = FM!NoPacket THEN "pending" ELSE "ready"]
      BY <1>2 DEF FM!Release
  <2> QED
      BY <1>1, <2>1
<1>3. ASSUME NEW b \in Boards, NEW n \in Boards, FM!Unsubscribe(b, n), NEW j \in ftnQueue'
      PROVE  \E k \in ftnQueue : j.packet = k.packet
  <2>1. \E i \in ftnQueue : j = i \/ j = [i EXCEPT !.state = "held"]
      BY <1>3 DEF FM!Unsubscribe
  <2> QED
      BY <1>1, <2>1
<1>4. ASSUME NEW b \in Boards, NEW n \in Boards, FM!Rescan(b, n), NEW j \in ftnQueue'
      PROVE  j.packet = FM!NoPacket \/ \E k \in ftnQueue : j.packet = k.packet
  <2>1. j \in ftnQueue \/ \E p \in pub[b] : j = FM!Item(b, n, p.mail, "rescan")
      BY <1>4 DEF FM!Rescan
  <2> QED
      BY <2>1 DEF FM!Item
<1> QED
    BY <1>2, <1>3, <1>4

LEMMA FtnBuildIdentity ==
    ASSUME FM!FtnAssumption, FtnIdentityInv, NEW i \in ftnQueue, FM!Build(i)
    PROVE  FtnOneMail' /\ FtnSerialsAreNew' /\ FtnNoneConflicts' /\ FtnNothingSighted
<1>t. FtnTyped
    BY DEF FtnIdentityInv
<1>1. PICK p \in pub[i.at] :
          /\ p.mail = i.mail
          /\ ftnQueue' = (ftnQueue \ {i}) \cup
                {IF i.mail \in Echo /\ i.to \notin subs[i.at]
                 THEN [i EXCEPT !.state = "held"]
                 ELSE [i EXCEPT !.state = "ready", !.packet = FM!Packed(i, p)]}
    BY DEF FM!Build
<1>2. UNCHANGED <<native, pub, receipts, subs, serial, hold, ftnCopy, evidence, ftnCount>>
    BY DEF FM!Build, FM!board
<1>3. FtnItemFits(i) /\ i.at \in Boards
    BY <1>t DEF FtnFits, FtnTyped, FtnItemFits, FtnItems
<1>4. /\ FM!Packed(i, p).ident = p.ident /\ FM!Packed(i, p).mail = p.mail
      /\ [i EXCEPT !.state = "ready", !.packet = FM!Packed(i, p)].packet = FM!Packed(i, p)
      /\ [i EXCEPT !.state = "held"].packet = i.packet
    BY <1>t, <1>1, <1>3, FtnPackedFits, FtnBuiltFits, FtnStateFits
<1>5. \A j \in ftnQueue' : j.packet = FM!Packed(i, p) \/ \E k \in ftnQueue : j.packet = k.packet
    BY <1>1, <1>4
<1>6. ASSUME NEW x, NEW m, FtnItemSights(ftnQueue', x, m)
      PROVE  FtnItemSights(ftnQueue, x, m) \/ FtnPubSights(pub[i.at], x, m)
    BY <1>4, <1>5, <1>6 DEF FtnItemSights, FtnPubSights
<1>7. \A x, m : FtnSighted(x, m)' => FtnSighted(x, m)
    BY <1>2, <1>3, <1>6 DEF FtnSighted
<1>8. UNCHANGED <<serial, hold, evidence>> /\ UNCHANGED <<receipts, ftnCopy>>
    BY <1>2
<1> QED
    BY <1>7, <1>8, FtnNothingNew, FtnConflictsKept DEF FtnIdentityInv, FtnNothingSighted

\* A packet that arrives finds its identity unknown or its own mail's.
LEMMA FtnOutcomeIsNoConflict ==
    ASSUME FtnIdentityInv, NEW i \in ftnQueue, i.packet # FM!NoPacket, NEW n \in Boards
    PROVE  FM!Outcome(n, i.at, i.packet) # "conflict"
<1>1. ASSUME NEW q \in FM!Prior(n, i.packet) PROVE q.mail = i.packet.mail
  <2>1. q \in pub[n] /\ q.ident = i.packet.ident
      BY DEF FM!Prior
  <2>2. FtnSighted(i.packet.ident, q.mail)
      BY <2>1 DEF FtnSighted, FtnPubSights
  <2>3. FtnSighted(i.packet.ident, i.packet.mail)
      BY DEF FtnSighted, FtnItemSights
  <2> QED
      BY <2>2, <2>3 DEF FtnIdentityInv, FtnOneMail
<1> QED
    BY <1>1 DEF FM!Outcome

LEMMA FtnTransferIdentity ==
    ASSUME FM!FtnAssumption, FtnIdentityInv, NEW i \in ftnQueue, FM!Transfer(i)
    PROVE  FtnOneMail' /\ FtnSerialsAreNew' /\ FtnNoneConflicts' /\ FtnNothingSighted
<1>t. FtnTyped
    BY DEF FtnIdentityInv
<1> DEFINE p == i.packet
           n == i.to
<1>1. i.state = "ready" /\ UNCHANGED <<native, subs, serial, hold, ftnCopy, evidence>>
    BY DEF FM!Transfer
<1>2. p \in FtnPacket /\ p # FM!NoPacket /\ n \in Boards /\ i.at \in Boards
    BY <1>t, <1>1, FtnReadyPacket
<1>3. FtnItemFits(i)
    BY <1>t DEF FtnTyped, FtnFits
<1>4. PICK items \in {ftnQueue, (ftnQueue \ {i}) \cup {[i EXCEPT !.state = "accepted"]}} :
          FM!Toss(n, i.at, p, items)
    BY DEF FM!Transfer
<1>5. \A j \in items : \E k \in ftnQueue : j.packet = k.packet
  <2>1. [i EXCEPT !.state = "accepted"].packet = i.packet
      BY <1>3, FtnStateFits
  <2>2. \A j \in items : j \in ftnQueue \/ j = [i EXCEPT !.state = "accepted"]
      BY <1>4
  <2> QED
      BY <2>1, <2>2
<1>6. FtnPubSights({FM!Publication(p.mail, p.ident, i.at, p.seen, p.path, p.marked)}, p.ident, p.mail)
    BY <1>2, FtnImportedPublication DEF FtnPubSights
<1>7. FtnSighted(p.ident, p.mail)
    BY <1>2 DEF FtnSighted, FtnItemSights
<1>8. FM!Outcome(n, i.at, p) # "conflict"
    BY <1>2, FtnOutcomeIsNoConflict
<1> DEFINE q == FM!Publication(p.mail, p.ident, i.at, p.seen, p.path, p.marked)
<1>9. q.mail = p.mail /\ q.ident = p.ident
    BY <1>2, FtnImportedPublication
<1>10. pub' = pub \/ pub' = [pub EXCEPT ![n] = @ \cup {q}]
    BY <1>4, FtnTossWays
<1>11. receipts' = receipts \/ \E o \in FtnOutcomes \ {"conflict"} :
           receipts' = [receipts EXCEPT ![n] = @ \cup {[link |-> i.at, artifact |-> p.artifact, outcome |-> o]}]
    BY <1>4, <1>8, FtnTossWays, FtnOutcomeTyped DEF FtnOutcomes
<1>12. \A j \in ftnQueue' : j \in items \/ j.packet = FM!NoPacket
    BY <1>4, FtnTossWays DEF FM!Item
<1>13. pub \in [Boards -> SUBSET FtnPublications] /\ receipts \in [Boards -> SUBSET FtnReceipts]
    BY <1>t DEF FtnTyped, FtnBoardTyped
<1> HIDE DEF q, p, n
<1>14. \A x, m : FtnItemSights(ftnQueue', x, m) => FtnItemSights(ftnQueue, x, m)
    BY <1>5, <1>12, FtnSameSights
<1>15. ASSUME NEW b \in Boards, NEW x, NEW m, FtnPubSights(pub'[b], x, m)
       PROVE  FtnPubSights(pub[b], x, m) \/ (x = p.ident /\ m = p.mail)
    BY <1>9, <1>10, <1>13, <1>15 DEF FtnPubSights
<1>16. ftnCopy' = ftnCopy
    BY <1>1
<1>17. \A x, m : FtnSighted(x, m)' => FtnSighted(x, m)
    BY <1>7, <1>14, <1>15, <1>16 DEF FtnSighted
<1>18. FtnNoneConflicts'
    BY <1>11, <1>13, <1>16 DEF FtnIdentityInv, FtnNoneConflicts
<1>19. UNCHANGED <<serial, hold, evidence>>
    BY <1>1
<1> QED
    BY <1>17, <1>18, <1>19, FtnNothingNew DEF FtnNothingSighted

\* A board gives out serials from its next one on, if it is not held.
LEMMA FtnNewIdentities ==
    ASSUME FtnIdentityInv, NEW b \in Boards, ~hold[b], serial[b] \in Nat,
           NEW F, NEW number, \A m \in F : number[m] \in Nat /\ serial[b] <= number[m],
           \A m, n \in F : number[m] = number[n] => m = n,
           serial'[b] \in Nat, \A m \in F : number[m] < serial'[b],
           serial[b] <= serial'[b], \A a \in Boards \ {b} : serial'[a] = serial[a],
           hold' = hold, evidence' = evidence,
           \A x, m : FtnSighted(x, m)' => FtnSighted(x, m) \/ (m \in F /\ x = <<b, number[m]>>)
    PROVE  FtnOneMail' /\ FtnSerialsAreNew'
<1>1. FtnOneMail /\ FtnSerialsAreNew
    BY DEF FtnIdentityInv
<1>2. ASSUME NEW m \in F, NEW n PROVE ~FtnSighted(<<b, number[m]>>, n)
  <2>1. FtnSighted(<<b, number[m]>>, n) => number[m] < serial[b]
      BY <1>1 DEF FtnSerialsAreNew
  <2> QED
      BY <2>1
<1>3. ASSUME NEW x, NEW m, NEW n, FtnSighted(x, m)', FtnSighted(x, n)' PROVE m = n
  <2>1. CASE FtnSighted(x, m) /\ FtnSighted(x, n)
      BY <1>1, <2>1 DEF FtnOneMail
  <2>2. CASE m \in F /\ x = <<b, number[m]>>
      BY <1>2, <1>3, <2>2
  <2>3. CASE n \in F /\ x = <<b, number[n]>>
      BY <1>2, <1>3, <2>3
  <2> QED
      BY <1>3, <2>1, <2>2, <2>3
<1>4. FtnOneMail'
    BY <1>3 DEF FtnOneMail
<1>5. ASSUME NEW m, NEW a \in Boards, NEW k \in Nat, FtnSighted(<<a, k>>, m)'
      PROVE  (~hold'[a] => k < serial'[a]) /\ (hold'[a] /\ ~evidence'[a].held => k < evidence'[a].serial)
  <2>1. CASE FtnSighted(<<a, k>>, m)
    <3>1. (~hold[a] => k < serial[a]) /\ (hold[a] /\ ~evidence[a].held => k < evidence[a].serial)
        BY <1>1, <2>1 DEF FtnSerialsAreNew
    <3> QED
        BY <3>1
  <2>2. CASE m \in F /\ <<a, k>> = <<b, number[m]>>
      BY <2>2
  <2> QED
      BY <1>5, <2>1, <2>2
<1>6. FtnSerialsAreNew'
    BY <1>5 DEF FtnSerialsAreNew
<1> QED
    BY <1>4, <1>6

LEMMA FtnScanIdentity ==
    ASSUME FM!FtnAssumption, FtnIdentityInv, NEW b \in Boards, FM!Scan(b)
    PROVE  FtnOneMail' /\ FtnSerialsAreNew' /\ FtnNoneConflicts' /\ FtnHomeSighted(b)
<1>t. FtnTyped
    BY DEF FtnIdentityInv
<1> DEFINE fresh == {m \in native[b] \cap Echo : ~FM!Published(b, m)}
<1>1. fresh \subseteq Mails /\ Cardinality(fresh) \in Nat
    BY <1>t, FtnFreshIsFinite
<1>2. PICK number \in [fresh -> serial[b] .. serial[b] + Cardinality(fresh) - 1] :
          /\ \A m, n \in fresh : number[m] = number[n] => m = n
          /\ pub' = [pub EXCEPT ![b] = @ \cup
                    {FM!Publication(m, <<b, number[m]>>, b, {}, {}, FALSE) : m \in fresh}]
    BY FtnCounts DEF FM!Scan
<1>3. /\ serial' = [serial EXCEPT ![b] = @ + Cardinality(fresh)] /\ ~hold[b]
      /\ ftnQueue' = ftnQueue \cup UNION
              {{FM!Item(b, n, m, "normal") : n \in FM!EchoTargets(b, m, {}, {}, b)} : m \in fresh}
      /\ UNCHANGED <<native, receipts, subs, hold, ftnCopy, evidence, ftnCount>>
    BY FtnCounts DEF FM!Scan
<1> HIDE DEF fresh
<1>4. serial[b] \in Nat /\ serial \in [Boards -> Nat \ {0}] /\ pub \in [Boards -> SUBSET FtnPublications]
    BY <1>t DEF FtnTyped, FtnBoardTyped
<1>5. \A m \in fresh : number[m] \in Nat /\ serial[b] <= number[m] /\ number[m] < serial'[b]
    BY <1>1, <1>2, <1>3, <1>4
<1>6. serial'[b] \in Nat /\ serial[b] <= serial'[b] /\ \A a \in Boards \ {b} : serial'[a] = serial[a]
    BY <1>1, <1>3, <1>4
<1>7. \A j \in ftnQueue' : j.packet = FM!NoPacket \/ \E k \in ftnQueue : j.packet = k.packet
    BY <1>3 DEF FM!Item
<1>8. \A x, m : FtnItemSights(ftnQueue', x, m) => FtnItemSights(ftnQueue, x, m)
    BY <1>7, FtnSameSights
<1>9. \A m \in fresh : /\ FM!Publication(m, <<b, number[m]>>, b, {}, {}, FALSE).mail = m
                       /\ FM!Publication(m, <<b, number[m]>>, b, {}, {}, FALSE).ident = <<b, number[m]>>
    BY DEF FM!Publication
<1>10. ASSUME NEW a \in Boards, NEW x, NEW m, FtnPubSights(pub'[a], x, m)
       PROVE  FtnPubSights(pub[a], x, m) \/ (m \in fresh /\ x = <<b, number[m]>>)
  <2>1. PICK p \in pub'[a] : p.ident = x /\ p.mail = m
      BY <1>10 DEF FtnPubSights
  <2>2. p \in pub[a] \/ \E f \in fresh : p = FM!Publication(f, <<b, number[f]>>, b, {}, {}, FALSE)
    <3>1. CASE a = b
        BY <1>2, <1>4, <2>1, <3>1
    <3>2. CASE a # b
        BY <1>2, <1>4, <2>1, <3>2
    <3> QED
        BY <3>1, <3>2
  <2>3. CASE p \in pub[a]
      BY <2>1, <2>3 DEF FtnPubSights
  <2>4. ASSUME NEW f \in fresh, p = FM!Publication(f, <<b, number[f]>>, b, {}, {}, FALSE)
        PROVE  m \in fresh /\ x = <<b, number[m]>>
    <3>1. p.mail = f /\ p.ident = <<b, number[f]>>
        BY <1>9, <2>4
    <3> QED
        BY <2>1, <3>1
  <2> QED
      BY <2>2, <2>3, <2>4
<1>11. ftnCopy' = ftnCopy /\ hold' = hold /\ evidence' = evidence /\ receipts' = receipts
    BY <1>3
<1>12. \A x, m : FtnSighted(x, m)' => FtnSighted(x, m) \/ (m \in fresh /\ x = <<b, number[m]>>)
    BY <1>8, <1>10, <1>11 DEF FtnSighted
<1>13. \A m, n \in fresh : number[m] = number[n] => m = n
    BY <1>2
<1>14. ~hold[b]
    BY <1>3
<1>h. FtnHomeSighted(b)
  <2>1. ASSUME NEW m \in fresh PROVE From[m] = b /\ FtnPubSights(pub'[b], <<b, number[m]>>, m)
    <3>1. From[m] = b
        BY <1>t DEF FtnTyped, FtnBoardTyped, FtnWritten, fresh
    <3>2. FM!Publication(m, <<b, number[m]>>, b, {}, {}, FALSE) \in pub'[b]
        BY <1>2, <1>4
    <3> QED
        BY <1>9, <3>1, <3>2 DEF FtnPubSights
  <2> QED
      BY <1>12, <2>1 DEF FtnHomeSighted
<1>15. FtnOneMail' /\ FtnSerialsAreNew'
    BY <1>4, <1>5, <1>6, <1>11, <1>12, <1>13, <1>14, FtnNewIdentities
<1> QED
    BY <1>11, <1>15, <1>h, FtnConflictsKept DEF FtnIdentityInv

LEMMA FtnSendMailIdentity ==
    ASSUME FM!FtnAssumption, FtnIdentityInv, NEW m \in Mails, FM!SendMail(m)
    PROVE  FtnOneMail' /\ FtnSerialsAreNew' /\ FtnNoneConflicts' /\ FtnHomeSighted(From[m])
<1>t. FtnTyped
    BY DEF FtnIdentityInv
<1> DEFINE b == From[m]
           number == [x \in {m} |-> serial[b]]
<1>1. b \in Boards /\ serial[b] \in Nat /\ serial \in [Boards -> Nat \ {0}]
      /\ pub \in [Boards -> SUBSET FtnPublications]
    BY <1>t DEF FtnTyped, FtnBoardTyped, FM!FtnAssumption, FM!MailsAssumption
<1>2. /\ ~hold[b]
      /\ pub' = [pub EXCEPT ![b] = @ \cup {FM!Publication(m, <<b, serial[b]>>, b, {}, {}, FALSE)}]
      /\ serial' = [serial EXCEPT ![b] = @ + 1]
      /\ ftnQueue' = ftnQueue \cup {FM!Item(b, n, m, "normal") : n \in FM!NetTargets(b, m)}
      /\ UNCHANGED <<receipts, subs, hold, ftnCopy, evidence, ftnCount>>
    BY DEF FM!SendMail
<1>3. \A x \in {m} : number[x] = serial[b]
    OBVIOUS
<1> HIDE DEF b, number
<1>4. /\ \A x \in {m} : number[x] \in Nat /\ serial[b] <= number[x] /\ number[x] < serial'[b]
      /\ serial'[b] \in Nat /\ serial[b] <= serial'[b] /\ \A a \in Boards \ {b} : serial'[a] = serial[a]
    BY <1>1, <1>2, <1>3
<1>5. \A x, y \in {m} : number[x] = number[y] => x = y
    OBVIOUS
<1>6. \A j \in ftnQueue' : j.packet = FM!NoPacket \/ \E k \in ftnQueue : j.packet = k.packet
    BY <1>2 DEF FM!Item
<1>7. \A x, y : FtnItemSights(ftnQueue', x, y) => FtnItemSights(ftnQueue, x, y)
    BY <1>6, FtnSameSights
<1>8. /\ FM!Publication(m, <<b, serial[b]>>, b, {}, {}, FALSE).mail = m
      /\ FM!Publication(m, <<b, serial[b]>>, b, {}, {}, FALSE).ident = <<b, number[m]>>
    BY <1>3 DEF FM!Publication
<1>9. ASSUME NEW a \in Boards, NEW x, NEW y, FtnPubSights(pub'[a], x, y)
      PROVE  FtnPubSights(pub[a], x, y) \/ (y \in {m} /\ x = <<b, number[y]>>)
    BY <1>1, <1>2, <1>8, <1>9 DEF FtnPubSights
<1>10. ftnCopy' = ftnCopy /\ hold' = hold /\ evidence' = evidence /\ receipts' = receipts /\ ~hold[b]
    BY <1>2
<1>11. \A x, y : FtnSighted(x, y)' => FtnSighted(x, y) \/ (y \in {m} /\ x = <<b, number[y]>>)
    BY <1>7, <1>9, <1>10 DEF FtnSighted
<1> DEFINE F == {m}
<1>f. /\ \A x \in F : number[x] \in Nat /\ serial[b] <= number[x]
      /\ \A x \in F : number[x] < serial'[b]
      /\ \A x, y \in F : number[x] = number[y] => x = y
      /\ \A x, y : FtnSighted(x, y)' => FtnSighted(x, y) \/ (y \in F /\ x = <<b, number[y]>>)
    BY <1>4, <1>5, <1>11
<1>g. /\ b \in Boards /\ ~hold[b] /\ serial[b] \in Nat /\ serial'[b] \in Nat /\ serial[b] <= serial'[b]
      /\ hold' = hold /\ evidence' = evidence
      /\ \A a \in Boards \ {b} : serial'[a] = serial[a]
    BY <1>1, <1>4, <1>10
<1> HIDE DEF F
<1>h. FtnHomeSighted(From[m])
  <2>1. FM!Publication(m, <<b, serial[b]>>, b, {}, {}, FALSE) \in pub'[b]
      BY <1>1, <1>2
  <2>2. FtnPubSights(pub'[b], <<b, number[m]>>, m)
      BY <1>8, <2>1 DEF FtnPubSights
  <2> QED
      BY <1>11, <2>2 DEF FtnHomeSighted, b
<1>12. FtnOneMail' /\ FtnSerialsAreNew'
    BY <1>f, <1>g, FtnNewIdentities
<1> QED
    BY <1>10, <1>12, <1>h, FtnConflictsKept DEF FtnIdentityInv

LEMMA FtnSimpleIdentity ==
    ASSUME FM!FtnAssumption, FtnIdentityInv,
           \/ \E m \in Mails : FM!Post(m)
           \/ \E i \in ftnQueue : FM!Release(i)
           \/ \E b, n \in Boards : FM!Subscribe(b, n) \/ FM!Unsubscribe(b, n) \/ FM!Rescan(b, n)
    PROVE  FtnOneMail' /\ FtnSerialsAreNew' /\ FtnNoneConflicts' /\ FtnNothingSighted
<1>1. FtnTyped
    BY DEF FtnIdentityInv
<1>2. UNCHANGED <<pub, receipts, ftnCopy, serial, hold, evidence>>
    BY DEF FM!Post, FM!Release, FM!Subscribe, FM!Unsubscribe, FM!Rescan, FM!board
<1>3. \A j \in ftnQueue' : j.packet = FM!NoPacket \/ \E i \in ftnQueue : j.packet = i.packet
  <2>1. CASE \E m \in Mails : FM!Post(m)
      BY <2>1 DEF FM!Post
  <2>2. CASE \E i \in ftnQueue : FM!Release(i)
      BY <1>1, <2>2, FtnQuietRows
  <2>3. CASE \E b, n \in Boards : FM!Unsubscribe(b, n) \/ FM!Rescan(b, n)
      BY <1>1, <2>3, FtnQuietRows
  <2>4. CASE \E b, n \in Boards : FM!Subscribe(b, n)
      BY <2>4 DEF FM!Subscribe
  <2> QED
      BY <2>1, <2>2, <2>3, <2>4
<1> QED
    BY <1>2, <1>3, FtnQuietStep

LEMMA FtnBackupIdentity ==
    ASSUME FM!FtnAssumption, FtnIdentityInv, NEW b \in Boards, FM!Backup(b)
    PROVE  FtnOneMail' /\ FtnSerialsAreNew' /\ FtnNoneConflicts'
<1>t. FtnTyped
    BY DEF FtnIdentityInv
<1> DEFINE c == [native |-> native[b], pub |-> pub[b], receipts |-> receipts[b], subs |-> subs[b],
                 serial |-> serial[b], items |-> {i \in ftnQueue : i.at = b}]
<1>1. /\ ftnCopy' = [ftnCopy EXCEPT ![b] = c]
      /\ UNCHANGED <<native, pub, receipts, subs, serial, ftnQueue, hold, evidence, ftnCount>>
    BY DEF FM!Backup, FM!board
<1>2. c.items \subseteq ftnQueue /\ c.pub = pub[b] /\ c.receipts = receipts[b]
    OBVIOUS
<1> HIDE DEF c
<1>3. ftnCopy'[b] = c /\ \A a \in Boards \ {b} : ftnCopy'[a] = ftnCopy[a]
    BY <1>t, <1>1 DEF FtnTyped, FtnCopyTyped
<1>4. ASSUME NEW x, NEW m, FtnSighted(x, m)' PROVE FtnSighted(x, m)
  <2>1. \/ \E a \in Boards : FtnPubSights(pub[a], x, m)
        \/ FtnItemSights(ftnQueue, x, m)
        \/ \E a \in Boards : FtnCopySights(ftnCopy'[a], x, m)
      BY <1>1, <1>4 DEF FtnSighted
  <2>2. FtnCopySights(c, x, m) => FtnPubSights(pub[b], x, m) \/ FtnItemSights(ftnQueue, x, m)
      BY <1>2 DEF FtnCopySights, FtnItemSights
  <2> QED
      BY <1>3, <2>1, <2>2 DEF FtnSighted
<1>5. UNCHANGED <<serial, hold, evidence>>
    BY <1>1
<1>6. FtnOneMail' /\ FtnSerialsAreNew'
    BY <1>4, <1>5, FtnNothingNew
<1>7. FtnNoneConflicts'
    BY <1>1, <1>2, <1>3 DEF FtnIdentityInv, FtnNoneConflicts
<1> QED
    BY <1>6, <1>7

\* What comes back was in the copy; and the board is held, with its serials in the evidence.
LEMMA FtnRestoreIdentity ==
    ASSUME FM!FtnAssumption, FtnIdentityInv, NEW b \in Boards, FM!Restore(b)
    PROVE  FtnOneMail' /\ FtnSerialsAreNew' /\ FtnNoneConflicts'
<1>t. FtnTyped
    BY DEF FtnIdentityInv
<1> DEFINE c == ftnCopy[b]
           items == {i \in ftnQueue : i.at = b}
           back == {IF i.state \in FM!Unsent THEN [i EXCEPT !.state = "held"] ELSE i : i \in c.items}
           e == [serial |-> serial[b], held |-> hold[b], accepted |-> {i \in items : i.state = "accepted"}]
<1>1. /\ c # FM!NoCopy
      /\ pub' = [pub EXCEPT ![b] = c.pub]
      /\ receipts' = [receipts EXCEPT ![b] = c.receipts]
      /\ serial' = [serial EXCEPT ![b] = c.serial]
      /\ ftnQueue' = (ftnQueue \ items) \cup back
      /\ hold' = [hold EXCEPT ![b] = TRUE]
      /\ evidence' = [evidence EXCEPT ![b] = e]
      /\ ftnCopy' = ftnCopy
    BY DEF FM!Restore
<1>2. FtnFits(c.items)
    BY <1>t, <1>1 DEF FtnTyped, FtnCopyTyped, FtnCopyFits
<1>3. \A j \in back : \E i \in c.items : j.packet = i.packet
    BY <1>2, FtnRestoredRow DEF FtnFits
<1>4. e.serial = serial[b] /\ e.held = hold[b]
    OBVIOUS
<1>5. /\ \A r \in receipts[b] : r.outcome # "conflict"
      /\ \A r \in c.receipts : r.outcome # "conflict"
    BY <1>1 DEF FtnIdentityInv, FtnNoneConflicts
<1> HIDE DEF items, back, e
<1>6. /\ pub \in [Boards -> SUBSET FtnPublications] /\ receipts \in [Boards -> SUBSET FtnReceipts]
      /\ hold \in [Boards -> BOOLEAN] /\ evidence \in [Boards -> FtnEvidence] /\ serial \in [Boards -> Nat \ {0}]
    BY <1>t DEF FtnTyped, FtnBoardTyped, FtnRestTyped
<1>7. /\ pub'[b] = c.pub /\ receipts'[b] = c.receipts /\ hold'[b] = TRUE /\ evidence'[b] = e
      /\ \A a \in Boards \ {b} : /\ pub'[a] = pub[a] /\ receipts'[a] = receipts[a] /\ hold'[a] = hold[a]
                                 /\ evidence'[a] = evidence[a] /\ serial'[a] = serial[a]
    BY <1>1, <1>6
<1>8. \A x, m : FtnItemSights(back, x, m) => FtnItemSights(c.items, x, m)
    BY <1>3 DEF FtnItemSights
<1>9. ASSUME NEW x, NEW m, FtnSighted(x, m)' PROVE FtnSighted(x, m)
  <2>1. \/ \E a \in Boards : FtnPubSights(pub'[a], x, m)
        \/ FtnItemSights(ftnQueue', x, m)
        \/ \E a \in Boards : FtnCopySights(ftnCopy[a], x, m)
      BY <1>1, <1>9 DEF FtnSighted
  <2>2. FtnItemSights(ftnQueue', x, m) => FtnItemSights(ftnQueue, x, m) \/ FtnItemSights(back, x, m)
      BY <1>1 DEF FtnItemSights
  <2>3. FtnPubSights(c.pub, x, m) \/ FtnItemSights(c.items, x, m) => FtnCopySights(c, x, m)
      BY <1>1 DEF FtnCopySights
  <2> QED
      BY <1>7, <1>8, <2>1, <2>2, <2>3 DEF FtnSighted
<1>10. FtnOneMail'
    BY <1>9 DEF FtnIdentityInv, FtnOneMail
<1>11. ASSUME NEW m, NEW a \in Boards, NEW k \in Nat, FtnSighted(<<a, k>>, m)'
       PROVE  (~hold'[a] => k < serial'[a]) /\ (hold'[a] /\ ~evidence'[a].held => k < evidence'[a].serial)
  <2>1. (~hold[a] => k < serial[a]) /\ (hold[a] /\ ~evidence[a].held => k < evidence[a].serial)
      BY <1>9, <1>11 DEF FtnIdentityInv, FtnSerialsAreNew
  <2> QED
      BY <1>4, <1>7, <2>1
<1>12. FtnSerialsAreNew'
    BY <1>11 DEF FtnSerialsAreNew
<1>13. FtnNoneConflicts'
  <2>1. \A a \in Boards : \A r \in receipts'[a] : r.outcome # "conflict"
      BY <1>5, <1>7 DEF FtnIdentityInv, FtnNoneConflicts
  <2> QED
      BY <1>1, <2>1 DEF FtnIdentityInv, FtnNoneConflicts
<1> QED
    BY <1>10, <1>12, <1>13

\* The hold is lifted when the serials are as far as the replaced root's, if that was not held.
LEMMA FtnReconcileIdentity ==
    ASSUME FM!FtnAssumption, FtnIdentityInv, NEW b \in Boards, FM!Reconcile(b)
    PROVE  FtnOneMail' /\ FtnSerialsAreNew' /\ FtnNoneConflicts'
<1>t. FtnTyped
    BY DEF FtnIdentityInv
<1> DEFINE e == evidence[b]
<1>1. /\ hold' = [hold EXCEPT ![b] = IF e.serial >= serial[b] THEN e.held ELSE @]
      /\ serial' = [serial EXCEPT ![b] = IF e.serial > @ THEN e.serial ELSE @]
      /\ ftnQueue' = {IF \E a \in e.accepted : [a EXCEPT !.state = i.state] = i
                   THEN [i EXCEPT !.state = "accepted"] ELSE i : i \in ftnQueue}
      /\ UNCHANGED <<native, pub, receipts, subs, ftnCopy, evidence, ftnCount>>
      /\ hold[b]
    BY DEF FM!Reconcile
<1>2. e \in FtnEvidence /\ serial[b] \in Nat \ {0}
    BY <1>t DEF FtnTyped, FtnRestTyped, FtnBoardTyped
<1>3. e.serial \in Nat /\ e.held \in BOOLEAN
    BY <1>2 DEF FtnEvidence
<1>4. \A i \in ftnQueue : [i EXCEPT !.state = "accepted"].packet = i.packet
    BY <1>t, FtnStateFits DEF FtnTyped, FtnFits
<1> HIDE DEF e
<1>5. \A j \in ftnQueue' : j.packet = FM!NoPacket \/ \E i \in ftnQueue : j.packet = i.packet
    BY <1>1, <1>4
<1>6. UNCHANGED <<pub, ftnCopy>> /\ UNCHANGED <<receipts, ftnCopy>> /\ evidence' = evidence
    BY <1>1
<1>7. \A x, m : FtnSighted(x, m)' => FtnSighted(x, m)
    BY <1>5, <1>6, FtnQueueSights
<1>8. FtnOneMail'
    BY <1>7 DEF FtnIdentityInv, FtnOneMail
<1>9. /\ hold'[b] = (IF e.serial >= serial[b] THEN e.held ELSE hold[b])
      /\ serial'[b] = (IF e.serial > serial[b] THEN e.serial ELSE serial[b])
      /\ \A a \in Boards \ {b} : hold'[a] = hold[a] /\ serial'[a] = serial[a]
    BY <1>t, <1>1 DEF FtnTyped, FtnRestTyped, FtnBoardTyped
<1>10. ASSUME NEW m, NEW a \in Boards, NEW k \in Nat, FtnSighted(<<a, k>>, m)'
       PROVE  (~hold'[a] => k < serial'[a]) /\ (hold'[a] /\ ~evidence[a].held => k < evidence[a].serial)
  <2>1. (~hold[a] => k < serial[a]) /\ (hold[a] /\ ~evidence[a].held => k < evidence[a].serial)
      BY <1>7, <1>10 DEF FtnIdentityInv, FtnSerialsAreNew
  <2>2. CASE a # b
      BY <1>9, <2>1, <2>2
  <2>3. CASE a = b
    <3>1. ~e.held => k < e.serial
        BY <1>1, <2>1, <2>3 DEF e
    <3>2. evidence[a] = e
        BY <2>3 DEF e
    <3>3. ~hold'[b] => ~e.held /\ e.serial >= serial[b]
        BY <1>1, <1>9
    <3>4. ~hold'[b] => k < serial'[b]
        BY <1>2, <1>3, <1>9, <3>1, <3>3
    <3> QED
        BY <2>3, <3>1, <3>2, <3>4
  <2> QED
      BY <2>2, <2>3
<1>11. FtnSerialsAreNew'
    BY <1>6, <1>10 DEF FtnSerialsAreNew
<1> QED
    BY <1>6, <1>8, <1>11, FtnConflictsKept DEF FtnIdentityInv

LEMMA FtnIdentityNext == ASSUME FM!FtnAssumption, FtnIdentityInv, [FM!Next]_(FM!vars) PROVE FtnIdentityInv'
<1>1. FtnTyped'
    BY FtnTypedNext DEF FtnIdentityInv
<1>2. CASE UNCHANGED FM!vars
  <2>1. /\ UNCHANGED <<pub, receipts, ftnCopy, serial, hold, evidence>>
        /\ \A j \in ftnQueue' : j.packet = FM!NoPacket \/ \E i \in ftnQueue : j.packet = i.packet
      BY <1>2 DEF FM!vars
  <2> QED
      BY <1>1, <2>1, FtnQuietStep DEF FtnIdentityInv
<1>3. CASE FM!Next
  <2> SUFFICES FtnOneMail' /\ FtnSerialsAreNew' /\ FtnNoneConflicts'
      BY <1>1 DEF FtnIdentityInv
  <2>1. CASE \E m \in Mails : FM!SendMail(m)
      BY <2>1, FtnSendMailIdentity
  <2>2. CASE \E b \in Boards : FM!Scan(b) \/ FM!Backup(b) \/ FM!Restore(b) \/ FM!Reconcile(b)
      BY <2>2, FtnScanIdentity, FtnBackupIdentity, FtnRestoreIdentity, FtnReconcileIdentity
  <2>3. CASE \E i \in ftnQueue : FM!Build(i) \/ FM!Transfer(i)
      BY <2>3, FtnBuildIdentity, FtnTransferIdentity
  <2>4. CASE \/ \E m \in Mails : FM!Post(m)
             \/ \E i \in ftnQueue : FM!Release(i)
             \/ \E b, n \in Boards : FM!Subscribe(b, n) \/ FM!Unsubscribe(b, n) \/ FM!Rescan(b, n)
      BY <2>4, FtnSimpleIdentity
  <2> QED
      BY <1>3, <2>1, <2>2, <2>3, <2>4 DEF FM!Next
<1> QED
    BY <1>2, <1>3

LEMMA FtnIdentityInit == ASSUME FM!FtnAssumption, FM!Init PROVE FtnIdentityInv
<1>1. FtnTyped
    BY FtnTypedInit
<1>2. ASSUME NEW x, NEW m PROVE ~FtnSighted(x, m)
    BY DEF FM!Init, FtnSighted, FtnPubSights, FtnItemSights, FtnCopySights
<1>3. FtnNoneConflicts
    BY DEF FM!Init, FtnNoneConflicts
<1> QED
    BY <1>1, <1>2, <1>3 DEF FtnIdentityInv, FtnOneMail, FtnSerialsAreNew

-----------------------------------------------------------------------------
(* What the identities are for.                                               *)

\* An identity is one mail's for any boards and any restores (scan_ftn, send_ftn_mail,
\* reconcile_ftn_recovery).
THEOREM FtnInvariant == FM!FtnAssumption => (FM!Spec => []FtnIdentityInv)
<1> SUFFICES ASSUME FM!FtnAssumption PROVE FM!Spec => []FtnIdentityInv
    OBVIOUS
<1>1. FM!Init => FtnIdentityInv
    BY FtnIdentityInit
<1>2. FtnIdentityInv /\ [FM!Next]_(FM!vars) => FtnIdentityInv'
    BY FtnIdentityNext
<1> QED
    BY <1>1, <1>2, PTL DEF FM!Spec

\* Every mail has its type, whatever is lost, changed, sent again or restored (toss_ftn_admitted,
\* build_ftn).
THEOREM FtnTypeCorrect == FM!FtnAssumption => (FM!Spec => []FM!TypeOK)
<1>1. FtnIdentityInv => FM!TypeOK
  <2> SUFFICES ASSUME FtnIdentityInv PROVE FM!TypeOK
      OBVIOUS
  <2>1. FtnTyped
      BY DEF FtnIdentityInv
  <2>2. ASSUME NEW b \in Boards
        PROVE  /\ native[b] \subseteq Mails /\ subs[b] \subseteq Peers[b]
               /\ serial[b] \in Nat \ {0} /\ hold[b] \in BOOLEAN
               /\ \A p \in pub[b] : p.mail \in Mails /\ p.ingress \in Boards
               /\ \A r \in receipts[b] :
                     r.outcome \in {"imported", "duplicate", "loop", "denied", "conflict", "routing"}
    <3>1. pub[b] \subseteq FtnPublications /\ receipts[b] \subseteq FtnReceipts
        BY <2>1 DEF FtnTyped, FtnBoardTyped
    <3>2. /\ \A p \in pub[b] : p.mail \in Mails /\ p.ingress \in Boards
          /\ \A r \in receipts[b] : r.outcome \in FtnOutcomes
        BY <3>1 DEF FtnPublications, FtnReceipts
    <3> QED
        BY <2>1, <3>2 DEF FtnTyped, FtnBoardTyped, FtnRestTyped, FtnOutcomes
  <2>3. ASSUME NEW i \in ftnQueue
        PROVE  /\ i.to \in Peers[i.at] /\ i.mail \in Mails
               /\ i.state \in {"pending", "ready", "held", "accepted"}
               /\ i.state = "ready" => i.packet # FM!NoPacket
      BY <2>1 DEF FtnTyped, FtnFits, FtnItemFits, FtnItems
  <2> QED
      BY <2>2, <2>3 DEF FM!TypeOK
<1> QED
    BY <1>1, FtnInvariant, PTL

\* No board takes one mail for another, not even of a board that was restored, whose serials
\* begin again below those it gave out (reconcile_ftn_recovery).
THEOREM NoConflictHolds == FM!FtnAssumption => (FM!Spec => []FM!NoConflict)
<1>1. FtnIdentityInv => FM!NoConflict
    BY DEF FtnIdentityInv, FtnNoneConflicts, FM!NoConflict
<1> QED
    BY <1>1, FtnInvariant, PTL

-----------------------------------------------------------------------------
(* Where no board is restored.                                                *)

FtnNeverRestored == \A b \in Boards : ftnCopy[b] = FM!NoCopy /\ ~hold[b]

\* A board has what it wrote, and published it under the identity the others know.
FtnAtHome ==
    /\ \A b \in Boards : \A p \in pub[b] : From[p.mail] = b => p.mail \in native[b]
    /\ \A x : \A m \in Mails : FtnSighted(x, m) => FtnPubSights(pub[From[m]], x, m)

FtnHomeInv == FtnIdentityInv /\ FtnNeverRestored /\ FtnAtHome /\ FM!PublishedOnce

\* Nothing a board published, received or has for its own goes away.
FtnGrows ==
    \A b \in Boards :
        native[b] \subseteq native'[b] /\ pub[b] \subseteq pub'[b] /\ receipts[b] \subseteq receipts'[b]

LEMMA FtnStillNeverRestored ==
    ASSUME FtnTyped, FtnNeverRestored, FtnRestores = 0, [FM!Next]_(FM!vars)
    PROVE  FtnNeverRestored' /\ FtnGrows
<1>1. CASE UNCHANGED FM!vars
    BY <1>1 DEF FM!vars, FtnNeverRestored, FtnGrows
<1>2. CASE \E b \in Boards : FM!Backup(b) \/ FM!Restore(b) \/ FM!Reconcile(b)
    BY <1>2 DEF FM!Backup, FM!Restore, FM!Reconcile, FtnNeverRestored
<1>3. /\ native \in [Boards -> SUBSET Mails] /\ pub \in [Boards -> SUBSET FtnPublications]
      /\ receipts \in [Boards -> SUBSET FtnReceipts]
    BY DEF FtnTyped, FtnBoardTyped
<1>4. ASSUME NEW m \in Mails, FM!Post(m) \/ FM!SendMail(m) PROVE FtnNeverRestored' /\ FtnGrows
  <2>1. UNCHANGED <<receipts, hold, ftnCopy>>
        /\ native' = [native EXCEPT ![From[m]] = @ \cup {m}]
        /\ (pub' = pub \/ \E p : pub' = [pub EXCEPT ![From[m]] = @ \cup {p}])
      BY <1>4 DEF FM!Post, FM!SendMail
  <2> QED
      BY <1>3, <2>1 DEF FtnNeverRestored, FtnGrows
<1>5. ASSUME NEW b \in Boards, FM!Scan(b) PROVE FtnNeverRestored' /\ FtnGrows
  <2>1. UNCHANGED <<native, receipts, hold, ftnCopy>> /\ \E S : pub' = [pub EXCEPT ![b] = @ \cup S]
      BY <1>5 DEF FM!Scan
  <2> QED
      BY <1>3, <2>1 DEF FtnNeverRestored, FtnGrows
<1>6. ASSUME NEW i \in ftnQueue, FM!Transfer(i) PROVE FtnNeverRestored' /\ FtnGrows
  <2>1. /\ UNCHANGED <<native, hold, ftnCopy>>
        /\ (pub' = pub \/ \E p : pub' = [pub EXCEPT ![i.to] = @ \cup {p}])
        /\ (receipts' = receipts \/ \E r : receipts' = [receipts EXCEPT ![i.to] = @ \cup {r}])
    <3>1. PICK items : FM!Toss(i.to, i.at, i.packet, items)
        BY <1>6 DEF FM!Transfer
    <3> QED
        BY <1>6, <3>1, FtnTossWays DEF FM!Transfer
  <2> QED
      BY <1>3, <2>1 DEF FtnNeverRestored, FtnGrows
<1>7. CASE \/ \E i \in ftnQueue : FM!Build(i) \/ FM!Release(i)
           \/ \E b, n \in Boards : FM!Subscribe(b, n) \/ FM!Unsubscribe(b, n) \/ FM!Rescan(b, n)
  <2>1. UNCHANGED <<native, pub, receipts, hold, ftnCopy>>
      BY <1>7 DEF FM!Build, FM!Release, FM!Subscribe, FM!Unsubscribe, FM!Rescan, FM!board
  <2> QED
      BY <2>1 DEF FtnNeverRestored, FtnGrows
<1> QED
    BY <1>1, <1>2, <1>4, <1>5, <1>6, <1>7 DEF FM!Next

\* A mail has one identity.
LEMMA FtnOneIdentity ==
    ASSUME FM!FtnAssumption, FtnHomeInv, NEW x, NEW y, NEW m \in Mails, FtnSighted(x, m), FtnSighted(y, m)
    PROVE  x = y
<1>1. FtnPubSights(pub[From[m]], x, m) /\ FtnPubSights(pub[From[m]], y, m)
    BY DEF FtnHomeInv, FtnAtHome
<1> QED
    BY <1>1 DEF FtnPubSights, FtnHomeInv, FM!PublishedOnce, FM!FtnAssumption, FM!MailsAssumption

\* A board that has the mail has a publication by the identity of the packet.
LEMMA FtnPriorFound ==
    ASSUME FM!FtnAssumption, FtnHomeInv, NEW i \in ftnQueue, i.packet # FM!NoPacket, i.packet.mail \in Mails,
           NEW n \in Boards, From[i.packet.mail] = n \/ FM!Published(n, i.packet.mail)
    PROVE  FM!Prior(n, i.packet) # {}
<1>1. FtnSighted(i.packet.ident, i.packet.mail)
    BY DEF FtnSighted, FtnItemSights
<1>2. From[i.packet.mail] \in Boards
    BY DEF FM!FtnAssumption, FM!MailsAssumption
<1>3. PICK q \in pub[n] : q.mail = i.packet.mail
    BY <1>1 DEF FtnHomeInv, FtnAtHome, FtnPubSights, FM!Published
<1>4. FtnSighted(q.ident, i.packet.mail)
    BY <1>3 DEF FtnSighted, FtnPubSights
<1>5. q.ident = i.packet.ident
    BY <1>1, <1>2, <1>4, FtnOneIdentity
<1> QED
    BY <1>3, <1>5 DEF FM!Prior

\* What a step leaves of the home of an identity.
LEMMA FtnHomeKept ==
    ASSUME FM!FtnAssumption, FtnHomeInv, FtnGrows, FtnNothingSighted \/ \E b : FtnHomeSighted(b)
    PROVE  \A x : \A m \in Mails : FtnSighted(x, m)' => FtnPubSights(pub'[From[m]], x, m)
<1> SUFFICES ASSUME NEW x, NEW m \in Mails, FtnSighted(x, m)'
             PROVE  FtnPubSights(pub'[From[m]], x, m)
    OBVIOUS
<1>3. From[m] \in Boards
    BY DEF FM!FtnAssumption, FM!MailsAssumption
<1>1. FtnSighted(x, m) \/ FtnPubSights(pub'[From[m]], x, m)
    BY DEF FtnNothingSighted, FtnHomeSighted
<1>2. FtnSighted(x, m) => FtnPubSights(pub[From[m]], x, m)
    BY DEF FtnHomeInv, FtnAtHome
<1> QED
    BY <1>1, <1>2, <1>3 DEF FtnGrows, FtnPubSights

\* What a step publishes: by a board its own, not published before; by a board another's, of
\* which it has nothing yet.
LEMMA FtnPublishedAnew ==
    ASSUME FtnTyped, FM!PublishedOnce, NEW b \in Boards, NEW S,
           pub' = [pub EXCEPT ![b] = @ \cup S],
           \A p, q \in S : p.mail = q.mail => p = q,
           \A p \in S : ~FM!Published(b, p.mail) /\ ((From[p.mail] = b) = (p.ingress = b))
    PROVE  FM!PublishedOnce'
<1>1. pub \in [Boards -> SUBSET FtnPublications]
    BY DEF FtnTyped, FtnBoardTyped
<1>2. pub'[b] = pub[b] \cup S /\ \A a \in Boards \ {b} : pub'[a] = pub[a]
    BY <1>1
<1>3. ASSUME NEW p \in pub'[b], NEW q \in pub'[b], p.mail = q.mail PROVE p = q
  <2>1. CASE p \in pub[b] /\ q \in pub[b]
      BY <1>3, <2>1 DEF FM!PublishedOnce
  <2>2. CASE p \in S /\ q \in S
      BY <1>3, <2>2
  <2>3. CASE p \in S /\ q \in pub[b]
      BY <1>3, <2>3 DEF FM!Published
  <2>4. CASE p \in pub[b] /\ q \in S
      BY <1>3, <2>4 DEF FM!Published
  <2> QED
      BY <1>2, <2>1, <2>2, <2>3, <2>4
<1>4. ASSUME NEW a \in Boards
      PROVE  /\ \A p, q \in pub'[a] : p.mail = q.mail => p = q
             /\ \A p \in pub'[a] : (From[p.mail] = a) = (p.ingress = a)
  <2>1. CASE a = b
      BY <1>2, <1>3, <2>1 DEF FM!PublishedOnce
  <2>2. CASE a # b
      BY <1>2, <2>2 DEF FM!PublishedOnce
  <2> QED
      BY <2>1, <2>2
<1> QED
    BY <1>4 DEF FM!PublishedOnce

\* A board's publications of its own mail are of mail it has.
LEMMA FtnOwnAreNative ==
    ASSUME FtnTyped, FtnAtHome, FtnGrows, NEW b \in Boards, NEW S,
           pub' = [pub EXCEPT ![b] = @ \cup S],
           \A p \in S : From[p.mail] = b => p.mail \in native'[b]
    PROVE  \A a \in Boards : \A p \in pub'[a] : From[p.mail] = a => p.mail \in native'[a]
<1>1. pub \in [Boards -> SUBSET FtnPublications]
    BY DEF FtnTyped, FtnBoardTyped
<1>2. pub'[b] = pub[b] \cup S /\ \A a \in Boards \ {b} : pub'[a] = pub[a]
    BY <1>1
<1> QED
    BY <1>2 DEF FtnAtHome, FtnGrows

LEMMA FtnScanAtHome ==
    ASSUME FM!FtnAssumption, FtnHomeInv, FtnGrows, NEW b \in Boards, FM!Scan(b)
    PROVE  /\ FM!PublishedOnce'
           /\ \A a \in Boards : \A p \in pub'[a] : From[p.mail] = a => p.mail \in native'[a]
<1>t. FtnTyped /\ FM!PublishedOnce /\ FtnAtHome
    BY DEF FtnHomeInv, FtnIdentityInv
<1> DEFINE fresh == {m \in native[b] \cap Echo : ~FM!Published(b, m)}
<1>1. PICK number \in [fresh -> serial[b] .. serial[b] + Cardinality(fresh) - 1] :
          pub' = [pub EXCEPT ![b] = @ \cup
                    {FM!Publication(m, <<b, number[m]>>, b, {}, {}, FALSE) : m \in fresh}]
    BY FtnCounts DEF FM!Scan
<1> DEFINE S == {FM!Publication(m, <<b, number[m]>>, b, {}, {}, FALSE) : m \in fresh}
<1>2. \A m \in fresh : ~FM!Published(b, m) /\ From[m] = b /\ m \in native'[b]
    BY <1>t DEF FtnTyped, FtnBoardTyped, FtnWritten, FtnGrows
<1>3. \A m : /\ FM!Publication(m, <<b, number[m]>>, b, {}, {}, FALSE).mail = m
             /\ FM!Publication(m, <<b, number[m]>>, b, {}, {}, FALSE).ingress = b
    BY DEF FM!Publication
<1> HIDE DEF fresh
<1>4. \A p \in S : /\ ~FM!Published(b, p.mail) /\ From[p.mail] = b /\ p.ingress = b /\ p.mail \in native'[b]
                   /\ p = FM!Publication(p.mail, <<b, number[p.mail]>>, b, {}, {}, FALSE)
    BY <1>2, <1>3
<1>5. pub' = [pub EXCEPT ![b] = @ \cup S]
    BY <1>1
<1> HIDE DEF S
<1>6. \A p, q \in S : p.mail = q.mail => p = q
  <2> SUFFICES ASSUME NEW p \in S, NEW q \in S, p.mail = q.mail PROVE p = q
      OBVIOUS
  <2>1. /\ p = FM!Publication(p.mail, <<b, number[p.mail]>>, b, {}, {}, FALSE)
        /\ q = FM!Publication(q.mail, <<b, number[q.mail]>>, b, {}, {}, FALSE)
      BY <1>4
  <2> QED
      BY <2>1
<1>7. FM!PublishedOnce'
    BY <1>t, <1>4, <1>5, <1>6, FtnPublishedAnew
<1>8. \A a \in Boards : \A p \in pub'[a] : From[p.mail] = a => p.mail \in native'[a]
    BY <1>t, <1>4, <1>5, FtnOwnAreNative
<1> QED
    BY <1>7, <1>8

LEMMA FtnSendMailAtHome ==
    ASSUME FM!FtnAssumption, FtnHomeInv, FtnGrows, NEW m \in Mails, FM!SendMail(m)
    PROVE  /\ FM!PublishedOnce'
           /\ \A a \in Boards : \A p \in pub'[a] : From[p.mail] = a => p.mail \in native'[a]
<1>t. FtnTyped /\ FM!PublishedOnce /\ FtnAtHome
    BY DEF FtnHomeInv, FtnIdentityInv
<1> DEFINE b == From[m]
           p == FM!Publication(m, <<b, serial[b]>>, b, {}, {}, FALSE)
           S == {p}
<1>1. b \in Boards /\ native \in [Boards -> SUBSET Mails]
    BY <1>t DEF FM!FtnAssumption, FM!MailsAssumption, FtnTyped, FtnBoardTyped
<1>2. /\ m \notin UNION {native[c] : c \in Boards}
      /\ native' = [native EXCEPT ![b] = @ \cup {m}]
      /\ pub' = [pub EXCEPT ![b] = @ \cup S]
    BY DEF FM!SendMail
<1>3. p.mail = m /\ p.ingress = b
    BY DEF FM!Publication
<1>4. ~FM!Published(b, m) /\ m \in native'[b]
    BY <1>t, <1>1, <1>2 DEF FtnAtHome, FM!Published
<1>5. \A q \in S : q = p
    OBVIOUS
<1>6. From[m] = b
    OBVIOUS
<1> HIDE DEF S, p, b
<1>7. /\ \A q, r \in S : q.mail = r.mail => q = r
      /\ \A q \in S : ~FM!Published(b, q.mail) /\ ((From[q.mail] = b) = (q.ingress = b))
      /\ \A q \in S : From[q.mail] = b => q.mail \in native'[b]
    BY <1>3, <1>4, <1>5, <1>6
<1>8. pub' = [pub EXCEPT ![b] = @ \cup S]
    BY <1>2
<1>9. FM!PublishedOnce'
    BY <1>t, <1>1, <1>7, <1>8, FtnPublishedAnew
<1>10. \A a \in Boards : \A q \in pub'[a] : From[q.mail] = a => q.mail \in native'[a]
    BY <1>t, <1>1, <1>7, <1>8, FtnOwnAreNative
<1> QED
    BY <1>9, <1>10

\* A board imports what it does not have and did not write.
LEMMA FtnTransferAtHome ==
    ASSUME FM!FtnAssumption, FtnHomeInv, FtnGrows, NEW i \in ftnQueue, FM!Transfer(i)
    PROVE  /\ FM!PublishedOnce'
           /\ \A a \in Boards : \A q \in pub'[a] : From[q.mail] = a => q.mail \in native'[a]
<1>t. FtnTyped /\ FM!PublishedOnce /\ FtnAtHome
    BY DEF FtnHomeInv, FtnIdentityInv
<1> DEFINE p == i.packet
           n == i.to
           q == FM!Publication(p.mail, p.ident, i.at, p.seen, p.path, p.marked)
           S == {q}
<1>1. i.state = "ready"
    BY DEF FM!Transfer
<1>2. p \in FtnPacket /\ p # FM!NoPacket /\ n \in Boards /\ i.at \in Boards
    BY <1>t, <1>1, FtnReadyPacket
<1>3. p.mail \in Mails
    BY <1>2 DEF FtnPacket
<1>4. i.to # i.at
    BY <1>t DEF FtnTyped, FtnFits, FtnItemFits, FtnItems, FM!FtnAssumption, FM!PeersAssumption
<1>5. q.mail = p.mail /\ q.ingress = i.at
    BY DEF FM!Publication
<1>6. PICK items : FM!Toss(n, i.at, p, items)
    BY DEF FM!Transfer
<1>7. pub' = pub \/ (FM!Outcome(n, i.at, p) = "imported" /\ pub' = [pub EXCEPT ![n] = @ \cup {q}])
    BY <1>6, FtnTossWays
<1>8. FM!Outcome(n, i.at, p) = "imported" => FM!Prior(n, p) = {}
    BY DEF FM!Outcome
<1>9. FM!Prior(n, p) = {} => ~FM!Published(n, p.mail) /\ From[p.mail] # n
    BY <1>2, <1>3, FtnPriorFound
<1>10. native' = native
    BY DEF FM!Transfer
<1>11. CASE pub' = pub
    BY <1>t, <1>10, <1>11 DEF FM!PublishedOnce, FtnAtHome
<1>12. CASE FM!Outcome(n, i.at, p) = "imported" /\ pub' = [pub EXCEPT ![n] = @ \cup {q}]
  <2>1. ~FM!Published(n, p.mail) /\ From[p.mail] # n /\ i.at # n
      BY <1>4, <1>8, <1>9, <1>12
  <2>2. \A r \in S : r = q
      OBVIOUS
  <2>3. pub' = [pub EXCEPT ![n] = @ \cup S]
      BY <1>12
  <2> HIDE DEF S, q, n, p
  <2>4. /\ \A r, s \in S : r.mail = s.mail => r = s
        /\ \A r \in S : ~FM!Published(n, r.mail) /\ ((From[r.mail] = n) = (r.ingress = n))
        /\ \A r \in S : From[r.mail] = n => r.mail \in native'[n]
      BY <1>5, <2>1, <2>2
  <2>5. FM!PublishedOnce'
      BY <1>t, <1>2, <2>3, <2>4, FtnPublishedAnew
  <2>6. \A a \in Boards : \A r \in pub'[a] : From[r.mail] = a => r.mail \in native'[a]
      BY <1>t, <1>2, <2>3, <2>4, FtnOwnAreNative
  <2> QED
      BY <2>5, <2>6
<1> QED
    BY <1>7, <1>11, <1>12

LEMMA FtnHomeNext == ASSUME FM!FtnAssumption, FtnRestores = 0, FtnHomeInv, [FM!Next]_(FM!vars) PROVE FtnHomeInv'
<1>t. FtnTyped /\ FM!PublishedOnce /\ FtnAtHome /\ FtnNeverRestored /\ FtnIdentityInv
    BY DEF FtnHomeInv, FtnIdentityInv
<1>1. FtnIdentityInv' /\ FtnNeverRestored' /\ FtnGrows
    BY <1>t, FtnIdentityNext, FtnStillNeverRestored
<1> DEFINE Native == \A a \in Boards : \A p \in pub'[a] : From[p.mail] = a => p.mail \in native'[a]
           Onward == /\ FM!PublishedOnce' /\ Native
                   /\ (FtnNothingSighted \/ \E b : FtnHomeSighted(b))
<1>2. ASSUME pub' = pub PROVE FM!PublishedOnce' /\ Native
    BY <1>t, <1>1, <1>2 DEF FM!PublishedOnce, FtnAtHome, FtnGrows
<1>3. ASSUME UNCHANGED FM!vars PROVE Onward
  <2>1. FtnNothingSighted
    <3>1. /\ UNCHANGED <<pub, receipts, ftnCopy, serial, hold, evidence>>
          /\ \A j \in ftnQueue' : j.packet = FM!NoPacket \/ \E i \in ftnQueue : j.packet = i.packet
        BY <1>3 DEF FM!vars
    <3> QED
        BY <1>t, <3>1, FtnQuietStep
  <2> QED
      BY <1>2, <1>3, <2>1 DEF FM!vars
<1>4. ASSUME FM!Next PROVE Onward
  <2>1. ASSUME NEW m \in Mails, FM!SendMail(m) PROVE Onward
    <3>1. From[m] \in Boards
        BY DEF FM!FtnAssumption, FM!MailsAssumption
    <3> QED
        BY <1>t, <1>1, <2>1, <3>1, FtnSendMailAtHome, FtnSendMailIdentity
  <2>2. ASSUME NEW b \in Boards, FM!Scan(b) PROVE Onward
      BY <1>t, <1>1, <2>2, FtnScanAtHome, FtnScanIdentity
  <2>3. ASSUME NEW b \in Boards, FM!Backup(b) \/ FM!Restore(b) \/ FM!Reconcile(b) PROVE FALSE
      BY <1>t, <2>3 DEF FM!Backup, FM!Restore, FM!Reconcile, FtnNeverRestored
  <2>4. ASSUME NEW i \in ftnQueue, FM!Transfer(i) PROVE Onward
      BY <1>t, <1>1, <2>4, FtnTransferAtHome, FtnTransferIdentity
  <2>5. ASSUME NEW i \in ftnQueue, FM!Build(i) PROVE Onward
      BY <1>t, <1>2, <2>5, FtnBuildIdentity DEF FM!Build, FM!board
  <2>6. ASSUME \/ \E m \in Mails : FM!Post(m)
               \/ \E i \in ftnQueue : FM!Release(i)
               \/ \E b, n \in Boards : FM!Subscribe(b, n) \/ FM!Unsubscribe(b, n) \/ FM!Rescan(b, n)
        PROVE  Onward
    <3>1. pub' = pub
        BY <2>6 DEF FM!Post, FM!Release, FM!Subscribe, FM!Unsubscribe, FM!Rescan, FM!board
    <3> QED
        BY <1>t, <1>2, <2>6, <3>1, FtnSimpleIdentity
  <2> QED
      BY <1>4, <2>1, <2>2, <2>3, <2>4, <2>5, <2>6 DEF FM!Next
<1>5. Onward
    BY <1>3, <1>4
<1>6. \A x : \A m \in Mails : FtnSighted(x, m)' => FtnPubSights(pub'[From[m]], x, m)
    BY <1>1, <1>5, FtnHomeKept
<1>7. FtnAtHome'
    BY <1>5, <1>6 DEF FtnAtHome
<1> QED
    BY <1>1, <1>5, <1>7 DEF FtnHomeInv

-----------------------------------------------------------------------------
(* What is listed as served.                                                  *)

FtnServed(n, m) == FM!Published(n, m) \/ FM!Quarantined(n, m)
FtnReached(n, m) == FtnServed(n, m) \/ FM!OnTheWay(n, m)

\* The nodes that are listed with an echo have it or get it; those it came by published it.
FtnPlacesFit(m, seen, path) == m \in Echo => \A n \in Boards \ Points :
    /\ Node[n] \in seen => FtnReached(n, m)
    /\ Node[n] \in path => FM!Published(n, m)

FtnServedInv ==
    /\ \A b \in Boards : \A p \in pub[b] : FtnPlacesFit(p.mail, p.seen, p.path)
    /\ \A i \in ftnQueue : i.packet # FM!NoPacket => FtnPlacesFit(i.packet.mail, i.packet.seen, i.packet.path)
    /\ \A i \in ftnQueue : i.state = "accepted" /\ i.mail \in Echo => FtnServed(i.to, i.mail)
    /\ \A b \in Boards : \A r \in receipts[b] :
           r.artifact[2] \in Echo => FtnServed(b, r.artifact[2])

\* Work that is not accepted stays, or has arrived.
FtnStaysOnTheWay ==
    \A i \in ftnQueue : i.mail \in Echo /\ i.state # "accepted" => FtnReached(i.to, i.mail)'

LEMMA FtnServedStays ==
    ASSUME FtnGrows, NEW n \in Boards, NEW m, FtnServed(n, m)
    PROVE  FtnServed(n, m)'
BY DEF FtnGrows, FtnServed, FM!Published, FM!Quarantined

LEMMA FtnPlacesKept ==
    ASSUME FtnGrows, FtnStaysOnTheWay, NEW m, NEW seen, NEW path, FtnPlacesFit(m, seen, path)
    PROVE  FtnPlacesFit(m, seen, path)'
<1> SUFFICES ASSUME m \in Echo, NEW n \in Boards \ Points
             PROVE  /\ Node[n] \in seen => FtnReached(n, m)'
                    /\ Node[n] \in path => FM!Published(n, m)'
    BY DEF FtnPlacesFit
<1>1. FM!Published(n, m) => FM!Published(n, m)'
    BY DEF FtnGrows, FM!Published
<1>2. FtnServed(n, m) => FtnReached(n, m)'
    BY FtnServedStays DEF FtnReached
<1>3. FM!OnTheWay(n, m) => FtnReached(n, m)'
    BY DEF FM!OnTheWay, FtnStaysOnTheWay
<1>4. /\ Node[n] \in seen => FtnReached(n, m)
      /\ Node[n] \in path => FM!Published(n, m)
    BY DEF FtnPlacesFit
<1> QED
    BY <1>1, <1>2, <1>3, <1>4 DEF FtnReached

\* What a step has to leave.
LEMMA FtnServedKept ==
    ASSUME FtnServedInv, FtnGrows, FtnStaysOnTheWay,
           \A b \in Boards : \A p \in pub'[b] : p \in pub[b] \/ FtnPlacesFit(p.mail, p.seen, p.path),
           \A j \in ftnQueue' : \/ j.packet = FM!NoPacket
                             \/ FtnPlacesFit(j.packet.mail, j.packet.seen, j.packet.path),
           \A j \in ftnQueue' : j.state = "accepted" /\ j.mail \in Echo => FtnServed(j.to, j.mail)',
           \A b \in Boards : \A r \in receipts'[b] :
               r \in receipts[b] \/ (r.artifact[2] \in Echo => FtnServed(b, r.artifact[2])')
    PROVE  FtnServedInv'
<1>1. ASSUME NEW b \in Boards, NEW p \in pub'[b] PROVE FtnPlacesFit(p.mail, p.seen, p.path)'
  <2>1. FtnPlacesFit(p.mail, p.seen, p.path)
      BY DEF FtnServedInv
  <2> QED
      BY <2>1, FtnPlacesKept
<1>2. ASSUME NEW j \in ftnQueue', j.packet # FM!NoPacket
      PROVE  FtnPlacesFit(j.packet.mail, j.packet.seen, j.packet.path)'
  <2>1. FtnPlacesFit(j.packet.mail, j.packet.seen, j.packet.path)
      BY <1>2
  <2> QED
      BY <2>1, FtnPlacesKept
<1>3. ASSUME NEW b \in Boards, NEW r \in receipts'[b], r.artifact[2] \in Echo
      PROVE  FtnServed(b, r.artifact[2])'
  <2>1. r \in receipts[b] => FtnServed(b, r.artifact[2])
      BY <1>3 DEF FtnServedInv
  <2> QED
      BY <1>3, <2>1, FtnServedStays
<1> QED
    BY <1>1, <1>2, <1>3 DEF FtnServedInv

\* A step whose rows are those before, in other states, and new ones.
LEMMA FtnRowsServed ==
    ASSUME FM!FtnAssumption, FtnTyped, FtnServedInv, FtnGrows, UNCHANGED receipts,
           \A b \in Boards : \A p \in pub'[b] : p \in pub[b] \/ (p.seen = {} /\ p.path = {}),
           \A i \in ftnQueue : i.state # "accepted" =>
               \E j \in ftnQueue' : j.to = i.to /\ j.mail = i.mail /\ j.state # "accepted",
           \A j \in ftnQueue' :
               \/ j.packet = FM!NoPacket /\ j.state # "accepted"
               \/ \E i \in ftnQueue : /\ j.to = i.to /\ j.mail = i.mail /\ j.packet = i.packet
                                   /\ (j.state = "accepted" => i.state = "accepted")
    PROVE  FtnServedInv'
<1>1. FtnStaysOnTheWay
    BY DEF FtnStaysOnTheWay, FtnReached, FM!OnTheWay
<1>2. \A m : FtnPlacesFit(m, {}, {})
    BY DEF FtnPlacesFit
<1>3. \A b \in Boards : \A p \in pub'[b] : p \in pub[b] \/ FtnPlacesFit(p.mail, p.seen, p.path)
    BY <1>2
<1>4. \A j \in ftnQueue' : \/ j.packet = FM!NoPacket
                        \/ FtnPlacesFit(j.packet.mail, j.packet.seen, j.packet.path)
    BY DEF FtnServedInv
<1>5. ASSUME NEW j \in ftnQueue', j.state = "accepted", j.mail \in Echo PROVE FtnServed(j.to, j.mail)'
  <2>1. PICK i \in ftnQueue : j.to = i.to /\ j.mail = i.mail /\ i.state = "accepted"
      BY <1>5
  <2>2. FtnServed(i.to, i.mail)
      BY <1>5, <2>1 DEF FtnServedInv
  <2>3. i.to \in Boards
      BY DEF FtnTyped, FtnFits, FtnItemFits, FtnItems
  <2> QED
      BY <2>1, <2>2, <2>3, FtnServedStays
<1>6. \A b \in Boards : \A r \in receipts'[b] : r \in receipts[b]
    OBVIOUS
<1> QED
    BY <1>1, <1>3, <1>4, <1>5, <1>6, FtnServedKept

\* A packet lists the boards that have the mail, and those it is queued for.
LEMMA FtnPackedPlaces ==
    ASSUME FM!FtnAssumption, FtnTyped, FtnServedInv, NEW i \in ftnQueue, NEW p \in pub[i.at], p.mail = i.mail
    PROVE  FtnPlacesFit(FM!Packed(i, p).mail, FM!Packed(i, p).seen, FM!Packed(i, p).path)
<1>1. FtnItemFits(i) /\ i.at \in Boards /\ i.to \in Peers[i.at]
    BY DEF FtnTyped, FtnFits, FtnItemFits, FtnItems
<1> DEFINE nodes == {Node[j.to] : j \in {k \in {l \in ftnQueue : l.at = i.at /\ l.mail = i.mail /\ l.key = i.key} :
                                        k.to \notin Points}}
           seen == p.seen \cup FM!Own(i.at) \cup nodes
<1>2. i.to \notin Points \/ i.at \notin Points
    BY <1>1 DEF FM!FtnAssumption, FM!PointsAssumption
<1>3. seen # {}
    BY <1>2 DEF FM!Own
<1>4. i.mail \in Echo => /\ FM!Packed(i, p).seen = seen
                         /\ FM!Packed(i, p).path = p.path \cup FM!Own(i.at)
    BY <1>3 DEF FM!Packed
<1>5. FM!Packed(i, p).mail = i.mail
    BY FtnPackedFits
<1> SUFFICES ASSUME i.mail \in Echo, NEW n \in Boards \ Points
             PROVE  /\ Node[n] \in seen => FtnReached(n, i.mail)
                    /\ Node[n] \in p.path \cup FM!Own(i.at) => FM!Published(n, i.mail)
    BY <1>4, <1>5 DEF FtnPlacesFit
<1>6. FtnPlacesFit(i.mail, p.seen, p.path)
    BY <1>1 DEF FtnServedInv
<1>7. Node[n] \in FM!Own(i.at) => FM!Published(n, i.mail)
  <2> SUFFICES ASSUME Node[n] \in FM!Own(i.at) PROVE FM!Published(n, i.mail)
      OBVIOUS
  <2>1. i.at \notin Points /\ Node[n] = Node[i.at]
      BY DEF FM!Own
  <2>2. n = i.at
      BY <1>1, <2>1 DEF FM!FtnAssumption, FM!PointsAssumption
  <2> QED
      BY <2>2 DEF FM!Published
<1>8. Node[n] \in nodes => FtnReached(n, i.mail)
  <2> SUFFICES ASSUME Node[n] \in nodes PROVE FtnReached(n, i.mail)
      OBVIOUS
  <2>1. PICK j \in ftnQueue : j.mail = i.mail /\ j.to \notin Points /\ Node[n] = Node[j.to]
      OBVIOUS
  <2>2. j.to \in Boards
      BY DEF FtnTyped, FtnFits, FtnItemFits, FtnItems
  <2>3. n = j.to
      BY <2>1, <2>2 DEF FM!FtnAssumption, FM!PointsAssumption
  <2> QED
      BY <2>1, <2>3 DEF FtnReached, FM!OnTheWay, FtnServedInv
<1>9. FM!Published(n, i.mail) => FtnReached(n, i.mail)
    BY DEF FtnReached, FtnServed
<1> QED
    BY <1>6, <1>7, <1>8, <1>9 DEF FtnPlacesFit

\* The steps that leave the rows as they are, or change their states, or add some.
LEMMA FtnSimpleServed ==
    ASSUME FM!FtnAssumption, FtnTyped, FtnServedInv, FtnGrows,
           \/ \E m \in Mails : FM!Post(m) \/ FM!SendMail(m)
           \/ \E b \in Boards : FM!Scan(b)
           \/ \E b, n \in Boards : FM!Subscribe(b, n)
    PROVE  FtnServedInv'
<1>1. UNCHANGED receipts
    BY DEF FM!Post, FM!SendMail, FM!Scan, FM!Subscribe
<1>2. \A b \in Boards : \A p \in pub'[b] : p \in pub[b] \/ (p.seen = {} /\ p.path = {})
  <2>1. pub \in [Boards -> SUBSET FtnPublications]
      BY DEF FtnTyped, FtnBoardTyped
  <2>2. \A m, x, b : /\ FM!Publication(m, x, b, {}, {}, FALSE).seen = {}
                     /\ FM!Publication(m, x, b, {}, {}, FALSE).path = {}
      BY DEF FM!Publication
  <2>3. CASE \E m \in Mails : FM!Post(m)
      BY <2>3 DEF FM!Post
  <2>4. ASSUME NEW m \in Mails, FM!SendMail(m), NEW b \in Boards, NEW p \in pub'[b]
        PROVE  p \in pub[b] \/ (p.seen = {} /\ p.path = {})
      BY <2>1, <2>2, <2>4 DEF FM!SendMail
  <2>5. ASSUME NEW c \in Boards, FM!Scan(c), NEW b \in Boards, NEW p \in pub'[b]
        PROVE  p \in pub[b] \/ (p.seen = {} /\ p.path = {})
    <3>1. \E S : pub' = [pub EXCEPT ![c] = @ \cup S] /\ \A q \in S : q.seen = {} /\ q.path = {}
      <4> DEFINE fresh == {m \in native[c] \cap Echo : ~FM!Published(c, m)}
      <4>1. PICK number \in [fresh -> serial[c] .. serial[c] + Cardinality(fresh) - 1] :
                pub' = [pub EXCEPT ![c] = @ \cup
                    {FM!Publication(m, <<c, number[m]>>, c, {}, {}, FALSE) : m \in fresh}]
          BY <2>5, FtnCounts DEF FM!Scan
      <4> HIDE DEF fresh
      <4>2. \A q \in {FM!Publication(m, <<c, number[m]>>, c, {}, {}, FALSE) : m \in fresh} :
                q.seen = {} /\ q.path = {}
          BY <2>2
      <4> QED
          BY <4>1, <4>2
    <3> QED
        BY <2>1, <3>1
  <2>6. CASE \E b, n \in Boards : FM!Subscribe(b, n)
      BY <2>6 DEF FM!Subscribe
  <2> QED
      BY <2>3, <2>4, <2>5, <2>6
<1> DEFINE Adds == /\ ftnQueue \subseteq ftnQueue'
                    /\ \A j \in ftnQueue' : j \in ftnQueue \/ (j.packet = FM!NoPacket /\ j.state = "pending")
<1>3. Adds
  <2>1. \A b, n, m : /\ FM!Item(b, n, m, "normal").packet = FM!NoPacket
                     /\ FM!Item(b, n, m, "normal").state = "pending"
      BY DEF FM!Item
  <2>2. CASE (\E m \in Mails : FM!Post(m)) \/ (\E b, n \in Boards : FM!Subscribe(b, n))
    <3>1. ftnQueue' = ftnQueue
        BY <2>2 DEF FM!Post, FM!Subscribe
    <3> QED
        BY <3>1
  <2>3. ASSUME NEW m \in Mails, FM!SendMail(m)
        PROVE  Adds
    <3>1. ftnQueue' = ftnQueue \cup {FM!Item(From[m], n, m, "normal") : n \in FM!NetTargets(From[m], m)}
        BY <2>3 DEF FM!SendMail
    <3> QED
        BY <2>1, <3>1
  <2>4. ASSUME NEW b \in Boards, FM!Scan(b)
        PROVE  Adds
    <3> DEFINE fresh == {m \in native[b] \cap Echo : ~FM!Published(b, m)}
    <3>1. ftnQueue' = ftnQueue \cup UNION
              {{FM!Item(b, n, m, "normal") : n \in FM!EchoTargets(b, m, {}, {}, b)} : m \in fresh}
        BY <2>4 DEF FM!Scan
    <3> HIDE DEF fresh
    <3>2. \A j \in UNION {{FM!Item(b, n, m, "normal") : n \in FM!EchoTargets(b, m, {}, {}, b)} : m \in fresh} :
              j.packet = FM!NoPacket /\ j.state = "pending"
        BY <2>1
    <3> QED
        BY <3>1, <3>2
  <2> QED
      BY <2>2, <2>3, <2>4
<1>4. /\ \A i \in ftnQueue : i.state # "accepted" =>
               \E j \in ftnQueue' : j.to = i.to /\ j.mail = i.mail /\ j.state # "accepted"
      /\ \A j \in ftnQueue' :
               \/ j.packet = FM!NoPacket /\ j.state # "accepted"
               \/ \E i \in ftnQueue : /\ j.to = i.to /\ j.mail = i.mail /\ j.packet = i.packet
                                   /\ (j.state = "accepted" => i.state = "accepted")
    BY <1>3
<1> QED
    BY <1>1, <1>2, <1>4, FtnRowsServed

LEMMA FtnRowStepsServed ==
    ASSUME FM!FtnAssumption, FtnTyped, FtnServedInv, FtnGrows,
           \/ \E i \in ftnQueue : FM!Release(i)
           \/ \E b, n \in Boards : FM!Unsubscribe(b, n) \/ FM!Rescan(b, n)
    PROVE  FtnServedInv'
<1>1. UNCHANGED <<pub, receipts>>
    BY DEF FM!Release, FM!Unsubscribe, FM!Rescan, FM!board
<1>2. \A b \in Boards : \A p \in pub'[b] : p \in pub[b] \/ (p.seen = {} /\ p.path = {})
    BY <1>1
<1> DEFINE Stay == \A i \in ftnQueue : i.state # "accepted" =>
               \E j \in ftnQueue' : j.to = i.to /\ j.mail = i.mail /\ j.state # "accepted"
           Come == \A j \in ftnQueue' :
               \/ j.packet = FM!NoPacket /\ j.state # "accepted"
               \/ \E i \in ftnQueue : /\ j.to = i.to /\ j.mail = i.mail /\ j.packet = i.packet
                                   /\ (j.state = "accepted" => i.state = "accepted")
<1>3. ASSUME NEW i \in ftnQueue, NEW x \in {"pending", "ready", "held", "accepted"},
             x = "ready" => i.packet # FM!NoPacket
      PROVE  /\ [i EXCEPT !.state = x].packet = i.packet /\ [i EXCEPT !.state = x].to = i.to
             /\ [i EXCEPT !.state = x].mail = i.mail /\ [i EXCEPT !.state = x].state = x
    BY <1>3, FtnStateFits DEF FtnTyped, FtnFits
<1>4. ASSUME NEW i \in ftnQueue, FM!Release(i) PROVE Stay /\ Come
  <2> DEFINE x == IF i.packet = FM!NoPacket THEN "pending" ELSE "ready"
  <2>1. ftnQueue' = (ftnQueue \ {i}) \cup {[i EXCEPT !.state = x]} /\ i.state = "held"
      BY <1>4 DEF FM!Release
  <2>2. x \in {"pending", "ready", "held", "accepted"} /\ (x = "ready" => i.packet # FM!NoPacket) /\ x # "accepted"
      OBVIOUS
  <2> HIDE DEF x
  <2>3. LET j == [i EXCEPT !.state = x]
        IN  j.packet = i.packet /\ j.to = i.to /\ j.mail = i.mail /\ j.state = x
      BY <1>3, <2>2
  <2> QED
      BY <2>1, <2>2, <2>3
<1>5. ASSUME NEW b \in Boards, NEW n \in Boards, FM!Unsubscribe(b, n) PROVE Stay /\ Come
  <2>1. PICK claimed \in SUBSET {i \in ftnQueue : i.state = "ready"} :
          ftnQueue' = {IF i.at = b /\ i.to = n /\ i.mail \in Echo /\ i.state \in FM!Unsent
                       /\ i \notin claimed
                    THEN [i EXCEPT !.state = "held"] ELSE i : i \in ftnQueue}
      BY <1>5 DEF FM!Unsubscribe
  <2> DEFINE put(i) == IF i.at = b /\ i.to = n /\ i.mail \in Echo /\ i.state \in FM!Unsent /\ i \notin claimed
                       THEN [i EXCEPT !.state = "held"] ELSE i
  <2>2. \A i \in ftnQueue : /\ put(i).to = i.to /\ put(i).mail = i.mail /\ put(i).packet = i.packet
                         /\ (put(i).state = "accepted" => i.state = "accepted")
                         /\ (i.state # "accepted" => put(i).state # "accepted")
      BY <1>3 DEF FM!Unsent
  <2>3. ftnQueue' = {put(i) : i \in ftnQueue}
      BY <2>1
  <2> HIDE DEF put
  <2>4. \A i \in ftnQueue : put(i) \in ftnQueue'
      BY <2>3
  <2>5. \A j \in ftnQueue' : \E i \in ftnQueue : j = put(i)
      BY <2>3
  <2>6. Stay
      BY <2>2, <2>4
  <2>7. Come
      BY <2>2, <2>5
  <2> QED
      BY <2>6, <2>7
<1>6. ASSUME NEW b \in Boards, NEW n \in Boards, FM!Rescan(b, n) PROVE Stay /\ Come
  <2>1. /\ ~\E i \in ftnQueue : i.at = b /\ i.to = n /\ i.key = "rescan" /\ i.state # "accepted"
        /\ ftnQueue' = {i \in ftnQueue : ~(i.at = b /\ i.to = n /\ i.key = "rescan")} \cup
              {FM!Item(b, n, p.mail, "rescan") : p \in {q \in pub[b] : q.mail \in Echo}}
      BY <1>6 DEF FM!Rescan
  <2>2. \A j \in ftnQueue' : j \in ftnQueue \/ (j.packet = FM!NoPacket /\ j.state = "pending")
      BY <2>1 DEF FM!Item
  <2>3. \A i \in ftnQueue : i.state # "accepted" => i \in ftnQueue'
      BY <2>1
  <2> QED
      BY <2>2, <2>3
<1>7. Stay /\ Come
    BY <1>4, <1>5, <1>6
<1> QED
    BY <1>1, <1>2, <1>7, FtnRowsServed

LEMMA FtnBuildServed ==
    ASSUME FM!FtnAssumption, FtnTyped, FtnServedInv, FtnGrows, NEW i \in ftnQueue, FM!Build(i)
    PROVE  FtnServedInv'
<1>1. PICK p \in pub[i.at] :
          /\ p.mail = i.mail
          /\ ftnQueue' = (ftnQueue \ {i}) \cup
                {IF i.mail \in Echo /\ i.to \notin subs[i.at]
                 THEN [i EXCEPT !.state = "held"]
                 ELSE [i EXCEPT !.state = "ready", !.packet = FM!Packed(i, p)]}
    BY DEF FM!Build
<1>2. UNCHANGED <<pub, receipts>>
    BY DEF FM!Build, FM!board
<1> DEFINE j == IF i.mail \in Echo /\ i.to \notin subs[i.at]
                THEN [i EXCEPT !.state = "held"]
                ELSE [i EXCEPT !.state = "ready", !.packet = FM!Packed(i, p)]
           x == FM!Packed(i, p)
<1>3. FtnItemFits(i)
    BY DEF FtnTyped, FtnFits
<1>4. /\ j.to = i.to /\ j.mail = i.mail /\ j.state # "accepted"
      /\ j.packet = i.packet \/ j.packet = x
    BY <1>1, <1>3, FtnStateFits, FtnBuiltFits
<1>5. FtnPlacesFit(x.mail, x.seen, x.path)
    BY <1>1, FtnPackedPlaces
<1>6. ftnQueue' = (ftnQueue \ {i}) \cup {j}
    BY <1>1
<1> HIDE DEF j, x
<1>7. FtnStaysOnTheWay
    BY <1>4, <1>6 DEF FtnStaysOnTheWay, FtnReached, FM!OnTheWay
<1>8. \A k \in ftnQueue' : k.packet = FM!NoPacket \/ FtnPlacesFit(k.packet.mail, k.packet.seen, k.packet.path)
    BY <1>4, <1>5, <1>6 DEF FtnServedInv
<1>9. ASSUME NEW k \in ftnQueue', k.state = "accepted", k.mail \in Echo PROVE FtnServed(k.to, k.mail)'
  <2>1. k \in ftnQueue
      BY <1>4, <1>6, <1>9
  <2>2. FtnServed(k.to, k.mail) /\ k.to \in Boards
      BY <1>9, <2>1 DEF FtnServedInv, FtnTyped, FtnFits, FtnItemFits, FtnItems
  <2> QED
      BY <2>2, FtnServedStays
<1>10. /\ \A b \in Boards : \A q \in pub'[b] : q \in pub[b] \/ FtnPlacesFit(q.mail, q.seen, q.path)
       /\ \A b \in Boards : \A r \in receipts'[b] :
               r \in receipts[b] \/ (r.artifact[2] \in Echo => FtnServed(b, r.artifact[2])')
    BY <1>2
<1> QED
    BY <1>7, <1>8, <1>9, <1>10, FtnServedKept

\* A packet of the area that arrives is published or set aside for review, or was before.
LEMMA FtnArrivedIsServed ==
    ASSUME FM!FtnAssumption, FtnHomeInv, FtnServedInv, FtnGrows, NEW i \in ftnQueue, FM!Transfer(i), i.mail \in Echo
    PROVE  FtnServed(i.to, i.mail)'
<1>t. FtnTyped
    BY DEF FtnHomeInv, FtnIdentityInv
<1> DEFINE p == i.packet
           n == i.to
           o == FM!Outcome(n, i.at, p)
           r == [link |-> i.at, artifact |-> p.artifact, outcome |-> o]
<1>1. i.state = "ready"
    BY DEF FM!Transfer
<1>2. /\ p \in FtnPacket /\ p # FM!NoPacket /\ n \in Boards /\ i.at \in Boards
      /\ p.mail = i.mail /\ p.artifact[2] = i.mail /\ i.mail \in Mails
    BY <1>t, <1>1, FtnReadyPacket
<1>3. PICK items : FM!Toss(n, i.at, p, items)
    BY DEF FM!Transfer
<1>4. FM!Published(n, i.mail) => FtnServed(n, i.mail)'
  <2>1. FM!Published(n, i.mail) => FtnServed(n, i.mail)
      BY DEF FtnServed
  <2> QED
      BY <1>2, <2>1, FtnServedStays
<1>5. pub \in [Boards -> SUBSET FtnPublications] /\ receipts \in [Boards -> SUBSET FtnReceipts]
    BY <1>t DEF FtnTyped, FtnBoardTyped
<1>6. CASE \E s \in receipts[n] : s.link = i.at /\ s.artifact = p.artifact
  <2>1. FtnServed(n, i.mail)
      BY <1>2, <1>6 DEF FtnServedInv
  <2> QED
      BY <1>2, <2>1, FtnServedStays
<1>7. CASE o = "imported" /\ ~\E s \in receipts[n] : s.link = i.at /\ s.artifact = p.artifact
  <2> DEFINE q == FM!Publication(p.mail, p.ident, i.at, p.seen, p.path, p.marked)
  <2>1. q.mail = p.mail
      BY DEF FM!Publication
  <2>2. pub' = [pub EXCEPT ![n] = @ \cup {q}]
      BY <1>3, <1>7, FtnTossWays
  <2> HIDE DEF q
  <2>3. q \in pub'[n]
      BY <1>2, <1>5, <2>2
  <2> QED
      BY <1>2, <2>1, <2>3 DEF FtnServed, FM!Published
<1>8. CASE o # "imported" /\ ~\E s \in receipts[n] : s.link = i.at /\ s.artifact = p.artifact
  <2>1. receipts' = [receipts EXCEPT ![n] = @ \cup {r}]
      BY <1>3, <1>8, FtnTossWays
  <2>2. r.artifact[2] = i.mail /\ r.outcome = o
      BY <1>2
  <2> HIDE DEF r
  <2>3. r \in receipts'[n]
      BY <1>2, <1>5, <2>1
  <2>4. CASE o \in {"denied", "conflict", "routing"}
      BY <2>2, <2>3, <2>4 DEF FtnServed, FM!Quarantined
  <2>5. CASE o = "duplicate"
    <3>1. FM!Prior(n, p) # {} /\ \A q \in FM!Prior(n, p) : q.mail = p.mail
        BY <1>2, <2>5 DEF FM!Outcome
    <3>2. FM!Published(n, i.mail)
        BY <1>2, <3>1 DEF FM!Prior, FM!Published
    <3> QED
        BY <1>4, <3>2
  <2>6. CASE o = "loop"
    <3>1. FM!Loops(n, p)
        BY <1>2, <2>6 DEF FM!Outcome
    <3>2. CASE From[p.mail] = n
      <4>1. FM!Prior(n, p) # {}
          BY <1>2, <3>2, FtnPriorFound
      <4> QED
          BY <2>6, <4>1 DEF FM!Outcome
    <3>3. CASE n \notin Points /\ Node[n] \in p.path
      <4>1. FtnPlacesFit(p.mail, p.seen, p.path)
          BY <1>2 DEF FtnServedInv
      <4>2. FM!Published(n, i.mail)
          BY <1>2, <3>3, <4>1 DEF FtnPlacesFit
      <4> QED
          BY <1>4, <4>2
    <3> QED
        BY <3>1, <3>2, <3>3 DEF FM!Loops
  <2>7. o \in FtnOutcomes
      BY FtnOutcomeTyped
  <2> QED
      BY <1>8, <2>4, <2>5, <2>6, <2>7 DEF FtnOutcomes
<1> QED
    BY <1>6, <1>7, <1>8

LEMMA FtnTransferServed ==
    ASSUME FM!FtnAssumption, FtnHomeInv, FtnServedInv, FtnGrows, NEW i \in ftnQueue, FM!Transfer(i)
    PROVE  FtnServedInv'
<1>t. FtnTyped
    BY DEF FtnHomeInv, FtnIdentityInv
<1> DEFINE p == i.packet
           n == i.to
           k == [i EXCEPT !.state = "accepted"]
           q == FM!Publication(p.mail, p.ident, i.at, p.seen, p.path, p.marked)
<1>1. i.state = "ready"
    BY DEF FM!Transfer
<1>2. /\ p \in FtnPacket /\ p # FM!NoPacket /\ n \in Boards /\ i.at \in Boards
      /\ p.mail = i.mail /\ p.artifact[2] = i.mail
    BY <1>t, <1>1, FtnReadyPacket
<1>3. k.packet = p /\ k.to = n /\ k.mail = i.mail /\ k.state = "accepted"
    BY <1>t, FtnStateFits DEF FtnTyped, FtnFits
<1>4. i.mail \in Echo => FtnServed(n, i.mail)'
    BY FtnArrivedIsServed
<1>5. q.mail = p.mail /\ q.seen = p.seen /\ q.path = p.path
    BY DEF FM!Publication
<1>6. pub \in [Boards -> SUBSET FtnPublications] /\ receipts \in [Boards -> SUBSET FtnReceipts]
    BY <1>t DEF FtnTyped, FtnBoardTyped
<1>7. PICK items \in {ftnQueue, (ftnQueue \ {i}) \cup {k}} : FM!Toss(n, i.at, p, items)
    BY DEF FM!Transfer
<1>8. /\ pub' = pub \/ pub' = [pub EXCEPT ![n] = @ \cup {q}]
      /\ receipts' = receipts \/ \E o : receipts' = [receipts EXCEPT ![n] = @ \cup
                                   {[link |-> i.at, artifact |-> p.artifact, outcome |-> o]}]
      /\ items \subseteq ftnQueue' /\ \A j \in ftnQueue' : j \in items \/ (j.packet = FM!NoPacket /\ j.state = "pending")
  <2>1. \A b, t, m : /\ FM!Item(b, t, m, "normal").packet = FM!NoPacket
                     /\ FM!Item(b, t, m, "normal").state = "pending"
      BY DEF FM!Item
  <2>2. ftnQueue' = items \/ ftnQueue' = items \cup {FM!Item(n, t, p.mail, "normal") : t \in FtnGoes(n, i.at, p)}
      BY <1>7, FtnTossWays
  <2>3. pub' = pub \/ pub' = [pub EXCEPT ![n] = @ \cup {q}]
      BY <1>7, FtnTossWays
  <2>4. receipts' = receipts \/ \E o : receipts' = [receipts EXCEPT ![n] = @ \cup
                                   {[link |-> i.at, artifact |-> p.artifact, outcome |-> o]}]
      BY <1>7, FtnTossWays
  <2> QED
      BY <2>1, <2>2, <2>3, <2>4
<1>9. FtnPlacesFit(p.mail, p.seen, p.path)
    BY <1>2 DEF FtnServedInv
<1> HIDE DEF k, q
<1>10. FtnStaysOnTheWay
  <2> SUFFICES ASSUME NEW j \in ftnQueue, j.mail \in Echo, j.state # "accepted" PROVE FtnReached(j.to, j.mail)'
      BY DEF FtnStaysOnTheWay
  <2>1. CASE j = i
      BY <1>4, <2>1 DEF FtnReached
  <2>2. CASE j # i
    <3>1. j \in ftnQueue'
        BY <1>7, <1>8, <2>2
    <3> QED
        BY <3>1 DEF FtnReached, FM!OnTheWay
  <2> QED
      BY <2>1, <2>2
<1>11. \A j \in ftnQueue' : j.packet = FM!NoPacket \/ FtnPlacesFit(j.packet.mail, j.packet.seen, j.packet.path)
    BY <1>3, <1>7, <1>8, <1>9 DEF FtnServedInv
<1>12. ASSUME NEW j \in ftnQueue', j.state = "accepted", j.mail \in Echo PROVE FtnServed(j.to, j.mail)'
  <2>1. j = k \/ j \in ftnQueue
      BY <1>7, <1>8, <1>12
  <2>2. CASE j = k
      BY <1>3, <1>4, <1>12, <2>2
  <2>3. CASE j \in ftnQueue
    <3>1. FtnServed(j.to, j.mail) /\ j.to \in Boards
        BY <1>t, <1>12, <2>3 DEF FtnServedInv, FtnTyped, FtnFits, FtnItemFits, FtnItems
    <3> QED
        BY <3>1, FtnServedStays
  <2> QED
      BY <2>1, <2>2, <2>3
<1>13. \A b \in Boards : \A s \in pub'[b] : s \in pub[b] \/ FtnPlacesFit(s.mail, s.seen, s.path)
    BY <1>2, <1>5, <1>6, <1>8, <1>9
<1>14. \A b \in Boards : \A r \in receipts'[b] :
           r \in receipts[b] \/ (r.artifact[2] \in Echo => FtnServed(b, r.artifact[2])')
  <2> SUFFICES ASSUME NEW b \in Boards, NEW r \in receipts'[b], r \notin receipts[b], r.artifact[2] \in Echo
               PROVE  FtnServed(b, r.artifact[2])'
      OBVIOUS
  <2>1. b = n /\ r.artifact = p.artifact
      BY <1>2, <1>6, <1>8
  <2> QED
      BY <1>2, <1>4, <2>1
<1> QED
    BY <1>10, <1>11, <1>12, <1>13, <1>14, FtnServedKept

\* An echo is published once, and a node that a packet lists is served
\* (toss_ftn_admitted, build_ftn), for any boards and links, when no board is restored.
THEOREM FtnServedInvariant == FM!FtnAssumption /\ FtnRestores = 0 => (FM!Spec => [](FtnHomeInv /\ FtnServedInv))
<1> SUFFICES ASSUME FM!FtnAssumption, FtnRestores = 0 PROVE FM!Spec => [](FtnHomeInv /\ FtnServedInv)
    OBVIOUS
<1>1. FM!Init => FtnHomeInv /\ FtnServedInv
  <2> SUFFICES ASSUME FM!Init PROVE FtnHomeInv /\ FtnServedInv
      OBVIOUS
  <2>1. FtnIdentityInv
      BY FtnIdentityInit
  <2>2. FtnNeverRestored /\ FtnAtHome /\ FM!PublishedOnce
      BY DEF FM!Init, FtnNeverRestored, FtnAtHome, FM!PublishedOnce, FtnSighted, FtnPubSights, FtnItemSights, FtnCopySights
  <2>3. FtnServedInv
      BY DEF FM!Init, FtnServedInv
  <2> QED
      BY <2>1, <2>2, <2>3 DEF FtnHomeInv
<1>2. FtnHomeInv /\ FtnServedInv /\ [FM!Next]_(FM!vars) => (FtnHomeInv /\ FtnServedInv)'
  <2> SUFFICES ASSUME FtnHomeInv, FtnServedInv, [FM!Next]_(FM!vars) PROVE FtnHomeInv' /\ FtnServedInv'
      OBVIOUS
  <2>1. FtnTyped /\ FtnNeverRestored
      BY DEF FtnHomeInv, FtnIdentityInv
  <2>2. FtnHomeInv' /\ FtnGrows
      BY <2>1, FtnHomeNext, FtnStillNeverRestored
  <2>3. ASSUME UNCHANGED FM!vars PROVE FtnServedInv'
      BY <2>3 DEF FM!vars, FtnServedInv, FtnPlacesFit, FtnReached, FtnServed, FM!Published, FM!Quarantined, FM!OnTheWay
  <2>4. ASSUME FM!Next PROVE FtnServedInv'
    <3>1. ASSUME NEW b \in Boards, FM!Backup(b) \/ FM!Restore(b) \/ FM!Reconcile(b) PROVE FALSE
        BY <2>1, <3>1 DEF FM!Backup, FM!Restore, FM!Reconcile, FtnNeverRestored
    <3>2. CASE \/ \E m \in Mails : FM!Post(m) \/ FM!SendMail(m)
               \/ \E b \in Boards : FM!Scan(b)
               \/ \E b, n \in Boards : FM!Subscribe(b, n)
        BY <2>1, <2>2, <3>2, FtnSimpleServed
    <3>3. CASE \/ \E i \in ftnQueue : FM!Release(i)
               \/ \E b, n \in Boards : FM!Unsubscribe(b, n) \/ FM!Rescan(b, n)
        BY <2>1, <2>2, <3>3, FtnRowStepsServed
    <3>4. ASSUME NEW i \in ftnQueue, FM!Build(i) PROVE FtnServedInv'
        BY <2>1, <2>2, <3>4, FtnBuildServed
    <3>5. ASSUME NEW i \in ftnQueue, FM!Transfer(i) PROVE FtnServedInv'
        BY <2>2, <3>5, FtnTransferServed
    <3> QED
        BY <2>4, <3>1, <3>2, <3>3, <3>4, <3>5 DEF FM!Next
  <2> QED
      BY <2>2, <2>3, <2>4
<1> QED
    BY <1>1, <1>2, PTL DEF FM!Spec

\* A board publishes a mail once, however many copies reach it (toss_ftn_admitted).
THEOREM PublishedOnceHolds == FM!FtnAssumption /\ FtnRestores = 0 => (FM!Spec => []FM!PublishedOnce)
<1>1. FtnHomeInv /\ FtnServedInv => FM!PublishedOnce
    BY DEF FtnHomeInv
<1> QED
    BY <1>1, FtnServedInvariant, PTL

\* A node that a publication lists as having seen the mail has it, or gets it (build_ftn).
THEOREM SeenIsServedHolds == FM!FtnAssumption /\ FtnRestores = 0 => (FM!Spec => []FM!SeenIsServed)
<1>1. FtnHomeInv /\ FtnServedInv => FM!SeenIsServed
    BY DEF FtnServedInv, FM!SeenIsServed, FtnPlacesFit, FtnReached, FtnServed
<1> QED
    BY <1>1, FtnServedInvariant, PTL

-----------------------------------------------------------------------------
(***************************************************************************)
(* Offline packets, for any requests, messages and bounds.                 *)
(*                                                                         *)
(* A packet of new mail holds every readable message between the pointer   *)
(* and its high water when it was made, and what lies below the pointer is *)
(* accounted for.  Messages are numbered in order, so what is posted later *)
(* lies above the high water: a confirmation skips nothing, however        *)
(* requests overlap and wherever the caller has put the pointer since.     *)
(***************************************************************************)
CONSTANTS Requests, Size, Addressed, PacketChanges, MaxResets, PacketCrashes
VARIABLES msg, version, packetPolicy, access, pointer, resets, fresh, req, transfer,
    packetPc, received, packetCrashes, packetChanges, sent, chosen, changed, looked
OP == INSTANCE OfflinePackets WITH MaxChanges <- PacketChanges,
    MaxCrashes <- PacketCrashes, policy <- packetPolicy, pc <- packetPc,
    crashes <- packetCrashes, changes <- packetChanges

\* The instance counts as the standard module does.
LEMMA PacketCounts == \A S : OP!Cardinality(S) = Cardinality(S) /\ (OP!IsFiniteSet(S) <=> IsFiniteSet(S))
BY DEF OP!Cardinality, Cardinality, OP!IsFiniteSet, IsFiniteSet

(***************************************************************************)
(* Offline packets, for any requests, messages and bounds.                 *)
(*                                                                         *)
(* A packet of new mail holds every readable message between the pointer   *)
(* and its high water when it was made, and what lies below the pointer is *)
(* accounted for.  Messages are numbered in order, so what is posted later *)
(* lies above the high water: a confirmation skips nothing, however        *)
(* requests overlap and wherever the caller has put the pointer since.     *)
(***************************************************************************)

PacketRow == [state : {"none", "prepared", "delivered", "confirmed", "preview", "failed"},
        selection : OP!Selections, members : SUBSET OP!Member, high : 0..Size,
        policy : Nat, resets : Nat]
PacketTyped ==
    /\ msg \in [OP!Numbers -> {"none", "open", "closed", "deleted"}]
    /\ version \in [OP!Numbers -> Nat] /\ packetPolicy \in Nat /\ access \in BOOLEAN
    /\ pointer \in 0..Size /\ resets \in Nat /\ fresh \in BOOLEAN
    /\ req \in [Requests -> PacketRow]
    /\ transfer \in [Requests -> {"none", "transferring", "completed", "failed"}]
    /\ packetPc \in [Requests -> {"idle", "building", "offered", "sending", "sent", "confirming", "over"}]
    /\ received \subseteq Addressed
    /\ packetCrashes \in Nat /\ packetChanges \in Nat
PacketBounded ==
    /\ \A n \in OP!Numbers : version[n] <= packetChanges
    /\ packetPolicy <= packetChanges /\ packetChanges <= PacketChanges /\ resets <= MaxResets
    /\ \A r \in Requests : transfer[r] = "transferring" => packetPc[r] \in {"sending", "over"}

\* Messages are numbered in the order of their posting, and neither the pointer nor a
\* packet is ahead of the last one.
PacketPostedInOrder == \A n \in OP!Numbers : msg[n] # "none" <=> n <= OP!Highest
PacketBehind == pointer <= OP!Highest /\ \A r \in Requests : req[r].high <= OP!Highest

PacketAccounted == sent \cup chosen \cup changed
PacketPassed == \A n \in OP!Numbers : msg[n] = "open" /\ n <= pointer => n \in PacketAccounted
\* A packet of new mail leaves nothing out below its high water.
PacketCovered ==
    \A r \in Requests : req[r].selection = "new" =>
        \A n \in OP!Numbers : msg[n] = "open" /\ n <= req[r].high => n \in OP!Members(r) \cup PacketAccounted
PacketWasSent == \A r \in Requests : packetPc[r] \in {"sent", "confirming"} => OP!Members(r) \subseteq sent
PacketLookedAgain ==
    \A r \in Requests :
        /\ req[r].resets <= resets
        /\ packetPc[r] = "confirming" /\ req[r].resets = resets => r \in looked
PacketInv ==
    /\ PacketTyped /\ PacketBounded
    /\ PacketPostedInOrder /\ PacketBehind
    /\ PacketPassed /\ PacketCovered /\ PacketWasSent /\ PacketLookedAgain
    /\ OP!ReceivedWasSent
-----------------------------------------------------------------------------
\* A set of numbers has a largest one.
LEMMA PacketLargestExists ==
    ASSUME NEW N \in Nat, NEW S \in SUBSET (0..N), S # {}
    PROVE  \E h \in S : \A k \in S : k <= h
<1> DEFINE R == {ss \in Nat \X Nat : ss[1] < ss[2]}
           T == {k \in 0..N : N - k \in S}
<1>1. IsWellFoundedOn(R, Nat)
    BY NatLessThanWellFounded DEF OpToRel
<1>2. T \subseteq Nat /\ T # {}
    <2>1. PICK s \in S : TRUE
        OBVIOUS
    <2>2. N - s \in 0..N /\ N - (N - s) = s
        OBVIOUS
    <2> QED
        BY <2>1, <2>2
<1>3. \A y \in T, x \in T : <<y, x>> \notin R => x <= y
    <2> SUFFICES ASSUME NEW y \in T, NEW x \in T, <<y, x>> \notin R, ~(x <= y) PROVE FALSE
        OBVIOUS
    <2>1. x \in Nat /\ y \in Nat /\ y < x
        OBVIOUS
    <2>2. <<y, x>> \in Nat \X Nat /\ <<y, x>>[1] < <<y, x>>[2]
        BY <2>1
    <2> QED
        BY <2>2
<1>4. PICK x \in T : \A y \in T : <<y, x>> \notin R
    <2> HIDE DEF R, T
    <2> QED
        BY <1>1, <1>2, WFMin
<1>5. \A y \in T : x <= y
    <2> HIDE DEF R, T
    <2> QED
        BY <1>3, <1>4
<1>6. N - x \in S /\ x \in 0..N
    OBVIOUS
<1>7. \A k \in S : k <= N - x
    <2> TAKE k \in S
    <2>1. k \in 0..N /\ N - k \in 0..N /\ N - (N - k) = k
        OBVIOUS
    <2>2. N - k \in T
        BY <2>1
    <2>3. x <= N - k
        BY <1>5, <2>2
    <2> QED
        BY <1>6, <2>1, <2>3
<1> QED
    BY <1>6, <1>7

\* The high water of a packet is its last message or the pointer.
LEMMA PacketHighWaterIsLargest ==
    ASSUME Size \in Nat, pointer \in 0..Size, NEW S \in SUBSET OP!Numbers
    PROVE  /\ OP!HighWater(S) \in 0..Size
           /\ OP!HighWater(S) = pointer \/ OP!HighWater(S) \in S
           /\ \A k \in S \cup {pointer} : k <= OP!HighWater(S)
<1>1. S \cup {pointer} \in SUBSET (0..Size) /\ S \cup {pointer} # {}
    BY DEF OP!Numbers
<1>2. PICK h \in S \cup {pointer} : \A k \in S \cup {pointer} : k <= h
    BY <1>1, PacketLargestExists
<1>3. /\ h \in 0..Size
      /\ h = pointer \/ h \in S
      /\ \A k \in S \cup {pointer} : k <= h
    BY <1>1, <1>2
<1> QED
    BY <1>3 DEF OP!HighWater

\* A conference whose messages are numbered up to h has h messages.
LEMMA PacketCountIsLast ==
    ASSUME NEW N \in Nat, NEW h \in 0..N
    PROVE  Cardinality({n \in 1..N : n <= h}) = h
<1>1. {n \in 1..N : n <= h} = 1..h
    OBVIOUS
<1>2. h \in Nat /\ 1 \in Int /\ h \in Int
    OBVIOUS
<1>3. Cardinality(1..h) = IF 1 > h THEN 0 ELSE h - 1 + 1
    BY <1>2, FS_Interval
<1>4. Cardinality(1..h) = h
    BY <1>2, <1>3
<1> QED
    BY <1>1, <1>4

LEMMA PacketHighestTyped == ASSUME OP!PacketAssumption PROVE OP!Highest \in 0..Size
<1>1. Size \in Nat /\ IsFiniteSet(1..Size) /\ Cardinality(1..Size) = Size
    <2>1. Size \in Nat /\ 1 \in Int /\ Size \in Int
        BY DEF OP!PacketAssumption, OP!BoundsAreNumbers
    <2> QED
        BY <2>1, FS_Interval
<1>2. \A P \in SUBSET (1..Size) : Cardinality(P) \in Nat /\ Cardinality(P) <= Cardinality(1..Size)
    BY <1>1, FS_Subset, FS_CardinalityType
<1> QED
    BY <1>1, <1>2, PacketCounts DEF OP!Highest, OP!Numbers

\* A message that is posted is the next one; nothing else posts or unposts any.
LEMMA PacketPostedStep ==
    ASSUME OP!PacketAssumption, PacketInv, [OP!Next]_(OP!vars)
    PROVE  /\ OP!Highest' >= OP!Highest /\ OP!Highest' \in Nat
           /\ PacketPostedInOrder'
           /\ \A n \in OP!Numbers : n <= OP!Highest /\ msg'[n] = "open" /\ msg[n] # "open" => n \in changed'
<1> USE DEF PacketInv, PacketTyped
<1>1. OP!Highest \in 0..Size /\ Size \in Nat
    BY PacketHighestTyped DEF OP!PacketAssumption, OP!BoundsAreNumbers
<1>2. CASE UNCHANGED msg
    BY <1>1, <1>2 DEF OP!Highest, PacketPostedInOrder
<1>3. CASE OP!Post
    <2>1. PICK audience \in {"open", "closed"} : msg' = [msg EXCEPT ![OP!Highest + 1] = audience]
        BY <1>3 DEF OP!Post
    <2>2. OP!Highest + 1 \in OP!Numbers /\ OP!Highest < Size
        BY <1>1, <1>3 DEF OP!Post, OP!Numbers
    <2> DEFINE h == OP!Highest
    <2>3. h \in 0..Size /\ h + 1 \in 0..Size /\ h + 1 \in OP!Numbers /\ h = OP!Highest
        BY <1>1, <2>2 DEF OP!Numbers
    <2>4. msg' = [msg EXCEPT ![h + 1] = audience] /\ audience # "none"
        BY <2>1
    <2>5. \A n \in OP!Numbers : msg[n] # "none" <=> n <= h
        BY DEF PacketPostedInOrder
    <2> HIDE DEF h
    <2>6. \A n \in OP!Numbers : msg'[n] # "none" <=> n <= h + 1
        <3> TAKE n \in OP!Numbers
        <3>1. n \in Nat /\ h \in Nat
            BY <2>3 DEF OP!Numbers
        <3> QED
            BY <3>1, <2>3, <2>4, <2>5
    <2>7. {n \in OP!Numbers : msg'[n] # "none"} = {n \in 1..Size : n <= h + 1}
        BY <2>6 DEF OP!Numbers
    <2>8. OP!Highest' = h + 1
        BY <2>3, <2>7, <1>1, PacketCounts, PacketCountIsLast DEF OP!Highest
    <2>9. \A n \in OP!Numbers : n <= h => msg'[n] = msg[n]
        <3> TAKE n \in OP!Numbers
        <3>1. n \in Nat /\ h \in Nat
            BY <2>3 DEF OP!Numbers
        <3> QED
            BY <3>1, <2>3, <2>4
    <2> QED
        BY <2>3, <2>6, <2>8, <2>9 DEF PacketPostedInOrder
<1>4. ASSUME NEW n \in OP!Numbers, OP!Change(n)
      PROVE  /\ OP!Highest' = OP!Highest /\ PacketPostedInOrder'
             /\ \A k \in OP!Numbers : msg'[k] = "open" /\ msg[k] # "open" => k \in changed'
    <2>1. PICK s \in {"open", "closed", "deleted"} : msg' = [msg EXCEPT ![n] = s]
        BY <1>4 DEF OP!Change
    <2>2. msg[n] # "none" /\ changed' = changed \cup {n} /\ s # "none"
        BY <1>4 DEF OP!Change
    <2>3. \A k \in OP!Numbers : msg'[k] # "none" <=> msg[k] # "none"
        BY <2>1, <2>2
    <2>4. {k \in OP!Numbers : msg'[k] # "none"} = {k \in OP!Numbers : msg[k] # "none"}
        BY <2>3
    <2>5. OP!Highest' = OP!Highest
        BY <2>4 DEF OP!Highest
    <2> QED
        BY <2>1, <2>2, <2>3, <2>5 DEF PacketPostedInOrder
<1>5. UNCHANGED msg \/ OP!Post \/ \E n \in OP!Numbers : OP!Change(n)
    BY DEF OP!Next, OP!Request, OP!Snapshot, OP!Insert, OP!Begin, OP!Cancel, OP!Leave, OP!Finish, OP!Observe, OP!Confirm,
           OP!Stale, OP!Preview, OP!Configure, OP!Look, OP!Restart, OP!Read, OP!Reset, OP!vars, OP!rows
<1> QED
    BY <1>1, <1>2, <1>3, <1>4, <1>5

\* A packet's members are readable messages of the conference, as they are.
LEMMA PacketSnapshotRow ==
    ASSUME OP!PacketAssumption, PacketInv, NEW r \in Requests, NEW sel \in OP!Selections, OP!Snapshot(r, sel)
    PROVE  /\ req' \in [Requests -> PacketRow]
           /\ \A q \in Requests : q # r => req'[q] = req[q]
           /\ req'[r].state = "none" /\ req'[r].resets = resets /\ req'[r].selection = sel
           /\ req'[r].high = OP!HighWater(OP!Chosen(sel))
           /\ OP!Members(r)' = OP!Chosen(sel) /\ OP!Chosen(sel) \subseteq OP!Readable
<1> USE DEF PacketInv, PacketTyped
<1> DEFINE S == {[number |-> n, version |-> version[n]] : n \in OP!Chosen(sel)}
           made == [state |-> "none", selection |-> sel, high |-> OP!HighWater(OP!Chosen(sel)),
                    policy |-> packetPolicy, resets |-> resets, members |-> S]
<1>1. OP!Chosen(sel) \subseteq OP!Readable /\ OP!Readable \in SUBSET OP!Numbers
    BY DEF OP!Chosen, OP!Readable
<1>2. S \in SUBSET OP!Member
    BY <1>1 DEF OP!Member
<1>3. OP!HighWater(OP!Chosen(sel)) \in 0..Size
    BY <1>1, PacketHighWaterIsLargest DEF OP!PacketAssumption, OP!BoundsAreNumbers
<1>4. {m.number : m \in S} = OP!Chosen(sel)
    <2>1. \A n \in OP!Chosen(sel) : [number |-> n, version |-> version[n]].number = n
        OBVIOUS
    <2>2. \A n \in OP!Chosen(sel) : [number |-> n, version |-> version[n]] \in S
        OBVIOUS
    <2>3. OP!Chosen(sel) \subseteq {m.number : m \in S}
        <3> HIDE DEF S
        <3> QED
            BY <2>1, <2>2
    <2>4. {m.number : m \in S} \subseteq OP!Chosen(sel)
        BY <2>1
    <2> QED
        BY <2>3, <2>4
<1>5. req' = [req EXCEPT ![r] = made]
    BY DEF OP!Snapshot
<1>6. made \in PacketRow
    <2> HIDE DEF S
    <2> QED
        BY <1>2, <1>3 DEF PacketRow
<1>7. made.state = "none" /\ made.resets = resets /\ made.selection = sel /\ made.members = S
      /\ made.high = OP!HighWater(OP!Chosen(sel))
    OBVIOUS
<1> HIDE DEF made, S
<1>8. req'[r] = made
    BY <1>5
<1> QED
    BY <1>1, <1>4, <1>5, <1>6, <1>7, <1>8 DEF OP!Members

LEMMA PacketTypedStep == ASSUME OP!PacketAssumption, PacketInv, OP!Next PROVE PacketTyped'
<1> USE DEF PacketInv, PacketTyped, OP!PacketAssumption, OP!BoundsAreNumbers
<1>0. OP!Highest \in 0..Size
    BY PacketHighestTyped
<1>1. ASSUME NEW r \in Requests, NEW sel \in OP!Selections, OP!Snapshot(r, sel) PROVE PacketTyped'
    <2>1. req' \in [Requests -> PacketRow]
        BY <1>1, PacketSnapshotRow
    <2> QED
        BY <1>1, <2>1 DEF OP!Snapshot, OP!rows, OP!marks
<1>2. ASSUME NEW r \in Requests, OP!Insert(r) PROVE PacketTyped'
    BY <1>2 DEF OP!Insert, OP!rows, OP!marks, OP!history, PacketRow
<1>3. ASSUME NEW r \in Requests, OP!Begin(r) PROVE PacketTyped'
    BY <1>3 DEF OP!Begin, OP!rows, OP!marks, OP!history
<1>4. ASSUME NEW r \in Requests, OP!Cancel(r) PROVE PacketTyped'
    BY <1>4 DEF OP!Cancel, OP!rows, OP!marks, OP!history, PacketRow
<1>5. ASSUME NEW r \in Requests, OP!Leave(r) PROVE PacketTyped'
    BY <1>5 DEF OP!Leave, OP!rows, OP!marks, OP!history
<1>6. ASSUME NEW r \in Requests, NEW ok \in BOOLEAN, OP!Finish(r, ok) PROVE PacketTyped'
    BY <1>6 DEF OP!Finish, OP!rows, OP!marks, PacketRow
<1>7. ASSUME NEW r \in Requests, OP!Observe(r) PROVE PacketTyped'
    BY <1>7 DEF OP!Observe, OP!rows, OP!marks, PacketRow
<1>8. ASSUME NEW r \in Requests, OP!Confirm(r) PROVE PacketTyped'
    <2>1. req[r].high \in 0..Size
        BY DEF PacketRow
    <2>2. pointer' \in 0..Size
        BY <1>8, <2>1 DEF OP!Confirm, OP!Advance, OP!Larger
    <2>3. req' \in [Requests -> PacketRow]
        BY <1>8 DEF OP!Confirm, PacketRow
    <2> QED
        BY <1>8, <2>2, <2>3 DEF OP!Confirm, OP!rows
<1>9. ASSUME NEW r \in Requests, OP!Stale(r) PROVE PacketTyped'
    BY <1>9 DEF OP!Stale, OP!rows, OP!marks, OP!history
<1>10. ASSUME NEW r \in Requests, OP!Preview(r) PROVE PacketTyped'
    BY <1>10 DEF OP!Preview, OP!rows, OP!marks, OP!history, PacketRow
<1>11. CASE OP!Post
    <2>1. OP!Highest + 1 \in OP!Numbers
        BY <1>0, <1>11 DEF OP!Post, OP!Numbers
    <2> QED
        BY <1>11, <2>1 DEF OP!Post, OP!marks, OP!history
<1>12. CASE OP!Configure
    <2>1. packetPolicy' \in Nat /\ packetChanges' \in Nat
        BY <1>12 DEF OP!Configure
    <2>3. access' \in BOOLEAN
        BY <1>12, Zenon DEF OP!Configure
    <2>2. UNCHANGED <<msg, version, pointer, resets, fresh, received, req, transfer, packetPc, packetCrashes>>
        BY <1>12 DEF OP!Configure, OP!marks
    <2> QED
        BY <2>1, <2>2, <2>3
<1>13. CASE OP!Look
    BY <1>13 DEF OP!Look, OP!rows, OP!history
<1>14. CASE OP!Restart
    <2>1. req' \in [Requests -> PacketRow]
        BY <1>14 DEF OP!Restart, OP!Settle, PacketRow
    <2> QED
        BY <1>14, <2>1 DEF OP!Restart, OP!Settle, OP!rows, OP!marks, OP!history
<1>15. ASSUME NEW n \in OP!Numbers, OP!Change(n) PROVE PacketTyped'
    BY <1>15 DEF OP!Change, OP!marks
<1>16. ASSUME NEW n \in OP!Numbers, OP!Read(n) PROVE PacketTyped'
    <2>1. pointer' \in 0..Size
        BY <1>16 DEF OP!Read, OP!Larger, OP!Numbers
    <2>2. received' \subseteq Addressed /\ fresh' \in BOOLEAN
        BY <1>16 DEF OP!Read
    <2>3. UNCHANGED <<msg, version, packetPolicy, access, resets, req, transfer, packetPc, packetCrashes, packetChanges>>
        BY <1>16 DEF OP!Read, OP!rows
    <2> QED
        BY <2>1, <2>2, <2>3
<1>17. ASSUME NEW n \in 0..Size, OP!Reset(n) PROVE PacketTyped'
    <2>1. pointer' = n /\ resets' = resets + 1 /\ fresh' = FALSE
        BY <1>17 DEF OP!Reset
    <2>3. pointer' \in 0..Size
        BY <1>17, <2>1
    <2>4. resets' \in Nat
        BY <2>1
    <2>5. fresh' \in BOOLEAN
        BY <2>1, Zenon
    <2>2. UNCHANGED <<msg, version, packetPolicy, access, received, req, transfer, packetPc, packetCrashes, packetChanges>>
        BY <1>17 DEF OP!Reset, OP!rows
    <2> QED
        BY <2>2, <2>3, <2>4, <2>5
<1>18. 0 \in 0..Size /\ OP!Numbers \subseteq 0..Size
    BY DEF OP!Numbers
<1> QED
    BY <1>1, <1>2, <1>3, <1>4, <1>5, <1>6, <1>7, <1>8, <1>9, <1>10, <1>11, <1>12, <1>13,
       <1>14, <1>15, <1>16, <1>17, <1>18 DEF OP!Next, OP!Request

LEMMA PacketBoundedStep == ASSUME OP!PacketAssumption, PacketInv, OP!Next PROVE PacketBounded'
<1> USE DEF PacketInv, PacketTyped, PacketBounded, OP!PacketAssumption, OP!BoundsAreNumbers
<1>1. ASSUME NEW r \in Requests, OP!Request(r) PROVE PacketBounded'
    <2>1. UNCHANGED <<version, packetPolicy, packetChanges, resets>>
        BY <1>1 DEF OP!Request, OP!Snapshot, OP!Insert, OP!Begin, OP!Cancel, OP!Leave, OP!Finish, OP!Observe, OP!Confirm,
                    OP!Stale, OP!Preview, OP!rows, OP!marks
    <2>2. \A q \in Requests : transfer'[q] = "transferring" => packetPc'[q] \in {"sending", "over"}
        BY <1>1 DEF OP!Request, OP!Snapshot, OP!Insert, OP!Begin, OP!Cancel, OP!Leave, OP!Finish, OP!Observe, OP!Delivered,
                    OP!Confirm, OP!Stale, OP!Preview
    <2> QED
        BY <2>1, <2>2
<1>2. CASE OP!Post
    BY <1>2 DEF OP!Post, OP!marks
<1>3. CASE OP!Configure
    BY <1>3 DEF OP!Configure, OP!marks
<1>4. CASE OP!Look
    BY <1>4 DEF OP!Look, OP!rows
<1>5. CASE OP!Restart
    BY <1>5 DEF OP!Restart, OP!Settle, OP!rows, OP!marks
<1>6. ASSUME NEW n \in OP!Numbers, OP!Change(n) PROVE PacketBounded'
    BY <1>6 DEF OP!Change, OP!marks
<1>7. ASSUME NEW n \in OP!Numbers, OP!Read(n) PROVE PacketBounded'
    BY <1>7 DEF OP!Read, OP!rows
<1>8. ASSUME NEW n, OP!Reset(n) PROVE PacketBounded'
    BY <1>8 DEF OP!Reset, OP!rows
<1> QED
    BY <1>1, <1>2, <1>3, <1>4, <1>5, <1>6, <1>7, <1>8 DEF OP!Next

\* What was posted or counted as sent, chosen or changed stays so.
LEMMA PacketAccountsGrow ==
    ASSUME OP!Next
    PROVE  sent \subseteq sent' /\ chosen \subseteq chosen' /\ changed \subseteq changed'
BY DEF OP!Next, OP!Request, OP!Snapshot, OP!Insert, OP!Begin, OP!Cancel, OP!Leave, OP!Finish, OP!Observe, OP!Confirm, OP!Stale,
       OP!Preview, OP!Post, OP!Configure, OP!Look, OP!Restart, OP!Change, OP!Read, OP!Reset, OP!history

\* A message up to the last one is open only if it was, or has been changed.
LEMMA PacketOpenBefore ==
    ASSUME OP!PacketAssumption, PacketInv, OP!Next, NEW n \in OP!Numbers, n <= OP!Highest, msg'[n] = "open"
    PROVE  msg[n] = "open" \/ n \in PacketAccounted'
BY PacketPostedStep DEF PacketAccounted

\* The row of a request, its members and its high water change only at its snapshot.
LEMMA PacketRowsStay ==
    ASSUME OP!PacketAssumption, PacketInv, OP!Next, NEW q \in Requests,
           \A sel \in OP!Selections : ~OP!Snapshot(q, sel)
    PROVE  /\ req'[q].selection = req[q].selection /\ req'[q].high = req[q].high
           /\ req'[q].members = req[q].members /\ OP!Members(q)' = OP!Members(q)
<1> DEFINE Same == /\ req'[q].selection = req[q].selection /\ req'[q].high = req[q].high
                   /\ req'[q].members = req[q].members
<1>1. Same
    <2> USE DEF PacketInv, PacketTyped
    <2>1. ASSUME NEW r \in Requests, NEW sel \in OP!Selections, OP!Snapshot(r, sel)
          PROVE  req'[q] = req[q]
        BY <2>1, PacketSnapshotRow
    <2>2. ASSUME NEW r \in Requests, OP!Insert(r) \/ OP!Cancel(r) \/ OP!Observe(r) \/ OP!Confirm(r) \/ OP!Preview(r)
          PROVE  Same
        BY <2>2 DEF OP!Insert, OP!Cancel, OP!Observe, OP!Confirm, OP!Preview, PacketRow
    <2>3. ASSUME NEW r \in Requests, NEW ok \in BOOLEAN, OP!Finish(r, ok)
          PROVE  Same
        BY <2>3 DEF OP!Finish, PacketRow
    <2>4. CASE OP!Restart
        BY <2>4 DEF OP!Restart, OP!Settle, PacketRow
    <2>5. ASSUME UNCHANGED req PROVE Same
        BY <2>5
    <2>6. ASSUME NEW r \in Requests, OP!Request(r) PROVE Same
        BY <2>1, <2>2, <2>3, <2>5, <2>6 DEF OP!Request, OP!Begin, OP!Leave, OP!Stale
    <2>7. ASSUME OP!Post \/ OP!Configure \/ OP!Look PROVE UNCHANGED req
        BY <2>7 DEF OP!Post, OP!Configure, OP!Look
    <2>8. ASSUME NEW n, OP!Change(n) \/ OP!Read(n) \/ OP!Reset(n) PROVE UNCHANGED req
        BY <2>8 DEF OP!Change, OP!Read, OP!Reset
    <2> QED
        BY <2>4, <2>5, <2>6, <2>7, <2>8, Zenon DEF OP!Next
<1> QED
    BY <1>1 DEF OP!Members

LEMMA PacketPassedStep == ASSUME OP!PacketAssumption, PacketInv, OP!Next PROVE PacketPassed' /\ pointer' <= OP!Highest'
<1> USE DEF PacketInv, PacketTyped
<1>1. OP!Highest \in 0..Size /\ Size \in Nat /\ OP!Highest' >= OP!Highest /\ OP!Highest' \in Nat
    BY PacketHighestTyped, PacketPostedStep DEF OP!PacketAssumption, OP!BoundsAreNumbers
<1>2. \A n \in OP!Numbers : n \in Nat
    BY DEF OP!Numbers
<1>3. \A n \in PacketAccounted : n \in PacketAccounted'
    BY PacketAccountsGrow DEF PacketAccounted
<1>4. ASSUME UNCHANGED pointer PROVE PacketPassed' /\ pointer' <= OP!Highest'
    <2>1. pointer <= OP!Highest
        BY DEF PacketBehind
    <2>2. \A n \in OP!Numbers : n <= pointer => n <= OP!Highest
        BY <2>1, <1>1, <1>2
    <2> QED
        BY <1>1, <1>3, <1>4, <2>1, <2>2, PacketOpenBefore DEF PacketPassed
<1>5. ASSUME NEW r \in Requests, OP!Confirm(r) PROVE PacketPassed' /\ pointer' <= OP!Highest'
    <2> DEFINE h == req[r].high
    <2>1. h \in 0..Size /\ h <= OP!Highest /\ req[r].selection \in OP!Selections
        BY DEF PacketBehind, PacketRow
    <2>2. pointer' = (IF pointer < h THEN h ELSE pointer) /\ msg' = msg
          /\ packetPc[r] = "confirming" /\ chosen' = (IF req[r].selection = "to-you" THEN chosen \cup 1..h ELSE chosen)
        BY <1>5 DEF OP!Confirm, OP!Advance, OP!Larger, OP!rows
    <2>3. OP!Members(r) \subseteq sent
        BY <2>2 DEF PacketWasSent
    <2> HIDE DEF h
    <2>4. \A n \in OP!Numbers : msg[n] = "open" /\ n <= h => n \in PacketAccounted'
        <3> TAKE n \in OP!Numbers
        <3>1. CASE req[r].selection = "new"
            BY <3>1, <2>3, <1>3 DEF PacketCovered, PacketAccounted, h
        <3>2. CASE req[r].selection = "to-you"
            BY <3>2, <2>1, <2>2, <1>2 DEF PacketAccounted, OP!Numbers
        <3> QED
            BY <3>1, <3>2, <2>1 DEF OP!Selections
    <2>5. pointer <= OP!Highest /\ \A n \in OP!Numbers : msg[n] = "open" /\ n <= pointer => n \in PacketAccounted'
        BY <1>3 DEF PacketBehind, PacketPassed
    <2> QED
        BY <1>1, <2>1, <2>2, <2>4, <2>5 DEF PacketPassed
<1>6. ASSUME NEW n \in OP!Numbers, OP!Read(n) PROVE PacketPassed' /\ pointer' <= OP!Highest'
    <2>1. pointer' = (IF pointer < n THEN n ELSE pointer) /\ msg' = msg /\ chosen' = chosen \cup 1..n
          /\ msg[n] = "open"
        BY <1>6 DEF OP!Read, OP!Larger, OP!Readable, OP!rows
    <2>2. n \in Nat /\ n <= OP!Highest /\ pointer <= OP!Highest
        BY <2>1, <1>2 DEF PacketBehind, PacketPostedInOrder
    <2>3. \A k \in OP!Numbers : k <= n => k \in PacketAccounted'
        BY <2>1, <2>2 DEF PacketAccounted, OP!Numbers
    <2> QED
        BY <1>1, <1>2, <1>3, <2>1, <2>2, <2>3 DEF PacketPassed
<1>7. ASSUME NEW n \in 0..Size, OP!Reset(n) PROVE PacketPassed' /\ pointer' <= OP!Highest'
    <2>1. pointer' = n /\ chosen' = chosen \cup 1..n /\ n <= OP!Highest
        BY <1>7 DEF OP!Reset
    <2>2. \A k \in OP!Numbers : k <= n => k \in PacketAccounted'
        BY <2>1 DEF PacketAccounted, OP!Numbers
    <2> QED
        BY <1>1, <2>1, <2>2 DEF PacketPassed
<1>8. 0 \in 0..Size /\ OP!Numbers \subseteq 0..Size
    BY <1>1 DEF OP!Numbers
<1>9. \/ UNCHANGED pointer
      \/ \E r \in Requests : OP!Confirm(r)
      \/ \E n \in OP!Numbers : OP!Read(n)
      \/ \E n \in 0..Size : OP!Reset(n)
    BY <1>8 DEF OP!Next, OP!Request, OP!Snapshot, OP!Insert, OP!Begin, OP!Cancel, OP!Leave, OP!Finish, OP!Observe, OP!Stale,
           OP!Preview, OP!Post, OP!Configure, OP!Look, OP!Restart, OP!Change, OP!marks
<1> QED
    BY <1>4, <1>5, <1>6, <1>7, <1>9

LEMMA PacketCoveredStep ==
    ASSUME OP!PacketAssumption, PacketInv, OP!Next
    PROVE  PacketCovered' /\ \A q \in Requests : req'[q].high <= OP!Highest'
<1> USE DEF PacketInv, PacketTyped
<1>1. OP!Highest \in 0..Size /\ Size \in Nat /\ OP!Highest' >= OP!Highest /\ OP!Highest' \in Nat
    BY PacketHighestTyped, PacketPostedStep DEF OP!PacketAssumption, OP!BoundsAreNumbers
<1>2. \A n \in OP!Numbers : n \in Nat
    BY DEF OP!Numbers
<1>3. \A n \in PacketAccounted : n \in PacketAccounted'
    BY PacketAccountsGrow DEF PacketAccounted
<1> SUFFICES ASSUME NEW q \in Requests
             PROVE  /\ req'[q].high <= OP!Highest'
                    /\ req'[q].selection = "new" =>
                         \A n \in OP!Numbers : msg'[n] = "open" /\ n <= req'[q].high =>
                            n \in OP!Members(q)' \cup PacketAccounted'
    BY DEF PacketCovered
<1>4. ASSUME NEW sel \in OP!Selections, OP!Snapshot(q, sel)
      PROVE  /\ req'[q].high <= OP!Highest'
             /\ req'[q].selection = "new" =>
                  \A n \in OP!Numbers : msg'[n] = "open" /\ n <= req'[q].high =>
                     n \in OP!Members(q)' \cup PacketAccounted'
    <2>1. /\ req'[q].selection = sel /\ req'[q].high = OP!HighWater(OP!Chosen(sel))
          /\ OP!Members(q)' = OP!Chosen(sel) /\ OP!Chosen(sel) \subseteq OP!Readable
        BY <1>4, PacketSnapshotRow
    <2>2. msg' = msg /\ UNCHANGED <<sent, chosen, changed>> /\ OP!Chosen(sel) # {}
        BY <1>4 DEF OP!Snapshot, OP!rows
    <2>3. OP!Chosen(sel) \in SUBSET OP!Numbers
        BY <2>1 DEF OP!Readable
    <2> DEFINE h == OP!HighWater(OP!Chosen(sel))
    <2>4. h = pointer \/ h \in OP!Chosen(sel)
        BY <1>1, <2>3, PacketHighWaterIsLargest
    <2> HIDE DEF h
    <2>5. h <= OP!Highest
        BY <2>4, <2>1 DEF PacketBehind, PacketPostedInOrder, OP!Readable
    <2>6. h \in Nat
        BY <1>1, <2>3, <2>4, <1>2
    <2>7. ASSUME sel = "new", NEW n \in OP!Numbers, msg[n] = "open"
          PROVE  n \in OP!Chosen(sel) \cup PacketAccounted
        <3>1. access
            BY <2>2 DEF OP!Chosen, OP!Readable
        <3>2. CASE n <= pointer
            BY <2>7, <3>2 DEF PacketPassed
        <3>3. CASE n > pointer
            BY <2>7, <3>1, <3>3 DEF OP!Chosen, OP!Readable
        <3> QED
            BY <3>2, <3>3, <1>2
    <2>8. PacketAccounted' = PacketAccounted
        BY <2>2 DEF PacketAccounted
    <2> QED
        BY <1>1, <2>1, <2>2, <2>5, <2>6, <2>7, <2>8 DEF h
<1>5. ASSUME \A sel \in OP!Selections : ~OP!Snapshot(q, sel)
      PROVE  /\ req'[q].high <= OP!Highest'
             /\ req'[q].selection = "new" =>
                  \A n \in OP!Numbers : msg'[n] = "open" /\ n <= req'[q].high =>
                     n \in OP!Members(q)' \cup PacketAccounted'
    <2>1. /\ req'[q].selection = req[q].selection /\ req'[q].high = req[q].high
          /\ OP!Members(q)' = OP!Members(q)
        BY <1>5, PacketRowsStay
    <2>2. req[q].high \in 0..Size /\ req[q].high <= OP!Highest
        BY DEF PacketBehind, PacketRow
    <2>3. \A n \in OP!Numbers : n <= req[q].high => n <= OP!Highest
        BY <1>1, <1>2, <2>2
    <2>4. ASSUME req[q].selection = "new", NEW n \in OP!Numbers, msg'[n] = "open", n <= req[q].high
          PROVE  n \in OP!Members(q) \cup PacketAccounted'
        BY <2>3, <2>4, <1>3, PacketOpenBefore DEF PacketCovered
    <2> QED
        BY <1>1, <2>1, <2>2, <2>4
<1> QED
    BY <1>4, <1>5

LEMMA PacketWasSentStep == ASSUME OP!PacketAssumption, PacketInv, OP!Next PROVE PacketWasSent'
<1> USE DEF PacketInv, PacketTyped
<1>1. sent \subseteq sent'
    BY PacketAccountsGrow
<1> SUFFICES ASSUME NEW q \in Requests, packetPc'[q] \in {"sent", "confirming"}
             PROVE  OP!Members(q)' \subseteq sent'
    BY DEF PacketWasSent
<1>2. ASSUME NEW sel \in OP!Selections, OP!Snapshot(q, sel) PROVE FALSE
    BY <1>2 DEF OP!Snapshot
<1>3. OP!Members(q)' = OP!Members(q)
    BY <1>2, PacketRowsStay
<1>4. CASE packetPc[q] \in {"sent", "confirming"}
    BY <1>1, <1>3, <1>4 DEF PacketWasSent
<1>5. CASE packetPc[q] \notin {"sent", "confirming"}
    <2>1. ASSUME NEW r \in Requests, NEW ok \in BOOLEAN, OP!Finish(r, ok)
          PROVE  OP!Members(q) \subseteq sent'
        BY <2>1, <1>5 DEF OP!Finish
    <2>2. \E r \in Requests, ok \in BOOLEAN : OP!Finish(r, ok)
        <3>1. ASSUME NEW r \in Requests, OP!Request(r)
              PROVE  \E ok \in BOOLEAN : OP!Finish(r, ok)
            BY <3>1, <1>5 DEF OP!Request, OP!Snapshot, OP!Insert, OP!Begin, OP!Cancel, OP!Leave, OP!Observe, OP!Delivered,
                              OP!Confirm, OP!Stale, OP!Preview
        <3>2. ~OP!Restart
            BY <1>5 DEF OP!Restart
        <3>3. ASSUME OP!Post \/ OP!Configure \/ OP!Look PROVE UNCHANGED packetPc
            BY <3>3 DEF OP!Post, OP!Configure, OP!Look
        <3>4. ASSUME NEW n, OP!Change(n) \/ OP!Read(n) \/ OP!Reset(n) PROVE UNCHANGED packetPc
            BY <3>4 DEF OP!Change, OP!Read, OP!Reset
        <3>5. packetPc' # packetPc
            BY <1>5
        <3> QED
            BY <3>1, <3>2, <3>3, <3>4, <3>5, Zenon DEF OP!Next
    <2> QED
        BY <1>3, <2>1, <2>2
<1> QED
    BY <1>4, <1>5

LEMMA PacketLookedAgainStep == ASSUME OP!PacketAssumption, PacketInv, OP!Next PROVE PacketLookedAgain'
<1> USE DEF PacketInv, PacketTyped
<1> SUFFICES ASSUME NEW q \in Requests
             PROVE  /\ req'[q].resets <= resets'
                    /\ packetPc'[q] = "confirming" /\ req'[q].resets = resets' => q \in looked'
    BY DEF PacketLookedAgain
<1>0. req[q].resets \in Nat /\ req[q].resets <= resets
      /\ (packetPc[q] = "confirming" /\ req[q].resets = resets => q \in looked)
    BY DEF PacketLookedAgain, PacketRow
<1> DEFINE Good == /\ req'[q].resets <= resets'
                   /\ packetPc'[q] = "confirming" /\ req'[q].resets = resets' => q \in looked'
<1>1. ASSUME NEW r \in Requests, NEW sel \in OP!Selections, OP!Snapshot(r, sel) PROVE Good
    <2>1. resets' = resets /\ looked' = looked \cup {r} /\ packetPc' = [packetPc EXCEPT ![r] = "building"]
        BY <1>1 DEF OP!Snapshot, OP!marks
    <2>2. (q # r => req'[q] = req[q]) /\ req'[r].resets = resets
        BY <1>1, PacketSnapshotRow
    <2> QED
        BY <1>0, <2>1, <2>2
<1>2. ASSUME NEW r \in Requests, OP!Insert(r) \/ OP!Cancel(r) \/ OP!Preview(r) \/ OP!Begin(r) \/ OP!Leave(r) \/ OP!Stale(r)
      PROVE Good
    <2>1. resets' = resets /\ looked' = looked
        BY <1>2 DEF OP!Insert, OP!Cancel, OP!Preview, OP!Begin, OP!Leave, OP!Stale, OP!marks, OP!history
    <2>2. packetPc'[q] = "confirming" => packetPc[q] = "confirming"
        BY <1>2 DEF OP!Insert, OP!Cancel, OP!Preview, OP!Begin, OP!Leave, OP!Stale
    <2>3. req'[q].resets = req[q].resets
        BY <1>2 DEF OP!Insert, OP!Cancel, OP!Preview, OP!Begin, OP!Leave, OP!Stale, PacketRow
    <2> QED
        BY <1>0, <2>1, <2>2, <2>3
<1>3. ASSUME NEW r \in Requests, NEW ok \in BOOLEAN, OP!Finish(r, ok) PROVE Good
    <2>1. resets' = resets /\ looked' = looked /\ (packetPc'[q] = "confirming" => packetPc[q] = "confirming")
        BY <1>3 DEF OP!Finish, OP!marks
    <2>2. req'[q].resets = req[q].resets
        BY <1>3 DEF OP!Finish, PacketRow
    <2> QED
        BY <1>0, <2>1, <2>2
<1>4. ASSUME NEW r \in Requests, OP!Observe(r) PROVE Good
    <2>1. resets' = resets /\ looked' = looked \cup {r}
        BY <1>4 DEF OP!Observe, OP!marks
    <2>2. req'[q].resets = IF q = r THEN resets ELSE req[q].resets
        BY <1>4 DEF OP!Observe, PacketRow
    <2>3. q # r => packetPc'[q] = packetPc[q]
        BY <1>4 DEF OP!Observe
    <2> QED
        BY <1>0, <2>1, <2>2, <2>3
<1>5. ASSUME NEW r \in Requests, OP!Confirm(r) PROVE Good
    <2>1. resets' = resets /\ looked' = looked /\ (packetPc'[q] = "confirming" => packetPc[q] = "confirming")
        BY <1>5 DEF OP!Confirm
    <2>2. req'[q].resets = req[q].resets
        BY <1>5 DEF OP!Confirm, PacketRow
    <2> QED
        BY <1>0, <2>1, <2>2
<1>6. ASSUME OP!Restart PROVE Good
    <2>1. resets' = resets /\ looked' = looked /\ packetPc'[q] # "confirming"
        BY <1>6 DEF OP!Restart, OP!marks, OP!history
    <2>2. req'[q].resets = req[q].resets
        BY <1>6 DEF OP!Restart, OP!Settle, PacketRow
    <2> QED
        BY <1>0, <2>1, <2>2
<1>7. ASSUME OP!Post \/ OP!Configure \/ OP!Look PROVE Good
    BY <1>0, <1>7 DEF OP!Post, OP!Configure, OP!Look, OP!marks, OP!history
<1>8. ASSUME NEW n, OP!Change(n) \/ OP!Read(n) PROVE Good
    BY <1>0, <1>8 DEF OP!Change, OP!Read, OP!marks
<1>9. ASSUME NEW n, OP!Reset(n) PROVE Good
    <2>1. resets' = resets + 1 /\ req' = req
        BY <1>9 DEF OP!Reset
    <2> QED
        BY <1>0, <2>1
<1> HIDE DEF Good
<1>10. ASSUME NEW r \in Requests, OP!Request(r) PROVE Good
    BY <1>1, <1>2, <1>3, <1>4, <1>5, <1>10, Zenon DEF OP!Request
<1>11. Good
    BY <1>6, <1>7, <1>8, <1>9, <1>10, Zenon DEF OP!Next
<1> QED
    BY <1>11 DEF Good

LEMMA PacketReceivedStep == ASSUME OP!PacketAssumption, PacketInv, OP!Next PROVE OP!ReceivedWasSent'
<1> USE DEF PacketInv, PacketTyped, OP!ReceivedWasSent
<1>1. sent \subseteq sent' /\ chosen \subseteq chosen'
    BY PacketAccountsGrow
<1>2. ASSUME NEW r \in Requests, OP!Confirm(r) PROVE OP!ReceivedWasSent'
    <2>1. packetPc[r] = "confirming" /\ received' = received \cup (OP!Members(r) \cap Addressed)
        BY <1>2 DEF OP!Confirm
    <2> QED
        BY <1>1, <2>1 DEF PacketWasSent
<1>3. ASSUME NEW n \in OP!Numbers, OP!Read(n) PROVE OP!ReceivedWasSent'
    <2>1. n \in 1..n
        BY DEF OP!Numbers
    <2> QED
        BY <1>1, <1>3, <2>1 DEF OP!Read
<1>4. \/ UNCHANGED received
      \/ \E r \in Requests : OP!Confirm(r)
      \/ \E n \in OP!Numbers : OP!Read(n)
    BY DEF OP!Next, OP!Request, OP!Snapshot, OP!Insert, OP!Begin, OP!Cancel, OP!Leave, OP!Finish, OP!Observe, OP!Stale,
           OP!Preview, OP!Post, OP!Configure, OP!Look, OP!Restart, OP!Change, OP!Reset, OP!marks
<1> QED
    BY <1>1, <1>2, <1>3, <1>4

LEMMA PacketInvInit == ASSUME OP!PacketAssumption, OP!Init PROVE PacketInv
<1> USE DEF OP!Init, OP!PacketAssumption, OP!BoundsAreNumbers
<1>1. PacketTyped
    <2>1. req \in [Requests -> PacketRow]
        <3>1. [state |-> "none", selection |-> "new", members |-> {}, high |-> 0, policy |-> 0, resets |-> 0] \in PacketRow
            BY DEF PacketRow, OP!Selections
        <3> QED
            BY <3>1
    <2>2. pointer \in 0..Size
        OBVIOUS
    <2>3. fresh \in BOOLEAN /\ access \in BOOLEAN
        BY Zenon
    <2> QED
        BY <2>1, <2>2, <2>3 DEF PacketTyped
<1>2. OP!Highest = 0
    <2>1. {n \in OP!Numbers : msg[n] # "none"} = {}
        OBVIOUS
    <2> QED
        BY <2>1, PacketCounts, FS_EmptySet DEF OP!Highest
<1>3. \A r \in Requests : req[r].resets = 0 /\ req[r].high = 0
    OBVIOUS
<1> QED
    BY <1>1, <1>2, <1>3 DEF PacketInv, PacketBounded, PacketPostedInOrder, PacketBehind, PacketPassed, PacketCovered, PacketWasSent,
       PacketLookedAgain, OP!ReceivedWasSent, OP!Numbers

LEMMA PacketInvStep == ASSUME OP!PacketAssumption, PacketInv, [OP!Next]_(OP!vars) PROVE PacketInv'
<1>1. CASE OP!Next
    <2>1. PacketPostedInOrder'
        BY PacketPostedStep
    <2> QED
        BY <1>1, <2>1, PacketTypedStep, PacketBoundedStep, PacketPassedStep, PacketCoveredStep, PacketWasSentStep,
           PacketLookedAgainStep, PacketReceivedStep DEF PacketInv, PacketBehind
<1>2. CASE UNCHANGED OP!vars
    BY <1>2 DEF OP!vars, OP!rows, OP!marks, OP!history, PacketInv, PacketTyped, PacketBounded, PacketPostedInOrder, OP!Highest, PacketBehind,
       PacketPassed, PacketAccounted, PacketCovered, OP!Members, PacketWasSent, PacketLookedAgain, OP!ReceivedWasSent
<1> QED
    BY <1>1, <1>2

\* The inductive invariant: what a packet leaves out is accounted for, what was delivered was
\* sent, and no pointer or packet is ahead of the last message (prepare_offline_packet,
\* confirm_offline_delivery).
THEOREM PacketInvariant == OP!PacketAssumption => (OP!Spec => []PacketInv)
<1> SUFFICES ASSUME OP!PacketAssumption PROVE OP!Spec => []PacketInv
    OBVIOUS
<1>1. OP!Init => PacketInv
    BY PacketInvInit
<1>2. PacketInv /\ [OP!Next]_(OP!vars) => PacketInv'
    BY PacketInvStep
<1> QED
    BY <1>1, <1>2, PTL DEF OP!Spec

LEMMA PacketInvGivesTypeOK == ASSUME OP!PacketAssumption, PacketInv PROVE OP!TypeOK
<1> USE DEF OP!PacketAssumption, OP!BoundsAreNumbers, PacketInv, PacketTyped, PacketBounded
<1>1. version \in [OP!Numbers -> 0..PacketChanges]
    <2>1. \A n \in OP!Numbers : version[n] \in 0..PacketChanges
        OBVIOUS
    <2> QED
        BY <2>1
<1>2. packetPolicy \in 0..PacketChanges /\ resets \in 0..MaxResets
    OBVIOUS
<1>3. \A r \in Requests :
         /\ req[r].state \in {"none", "prepared", "delivered", "confirmed", "preview", "failed"}
         /\ req[r].selection \in OP!Selections /\ req[r].members \subseteq OP!Member
         /\ req[r].high \in 0..Size /\ req[r].resets \in 0..MaxResets
    <2> TAKE r \in Requests
    <2>1. req[r] \in PacketRow
        OBVIOUS
    <2>2. req[r].resets \in Nat /\ req[r].resets <= resets
        BY <2>1 DEF PacketRow, PacketLookedAgain
    <2> QED
        BY <2>1, <2>2, <1>2 DEF PacketRow
<1> QED
    BY <1>1, <1>2, <1>3 DEF OP!TypeOK

\* The pointer passes no mail that was neither sent, nor passed over by the caller's own
\* choice, nor changed since (prepare_offline_packet, confirm_offline_delivery).
THEOREM NothingSkippedHolds == OP!PacketAssumption => (OP!Spec => []OP!NothingSkipped)
<1> SUFFICES ASSUME OP!PacketAssumption PROVE OP!Spec => []OP!NothingSkipped
    OBVIOUS
<1>1. PacketInv => OP!NothingSkipped
    BY DEF PacketInv, PacketPassed, PacketAccounted, OP!NothingSkipped, OP!Readable
<1> QED
    BY <1>1, PacketInvariant, PTL

\* What is marked received was sent in a completed transfer or read (message_receipts).
THEOREM ReceivedWasSentHolds == OP!PacketAssumption => (OP!Spec => [](OP!TypeOK /\ OP!ReceivedWasSent))
<1> SUFFICES ASSUME OP!PacketAssumption PROVE OP!Spec => [](OP!TypeOK /\ OP!ReceivedWasSent)
    OBVIOUS
<1>1. PacketInv => OP!TypeOK /\ OP!ReceivedWasSent
    BY PacketInvGivesTypeOK DEF PacketInv
<1> QED
    BY <1>1, PacketInvariant, PTL

LEMMA PacketPointerStep ==
    ASSUME OP!PacketAssumption, PacketInv, OP!Next
    PROVE  OP!OnlySetGoesBack /\ OP!ConfirmedKnowingly /\ OP!ConfirmedIsCurrent
<1> USE DEF PacketInv, PacketTyped
<1>1. OP!OnlySetGoesBack
    <2> SUFFICES ASSUME pointer' < pointer PROVE resets' > resets
        BY DEF OP!OnlySetGoesBack
    <2>1. ASSUME NEW r \in Requests, OP!Confirm(r) PROVE pointer' >= pointer
        <3>1. req[r].high \in 0..Size
            BY DEF PacketRow
        <3> QED
            BY <2>1, <3>1 DEF OP!Confirm, OP!Advance, OP!Larger
    <2>2. ASSUME NEW n \in OP!Numbers, OP!Read(n) PROVE pointer' >= pointer
        BY <2>2 DEF OP!Read, OP!Larger, OP!Numbers
    <2>3. ASSUME NEW n, OP!Reset(n) PROVE resets' > resets
        BY <2>3 DEF OP!Reset
    <2>4. UNCHANGED pointer => ~(pointer' < pointer)
        OBVIOUS
    <2>5. \/ UNCHANGED pointer
          \/ \E r \in Requests : OP!Confirm(r)
          \/ \E n \in OP!Numbers : OP!Read(n)
          \/ \E n \in OP!Numbers \cup {0} : OP!Reset(n)
        BY DEF OP!Next, OP!Request, OP!Snapshot, OP!Insert, OP!Begin, OP!Cancel, OP!Leave, OP!Finish, OP!Observe, OP!Stale,
               OP!Preview, OP!Post, OP!Configure, OP!Look, OP!Restart, OP!Change, OP!marks
    <2>6. pointer \in Nat /\ pointer' \in Nat
        BY PacketTypedStep
    <2> QED
        BY <2>1, <2>2, <2>3, <2>4, <2>5, <2>6
<1>2. ASSUME NEW q \in Requests, req'[q].state = "confirmed", req[q].state # "confirmed"
      PROVE  OP!Confirm(q)
    <2>1. ASSUME NEW r \in Requests, NEW sel \in OP!Selections, OP!Snapshot(r, sel) PROVE FALSE
        BY <1>2, <2>1, PacketSnapshotRow
    <2>2. ASSUME NEW r \in Requests,
                 OP!Insert(r) \/ OP!Cancel(r) \/ OP!Preview(r) \/ OP!Begin(r) \/ OP!Leave(r) \/ OP!Stale(r) \/ OP!Observe(r)
          PROVE  FALSE
        BY <1>2, <2>2 DEF OP!Insert, OP!Cancel, OP!Preview, OP!Begin, OP!Leave, OP!Stale, OP!Observe, PacketRow
    <2>3. ASSUME NEW r \in Requests, NEW ok \in BOOLEAN, OP!Finish(r, ok) PROVE FALSE
        BY <1>2, <2>3 DEF OP!Finish, PacketRow
    <2>4. ASSUME NEW r \in Requests, OP!Confirm(r) PROVE r = q
        BY <1>2, <2>4 DEF OP!Confirm, PacketRow
    <2>5. ASSUME OP!Restart PROVE FALSE
        BY <1>2, <2>5 DEF OP!Restart, OP!Settle, PacketRow
    <2>6. ASSUME OP!Post \/ OP!Configure \/ OP!Look PROVE UNCHANGED req
        BY <2>6 DEF OP!Post, OP!Configure, OP!Look
    <2>7. ASSUME NEW n, OP!Change(n) \/ OP!Read(n) \/ OP!Reset(n) PROVE UNCHANGED req
        BY <2>7 DEF OP!Change, OP!Read, OP!Reset
    <2>8. req' # req
        BY <1>2
    <2>9. ASSUME NEW r \in Requests, OP!Request(r) PROVE OP!Confirm(q)
        BY <2>1, <2>2, <2>3, <2>4, <2>9, Zenon DEF OP!Request
    <2> QED
        BY <2>5, <2>6, <2>7, <2>8, <2>9, Zenon DEF OP!Next
<1>3. OP!ConfirmedKnowingly
    BY <1>2 DEF OP!ConfirmedKnowingly, OP!Confirm, OP!Unmoved, PacketLookedAgain
<1>4. OP!ConfirmedIsCurrent
    <2> SUFFICES ASSUME NEW q \in Requests, req'[q].state = "confirmed", req[q].state # "confirmed",
                        NEW m \in req[q].members
                 PROVE  m.number \in OP!Readable /\ version[m.number] = m.version
        BY DEF OP!ConfirmedIsCurrent
    <2>1. OP!Confirm(q)
        BY <1>2
    <2>2. access /\ msg[m.number] = "open" /\ version[m.number] = m.version
        BY <2>1 DEF OP!Confirm, OP!Holds, OP!Agrees
    <2>3. m.number \in OP!Numbers
        BY DEF PacketRow, OP!Member
    <2> QED
        BY <2>2, <2>3 DEF OP!Readable
<1> QED
    BY <1>1, <1>3, <1>4

\* Only the caller's own setting moves the pointer back, a request is confirmed by a caller who
\* has seen the pointer it set last, and what is confirmed is what the caller may read at that
\* moment (confirm_offline_delivery, check_manifest).
THEOREM PointerMovesKnowingly ==
    OP!PacketAssumption => (OP!Spec => [][OP!OnlySetGoesBack /\ OP!ConfirmedKnowingly /\ OP!ConfirmedIsCurrent]_(OP!vars))
<1> SUFFICES ASSUME OP!PacketAssumption
             PROVE  OP!Spec => [][OP!OnlySetGoesBack /\ OP!ConfirmedKnowingly /\ OP!ConfirmedIsCurrent]_(OP!vars)
    OBVIOUS
<1>1. PacketInv /\ [OP!Next]_(OP!vars) => [OP!OnlySetGoesBack /\ OP!ConfirmedKnowingly /\ OP!ConfirmedIsCurrent]_(OP!vars)
    BY PacketPointerStep
<1> QED
    BY <1>1, PacketInvariant, PTL DEF OP!Spec
=============================================================================
