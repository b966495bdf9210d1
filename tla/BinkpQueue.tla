----------------------------- MODULE BinkpQueue -----------------------------
(* The durable side of BinkP on one board: the shared outbound queue, the     *)
(* claims a session lays over it, and the health of each link.                *)
(*                                                                            *)
(* A session begins, prepares the packets of the link's work, claims what is  *)
(* ready, offers it, and records what the peer acknowledged; `finish` settles *)
(* what is left, at the end of the session or when the board starts again.    *)
(* Meanwhile the operator holds and releases work, the policy changes, a      *)
(* message is withdrawn, the daemon dies, and an older copy of the board is   *)
(* restored.  The wire is in BinkpSession; here a peer takes, skips or leaves *)
(* what it is offered.                                                        *)
EXTENDS Naturals, FiniteSets

CONSTANTS
    Works,          \* queued work: one message for one link each
    Links,          \* the links
    LinkOf,         \* [work -> its link]
    MaxSessions,    \* sessions on the whole board (2)
    MaxAttempts,    \* attempts that end automatic eligibility (12)
    MaxPolicy,      \* bound: changes of policy
    MaxWithdrawals, \* bound: messages withdrawn
    MaxOperator,    \* bound: holds and releases by the operator
    MaxCrashes,     \* bound: deaths of the daemon
    MaxRestores,    \* bound: restores of an older copy
    Peer,           \* what a peer may do with an offer: a subset of
                    \*   {"take", "skip", "leave"}
    Ends            \* how a session may end: a subset of
                    \*   {"clean", "interrupted", "custody"}

LinksAssumption == LinkOf \in [Works -> Links]
BoundsAssumption ==
    /\ MaxSessions \in Nat \ {0} /\ MaxAttempts \in Nat \ {0}
    /\ {MaxPolicy, MaxWithdrawals, MaxOperator, MaxCrashes, MaxRestores} \subseteq Nat
QueueAssumption == LinksAssumption /\ BoundsAssumption

VARIABLES
    row,        \* [work -> its queue row: state, attempts, made (its packet
                \*   exists), waits (next_attempt lies ahead), policy (the
                \*   digest it was routed under)]
    live,       \* [work -> the message is as it was when it was queued]
    claim,      \* [work -> "none", "claimed", "offered" or "skipped"]
    health,     \* [link -> active (a session id is recorded), policy, failures,
                \*   waits, held]
    run,        \* [link -> the thread of the session: stage, policy, ids]
    acked,      \* works whose M_GOT is on its way to the session
    taken,      \* [work -> how often the peer took it]
    offers,     \* [work -> how often it was offered, on this board's record]
    policy,     \* the policy digest of the configuration
    up,         \* the daemon runs
    copy,       \* the backup, if one was made
    freed,      \* works the operator has released since the last restore
    count       \* how often each bounded event has happened

durable == <<row, claim, health, offers>>
outside == <<live, taken, policy, count>>
vars == <<row, live, claim, health, run, acked, taken, offers, policy, up,
          copy, freed, count>>

States == {"none", "pending", "ready", "retry", "held", "accepted", "failed"}
Eligible == {"pending", "ready", "retry"}
NoRun == [stage |-> "none", policy |-> 0, ids |-> {}]
NoCopy == [row |-> <<>>]

Worked(l) == {w \in Works : LinkOf[w] = l}
Claims(l) == {w \in Worked(l) : claim[w] # "none"}
Happens(event) == count' = [count EXCEPT ![event] = @ + 1]

(* `bind`: work routed under another policy is held, claimed or not.          *)
Bound(rows, digest) ==
    [w \in Works |->
        IF rows[w].state \in Eligible /\ rows[w].policy # digest
        THEN [rows[w] EXCEPT !.state = "held"]
        ELSE rows[w]]

(* A row whose packet and policy stay as they are.                            *)
Moved(r, state, attempts, waits) ==
    [state |-> state, attempts |-> attempts, made |-> r.made, waits |-> waits,
     policy |-> r.policy]

Init ==
    /\ row = [w \in Works |-> [state |-> "none", attempts |-> 0,
                               made |-> FALSE, waits |-> FALSE, policy |-> 0]]
    /\ live = [w \in Works |-> TRUE]
    /\ claim = [w \in Works |-> "none"]
    /\ health = [l \in Links |-> [active |-> FALSE, policy |-> 0, failures |-> 0,
                                  waits |-> FALSE, held |-> FALSE]]
    /\ run = [l \in Links |-> NoRun]
    /\ acked = {}
    /\ taken = [w \in Works |-> 0]
    /\ offers = [w \in Works |-> 0]
    /\ policy = 0
    /\ up = TRUE
    /\ copy = NoCopy
    /\ freed = {}
    /\ count = [e \in {"policy", "withdraw", "operator", "crash", "restore"} |-> 0]

-----------------------------------------------------------------------------
(* A message is routed to its link under the present policy.                  *)
Queue(w) ==
    /\ up
    /\ row[w].state = "none"
    /\ row' = Bound([row EXCEPT ![w] =
            [state |-> "pending", attempts |-> row[w].attempts, made |-> row[w].made,
             waits |-> row[w].waits, policy |-> policy]], policy)
    /\ UNCHANGED <<live, claim, health, run, acked, taken, offers, policy, up,
                   copy, freed, count>>

(* `begin_binkp`: one session for a link and MaxSessions for the board, unless *)
(* the link waits or is held; a changed policy lifts both.  An answered call  *)
(* begins the same way as a poll.                                             *)
Begin(l) ==
    LET h == health[l]
        same == h.policy = policy
    IN  /\ up
        /\ ~h.active
        /\ Cardinality({k \in Links : health[k].active}) < MaxSessions
        /\ same => ~h.held /\ ~h.waits
        /\ row' = Bound(row, policy)
        /\ health' = [health EXCEPT ![l] =
                [active |-> TRUE, policy |-> policy, failures |-> h.failures,
                 held |-> same /\ h.held, waits |-> same /\ h.waits]]
        /\ run' = [run EXCEPT ![l] = [stage |-> "begun", policy |-> policy, ids |-> {}]]
        /\ UNCHANGED <<live, claim, acked, taken, offers, policy, up, copy, freed, count>>

(* Could be packed now, under the policy the session began with.              *)
Valid(w, digest) == live[w] /\ row[w].policy = digest

(* `build_ftn` for each eligible work of the link: its packet is made, or it  *)
(* is held because the message or the policy is no longer what it was.        *)
Prepare(l) ==
    LET r == run[l]
        ids == {w \in Worked(l) : row[w].state \in Eligible /\ ~row[w].waits}
        built == [w \in Works |->
            IF w \notin ids THEN row[w]
            ELSE IF ~Valid(w, r.policy) \/ row[w].policy # policy
            THEN [row[w] EXCEPT !.state = "held"]
            ELSE IF row[w].made THEN row[w]
            ELSE [state |-> "ready", attempts |-> row[w].attempts, made |-> TRUE,
                  waits |-> row[w].waits, policy |-> row[w].policy]]
    IN  /\ up
        /\ r.stage = "begun"
        /\ row' = Bound(built, r.policy)
        /\ run' = [run EXCEPT ![l] = [stage |-> "built", policy |-> r.policy, ids |-> ids]]
        /\ UNCHANGED <<live, claim, health, acked, taken, offers, policy, up,
                       copy, freed, count>>

(* The second half of `claim_binkp`.                                          *)
Claim(l) ==
    LET r == run[l]
        rows == Bound(row, r.policy)
        work == {w \in r.ids : /\ rows[w].state \in {"ready", "retry"} /\ rows[w].made
                               /\ Valid(w, r.policy)
                               /\ rows[w].attempts < MaxAttempts}
    IN  /\ up
        /\ r.stage = "built"
        /\ row' = rows
        /\ claim' = [w \in Works |-> IF w \in work THEN "claimed" ELSE claim[w]]
        /\ run' = [run EXCEPT ![l] = [stage |-> "exchange", policy |-> r.policy, ids |-> {}]]
        /\ UNCHANGED <<live, health, acked, taken, offers, policy, up, copy, freed, count>>

-----------------------------------------------------------------------------
(* An attempt more, up to the last one.                                       *)
OneMore(attempts) == IF attempts < MaxAttempts THEN attempts + 1 ELSE MaxAttempts

\* Mutant: work held meanwhile becomes work to retry.
SettledAnew(w, why, old) ==
    LET number == OneMore(row[w].attempts)
        outcome == IF number = MaxAttempts \/ old THEN "failed" ELSE "retry"
    IN  Moved(row[w], IF why = "custody" THEN "held" ELSE outcome, number, TRUE)
Settled(w, why, old) ==
    LET number == OneMore(row[w].attempts)
        outcome == IF number = MaxAttempts \/ old THEN "failed" ELSE "retry"
        held == why = "custody" \/ row[w].state = "held"
    IN  Moved(row[w], IF held THEN "held" ELSE outcome, number, TRUE)

\* Mutant: a session that ends cleanly settles what it had offered.
CleanRows(why, links, old) ==
    [w \in Works |->
        IF claim[w] = "none" \/ LinkOf[w] \notin links THEN row[w]
        ELSE IF why = "clean" THEN [row[w] EXCEPT !.state = "accepted"]
        ELSE Settled(w, why, w \in old)]
\* Mutant: an interrupted session costs no attempt.
FreeRows(why, links, old) ==
    [w \in Works |->
        IF claim[w] = "none" \/ LinkOf[w] \notin links THEN row[w]
        ELSE [Settled(w, why, w \in old) EXCEPT !.attempts = row[w].attempts]]
FinishedRows(why, links, old) ==
    [w \in Works |-> IF claim[w] # "none" /\ LinkOf[w] \in links
                     THEN Settled(w, why, w \in old) ELSE row[w]]

\* Mutant: failures are counted without end.
UncappedHealth(why, links) ==
    [l \in Links |->
        LET failed == why # "clean" \/ Claims(l) # {}
            failures == IF failed THEN health[l].failures + 1 ELSE 0
        IN  IF l \notin links THEN health[l]
            ELSE [active |-> FALSE, policy |-> health[l].policy, failures |-> failures,
                  waits |-> failed, held |-> why = "custody" \/ failures >= MaxAttempts]]

FinishedHealth(why, links) ==
    [l \in Links |->
        LET failed == why # "clean" \/ Claims(l) # {}
            failures == IF failed THEN OneMore(health[l].failures) ELSE 0
        IN  IF l \notin links THEN health[l]
            ELSE [active |-> FALSE, policy |-> health[l].policy, failures |-> failures,
                  waits |-> failed, held |-> why = "custody" \/ failures = MaxAttempts]]

\* Mutant: a session that is over keeps its claims.
KeptClaims(links) == [w \in Works |-> IF claim[w] = "offered" THEN claim[w] ELSE "none"]
FinishedClaims(links) ==
    [w \in Works |-> IF LinkOf[w] \in links THEN "none" ELSE claim[w]]

Finish(l, why) ==
    /\ \E old \in SUBSET Claims(l) : row' = FinishedRows(why, {l}, old)
    /\ health' = FinishedHealth(why, {l})
    /\ claim' = FinishedClaims({l})
    /\ run' = [run EXCEPT ![l] = NoRun]
    /\ acked' = acked \ Worked(l)
    /\ UNCHANGED offers

(* `offered_binkp`: the work is looked at once more before its bytes leave;   *)
(* if it may no longer be sent, the session fails in custody.                 *)
Offer(w) ==
    LET l == LinkOf[w]
        may == row[w].state \in Eligible /\ live[w] /\ row[w].policy = policy
    IN  /\ up
        /\ run[l].stage = "exchange" /\ claim[w] = "claimed"
        /\ \A v \in Claims(l) : claim[v] = "offered" => v \in acked
        /\ IF may
           THEN /\ claim' = [claim EXCEPT ![w] = "offered"]
                /\ offers' = [offers EXCEPT ![w] = @ + 1]
                /\ UNCHANGED <<row, health, run, acked>>
           ELSE Finish(l, "custody")
        /\ UNCHANGED <<live, taken, policy, up, copy, freed, count>>

(* What the peer does with an offer.  It has it before it says so.            *)
Answer(w) ==
    /\ up
    /\ claim[w] = "offered" /\ w \notin acked /\ run[LinkOf[w]].stage = "exchange"
    /\ \/ /\ "take" \in Peer
          /\ taken' = [taken EXCEPT ![w] = @ + 1]
          /\ \/ acked' = acked \cup {w} /\ UNCHANGED <<claim, run>>
             \/ /\ "interrupted" \in Ends
                /\ run' = [run EXCEPT ![LinkOf[w]].stage = "broken"]
                /\ UNCHANGED <<claim, acked>>
       \/ /\ "skip" \in Peer
          /\ claim' = [claim EXCEPT ![w] = "skipped"]
          /\ UNCHANGED <<taken, acked, run>>
       \/ /\ "leave" \in Peer
          /\ run' = [run EXCEPT ![LinkOf[w]].stage = "broken"]
          /\ UNCHANGED <<taken, acked, claim>>
    /\ UNCHANGED <<row, live, health, offers, policy, up, copy, freed, count>>

(* `accepted_binkp`: true whatever became of the policy or the row meanwhile. *)
Accept(w) ==
    /\ up
    /\ w \in acked /\ run[LinkOf[w]].stage = "exchange"
    /\ claim[w] = "offered" /\ row[w].state # "accepted" /\ row[w].attempts < MaxAttempts
    /\ row' = [row EXCEPT ![w] = Moved(@, "accepted", @.attempts + 1, FALSE)]
    /\ claim' = [claim EXCEPT ![w] = "none"]
    /\ acked' = acked \ {w}
    /\ UNCHANGED <<live, health, run, taken, offers, policy, up, copy, freed, count>>

(* The session ends: cleanly once each claim was answered, or because the     *)
(* connection broke, or the session is cancelled under a changed policy.      *)
End(l) ==
    /\ up
    /\ \/ /\ "clean" \in Ends
          /\ run[l].stage = "exchange"
          /\ \A w \in Claims(l) : claim[w] = "skipped"
          /\ Finish(l, "clean")
       \/ /\ run[l].stage # "none"
          /\ run[l].stage = "broken" \/ run[l].policy # policy \/ "interrupted" \in Ends
          /\ Finish(l, "interrupted")
       \/ /\ "custody" \in Ends
          /\ run[l].stage \in {"begun", "built", "exchange"}
          /\ Finish(l, "custody")
    /\ UNCHANGED <<live, taken, policy, up, copy, freed, count>>

-----------------------------------------------------------------------------
(* The operator, by the version of the row: one that has changed since the     *)
(* operator looked at it conflicts, and nothing is done.                      *)

\* Mutant: any unclaimed work can be held, accepted or not.
HoldAny(w) ==
    /\ up /\ row[w].state # "none" /\ claim[w] = "none"
    /\ count["operator"] < MaxOperator /\ Happens("operator")
    /\ row' = [row EXCEPT ![w] = Moved(@, "held", @.attempts, FALSE)]
    /\ UNCHANGED <<live, claim, health, run, acked, taken, offers, policy, up, copy, freed>>

(* `hold_binkp`: only unclaimed work.                                         *)
Hold(w) ==
    LET rows == Bound(row, policy)
    IN  /\ up /\ rows[w] = row[w]
        /\ rows[w].state \in Eligible \cup {"failed"}
        /\ claim[w] = "none"
        /\ count["operator"] < MaxOperator /\ Happens("operator")
        /\ row' = [rows EXCEPT ![w] = Moved(@, "held", @.attempts, FALSE)]
        /\ UNCHANGED <<live, claim, health, run, acked, taken, offers, policy, up,
                       copy, freed>>

(* `release_binkp`: also lifts the link's hold, unless a session is active.   *)
Release(w) ==
    LET rows == Bound(row, policy)
        l == LinkOf[w]
    IN  /\ up /\ rows[w] = row[w]
        /\ rows[w].policy = policy
        /\ rows[w].state \in Eligible \cup {"held", "failed"}
        /\ claim[w] = "none"
        /\ rows[w].attempts < MaxAttempts
        /\ count["operator"] < MaxOperator /\ Happens("operator")
        /\ row' = [rows EXCEPT ![w] =
                Moved(@, IF @.made THEN "ready" ELSE "pending", @.attempts, FALSE)]
        /\ health' = IF health[l].active THEN health
                     ELSE [health EXCEPT ![l] = [active |-> FALSE, policy |-> @.policy,
                             failures |-> 0, waits |-> FALSE, held |-> FALSE]]
        /\ freed' = freed \cup {w}
        /\ UNCHANGED <<live, claim, run, acked, taken, offers, policy, up, copy>>

ChangePolicy ==
    /\ count["policy"] < MaxPolicy /\ Happens("policy")
    /\ policy' = policy + 1
    /\ UNCHANGED <<row, live, claim, health, run, acked, taken, offers, up, copy, freed>>

(* A message is edited or removed after it was queued.                        *)
Withdraw(w) ==
    /\ row[w].state # "none" /\ live[w]
    /\ count["withdraw"] < MaxWithdrawals /\ Happens("withdraw")
    /\ live' = [live EXCEPT ![w] = FALSE]
    /\ UNCHANGED <<row, claim, health, run, acked, taken, offers, policy, up, copy, freed>>

(* Backoff runs out.                                                          *)
LinkRested(l) ==
    /\ health[l].waits /\ ~health[l].active
    /\ health' = [health EXCEPT ![l].waits = FALSE]
    /\ UNCHANGED <<row, live, claim, run, acked, taken, offers, policy, up, copy, freed, count>>

WorkRested(w) ==
    /\ row[w].waits
    /\ row' = [row EXCEPT ![w].waits = FALSE]
    /\ UNCHANGED <<live, claim, health, run, acked, taken, offers, policy, up, copy, freed, count>>

-----------------------------------------------------------------------------
Crash ==
    /\ up
    /\ count["crash"] < MaxCrashes /\ Happens("crash")
    /\ up' = FALSE
    /\ run' = [l \in Links |-> NoRun]
    /\ acked' = {}
    /\ UNCHANGED <<row, live, claim, health, taken, offers, policy, copy, freed>>

\* Mutant: the sessions on record are left to resume.
StartOnly ==
    /\ ~up
    /\ up' = TRUE
    /\ UNCHANGED <<row, live, claim, health, run, acked, taken, offers, policy, copy, freed, count>>

(* `recover_binkp`: each session on record is finished as interrupted.        *)
Start ==
    LET links == {l \in Links : health[l].active}
    IN  /\ ~up
        /\ up' = TRUE
        /\ \E old \in SUBSET {w \in Works : claim[w] # "none"} :
              row' = FinishedRows("interrupted", links, old)
        /\ health' = FinishedHealth("interrupted", links)
        /\ claim' = FinishedClaims(links)
        /\ UNCHANGED <<live, run, acked, taken, offers, policy, copy, freed, count>>

Backup ==
    /\ MaxRestores > 0 /\ copy = NoCopy
    /\ copy' = [row |-> row, claim |-> claim, health |-> health, offers |-> offers]
    /\ UNCHANGED <<row, live, claim, health, run, acked, taken, offers, policy, up,
                   freed, count>>

\* Mutant: what was offered before the copy was made is retried.
RetriedReview(r) == IF r.state \in {"pending", "ready"} THEN [r EXCEPT !.state = "held"] ELSE r
ForReview(r) == IF r.state \in Eligible THEN [r EXCEPT !.state = "held"] ELSE r

(* A restore puts the copy back: claims are settled, then unsent work is held *)
(* for review.                                                                *)
Restore ==
    /\ ~up /\ copy # NoCopy
    /\ count["restore"] < MaxRestores /\ Happens("restore")
    /\ row' = [w \in Works |->
            LET r == copy.row[w]
                tried == OneMore(r.attempts)
            IN  ForReview(IF copy.claim[w] = "none" THEN r
                          ELSE Moved(r, IF tried = MaxAttempts THEN "failed" ELSE "retry",
                                     tried, TRUE))]
    /\ claim' = [w \in Works |-> "none"]
    /\ health' = [l \in Links |->
            LET h == copy.health[l]
                failures == OneMore(h.failures)
            IN  IF ~h.active THEN h
                ELSE [active |-> FALSE, policy |-> h.policy, failures |-> failures,
                      waits |-> TRUE, held |-> failures = MaxAttempts]]
    /\ offers' = copy.offers
    /\ freed' = {}
    /\ UNCHANGED <<live, run, acked, taken, policy, up, copy>>

Next ==
    \/ \E w \in Works : Queue(w) \/ Offer(w) \/ Answer(w) \/ Accept(w)
    \/ \E l \in Links : Begin(l) \/ Prepare(l) \/ Claim(l) \/ End(l)
    \/ \E w \in Works : Hold(w) \/ Release(w) \/ Withdraw(w)
    \/ \E l \in Links : LinkRested(l)
    \/ \E w \in Works : WorkRested(w)
    \/ ChangePolicy
    \/ Crash \/ Start \/ Backup \/ Restore

(* The session's thread runs, the peer answers, time passes, and a daemon that *)
(* died is started again.                                                     *)
Fairness ==
    /\ \A w \in Works :
          /\ WF_vars(Offer(w)) /\ WF_vars(Answer(w)) /\ WF_vars(Accept(w))
          /\ WF_vars(WorkRested(w))
    /\ \A l \in Links :
          /\ WF_vars(Prepare(l)) /\ WF_vars(Claim(l)) /\ WF_vars(End(l)) /\ SF_vars(Begin(l))
          /\ WF_vars(LinkRested(l))
    /\ WF_vars(Start)

Spec == Init /\ [][Next]_vars /\ Fairness

-----------------------------------------------------------------------------
(* Every variable has its type.                                               *)
TypeOK ==
    /\ row \in [Works -> [state : States, attempts : 0 .. MaxAttempts,
                          made : BOOLEAN, waits : BOOLEAN, policy : 0 .. MaxPolicy]]
    /\ claim \in [Works -> {"none", "claimed", "offered", "skipped"}]
    /\ health \in [Links -> [active : BOOLEAN, policy : 0 .. MaxPolicy,
                             failures : 0 .. MaxAttempts, waits : BOOLEAN, held : BOOLEAN]]
    /\ \A l \in Links : run[l].stage \in {"none", "begun", "built", "exchange", "broken"}
    /\ acked \subseteq Works /\ freed \subseteq Works

(* A claim belongs to the one session of its link, also while the daemon is   *)
(* down; an accepted work is in no claim.                                     *)
ClaimsHaveSession ==
    \A w \in Works : claim[w] # "none" =>
        health[LinkOf[w]].active /\ row[w].state # "accepted"

(* What the queue calls accepted the peer did take: an offer, a clean end or  *)
(* a restart never count as an acknowledgement.                               *)
AcceptedWasTaken == \A w \in Works : row[w].state = "accepted" => taken[w] > 0

(* Each offer is on record as an attempt, or is the one under way: no work is *)
(* offered more often than its history says, through crashes and restarts.    *)
OffersAreAttempts ==
    \A w \in Works :
        offers[w] <= row[w].attempts + IF claim[w] \in {"offered", "skipped"} THEN 1 ELSE 0

(* After a restore nothing that was queued in the copy is offered unless the  *)
(* operator released it: the peer may have it already.                        *)
RestoredAwaitsReview ==
    count["restore"] > 0 =>
        \A w \in Works : claim[w] = "offered" /\ copy.row[w].state # "none" => w \in freed

(* A held work is let go by the operator alone, or by an acknowledgement of   *)
(* what had left the board: no end of a session, no new policy, no restart.   *)
HeldIsReviewed ==
    \A w \in Works : row[w].state = "held" =>
        \/ row'[w].state \in {"held", "accepted"}
        \/ w \in freed'
        \/ count'["restore"] # count["restore"]

(* Once accepted, always accepted, unless an older copy is restored.          *)
AcceptedIsFinal ==
    \A w \in Works : row[w].state = "accepted" /\ count'["restore"] = count["restore"] =>
        row'[w].state = "accepted"

(* What the queue promises of the work it is given.                           *)
WorkIsClaimedOnce ==
    /\ [](/\ TypeOK /\ ClaimsHaveSession /\ AcceptedWasTaken /\ OffersAreAttempts
          /\ RestoredAwaitsReview)
    /\ [][HeldIsReviewed /\ AcceptedIsFinal]_vars

(* Queued work is accepted, fails for good, or waits for the operator -- its  *)
(* own row or its link is held.  No crash and no peer leaves it in between.   *)
WorkIsSettled ==
    \A w \in Works :
        row[w].state \in Eligible ~>
            row[w].state \in {"accepted", "failed", "held"} \/ health[LinkOf[w]].held

=============================================================================
