--------------------------- MODULE CircuitRestore ---------------------------
(***************************************************************************)
(* Cold backup and restore of boards that exchange CircuitNET messages.    *)
(*                                                                         *)
(* Boards 1..Length stand in a line: callers post at board 1, and every board *)
(* forwards what it imports to the next one.  A restore puts the whole     *)
(* database of one board back to its last backup, while its neighbors, the *)
(* batches and the receipts that left it stay as they are: it is the only  *)
(* step that makes a board forget what others remember.  The restore holds *)
(* every unfinished delivery for an operator.                              *)
(*                                                                         *)
(* Policy, subscriptions, capabilities and identity policy are those of    *)
(* CircuitNet and are left out; every message here is eligible.  A batch   *)
(* is content-addressed, so it is the set of the identities in it; it, and *)
(* a receipt, may be lost, late or repeated on the way.                    *)
(***************************************************************************)
EXTENDS Naturals, FiniteSets

CONSTANTS Length,          \* the boards of the line
          Posts,        \* what callers post at board 1
          Names,        \* the random identities there are to draw from
          NoPost,
          MaxAttempts,  \* 12 in the code
          MaxRestores   \* bound on the restores

LineAssumption ==
    /\ Length \in Nat /\ Length >= 2 /\ NoPost \notin Posts
    /\ MaxAttempts \in Nat /\ MaxRestores \in Nat

VARIABLES db,        \* the database of each board
          tape,      \* the last cold backup of each board
          offers,    \* batches that ever left a board: <<sender, batch>>
          receipts,  \* receipts that ever left a board: <<receiver, batch>>
          of,        \* the post behind each identity drawn so far
          lost,      \* identities each board has forgotten in a restore
          review,    \* rows a restore held that no operator has looked at
          restores
vars == <<db, tape, offers, receipts, of, lost, review, restores>>

Boards == 1..Length
Batches == (SUBSET Names) \ {{}}
Terminal == {"accepted", "failed"}
States == {"none", "pending", "ready", "retry", "held"} \cup Terminal
Row == [state : States, batch : SUBSET Names, tries : 0..MaxAttempts]
NoRow == [state |-> "none", batch |-> {}, tries |-> 0]
Database == [posts : SUBSET Posts, msgs : SUBSET Names, row : [Names -> Row],
             batches : SUBSET Batches, imports : SUBSET Batches]
Empty == [posts |-> {}, msgs |-> {}, row |-> [n \in Names |-> NoRow],
          batches |-> {}, imports |-> {}]

Init ==
    /\ db = [b \in Boards |-> Empty]
    /\ tape = db
    /\ offers = {} /\ receipts = {}
    /\ of = [n \in Names |-> NoPost]
    /\ lost = [b \in Boards |-> {}]
    /\ review = lost
    /\ restores = 0

-----------------------------------------------------------------------------
(* Mutant: a transit board keeps what it imports.                          *)
Publish_OriginOnly(b, rows, ns) ==
    [n \in Names |-> IF n \in ns /\ b = 1 THEN [NoRow EXCEPT !.state = "pending"] ELSE rows[n]]
(* A board owes the next one each of the messages ns it has taken into     *)
(* custody.                                                                *)
Publish(b, rows, ns) ==
    [n \in Names |-> IF n \in ns /\ b < Length
                     THEN [NoRow EXCEPT !.state = "pending"] ELSE rows[n]]

SetRows(rows, ns, NewRow(_)) == [n \in Names |-> IF n \in ns THEN NewRow(rows[n]) ELSE rows[n]]

Post(p) ==
    /\ \A b \in Boards : p \notin db[b].posts
    /\ \A n \in Names : of[n] # p
    /\ db' = [db EXCEPT ![1].posts = @ \cup {p}]
    /\ UNCHANGED <<tape, offers, receipts, of, lost, review, restores>>

Unscanned_All(d) == d.posts
Unscanned(d) == {p \in d.posts : \A n \in d.msgs : of[n] # p}

(* Every local post without an identity gets a random one, never drawn     *)
(* before.                                                                 *)
Scan ==
    LET new == Unscanned(db[1])
        fresh == {n \in Names : of[n] = NoPost}
    IN /\ new # {}
       /\ \E draw \in [new -> fresh] :
            LET ns == {draw[p] : p \in new}
            IN /\ Cardinality(ns) = Cardinality(new)
               /\ of' = [n \in Names |-> IF n \in ns THEN CHOOSE p \in new : draw[p] = n
                                                     ELSE of[n]]
               /\ db' = [db EXCEPT ![1].msgs = @ \cup ns,
                                   ![1].row = Publish(1, @, ns)]
    /\ UNCHANGED <<tape, offers, receipts, lost, review, restores>>

-----------------------------------------------------------------------------
(* Mutant: a row that failed once is left out.                             *)
Sendable_NotRetried(rows) == {n \in Names : /\ rows[n].state \in {"pending", "ready"}
                                            /\ rows[n].tries < MaxAttempts}
(* What may go out: the unfinished rows of one prior batch, if there is    *)
(* one, else everything queued.                                            *)
Sendable(rows) == {n \in Names : /\ rows[n].state \in {"pending", "ready", "retry"}
                                 /\ rows[n].tries < MaxAttempts}
Prior(rows) == {rows[n].batch : n \in {k \in Sendable(rows) : /\ rows[k].state # "pending"
                                                             /\ rows[k].batch # {}}}
NextBatches(rows) ==
    IF Prior(rows) = {} THEN {Sendable(rows)}
    ELSE {{n \in Sendable(rows) : rows[n].batch = batch} : batch \in Prior(rows)}

Prepare(b) ==
    \E batch \in NextBatches(db[b].row) :
        /\ batch # {}
        /\ db' = [db EXCEPT
                    ![b].batches = @ \cup {batch},
                    ![b].row = SetRows(@, batch,
                        LAMBDA r : [r EXCEPT !.state = "ready", !.batch = batch])]
        /\ offers' = offers \cup {<<b, batch>>}
        /\ UNCHANGED <<tape, receipts, of, lost, review, restores>>

(* A batch seen before is only acknowledged again; a message known under   *)
(* its identity is a duplicate; the rest becomes native and is owed on.    *)
Import(b, batch) ==
    LET new == IF batch \in db[b].imports THEN {} ELSE batch \ db[b].msgs
    IN /\ <<b - 1, batch>> \in offers
       /\ db' = [db EXCEPT ![b].msgs = @ \cup new,
                           ![b].row = Publish(b, @, new),
                           ![b].imports = @ \cup {batch}]
       /\ receipts' = receipts \cup {<<b, batch>>}
       /\ lost' = [lost EXCEPT ![b] = @ \ new]
       /\ UNCHANGED <<tape, offers, of, review, restores>>

(* Mutant: a receipt settles whatever this board has ever sent.            *)
Acknowledge_AnyBatch(b, batch) ==
    /\ <<b + 1, batch>> \in receipts
    /\ db' = [db EXCEPT ![b].row = SetRows(@, UNION db[b].batches,
                LAMBDA r : [r EXCEPT !.state = "accepted"])]
    /\ review' = [review EXCEPT ![b] = @ \ UNION db[b].batches]
    /\ UNCHANGED <<tape, offers, receipts, of, lost, restores>>

(* A receipt settles the rows of a batch this board remembers having made, *)
(* whatever their state; any other receipt is a conflict.                  *)
Acknowledge(b, batch) ==
    /\ <<b + 1, batch>> \in receipts
    /\ batch \in db[b].batches
    /\ db' = [db EXCEPT ![b].row =
                SetRows(@, batch, LAMBDA r : [r EXCEPT !.state = "accepted"])]
    /\ review' = [review EXCEPT ![b] = @ \ batch]
    /\ UNCHANGED <<tape, offers, receipts, of, lost, restores>>

Burnt_All(rows, batch) == batch
Burnt(rows, batch) == {n \in batch : rows[n].state = "ready" /\ rows[n].tries < MaxAttempts}

(* An exchange that fails costs every row that was ready an attempt.       *)
Failed(b, batch) ==
    LET burnt == Burnt(db[b].row, batch)
    IN /\ batch \in db[b].batches
       /\ burnt # {}
       /\ db' = [db EXCEPT ![b].row = SetRows(@, burnt,
                    LAMBDA r : [r EXCEPT !.tries = @ + 1,
                        !.state = IF r.tries = MaxAttempts - 1 THEN "failed" ELSE "retry"])]
       /\ UNCHANGED <<tape, offers, receipts, of, lost, review, restores>>

(* The operator has reviewed a held row.                                   *)
Retry(b, n) ==
    /\ db[b].row[n].state \in {"held", "retry"}
    /\ db[b].row[n].tries < MaxAttempts
    /\ db' = [db EXCEPT ![b].row[n].state = "retry"]
    /\ review' = [review EXCEPT ![b] = @ \ {n}]
    /\ UNCHANGED <<tape, offers, receipts, of, lost, restores>>

-----------------------------------------------------------------------------
Backup(b) ==
    /\ tape' = [tape EXCEPT ![b] = db[b]]
    /\ UNCHANGED <<db, offers, receipts, of, lost, review, restores>>

Unsettled(rows) == {n \in Names : rows[n].state \notin Terminal \cup {"none"}}
HoldRestored_Not(rows) == rows
HoldRestored(rows) == SetRows(rows, Unsettled(rows), LAMBDA r : [r EXCEPT !.state = "held"])

Restore(b) ==
    /\ restores < MaxRestores
    /\ restores' = restores + 1
    /\ db' = [db EXCEPT ![b] = [tape[b] EXCEPT !.row = HoldRestored(@)]]
    /\ lost' = [lost EXCEPT ![b] = (@ \cup db[b].msgs) \ tape[b].msgs]
    /\ review' = [review EXCEPT ![b] = Unsettled(tape[b].row)]
    /\ UNCHANGED <<tape, offers, receipts, of>>

Next ==
    \/ \E p \in Posts : Post(p)
    \/ Scan
    \/ \E b \in Boards : Prepare(b) \/ Backup(b) \/ Restore(b)
    \/ \E b \in Boards, batch \in Batches :
          (b > 1 /\ Import(b, batch)) \/ (b < Length /\ Acknowledge(b, batch)) \/ Failed(b, batch)
    \/ \E b \in Boards, n \in Names : Retry(b, n)

Spec == Init /\ [][Next]_vars

(* The events that poll a neighbor come round again, so what can be sent   *)
(* is sent, imported and acknowledged; an operator looks at what is held.  *)
Fairness ==
    /\ \A b \in Boards : WF_vars(Prepare(b))
    /\ \A b \in Boards, n \in Names : WF_vars(db[b].row[n].state = "held" /\ Retry(b, n))
    /\ \A b \in Boards, batch \in Batches :
          /\ WF_vars(b > 1 /\ Import(b, batch))
          /\ WF_vars(b < Length /\ Acknowledge(b, batch))
FairSpec == Spec /\ Fairness

-----------------------------------------------------------------------------
TypeOK ==
    /\ db \in [Boards -> Database]
    /\ tape \in [Boards -> Database]
    /\ offers \subseteq Boards \X Batches
    /\ receipts \subseteq Boards \X Batches
    /\ of \in [Names -> Posts \cup {NoPost}]
    /\ lost \in [Boards -> SUBSET Names]
    /\ review \in [Boards -> SUBSET Names]
    /\ restores \in 0..MaxRestores

(* What was in flight when the backup was made goes out again only after   *)
(* an operator has looked at it, or is settled by a receipt: a restored    *)
(* board sends nothing on its own account (hold_restored_circuitnet).      *)
RestoredIsReviewed ==
    \A b \in Boards : \A n \in review[b] : db[b].row[n].state = "held"

(* A delivery a board believes is in the custody of the next board: that   *)
(* board forgets it only in its own restore, whatever the sender forgets   *)
(* and replays (circuitnet_import_inner, circuitnet_acknowledge_neighbor). *)
OnlyRestoreLoses ==
    \A b \in 1..(Length - 1), n \in Names :
        db[b].row[n].state = "accepted" => n \in db[b + 1].msgs \cup lost[b + 1]

(* How a post comes to carry two identities, which the documentation says  *)
(* it never does (NoDuplicateImport): only by a restore of its origin that *)
(* forgot the first.  Replays, retries and restores of other boards do not *)
(* duplicate it.                                                           *)
SecondNameNeedsRestore ==
    \A b \in Boards, n, m \in Names :
        (n # m /\ {n, m} \subseteq db[b].msgs /\ of[n] = of[m]) => {n, m} \cap lost[1] # {}

(* docs/technical/circuitnet.md:250: "Restoring an old sender can recover  *)
(* later receipts from its receiver without duplicate import or transit."  *)
(* The code does not keep it: a post made before the backup and scanned    *)
(* after it is scanned again, under a new identity, by the restored board. *)
NoDuplicateImport ==
    \A b \in 2..Length : \A n, m \in db[b].msgs : of[n] = of[m] => n = m

(* Whatever a restore forgets or holds, every delivery that is owed is     *)
(* accepted or fails at its ceiling, or a later restore forgets it.        *)
OwedIsSettled ==
    \A b \in Boards, n \in Names :
        db[b].row[n].state \notin Terminal \cup {"none"}
            ~> db[b].row[n].state \in Terminal \cup {"none"}


(* What the origin believes accepted reaches the end of the line, unless a *)
(* restore on the way forgets it or a delivery fails at its ceiling: the   *)
(* origin never sends it again (circuitnet_scan, insert_native).           *)
AcceptedArrives ==
    \A n \in Names :
        db[1].row[n].state = "accepted"
            ~> \/ n \in db[Length].msgs
               \/ \E b \in Boards : n \in lost[b] \/ db[b].row[n].state = "failed"
=============================================================================
