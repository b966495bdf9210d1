---------------------------- MODULE CircuitFiles ----------------------------
(***************************************************************************)
(* CircuitNET file distribution: files that an operator or a caller gave a *)
(* board are published under a random identity, offered to subscribed      *)
(* neighbors in a session, admitted there under local policy, and passed   *)
(* on.  A durable receipt at the importer settles the delivery.            *)
(*                                                                         *)
(* The boards stand in a line: the outer ones are End nodes, the others    *)
(* pass on what they import, so the path of a publication at a board is    *)
(* the stretch between its origin and that board.  There is one file area, *)
(* mapped everywhere, in both directions.  A file stands for a name with   *)
(* its bytes; the steps of a native admission are those of FileCustody.    *)
(***************************************************************************)
EXTENDS Integers, FiniteSets, FiniteSetsExt

CONSTANTS Length, Files,
          MaxIds,       \* random identities, drawn in any order
          Native,       \* <<board, file>>: what boards admit locally
          Refused,      \* <<board, file>>: too large for the board's policy
          Verdicts,     \* what a board's inspection and policy may say
          MaxAttempts,  \* 12 in the code
          Limit,        \* offers of one session, 8 in the code
          MaxEdits, MaxFaults,  \* bounds: operator commands, broken sessions
          None

VARIABLES lib,      \* board -> file -> admission of the native file
          source,   \* board -> file -> who it came from
          of,       \* identity -> <<origin, file>>
          pub,      \* board -> identity -> publication record
          dossier,  \* <<board, neighbor>> -> subscribed
          due,      \* <<board, neighbor>> -> identity -> delivery row
          sess,     \* <<board, neighbor>> -> the file phase of a session
          edits, faults
custody == <<lib, source>>
vars == <<custody, of, pub, dossier, due, sess, edits, faults>>

Boards == 1..Length
Ids == 1..MaxIds
Links == {l \in Boards \X Boards : l[1] - l[2] \in {-1, 1}}
Neighbors(b) == {n \in Boards : <<b, n>> \in Links}
Path(o, b) == {n \in Boards : (o <= n /\ n <= b) \/ (b <= n /\ n <= o)}
End(b) == b \in {1, Length}

Statuses == {"absent", "published", "pending", "quarantined", "rejected"}
Outcomes == Statuses \ {"absent"}
Own == [receipt |-> None, filed |-> TRUE]
Publication == [receipt : Outcomes \cup {None}, filed : BOOLEAN]
Delivery == [tries : 0..MaxAttempts, receipt : Outcomes \cup {None}]
Fresh == [tries |-> 0, receipt |-> None]
Idle == [at |-> "idle", list |-> {}, cur |-> 0, outcome |-> None, filed |-> FALSE]
FilesAssumption ==
    /\ Length \in Nat /\ Length >= 2 /\ Limit \in Nat \ {0}
    /\ {MaxIds, MaxAttempts, MaxEdits, MaxFaults} \subseteq Nat /\ Verdicts \subseteq Outcomes
    /\ None \notin Publication \cup Delivery \cup (Boards \X Files)
Places == {"idle", "list", "next", "offered", "want", "admitted", "receipt"}

TypeOK ==
    /\ lib \in [Boards -> [Files -> Statuses]]
    /\ source \in [Boards -> [Files -> {"none", "local", "circuitnet"}]]
    /\ of \in [Ids -> (Boards \X Files) \cup {None}]
    /\ pub \in [Boards -> [Ids -> Publication \cup {None}]]
    /\ dossier \in [Links -> BOOLEAN]
    /\ due \in [Links -> [Ids -> Delivery \cup {None}]]
    /\ sess \in [Links -> [at : Places, list : SUBSET Ids, cur : 0..MaxIds,
                           outcome : Outcomes \cup {None}, filed : BOOLEAN]]
    /\ edits \in 0..MaxEdits /\ faults \in 0..MaxFaults

Init ==
    /\ lib = [b \in Boards |-> [f \in Files |-> "absent"]]
    /\ source = [b \in Boards |-> [f \in Files |-> "none"]]
    /\ of = [id \in Ids |-> None]
    /\ pub = [b \in Boards |-> [id \in Ids |-> None]]
    /\ dossier = [l \in Links |-> TRUE]
    /\ due = [l \in Links |-> [id \in Ids |-> None]]
    /\ sess = [l \in Links |-> Idle]
    /\ edits = 0 /\ faults = 0

File(id) == of[id][2]
Published_AnyFile(b, id) == pub[b][id] # None /\ lib[b][File(id)] = "published"
Published(b, id) == pub[b][id] # None /\ pub[b][id].filed /\ lib[b][File(id)] = "published"

-----------------------------------------------------------------------------
(* Publishing and fanout.                                                  *)

Admit(b, f) ==
    /\ <<b, f>> \in Native /\ lib[b][f] = "absent"
    /\ \E v \in Verdicts : lib' = [lib EXCEPT ![b][f] = v]
    /\ source' = [source EXCEPT ![b][f] = "local"]
    /\ UNCHANGED <<of, pub, dossier, due, sess, edits, faults>>

Unpublished_AnySource(b) == {f \in Files :
    lib[b][f] = "published" /\ \A id \in Ids : pub[b][id] = Own => of[id] # <<b, f>>}
Unpublished(b) == {f \in Files : /\ lib[b][f] = "published"
                                 /\ source[b][f] # "circuitnet"
                                 /\ \A id \in Ids : pub[b][id] = Own => of[id] # <<b, f>>}

(* The delivery rows of board b, once the publications ids are owed to     *)
(* whoever subscribes and is not on their path.                            *)
Fanout(b, ids, origins) ==
    [l \in Links |-> [id \in Ids |->
        IF /\ l[1] = b /\ id \in ids /\ due[l][id] = None
           /\ End(b) => origins[id][1] = b
           /\ l[2] \notin Path(origins[id][1], b) /\ dossier[l]
        THEN Fresh ELSE due[l][id]]]

Reconsidered_OwnOnly(b) == {id \in Ids : pub[b][id] = Own /\ Published(b, id)}
(* What every preparation looks at again: approvals and subscriptions may  *)
(* have changed since it was recorded.                                     *)
Reconsidered(b) == {id \in Ids : Published(b, id)}

Prepare(b) ==
    LET new == Unpublished(b)
    IN /\ UNCHANGED <<custody, dossier, edits, faults>>
       /\ \E draw \in [new -> {id \in Ids : of[id] = None}] :
            LET ids == {draw[f] : f \in new}
            IN /\ Cardinality(ids) = Cardinality(new)
               /\ of' = [id \in Ids |-> IF id \in ids
                            THEN <<b, CHOOSE f \in new : draw[f] = id>> ELSE of[id]]
               /\ pub' = [pub EXCEPT ![b] = [id \in Ids |->
                            IF id \in ids THEN Own ELSE @[id]]]
       /\ due' = Fanout(b, Reconsidered(b)', of')

-----------------------------------------------------------------------------
(* The sending end of the file phase.                                      *)

Poll(l) ==
    /\ sess[l].at = "idle"
    /\ Prepare(l[1])
    /\ sess' = [sess EXCEPT ![l].at = "list"]

(* Offers due to a neighbor, the oldest identities first.                  *)
Offerable_NoCap(l) == {id \in Ids : /\ due[l][id] # None /\ due[l][id].receipt = None
                                    /\ Published(l[1], id) /\ dossier[l]}
Offerable(l) == {id \in Ids : /\ due[l][id] # None /\ due[l][id].receipt = None
                              /\ due[l][id].tries < MaxAttempts
                              /\ Published(l[1], id) /\ dossier[l]}
FirstOf(ids) == {id \in ids : Cardinality({k \in ids : k <= id}) <= Limit}

List(l) ==
    /\ sess[l].at = "list"
    /\ sess' = [sess EXCEPT ![l].at = "next", ![l].list = FirstOf(Offerable(l))]
    /\ UNCHANGED <<custody, of, pub, dossier, due, edits, faults>>

Attempt_Uncounted(l) ==
    /\ sess[l].at = "next" /\ sess[l].list # {}
    /\ LET id == Min(sess[l].list)
       IN sess' = [sess EXCEPT ![l].at = "offered", ![l].cur = id, ![l].list = @ \ {id}]
    /\ UNCHANGED <<custody, of, pub, dossier, due, edits, faults>>
(* The attempt is counted before anything is sent.                         *)
Attempt(l) ==
    /\ sess[l].at = "next" /\ sess[l].list # {}
    /\ LET id == Min(sess[l].list)
       IN /\ due' = [due EXCEPT ![l][id].tries =
                        IF due[l][id].receipt = None THEN @ + 1 ELSE @]
          /\ sess' = [sess EXCEPT ![l].at = "offered", ![l].cur = id,
                                  ![l].list = @ \ {id}]
    /\ UNCHANGED <<custody, of, pub, dossier, edits, faults>>

Close(l) ==
    /\ sess[l].at = "next" /\ sess[l].list = {}
    /\ sess' = [sess EXCEPT ![l] = Idle]
    /\ UNCHANGED <<custody, of, pub, dossier, due, edits, faults>>

(* The first receipt of a delivery stands.                                 *)
Settle(l) ==
    /\ sess[l].at = "receipt"
    /\ due' = [due EXCEPT ![l][sess[l].cur].receipt =
                    IF @ = None THEN sess[l].outcome ELSE @]
    /\ sess' = [sess EXCEPT ![l] = [Idle EXCEPT !.at = "next", !.list = sess[l].list]]
    /\ UNCHANGED <<custody, of, pub, dossier, edits, faults>>

-----------------------------------------------------------------------------
(* The receiving end.                                                      *)

Refuses(l) == ~dossier[<<l[2], l[1]>>] \/ <<l[2], File(sess[l].cur)>> \in Refused
Known_Forgotten(l) == FALSE
Known(l) == pub[l[2]][sess[l].cur] # None

(* A known publication is answered with its receipt; a refusal ends the    *)
(* session at both ends; anything else is wanted.                          *)
Answer(l) ==
    /\ sess[l].at = "offered"
    /\ sess' = [sess EXCEPT ![l] =
         CASE Known(l)   -> [@ EXCEPT !.at = "receipt",
                                      !.outcome = pub[l[2]][sess[l].cur].receipt]
           [] ~Known(l) /\ Refuses(l) -> Idle
           [] OTHER -> [@ EXCEPT !.at = "want"]]
    /\ UNCHANGED <<custody, of, pub, dossier, due, edits, faults>>

(* The native admission of the payload: a commit of its own.  A local      *)
(* rejection stands; any other file of that name is inspected again.       *)
Import(l) ==
    LET r == l[2]
        f == File(sess[l].cur)
    IN /\ sess[l].at = "want"
       /\ IF Refuses(l)
          THEN sess' = [sess EXCEPT ![l] = Idle] /\ UNCHANGED custody
          ELSE \E v \in (IF lib[r][f] = "rejected" THEN {"rejected"} ELSE Verdicts) :
               /\ lib' = [lib EXCEPT ![r][f] = v]
               /\ source' = [source EXCEPT ![r][f] = IF @ = "none" THEN "circuitnet" ELSE @]
               /\ sess' = [sess EXCEPT ![l].at = "admitted", ![l].outcome = v,
                                       ![l].filed = TRUE]
       /\ UNCHANGED <<of, pub, dossier, due, edits, faults>>

(* A payload with the wrong hash is a rejection without a file.            *)
WrongHash(l) ==
    /\ sess[l].at = "want" /\ faults < MaxFaults
    /\ faults' = faults + 1
    /\ sess' = [sess EXCEPT ![l] =
         IF Refuses(l) THEN Idle
         ELSE [@ EXCEPT !.at = "admitted", !.outcome = "rejected", !.filed = FALSE]]
    /\ UNCHANGED <<custody, of, pub, dossier, due, edits>>

(* Record and, if the file is public, owe it onwards: one transaction.     *)
(* The receipt goes out after the commit.                                  *)
Record(l) ==
    LET r == l[2]
        id == sess[l].cur
    IN /\ sess[l].at = "admitted"
       /\ pub' = [pub EXCEPT ![r][id] = IF @ # None THEN @
                    ELSE [receipt |-> sess[l].outcome, filed |-> sess[l].filed]]
       /\ due' = IF sess[l].outcome = "published" THEN Fanout(r, {id}, of) ELSE due
       /\ sess' = [sess EXCEPT ![l].at = "receipt"]
       /\ UNCHANGED <<custody, of, dossier, edits, faults>>

(* The line drops, or an end of it stops: what was committed stays.        *)
Break(l) ==
    /\ sess[l].at # "idle" /\ faults < MaxFaults
    /\ faults' = faults + 1
    /\ sess' = [sess EXCEPT ![l] = Idle]
    /\ UNCHANGED <<custody, of, pub, dossier, due, edits>>

-----------------------------------------------------------------------------
(* The operator.                                                           *)
Review(b, f, v) ==
    /\ lib[b][f] = "pending" \/ (v = "rejected" /\ lib[b][f] = "quarantined")
    /\ lib' = [lib EXCEPT ![b][f] = v]
    /\ UNCHANGED <<source, of, pub, dossier, due, sess, edits, faults>>

Edit == edits < MaxEdits /\ edits' = edits + 1
(* File policy is edited on a stopped board.                               *)
Stopped(b) == \A l \in Links : b \in {l[1], l[2]} => sess[l].at = "idle"

Subscribe(l) ==
    /\ Edit /\ Stopped(l[1])
    /\ dossier' = [dossier EXCEPT ![l] = ~@]
    /\ UNCHANGED <<custody, of, pub, due, sess, faults>>

Retry(l, id) ==
    /\ Edit /\ Stopped(l[1])
    /\ due[l][id] # None /\ due[l][id].receipt = None /\ dossier[l]
    /\ due' = [due EXCEPT ![l][id].tries = 0]
    /\ UNCHANGED <<custody, of, pub, dossier, sess, faults>>

-----------------------------------------------------------------------------
Wake(b) == Prepare(b) /\ UNCHANGED sess

Phase(l) == List(l) \/ Attempt(l) \/ Close(l) \/ Settle(l) \/ Answer(l) \/ Import(l) \/ Record(l)

Next ==
    \/ \E b \in Boards, f \in Files : Admit(b, f)
    \/ \E b \in Boards : Wake(b)
    \/ \E l \in Links : Poll(l) \/ Phase(l) \/ WrongHash(l) \/ Break(l) \/ Subscribe(l)
    \/ \E l \in Links, id \in Ids : Retry(l, id)
    \/ \E b \in Boards, f \in Files, v \in {"published", "rejected"} : Review(b, f, v)

Spec == Init /\ [][Next]_vars

(* Exchanges come round again and go on until the line drops; an operator  *)
(* reviews what is pending.                                                *)
Fairness ==
    /\ \A l \in Links : WF_vars(Poll(l)) /\ WF_vars(Phase(l))
    /\ \A b \in Boards, f \in Files : WF_vars(Review(b, f, "published"))
    /\ \A b \in Boards, f \in Files : WF_vars(Admit(b, f))
FairSpec == Spec /\ Fairness

-----------------------------------------------------------------------------
(* The receipt a sender keeps is the one the importer recorded, whatever   *)
(* was lost, repeated or reviewed in between (circuitnet_file_offer,       *)
(* circuitnet_file_record, circuitnet_file_attempt).                       *)
ReceiptsAgree ==
    \A l \in Links, id \in Ids :
        (due[l][id] # None /\ due[l][id].receipt # None)
            => pub[l[2]][id] # None /\ pub[l[2]][id].receipt = due[l][id].receipt

(* A board publishes under its own name only what was admitted there       *)
(* first, and each file once, so that an import never starts a second      *)
(* circulation (circuitnet_files_prepare).                                 *)
OriginIsLocal ==
    \A id \in Ids : of[id] # None =>
        /\ source[of[id][1]][File(id)] = "local"
        /\ \A k \in Ids : of[k] = of[id] => k = id

(* What a board has, the boards on the way to it have: a publication never *)
(* skips one, and never passes a board that did not file it.               *)
EachHandHasFiledIt ==
    \A b \in Boards, id \in Ids : pub[b][id] # None =>
        \A n \in Path(of[id][1], b) \ {b} : pub[n][id] # None /\ pub[n][id].filed

(* A delivery that may be offered is receipted or reaches its ceiling: a   *)
(* neighbor that refuses the first offer does not block the others for     *)
(* ever (circuitnet_file_offers).                                          *)
DeliveryEnds == \A l \in Links, id \in Ids : (id \in Offerable(l)) ~> (id \notin Offerable(l))

(* With open dossiers and an operator who approves, a published file       *)
(* reaches every board, or a rejection or a ceiling on the way accounts    *)
(* for it (the second query of circuitnet_files_prepare).                  *)
Settled(id) ==
    \/ \A b \in Boards : pub[b][id] # None
    \/ \E b \in Boards : pub[b][id] # None /\ lib[b][File(id)] # "published"
    \/ \E b \in Boards : pub[b][id] # None /\ ~pub[b][id].filed
    \/ \E l \in Links : due[l][id] # None /\ due[l][id].tries = MaxAttempts
EveryBoardIsServed == \A id \in Ids : (of[id] # None) ~> Settled(id)
=============================================================================
