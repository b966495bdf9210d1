---------------------------- MODULE OfflineReplies ----------------------------
(***************************************************************************)
(* Reply packets that one caller uploads, as ordinary retries or as        *)
(* confirmed new submissions. A packet is a sequence of members; the       *)
(* import commits one member at a time, each with its receipt, and may be  *)
(* interrupted between two of them. A member in a real-name conference is  *)
(* reviewed by the caller while the import runs.                           *)
(*                                                                         *)
(* A packet stands for the digest of its canonical contents and a member   *)
(* for the digest of its record. Abstracted: archives and record framing,  *)
(* capacities, mapping, recipients and references of a reply, all of which *)
(* end in the outcomes here.                                               *)
(***************************************************************************)
EXTENDS Naturals, Sequences, FiniteSets, FiniteSetsExt

CONSTANTS Content,      \* Content[p], the members of packet p
          Reviewed,     \* members that need the caller's review
          Controls,     \* members that are queue controls and post nothing
          MaxNew,       \* bound: confirmed new submissions
          MaxChanges,   \* bound: changes of the posting policy
          MaxFaults     \* bound: crashes, failed statements and lost callers

Packets == DOMAIN Content
Members == UNION {{Content[p][i] : i \in DOMAIN Content[p]} : p \in Packets}

\* The key of a receipt: the packet, the token of a new submission or 0, and the
\* position of the member.
Keys == UNION {{<<p, t, i>> : t \in 0..MaxNew, i \in DOMAIN Content[p]} : p \in Packets}
MemberOf(k) == Content[k[1]][k[3]]
RepliesAssumption ==
    /\ {MaxNew, MaxChanges, MaxFaults} \subseteq Nat
    /\ \A p \in Packets : Content[p] \in Seq(Members)
    /\ IsFiniteSet(Keys)

VARIABLES
    receipt,   \* receipt[k]: "none" or the outcome of network_import_receipts
    posts,     \* posts[m]: native messages posted from member m
    job,       \* the import that runs: its packet, token and position, or NoJob
    online,    \* whether the caller is connected
    allowed,   \* whether the caller may post
    tokens, changes, faults,
    \* History: the new submissions of a packet that the caller meant, whether the
    \* last one came to its end, and the members refused by policy or the caller.
    meant, ended, refused

vars == <<receipt, posts, job, online, allowed, tokens, changes, faults, meant, ended, refused>>
history == <<meant, ended, refused>>

NoJob == [packet |-> "none", token |-> 0, at |-> 0]
Busy == job # NoJob
Here == <<job.packet, job.token, job.at>>
Outcomes == {"none", "imported", "control", "rejected", "possible-duplicate"}

TypeOK ==
    /\ receipt \in [Keys -> Outcomes]
    /\ \A m \in Members : posts[m] \in Nat
    /\ Busy => job.packet \in Packets /\ job.token \in 0..tokens /\ job.at \in 1..Len(Content[job.packet]) + 1
    /\ online \in BOOLEAN /\ allowed \in BOOLEAN
    /\ tokens \in 0..MaxNew /\ changes \in 0..MaxChanges /\ faults \in 0..MaxFaults
    /\ \A k \in Keys : k[2] > tokens => receipt[k] = "none"

Init ==
    /\ receipt = [k \in Keys |-> "none"] /\ posts = [m \in Members |-> 0]
    /\ job = NoJob /\ online = TRUE /\ allowed = TRUE
    /\ tokens = 0 /\ changes = 0 /\ faults = 0
    /\ meant = [p \in Packets |-> 0] /\ ended = [p \in Packets |-> TRUE] /\ refused = {}

(***************************************************************************)
(* An upload: the intent is asked before the packet is received.           *)
(***************************************************************************)
Upload(p) ==
    /\ ~Busy /\ online
    /\ job' = [packet |-> p, token |-> 0, at |-> 1]
    /\ UNCHANGED <<receipt, posts, online, allowed, tokens, changes, faults, history>>

\* Every confirmed new submission draws a token of its own.
Submit(p) ==
    /\ ~Busy /\ online /\ tokens < MaxNew
    /\ tokens' = tokens + 1
    /\ job' = [packet |-> p, token |-> tokens', at |-> 1]
    /\ meant' = [meant EXCEPT ![p] = IF ended[p] THEN @ + 1 ELSE @]
    /\ ended' = [ended EXCEPT ![p] = FALSE]
    /\ UNCHANGED <<receipt, posts, online, allowed, changes, faults, refused>>

(***************************************************************************)
(* import_offline_replies_reviewed: one step for each member.              *)
(***************************************************************************)
AtMember == Busy /\ job.at <= Len(Content[job.packet])

\* Mutant: the member after the next one.
OverNext == [job EXCEPT !.at = @ + 2]

Onward == [job EXCEPT !.at = @ + 1]

Record(outcome) ==
    /\ receipt' = [receipt EXCEPT ![Here] = outcome]
    /\ job' = Onward

\* Mutant: a member that is known ends the import.
StopThere == NoJob

AfterKnown == Onward

Skip ==
    /\ AtMember /\ receipt[Here] # "none"
    /\ job' = AfterKnown
    /\ UNCHANGED <<receipt, posts, online, allowed, tokens, changes, faults, history>>

\* Mutant: only receipts of the same packet are looked up.
NeverHeld == FALSE

\* The same record was imported from another packet, or from another submission of
\* this one.
Held ==
    /\ job.token = 0
    /\ \E k \in Keys : receipt[k] = "imported" /\ MemberOf(k) = MemberOf(Here) /\ <<k[1], k[2]>> # <<job.packet, job.token>>

Fresh == AtMember /\ receipt[Here] = "none"

Hold ==
    /\ Fresh /\ Held
    /\ Record("possible-duplicate")
    /\ UNCHANGED <<posts, online, allowed, tokens, changes, faults, history>>

\* The message, or the control, and its receipt in one transaction.
Posted == [posts EXCEPT ![MemberOf(Here)] = @ + 1]

\* Mutant: the receipt is a transaction of its own, which may not follow.
ImportInTwo ==
    /\ Fresh /\ ~Held /\ allowed /\ MemberOf(Here) \notin Controls
    /\ MemberOf(Here) \in Reviewed => online
    /\ posts' = Posted
    /\ Record("imported") \/ (UNCHANGED receipt /\ job' = NoJob)
    /\ UNCHANGED <<online, allowed, tokens, changes, faults, history>>

Import ==
    /\ Fresh /\ ~Held /\ allowed /\ MemberOf(Here) \notin Controls
    /\ MemberOf(Here) \in Reviewed => online
    /\ posts' = Posted
    /\ Record("imported")
    /\ UNCHANGED <<online, allowed, tokens, changes, faults, history>>

Control ==
    /\ Fresh /\ ~Held /\ MemberOf(Here) \in Controls
    /\ Record("control")
    /\ UNCHANGED <<posts, online, allowed, tokens, changes, faults, history>>

\* Policy refuses the member, or the caller declines it.
Reject ==
    /\ Fresh /\ ~Held /\ MemberOf(Here) \notin Controls
    /\ ~allowed \/ (MemberOf(Here) \in Reviewed /\ online)
    /\ Record("rejected")
    /\ refused' = refused \cup {Here}
    /\ UNCHANGED <<posts, online, allowed, tokens, changes, faults, meant, ended>>

\* A review without a caller is an answer like No.
RejectUnanswered ==
    /\ Fresh /\ ~Held /\ allowed /\ MemberOf(Here) \in Reviewed \ Controls /\ ~online
    /\ Record("rejected")
    /\ UNCHANGED <<posts, online, allowed, tokens, changes, faults, history>>

Finished ==
    /\ Busy /\ ~AtMember
    /\ job' = NoJob
    /\ ended' = [ended EXCEPT ![job.packet] = @ \/ job.token # 0]
    /\ UNCHANGED <<receipt, posts, online, allowed, tokens, changes, faults, meant, refused>>

(***************************************************************************)
(* Interruptions and policy.                                               *)
(***************************************************************************)
\* A crash, or a failed statement: the import stops where it is.
Interrupt ==
    /\ Busy /\ faults < MaxFaults
    /\ job' = NoJob
    /\ faults' = faults + 1
    /\ UNCHANGED <<receipt, posts, online, allowed, tokens, changes, history>>

Disconnect ==
    /\ online /\ faults < MaxFaults
    /\ online' = FALSE
    /\ faults' = faults + 1
    /\ UNCHANGED <<receipt, posts, job, allowed, tokens, changes, history>>

Call ==
    /\ ~online /\ ~Busy
    /\ online' = TRUE
    /\ UNCHANGED <<receipt, posts, job, allowed, tokens, changes, faults, history>>

Allow ==
    /\ changes < MaxChanges
    /\ allowed' = ~allowed
    /\ changes' = changes + 1
    /\ UNCHANGED <<receipt, posts, job, online, tokens, faults, history>>

Step == Skip \/ Hold \/ Import \/ Control \/ Reject \/ RejectUnanswered \/ Finished

Next ==
    \/ \E p \in Packets : Upload(p) \/ Submit(p)
    \/ Step \/ Interrupt \/ Disconnect \/ Call \/ Allow

Spec == Init /\ [][Next]_vars

\* An import that runs goes on, and a caller calls again and repeats an upload.
Fairness == WF_vars(Step) /\ WF_vars(Call) /\ \A p \in Packets : SF_vars(Upload(p))
FairSpec == Spec /\ Fairness

(***************************************************************************)
(* Properties.                                                             *)
(***************************************************************************)
Imported(m) == {k \in Keys : receipt[k] = "imported" /\ MemberOf(k) = m}

\* Every native message from a packet has its receipt and every such receipt its
\* message, wherever an import is interrupted (import_offline_member).
PostsHaveReceipts == \A m \in Members : posts[m] = Cardinality(Imported(m))

\* However often packets that share members are uploaded again, a member is posted
\* once, and once more at most for each new submission that the caller confirmed.
RetryPostsOnce == \A m \in Members :
    posts[m] <= 1 + Cardinality({t \in 1..MaxNew : \E k \in Imported(m) : k[2] = t})

\* Every member of a packet that the caller keeps uploading gets its answer.
EveryMemberAnswered == \A k \in Keys : k[2] = 0 => <>(receipt[k] # "none")

\* A durable rejection is a decision of policy or of the caller.
RejectionIsDecided == \A k \in Keys : receipt[k] = "rejected" => k \in refused

\* A new submission that is interrupted and repeated is one submission.
SubmittedOnce == \A m \in Members :
    posts[m] <= 1 + MapThenSumSet(LAMBDA p : meant[p], {p \in Packets : \E i \in DOMAIN Content[p] : Content[p][i] = m})
=============================================================================
