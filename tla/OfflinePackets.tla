---------------------------- MODULE OfflinePackets ----------------------------
(***************************************************************************)
(* Mail that a caller downloads as QWK packets: one caller and one         *)
(* conference, whose messages are numbered in the order of their posting.  *)
(* A request is prepared from a snapshot, transferred, and confirmed; only *)
(* its confirmation moves the caller's last-read pointer. Meanwhile other  *)
(* callers post, the Sysop changes audiences, deletes and undeletes, and   *)
(* configuration changes the conference.                                   *)
(*                                                                         *)
(* The functions take a request by its identity and their contract is      *)
(* about overlapping requests, so that is what is modelled; a session runs *)
(* the steps of one request after the other.                               *)
(*                                                                         *)
(* Abstracted: the encoding of packets, capacities, and the artifact       *)
(* store, which ArtifactCustody models.                                    *)
(***************************************************************************)
EXTENDS Naturals, FiniteSets

CONSTANTS Requests,
          Size,         \* bound: messages of the conference
          Addressed,    \* the messages addressed to the caller
          MaxChanges,   \* bound: changes to messages, policy and access
          MaxResets,    \* bound: pointers the caller sets
          MaxCrashes    \* bound

BoundsAreNumbers == {Size, MaxChanges, MaxResets, MaxCrashes} \subseteq Nat
AddressedExist == Addressed \subseteq 1..Size
PacketAssumption == BoundsAreNumbers /\ AddressedExist

Numbers == 1..Size

VARIABLES
    msg,       \* msg[n]: "none", "open" to the caller, "closed" to it, "deleted"
    version,   \* version[n], state_version
    policy,    \* of the conference; access is whether the caller may read it
    access,
    pointer,   \* last_message_number of the caller
    resets,    \* reset_version
    fresh,     \* whether pointer_version is still what the caller was shown
    req,       \* req[r]: the row of qwk_requests and its manifest
    transfer,  \* transfer[r]: the state of its transfer record
    pc,        \* pc[r]: where the code of the request is
    received,  \* caller_message_receipts
    crashes, changes,
    \* History: what was sent in a completed packet or passed over by the caller's
    \* own choice, the messages that were changed after their posting, and the
    \* requests that looked at the pointer since it was last set.
    sent, chosen, changed, looked

rows == <<msg, version, policy, access>>
marks == <<pointer, resets, fresh, received>>
history == <<sent, chosen, changed, looked>>
vars == <<rows, marks, req, transfer, pc, crashes, changes, history>>

Selections == {"new", "to-you"}
Member == [number : Numbers, version : Nat]

TypeOK ==
    /\ msg \in [Numbers -> {"none", "open", "closed", "deleted"}]
    /\ version \in [Numbers -> 0..MaxChanges]
    /\ policy \in 0..MaxChanges /\ access \in BOOLEAN
    /\ pointer \in 0..Size /\ resets \in 0..MaxResets /\ fresh \in BOOLEAN
    /\ \A r \in Requests :
         /\ req[r].state \in {"none", "prepared", "delivered", "confirmed", "preview", "failed"}
         /\ req[r].selection \in Selections /\ req[r].members \subseteq Member
         /\ req[r].high \in 0..Size /\ req[r].resets \in 0..MaxResets
    /\ transfer \in [Requests -> {"none", "transferring", "completed", "failed"}]
    /\ pc \in [Requests -> {"idle", "building", "offered", "sending", "sent", "confirming", "over"}]
    /\ received \subseteq Addressed
    /\ \A r \in Requests : transfer[r] = "transferring" => pc[r] \in {"sending", "over"}

Init ==
    /\ msg = [n \in Numbers |-> "none"] /\ version = [n \in Numbers |-> 0]
    /\ policy = 0 /\ access = TRUE
    /\ pointer = 0 /\ resets = 0 /\ fresh = FALSE
    /\ req = [r \in Requests |-> [state |-> "none", selection |-> "new", members |-> {}, high |-> 0, policy |-> 0, resets |-> 0]]
    /\ transfer = [r \in Requests |-> "none"]
    /\ pc = [r \in Requests |-> "idle"]
    /\ received = {} /\ crashes = 0 /\ changes = 0
    /\ sent = {} /\ chosen = {} /\ changed = {} /\ looked = {}

Highest == Cardinality({n \in Numbers : msg[n] # "none"})
Readable == {n \in Numbers : access /\ msg[n] = "open"}
Larger(a, b) == IF a < b THEN b ELSE a

\* The high water of a packet: its last message, at least the pointer.
HighWater(members) == CHOOSE h \in 0..Size :
    /\ h = pointer \/ h \in members
    /\ \A k \in members \cup {pointer} : k <= h

(***************************************************************************)
(* The other callers, the Sysop and configuration.                         *)
(***************************************************************************)
Post ==
    /\ Highest < Size
    /\ \E audience \in {"open", "closed"} :
         /\ Highest + 1 \in Addressed => audience = "open"
         /\ msg' = [msg EXCEPT ![Highest + 1] = audience]
    /\ UNCHANGED <<version, policy, access, marks, req, transfer, pc, crashes, changes, history>>

\* toggle_message_visibility, delete_message and undelete_message; all of them
\* advance the version of the message.
Change(n) ==
    /\ msg[n] # "none" /\ changes < MaxChanges
    /\ \E s \in {"open", "closed", "deleted"} \ {msg[n]} :
         /\ n \in Addressed => s # "closed"
         /\ msg' = [msg EXCEPT ![n] = s]
    /\ version' = [version EXCEPT ![n] = @ + 1]
    /\ changes' = changes + 1
    /\ changed' = changed \cup {n}
    /\ UNCHANGED <<policy, access, marks, req, transfer, pc, crashes, sent, chosen, looked>>

Configure ==
    /\ changes < MaxChanges
    /\ \/ policy' = policy + 1 /\ UNCHANGED access
       \/ access' = ~access /\ UNCHANGED policy
    /\ changes' = changes + 1
    /\ UNCHANGED <<msg, version, marks, req, transfer, pc, crashes, history>>

(***************************************************************************)
(* The manifest of a request still holds: check_manifest, at the end of a  *)
(* preparation, at the transfer and at the confirmation.                   *)
(***************************************************************************)
\* Mutant: the members are not compared.
AgreesOnPolicy(r) == access /\ req[r].policy = policy

Agrees(r) ==
    /\ access /\ req[r].policy = policy
    /\ \A m \in req[r].members : msg[m.number] = "open" /\ version[m.number] = m.version

Holds(r) == req[r].state \in {"prepared", "delivered"} /\ Agrees(r)

(***************************************************************************)
(* prepare_offline_packet, in two transactions, and what follows.          *)
(***************************************************************************)
Chosen(sel) ==
    {n \in Readable : IF sel = "new" THEN n > pointer ELSE n \in Addressed}

\* A request that is over makes room for another one; no step refers to its row
\* again.
Snapshot(r, sel) ==
    /\ pc[r] \in {"idle", "over"} /\ Chosen(sel) # {}
    /\ req' = [req EXCEPT ![r] =
          [state |-> "none", selection |-> sel, high |-> HighWater(Chosen(sel)), policy |-> policy,
           resets |-> resets, members |-> {[number |-> n, version |-> version[n]] : n \in Chosen(sel)}]]
    /\ pc' = [pc EXCEPT ![r] = "building"]
    /\ transfer' = [transfer EXCEPT ![r] = "none"]
    /\ looked' = looked \cup {r}
    /\ UNCHANGED <<rows, marks, crashes, changes, sent, chosen, changed>>

\* The request is inserted once the artifact is kept, and checked at once.
Insert(r) ==
    /\ pc[r] = "building"
    /\ req' = [req EXCEPT ![r].state = "prepared"]
    /\ pc' = [pc EXCEPT ![r] = IF Agrees(r) THEN "offered" ELSE "over"]
    /\ UNCHANGED <<rows, marks, transfer, crashes, changes, history>>

Begin(r) ==
    /\ pc[r] = "offered" /\ Holds(r)
    /\ transfer' = [transfer EXCEPT ![r] = "transferring"]
    /\ pc' = [pc EXCEPT ![r] = "sending"]
    /\ UNCHANGED <<rows, marks, req, crashes, changes, history>>

\* The caller chooses no protocol.
Cancel(r) ==
    /\ pc[r] = "offered"
    /\ req' = [req EXCEPT ![r].state = "failed"]
    /\ pc' = [pc EXCEPT ![r] = "over"]
    /\ UNCHANGED <<rows, marks, transfer, crashes, changes, history>>

\* A lost caller, or a packet that no longer holds at its transfer: the request
\* stays as it is.
Leave(r) ==
    /\ pc[r] \in {"offered", "sent"}
    /\ pc' = [pc EXCEPT ![r] = "over"]
    /\ UNCHANGED <<rows, marks, req, transfer, crashes, changes, history>>

Members(r) == {m.number : m \in req[r].members}

Finish(r, success) ==
    /\ pc[r] = "sending"
    /\ transfer' = [transfer EXCEPT ![r] = IF success THEN "completed" ELSE "failed"]
    /\ req' = [req EXCEPT ![r].state = IF success THEN "delivered" ELSE "failed"]
    /\ pc' = [pc EXCEPT ![r] = IF success THEN "sent" ELSE "over"]
    /\ sent' = IF success THEN sent \cup Members(r) ELSE sent
    /\ UNCHANGED <<rows, marks, crashes, changes, chosen, changed, looked>>

(***************************************************************************)
(* confirm_offline_delivery: what it reads first, and its transaction.     *)
(***************************************************************************)
\* Mutant: a request whose transfer has only begun may be confirmed.
Begun(r) == pc[r] \in {"sending", "sent"} /\ Holds(r)

Delivered(r) == pc[r] = "sent" /\ Holds(r) /\ req[r].state = "delivered"

\* A pointer that was set since is recorded and answered as stale: the caller
\* confirms again, knowing it.
Observe(r) ==
    /\ Delivered(r)
    /\ req' = [req EXCEPT ![r].resets = resets]
    /\ pc' = [pc EXCEPT ![r] = IF req[r].resets = resets THEN "confirming" ELSE "sent"]
    /\ looked' = looked \cup {r}
    /\ UNCHANGED <<rows, marks, transfer, crashes, changes, sent, chosen, changed>>

\* Mutant: the transaction does not look at the pointer again.
Anyway(r) == TRUE

Unmoved(r) == req[r].resets = resets

\* Mutant: the pointer moves to the end of the conference.
ToTheEnd(high) == Highest

\* Mutant: the pointer becomes what the packet says.
PointTo(high) == high

Advance(high) == Larger(pointer, high)

Confirm(r) ==
    /\ pc[r] = "confirming" /\ Holds(r) /\ Unmoved(r)
    /\ pointer' = Advance(req[r].high)
    /\ fresh' = FALSE
    /\ received' = received \cup (Members(r) \cap Addressed)
    /\ req' = [req EXCEPT ![r].state = "confirmed"]
    /\ pc' = [pc EXCEPT ![r] = "over"]
    /\ chosen' = IF req[r].selection = "to-you" THEN chosen \cup 1..req[r].high ELSE chosen
    /\ UNCHANGED <<rows, resets, transfer, crashes, changes, sent, changed, looked>>

\* The transaction finds the packet or the pointer changed.
Stale(r) ==
    /\ pc[r] = "confirming" /\ ~(Holds(r) /\ Unmoved(r))
    /\ pc' = [pc EXCEPT ![r] = "sent"]
    /\ UNCHANGED <<rows, marks, req, transfer, crashes, changes, history>>

Preview(r) ==
    /\ Delivered(r)
    /\ req' = [req EXCEPT ![r].state = "preview"]
    /\ pc' = [pc EXCEPT ![r] = "over"]
    /\ UNCHANGED <<rows, marks, transfer, crashes, changes, history>>

(***************************************************************************)
(* The pointer online: a message that is read, and a pointer that is set.  *)
(***************************************************************************)
Read(n) ==
    /\ n \in Readable
    /\ pointer' = Larger(pointer, n)
    /\ fresh' = FALSE
    /\ received' = received \cup ({n} \cap Addressed)
    /\ chosen' = chosen \cup 1..n
    /\ UNCHANGED <<rows, resets, req, transfer, pc, crashes, changes, sent, changed, looked>>

Look ==
    /\ access /\ ~fresh
    /\ fresh' = TRUE
    /\ UNCHANGED <<rows, pointer, resets, req, transfer, pc, received, crashes, changes, history>>

Reset(n) ==
    /\ access /\ fresh /\ n <= Highest /\ resets < MaxResets
    /\ pointer' = n /\ fresh' = FALSE
    /\ resets' = resets + 1
    /\ chosen' = chosen \cup 1..n
    /\ looked' = {}
    /\ UNCHANGED <<rows, req, transfer, pc, received, crashes, changes, sent, changed>>

(***************************************************************************)
(* A crash, and recover_offline_requests at the next start.                *)
(***************************************************************************)
\* Mutant: only the requests are settled.
SettleRequests ==
    /\ req' = [r \in Requests |-> IF req[r].state = "prepared" THEN [req[r] EXCEPT !.state = "failed"] ELSE req[r]]
    /\ UNCHANGED transfer

Settle ==
    /\ req' = [r \in Requests |-> IF req[r].state = "prepared" THEN [req[r] EXCEPT !.state = "failed"] ELSE req[r]]
    /\ transfer' = [r \in Requests |-> IF transfer[r] = "transferring" THEN "failed" ELSE transfer[r]]

Restart ==
    /\ crashes < MaxCrashes
    /\ Settle
    /\ pc' = [r \in Requests |-> IF pc[r] = "idle" THEN "idle" ELSE "over"]
    /\ crashes' = crashes + 1
    /\ UNCHANGED <<rows, marks, changes, history>>

Request(r) ==
    \/ \E sel \in Selections : Snapshot(r, sel)
    \/ Insert(r) \/ Begin(r) \/ Cancel(r) \/ Leave(r)
    \/ \E ok \in BOOLEAN : Finish(r, ok)
    \/ Observe(r) \/ Confirm(r) \/ Stale(r) \/ Preview(r)

Next ==
    \/ \E r \in Requests : Request(r)
    \/ Post \/ Configure \/ Look \/ Restart
    \/ \E n \in Numbers : Change(n) \/ Read(n) \/ Reset(n)
    \/ Reset(0)

Spec == Init /\ [][Next]_vars

\* A transfer ends: the protocol has its timeouts.
Fairness == \A r \in Requests : WF_vars(\E ok \in BOOLEAN : Finish(r, ok))
FairSpec == Spec /\ Fairness

(***************************************************************************)
(* Properties.                                                             *)
(***************************************************************************)
\* The pointer passes no mail: a message below it that the caller may read came in
\* a completed packet, or the caller moved the pointer over it by reading, by
\* setting it or by confirming mail To You, or the message was changed after its
\* posting (prepare_offline_packet, confirm_offline_delivery).
NothingSkipped == \A n \in Readable : n <= pointer => n \in sent \cup chosen \cup changed

\* Mail is marked received only when it was sent in a completed transfer or read.
ReceivedWasSent == received \subseteq sent \cup chosen

\* Only the caller's own setting moves the pointer back; overlapping confirmations
\* never do.
OnlySetGoesBack == pointer' < pointer => resets' > resets

\* A request is confirmed only if its caller has seen the pointer it set last.
ConfirmedKnowingly ==
    \A r \in Requests : req'[r].state = "confirmed" /\ req[r].state # "confirmed" => r \in looked

\* A confirmed packet is what the caller may read at that moment: every member is
\* there, open to the caller and unchanged since the snapshot.
ConfirmedIsCurrent ==
    \A r \in Requests : req'[r].state = "confirmed" /\ req[r].state # "confirmed" =>
        \A m \in req[r].members : m.number \in Readable /\ version[m.number] = m.version

\* No transfer record stays open, so a cold backup is not refused for ever.
TransfersEnd == \A r \in Requests : transfer[r] = "transferring" ~> transfer[r] # "transferring"
=============================================================================
