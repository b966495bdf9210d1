---------------------------- MODULE InteractionHub ----------------------------
(***************************************************************************)
(* Pages, invitations and line chat between callers and operators:         *)
(* sf-core/interaction.rs, the caller's side in session.rs and             *)
(* session_control_terminal.rs, the operator's side in live_control.rs and *)
(* the chat stream of operator_control.rs.                                  *)
(*                                                                          *)
(* An interaction is known by its number.  It has a slot in the hub, a      *)
(* caller end held by the session thread and an operator end (OperatorChat) *)
(* held by a handoff, a stream or the console, and a bounded channel each   *)
(* way.  Every action is one locked section of one thread.                  *)
(***************************************************************************)
EXTENDS Naturals, Sequences, FiniteSets

CONSTANTS
    Sessions,          \* caller sessions; identities are never reused
    Owners,            \* operator attachments (connections of the socket)
    Console,           \* the daemon's own console, which owns nothing
    MaxInteractions,   \* bound on interaction numbers
    Capacity,          \* CHAT_QUEUE_CAPACITY
    MaxHandoffs,       \* MAX_HANDOFFS
    None

HubAssumption ==
    /\ MaxInteractions \in Nat /\ Capacity \in Nat \ {0} /\ MaxHandoffs \in Nat
    /\ Console \notin Owners /\ None \notin Owners \cup {Console}

Ids == 1..MaxInteractions
PageState == {"Pending", "Invited", "Chatting"}

VARIABLES
    available,  \* SysopAvailability
    next,       \* next_interaction
    slot,       \* session -> its slot
    disconnect, \* session -> a disconnect request is in the hub
    attached,   \* operator attachments that are connected
    allowed,    \* the policy lets operators chat with callers
    toCaller,   \* interaction -> events queued for the caller
    toOperator, \* interaction -> events queued for the operator
    chat,       \* interaction -> where its OperatorChat is
    holder,     \* interaction -> the owner recorded with the OperatorChat
    pos,        \* session -> where its thread is
    cur         \* session -> the interaction its thread holds an end of

hub == <<available, next, slot, disconnect>>
ends == <<attached, allowed, chat, holder>>
channels == <<toCaller, toOperator>>
callers == <<pos, cur>>
vars == <<hub, ends, channels, callers>>

NoSlot == [id |-> 0, state |-> "none", owner |-> None]
Slots == [id : Ids, state : PageState, owner : Owners \cup {Console, None}] \cup {NoSlot}
ChatPlace == {"none", "handoff", "stream", "ending", "gone"}
CallerPlace == {"menu", "waiting", "timedOut", "deciding", "authorized", "refused",
                "chatting", "leaving", "failing", "cancelled", "ended", "released"}

TypeOK ==
    /\ available \in BOOLEAN /\ next \in 1..(MaxInteractions + 1)
    /\ slot \in [Sessions -> Slots]
    /\ disconnect \in [Sessions -> BOOLEAN]
    /\ attached \subseteq Owners /\ allowed \in BOOLEAN
    /\ toCaller \in [Ids -> Seq({"Answered", "Declined", "Line", "Ended"})]
    /\ toOperator \in [Ids -> Seq({"Line", "Left"})]
    /\ \A i \in Ids : Len(toCaller[i]) <= Capacity /\ Len(toOperator[i]) <= Capacity
    /\ chat \in [Ids -> ChatPlace]
    /\ holder \in [Ids -> Owners \cup {Console, None}]
    /\ pos \in [Sessions -> CallerPlace]
    /\ cur \in [Sessions -> Ids \cup {0}]

Init ==
    /\ available = TRUE /\ next = 1
    /\ slot = [s \in Sessions |-> NoSlot]
    /\ disconnect = [s \in Sessions |-> FALSE]
    /\ attached = Owners /\ allowed = TRUE
    /\ toCaller = [i \in Ids |-> <<>>] /\ toOperator = [i \in Ids |-> <<>>]
    /\ chat = [i \in Ids |-> "none"] /\ holder = [i \in Ids |-> None]
    /\ pos = [s \in Sessions |-> "menu"] /\ cur = [s \in Sessions |-> 0]

-----------------------------------------------------------------------------
(***************************************************************************)
(* The hub's slots and channels.                                           *)
(***************************************************************************)

Contains(s, i) == slot[s].id = i /\ i # 0
Occupied(s) == slot[s].state # "none"
\* Plausible mistake: a closing end clears whatever slot its session has.
RemoveAnySlot(s, i) == slot' = [slot EXCEPT ![s] = NoSlot]
\* remove_slot: only the slot of this very interaction
RemoveSlot(s, i) ==
    slot' = IF Contains(s, i) THEN [slot EXCEPT ![s] = NoSlot] ELSE slot

\* an OperatorChat not yet dropped: a sender to the caller, a receiver from it
Alive(i) == chat[i] \in {"handoff", "stream", "ending"}
\* the caller's end exists: with its thread, or in the slot of an invitation
CallerHolds(s, i) == cur[s] = i /\ pos[s] \in {"waiting", "timedOut", "chatting", "leaving",
                                                "failing", "cancelled"}
CallerEnd(i) == \E s \in Sessions :
    CallerHolds(s, i) \/ (slot[s].id = i /\ slot[s].state = "Invited")
\* Plausible mistake: the channels have no bound.
AlwaysAppend(q, e) == Append(q, e)
\* try_send: an event is dropped when the channel is full or nobody receives
TrySend(q, e) == IF Len(q) < Capacity THEN Append(q, e) ELSE q
TellCaller(i, e) ==
    toCaller' = [toCaller EXCEPT ![i] = IF CallerEnd(i) THEN TrySend(@, e) ELSE @]
TellOperator(i, e) ==
    toOperator' = [toOperator EXCEPT ![i] = IF Alive(i) THEN TrySend(@, e) ELSE @]
\* every sender to the caller is gone: the slot's and the operator's
Disconnected(s, i) == ~Contains(s, i) /\ ~Alive(i)
\* the session is still the node's occupant: with_live_target
Live(s) == pos[s] # "released"

\* set_availability: turning the operator off declines what is pending
SetAvailability(a) ==
    /\ available' = a
    /\ LET P == IF a THEN {} ELSE {s \in Sessions : slot[s].state = "Pending"}
       IN  /\ slot' = [s \in Sessions |-> IF s \in P THEN NoSlot ELSE slot[s]]
           /\ toCaller' = [i \in Ids |-> IF \E s \in P : slot[s].id = i
                              THEN TrySend(toCaller[i], "Declined") ELSE toCaller[i]]
    /\ UNCHANGED <<next, disconnect, ends, toOperator, callers>>

\* request_disconnect_mode: the first request closes the interaction
RequestDisconnect(s) ==
    /\ Live(s) /\ ~disconnect[s]
    /\ disconnect' = [disconnect EXCEPT ![s] = TRUE]
    /\ slot' = [slot EXCEPT ![s] = NoSlot]
    /\ IF Occupied(s) THEN TellCaller(slot[s].id, "Ended") ELSE UNCHANGED toCaller
    /\ UNCHANGED <<available, next, ends, toOperator, callers>>

SetPolicy(p) == allowed' = p /\ UNCHANGED <<hub, attached, chat, holder, channels, callers>>

-----------------------------------------------------------------------------
(***************************************************************************)
(* The operator's side.                                                     *)
(***************************************************************************)

Handoffs == {i \in Ids : chat[i] = "handoff"}
\* Plausible mistake: an invited caller is treated as one who paged.
PendingOrInvited(s) == slot[s].state \in {"Pending", "Invited"}
\* answer_owned takes a slot whose caller paged and waits
Answerable(s) == slot[s].state = "Pending"

\* answer: the slot turns to chatting, the caller is told, o holds the other end
Answer(s, o, owner, place, chats) ==
    LET i == slot[s].id
    IN  /\ slot' = [slot EXCEPT ![s] = [id |-> i, state |-> "Chatting", owner |-> owner]]
        /\ chat' = [chats EXCEPT ![i] = place] /\ holder' = [holder EXCEPT ![i] = o]
        /\ TellCaller(i, "Answered")
        /\ UNCHANGED <<available, next, disconnect, attached, allowed, toOperator, callers>>

\* the console's ANSWER, which checks nothing but the page
ConsoleAnswer(s) == Answerable(s) /\ Answer(s, Console, None, "stream", chat)

\* a handoff nobody redeemed in time; the next answer or invitation drops it
Expire(E) == [i \in Ids |-> IF i \in E THEN "ending" ELSE chat[i]]
RoomFor(E) == Cardinality(Handoffs \ E) < MaxHandoffs

\* AnswerCallerPage: expired handoffs are dropped first; the page must be the
\* exact one and its session the node's occupant
AnswerCallerPage(s, o, E) ==
    /\ o \in attached /\ Live(s) /\ RoomFor(E)
    /\ Answerable(s) /\ Answer(s, o, o, "handoff", Expire(E))

\* InviteOperatorChat: refused while the session has a slot or is being cut off
InviteOperatorChat(s, o, E) ==
    /\ o \in attached /\ Live(s) /\ RoomFor(E)
    /\ ~Occupied(s) /\ ~disconnect[s] /\ next \in Ids
    /\ next' = next + 1
    /\ slot' = [slot EXCEPT ![s] = [id |-> next, state |-> "Invited", owner |-> o]]
    /\ chat' = [Expire(E) EXCEPT ![next] = "handoff"]
    /\ holder' = [holder EXCEPT ![next] = o]
    /\ UNCHANGED <<available, disconnect, attached, allowed, channels, callers>>

\* an answer or invitation that is rejected has dropped the expired handoffs
SweepOnly(E) ==
    /\ E # {} /\ chat' = Expire(E)
    /\ UNCHANGED <<hub, attached, allowed, holder, channels, callers>>

\* decline, by the console or by an operator for the exact page
Decline(s) ==
    /\ slot[s].state = "Pending"
    /\ slot' = [slot EXCEPT ![s] = NoSlot]
    /\ TellCaller(slot[s].id, "Declined")
    /\ UNCHANGED <<available, next, disconnect, ends, toOperator, callers>>

\* take_chat: the token of the handoff is redeemed, once
Redeem(i) ==
    /\ chat[i] = "handoff" /\ attached # {}
    /\ chat' = [chat EXCEPT ![i] = "stream"]
    /\ UNCHANGED <<hub, attached, allowed, holder, channels, callers>>

Speaker(i, s) == chat[i] = "stream" /\ Contains(s, i)
\* a frame with a line: policy, target and slot are read for every frame
OperatorSends(i, s) ==
    /\ Speaker(i, s) /\ slot[s].state = "Chatting"
    /\ holder[i] # Console => allowed /\ Live(s)
    /\ Len(toCaller[i]) < Capacity
    /\ TellCaller(i, "Line")
    /\ UNCHANGED <<hub, ends, toOperator, callers>>

OperatorReads(i, s) ==
    /\ Speaker(i, s) /\ toOperator[i] # <<>>
    /\ toOperator' = [toOperator EXCEPT ![i] = Tail(@)]
    /\ UNCHANGED <<hub, ends, toCaller, callers>>

\* the stream ends: Esc, transport loss, a frame that is late or malformed; its
\* drop tells the caller, then removes the slot (OperatorGone)
CloseChat(i) ==
    /\ chat' = [chat EXCEPT ![i] = "ending"]
    /\ TellCaller(i, "Ended")
    /\ UNCHANGED <<hub, attached, allowed, holder, toOperator, callers>>
StreamLeaves(i) == chat[i] = "stream" /\ CloseChat(i)
\* the next frame finds the interaction over, the caller gone or the policy changed
StreamNotices(i) ==
    /\ chat[i] = "stream" /\ holder[i] # Console
    /\ \/ ~allowed
       \/ ~\E s \in Sessions : Contains(s, i) /\ Live(s)
    /\ CloseChat(i)

\* the second half of drop(OperatorChat)
OperatorGone(i) ==
    /\ chat[i] = "ending"
    /\ chat' = [chat EXCEPT ![i] = "gone"]
    /\ slot' = [s \in Sessions |-> IF Contains(s, i) THEN NoSlot ELSE slot[s]]
    /\ toOperator' = [toOperator EXCEPT ![i] = <<>>]
    /\ holder' = [holder EXCEPT ![i] = None]
    /\ UNCHANGED <<available, next, disconnect, attached, allowed, toCaller, callers>>

\* an operator's connection ends: attachment_ended drops its handoffs ...
Detach(o) ==
    /\ o \in attached /\ attached' = attached \ {o}
    /\ chat' = Expire({i \in Handoffs : holder[i] = o})
    /\ UNCHANGED <<hub, allowed, holder, channels, callers>>
\* ... and end_operator_attachment removes the slots it owns
EndAttachment(o) ==
    /\ o \notin attached /\ \E s \in Sessions : slot[s].owner = o
    /\ slot' = [s \in Sessions |-> IF slot[s].owner = o THEN NoSlot ELSE slot[s]]
    /\ UNCHANGED <<available, next, disconnect, ends, channels, callers>>

-----------------------------------------------------------------------------
(***************************************************************************)
(* The caller's side.                                                       *)
(***************************************************************************)

Go(s, p) == pos' = [pos EXCEPT ![s] = p] /\ UNCHANGED cur
\* the thread drops its end and is at place p again
Done(s, p) ==
    /\ pos' = [pos EXCEPT ![s] = p] /\ cur' = [cur EXCEPT ![s] = 0]
    /\ toCaller' = [i \in Ids |-> IF i = cur[s] THEN <<>> ELSE toCaller[i]]

\* run_sysop_page: an absent operator or an occupied slot is only displayed
Page(s) ==
    /\ pos[s] = "menu" /\ available /\ ~Occupied(s) /\ next \in Ids
    /\ next' = next + 1
    /\ slot' = [slot EXCEPT ![s] = [id |-> next, state |-> "Pending", owner |-> None]]
    /\ pos' = [pos EXCEPT ![s] = "waiting"] /\ cur' = [cur EXCEPT ![s] = next]
    /\ UNCHANGED <<available, disconnect, ends, channels>>

\* PageTicket::wait receives the answer, a refusal, or the end of every sender
PageAnswered(s) ==
    LET i == cur[s]
    IN  /\ pos[s] = "waiting" /\ toCaller[i] # <<>>
        /\ IF Head(toCaller[i]) = "Answered"
           THEN Go(s, "chatting") /\ toCaller' = [toCaller EXCEPT ![i] = Tail(@)]
           ELSE Done(s, "menu")
        /\ UNCHANGED <<hub, ends, toOperator>>
PageDropped(s) ==
    /\ pos[s] = "waiting" /\ toCaller[cur[s]] = <<>> /\ Disconnected(s, cur[s])
    /\ Done(s, "menu") /\ UNCHANGED <<hub, ends, toOperator>>

\* Plausible mistake: the wait for an operator has no timeout.
WaitsForever(s) == FALSE /\ UNCHANGED vars
\* the wait times out; the slot is removed a step later
PageTimesOut(s) ==
    /\ pos[s] = "waiting" /\ toCaller[cur[s]] = <<>>
    /\ Go(s, "timedOut") /\ UNCHANGED <<hub, ends, channels>>
\* Plausible mistake: a page that timed out leaves its slot to the operator.
WithdrawNothing(s) == pos[s] = "timedOut" /\ Done(s, "menu") /\ UNCHANGED <<hub, ends, toOperator>>
Withdraw(s) ==
    /\ pos[s] = "timedOut"
    /\ RemoveSlot(s, cur[s]) /\ Done(s, "menu")
    /\ UNCHANGED <<available, next, disconnect, ends, toOperator>>

\* SessionControlTerminal.invitation: the prompt, at a menu that allows it
Prompt(s) ==
    /\ pos[s] = "menu" /\ ~disconnect[s] /\ slot[s].state = "Invited"
    /\ pos' = [pos EXCEPT ![s] = "deciding"] /\ cur' = [cur EXCEPT ![s] = slot[s].id]
    /\ UNCHANGED <<hub, ends, channels>>

InvitedTo(s, i) == Contains(s, i) /\ slot[s].state = "Invited"
\* no, Escape, 30 seconds, or the invitation is gone
DeclineInvitation(s) ==
    /\ pos[s] = "deciding" /\ ~disconnect[s]
    /\ slot' = IF InvitedTo(s, cur[s]) THEN [slot EXCEPT ![s] = NoSlot] ELSE slot
    /\ Done(s, "menu")
    /\ UNCHANGED <<available, next, disconnect, ends, toOperator>>
\* yes: the policy is read without the hub's lock ...
Authorize(s) ==
    /\ pos[s] = "deciding" /\ ~disconnect[s] /\ InvitedTo(s, cur[s])
    /\ Go(s, IF allowed THEN "authorized" ELSE "refused")
    /\ UNCHANGED <<hub, ends, channels>>
\* ... and the exact invitation is looked up again with it
AcceptInvitation(s) ==
    /\ pos[s] = "authorized"
    /\ IF InvitedTo(s, cur[s])
       THEN slot' = [slot EXCEPT ![s].state = "Chatting"] /\ Go(s, "chatting") /\ UNCHANGED toCaller
       ELSE UNCHANGED slot /\ Done(s, "menu")
    /\ UNCHANGED <<available, next, disconnect, ends, toOperator>>
InvitationRefused(s) ==
    /\ pos[s] = "refused"
    /\ slot' = IF InvitedTo(s, cur[s]) THEN [slot EXCEPT ![s] = NoSlot] ELSE slot
    /\ Done(s, "menu")
    /\ UNCHANGED <<available, next, disconnect, ends, toOperator>>

\* run_attached_caller_chat: a line from the operator, while the slot is ours
CallerReceives(s) ==
    LET i == cur[s]
    IN  /\ pos[s] = "chatting" /\ Contains(s, i)
        /\ toCaller[i] # <<>> /\ Head(toCaller[i]) = "Line"
        /\ toCaller' = [toCaller EXCEPT ![i] = Tail(@)]
        /\ UNCHANGED <<hub, ends, toOperator, callers>>

\* Plausible mistake: only the event ends a chat, not the slot's absence.
EventEndsChat(s) == toCaller[cur[s]] # <<>> /\ Head(toCaller[cur[s]]) = "Ended"
\* receive_line returns None: the slot is gone, or its end was announced
ChatIsOver(s) ==
    \/ ~Contains(s, cur[s])
    \/ toCaller[cur[s]] # <<>> /\ Head(toCaller[cur[s]]) \in {"Ended", "Declined"}

\* CallerChat::end and its drop: the operator is told, then the slot removed
LeaveChat(s, p) ==
    /\ TellOperator(cur[s], "Left") /\ Go(s, p)
    /\ UNCHANGED <<hub, ends, toCaller>>
CallerNotices(s) == pos[s] = "chatting" /\ ChatIsOver(s) /\ LeaveChat(s, "leaving")
\* Escape, /Q, or five minutes without a line
CallerLeaves(s) == pos[s] = "chatting" /\ LeaveChat(s, "leaving")

\* send_line: without a slot the error ends the dialogue, not only the chat
CallerSends(s) ==
    LET i == cur[s]
    IN  /\ pos[s] = "chatting"
        /\ IF Contains(s, i)
           THEN /\ Len(toOperator[i]) < Capacity
                /\ TellOperator(i, "Line")
                /\ UNCHANGED <<hub, ends, toCaller, callers>>
           ELSE LeaveChat(s, "failing")

\* a poll of the terminal finds the disconnect request
Cancelled(s) ==
    /\ disconnect[s]
    /\ \/ pos[s] \in {"menu", "deciding"} /\ Go(s, "cancelled") /\ UNCHANGED <<hub, ends, channels>>
       \/ pos[s] = "chatting" /\ LeaveChat(s, "cancelled")

\* the second half of dropping the caller's end
CallerGone(s) ==
    /\ pos[s] = "leaving" /\ RemoveSlot(s, cur[s]) /\ Done(s, "menu")
    /\ UNCHANGED <<available, next, disconnect, ends, toOperator>>

Hangup(s) == pos[s] = "menu" /\ Go(s, "cancelled") /\ UNCHANGED <<hub, ends, channels>>

\* the engine returned: ends are dropped, then session_ended clears the slot
SessionEnded(s) ==
    /\ pos[s] \in {"cancelled", "failing"}
    /\ slot' = [slot EXCEPT ![s] = NoSlot]
    /\ Done(s, "ended")
    /\ UNCHANGED <<available, next, disconnect, ends, toOperator>>

\* the lease is released and disconnect_finalized clears the request
Release(s) ==
    /\ pos[s] = "ended" /\ Go(s, "released")
    /\ disconnect' = [disconnect EXCEPT ![s] = FALSE]
    /\ UNCHANGED <<available, next, slot, ends, channels>>

-----------------------------------------------------------------------------
Operators ==
    \/ \E a \in BOOLEAN : SetAvailability(a)
    \/ \E p \in BOOLEAN : SetPolicy(p)
    \/ \E s \in Sessions : RequestDisconnect(s) \/ Decline(s) \/ ConsoleAnswer(s)
    \/ \E s \in Sessions, o \in Owners, E \in SUBSET Handoffs :
            AnswerCallerPage(s, o, E) \/ InviteOperatorChat(s, o, E)
    \/ \E E \in SUBSET Handoffs : SweepOnly(E)
    \/ \E o \in Owners : Detach(o) \/ EndAttachment(o)
Streams ==
    \E i \in Ids :
        \/ Redeem(i) \/ StreamLeaves(i) \/ StreamNotices(i) \/ OperatorGone(i)
        \/ \E s \in Sessions : OperatorSends(i, s) \/ OperatorReads(i, s)
Caller(s) ==
    \/ Page(s) \/ PageAnswered(s) \/ PageDropped(s) \/ PageTimesOut(s) \/ Withdraw(s)
    \/ Prompt(s) \/ DeclineInvitation(s) \/ Authorize(s) \/ AcceptInvitation(s)
    \/ InvitationRefused(s)
    \/ CallerReceives(s) \/ CallerNotices(s) \/ CallerLeaves(s) \/ CallerSends(s)
    \/ Cancelled(s) \/ CallerGone(s) \/ Hangup(s) \/ SessionEnded(s) \/ Release(s)
Next == Operators \/ Streams \/ \E s \in Sessions : Caller(s)

Spec == Init /\ [][Next]_vars

\* Every wait of a session thread is bounded and every thread runs on.  Nobody
\* has to page, type, accept or leave, and the console never has to look.
Fairness ==
    /\ \A s \in Sessions :
        /\ WF_vars(PageAnswered(s)) /\ WF_vars(PageDropped(s)) /\ WF_vars(PageTimesOut(s))
        /\ WF_vars(Withdraw(s)) /\ WF_vars(DeclineInvitation(s))
        /\ WF_vars(AcceptInvitation(s)) /\ WF_vars(InvitationRefused(s))
        /\ WF_vars(CallerReceives(s)) /\ WF_vars(CallerNotices(s)) /\ WF_vars(CallerGone(s))
        /\ WF_vars(Cancelled(s)) /\ WF_vars(SessionEnded(s)) /\ WF_vars(Release(s))
    /\ \A i \in Ids : WF_vars(OperatorGone(i)) /\ WF_vars(StreamNotices(i))
    /\ \A o \in Owners : WF_vars(EndAttachment(o))
FairSpec == Spec /\ Fairness

-----------------------------------------------------------------------------
(***************************************************************************)
(* Properties.                                                              *)
(***************************************************************************)

\* what its state says of a slot's ends
SlotIsHeld(s) ==
    /\ slot[s].state = "Pending" => CallerHolds(s, slot[s].id)
    /\ slot[s].state = "Invited" => Alive(slot[s].id)
    /\ slot[s].state = "Chatting" => CallerHolds(s, slot[s].id) /\ Alive(slot[s].id)
\* No slot is orphaned.  A page has a caller that waits for it, an invitation has
\* an operator, a chat has both: whatever ends drop, in whatever order, someone
\* is left who will remove the slot.  An orphan would make every later page of the
\* session "already paged" (request_page, remove_slot, both Drop impls).
SlotsAreHeld == \A s \in Sessions : SlotIsHeld(s)

\* An interaction that was replaced cannot end its successor: a slot goes away only
\* with one of its own ends, by a refusal, with its operator's attachment, or with
\* the session ("old handles cannot erase a newer interaction", interaction.rs:864).
SlotsOutliveOldEnds ==
    \A s \in Sessions : LET i == slot[s].id IN
      Occupied(s) /\ ~Occupied(s)' =>
          \/ chat[i] = "ending" /\ chat'[i] = "gone"
          \/ cur[s] = i /\ cur'[s] = 0
          \/ toCaller'[i] # toCaller[i]
          \/ slot[s].owner \in Owners \ attached
          \/ disconnect'[s] # disconnect[s] \/ pos'[s] = "ended"

\* No operator action turns an invitation into a chat: only its caller does, having
\* been authorized for that very invitation ("ordinary page answer cannot force
\* it", interaction.rs:262).
ConsentIsExact ==
    \A s \in Sessions :
      slot[s].state = "Invited" /\ slot'[s].id = slot[s].id /\ slot'[s].state = "Chatting"
          => pos[s] = "authorized" /\ cur[s] = slot[s].id /\ pos'[s] = "chatting"

\* What the hub promises of pages, invitations and chats, all together: every slot
\* has its ends, and only consent and a slot's own ends change what is open.
ChatIsConsented ==
    /\ [](TypeOK /\ SlotsAreHeld)
    /\ [][ConsentIsExact /\ SlotsOutliveOldEnds]_vars

\* A caller is not left in a chat whose operator has gone, even when the end could
\* not be announced because the channel was full (receive_line checks the slot).
EndReachesCaller ==
    \A s \in Sessions, i \in Ids :
        pos[s] = "chatting" /\ cur[s] = i /\ chat[i] = "gone"
            ~> ~(pos[s] = "chatting" /\ cur[s] = i)

\* A session asked to disconnect leaves, wherever in a page, an invitation or a
\* chat it is, and even when it pages after the request.
DisconnectEndsSession ==
    \A s \in Sessions : disconnect[s] ~> pos[s] = "released"

\* "End/loss returns a connected caller to its previous menu context"
\* (docs/technical/operator-control.md): an operator's end never ends the dialogue.
LeavingKeepsCaller == \A s \in Sessions : pos[s] # "failing"

\* "A single cooperative request ends chat" (docs/technical/operator-control.md): no
\* interaction is open for a session that was asked to disconnect.
DisconnectClosesInteractions ==
    \A s \in Sessions : disconnect[s] => ~Occupied(s)
=============================================================================
