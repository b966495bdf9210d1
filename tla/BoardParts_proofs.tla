-------------------------- MODULE BoardParts_proofs --------------------------
(***************************************************************************)
(* Proofs about the services of one board.  The module extends             *)
(* InteractionHub, the chat.  The other components are instances with      *)
(* parameters of their own: CM is ConfigurationCommit, FC is FileCustody.  *)
(***************************************************************************)
EXTENDS InteractionHub, TLAPS

(***************************************************************************)
(* Proofs about InteractionHub, for any sessions, operators and bounds.     *)
(*                                                                          *)
(* Interactions are numbered and numbers are not reused, so an end that is  *)
(* late removes only its own slot.  The inductive invariant says which ends *)
(* a slot of each state has, and what waits in the caller's channel: it is  *)
(* empty while a page is pending and begins with the answer once there is   *)
(* one, so that a caller that stops waiting never leaves a chat behind.     *)
(***************************************************************************)

\* What was not handed out yet is nobody's, and a number belongs to one session.
NumbersAreFresh ==
    /\ \A i \in Ids : i >= next => chat[i] = "none" /\ toCaller[i] = <<>>
    /\ \A s \in Sessions : slot[s].id < next /\ cur[s] < next
    /\ \A s, t \in Sessions : slot[s].id = slot[t].id /\ Occupied(s) => s = t
    /\ \A s, t \in Sessions : cur[s] # 0 /\ cur[s] \in {cur[t], slot[t].id} => s = t

\* A pending page waits with an empty channel, and nobody has answered it.
PageWaits(s) == slot[s].state = "Pending" =>
    /\ cur[s] = slot[s].id /\ pos[s] \in {"waiting", "timedOut"}
    /\ toCaller[slot[s].id] = <<>> /\ chat[slot[s].id] = "none"
PagesWait == \A s \in Sessions : PageWaits(s)

\* A caller that still waits while its slot is chatting has the answer before it.
AnswerArrives(s) == slot[s].state = "Chatting" /\ pos[s] = "waiting" =>
    toCaller[slot[s].id] # <<>> /\ Head(toCaller[slot[s].id]) = "Answered"
AnswersArrive == \A s \in Sessions : AnswerArrives(s)

HubInv == NumbersAreFresh /\ PagesWait /\ AnswersArrive /\ SlotsAreHeld
Inv == TypeOK /\ HubInv

-----------------------------------------------------------------------------
\* An event that is sent to a channel is queued, or dropped from a full one.
LEMMA TrySendIs ==
    ASSUME HubAssumption, NEW S, NEW q \in Seq(S), NEW e \in S, Len(q) <= Capacity
    PROVE  /\ TrySend(q, e) \in Seq(S) /\ Len(TrySend(q, e)) <= Capacity
           /\ TrySend(q, e) # <<>>
           /\ q = <<>> => TrySend(q, e) = <<e>>
           /\ q # <<>> => Head(TrySend(q, e)) = Head(q)
<1>1. Capacity \in Nat \ {0} /\ Len(q) \in Nat
    BY DEF HubAssumption
<1>2. CASE Len(q) < Capacity
  <2>1. TrySend(q, e) = Append(q, e)
      BY <1>2 DEF TrySend
  <2>2. Append(q, e) \in Seq(S) /\ Len(Append(q, e)) = Len(q) + 1
      OBVIOUS
  <2>3. q = <<>> => Append(q, e) = <<e>>
      OBVIOUS
  <2>4. q # <<>> => Head(Append(q, e)) = Head(q)
      OBVIOUS
  <2> QED BY <1>1, <1>2, <2>1, <2>2, <2>3, <2>4
<1>3. CASE Len(q) = Capacity
  <2>1. TrySend(q, e) = q /\ q # <<>>
      BY <1>1, <1>3 DEF TrySend
  <2> QED BY <1>3, <2>1
<1> QED BY <1>1, <1>2, <1>3

Events == {"Answered", "Declined", "Line", "Ended"}
Replies == {"Line", "Left"}
CallersHear == toCaller \in [Ids -> Seq(Events)] /\ \A i \in Ids : Len(toCaller[i]) <= Capacity
OperatorsHear ==
    toOperator \in [Ids -> Seq(Replies)] /\ \A i \in Ids : Len(toOperator[i]) <= Capacity

\* Taking the first of a queue that is not empty.
LEMMA TailIs ==
    ASSUME NEW S, NEW q \in Seq(S), q # <<>>
    PROVE  Tail(q) \in Seq(S) /\ Len(Tail(q)) < Len(q)
OBVIOUS

\* What the operator's side tells the caller keeps to the channel.
LEMMA ToldCaller ==
    ASSUME HubAssumption, CallersHear, NEW i, NEW e \in Events, TellCaller(i, e)
    PROVE  CallersHear'
<1>1. \A k \in Ids : toCaller'[k] = toCaller[k] \/ toCaller'[k] = TrySend(toCaller[k], e)
    BY DEF CallersHear, TellCaller
<1>2. toCaller' = [k \in Ids |-> toCaller'[k]]
    BY DEF CallersHear, TellCaller
<1>3. ASSUME NEW k \in Ids PROVE toCaller'[k] \in Seq(Events) /\ Len(toCaller'[k]) <= Capacity
    BY <1>1, TrySendIs DEF CallersHear
<1> QED
    BY <1>2, <1>3 DEF CallersHear

\* And so does what the caller's side tells the operator.
LEMMA ToldOperator ==
    ASSUME HubAssumption, OperatorsHear, NEW i, NEW e \in Replies, TellOperator(i, e)
    PROVE  OperatorsHear'
<1>1. \A k \in Ids : toOperator'[k] = toOperator[k] \/ toOperator'[k] = TrySend(toOperator[k], e)
    BY DEF OperatorsHear, TellOperator
<1>2. toOperator' = [k \in Ids |-> toOperator'[k]]
    BY DEF OperatorsHear, TellOperator
<1>3. ASSUME NEW k \in Ids
      PROVE toOperator'[k] \in Seq(Replies) /\ Len(toOperator'[k]) <= Capacity
    BY <1>1, TrySendIs DEF OperatorsHear
<1> QED
    BY <1>2, <1>3 DEF OperatorsHear

\* A channel from which its receiver takes the first event.
LEMMA Heard ==
    ASSUME HubAssumption, CallersHear, NEW i \in Ids, toCaller[i] # <<>>,
           toCaller' = [toCaller EXCEPT ![i] = Tail(@)]
    PROVE  CallersHear'
<1>1. Tail(toCaller[i]) \in Seq(Events) /\ Len(Tail(toCaller[i])) < Len(toCaller[i])
    BY TailIs DEF CallersHear
<1>2. Len(toCaller[i]) \in Nat /\ Len(toCaller[i]) <= Capacity
    BY DEF CallersHear
<1>3. Len(Tail(toCaller[i])) \in Nat
    BY <1>1
<1>4. toCaller' = [k \in Ids |-> toCaller'[k]] /\ \A k \in Ids : k # i => toCaller'[k] = toCaller[k]
    BY DEF CallersHear
<1>5. toCaller'[i] = Tail(toCaller[i])
    BY DEF CallersHear
<1>6. ASSUME NEW k \in Ids PROVE toCaller'[k] \in Seq(Events) /\ Len(toCaller'[k]) <= Capacity
  <2>1. CASE k = i
      BY <2>1, <1>1, <1>2, <1>3, <1>5 DEF HubAssumption
  <2>2. CASE k # i
      BY <2>2, <1>4 DEF CallersHear
  <2> QED BY <2>1, <2>2
<1> QED
    BY <1>4, <1>6 DEF CallersHear

\* A thread that drops its end takes what was queued with it.
LEMMA Dropped ==
    ASSUME CallersHear, HubAssumption, NEW s, NEW p, Done(s, p)
    PROVE  CallersHear'
<1>1. \A k \in Ids : toCaller'[k] = <<>> \/ toCaller'[k] = toCaller[k]
    BY DEF Done
<1>2. toCaller' = [k \in Ids |-> toCaller'[k]]
    BY DEF Done
<1>3. <<>> \in Seq(Events) /\ Len(<<>>) <= Capacity
    BY DEF HubAssumption
<1> QED
    BY <1>1, <1>2, <1>3 DEF CallersHear

-----------------------------------------------------------------------------
\* The shape of the state but for what is queued.
Shape ==
    /\ available \in BOOLEAN /\ next \in 1..(MaxInteractions + 1)
    /\ slot \in [Sessions -> Slots]
    /\ disconnect \in [Sessions -> BOOLEAN]
    /\ attached \subseteq Owners /\ allowed \in BOOLEAN
    /\ chat \in [Ids -> ChatPlace]
    /\ holder \in [Ids -> Owners \cup {Console, None}]
    /\ pos \in [Sessions -> CallerPlace]
    /\ cur \in [Sessions -> Ids \cup {0}]

LEMMA TypesAre == TypeOK <=> Shape /\ CallersHear /\ OperatorsHear
BY DEF TypeOK, Shape, CallersHear, OperatorsHear, Events, Replies

\* A slot is empty, or it has a number.
LEMMA SlotIs ==
    ASSUME Shape, HubAssumption, NEW s \in Sessions
    PROVE  /\ slot[s] \in Slots /\ slot[s].id \in Ids \cup {0} /\ slot[s].id \in Nat
           /\ slot[s].state # "none" <=> slot[s].id # 0
           /\ slot[s].state # "none" => slot[s].id \in Ids /\ slot[s].state \in PageState
           /\ slot[s].state = "none" => slot[s] = NoSlot
           /\ slot[s].owner \in Owners \cup {Console, None}
BY DEF Shape, Slots, NoSlot, PageState, Ids, HubAssumption

\* Every step keeps the types.
LEMMA TypeStep == ASSUME HubAssumption, Inv, [Next]_vars PROVE TypeOK'
<1>0. Shape /\ CallersHear /\ OperatorsHear
    BY TypesAre DEF Inv
<1> USE <1>0, HubAssumption
<1>1. ASSUME NEW a \in BOOLEAN,
    SetAvailability(a) PROVE Shape' /\ CallersHear' /\ OperatorsHear'
  <2>1. Shape'
      BY <1>1, SlotIs DEF Shape, SetAvailability, Slots, PageState, NoSlot, ChatPlace,
          CallerPlace, Occupied, Ids, hub, ends, channels, callers
  <2>2. CallersHear'
      BY <1>1, TrySendIs DEF SetAvailability, CallersHear, Events
  <2>3. OperatorsHear'
      BY <1>1 DEF SetAvailability, OperatorsHear, channels
  <2> QED BY <2>1, <2>2, <2>3
<1>2. ASSUME NEW p \in BOOLEAN, SetPolicy(p) PROVE Shape' /\ CallersHear' /\ OperatorsHear'
  <2>1. Shape'
      BY <1>2, SlotIs DEF Shape, SetPolicy, Slots, PageState, NoSlot, ChatPlace,
          CallerPlace, Occupied, Ids, hub, ends, channels, callers
  <2>2. CallersHear'
      BY <1>2 DEF CallersHear, SetPolicy, channels
  <2>3. OperatorsHear'
      BY <1>2 DEF SetPolicy, OperatorsHear, channels
  <2> QED BY <2>1, <2>2, <2>3
<1>3. ASSUME NEW s \in Sessions,
    RequestDisconnect(s) PROVE Shape' /\ CallersHear' /\ OperatorsHear'
  <2>1. Shape'
      BY <1>3, SlotIs DEF Shape, RequestDisconnect, Slots, PageState, NoSlot, ChatPlace,
          CallerPlace, Occupied, Ids, hub, ends, channels, callers
  <2>2. CallersHear'
      BY <1>3, ToldCaller DEF RequestDisconnect, CallersHear, Events, channels
  <2>3. OperatorsHear'
      BY <1>3 DEF RequestDisconnect, OperatorsHear, channels
  <2> QED BY <2>1, <2>2, <2>3
<1>4. ASSUME NEW s \in Sessions, Decline(s) PROVE Shape' /\ CallersHear' /\ OperatorsHear'
  <2>1. Shape'
      BY <1>4, SlotIs DEF Shape, Decline, Slots, PageState, NoSlot, ChatPlace, CallerPlace,
          Occupied, Ids, hub, ends, channels, callers
  <2>2. CallersHear'
      BY <1>4, ToldCaller DEF Decline, CallersHear, Events, channels
  <2>3. OperatorsHear'
      BY <1>4 DEF Decline, OperatorsHear, channels
  <2> QED BY <2>1, <2>2, <2>3
<1>5. ASSUME NEW s \in Sessions,
    ConsoleAnswer(s) PROVE Shape' /\ CallersHear' /\ OperatorsHear'
  <2>1. Shape'
      BY <1>5, SlotIs DEF Shape, ConsoleAnswer, Answerable, Answer, Slots, PageState,
          NoSlot, ChatPlace, CallerPlace, Occupied, Ids, hub, ends, channels, callers
  <2>2. CallersHear'
      BY <1>5, ToldCaller DEF ConsoleAnswer, Answerable, Answer, CallersHear, Events,
          channels
  <2>3. OperatorsHear'
      BY <1>5 DEF ConsoleAnswer, Answerable, Answer, OperatorsHear, channels
  <2> QED BY <2>1, <2>2, <2>3
<1>6. ASSUME NEW s \in Sessions, NEW o \in Owners, NEW E \in SUBSET Handoffs,
    AnswerCallerPage(s, o, E) PROVE Shape' /\ CallersHear' /\ OperatorsHear'
  <2>1. Shape'
      BY <1>6, SlotIs DEF Shape, AnswerCallerPage, Answerable, Answer, Expire, Handoffs,
          Slots, PageState, NoSlot, ChatPlace, CallerPlace, Occupied, Ids, hub, ends,
              channels, callers
  <2>2. CallersHear'
      BY <1>6, ToldCaller DEF AnswerCallerPage, Answerable, Answer, Expire, Handoffs,
          CallersHear, Events, channels
  <2>3. OperatorsHear'
      BY <1>6 DEF AnswerCallerPage, Answerable, Answer, Expire, Handoffs, OperatorsHear,
          channels
  <2> QED BY <2>1, <2>2, <2>3
<1>7. ASSUME NEW s \in Sessions, NEW o \in Owners, NEW E \in SUBSET Handoffs,
    InviteOperatorChat(s, o, E) PROVE Shape' /\ CallersHear' /\ OperatorsHear'
  <2>1. Shape'
    <3>1. [id |-> next, state |-> "Invited", owner |-> o] \in Slots
        BY <1>7 DEF Slots, PageState, InviteOperatorChat
    <3>2. next' \in 1..(MaxInteractions + 1)
        BY <1>7 DEF Ids, HubAssumption, InviteOperatorChat
    <3>3. slot' \in [Sessions -> Slots]
        BY <1>7, <3>1 DEF Shape, InviteOperatorChat
    <3>4. Expire(E) \in [Ids -> ChatPlace]
        BY DEF Shape, Expire, ChatPlace
    <3>5. chat' \in [Ids -> ChatPlace]
        BY <1>7, <3>4 DEF InviteOperatorChat, ChatPlace
    <3>6. holder' \in [Ids -> Owners \cup {Console, None}]
        BY <1>7 DEF InviteOperatorChat, Shape
    <3> QED BY <1>7, <3>2, <3>3, <3>5, <3>6 DEF Shape, InviteOperatorChat, callers
  <2>2. CallersHear'
      BY <1>7 DEF CallersHear, InviteOperatorChat, Expire, Handoffs, channels
  <2>3. OperatorsHear'
      BY <1>7 DEF InviteOperatorChat, Expire, Handoffs, OperatorsHear, channels
  <2> QED BY <2>1, <2>2, <2>3
<1>8. ASSUME NEW E \in SUBSET Handoffs,
    SweepOnly(E) PROVE Shape' /\ CallersHear' /\ OperatorsHear'
  <2>1. Shape'
      BY <1>8, SlotIs DEF Shape, SweepOnly, Expire, Handoffs, Slots, PageState, NoSlot,
          ChatPlace, CallerPlace, Occupied, Ids, hub, ends, channels, callers
  <2>2. CallersHear'
      BY <1>8 DEF CallersHear, SweepOnly, Expire, Handoffs, channels
  <2>3. OperatorsHear'
      BY <1>8 DEF SweepOnly, Expire, Handoffs, OperatorsHear, channels
  <2> QED BY <2>1, <2>2, <2>3
<1>9. ASSUME NEW o \in Owners, Detach(o) PROVE Shape' /\ CallersHear' /\ OperatorsHear'
  <2>1. Shape'
      BY <1>9, SlotIs DEF Shape, Detach, Expire, Handoffs, Slots, PageState, NoSlot,
          ChatPlace, CallerPlace, Occupied, Ids, hub, ends, channels, callers
  <2>2. CallersHear'
      BY <1>9 DEF CallersHear, Detach, Expire, Handoffs, channels
  <2>3. OperatorsHear'
      BY <1>9 DEF Detach, Expire, Handoffs, OperatorsHear, channels
  <2> QED BY <2>1, <2>2, <2>3
<1>10. ASSUME NEW o \in Owners,
    EndAttachment(o) PROVE Shape' /\ CallersHear' /\ OperatorsHear'
  <2>1. Shape'
      BY <1>10, SlotIs DEF Shape, EndAttachment, Slots, PageState, NoSlot, ChatPlace,
          CallerPlace, Occupied, Ids, hub, ends, channels, callers
  <2>2. CallersHear'
      BY <1>10 DEF CallersHear, EndAttachment, channels
  <2>3. OperatorsHear'
      BY <1>10 DEF EndAttachment, OperatorsHear, channels
  <2> QED BY <2>1, <2>2, <2>3
<1>11. ASSUME NEW i \in Ids, Redeem(i) PROVE Shape' /\ CallersHear' /\ OperatorsHear'
  <2>1. Shape'
      BY <1>11, SlotIs DEF Shape, Redeem, Slots, PageState, NoSlot, ChatPlace, CallerPlace,
          Occupied, Ids, hub, ends, channels, callers
  <2>2. CallersHear'
      BY <1>11 DEF CallersHear, Redeem, channels
  <2>3. OperatorsHear'
      BY <1>11 DEF Redeem, OperatorsHear, channels
  <2> QED BY <2>1, <2>2, <2>3
<1>12. ASSUME NEW i \in Ids, CloseChat(i),
    chat[i] = "stream" PROVE Shape' /\ CallersHear' /\ OperatorsHear'
  <2>1. Shape'
      BY <1>12, SlotIs DEF Shape, CloseChat, Slots, PageState, NoSlot, ChatPlace,
          CallerPlace, Occupied, Ids, hub, ends, channels, callers
  <2>2. CallersHear'
      BY <1>12, ToldCaller DEF CloseChat, CallersHear, Events, channels
  <2>3. OperatorsHear'
      BY <1>12 DEF CloseChat, OperatorsHear, channels
  <2> QED BY <2>1, <2>2, <2>3
<1>13. ASSUME NEW i \in Ids, OperatorGone(i) PROVE Shape' /\ CallersHear' /\ OperatorsHear'
  <2>1. Shape'
      BY <1>13, SlotIs DEF Shape, OperatorGone, Slots, PageState, NoSlot, ChatPlace,
          CallerPlace, Occupied, Ids, hub, ends, channels, callers
  <2>2. CallersHear'
      BY <1>13 DEF CallersHear, OperatorGone, channels
  <2>3. OperatorsHear'
    <3>1. <<>> \in Seq(Replies) /\ Len(<<>>) <= Capacity
        BY DEF HubAssumption
    <3> QED BY <1>13, <3>1 DEF OperatorGone, OperatorsHear
  <2> QED BY <2>1, <2>2, <2>3
<1>14. ASSUME NEW i \in Ids, NEW s \in Sessions, OperatorSends(i,
    s) PROVE Shape' /\ CallersHear' /\ OperatorsHear'
  <2>1. Shape'
      BY <1>14, SlotIs DEF Shape, OperatorSends, Speaker, Slots, PageState, NoSlot,
          ChatPlace, CallerPlace, Occupied, Ids, hub, ends, channels, callers
  <2>2. CallersHear'
      BY <1>14, ToldCaller DEF OperatorSends, Speaker, CallersHear, Events, channels
  <2>3. OperatorsHear'
      BY <1>14 DEF OperatorSends, Speaker, OperatorsHear, channels
  <2> QED BY <2>1, <2>2, <2>3
<1>15. ASSUME NEW i \in Ids, NEW s \in Sessions, OperatorReads(i,
    s) PROVE Shape' /\ CallersHear' /\ OperatorsHear'
  <2>1. Shape'
      BY <1>15, SlotIs DEF Shape, OperatorReads, Speaker, Slots, PageState, NoSlot,
          ChatPlace, CallerPlace, Occupied, Ids, hub, ends, channels, callers
  <2>2. CallersHear'
      BY <1>15 DEF CallersHear, OperatorReads, Speaker, channels
  <2>3. OperatorsHear'
    <3>1. /\ Tail(toOperator[i]) \in Seq(Replies) /\ Len(Tail(toOperator[i])) \in Nat
          /\ Len(Tail(toOperator[i])) < Len(toOperator[i])
          /\ Len(toOperator[i]) \in Nat /\ Len(toOperator[i]) <= Capacity
        BY <1>15, TailIs DEF OperatorReads, OperatorsHear
    <3>2. Len(Tail(toOperator[i])) <= Capacity
        BY <3>1 DEF HubAssumption
    <3> QED BY <1>15, <3>1, <3>2 DEF OperatorReads, OperatorsHear
  <2> QED BY <2>1, <2>2, <2>3
<1>16. ASSUME NEW s \in Sessions, Page(s) PROVE Shape' /\ CallersHear' /\ OperatorsHear'
  <2>1. Shape'
    <3>1. [id |-> next, state |-> "Pending", owner |-> None] \in Slots
        BY <1>16 DEF Slots, PageState, Page
    <3>2. next' \in 1..(MaxInteractions + 1)
        BY <1>16 DEF Ids, HubAssumption, Page
    <3> QED BY <1>16, <3>1, <3>2 DEF Shape, Page, ChatPlace, CallerPlace, Expire, Handoffs,
        ends
  <2>2. CallersHear'
      BY <1>16 DEF CallersHear, Page, channels
  <2>3. OperatorsHear'
      BY <1>16 DEF Page, OperatorsHear, channels
  <2> QED BY <2>1, <2>2, <2>3
<1>17. ASSUME NEW s \in Sessions,
    PageAnswered(s) PROVE Shape' /\ CallersHear' /\ OperatorsHear'
  <2>1. Shape'
      BY <1>17, SlotIs DEF Shape, PageAnswered, Go, Done, Slots, PageState, NoSlot,
          ChatPlace, CallerPlace, Occupied, Ids, hub, ends, channels, callers
  <2>2. CallersHear'
      BY <1>17, Heard, Dropped DEF CallersHear, PageAnswered
  <2>3. OperatorsHear'
      BY <1>17 DEF PageAnswered, Go, Done, OperatorsHear, channels
  <2> QED BY <2>1, <2>2, <2>3
<1>18. ASSUME NEW s \in Sessions,
    PageDropped(s) PROVE Shape' /\ CallersHear' /\ OperatorsHear'
  <2>1. Shape'
      BY <1>18, SlotIs DEF Shape, PageDropped, Disconnected, Done, Slots, PageState,
          NoSlot, ChatPlace, CallerPlace, Occupied, Ids, hub, ends, channels, callers
  <2>2. CallersHear'
      BY <1>18, Dropped DEF CallersHear, PageDropped, Disconnected, hub, ends, callers
  <2>3. OperatorsHear'
      BY <1>18 DEF PageDropped, Disconnected, Done, OperatorsHear, channels
  <2> QED BY <2>1, <2>2, <2>3
<1>19. ASSUME NEW s \in Sessions,
    PageTimesOut(s) PROVE Shape' /\ CallersHear' /\ OperatorsHear'
  <2>1. Shape'
      BY <1>19, SlotIs DEF Shape, PageTimesOut, Go, Slots, PageState, NoSlot, ChatPlace,
          CallerPlace, Occupied, Ids, hub, ends, channels, callers
  <2>2. CallersHear'
      BY <1>19 DEF CallersHear, PageTimesOut, Go, channels
  <2>3. OperatorsHear'
      BY <1>19 DEF PageTimesOut, Go, OperatorsHear, channels
  <2> QED BY <2>1, <2>2, <2>3
<1>20. ASSUME NEW s \in Sessions, Withdraw(s) PROVE Shape' /\ CallersHear' /\ OperatorsHear'
  <2>1. Shape'
      BY <1>20, SlotIs DEF Shape, Withdraw, RemoveSlot, Done, Slots, PageState, NoSlot,
          ChatPlace, CallerPlace, Occupied, Ids, hub, ends, channels, callers
  <2>2. CallersHear'
      BY <1>20, Dropped DEF CallersHear, Withdraw, RemoveSlot, hub, ends, callers
  <2>3. OperatorsHear'
      BY <1>20 DEF Withdraw, RemoveSlot, Done, OperatorsHear, channels
  <2> QED BY <2>1, <2>2, <2>3
<1>21. ASSUME NEW s \in Sessions, Prompt(s) PROVE Shape' /\ CallersHear' /\ OperatorsHear'
  <2>1. Shape'
      BY <1>21, SlotIs DEF Shape, Prompt, Slots, PageState, NoSlot, ChatPlace, CallerPlace,
          Occupied, Ids, hub, ends, channels, callers
  <2>2. CallersHear'
      BY <1>21 DEF CallersHear, Prompt, channels
  <2>3. OperatorsHear'
      BY <1>21 DEF Prompt, OperatorsHear, channels
  <2> QED BY <2>1, <2>2, <2>3
<1>22. ASSUME NEW s \in Sessions,
    DeclineInvitation(s) PROVE Shape' /\ CallersHear' /\ OperatorsHear'
  <2>1. Shape'
      BY <1>22, SlotIs DEF Shape, DeclineInvitation, InvitedTo, Done, Slots, PageState,
          NoSlot, ChatPlace, CallerPlace, Occupied, Ids, hub, ends, channels, callers
  <2>2. CallersHear'
      BY <1>22, Dropped DEF CallersHear, DeclineInvitation, InvitedTo, hub, ends, callers
  <2>3. OperatorsHear'
      BY <1>22 DEF DeclineInvitation, InvitedTo, Done, OperatorsHear, channels
  <2> QED BY <2>1, <2>2, <2>3
<1>23. ASSUME NEW s \in Sessions,
    Authorize(s) PROVE Shape' /\ CallersHear' /\ OperatorsHear'
  <2>1. Shape'
      BY <1>23, SlotIs DEF Shape, Authorize, InvitedTo, Go, Slots, PageState, NoSlot,
          ChatPlace, CallerPlace, Occupied, Ids, hub, ends, channels, callers
  <2>2. CallersHear'
      BY <1>23 DEF CallersHear, Authorize, InvitedTo, Go, channels
  <2>3. OperatorsHear'
      BY <1>23 DEF Authorize, InvitedTo, Go, OperatorsHear, channels
  <2> QED BY <2>1, <2>2, <2>3
<1>24. ASSUME NEW s \in Sessions,
    AcceptInvitation(s) PROVE Shape' /\ CallersHear' /\ OperatorsHear'
  <2>1. Shape'
    <3>1. CASE InvitedTo(s, cur[s])
      <4>1. slot[s].id \in Ids /\ slot[s].owner \in Owners \cup {Console, None}
          BY <3>1, SlotIs DEF InvitedTo
      <4>2. [slot[s] EXCEPT !.state = "Chatting"] \in Slots
          BY <4>1, <3>1, SlotIs DEF Slots, PageState, NoSlot, InvitedTo
      <4>3. slot' = [slot EXCEPT ![s] = [slot[s] EXCEPT !.state = "Chatting"]]
          BY <1>24, <3>1 DEF AcceptInvitation
      <4> QED BY <1>24, <3>1, <4>2, <4>3 DEF Shape, AcceptInvitation, Go, CallerPlace, ends
    <3>2. CASE ~InvitedTo(s, cur[s])
        BY <1>24, <3>2 DEF Shape, AcceptInvitation, Done, CallerPlace, ends
    <3> QED BY <3>1, <3>2
  <2>2. CallersHear'
      BY <1>24, Dropped DEF CallersHear, AcceptInvitation, InvitedTo, Go, hub, ends, callers
  <2>3. OperatorsHear'
      BY <1>24 DEF AcceptInvitation, InvitedTo, Go, Done, OperatorsHear, channels
  <2> QED BY <2>1, <2>2, <2>3
<1>25. ASSUME NEW s \in Sessions,
    InvitationRefused(s) PROVE Shape' /\ CallersHear' /\ OperatorsHear'
  <2>1. Shape'
      BY <1>25, SlotIs DEF Shape, InvitationRefused, InvitedTo, Done, Slots, PageState,
          NoSlot, ChatPlace, CallerPlace, Occupied, Ids, hub, ends, channels, callers
  <2>2. CallersHear'
      BY <1>25, Dropped DEF CallersHear, InvitationRefused, InvitedTo, hub, ends, callers
  <2>3. OperatorsHear'
      BY <1>25 DEF InvitationRefused, InvitedTo, Done, OperatorsHear, channels
  <2> QED BY <2>1, <2>2, <2>3
<1>26. ASSUME NEW s \in Sessions,
    CallerReceives(s) PROVE Shape' /\ CallersHear' /\ OperatorsHear'
  <2>1. Shape'
      BY <1>26, SlotIs DEF Shape, CallerReceives, Slots, PageState, NoSlot, ChatPlace,
          CallerPlace, Occupied, Ids, hub, ends, channels, callers
  <2>2. CallersHear'
      BY <1>26, Heard, Dropped DEF CallersHear, CallerReceives
  <2>3. OperatorsHear'
      BY <1>26 DEF CallerReceives, OperatorsHear, channels
  <2> QED BY <2>1, <2>2, <2>3
<1>27. ASSUME NEW s \in Sessions,
    CallerNotices(s) PROVE Shape' /\ CallersHear' /\ OperatorsHear'
  <2>1. Shape'
      BY <1>27, SlotIs DEF Shape, CallerNotices, LeaveChat, Go, Slots, PageState, NoSlot,
          ChatPlace, CallerPlace, Occupied, Ids, hub, ends, channels, callers
  <2>2. CallersHear'
      BY <1>27 DEF CallersHear, CallerNotices, LeaveChat, Go, channels
  <2>3. OperatorsHear'
      BY <1>27, ToldOperator DEF CallerNotices, LeaveChat, Go, OperatorsHear, Replies,
          channels
  <2> QED BY <2>1, <2>2, <2>3
<1>28. ASSUME NEW s \in Sessions,
    CallerLeaves(s) PROVE Shape' /\ CallersHear' /\ OperatorsHear'
  <2>1. Shape'
      BY <1>28, SlotIs DEF Shape, CallerLeaves, LeaveChat, Go, Slots, PageState, NoSlot,
          ChatPlace, CallerPlace, Occupied, Ids, hub, ends, channels, callers
  <2>2. CallersHear'
      BY <1>28 DEF CallersHear, CallerLeaves, LeaveChat, Go, channels
  <2>3. OperatorsHear'
      BY <1>28, ToldOperator DEF CallerLeaves, LeaveChat, Go, OperatorsHear, Replies,
          channels
  <2> QED BY <2>1, <2>2, <2>3
<1>29. ASSUME NEW s \in Sessions,
    CallerSends(s) PROVE Shape' /\ CallersHear' /\ OperatorsHear'
  <2>1. Shape'
      BY <1>29, SlotIs DEF Shape, CallerSends, LeaveChat, Go, Slots, PageState, NoSlot,
          ChatPlace, CallerPlace, Occupied, Ids, hub, ends, channels, callers
  <2>2. CallersHear'
      BY <1>29 DEF CallersHear, CallerSends, LeaveChat, Go, channels
  <2>3. OperatorsHear'
      BY <1>29, ToldOperator DEF CallerSends, LeaveChat, Go, OperatorsHear, Replies,
          channels
  <2> QED BY <2>1, <2>2, <2>3
<1>30. ASSUME NEW s \in Sessions,
    Cancelled(s) PROVE Shape' /\ CallersHear' /\ OperatorsHear'
  <2>1. Shape'
      BY <1>30, SlotIs DEF Shape, Cancelled, LeaveChat, Go, Slots, PageState, NoSlot,
          ChatPlace, CallerPlace, Occupied, Ids, hub, ends, channels, callers
  <2>2. CallersHear'
      BY <1>30 DEF CallersHear, Cancelled, LeaveChat, Go, channels
  <2>3. OperatorsHear'
      BY <1>30, ToldOperator DEF Cancelled, LeaveChat, Go, OperatorsHear, Replies, channels
  <2> QED BY <2>1, <2>2, <2>3
<1>31. ASSUME NEW s \in Sessions,
    CallerGone(s) PROVE Shape' /\ CallersHear' /\ OperatorsHear'
  <2>1. Shape'
      BY <1>31, SlotIs DEF Shape, CallerGone, RemoveSlot, Done, Slots, PageState, NoSlot,
          ChatPlace, CallerPlace, Occupied, Ids, hub, ends, channels, callers
  <2>2. CallersHear'
      BY <1>31, Dropped DEF CallersHear, CallerGone, RemoveSlot, hub, ends, callers
  <2>3. OperatorsHear'
      BY <1>31 DEF CallerGone, RemoveSlot, Done, OperatorsHear, channels
  <2> QED BY <2>1, <2>2, <2>3
<1>32. ASSUME NEW s \in Sessions, Hangup(s) PROVE Shape' /\ CallersHear' /\ OperatorsHear'
  <2>1. Shape'
      BY <1>32, SlotIs DEF Shape, Hangup, Go, Slots, PageState, NoSlot, ChatPlace,
          CallerPlace, Occupied, Ids, hub, ends, channels, callers
  <2>2. CallersHear'
      BY <1>32 DEF CallersHear, Hangup, Go, channels
  <2>3. OperatorsHear'
      BY <1>32 DEF Hangup, Go, OperatorsHear, channels
  <2> QED BY <2>1, <2>2, <2>3
<1>33. ASSUME NEW s \in Sessions,
    SessionEnded(s) PROVE Shape' /\ CallersHear' /\ OperatorsHear'
  <2>1. Shape'
      BY <1>33, SlotIs DEF Shape, SessionEnded, Done, Slots, PageState, NoSlot, ChatPlace,
          CallerPlace, Occupied, Ids, hub, ends, channels, callers
  <2>2. CallersHear'
      BY <1>33, Dropped DEF CallersHear, SessionEnded, hub, ends, callers
  <2>3. OperatorsHear'
      BY <1>33 DEF SessionEnded, Done, OperatorsHear, channels
  <2> QED BY <2>1, <2>2, <2>3
<1>34. ASSUME NEW s \in Sessions, Release(s) PROVE Shape' /\ CallersHear' /\ OperatorsHear'
  <2>1. Shape'
      BY <1>34, SlotIs DEF Shape, Release, Go, Slots, PageState, NoSlot, ChatPlace,
          CallerPlace, Occupied, Ids, hub, ends, channels, callers
  <2>2. CallersHear'
      BY <1>34 DEF CallersHear, Release, Go, channels
  <2>3. OperatorsHear'
      BY <1>34 DEF Release, Go, OperatorsHear, channels
  <2> QED BY <2>1, <2>2, <2>3
<1>35. ASSUME UNCHANGED vars PROVE Shape' /\ CallersHear' /\ OperatorsHear'
  <2>1. Shape'
      BY <1>35 DEF Shape, vars, hub, ends, callers
  <2>2. CallersHear' /\ OperatorsHear'
      BY <1>35 DEF CallersHear, OperatorsHear, vars, channels
  <2> QED BY <2>1, <2>2
<1>36. ASSUME Next PROVE Shape' /\ CallersHear' /\ OperatorsHear'
  <2>1. CASE Operators
      BY <2>1, <1>1, <1>2, <1>3, <1>4, <1>5, <1>6, <1>7, <1>8, <1>9, <1>10 DEF Operators
  <2>2. CASE Streams
      BY <2>2, <1>11, <1>12, <1>13, <1>14, <1>15 DEF Streams, StreamLeaves, StreamNotices
  <2>3. ASSUME NEW s \in Sessions, Caller(s) PROVE Shape' /\ CallersHear' /\ OperatorsHear'
      BY <2>3, <1>16, <1>17, <1>18, <1>19, <1>20, <1>21, <1>22, <1>23, <1>24, <1>25, <1>26,
          <1>27, <1>28, <1>29, <1>30, <1>31, <1>32, <1>33, <1>34 DEF Caller
  <2> QED BY <1>36, <2>1, <2>2, <2>3 DEF Next
<1>37. Shape' /\ CallersHear' /\ OperatorsHear'
    BY <1>35, <1>36
<1> QED
    BY <1>37, TypesAre DEF TypeOK, Shape, CallersHear, OperatorsHear, Events, Replies

-----------------------------------------------------------------------------
\* What telling the caller does to the channels.
Told(i, e) ==
    /\ \A k \in Ids : k # i \/ ~CallerEnd(i) => toCaller'[k] = toCaller[k]
    /\ CallerEnd(i) => toCaller'[i] # <<>>
    /\ CallerEnd(i) /\ toCaller[i] = <<>> => Head(toCaller'[i]) = e
    /\ toCaller[i] # <<>> => toCaller'[i] # <<>> /\ Head(toCaller'[i]) = Head(toCaller[i])
LEMMA ToldIs ==
    ASSUME HubAssumption, CallersHear, NEW i \in Ids, NEW e \in Events, TellCaller(i, e)
    PROVE  Told(i, e)
<1> DEFINE q == toCaller[i]
<1>1. /\ q \in Seq(Events) /\ Len(q) <= Capacity
      /\ toCaller'[i] = IF CallerEnd(i) THEN TrySend(q, e) ELSE q
      /\ \A k \in Ids : k # i \/ ~CallerEnd(i) => toCaller'[k] = toCaller[k]
    BY DEF CallersHear, TellCaller
<1>2. Head(<<e>>) = e
    OBVIOUS
<1>3. /\ TrySend(q, e) # <<>>
      /\ q = <<>> => TrySend(q, e) = <<e>>
      /\ q # <<>> => Head(TrySend(q, e)) = Head(q)
    BY <1>1, TrySendIs
<1> QED
    BY <1>1, <1>2, <1>3 DEF Told

\* Whoever holds an end got it with a number that was handed out.
LEMMA EndsAreOld ==
    ASSUME NumbersAreFresh, NEW i \in Ids, CallerEnd(i)
    PROVE  i < next
BY DEF NumbersAreFresh, CallerEnd, CallerHolds

\* A page that is pending has a caller that receives.
LEMMA PagesHaveAnEnd ==
    ASSUME PagesWait, NEW s \in Sessions, slot[s].state = "Pending"
    PROVE  CallerEnd(slot[s].id)
BY DEF PagesWait, PageWaits, CallerEnd, CallerHolds

\* Every step keeps the ends of a slot and what waits before them.
LEMMA HubStep == ASSUME HubAssumption, Inv, Next PROVE HubInv'
<1>0. /\ Shape /\ CallersHear
      /\ \A s \in Sessions :
            /\ slot[s].id \in Ids \cup {0} /\ slot[s].id \in Nat /\ cur[s] \in Nat
            /\ slot[s].state \in PageState \cup {"none"}
            /\ slot[s].state = "none" <=> slot[s].id = 0
      /\ 0 \notin Ids /\ Ids \subseteq Nat /\ next \in Nat \ {0}
  <2>1. Shape /\ CallersHear
      BY TypesAre DEF Inv
  <2>2. 0 \notin Ids /\ Ids \subseteq Nat /\ next \in Nat \ {0}
      BY <2>1, HubAssumption DEF Ids, Shape, HubAssumption
  <2>3. \A s \in Sessions : cur[s] \in Nat
      BY <2>1, HubAssumption DEF Shape, Ids, HubAssumption
  <2> QED BY <2>1, <2>2, <2>3, SlotIs, HubAssumption
<1>a. /\ slot \in [Sessions -> Slots] /\ chat \in [Ids -> ChatPlace]
      /\ pos \in [Sessions -> CallerPlace] /\ cur \in [Sessions -> Ids \cup {0}]
      /\ toCaller \in [Ids -> Seq(Events)]
    BY <1>0 DEF Shape, CallersHear
<1>b. NumbersAreFresh /\ PagesWait /\ AnswersArrive /\ SlotsAreHeld
    BY DEF Inv, HubInv
<1>c. NoSlot.id = 0 /\ NoSlot.state = "none"
    BY DEF NoSlot

<1>1. ASSUME NEW a \in BOOLEAN, SetAvailability(a) PROVE HubInv'
  <2>1. NumbersAreFresh'
      BY <1>0, <1>a, <1>b, <1>c, <1>1 DEF SetAvailability, Occupied, NumbersAreFresh,
          PagesWait, PageWaits, Contains, hub, ends, channels, callers
  <2>2. PagesWait'
      BY <1>0, <1>a, <1>b, <1>c, <1>1 DEF SetAvailability, NumbersAreFresh, PagesWait,
          PageWaits, Contains, hub, ends, channels, callers, SlotsAreHeld, SlotIsHeld,
              Alive, CallerHolds
  <2>3. AnswersArrive'
      BY <1>0, <1>a, <1>b, <1>c, <1>1 DEF SetAvailability, NumbersAreFresh, PagesWait,
          PageWaits, AnswersArrive, AnswerArrives, Contains, hub, ends, channels, callers,
              SlotsAreHeld, SlotIsHeld, Alive, CallerHolds
  <2>4. SlotsAreHeld'
      BY <1>0, <1>a, <1>b, <1>c, <1>1 DEF SetAvailability, CallerHolds, Alive,
          NumbersAreFresh, PagesWait, PageWaits, SlotsAreHeld, SlotIsHeld, Contains, hub,
              ends, channels, callers, AnswersArrive, AnswerArrives
  <2> QED BY <2>1, <2>2, <2>3, <2>4 DEF HubInv
<1>2. ASSUME NEW p \in BOOLEAN, SetPolicy(p) PROVE HubInv'
  <2>1. NumbersAreFresh'
      BY <1>0, <1>a, <1>b, <1>c, <1>2 DEF SetPolicy, Occupied, NumbersAreFresh, PagesWait,
          PageWaits, Contains, hub, ends, channels, callers
  <2>2. PagesWait'
      BY <1>0, <1>a, <1>b, <1>c, <1>2 DEF SetPolicy, NumbersAreFresh, PagesWait, PageWaits,
          Contains, hub, ends, channels, callers, SlotsAreHeld, SlotIsHeld, Alive,
              CallerHolds
  <2>3. AnswersArrive'
      BY <1>0, <1>a, <1>b, <1>c, <1>2 DEF SetPolicy, NumbersAreFresh, PagesWait, PageWaits,
          AnswersArrive, AnswerArrives, Contains, hub, ends, channels, callers,
              SlotsAreHeld, SlotIsHeld, Alive, CallerHolds
  <2>4. SlotsAreHeld'
      BY <1>0, <1>a, <1>b, <1>c, <1>2 DEF SetPolicy, CallerHolds, Alive, NumbersAreFresh,
          PagesWait, PageWaits, SlotsAreHeld, SlotIsHeld, Contains, hub, ends, channels,
              callers, AnswersArrive, AnswerArrives
  <2> QED BY <2>1, <2>2, <2>3, <2>4 DEF HubInv
<1>3. ASSUME NEW s \in Sessions, RequestDisconnect(s) PROVE HubInv'
  <2>1. Occupied(s) => slot[s].id \in Ids /\ TellCaller(slot[s].id, "Ended")
      BY <1>0, <1>3 DEF RequestDisconnect, Occupied
  <2>2. Occupied(s) => Told(slot[s].id, "Ended")
      BY <2>1, <1>0, HubAssumption, ToldIs DEF Events
  <2>3. CallerEnd(slot[s].id) /\ slot[s].id \in Ids => slot[s].id < next
      BY <1>b, EndsAreOld
  <2>4. NumbersAreFresh'
      BY <1>0, <1>a, <1>b, <1>c, <1>3, <2>1, <2>2, <2>3,
          PagesHaveAnEnd DEF RequestDisconnect, Occupied, NumbersAreFresh, PagesWait,
              PageWaits, Contains, hub, ends, channels, callers, Told
  <2>5. PagesWait'
    <3>1. ASSUME NEW t \in Sessions, slot'[t].state = "Pending"
          PROVE  slot'[t] = slot[t] /\ slot[t].id \in Ids
        BY <1>0, <1>a, <1>b, <1>c, <1>3, <3>1 DEF RequestDisconnect, hub
    <3>2. ASSUME NEW t \in Sessions, slot'[t].state = "Pending"
          PROVE  Occupied(s) => slot[t].id # slot[s].id
        BY <1>0, <1>a, <1>b, <1>c, <1>3, <3>1, <3>2
        DEF RequestDisconnect, hub, NumbersAreFresh, PagesWait, PageWaits, Contains,
            Occupied
    <3>3. ASSUME NEW t \in Sessions, slot'[t].state = "Pending"
          PROVE  toCaller'[slot[t].id] = toCaller[slot[t].id] /\ chat'[slot[t].id] = chat[slot[t].id]
        BY <1>0, <1>a, <1>b, <1>c, <1>3, <2>2, <3>1, <3>2, <3>3 DEF RequestDisconnect,
            Told, ends
    <3> QED BY <1>b, <1>3, <3>1, <3>3 DEF RequestDisconnect, PagesWait, PageWaits, callers
  <2>6. AnswersArrive'
    <3>1. ASSUME NEW t \in Sessions, slot'[t].state = "Chatting"
          PROVE  slot'[t] = slot[t] /\ slot[t].id \in Ids
        BY <1>0, <1>a, <1>b, <1>c, <1>3, <3>1 DEF RequestDisconnect, hub
    <3>2. ASSUME NEW k \in Ids, toCaller[k] # <<>>
          PROVE  toCaller'[k] # <<>> /\ Head(toCaller'[k]) = Head(toCaller[k])
        BY <1>0, <1>a, <1>b, <1>c, <1>3, <2>2, <3>2 DEF RequestDisconnect, Told
    <3> QED BY <1>b, <1>3, <3>1, <3>2 DEF RequestDisconnect, AnswersArrive, AnswerArrives,
        callers
  <2>7. SlotsAreHeld'
      BY <1>0, <1>a, <1>b, <1>c, <1>3, <2>1, <2>2, <2>3,
          PagesHaveAnEnd DEF RequestDisconnect, CallerHolds, Alive, NumbersAreFresh,
              PagesWait, PageWaits, SlotsAreHeld, SlotIsHeld, Contains, hub, ends,
                  channels, callers, Told, Occupied, AnswersArrive, AnswerArrives
  <2> QED BY <2>4, <2>5, <2>6, <2>7 DEF HubInv
<1>4. ASSUME NEW s \in Sessions, Decline(s) PROVE HubInv'
  <2>1. slot[s].id \in Ids /\ TellCaller(slot[s].id, "Declined")
      BY <1>0, <1>4 DEF Decline, Occupied
  <2>2. Told(slot[s].id, "Declined")
      BY <2>1, <1>0, HubAssumption, ToldIs DEF Events
  <2>3. CallerEnd(slot[s].id) /\ slot[s].id \in Ids => slot[s].id < next
      BY <1>b, EndsAreOld
  <2>4. NumbersAreFresh'
      BY <1>0, <1>a, <1>b, <1>c, <1>4, <2>1, <2>2, <2>3, PagesHaveAnEnd DEF Decline,
          Occupied, NumbersAreFresh, PagesWait, PageWaits, Contains, hub, ends, channels,
              callers, Told
  <2>5. PagesWait'
    <3>1. ASSUME NEW t \in Sessions, slot'[t].state = "Pending"
          PROVE  slot'[t] = slot[t] /\ slot[t].id \in Ids
        BY <1>0, <1>a, <1>b, <1>c, <1>4, <3>1 DEF Decline, hub
    <3>2. ASSUME NEW t \in Sessions, slot'[t].state = "Pending"
          PROVE  slot[t].id # slot[s].id
        BY <1>0, <1>a, <1>b, <1>c, <1>4, <3>1, <3>2
        DEF Decline, hub, NumbersAreFresh, PagesWait, PageWaits, Contains, Occupied
    <3>3. ASSUME NEW t \in Sessions, slot'[t].state = "Pending"
          PROVE  toCaller'[slot[t].id] = toCaller[slot[t].id] /\ chat'[slot[t].id] = chat[slot[t].id]
        BY <1>0, <1>a, <1>b, <1>c, <1>4, <2>2, <3>1, <3>2, <3>3 DEF Decline, Told, ends
    <3> QED BY <1>b, <1>4, <3>1, <3>3 DEF Decline, PagesWait, PageWaits, callers
  <2>6. AnswersArrive'
    <3>1. ASSUME NEW t \in Sessions, slot'[t].state = "Chatting"
          PROVE  slot'[t] = slot[t] /\ slot[t].id \in Ids
        BY <1>0, <1>a, <1>b, <1>c, <1>4, <3>1 DEF Decline, hub
    <3>2. ASSUME NEW k \in Ids, toCaller[k] # <<>>
          PROVE  toCaller'[k] # <<>> /\ Head(toCaller'[k]) = Head(toCaller[k])
        BY <1>0, <1>a, <1>b, <1>c, <1>4, <2>2, <3>2 DEF Decline, Told
    <3> QED BY <1>b, <1>4, <3>1, <3>2 DEF Decline, AnswersArrive, AnswerArrives, callers
  <2>7. SlotsAreHeld'
      BY <1>0, <1>a, <1>b, <1>c, <1>4, <2>1, <2>2, <2>3, PagesHaveAnEnd DEF Decline,
          CallerHolds, Alive, NumbersAreFresh, PagesWait, PageWaits, SlotsAreHeld,
              SlotIsHeld, Contains, hub, ends, channels, callers, Told, Occupied,
                  AnswersArrive, AnswerArrives
  <2> QED BY <2>4, <2>5, <2>6, <2>7 DEF HubInv
<1>5. ASSUME NEW s \in Sessions, ConsoleAnswer(s) PROVE HubInv'
  <2>1. slot[s].id \in Ids /\ TellCaller(slot[s].id, "Answered")
      BY <1>0, <1>5 DEF ConsoleAnswer, Answerable, Answer, Occupied
  <2>2. Told(slot[s].id, "Answered")
      BY <2>1, <1>0, HubAssumption, ToldIs DEF Events
  <2>3. CallerEnd(slot[s].id) /\ slot[s].id \in Ids => slot[s].id < next
      BY <1>b, EndsAreOld
  <2>4. NumbersAreFresh'
      BY <1>0, <1>a, <1>b, <1>c, <1>5, <2>1, <2>2, <2>3, PagesHaveAnEnd DEF ConsoleAnswer,
          Answerable, Answer, Occupied, NumbersAreFresh, PagesWait, PageWaits, Contains,
              hub, ends, channels, callers, Told
  <2>5. PagesWait'
      BY <1>0, <1>a, <1>b, <1>c, <1>5, <2>1, <2>2, <2>3, PagesHaveAnEnd DEF ConsoleAnswer,
          Answerable, Answer, NumbersAreFresh, PagesWait, PageWaits, Contains, hub, ends,
              channels, callers, Told, Occupied, SlotsAreHeld, SlotIsHeld, Alive,
                  CallerHolds
  <2>6. AnswersArrive'
      BY <1>0, <1>a, <1>b, <1>c, <1>5, <2>1, <2>2, <2>3, PagesHaveAnEnd DEF ConsoleAnswer,
          Answerable, Answer, NumbersAreFresh, PagesWait, PageWaits, AnswersArrive,
              AnswerArrives, Contains, hub, ends, channels, callers, Told, Occupied,
                  SlotsAreHeld, SlotIsHeld, Alive, CallerHolds
  <2>7. SlotsAreHeld'
      BY <1>0, <1>a, <1>b, <1>c, <1>5, <2>1, <2>2, <2>3, PagesHaveAnEnd DEF ConsoleAnswer,
          Answerable, Answer, CallerHolds, Alive, NumbersAreFresh, PagesWait, PageWaits,
              SlotsAreHeld, SlotIsHeld, Contains, hub, ends, channels, callers, Told,
                  Occupied, AnswersArrive, AnswerArrives
  <2> QED BY <2>4, <2>5, <2>6, <2>7 DEF HubInv
<1>6. ASSUME NEW s \in Sessions, NEW o \in Owners, NEW E \in SUBSET Handoffs,
    AnswerCallerPage(s, o, E) PROVE HubInv'
  <2>1. slot[s].id \in Ids /\ TellCaller(slot[s].id, "Answered")
      BY <1>0, <1>6 DEF AnswerCallerPage, Answerable, Answer, Expire, Handoffs, Occupied
  <2>2. Told(slot[s].id, "Answered")
      BY <2>1, <1>0, HubAssumption, ToldIs DEF Events
  <2>3. CallerEnd(slot[s].id) /\ slot[s].id \in Ids => slot[s].id < next
      BY <1>b, EndsAreOld
  <2>4. NumbersAreFresh'
      BY <1>0, <1>a, <1>b, <1>c, <1>6, <2>1, <2>2, <2>3,
          PagesHaveAnEnd DEF AnswerCallerPage, Answerable, Answer, Expire, Handoffs,
              Occupied, NumbersAreFresh, PagesWait, PageWaits, Contains, hub, ends,
                  channels, callers, Told
  <2>5. PagesWait'
      BY <1>0, <1>a, <1>b, <1>c, <1>6, <2>1, <2>2, <2>3,
          PagesHaveAnEnd DEF AnswerCallerPage, Answerable, Answer, Expire, Handoffs,
              NumbersAreFresh, PagesWait, PageWaits, Contains, hub, ends, channels,
                  callers, Told, Occupied, SlotsAreHeld, SlotIsHeld, Alive, CallerHolds
  <2>6. AnswersArrive'
      BY <1>0, <1>a, <1>b, <1>c, <1>6, <2>1, <2>2, <2>3,
          PagesHaveAnEnd DEF AnswerCallerPage, Answerable, Answer, Expire, Handoffs,
              NumbersAreFresh, PagesWait, PageWaits, AnswersArrive, AnswerArrives,
                  Contains, hub, ends, channels, callers, Told, Occupied, SlotsAreHeld,
                      SlotIsHeld, Alive, CallerHolds
  <2>7. SlotsAreHeld'
      BY <1>0, <1>a, <1>b, <1>c, <1>6, <2>1, <2>2, <2>3,
          PagesHaveAnEnd DEF AnswerCallerPage, Answerable, Answer, Expire, Handoffs,
              CallerHolds, Alive, NumbersAreFresh, PagesWait, PageWaits, SlotsAreHeld,
                  SlotIsHeld, Contains, hub, ends, channels, callers, Told, Occupied,
                      AnswersArrive, AnswerArrives
  <2> QED BY <2>4, <2>5, <2>6, <2>7 DEF HubInv
<1>7. ASSUME NEW s \in Sessions, NEW o \in Owners, NEW E \in SUBSET Handoffs,
    InviteOperatorChat(s, o, E) PROVE HubInv'
  <2>1. /\ next \in Ids /\ next' = next + 1 /\ slot[s].state = "none"
        /\ chat[next] = "none" /\ toCaller[next] = <<>>
        /\ slot'[s].id = next /\ slot'[s].state = "Invited"
        /\ \A r \in Sessions : r # s => slot'[r] = slot[r]
      BY <1>0, <1>a, <1>b, <1>7 DEF InviteOperatorChat, Occupied, NumbersAreFresh
  <2>2. Expire(E) \in [Ids -> ChatPlace] /\ \A k \in Ids : Expire(E)[k] \in {chat[k],
      "ending"}
      BY <1>a DEF Expire, ChatPlace
  <2>3. \A k \in Ids : Expire(E)[k] # chat[k] => chat[k] = "handoff"
      BY <1>a DEF Expire, Handoffs
  <2>4. /\ chat'[next] = "handoff"
        /\ \A k \in Ids : k # next =>
              chat'[k] = chat[k] \/ (chat[k] = "handoff" /\ chat'[k] = "ending")
      BY <2>1, <2>2, <2>3, <1>7 DEF InviteOperatorChat
  <2>5. toCaller' = toCaller /\ pos' = pos /\ cur' = cur
      BY <1>7 DEF InviteOperatorChat, channels, callers
  <2>6. NumbersAreFresh'
    <3>1. ASSUME NEW k \in Ids, k >= next' PROVE chat'[k] = "none" /\ toCaller'[k] = <<>>
      <4>1. k >= next /\ chat[k] = "none" /\ toCaller[k] = <<>> /\ (next' # next => k # next)
          BY <1>0, <1>b, <2>1, <2>4, <2>5, <3>1 DEF NumbersAreFresh
      <4> QED BY <2>1, <2>4, <2>5, <4>1
    <3>2. ASSUME NEW r \in Sessions PROVE (slot[r].id < next /\ cur[r] < next)'
      <4>1. slot[r].id \in Nat /\ cur[r] \in Nat /\ slot[r].id < next /\ cur[r] < next /\ slot[r].id # next
          BY <1>0, <1>a, <1>b DEF NumbersAreFresh
      <4>2. CASE r = s
          BY <1>0, <1>c, <2>1, <2>4, <2>5, <4>1, <4>2
      <4>3. CASE r # s
          BY <1>0, <2>1, <2>4, <2>5, <4>1, <4>3
      <4> QED BY <4>2, <4>3
    <3>3. ASSUME NEW r \in Sessions, NEW p \in Sessions
          PROVE  /\ (slot[r].id = slot[p].id /\ Occupied(r) => r = p)'
                 /\ (cur[r] # 0 /\ cur[r] \in {cur[p], slot[p].id} => r = p)'
      <4>1. /\ slot[r].id < next /\ cur[r] < next /\ slot[p].id < next /\ cur[p] < next
            /\ slot[r].id # next /\ cur[r] # next /\ slot[p].id # next /\ cur[p] # next
            /\ slot[r].id = slot[p].id /\ slot[r].state # "none" => r = p
            /\ cur[r] # 0 /\ cur[r] \in {cur[p], slot[p].id} => r = p
            /\ cur[p] # 0 /\ cur[p] = slot[r].id => r = p
          BY <1>0, <1>b DEF NumbersAreFresh, Occupied
      <4> QED BY <1>0, <1>c, <2>1, <2>4, <2>5, <4>1 DEF Occupied
    <3> QED BY <3>1, <3>2, <3>3 DEF NumbersAreFresh
  <2>7. ASSUME NEW r \in Sessions PROVE PageWaits(r)'
    <3>1. /\ PageWaits(r) /\ AnswerArrives(r) /\ SlotIsHeld(r)
          /\ slot[r].state # "none" => slot[r].id \in Ids
          /\ slot[r].id < next /\ cur[r] < next /\ slot[r].id # next
          /\ r # s /\ slot[r].state # "none" => cur[s] # slot[r].id \/ cur[s] = 0
        BY <1>0, <1>b DEF PagesWait, AnswersArrive, SlotsAreHeld, NumbersAreFresh
    <3>2. CASE r = s
        BY <1>0, <1>c, <2>1, <2>4, <2>5, <3>1, <3>2 DEF PageWaits, SlotIsHeld, CallerHolds
    <3>3. CASE r # s
        BY <1>0, <1>c, <2>1, <2>4, <2>5, <3>1, <3>3 DEF PageWaits, SlotIsHeld, CallerHolds
    <3> QED BY <3>2, <3>3
  <2>8. ASSUME NEW r \in Sessions PROVE AnswerArrives(r)'
    <3>1. /\ PageWaits(r) /\ AnswerArrives(r) /\ SlotIsHeld(r)
          /\ slot[r].state # "none" => slot[r].id \in Ids
          /\ slot[r].id < next /\ cur[r] < next /\ slot[r].id # next
          /\ r # s /\ slot[r].state # "none" => cur[s] # slot[r].id \/ cur[s] = 0
        BY <1>0, <1>b DEF PagesWait, AnswersArrive, SlotsAreHeld, NumbersAreFresh
    <3>2. CASE r = s
        BY <1>0, <1>c, <2>1, <2>4, <2>5, <3>1, <3>2 DEF AnswerArrives, SlotIsHeld,
            CallerHolds, Alive
    <3>3. CASE r # s
        BY <1>0, <1>c, <2>1, <2>4, <2>5, <3>1, <3>3 DEF AnswerArrives, SlotIsHeld,
            CallerHolds, Alive
    <3> QED BY <3>2, <3>3
  <2>9. ASSUME NEW r \in Sessions PROVE SlotIsHeld(r)'
    <3>1. /\ PageWaits(r) /\ AnswerArrives(r) /\ SlotIsHeld(r)
          /\ slot[r].state # "none" => slot[r].id \in Ids
          /\ slot[r].id < next /\ cur[r] < next /\ slot[r].id # next
          /\ r # s /\ slot[r].state # "none" => cur[s] # slot[r].id \/ cur[s] = 0
        BY <1>0, <1>b DEF PagesWait, AnswersArrive, SlotsAreHeld, NumbersAreFresh
    <3>2. CASE r = s
        BY <1>0, <1>c, <2>1, <2>4, <2>5, <3>1, <3>2 DEF SlotIsHeld, CallerHolds, Alive,
            PageWaits, AnswerArrives
    <3>3. CASE r # s
        BY <1>0, <1>c, <2>1, <2>4, <2>5, <3>1, <3>3 DEF SlotIsHeld, CallerHolds, Alive,
            PageWaits, AnswerArrives
    <3> QED BY <3>2, <3>3
  <2> QED BY <2>6, <2>7, <2>8, <2>9 DEF HubInv, PagesWait, AnswersArrive, SlotsAreHeld
<1>8. ASSUME NEW E \in SUBSET Handoffs, SweepOnly(E) PROVE HubInv'
  <2>1. NumbersAreFresh'
      BY <1>0, <1>a, <1>b, <1>c, <1>8 DEF SweepOnly, Expire, Handoffs, Occupied,
          NumbersAreFresh, PagesWait, PageWaits, Contains, hub, ends, channels, callers
  <2>2. PagesWait'
      BY <1>0, <1>a, <1>b, <1>c, <1>8 DEF SweepOnly, Expire, Handoffs, NumbersAreFresh,
          PagesWait, PageWaits, Contains, hub, ends, channels, callers, SlotsAreHeld,
              SlotIsHeld, Alive, CallerHolds
  <2>3. AnswersArrive'
      BY <1>0, <1>a, <1>b, <1>c, <1>8 DEF SweepOnly, Expire, Handoffs, NumbersAreFresh,
          PagesWait, PageWaits, AnswersArrive, AnswerArrives, Contains, hub, ends,
              channels, callers, SlotsAreHeld, SlotIsHeld, Alive, CallerHolds
  <2>4. SlotsAreHeld'
      BY <1>0, <1>a, <1>b, <1>c, <1>8 DEF SweepOnly, Expire, Handoffs, CallerHolds, Alive,
          NumbersAreFresh, PagesWait, PageWaits, SlotsAreHeld, SlotIsHeld, Contains, hub,
              ends, channels, callers, AnswersArrive, AnswerArrives
  <2> QED BY <2>1, <2>2, <2>3, <2>4 DEF HubInv
<1>9. ASSUME NEW o \in Owners, Detach(o) PROVE HubInv'
  <2>1. NumbersAreFresh'
      BY <1>0, <1>a, <1>b, <1>c, <1>9 DEF Detach, Expire, Handoffs, Occupied,
          NumbersAreFresh, PagesWait, PageWaits, Contains, hub, ends, channels, callers
  <2>2. PagesWait'
      BY <1>0, <1>a, <1>b, <1>c, <1>9 DEF Detach, Expire, Handoffs, NumbersAreFresh,
          PagesWait, PageWaits, Contains, hub, ends, channels, callers, SlotsAreHeld,
              SlotIsHeld, Alive, CallerHolds
  <2>3. AnswersArrive'
      BY <1>0, <1>a, <1>b, <1>c, <1>9 DEF Detach, Expire, Handoffs, NumbersAreFresh,
          PagesWait, PageWaits, AnswersArrive, AnswerArrives, Contains, hub, ends,
              channels, callers, SlotsAreHeld, SlotIsHeld, Alive, CallerHolds
  <2>4. SlotsAreHeld'
      BY <1>0, <1>a, <1>b, <1>c, <1>9 DEF Detach, Expire, Handoffs, CallerHolds, Alive,
          NumbersAreFresh, PagesWait, PageWaits, SlotsAreHeld, SlotIsHeld, Contains, hub,
              ends, channels, callers, AnswersArrive, AnswerArrives
  <2> QED BY <2>1, <2>2, <2>3, <2>4 DEF HubInv
<1>10. ASSUME NEW o \in Owners, EndAttachment(o) PROVE HubInv'
  <2>1. NumbersAreFresh'
      BY <1>0, <1>a, <1>b, <1>c, <1>10 DEF EndAttachment, Occupied, NumbersAreFresh,
          PagesWait, PageWaits, Contains, hub, ends, channels, callers
  <2>2. PagesWait'
      BY <1>0, <1>a, <1>b, <1>c, <1>10 DEF EndAttachment, NumbersAreFresh, PagesWait,
          PageWaits, Contains, hub, ends, channels, callers, SlotsAreHeld, SlotIsHeld,
              Alive, CallerHolds
  <2>3. AnswersArrive'
      BY <1>0, <1>a, <1>b, <1>c, <1>10 DEF EndAttachment, NumbersAreFresh, PagesWait,
          PageWaits, AnswersArrive, AnswerArrives, Contains, hub, ends, channels, callers,
              SlotsAreHeld, SlotIsHeld, Alive, CallerHolds
  <2>4. SlotsAreHeld'
      BY <1>0, <1>a, <1>b, <1>c, <1>10 DEF EndAttachment, CallerHolds, Alive,
          NumbersAreFresh, PagesWait, PageWaits, SlotsAreHeld, SlotIsHeld, Contains, hub,
              ends, channels, callers, AnswersArrive, AnswerArrives
  <2> QED BY <2>1, <2>2, <2>3, <2>4 DEF HubInv
<1>11. ASSUME NEW i \in Ids, Redeem(i) PROVE HubInv'
  <2>1. NumbersAreFresh'
      BY <1>0, <1>a, <1>b, <1>c, <1>11 DEF Redeem, Occupied, NumbersAreFresh, PagesWait,
          PageWaits, Contains, hub, ends, channels, callers
  <2>2. PagesWait'
      BY <1>0, <1>a, <1>b, <1>c, <1>11 DEF Redeem, NumbersAreFresh, PagesWait, PageWaits,
          Contains, hub, ends, channels, callers, SlotsAreHeld, SlotIsHeld, Alive,
              CallerHolds
  <2>3. AnswersArrive'
      BY <1>0, <1>a, <1>b, <1>c, <1>11 DEF Redeem, NumbersAreFresh, PagesWait, PageWaits,
          AnswersArrive, AnswerArrives, Contains, hub, ends, channels, callers,
              SlotsAreHeld, SlotIsHeld, Alive, CallerHolds
  <2>4. SlotsAreHeld'
      BY <1>0, <1>a, <1>b, <1>c, <1>11 DEF Redeem, CallerHolds, Alive, NumbersAreFresh,
          PagesWait, PageWaits, SlotsAreHeld, SlotIsHeld, Contains, hub, ends, channels,
              callers, AnswersArrive, AnswerArrives
  <2> QED BY <2>1, <2>2, <2>3, <2>4 DEF HubInv
<1>12. ASSUME NEW i \in Ids, CloseChat(i), chat[i] = "stream" PROVE HubInv'
  <2>1. i \in Ids /\ TellCaller(i, "Ended")
      BY <1>0, <1>12 DEF CloseChat, Occupied
  <2>2. Told(i, "Ended")
      BY <2>1, <1>0, HubAssumption, ToldIs DEF Events
  <2>3. CallerEnd(i) /\ i \in Ids => i < next
      BY <1>b, EndsAreOld
  <2>4. NumbersAreFresh'
      BY <1>0, <1>a, <1>b, <1>c, <1>12, <2>1, <2>2, <2>3, PagesHaveAnEnd DEF CloseChat,
          Occupied, NumbersAreFresh, PagesWait, PageWaits, Contains, hub, ends, channels,
              callers, Told
  <2>5. PagesWait'
    <3>1. ASSUME NEW t \in Sessions, slot'[t].state = "Pending"
          PROVE  slot'[t] = slot[t] /\ slot[t].id \in Ids
        BY <1>0, <1>a, <1>b, <1>c, <1>12, <3>1 DEF CloseChat, hub
    <3>2. ASSUME NEW t \in Sessions, slot'[t].state = "Pending"
          PROVE  slot[t].id # i
        BY <1>0, <1>a, <1>b, <1>c, <1>12, <3>1, <3>2
        DEF CloseChat, hub, NumbersAreFresh, PagesWait, PageWaits, Contains, Occupied
    <3>3. ASSUME NEW t \in Sessions, slot'[t].state = "Pending"
          PROVE  toCaller'[slot[t].id] = toCaller[slot[t].id] /\ chat'[slot[t].id] = chat[slot[t].id]
        BY <1>0, <1>a, <1>b, <1>c, <1>12, <2>2, <3>1, <3>2, <3>3 DEF CloseChat, Told, ends
    <3> QED BY <1>b, <1>12, <3>1, <3>3 DEF CloseChat, PagesWait, PageWaits, callers
  <2>6. AnswersArrive'
    <3>1. ASSUME NEW t \in Sessions, slot'[t].state = "Chatting"
          PROVE  slot'[t] = slot[t] /\ slot[t].id \in Ids
        BY <1>0, <1>a, <1>b, <1>c, <1>12, <3>1 DEF CloseChat, hub
    <3>2. ASSUME NEW k \in Ids, toCaller[k] # <<>>
          PROVE  toCaller'[k] # <<>> /\ Head(toCaller'[k]) = Head(toCaller[k])
        BY <1>0, <1>a, <1>b, <1>c, <1>12, <2>2, <3>2 DEF CloseChat, Told
    <3> QED BY <1>b, <1>12, <3>1, <3>2 DEF CloseChat, AnswersArrive, AnswerArrives, callers
  <2>7. SlotsAreHeld'
      BY <1>0, <1>a, <1>b, <1>c, <1>12, <2>1, <2>2, <2>3, PagesHaveAnEnd DEF CloseChat,
          CallerHolds, Alive, NumbersAreFresh, PagesWait, PageWaits, SlotsAreHeld,
              SlotIsHeld, Contains, hub, ends, channels, callers, Told, Occupied,
                  AnswersArrive, AnswerArrives
  <2> QED BY <2>4, <2>5, <2>6, <2>7 DEF HubInv
<1>13. ASSUME NEW i \in Ids, OperatorGone(i) PROVE HubInv'
  <2>1. NumbersAreFresh'
      BY <1>0, <1>a, <1>b, <1>c, <1>13 DEF OperatorGone, Occupied, NumbersAreFresh,
          PagesWait, PageWaits, Contains, hub, ends, channels, callers
  <2>2. PagesWait'
      BY <1>0, <1>a, <1>b, <1>c, <1>13 DEF OperatorGone, NumbersAreFresh, PagesWait,
          PageWaits, Contains, hub, ends, channels, callers, SlotsAreHeld, SlotIsHeld,
              Alive, CallerHolds
  <2>3. AnswersArrive'
      BY <1>0, <1>a, <1>b, <1>c, <1>13 DEF OperatorGone, NumbersAreFresh, PagesWait,
          PageWaits, AnswersArrive, AnswerArrives, Contains, hub, ends, channels, callers,
              SlotsAreHeld, SlotIsHeld, Alive, CallerHolds
  <2>4. SlotsAreHeld'
      BY <1>0, <1>a, <1>b, <1>c, <1>13 DEF OperatorGone, CallerHolds, Alive,
          NumbersAreFresh, PagesWait, PageWaits, SlotsAreHeld, SlotIsHeld, Contains, hub,
              ends, channels, callers, AnswersArrive, AnswerArrives
  <2> QED BY <2>1, <2>2, <2>3, <2>4 DEF HubInv
<1>14. ASSUME NEW i \in Ids, NEW s \in Sessions, OperatorSends(i, s) PROVE HubInv'
  <2>1. i \in Ids /\ TellCaller(i, "Line")
      BY <1>0, <1>14 DEF OperatorSends, Speaker, Occupied
  <2>2. Told(i, "Line")
      BY <2>1, <1>0, HubAssumption, ToldIs DEF Events
  <2>3. CallerEnd(i) /\ i \in Ids => i < next
      BY <1>b, EndsAreOld
  <2>4. NumbersAreFresh'
      BY <1>0, <1>a, <1>b, <1>c, <1>14, <2>1, <2>2, <2>3, PagesHaveAnEnd DEF OperatorSends,
          Speaker, Occupied, NumbersAreFresh, PagesWait, PageWaits, Contains, hub, ends,
              channels, callers, Told
  <2>5. PagesWait'
    <3>1. ASSUME NEW t \in Sessions, slot'[t].state = "Pending"
          PROVE  slot'[t] = slot[t] /\ slot[t].id \in Ids
        BY <1>0, <1>a, <1>b, <1>c, <1>14, <3>1 DEF OperatorSends, Speaker, hub
    <3>2. ASSUME NEW t \in Sessions, slot'[t].state = "Pending"
          PROVE  slot[t].id # i
        BY <1>0, <1>a, <1>b, <1>c, <1>14, <3>1, <3>2
        DEF OperatorSends, Speaker, hub, NumbersAreFresh, PagesWait, PageWaits, Contains,
            Occupied
    <3>3. ASSUME NEW t \in Sessions, slot'[t].state = "Pending"
          PROVE  toCaller'[slot[t].id] = toCaller[slot[t].id] /\ chat'[slot[t].id] = chat[slot[t].id]
        BY <1>0, <1>a, <1>b, <1>c, <1>14, <2>2, <3>1, <3>2, <3>3 DEF OperatorSends,
            Speaker, Told, ends
    <3> QED BY <1>b, <1>14, <3>1, <3>3 DEF OperatorSends, Speaker, PagesWait, PageWaits,
        callers
  <2>6. AnswersArrive'
    <3>1. ASSUME NEW t \in Sessions, slot'[t].state = "Chatting"
          PROVE  slot'[t] = slot[t] /\ slot[t].id \in Ids
        BY <1>0, <1>a, <1>b, <1>c, <1>14, <3>1 DEF OperatorSends, Speaker, hub
    <3>2. ASSUME NEW k \in Ids, toCaller[k] # <<>>
          PROVE  toCaller'[k] # <<>> /\ Head(toCaller'[k]) = Head(toCaller[k])
        BY <1>0, <1>a, <1>b, <1>c, <1>14, <2>2, <3>2 DEF OperatorSends, Speaker, Told
    <3> QED BY <1>b, <1>14, <3>1, <3>2 DEF OperatorSends, Speaker, AnswersArrive,
        AnswerArrives, callers
  <2>7. SlotsAreHeld'
      BY <1>0, <1>a, <1>b, <1>c, <1>14, <2>1, <2>2, <2>3, PagesHaveAnEnd DEF OperatorSends,
          Speaker, CallerHolds, Alive, NumbersAreFresh, PagesWait, PageWaits, SlotsAreHeld,
              SlotIsHeld, Contains, hub, ends, channels, callers, Told, Occupied,
                  AnswersArrive, AnswerArrives
  <2> QED BY <2>4, <2>5, <2>6, <2>7 DEF HubInv
<1>15. ASSUME NEW i \in Ids, NEW s \in Sessions, OperatorReads(i, s) PROVE HubInv'
  <2>1. NumbersAreFresh'
      BY <1>0, <1>a, <1>b, <1>c, <1>15 DEF OperatorReads, Speaker, Occupied,
          NumbersAreFresh, PagesWait, PageWaits, Contains, hub, ends, channels, callers
  <2>2. PagesWait'
      BY <1>0, <1>a, <1>b, <1>c, <1>15 DEF OperatorReads, Speaker, NumbersAreFresh,
          PagesWait, PageWaits, Contains, hub, ends, channels, callers, SlotsAreHeld,
              SlotIsHeld, Alive, CallerHolds
  <2>3. AnswersArrive'
      BY <1>0, <1>a, <1>b, <1>c, <1>15 DEF OperatorReads, Speaker, NumbersAreFresh,
          PagesWait, PageWaits, AnswersArrive, AnswerArrives, Contains, hub, ends,
              channels, callers, SlotsAreHeld, SlotIsHeld, Alive, CallerHolds
  <2>4. SlotsAreHeld'
      BY <1>0, <1>a, <1>b, <1>c, <1>15 DEF OperatorReads, Speaker, CallerHolds, Alive,
          NumbersAreFresh, PagesWait, PageWaits, SlotsAreHeld, SlotIsHeld, Contains, hub,
              ends, channels, callers, AnswersArrive, AnswerArrives
  <2> QED BY <2>1, <2>2, <2>3, <2>4 DEF HubInv
<1>16. ASSUME NEW s \in Sessions, Page(s) PROVE HubInv'
  <2>1. /\ next \in Ids /\ next' = next + 1 /\ slot[s].state = "none"
        /\ chat[next] = "none" /\ toCaller[next] = <<>>
        /\ slot'[s].id = next /\ slot'[s].state = "Pending"
        /\ \A r \in Sessions : r # s => slot'[r] = slot[r]
      BY <1>0, <1>a, <1>b, <1>16 DEF Page, Occupied, NumbersAreFresh
  <2>2. /\ pos'[s] = "waiting" /\ cur'[s] = next
        /\ \A r \in Sessions : r # s => pos'[r] = pos[r] /\ cur'[r] = cur[r]
      BY <1>a, <1>16 DEF Page
  <2>3. chat' = chat /\ toCaller' = toCaller
      BY <1>16 DEF Page, ends, channels
  <2>4. NumbersAreFresh'
    <3>1. ASSUME NEW k \in Ids, k >= next' PROVE chat'[k] = "none" /\ toCaller'[k] = <<>>
      <4>1. k >= next /\ chat[k] = "none" /\ toCaller[k] = <<>> /\ (next' # next => k # next)
          BY <1>0, <1>b, <2>1, <2>2, <2>3, <3>1 DEF NumbersAreFresh
      <4> QED BY <2>1, <2>2, <2>3, <4>1
    <3>2. ASSUME NEW r \in Sessions PROVE (slot[r].id < next /\ cur[r] < next)'
      <4>1. slot[r].id \in Nat /\ cur[r] \in Nat /\ slot[r].id < next /\ cur[r] < next /\ slot[r].id # next
          BY <1>0, <1>a, <1>b DEF NumbersAreFresh
      <4>2. CASE r = s
          BY <1>0, <1>c, <2>1, <2>2, <2>3, <4>1, <4>2
      <4>3. CASE r # s
          BY <1>0, <2>1, <2>2, <2>3, <4>1, <4>3
      <4> QED BY <4>2, <4>3
    <3>3. ASSUME NEW r \in Sessions, NEW p \in Sessions
          PROVE  /\ (slot[r].id = slot[p].id /\ Occupied(r) => r = p)'
                 /\ (cur[r] # 0 /\ cur[r] \in {cur[p], slot[p].id} => r = p)'
      <4>1. /\ slot[r].id < next /\ cur[r] < next /\ slot[p].id < next /\ cur[p] < next
            /\ slot[r].id # next /\ cur[r] # next /\ slot[p].id # next /\ cur[p] # next
            /\ slot[r].id = slot[p].id /\ slot[r].state # "none" => r = p
            /\ cur[r] # 0 /\ cur[r] \in {cur[p], slot[p].id} => r = p
            /\ cur[p] # 0 /\ cur[p] = slot[r].id => r = p
          BY <1>0, <1>b DEF NumbersAreFresh, Occupied
      <4> QED BY <1>0, <1>c, <2>1, <2>2, <2>3, <4>1 DEF Occupied
    <3> QED BY <3>1, <3>2, <3>3 DEF NumbersAreFresh
  <2>5. ASSUME NEW r \in Sessions PROVE PageWaits(r)'
    <3>1. /\ PageWaits(r) /\ AnswerArrives(r) /\ SlotIsHeld(r)
          /\ slot[r].state # "none" => slot[r].id \in Ids
          /\ slot[r].id < next /\ cur[r] < next /\ slot[r].id # next
          /\ r # s /\ slot[r].state # "none" => cur[s] # slot[r].id \/ cur[s] = 0
        BY <1>0, <1>b DEF PagesWait, AnswersArrive, SlotsAreHeld, NumbersAreFresh
    <3>2. CASE r = s
        BY <1>0, <1>c, <2>1, <2>2, <2>3, <3>1, <3>2 DEF PageWaits, SlotIsHeld, CallerHolds
    <3>3. CASE r # s
        BY <1>0, <1>c, <2>1, <2>2, <2>3, <3>1, <3>3 DEF PageWaits, SlotIsHeld, CallerHolds
    <3> QED BY <3>2, <3>3
  <2>6. ASSUME NEW r \in Sessions PROVE AnswerArrives(r)'
    <3>1. /\ PageWaits(r) /\ AnswerArrives(r) /\ SlotIsHeld(r)
          /\ slot[r].state # "none" => slot[r].id \in Ids
          /\ slot[r].id < next /\ cur[r] < next /\ slot[r].id # next
          /\ r # s /\ slot[r].state # "none" => cur[s] # slot[r].id \/ cur[s] = 0
        BY <1>0, <1>b DEF PagesWait, AnswersArrive, SlotsAreHeld, NumbersAreFresh
    <3>2. CASE r = s
        BY <1>0, <1>c, <2>1, <2>2, <2>3, <3>1, <3>2 DEF AnswerArrives, SlotIsHeld,
            CallerHolds, Alive
    <3>3. CASE r # s
        BY <1>0, <1>c, <2>1, <2>2, <2>3, <3>1, <3>3 DEF AnswerArrives, SlotIsHeld,
            CallerHolds, Alive
    <3> QED BY <3>2, <3>3
  <2>7. ASSUME NEW r \in Sessions PROVE SlotIsHeld(r)'
    <3>1. /\ PageWaits(r) /\ AnswerArrives(r) /\ SlotIsHeld(r)
          /\ slot[r].state # "none" => slot[r].id \in Ids
          /\ slot[r].id < next /\ cur[r] < next /\ slot[r].id # next
          /\ r # s /\ slot[r].state # "none" => cur[s] # slot[r].id \/ cur[s] = 0
        BY <1>0, <1>b DEF PagesWait, AnswersArrive, SlotsAreHeld, NumbersAreFresh
    <3>2. CASE r = s
        BY <1>0, <1>c, <2>1, <2>2, <2>3, <3>1, <3>2 DEF SlotIsHeld, CallerHolds, Alive,
            PageWaits, AnswerArrives
    <3>3. CASE r # s
        BY <1>0, <1>c, <2>1, <2>2, <2>3, <3>1, <3>3 DEF SlotIsHeld, CallerHolds, Alive,
            PageWaits, AnswerArrives
    <3> QED BY <3>2, <3>3
  <2> QED BY <2>4, <2>5, <2>6, <2>7 DEF HubInv, PagesWait, AnswersArrive, SlotsAreHeld
<1>17. ASSUME NEW s \in Sessions, PageAnswered(s) PROVE HubInv'
  <2>1. slot' = slot /\ chat' = chat /\ next' = next /\ pos[s] = "waiting" /\ toCaller[cur[s]] # <<>>
      BY <1>17 DEF PageAnswered, hub, ends
  <2>2. /\ \A r \in Sessions : r # s => pos'[r] = pos[r] /\ cur'[r] = cur[r]
        /\ \/ pos'[s] = "chatting" /\ cur'[s] = cur[s]
           \/ pos'[s] = "menu" /\ cur'[s] = 0 /\ Head(toCaller[cur[s]]) # "Answered"
      BY <1>a, <1>17 DEF PageAnswered, Go, Done
  <2>3. \A k \in Ids : k # cur[s] => toCaller'[k] = toCaller[k]
      BY <1>a, <1>17 DEF PageAnswered, Done
  <2>4. \A k \in Ids : toCaller'[k] # <<>> => toCaller[k] # <<>>
      BY <2>1, <2>3
  <2>5. NumbersAreFresh'
    <3>1. ASSUME NEW k \in Ids, k >= next' PROVE chat'[k] = "none" /\ toCaller'[k] = <<>>
      <4>1. k >= next /\ chat[k] = "none" /\ toCaller[k] = <<>> /\ (next' # next => k # next)
          BY <1>0, <1>b, <2>1, <2>2, <2>3, <2>4, <3>1 DEF NumbersAreFresh
      <4> QED BY <2>1, <2>2, <2>3, <2>4, <4>1
    <3>2. ASSUME NEW r \in Sessions PROVE (slot[r].id < next /\ cur[r] < next)'
      <4>1. slot[r].id \in Nat /\ cur[r] \in Nat /\ slot[r].id < next /\ cur[r] < next /\ slot[r].id # next
          BY <1>0, <1>a, <1>b DEF NumbersAreFresh
      <4>2. CASE r = s
          BY <1>0, <1>c, <2>1, <2>2, <2>3, <2>4, <4>1, <4>2
      <4>3. CASE r # s
          BY <1>0, <2>1, <2>2, <2>3, <2>4, <4>1, <4>3
      <4> QED BY <4>2, <4>3
    <3>3. ASSUME NEW r \in Sessions, NEW p \in Sessions
          PROVE  /\ (slot[r].id = slot[p].id /\ Occupied(r) => r = p)'
                 /\ (cur[r] # 0 /\ cur[r] \in {cur[p], slot[p].id} => r = p)'
      <4>1. /\ slot[r].id < next /\ cur[r] < next /\ slot[p].id < next /\ cur[p] < next
            /\ slot[r].id # next /\ cur[r] # next /\ slot[p].id # next /\ cur[p] # next
            /\ slot[r].id = slot[p].id /\ slot[r].state # "none" => r = p
            /\ cur[r] # 0 /\ cur[r] \in {cur[p], slot[p].id} => r = p
            /\ cur[p] # 0 /\ cur[p] = slot[r].id => r = p
          BY <1>0, <1>b DEF NumbersAreFresh, Occupied
      <4> QED BY <1>0, <1>c, <2>1, <2>2, <2>3, <2>4, <4>1 DEF Occupied
    <3> QED BY <3>1, <3>2, <3>3 DEF NumbersAreFresh
  <2>6. ASSUME NEW r \in Sessions PROVE PageWaits(r)'
    <3>1. /\ PageWaits(r) /\ AnswerArrives(r) /\ SlotIsHeld(r)
          /\ slot[r].state # "none" => slot[r].id \in Ids
          /\ slot[r].id < next /\ cur[r] < next /\ slot[r].id # next
          /\ r # s /\ slot[r].state # "none" => cur[s] # slot[r].id \/ cur[s] = 0
        BY <1>0, <1>b DEF PagesWait, AnswersArrive, SlotsAreHeld, NumbersAreFresh
    <3>2. CASE r = s
        BY <1>0, <1>c, <2>1, <2>2, <2>3, <2>4, <3>1, <3>2 DEF PageWaits, SlotIsHeld,
            CallerHolds
    <3>3. CASE r # s
        BY <1>0, <1>c, <2>1, <2>2, <2>3, <2>4, <3>1, <3>3 DEF PageWaits, SlotIsHeld,
            CallerHolds
    <3> QED BY <3>2, <3>3
  <2>7. ASSUME NEW r \in Sessions PROVE AnswerArrives(r)'
    <3>1. /\ PageWaits(r) /\ AnswerArrives(r) /\ SlotIsHeld(r)
          /\ slot[r].state # "none" => slot[r].id \in Ids
          /\ slot[r].id < next /\ cur[r] < next /\ slot[r].id # next
          /\ r # s /\ slot[r].state # "none" => cur[s] # slot[r].id \/ cur[s] = 0
        BY <1>0, <1>b DEF PagesWait, AnswersArrive, SlotsAreHeld, NumbersAreFresh
    <3>2. CASE r = s
        BY <1>0, <1>c, <2>1, <2>2, <2>3, <2>4, <3>1, <3>2 DEF AnswerArrives, SlotIsHeld,
            CallerHolds, Alive
    <3>3. CASE r # s
        BY <1>0, <1>c, <2>1, <2>2, <2>3, <2>4, <3>1, <3>3 DEF AnswerArrives, SlotIsHeld,
            CallerHolds, Alive
    <3> QED BY <3>2, <3>3
  <2>8. ASSUME NEW r \in Sessions PROVE SlotIsHeld(r)'
    <3>1. /\ PageWaits(r) /\ AnswerArrives(r) /\ SlotIsHeld(r)
          /\ slot[r].state # "none" => slot[r].id \in Ids
          /\ slot[r].id < next /\ cur[r] < next /\ slot[r].id # next
          /\ r # s /\ slot[r].state # "none" => cur[s] # slot[r].id \/ cur[s] = 0
        BY <1>0, <1>b DEF PagesWait, AnswersArrive, SlotsAreHeld, NumbersAreFresh
    <3>2. CASE r = s
        BY <1>0, <1>c, <2>1, <2>2, <2>3, <2>4, <3>1, <3>2 DEF SlotIsHeld, CallerHolds,
            Alive, PageWaits, AnswerArrives
    <3>3. CASE r # s
        BY <1>0, <1>c, <2>1, <2>2, <2>3, <2>4, <3>1, <3>3 DEF SlotIsHeld, CallerHolds,
            Alive, PageWaits, AnswerArrives
    <3> QED BY <3>2, <3>3
  <2> QED BY <2>5, <2>6, <2>7, <2>8 DEF HubInv, PagesWait, AnswersArrive, SlotsAreHeld
<1>18. ASSUME NEW s \in Sessions, PageDropped(s) PROVE HubInv'
  <2>1. NumbersAreFresh'
      BY <1>0, <1>a, <1>b, <1>c, <1>18 DEF PageDropped, Disconnected, Done, Occupied,
          NumbersAreFresh, PagesWait, PageWaits, Contains, hub, ends, channels, callers
  <2>2. PagesWait'
      BY <1>0, <1>a, <1>b, <1>c, <1>18 DEF PageDropped, Disconnected, Done,
          NumbersAreFresh, PagesWait, PageWaits, Contains, hub, ends, channels, callers,
              SlotsAreHeld, SlotIsHeld, Alive, CallerHolds
  <2>3. AnswersArrive'
      BY <1>0, <1>a, <1>b, <1>c, <1>18 DEF PageDropped, Disconnected, Done,
          NumbersAreFresh, PagesWait, PageWaits, AnswersArrive, AnswerArrives, Contains,
              hub, ends, channels, callers, SlotsAreHeld, SlotIsHeld, Alive, CallerHolds
  <2>4. SlotsAreHeld'
      BY <1>0, <1>a, <1>b, <1>c, <1>18 DEF PageDropped, Disconnected, Done, CallerHolds,
          Alive, NumbersAreFresh, PagesWait, PageWaits, SlotsAreHeld, SlotIsHeld, Contains,
              hub, ends, channels, callers, AnswersArrive, AnswerArrives
  <2> QED BY <2>1, <2>2, <2>3, <2>4 DEF HubInv
<1>19. ASSUME NEW s \in Sessions, PageTimesOut(s) PROVE HubInv'
  <2>1. NumbersAreFresh'
      BY <1>0, <1>a, <1>b, <1>c, <1>19 DEF PageTimesOut, Go, Occupied, NumbersAreFresh,
          PagesWait, PageWaits, Contains, hub, ends, channels, callers
  <2>2. PagesWait'
      BY <1>0, <1>a, <1>b, <1>c, <1>19 DEF PageTimesOut, Go, NumbersAreFresh, PagesWait,
          PageWaits, Contains, hub, ends, channels, callers, SlotsAreHeld, SlotIsHeld,
              Alive, CallerHolds
  <2>3. AnswersArrive'
      BY <1>0, <1>a, <1>b, <1>c, <1>19 DEF PageTimesOut, Go, NumbersAreFresh, PagesWait,
          PageWaits, AnswersArrive, AnswerArrives, Contains, hub, ends, channels, callers,
              SlotsAreHeld, SlotIsHeld, Alive, CallerHolds
  <2>4. SlotsAreHeld'
      BY <1>0, <1>a, <1>b, <1>c, <1>19 DEF PageTimesOut, Go, CallerHolds, Alive,
          NumbersAreFresh, PagesWait, PageWaits, SlotsAreHeld, SlotIsHeld, Contains, hub,
              ends, channels, callers, AnswersArrive, AnswerArrives
  <2> QED BY <2>1, <2>2, <2>3, <2>4 DEF HubInv
<1>20. ASSUME NEW s \in Sessions, Withdraw(s) PROVE HubInv'
  <2>1. NumbersAreFresh'
      BY <1>0, <1>a, <1>b, <1>c, <1>20 DEF Withdraw, RemoveSlot, Done, Occupied,
          NumbersAreFresh, PagesWait, PageWaits, Contains, hub, ends, channels, callers
  <2>2. PagesWait'
      BY <1>0, <1>a, <1>b, <1>c, <1>20 DEF Withdraw, RemoveSlot, Done, NumbersAreFresh,
          PagesWait, PageWaits, Contains, hub, ends, channels, callers, SlotsAreHeld,
              SlotIsHeld, Alive, CallerHolds
  <2>3. AnswersArrive'
      BY <1>0, <1>a, <1>b, <1>c, <1>20 DEF Withdraw, RemoveSlot, Done, NumbersAreFresh,
          PagesWait, PageWaits, AnswersArrive, AnswerArrives, Contains, hub, ends,
              channels, callers, SlotsAreHeld, SlotIsHeld, Alive, CallerHolds
  <2>4. SlotsAreHeld'
      BY <1>0, <1>a, <1>b, <1>c, <1>20 DEF Withdraw, RemoveSlot, Done, CallerHolds, Alive,
          NumbersAreFresh, PagesWait, PageWaits, SlotsAreHeld, SlotIsHeld, Contains, hub,
              ends, channels, callers, AnswersArrive, AnswerArrives
  <2> QED BY <2>1, <2>2, <2>3, <2>4 DEF HubInv
<1>21. ASSUME NEW s \in Sessions, Prompt(s) PROVE HubInv'
  <2>1. NumbersAreFresh'
      BY <1>0, <1>a, <1>b, <1>c, <1>21 DEF Prompt, Occupied, NumbersAreFresh, PagesWait,
          PageWaits, Contains, hub, ends, channels, callers
  <2>2. PagesWait'
      BY <1>0, <1>a, <1>b, <1>c, <1>21 DEF Prompt, NumbersAreFresh, PagesWait, PageWaits,
          Contains, hub, ends, channels, callers, SlotsAreHeld, SlotIsHeld, Alive,
              CallerHolds
  <2>3. AnswersArrive'
      BY <1>0, <1>a, <1>b, <1>c, <1>21 DEF Prompt, NumbersAreFresh, PagesWait, PageWaits,
          AnswersArrive, AnswerArrives, Contains, hub, ends, channels, callers,
              SlotsAreHeld, SlotIsHeld, Alive, CallerHolds
  <2>4. SlotsAreHeld'
      BY <1>0, <1>a, <1>b, <1>c, <1>21 DEF Prompt, CallerHolds, Alive, NumbersAreFresh,
          PagesWait, PageWaits, SlotsAreHeld, SlotIsHeld, Contains, hub, ends, channels,
              callers, AnswersArrive, AnswerArrives
  <2> QED BY <2>1, <2>2, <2>3, <2>4 DEF HubInv
<1>22. ASSUME NEW s \in Sessions, DeclineInvitation(s) PROVE HubInv'
  <2>1. NumbersAreFresh'
      BY <1>0, <1>a, <1>b, <1>c, <1>22 DEF DeclineInvitation, InvitedTo, Done, Occupied,
          NumbersAreFresh, PagesWait, PageWaits, Contains, hub, ends, channels, callers
  <2>2. PagesWait'
      BY <1>0, <1>a, <1>b, <1>c, <1>22 DEF DeclineInvitation, InvitedTo, Done,
          NumbersAreFresh, PagesWait, PageWaits, Contains, hub, ends, channels, callers,
              SlotsAreHeld, SlotIsHeld, Alive, CallerHolds
  <2>3. AnswersArrive'
      BY <1>0, <1>a, <1>b, <1>c, <1>22 DEF DeclineInvitation, InvitedTo, Done,
          NumbersAreFresh, PagesWait, PageWaits, AnswersArrive, AnswerArrives, Contains,
              hub, ends, channels, callers, SlotsAreHeld, SlotIsHeld, Alive, CallerHolds
  <2>4. SlotsAreHeld'
      BY <1>0, <1>a, <1>b, <1>c, <1>22 DEF DeclineInvitation, InvitedTo, Done, CallerHolds,
          Alive, NumbersAreFresh, PagesWait, PageWaits, SlotsAreHeld, SlotIsHeld, Contains,
              hub, ends, channels, callers, AnswersArrive, AnswerArrives
  <2> QED BY <2>1, <2>2, <2>3, <2>4 DEF HubInv
<1>23. ASSUME NEW s \in Sessions, Authorize(s) PROVE HubInv'
  <2>1. NumbersAreFresh'
      BY <1>0, <1>a, <1>b, <1>c, <1>23 DEF Authorize, InvitedTo, Go, Occupied,
          NumbersAreFresh, PagesWait, PageWaits, Contains, hub, ends, channels, callers
  <2>2. PagesWait'
      BY <1>0, <1>a, <1>b, <1>c, <1>23 DEF Authorize, InvitedTo, Go, NumbersAreFresh,
          PagesWait, PageWaits, Contains, hub, ends, channels, callers, SlotsAreHeld,
              SlotIsHeld, Alive, CallerHolds
  <2>3. AnswersArrive'
      BY <1>0, <1>a, <1>b, <1>c, <1>23 DEF Authorize, InvitedTo, Go, NumbersAreFresh,
          PagesWait, PageWaits, AnswersArrive, AnswerArrives, Contains, hub, ends,
              channels, callers, SlotsAreHeld, SlotIsHeld, Alive, CallerHolds
  <2>4. SlotsAreHeld'
      BY <1>0, <1>a, <1>b, <1>c, <1>23 DEF Authorize, InvitedTo, Go, CallerHolds, Alive,
          NumbersAreFresh, PagesWait, PageWaits, SlotsAreHeld, SlotIsHeld, Contains, hub,
              ends, channels, callers, AnswersArrive, AnswerArrives
  <2> QED BY <2>1, <2>2, <2>3, <2>4 DEF HubInv
<1>24. ASSUME NEW s \in Sessions, AcceptInvitation(s) PROVE HubInv'
  <2>1. pos[s] = "authorized" /\ next' = next /\ chat' = chat
      BY <1>24 DEF AcceptInvitation, ends
  <2>2. CASE InvitedTo(s, cur[s])
    <3>1. /\ slot[s].id = cur[s] /\ slot[s].state = "Invited"
          /\ \A r \in Sessions : r # s => slot'[r] = slot[r]
        BY <2>2, <1>a, <1>24 DEF AcceptInvitation, InvitedTo, Contains
    <3>2. slot'[s].id = slot[s].id /\ slot'[s].state = "Chatting"
      <4>1. slot[s] \in [id : Ids, state : PageState, owner : Owners \cup {Console, None}]
          BY <3>1, <1>0, <1>a, <1>c, SlotIs DEF Slots
      <4>2. slot'[s] = [slot[s] EXCEPT !.state = "Chatting"]
          BY <2>2, <1>a, <1>24 DEF AcceptInvitation
      <4> QED BY <4>1, <4>2
    <3>3. /\ pos'[s] = "chatting" /\ cur' = cur /\ toCaller' = toCaller
          /\ \A r \in Sessions : r # s => pos'[r] = pos[r]
        BY <2>2, <1>a, <1>24 DEF AcceptInvitation, Go
    <3>4. NumbersAreFresh'
      <4>1. ASSUME NEW k \in Ids, k >= next' PROVE chat'[k] = "none" /\ toCaller'[k] = <<>>
        <5>1. k >= next /\ chat[k] = "none" /\ toCaller[k] = <<>> /\ (next' # next => k # next)
            BY <1>0, <1>b, <2>1, <3>1, <3>2, <3>3, <4>1 DEF NumbersAreFresh
        <5> QED BY <2>1, <3>1, <3>2, <3>3, <5>1
      <4>2. ASSUME NEW r \in Sessions PROVE (slot[r].id < next /\ cur[r] < next)'
        <5>1. slot[r].id \in Nat /\ cur[r] \in Nat /\ slot[r].id < next /\ cur[r] < next /\ slot[r].id # next
            BY <1>0, <1>a, <1>b DEF NumbersAreFresh
        <5>2. CASE r = s
            BY <1>0, <1>c, <2>1, <3>1, <3>2, <3>3, <5>1, <5>2
        <5>3. CASE r # s
            BY <1>0, <2>1, <3>1, <3>2, <3>3, <5>1, <5>3
        <5> QED BY <5>2, <5>3
      <4>3. ASSUME NEW r \in Sessions, NEW p \in Sessions
            PROVE  /\ (slot[r].id = slot[p].id /\ Occupied(r) => r = p)'
                   /\ (cur[r] # 0 /\ cur[r] \in {cur[p], slot[p].id} => r = p)'
        <5>1. /\ slot[r].id < next /\ cur[r] < next /\ slot[p].id < next /\ cur[p] < next
              /\ slot[r].id # next /\ cur[r] # next /\ slot[p].id # next /\ cur[p] # next
              /\ slot[r].id = slot[p].id /\ slot[r].state # "none" => r = p
              /\ cur[r] # 0 /\ cur[r] \in {cur[p], slot[p].id} => r = p
              /\ cur[p] # 0 /\ cur[p] = slot[r].id => r = p
            BY <1>0, <1>b DEF NumbersAreFresh, Occupied
        <5> QED BY <1>0, <1>c, <2>1, <3>1, <3>2, <3>3, <5>1 DEF Occupied
      <4> QED BY <4>1, <4>2, <4>3 DEF NumbersAreFresh
    <3>5. ASSUME NEW r \in Sessions PROVE PageWaits(r)'
      <4>1. /\ PageWaits(r) /\ AnswerArrives(r) /\ SlotIsHeld(r)
            /\ slot[r].state # "none" => slot[r].id \in Ids
            /\ slot[r].id < next /\ cur[r] < next /\ slot[r].id # next
            /\ r # s /\ slot[r].state # "none" => cur[s] # slot[r].id \/ cur[s] = 0
          BY <1>0, <1>b DEF PagesWait, AnswersArrive, SlotsAreHeld, NumbersAreFresh
      <4>2. CASE r = s
          BY <1>0, <1>c, <2>1, <3>1, <3>2, <3>3, <4>1, <4>2 DEF PageWaits, SlotIsHeld,
              CallerHolds
      <4>3. CASE r # s
          BY <1>0, <1>c, <2>1, <3>1, <3>2, <3>3, <4>1, <4>3 DEF PageWaits, SlotIsHeld,
              CallerHolds
      <4> QED BY <4>2, <4>3
    <3>6. ASSUME NEW r \in Sessions PROVE AnswerArrives(r)'
      <4>1. /\ PageWaits(r) /\ AnswerArrives(r) /\ SlotIsHeld(r)
            /\ slot[r].state # "none" => slot[r].id \in Ids
            /\ slot[r].id < next /\ cur[r] < next /\ slot[r].id # next
            /\ r # s /\ slot[r].state # "none" => cur[s] # slot[r].id \/ cur[s] = 0
          BY <1>0, <1>b DEF PagesWait, AnswersArrive, SlotsAreHeld, NumbersAreFresh
      <4>2. CASE r = s
          BY <1>0, <1>c, <2>1, <3>1, <3>2, <3>3, <4>1, <4>2 DEF AnswerArrives, SlotIsHeld,
              CallerHolds, Alive
      <4>3. CASE r # s
          BY <1>0, <1>c, <2>1, <3>1, <3>2, <3>3, <4>1, <4>3 DEF AnswerArrives, SlotIsHeld,
              CallerHolds, Alive
      <4> QED BY <4>2, <4>3
    <3>7. ASSUME NEW r \in Sessions PROVE SlotIsHeld(r)'
      <4>1. /\ PageWaits(r) /\ AnswerArrives(r) /\ SlotIsHeld(r)
            /\ slot[r].state # "none" => slot[r].id \in Ids
            /\ slot[r].id < next /\ cur[r] < next /\ slot[r].id # next
            /\ r # s /\ slot[r].state # "none" => cur[s] # slot[r].id \/ cur[s] = 0
          BY <1>0, <1>b DEF PagesWait, AnswersArrive, SlotsAreHeld, NumbersAreFresh
      <4>2. CASE r = s
          BY <1>0, <1>c, <2>1, <3>1, <3>2, <3>3, <4>1, <4>2 DEF SlotIsHeld, CallerHolds,
              Alive, PageWaits, AnswerArrives
      <4>3. CASE r # s
          BY <1>0, <1>c, <2>1, <3>1, <3>2, <3>3, <4>1, <4>3 DEF SlotIsHeld, CallerHolds,
              Alive, PageWaits, AnswerArrives
      <4> QED BY <4>2, <4>3
    <3> QED BY <3>4, <3>5, <3>6, <3>7 DEF HubInv, PagesWait, AnswersArrive, SlotsAreHeld
  <2>3. CASE ~InvitedTo(s, cur[s])
    <3>1. slot' = slot /\ pos'[s] = "menu" /\ cur'[s] = 0
        BY <2>3, <1>a, <1>24 DEF AcceptInvitation, Done
    <3>2. /\ \A r \in Sessions : r # s => pos'[r] = pos[r] /\ cur'[r] = cur[r]
          /\ \A k \in Ids : toCaller'[k] = IF k = cur[s] THEN <<>> ELSE toCaller[k]
        BY <2>3, <1>a, <1>24 DEF AcceptInvitation, Done
    <3>3. NumbersAreFresh'
      <4>1. ASSUME NEW k \in Ids, k >= next' PROVE chat'[k] = "none" /\ toCaller'[k] = <<>>
        <5>1. k >= next /\ chat[k] = "none" /\ toCaller[k] = <<>> /\ (next' # next => k # next)
            BY <1>0, <1>b, <2>1, <3>1, <3>2, <4>1 DEF NumbersAreFresh
        <5> QED BY <2>1, <3>1, <3>2, <5>1
      <4>2. ASSUME NEW r \in Sessions PROVE (slot[r].id < next /\ cur[r] < next)'
        <5>1. slot[r].id \in Nat /\ cur[r] \in Nat /\ slot[r].id < next /\ cur[r] < next /\ slot[r].id # next
            BY <1>0, <1>a, <1>b DEF NumbersAreFresh
        <5>2. CASE r = s
            BY <1>0, <1>c, <2>1, <3>1, <3>2, <5>1, <5>2
        <5>3. CASE r # s
            BY <1>0, <2>1, <3>1, <3>2, <5>1, <5>3
        <5> QED BY <5>2, <5>3
      <4>3. ASSUME NEW r \in Sessions, NEW p \in Sessions
            PROVE  /\ (slot[r].id = slot[p].id /\ Occupied(r) => r = p)'
                   /\ (cur[r] # 0 /\ cur[r] \in {cur[p], slot[p].id} => r = p)'
        <5>1. /\ slot[r].id < next /\ cur[r] < next /\ slot[p].id < next /\ cur[p] < next
              /\ slot[r].id # next /\ cur[r] # next /\ slot[p].id # next /\ cur[p] # next
              /\ slot[r].id = slot[p].id /\ slot[r].state # "none" => r = p
              /\ cur[r] # 0 /\ cur[r] \in {cur[p], slot[p].id} => r = p
              /\ cur[p] # 0 /\ cur[p] = slot[r].id => r = p
            BY <1>0, <1>b DEF NumbersAreFresh, Occupied
        <5> QED BY <1>0, <1>c, <2>1, <3>1, <3>2, <5>1 DEF Occupied
      <4> QED BY <4>1, <4>2, <4>3 DEF NumbersAreFresh
    <3>4. ASSUME NEW r \in Sessions PROVE PageWaits(r)'
      <4>1. /\ PageWaits(r) /\ AnswerArrives(r) /\ SlotIsHeld(r)
            /\ slot[r].state # "none" => slot[r].id \in Ids
            /\ slot[r].id < next /\ cur[r] < next /\ slot[r].id # next
            /\ r # s /\ slot[r].state # "none" => cur[s] # slot[r].id \/ cur[s] = 0
          BY <1>0, <1>b DEF PagesWait, AnswersArrive, SlotsAreHeld, NumbersAreFresh
      <4>2. CASE r = s
          BY <1>0, <1>c, <2>1, <3>1, <3>2, <4>1, <4>2 DEF PageWaits, SlotIsHeld, CallerHolds
      <4>3. CASE r # s
          BY <1>0, <1>c, <2>1, <3>1, <3>2, <4>1, <4>3 DEF PageWaits, SlotIsHeld, CallerHolds
      <4> QED BY <4>2, <4>3
    <3>5. ASSUME NEW r \in Sessions PROVE AnswerArrives(r)'
      <4>1. /\ PageWaits(r) /\ AnswerArrives(r) /\ SlotIsHeld(r)
            /\ slot[r].state # "none" => slot[r].id \in Ids
            /\ slot[r].id < next /\ cur[r] < next /\ slot[r].id # next
            /\ r # s /\ slot[r].state # "none" => cur[s] # slot[r].id \/ cur[s] = 0
          BY <1>0, <1>b DEF PagesWait, AnswersArrive, SlotsAreHeld, NumbersAreFresh
      <4>2. CASE r = s
          BY <1>0, <1>c, <2>1, <3>1, <3>2, <4>1, <4>2 DEF AnswerArrives, SlotIsHeld,
              CallerHolds, Alive
      <4>3. CASE r # s
          BY <1>0, <1>c, <2>1, <3>1, <3>2, <4>1, <4>3 DEF AnswerArrives, SlotIsHeld,
              CallerHolds, Alive
      <4> QED BY <4>2, <4>3
    <3>6. ASSUME NEW r \in Sessions PROVE SlotIsHeld(r)'
      <4>1. /\ PageWaits(r) /\ AnswerArrives(r) /\ SlotIsHeld(r)
            /\ slot[r].state # "none" => slot[r].id \in Ids
            /\ slot[r].id < next /\ cur[r] < next /\ slot[r].id # next
            /\ r # s /\ slot[r].state # "none" => cur[s] # slot[r].id \/ cur[s] = 0
          BY <1>0, <1>b DEF PagesWait, AnswersArrive, SlotsAreHeld, NumbersAreFresh
      <4>2. CASE r = s
          BY <1>0, <1>c, <2>1, <3>1, <3>2, <4>1, <4>2 DEF SlotIsHeld, CallerHolds, Alive,
              PageWaits, AnswerArrives
      <4>3. CASE r # s
          BY <1>0, <1>c, <2>1, <3>1, <3>2, <4>1, <4>3 DEF SlotIsHeld, CallerHolds, Alive,
              PageWaits, AnswerArrives
      <4> QED BY <4>2, <4>3
    <3> QED BY <3>3, <3>4, <3>5, <3>6 DEF HubInv, PagesWait, AnswersArrive, SlotsAreHeld
  <2> QED BY <2>2, <2>3
<1>25. ASSUME NEW s \in Sessions, InvitationRefused(s) PROVE HubInv'
  <2>1. NumbersAreFresh'
      BY <1>0, <1>a, <1>b, <1>c, <1>25 DEF InvitationRefused, InvitedTo, Done, Occupied,
          NumbersAreFresh, PagesWait, PageWaits, Contains, hub, ends, channels, callers
  <2>2. PagesWait'
      BY <1>0, <1>a, <1>b, <1>c, <1>25 DEF InvitationRefused, InvitedTo, Done,
          NumbersAreFresh, PagesWait, PageWaits, Contains, hub, ends, channels, callers,
              SlotsAreHeld, SlotIsHeld, Alive, CallerHolds
  <2>3. AnswersArrive'
      BY <1>0, <1>a, <1>b, <1>c, <1>25 DEF InvitationRefused, InvitedTo, Done,
          NumbersAreFresh, PagesWait, PageWaits, AnswersArrive, AnswerArrives, Contains,
              hub, ends, channels, callers, SlotsAreHeld, SlotIsHeld, Alive, CallerHolds
  <2>4. SlotsAreHeld'
      BY <1>0, <1>a, <1>b, <1>c, <1>25 DEF InvitationRefused, InvitedTo, Done, CallerHolds,
          Alive, NumbersAreFresh, PagesWait, PageWaits, SlotsAreHeld, SlotIsHeld, Contains,
              hub, ends, channels, callers, AnswersArrive, AnswerArrives
  <2> QED BY <2>1, <2>2, <2>3, <2>4 DEF HubInv
<1>26. ASSUME NEW s \in Sessions, CallerReceives(s) PROVE HubInv'
  <2>1. NumbersAreFresh'
      BY <1>0, <1>a, <1>b, <1>c, <1>26 DEF CallerReceives, Occupied, NumbersAreFresh,
          PagesWait, PageWaits, Contains, hub, ends, channels, callers
  <2>2. PagesWait'
      BY <1>0, <1>a, <1>b, <1>c, <1>26 DEF CallerReceives, NumbersAreFresh, PagesWait,
          PageWaits, Contains, hub, ends, channels, callers, SlotsAreHeld, SlotIsHeld,
              Alive, CallerHolds
  <2>3. AnswersArrive'
      BY <1>0, <1>a, <1>b, <1>c, <1>26 DEF CallerReceives, NumbersAreFresh, PagesWait,
          PageWaits, AnswersArrive, AnswerArrives, Contains, hub, ends, channels, callers,
              SlotsAreHeld, SlotIsHeld, Alive, CallerHolds
  <2>4. SlotsAreHeld'
      BY <1>0, <1>a, <1>b, <1>c, <1>26 DEF CallerReceives, CallerHolds, Alive,
          NumbersAreFresh, PagesWait, PageWaits, SlotsAreHeld, SlotIsHeld, Contains, hub,
              ends, channels, callers, AnswersArrive, AnswerArrives
  <2> QED BY <2>1, <2>2, <2>3, <2>4 DEF HubInv
<1>27. ASSUME NEW s \in Sessions, CallerNotices(s) PROVE HubInv'
  <2>1. NumbersAreFresh'
      BY <1>0, <1>a, <1>b, <1>c, <1>27 DEF CallerNotices, LeaveChat, Go, Occupied,
          NumbersAreFresh, PagesWait, PageWaits, Contains, hub, ends, channels, callers
  <2>2. PagesWait'
      BY <1>0, <1>a, <1>b, <1>c, <1>27 DEF CallerNotices, LeaveChat, Go, NumbersAreFresh,
          PagesWait, PageWaits, Contains, hub, ends, channels, callers, SlotsAreHeld,
              SlotIsHeld, Alive, CallerHolds
  <2>3. AnswersArrive'
      BY <1>0, <1>a, <1>b, <1>c, <1>27 DEF CallerNotices, LeaveChat, Go, NumbersAreFresh,
          PagesWait, PageWaits, AnswersArrive, AnswerArrives, Contains, hub, ends,
              channels, callers, SlotsAreHeld, SlotIsHeld, Alive, CallerHolds
  <2>4. SlotsAreHeld'
      BY <1>0, <1>a, <1>b, <1>c, <1>27 DEF CallerNotices, LeaveChat, Go, CallerHolds,
          Alive, NumbersAreFresh, PagesWait, PageWaits, SlotsAreHeld, SlotIsHeld, Contains,
              hub, ends, channels, callers, AnswersArrive, AnswerArrives
  <2> QED BY <2>1, <2>2, <2>3, <2>4 DEF HubInv
<1>28. ASSUME NEW s \in Sessions, CallerLeaves(s) PROVE HubInv'
  <2>1. NumbersAreFresh'
      BY <1>0, <1>a, <1>b, <1>c, <1>28 DEF CallerLeaves, LeaveChat, Go, Occupied,
          NumbersAreFresh, PagesWait, PageWaits, Contains, hub, ends, channels, callers
  <2>2. PagesWait'
      BY <1>0, <1>a, <1>b, <1>c, <1>28 DEF CallerLeaves, LeaveChat, Go, NumbersAreFresh,
          PagesWait, PageWaits, Contains, hub, ends, channels, callers, SlotsAreHeld,
              SlotIsHeld, Alive, CallerHolds
  <2>3. AnswersArrive'
      BY <1>0, <1>a, <1>b, <1>c, <1>28 DEF CallerLeaves, LeaveChat, Go, NumbersAreFresh,
          PagesWait, PageWaits, AnswersArrive, AnswerArrives, Contains, hub, ends,
              channels, callers, SlotsAreHeld, SlotIsHeld, Alive, CallerHolds
  <2>4. SlotsAreHeld'
      BY <1>0, <1>a, <1>b, <1>c, <1>28 DEF CallerLeaves, LeaveChat, Go, CallerHolds, Alive,
          NumbersAreFresh, PagesWait, PageWaits, SlotsAreHeld, SlotIsHeld, Contains, hub,
              ends, channels, callers, AnswersArrive, AnswerArrives
  <2> QED BY <2>1, <2>2, <2>3, <2>4 DEF HubInv
<1>29. ASSUME NEW s \in Sessions, CallerSends(s) PROVE HubInv'
  <2>1. NumbersAreFresh'
      BY <1>0, <1>a, <1>b, <1>c, <1>29 DEF CallerSends, LeaveChat, Go, Occupied,
          NumbersAreFresh, PagesWait, PageWaits, Contains, hub, ends, channels, callers
  <2>2. PagesWait'
      BY <1>0, <1>a, <1>b, <1>c, <1>29 DEF CallerSends, LeaveChat, Go, NumbersAreFresh,
          PagesWait, PageWaits, Contains, hub, ends, channels, callers, SlotsAreHeld,
              SlotIsHeld, Alive, CallerHolds
  <2>3. AnswersArrive'
      BY <1>0, <1>a, <1>b, <1>c, <1>29 DEF CallerSends, LeaveChat, Go, NumbersAreFresh,
          PagesWait, PageWaits, AnswersArrive, AnswerArrives, Contains, hub, ends,
              channels, callers, SlotsAreHeld, SlotIsHeld, Alive, CallerHolds
  <2>4. SlotsAreHeld'
      BY <1>0, <1>a, <1>b, <1>c, <1>29 DEF CallerSends, LeaveChat, Go, CallerHolds, Alive,
          NumbersAreFresh, PagesWait, PageWaits, SlotsAreHeld, SlotIsHeld, Contains, hub,
              ends, channels, callers, AnswersArrive, AnswerArrives
  <2> QED BY <2>1, <2>2, <2>3, <2>4 DEF HubInv
<1>30. ASSUME NEW s \in Sessions, Cancelled(s) PROVE HubInv'
  <2>1. slot' = slot /\ chat' = chat /\ next' = next /\ toCaller' = toCaller /\ cur' = cur
      BY <1>30 DEF Cancelled, LeaveChat, Go, hub, ends, channels
  <2>2. /\ pos[s] \in {"menu", "deciding", "chatting"} /\ pos'[s] = "cancelled"
        /\ \A r \in Sessions : r # s => pos'[r] = pos[r]
      BY <1>a, <1>30 DEF Cancelled, LeaveChat, Go
  <2>3. NumbersAreFresh'
    <3>1. ASSUME NEW k \in Ids, k >= next' PROVE chat'[k] = "none" /\ toCaller'[k] = <<>>
      <4>1. k >= next /\ chat[k] = "none" /\ toCaller[k] = <<>> /\ (next' # next => k # next)
          BY <1>0, <1>b, <2>1, <2>2, <3>1 DEF NumbersAreFresh
      <4> QED BY <2>1, <2>2, <4>1
    <3>2. ASSUME NEW r \in Sessions PROVE (slot[r].id < next /\ cur[r] < next)'
      <4>1. slot[r].id \in Nat /\ cur[r] \in Nat /\ slot[r].id < next /\ cur[r] < next /\ slot[r].id # next
          BY <1>0, <1>a, <1>b DEF NumbersAreFresh
      <4>2. CASE r = s
          BY <1>0, <1>c, <2>1, <2>2, <4>1, <4>2
      <4>3. CASE r # s
          BY <1>0, <2>1, <2>2, <4>1, <4>3
      <4> QED BY <4>2, <4>3
    <3>3. ASSUME NEW r \in Sessions, NEW p \in Sessions
          PROVE  /\ (slot[r].id = slot[p].id /\ Occupied(r) => r = p)'
                 /\ (cur[r] # 0 /\ cur[r] \in {cur[p], slot[p].id} => r = p)'
      <4>1. /\ slot[r].id < next /\ cur[r] < next /\ slot[p].id < next /\ cur[p] < next
            /\ slot[r].id # next /\ cur[r] # next /\ slot[p].id # next /\ cur[p] # next
            /\ slot[r].id = slot[p].id /\ slot[r].state # "none" => r = p
            /\ cur[r] # 0 /\ cur[r] \in {cur[p], slot[p].id} => r = p
            /\ cur[p] # 0 /\ cur[p] = slot[r].id => r = p
          BY <1>0, <1>b DEF NumbersAreFresh, Occupied
      <4> QED BY <1>0, <1>c, <2>1, <2>2, <4>1 DEF Occupied
    <3> QED BY <3>1, <3>2, <3>3 DEF NumbersAreFresh
  <2>4. ASSUME NEW r \in Sessions PROVE PageWaits(r)'
    <3>1. /\ PageWaits(r) /\ AnswerArrives(r) /\ SlotIsHeld(r)
          /\ slot[r].state # "none" => slot[r].id \in Ids
          /\ slot[r].id < next /\ cur[r] < next /\ slot[r].id # next
          /\ r # s /\ slot[r].state # "none" => cur[s] # slot[r].id \/ cur[s] = 0
        BY <1>0, <1>b DEF PagesWait, AnswersArrive, SlotsAreHeld, NumbersAreFresh
    <3>2. CASE r = s
        BY <1>0, <1>c, <2>1, <2>2, <3>1, <3>2 DEF PageWaits, SlotIsHeld, CallerHolds
    <3>3. CASE r # s
        BY <1>0, <1>c, <2>1, <2>2, <3>1, <3>3 DEF PageWaits, SlotIsHeld, CallerHolds
    <3> QED BY <3>2, <3>3
  <2>5. ASSUME NEW r \in Sessions PROVE AnswerArrives(r)'
    <3>1. /\ PageWaits(r) /\ AnswerArrives(r) /\ SlotIsHeld(r)
          /\ slot[r].state # "none" => slot[r].id \in Ids
          /\ slot[r].id < next /\ cur[r] < next /\ slot[r].id # next
          /\ r # s /\ slot[r].state # "none" => cur[s] # slot[r].id \/ cur[s] = 0
        BY <1>0, <1>b DEF PagesWait, AnswersArrive, SlotsAreHeld, NumbersAreFresh
    <3>2. CASE r = s
        BY <1>0, <1>c, <2>1, <2>2, <3>1, <3>2 DEF AnswerArrives, SlotIsHeld, CallerHolds,
            Alive
    <3>3. CASE r # s
        BY <1>0, <1>c, <2>1, <2>2, <3>1, <3>3 DEF AnswerArrives, SlotIsHeld, CallerHolds,
            Alive
    <3> QED BY <3>2, <3>3
  <2>6. ASSUME NEW r \in Sessions PROVE SlotIsHeld(r)'
    <3>1. /\ PageWaits(r) /\ AnswerArrives(r) /\ SlotIsHeld(r)
          /\ slot[r].state # "none" => slot[r].id \in Ids
          /\ slot[r].id < next /\ cur[r] < next /\ slot[r].id # next
          /\ r # s /\ slot[r].state # "none" => cur[s] # slot[r].id \/ cur[s] = 0
        BY <1>0, <1>b DEF PagesWait, AnswersArrive, SlotsAreHeld, NumbersAreFresh
    <3>2. CASE r = s
        BY <1>0, <1>c, <2>1, <2>2, <3>1, <3>2 DEF SlotIsHeld, CallerHolds, Alive,
            PageWaits, AnswerArrives
    <3>3. CASE r # s
        BY <1>0, <1>c, <2>1, <2>2, <3>1, <3>3 DEF SlotIsHeld, CallerHolds, Alive,
            PageWaits, AnswerArrives
    <3> QED BY <3>2, <3>3
  <2> QED BY <2>3, <2>4, <2>5, <2>6 DEF HubInv, PagesWait, AnswersArrive, SlotsAreHeld
<1>31. ASSUME NEW s \in Sessions, CallerGone(s) PROVE HubInv'
  <2>1. NumbersAreFresh'
      BY <1>0, <1>a, <1>b, <1>c, <1>31 DEF CallerGone, RemoveSlot, Done, Occupied,
          NumbersAreFresh, PagesWait, PageWaits, Contains, hub, ends, channels, callers
  <2>2. PagesWait'
      BY <1>0, <1>a, <1>b, <1>c, <1>31 DEF CallerGone, RemoveSlot, Done, NumbersAreFresh,
          PagesWait, PageWaits, Contains, hub, ends, channels, callers, SlotsAreHeld,
              SlotIsHeld, Alive, CallerHolds
  <2>3. AnswersArrive'
      BY <1>0, <1>a, <1>b, <1>c, <1>31 DEF CallerGone, RemoveSlot, Done, NumbersAreFresh,
          PagesWait, PageWaits, AnswersArrive, AnswerArrives, Contains, hub, ends,
              channels, callers, SlotsAreHeld, SlotIsHeld, Alive, CallerHolds
  <2>4. SlotsAreHeld'
      BY <1>0, <1>a, <1>b, <1>c, <1>31 DEF CallerGone, RemoveSlot, Done, CallerHolds,
          Alive, NumbersAreFresh, PagesWait, PageWaits, SlotsAreHeld, SlotIsHeld, Contains,
              hub, ends, channels, callers, AnswersArrive, AnswerArrives
  <2> QED BY <2>1, <2>2, <2>3, <2>4 DEF HubInv
<1>32. ASSUME NEW s \in Sessions, Hangup(s) PROVE HubInv'
  <2>1. NumbersAreFresh'
      BY <1>0, <1>a, <1>b, <1>c, <1>32 DEF Hangup, Go, Occupied, NumbersAreFresh,
          PagesWait, PageWaits, Contains, hub, ends, channels, callers
  <2>2. PagesWait'
      BY <1>0, <1>a, <1>b, <1>c, <1>32 DEF Hangup, Go, NumbersAreFresh, PagesWait,
          PageWaits, Contains, hub, ends, channels, callers, SlotsAreHeld, SlotIsHeld,
              Alive, CallerHolds
  <2>3. AnswersArrive'
      BY <1>0, <1>a, <1>b, <1>c, <1>32 DEF Hangup, Go, NumbersAreFresh, PagesWait,
          PageWaits, AnswersArrive, AnswerArrives, Contains, hub, ends, channels, callers,
              SlotsAreHeld, SlotIsHeld, Alive, CallerHolds
  <2>4. SlotsAreHeld'
      BY <1>0, <1>a, <1>b, <1>c, <1>32 DEF Hangup, Go, CallerHolds, Alive, NumbersAreFresh,
          PagesWait, PageWaits, SlotsAreHeld, SlotIsHeld, Contains, hub, ends, channels,
              callers, AnswersArrive, AnswerArrives
  <2> QED BY <2>1, <2>2, <2>3, <2>4 DEF HubInv
<1>33. ASSUME NEW s \in Sessions, SessionEnded(s) PROVE HubInv'
  <2>1. NumbersAreFresh'
      BY <1>0, <1>a, <1>b, <1>c, <1>33 DEF SessionEnded, Done, Occupied, NumbersAreFresh,
          PagesWait, PageWaits, Contains, hub, ends, channels, callers
  <2>2. PagesWait'
      BY <1>0, <1>a, <1>b, <1>c, <1>33 DEF SessionEnded, Done, NumbersAreFresh, PagesWait,
          PageWaits, Contains, hub, ends, channels, callers, SlotsAreHeld, SlotIsHeld,
              Alive, CallerHolds
  <2>3. AnswersArrive'
      BY <1>0, <1>a, <1>b, <1>c, <1>33 DEF SessionEnded, Done, NumbersAreFresh, PagesWait,
          PageWaits, AnswersArrive, AnswerArrives, Contains, hub, ends, channels, callers,
              SlotsAreHeld, SlotIsHeld, Alive, CallerHolds
  <2>4. SlotsAreHeld'
      BY <1>0, <1>a, <1>b, <1>c, <1>33 DEF SessionEnded, Done, CallerHolds, Alive,
          NumbersAreFresh, PagesWait, PageWaits, SlotsAreHeld, SlotIsHeld, Contains, hub,
              ends, channels, callers, AnswersArrive, AnswerArrives
  <2> QED BY <2>1, <2>2, <2>3, <2>4 DEF HubInv
<1>34. ASSUME NEW s \in Sessions, Release(s) PROVE HubInv'
  <2>1. NumbersAreFresh'
      BY <1>0, <1>a, <1>b, <1>c, <1>34 DEF Release, Go, Occupied, NumbersAreFresh,
          PagesWait, PageWaits, Contains, hub, ends, channels, callers
  <2>2. PagesWait'
      BY <1>0, <1>a, <1>b, <1>c, <1>34 DEF Release, Go, NumbersAreFresh, PagesWait,
          PageWaits, Contains, hub, ends, channels, callers, SlotsAreHeld, SlotIsHeld,
              Alive, CallerHolds
  <2>3. AnswersArrive'
      BY <1>0, <1>a, <1>b, <1>c, <1>34 DEF Release, Go, NumbersAreFresh, PagesWait,
          PageWaits, AnswersArrive, AnswerArrives, Contains, hub, ends, channels, callers,
              SlotsAreHeld, SlotIsHeld, Alive, CallerHolds
  <2>4. SlotsAreHeld'
      BY <1>0, <1>a, <1>b, <1>c, <1>34 DEF Release, Go, CallerHolds, Alive,
          NumbersAreFresh, PagesWait, PageWaits, SlotsAreHeld, SlotIsHeld, Contains, hub,
              ends, channels, callers, AnswersArrive, AnswerArrives
  <2> QED BY <2>1, <2>2, <2>3, <2>4 DEF HubInv
<1>35. CASE Operators
    BY <1>35, <1>1, <1>2, <1>3, <1>4, <1>5, <1>6, <1>7, <1>8, <1>9, <1>10 DEF Operators
<1>36. CASE Streams
    BY <1>36, <1>11, <1>12, <1>13, <1>14, <1>15 DEF Streams, StreamLeaves, StreamNotices
<1>37. ASSUME NEW s \in Sessions, Caller(s) PROVE HubInv'
    BY <1>37, <1>16, <1>17, <1>18, <1>19, <1>20, <1>21, <1>22, <1>23, <1>24, <1>25, <1>26,
        <1>27, <1>28, <1>29, <1>30, <1>31, <1>32, <1>33, <1>34 DEF Caller
<1> QED
    BY <1>35, <1>36, <1>37 DEF Next

-----------------------------------------------------------------------------
\* The invariant holds at first.
LEMMA InitInv == ASSUME HubAssumption, Init PROVE Inv
<1>1. Shape
    BY DEF HubAssumption, Init, Shape, Slots, NoSlot, ChatPlace, CallerPlace
<1>2. CallersHear /\ OperatorsHear
    BY DEF HubAssumption, Init, CallersHear, OperatorsHear
<1>3. HubInv
    BY DEF HubAssumption, Init, HubInv, NumbersAreFresh, PagesWait, PageWaits,
        AnswersArrive,
        AnswerArrives, SlotsAreHeld, SlotIsHeld, NoSlot, Occupied, Ids
<1> QED
    BY <1>1, <1>2, <1>3, TypesAre DEF Inv

\* Every reachable state of the hub is one the invariant describes.
THEOREM HubInvariant == HubAssumption => (Spec => []Inv)
<1> SUFFICES ASSUME HubAssumption PROVE Spec => []Inv
    OBVIOUS
<1>1. Init => Inv
    BY InitInv
<1>2. Inv /\ [Next]_vars => Inv'
  <2> SUFFICES ASSUME Inv, [Next]_vars PROVE Inv'
      OBVIOUS
  <2>1. TypeOK'
      BY TypeStep
  <2>2. CASE Next
      BY <2>1, <2>2, HubStep DEF Inv
  <2>3. CASE UNCHANGED vars
    <3>1. HubInv'
        BY <2>3 DEF Inv, HubInv, vars, hub, ends, channels, callers, NumbersAreFresh,
            PagesWait,
            PageWaits, AnswersArrive, AnswerArrives, SlotsAreHeld, SlotIsHeld, Occupied,
                CallerHolds, Alive
    <3> QED BY <2>1, <3>1 DEF Inv
  <2> QED BY <2>2, <2>3
<1> QED
    BY <1>1, <1>2, PTL DEF Spec

\* No slot is orphaned: whatever ends drop, in whatever order, a page has a caller
\* that waits for it, an invitation has its operator and a chat has both.
THEOREM SlotsAreHeldHolds == HubAssumption => (Spec => [](TypeOK /\ SlotsAreHeld))
<1>1. Inv => TypeOK /\ SlotsAreHeld
    BY DEF Inv, HubInv
<1> QED
    BY <1>1, HubInvariant, PTL

-----------------------------------------------------------------------------

\* Nobody but the invited caller turns an invitation into a chat.
LEMMA ConsentStep == ASSUME HubAssumption, Inv, Next PROVE ConsentIsExact
<1>0. /\ Shape /\ CallersHear
      /\ slot \in [Sessions -> Slots] /\ chat \in [Ids -> ChatPlace]
      /\ pos \in [Sessions -> CallerPlace] /\ cur \in [Sessions -> Ids \cup {0}]
      /\ toCaller \in [Ids -> Seq(Events)]
    BY TypesAre DEF Inv, Shape, CallersHear
<1>a. \A s \in Sessions :
          /\ slot[s].id \in Ids \cup {0} /\ slot[s].state # "none" <=> slot[s].id # 0
          /\ slot[s].state # "none" => slot[s].id \in Ids
    BY <1>0, SlotIs, HubAssumption
<1>b. NumbersAreFresh /\ PagesWait /\ SlotsAreHeld
    BY DEF Inv, HubInv
<1>c. NoSlot.id = 0 /\ NoSlot.state = "none" /\ 0 \notin Ids
    BY HubAssumption DEF NoSlot, Ids, HubAssumption
<1>1. ASSUME NEW a \in BOOLEAN, SetAvailability(a) PROVE ConsentIsExact
    BY <1>0, <1>a, <1>b, <1>c, <1>1 DEF SetAvailability, ConsentIsExact, Contains,
        Occupied, hub, ends, channels, callers
<1>2. ASSUME NEW p \in BOOLEAN, SetPolicy(p) PROVE ConsentIsExact
    BY <1>0, <1>a, <1>b, <1>c, <1>2 DEF SetPolicy, ConsentIsExact, Contains, Occupied, hub,
        ends, channels, callers
<1>3. ASSUME NEW s \in Sessions, RequestDisconnect(s) PROVE ConsentIsExact
    BY <1>0, <1>a, <1>b, <1>c, <1>3 DEF RequestDisconnect, ConsentIsExact, Contains,
        Occupied, hub, ends, channels, callers
<1>4. ASSUME NEW s \in Sessions, Decline(s) PROVE ConsentIsExact
    BY <1>0, <1>a, <1>b, <1>c, <1>4 DEF Decline, ConsentIsExact, Contains, Occupied, hub,
        ends, channels, callers
<1>5. ASSUME NEW s \in Sessions, ConsoleAnswer(s) PROVE ConsentIsExact
    BY <1>0, <1>a, <1>b, <1>c, <1>5 DEF ConsoleAnswer, Answerable, Answer, ConsentIsExact,
        Contains, Occupied, hub, ends, channels, callers
<1>6. ASSUME NEW s \in Sessions, NEW o \in Owners, NEW E \in SUBSET Handoffs,
    AnswerCallerPage(s, o, E) PROVE ConsentIsExact
    BY <1>0, <1>a, <1>b, <1>c, <1>6 DEF AnswerCallerPage, Answerable, Answer, Expire,
        Handoffs, ConsentIsExact, Contains, Occupied, hub, ends, channels, callers
<1>7. ASSUME NEW s \in Sessions, NEW o \in Owners, NEW E \in SUBSET Handoffs,
    InviteOperatorChat(s, o, E) PROVE ConsentIsExact
    BY <1>0, <1>a, <1>b, <1>c, <1>7 DEF InviteOperatorChat, Expire, Handoffs,
        ConsentIsExact, Contains, Occupied, hub, ends, channels, callers
<1>8. ASSUME NEW E \in SUBSET Handoffs, SweepOnly(E) PROVE ConsentIsExact
    BY <1>0, <1>a, <1>b, <1>c, <1>8 DEF SweepOnly, Expire, Handoffs, ConsentIsExact,
        Contains, Occupied, hub, ends, channels, callers
<1>9. ASSUME NEW o \in Owners, Detach(o) PROVE ConsentIsExact
    BY <1>0, <1>a, <1>b, <1>c, <1>9 DEF Detach, Expire, Handoffs, ConsentIsExact, Contains,
        Occupied, hub, ends, channels, callers
<1>10. ASSUME NEW o \in Owners, EndAttachment(o) PROVE ConsentIsExact
    BY <1>0, <1>a, <1>b, <1>c, <1>10 DEF EndAttachment, ConsentIsExact, Contains, Occupied,
        hub, ends, channels, callers
<1>11. ASSUME NEW i \in Ids, Redeem(i) PROVE ConsentIsExact
    BY <1>0, <1>a, <1>b, <1>c, <1>11 DEF Redeem, ConsentIsExact, Contains, Occupied, hub,
        ends, channels, callers
<1>12. ASSUME NEW i \in Ids, CloseChat(i), chat[i] = "stream" PROVE ConsentIsExact
    BY <1>0, <1>a, <1>b, <1>c, <1>12 DEF CloseChat, ConsentIsExact, Contains, Occupied,
        hub, ends, channels, callers
<1>13. ASSUME NEW i \in Ids, OperatorGone(i) PROVE ConsentIsExact
    BY <1>0, <1>a, <1>b, <1>c, <1>13 DEF OperatorGone, ConsentIsExact, Contains, Occupied,
        hub, ends, channels, callers
<1>14. ASSUME NEW i \in Ids, NEW s \in Sessions, OperatorSends(i, s) PROVE ConsentIsExact
    BY <1>0, <1>a, <1>b, <1>c, <1>14 DEF OperatorSends, Speaker, ConsentIsExact, Contains,
        Occupied, hub, ends, channels, callers
<1>15. ASSUME NEW i \in Ids, NEW s \in Sessions, OperatorReads(i, s) PROVE ConsentIsExact
    BY <1>0, <1>a, <1>b, <1>c, <1>15 DEF OperatorReads, Speaker, ConsentIsExact, Contains,
        Occupied, hub, ends, channels, callers
<1>16. ASSUME NEW s \in Sessions, Page(s) PROVE ConsentIsExact
    BY <1>0, <1>a, <1>b, <1>c, <1>16 DEF Page, ConsentIsExact, Contains, Occupied, hub,
        ends, channels, callers
<1>17. ASSUME NEW s \in Sessions, PageAnswered(s) PROVE ConsentIsExact
    BY <1>0, <1>a, <1>b, <1>c, <1>17 DEF PageAnswered, Go, Done, ConsentIsExact, Contains,
        Occupied, hub, ends, channels, callers
<1>18. ASSUME NEW s \in Sessions, PageDropped(s) PROVE ConsentIsExact
    BY <1>0, <1>a, <1>b, <1>c, <1>18 DEF PageDropped, Disconnected, Done, ConsentIsExact,
        Contains, Occupied, hub, ends, channels, callers
<1>19. ASSUME NEW s \in Sessions, PageTimesOut(s) PROVE ConsentIsExact
    BY <1>0, <1>a, <1>b, <1>c, <1>19 DEF PageTimesOut, Go, ConsentIsExact, Contains,
        Occupied, hub, ends, channels, callers
<1>20. ASSUME NEW s \in Sessions, Withdraw(s) PROVE ConsentIsExact
    BY <1>0, <1>a, <1>b, <1>c, <1>20 DEF Withdraw, RemoveSlot, Done, ConsentIsExact,
        Contains, Occupied, hub, ends, channels, callers
<1>21. ASSUME NEW s \in Sessions, Prompt(s) PROVE ConsentIsExact
    BY <1>0, <1>a, <1>b, <1>c, <1>21 DEF Prompt, ConsentIsExact, Contains, Occupied, hub,
        ends, channels, callers
<1>22. ASSUME NEW s \in Sessions, DeclineInvitation(s) PROVE ConsentIsExact
    BY <1>0, <1>a, <1>b, <1>c, <1>22 DEF DeclineInvitation, InvitedTo, Done,
        ConsentIsExact, Contains, Occupied, hub, ends, channels, callers
<1>23. ASSUME NEW s \in Sessions, Authorize(s) PROVE ConsentIsExact
    BY <1>0, <1>a, <1>b, <1>c, <1>23 DEF Authorize, InvitedTo, Go, ConsentIsExact,
        Contains, Occupied, hub, ends, channels, callers
<1>24. ASSUME NEW s \in Sessions, AcceptInvitation(s) PROVE ConsentIsExact
    BY <1>0, <1>a, <1>b, <1>c, <1>24 DEF AcceptInvitation, InvitedTo, Go, Done,
        ConsentIsExact, Contains, Occupied, hub, ends, channels, callers
<1>25. ASSUME NEW s \in Sessions, InvitationRefused(s) PROVE ConsentIsExact
    BY <1>0, <1>a, <1>b, <1>c, <1>25 DEF InvitationRefused, InvitedTo, Done,
        ConsentIsExact, Contains, Occupied, hub, ends, channels, callers
<1>26. ASSUME NEW s \in Sessions, CallerReceives(s) PROVE ConsentIsExact
    BY <1>0, <1>a, <1>b, <1>c, <1>26 DEF CallerReceives, ConsentIsExact, Contains,
        Occupied, hub, ends, channels, callers
<1>27. ASSUME NEW s \in Sessions, CallerNotices(s) PROVE ConsentIsExact
    BY <1>0, <1>a, <1>b, <1>c, <1>27 DEF CallerNotices, LeaveChat, Go, ConsentIsExact,
        Contains, Occupied, hub, ends, channels, callers
<1>28. ASSUME NEW s \in Sessions, CallerLeaves(s) PROVE ConsentIsExact
    BY <1>0, <1>a, <1>b, <1>c, <1>28 DEF CallerLeaves, LeaveChat, Go, ConsentIsExact,
        Contains, Occupied, hub, ends, channels, callers
<1>29. ASSUME NEW s \in Sessions, CallerSends(s) PROVE ConsentIsExact
    BY <1>0, <1>a, <1>b, <1>c, <1>29 DEF CallerSends, LeaveChat, Go, ConsentIsExact,
        Contains, Occupied, hub, ends, channels, callers
<1>30. ASSUME NEW s \in Sessions, Cancelled(s) PROVE ConsentIsExact
    BY <1>0, <1>a, <1>b, <1>c, <1>30 DEF Cancelled, LeaveChat, Go, ConsentIsExact,
        Contains, Occupied, hub, ends, channels, callers
<1>31. ASSUME NEW s \in Sessions, CallerGone(s) PROVE ConsentIsExact
    BY <1>0, <1>a, <1>b, <1>c, <1>31 DEF CallerGone, RemoveSlot, Done, ConsentIsExact,
        Contains, Occupied, hub, ends, channels, callers
<1>32. ASSUME NEW s \in Sessions, Hangup(s) PROVE ConsentIsExact
    BY <1>0, <1>a, <1>b, <1>c, <1>32 DEF Hangup, Go, ConsentIsExact, Contains, Occupied,
        hub, ends, channels, callers
<1>33. ASSUME NEW s \in Sessions, SessionEnded(s) PROVE ConsentIsExact
    BY <1>0, <1>a, <1>b, <1>c, <1>33 DEF SessionEnded, Done, ConsentIsExact, Contains,
        Occupied, hub, ends, channels, callers
<1>34. ASSUME NEW s \in Sessions, Release(s) PROVE ConsentIsExact
    BY <1>0, <1>a, <1>b, <1>c, <1>34 DEF Release, Go, ConsentIsExact, Contains, Occupied,
        hub, ends, channels, callers
<1>35. CASE Operators
    BY <1>35, <1>1, <1>2, <1>3, <1>4, <1>5, <1>6, <1>7, <1>8, <1>9, <1>10 DEF Operators
<1>36. CASE Streams
    BY <1>36, <1>11, <1>12, <1>13, <1>14, <1>15 DEF Streams, StreamLeaves, StreamNotices
<1>37. ASSUME NEW s \in Sessions, Caller(s) PROVE ConsentIsExact
    BY <1>37, <1>16, <1>17, <1>18, <1>19, <1>20, <1>21, <1>22, <1>23, <1>24, <1>25, <1>26,
        <1>27, <1>28, <1>29, <1>30, <1>31, <1>32, <1>33, <1>34 DEF Caller
<1> QED
    BY <1>35, <1>36, <1>37 DEF Next

\* No step removes the slot of another interaction than its own.
LEMMA OldEndsStep == ASSUME HubAssumption, Inv, Next PROVE SlotsOutliveOldEnds
<1>0. /\ Shape /\ CallersHear
      /\ slot \in [Sessions -> Slots] /\ chat \in [Ids -> ChatPlace]
      /\ pos \in [Sessions -> CallerPlace] /\ cur \in [Sessions -> Ids \cup {0}]
      /\ toCaller \in [Ids -> Seq(Events)]
    BY TypesAre DEF Inv, Shape, CallersHear
<1>a. \A s \in Sessions :
          /\ slot[s].id \in Ids \cup {0} /\ slot[s].state # "none" <=> slot[s].id # 0
          /\ slot[s].state # "none" => slot[s].id \in Ids
    BY <1>0, SlotIs, HubAssumption
<1>b. NumbersAreFresh /\ PagesWait /\ SlotsAreHeld
    BY DEF Inv, HubInv
<1>c. NoSlot.id = 0 /\ NoSlot.state = "none" /\ 0 \notin Ids
    BY HubAssumption DEF NoSlot, Ids, HubAssumption
<1>1. ASSUME NEW a \in BOOLEAN, SetAvailability(a) PROVE SlotsOutliveOldEnds
  <2>1. ASSUME NEW s \in Sessions, Occupied(s), ~Occupied(s)'
        PROVE  toCaller'[slot[s].id] # toCaller[slot[s].id]
    <3>1. slot[s].state = "Pending" /\ slot[s].id \in Ids
        BY <1>0, <1>a, <1>1, <2>1 DEF SetAvailability, Occupied
    <3>2. ~a
        BY <1>0, <1>1, <2>1 DEF SetAvailability, Occupied
    <3>3. toCaller'[slot[s].id] = TrySend(toCaller[slot[s].id], "Declined")
        BY <1>1, <3>1, <3>2 DEF SetAvailability
    <3>4. toCaller[slot[s].id] = <<>>
        BY <1>b, <3>1 DEF PagesWait, PageWaits
    <3>5. TrySend(<<>>, "Declined") # <<>>
        BY HubAssumption DEF TrySend, HubAssumption
    <3> QED
        BY <3>3, <3>4, <3>5
  <2> QED
      BY <2>1 DEF SlotsOutliveOldEnds
<1>2. ASSUME NEW p \in BOOLEAN, SetPolicy(p) PROVE SlotsOutliveOldEnds
    BY <1>0, <1>a, <1>b, <1>c, <1>2 DEF SetPolicy, SlotsOutliveOldEnds, Contains, Occupied,
        hub, ends, channels, callers
<1>3. ASSUME NEW s \in Sessions, RequestDisconnect(s) PROVE SlotsOutliveOldEnds
  <2>1. disconnect'[s] # disconnect[s]
      BY <1>0, <1>3 DEF Shape, RequestDisconnect
  <2>2. \A r \in Sessions : r # s => slot'[r] = slot[r]
      BY <1>0, <1>3 DEF RequestDisconnect
  <2> QED
      BY <2>1, <2>2 DEF SlotsOutliveOldEnds, Occupied
<1>4. ASSUME NEW s \in Sessions, Decline(s) PROVE SlotsOutliveOldEnds
  <2>1. slot[s].id \in Ids /\ TellCaller(slot[s].id, "Declined") /\ slot[s].state = "Pending"
      BY <1>a, <1>4 DEF Decline
  <2>2. toCaller'[slot[s].id] # <<>> /\ toCaller[slot[s].id] = <<>>
      BY <1>0, <1>b, <2>1, HubAssumption, ToldIs, PagesHaveAnEnd
      DEF Told, Events, PagesWait, PageWaits
  <2>3. \A r \in Sessions : r # s => slot'[r] = slot[r]
      BY <1>0, <1>4 DEF Decline
  <2> QED
      BY <2>2, <2>3 DEF SlotsOutliveOldEnds, Occupied
<1>5. ASSUME NEW s \in Sessions, ConsoleAnswer(s) PROVE SlotsOutliveOldEnds
    BY <1>0, <1>a, <1>b, <1>c, <1>5 DEF ConsoleAnswer, Answerable, Answer,
        SlotsOutliveOldEnds, Contains, Occupied, hub, ends, channels, callers
<1>6. ASSUME NEW s \in Sessions, NEW o \in Owners, NEW E \in SUBSET Handoffs,
    AnswerCallerPage(s, o, E) PROVE SlotsOutliveOldEnds
    BY <1>0, <1>a, <1>b, <1>c, <1>6 DEF AnswerCallerPage, Answerable, Answer, Expire,
        Handoffs, SlotsOutliveOldEnds, Contains, Occupied, hub, ends, channels, callers
<1>7. ASSUME NEW s \in Sessions, NEW o \in Owners, NEW E \in SUBSET Handoffs,
    InviteOperatorChat(s, o, E) PROVE SlotsOutliveOldEnds
    BY <1>0, <1>a, <1>b, <1>c, <1>7 DEF InviteOperatorChat, Expire, Handoffs,
        SlotsOutliveOldEnds, Contains, Occupied, hub, ends, channels, callers
<1>8. ASSUME NEW E \in SUBSET Handoffs, SweepOnly(E) PROVE SlotsOutliveOldEnds
    BY <1>0, <1>a, <1>b, <1>c, <1>8 DEF SweepOnly, Expire, Handoffs, SlotsOutliveOldEnds,
        Contains, Occupied, hub, ends, channels, callers
<1>9. ASSUME NEW o \in Owners, Detach(o) PROVE SlotsOutliveOldEnds
    BY <1>0, <1>a, <1>b, <1>c, <1>9 DEF Detach, Expire, Handoffs, SlotsOutliveOldEnds,
        Contains, Occupied, hub, ends, channels, callers
<1>10. ASSUME NEW o \in Owners, EndAttachment(o) PROVE SlotsOutliveOldEnds
    BY <1>0, <1>a, <1>b, <1>c, <1>10 DEF EndAttachment, SlotsOutliveOldEnds, Contains,
        Occupied, hub, ends, channels, callers
<1>11. ASSUME NEW i \in Ids, Redeem(i) PROVE SlotsOutliveOldEnds
    BY <1>0, <1>a, <1>b, <1>c, <1>11 DEF Redeem, SlotsOutliveOldEnds, Contains, Occupied,
        hub, ends, channels, callers
<1>12. ASSUME NEW i \in Ids, CloseChat(i), chat[i] = "stream" PROVE SlotsOutliveOldEnds
    BY <1>0, <1>a, <1>b, <1>c, <1>12 DEF CloseChat, SlotsOutliveOldEnds, Contains,
        Occupied, hub, ends, channels, callers
<1>13. ASSUME NEW i \in Ids, OperatorGone(i) PROVE SlotsOutliveOldEnds
    BY <1>0, <1>a, <1>b, <1>c, <1>13 DEF OperatorGone, SlotsOutliveOldEnds, Contains,
        Occupied, hub, ends, channels, callers
<1>14. ASSUME NEW i \in Ids, NEW s \in Sessions, OperatorSends(i,
    s) PROVE SlotsOutliveOldEnds
    BY <1>0, <1>a, <1>b, <1>c, <1>14 DEF OperatorSends, Speaker, SlotsOutliveOldEnds,
        Contains, Occupied, hub, ends, channels, callers
<1>15. ASSUME NEW i \in Ids, NEW s \in Sessions, OperatorReads(i,
    s) PROVE SlotsOutliveOldEnds
    BY <1>0, <1>a, <1>b, <1>c, <1>15 DEF OperatorReads, Speaker, SlotsOutliveOldEnds,
        Contains, Occupied, hub, ends, channels, callers
<1>16. ASSUME NEW s \in Sessions, Page(s) PROVE SlotsOutliveOldEnds
    BY <1>0, <1>a, <1>b, <1>c, <1>16 DEF Page, SlotsOutliveOldEnds, Contains, Occupied,
        hub, ends, channels, callers
<1>17. ASSUME NEW s \in Sessions, PageAnswered(s) PROVE SlotsOutliveOldEnds
    BY <1>0, <1>a, <1>b, <1>c, <1>17 DEF PageAnswered, Go, Done, SlotsOutliveOldEnds,
        Contains, Occupied, hub, ends, channels, callers
<1>18. ASSUME NEW s \in Sessions, PageDropped(s) PROVE SlotsOutliveOldEnds
    BY <1>0, <1>a, <1>b, <1>c, <1>18 DEF PageDropped, Disconnected, Done,
        SlotsOutliveOldEnds, Contains, Occupied, hub, ends, channels, callers
<1>19. ASSUME NEW s \in Sessions, PageTimesOut(s) PROVE SlotsOutliveOldEnds
    BY <1>0, <1>a, <1>b, <1>c, <1>19 DEF PageTimesOut, Go, SlotsOutliveOldEnds, Contains,
        Occupied, hub, ends, channels, callers
<1>20. ASSUME NEW s \in Sessions, Withdraw(s) PROVE SlotsOutliveOldEnds
    BY <1>0, <1>a, <1>b, <1>c, <1>20 DEF Withdraw, RemoveSlot, Done, SlotsOutliveOldEnds,
        Contains, Occupied, hub, ends, channels, callers
<1>21. ASSUME NEW s \in Sessions, Prompt(s) PROVE SlotsOutliveOldEnds
    BY <1>0, <1>a, <1>b, <1>c, <1>21 DEF Prompt, SlotsOutliveOldEnds, Contains, Occupied,
        hub, ends, channels, callers
<1>22. ASSUME NEW s \in Sessions, DeclineInvitation(s) PROVE SlotsOutliveOldEnds
    BY <1>0, <1>a, <1>b, <1>c, <1>22 DEF DeclineInvitation, InvitedTo, Done,
        SlotsOutliveOldEnds, Contains, Occupied, hub, ends, channels, callers
<1>23. ASSUME NEW s \in Sessions, Authorize(s) PROVE SlotsOutliveOldEnds
    BY <1>0, <1>a, <1>b, <1>c, <1>23 DEF Authorize, InvitedTo, Go, SlotsOutliveOldEnds,
        Contains, Occupied, hub, ends, channels, callers
<1>24. ASSUME NEW s \in Sessions, AcceptInvitation(s) PROVE SlotsOutliveOldEnds
  <2>1. CASE InvitedTo(s, cur[s])
    <3>1. slot[s] \in [id : Ids, state : PageState, owner : Owners \cup {Console, None}]
        BY <1>0, <1>c, <2>1 DEF InvitedTo, Slots
    <3>2. slot'[s] = [slot[s] EXCEPT !.state = "Chatting"]
        BY <1>0, <1>24, <2>1 DEF AcceptInvitation
    <3>3. slot'[s].state = "Chatting"
        BY <3>1, <3>2
    <3>4. \A r \in Sessions : r # s => slot'[r] = slot[r]
        BY <1>0, <1>24, <2>1 DEF AcceptInvitation
    <3> QED
        BY <3>3, <3>4 DEF SlotsOutliveOldEnds, Occupied
  <2>2. CASE ~InvitedTo(s, cur[s])
      BY <1>24, <2>2 DEF AcceptInvitation, SlotsOutliveOldEnds, Occupied
  <2> QED
      BY <2>1, <2>2
<1>25. ASSUME NEW s \in Sessions, InvitationRefused(s) PROVE SlotsOutliveOldEnds
    BY <1>0, <1>a, <1>b, <1>c, <1>25 DEF InvitationRefused, InvitedTo, Done,
        SlotsOutliveOldEnds, Contains, Occupied, hub, ends, channels, callers
<1>26. ASSUME NEW s \in Sessions, CallerReceives(s) PROVE SlotsOutliveOldEnds
    BY <1>0, <1>a, <1>b, <1>c, <1>26 DEF CallerReceives, SlotsOutliveOldEnds, Contains,
        Occupied, hub, ends, channels, callers
<1>27. ASSUME NEW s \in Sessions, CallerNotices(s) PROVE SlotsOutliveOldEnds
    BY <1>0, <1>a, <1>b, <1>c, <1>27 DEF CallerNotices, LeaveChat, Go, SlotsOutliveOldEnds,
        Contains, Occupied, hub, ends, channels, callers
<1>28. ASSUME NEW s \in Sessions, CallerLeaves(s) PROVE SlotsOutliveOldEnds
    BY <1>0, <1>a, <1>b, <1>c, <1>28 DEF CallerLeaves, LeaveChat, Go, SlotsOutliveOldEnds,
        Contains, Occupied, hub, ends, channels, callers
<1>29. ASSUME NEW s \in Sessions, CallerSends(s) PROVE SlotsOutliveOldEnds
    BY <1>0, <1>a, <1>b, <1>c, <1>29 DEF CallerSends, LeaveChat, Go, SlotsOutliveOldEnds,
        Contains, Occupied, hub, ends, channels, callers
<1>30. ASSUME NEW s \in Sessions, Cancelled(s) PROVE SlotsOutliveOldEnds
    BY <1>0, <1>a, <1>b, <1>c, <1>30 DEF Cancelled, LeaveChat, Go, SlotsOutliveOldEnds,
        Contains, Occupied, hub, ends, channels, callers
<1>31. ASSUME NEW s \in Sessions, CallerGone(s) PROVE SlotsOutliveOldEnds
    BY <1>0, <1>a, <1>b, <1>c, <1>31 DEF CallerGone, RemoveSlot, Done, SlotsOutliveOldEnds,
        Contains, Occupied, hub, ends, channels, callers
<1>32. ASSUME NEW s \in Sessions, Hangup(s) PROVE SlotsOutliveOldEnds
    BY <1>0, <1>a, <1>b, <1>c, <1>32 DEF Hangup, Go, SlotsOutliveOldEnds, Contains,
        Occupied, hub, ends, channels, callers
<1>33. ASSUME NEW s \in Sessions, SessionEnded(s) PROVE SlotsOutliveOldEnds
    BY <1>0, <1>a, <1>b, <1>c, <1>33 DEF SessionEnded, Done, SlotsOutliveOldEnds, Contains,
        Occupied, hub, ends, channels, callers
<1>34. ASSUME NEW s \in Sessions, Release(s) PROVE SlotsOutliveOldEnds
    BY <1>0, <1>a, <1>b, <1>c, <1>34 DEF Release, Go, SlotsOutliveOldEnds, Contains,
        Occupied, hub, ends, channels, callers
<1>35. CASE Operators
    BY <1>35, <1>1, <1>2, <1>3, <1>4, <1>5, <1>6, <1>7, <1>8, <1>9, <1>10 DEF Operators
<1>36. CASE Streams
    BY <1>36, <1>11, <1>12, <1>13, <1>14, <1>15 DEF Streams, StreamLeaves, StreamNotices
<1>37. ASSUME NEW s \in Sessions, Caller(s) PROVE SlotsOutliveOldEnds
    BY <1>37, <1>16, <1>17, <1>18, <1>19, <1>20, <1>21, <1>22, <1>23, <1>24, <1>25, <1>26,
        <1>27, <1>28, <1>29, <1>30, <1>31, <1>32, <1>33, <1>34 DEF Caller
<1> QED
    BY <1>35, <1>36, <1>37 DEF Next

\* An invitation becomes a chat by its own caller's consent only, and a slot goes
\* away with one of its own ends, a refusal, its operator or its session: an old
\* handle never erases a newer interaction.
THEOREM ConsentAndOldEnds ==
    HubAssumption => (Spec => [][ConsentIsExact /\ SlotsOutliveOldEnds]_vars)
<1> SUFFICES ASSUME HubAssumption PROVE Spec => [][ConsentIsExact /\ SlotsOutliveOldEnds]_vars
    OBVIOUS
<1>1. Inv /\ [Next]_vars => [ConsentIsExact /\ SlotsOutliveOldEnds]_vars
    BY ConsentStep, OldEndsStep
<1> QED
    BY <1>1, HubInvariant, PTL DEF Spec

\* The hub keeps its promise for any sessions, operators and bounds.
THEOREM ChatIsConsentedHolds == HubAssumption => (Spec => ChatIsConsented)
BY SlotsAreHeldHolds, ConsentAndOldEnds, PTL DEF ChatIsConsented

-----------------------------------------------------------------------------
(***************************************************************************)
(* Proofs about ConfigurationCommit, for any commands, accidents and        *)
(* bounds.  Journal and file may disagree only between one replacement and  *)
(* the next recover(): the inductive invariant says at which step of apply  *)
(* which row may be open, and that the two files on the disk carry either   *)
(* the link their command wrote or no command's content.                    *)
(***************************************************************************)
CONSTANTS Commands, Revoking, MaxGenerations, SaveFaults, FileEdits, Accidents
VARIABLES file, durable, row, rowGen, expected, up, gen, published, who, pc, reply,
    faults, edits
CM == INSTANCE ConfigurationCommit WITH MaxFaults <- SaveFaults, MaxEdits <- FileEdits

\* Content of a command comes with the link that proves it; an edit changes the
\* content, and so what its link claims.
CommitLinksAreWritten ==
    \A f \in {file, durable} :
        /\ f.link # None => f.link.digest.content = f.link.command
        /\ f.content \in Commands => CM!LinkProves(f) /\ f.link.command = f.content

\* What is on the disk was accepted, and what a loss of power would bring back is
\* done or is still the current file.
CommitRowsFollowDisk ==
    \A c \in Commands :
        /\ file.content = c => row[c] \in {"accepted", "completed"}
        /\ durable.content = c =>
              row[c] = "completed" \/ (row[c] = "accepted" /\ file.content = c)
        /\ row[c] = "accepted" /\ file.content = c =>
              /\ pc \in {"idle", "finish", "publish", "sync", "settle"}
              /\ pc = "idle" => up # "admin"

CommitNoneAccepted == \A c \in Commands : row[c] # "accepted"

\* Who holds the gate, and what its steps rely on.
CommitGateIsHeld ==
    /\ up = "down" => pc = "idle"
    /\ pc = "idle" => who = None
    /\ pc \notin {"idle", "finish", "reject"} => who \in Commands
    /\ who \in Commands => up \in {"online", "offline"}
    /\ pc \in {"load", "accept"} \/ (up = "admin" /\ pc = "idle") => CommitNoneAccepted
    /\ pc \in {"compare", "previous", "replace"} => row[who] = "accepted" /\ file.content # who
    /\ pc \in {"previous", "replace"} => CM!Current(who)
    /\ pc \in {"publish", "sync", "settle", "settled"} => file.content = who
    /\ pc \in {"publish", "sync", "settle"} => row[who] = "accepted"
    /\ pc = "settled" => row[who] = "completed"
    /\ pc \in {"accept", "compare", "previous", "replace"} => CM!Granted

\* The gate's configuration is the file's but for the moment between the two.
CommitPublishedFollows == up \in {"online", "offline"} /\ pc # "publish" => published = file

CommitCommitInv ==
    /\ CommitLinksAreWritten /\ CommitRowsFollowDisk /\ CommitGateIsHeld /\ CommitPublishedFollows
    /\ CM!RepliesAreSettled /\ CM!OldRowsAreSettled

CommitInv == CM!TypeOK /\ CommitCommitInv

-----------------------------------------------------------------------------
\* A board starts with the types right.
LEMMA CommitInitTypes == ASSUME CM!CommitAssumption, CM!Init PROVE CM!TypeOK
BY DEF CM!CommitAssumption, CM!Init, CM!TypeOK, CM!InitialFile, CM!File, CM!Links, CM!Versions, CM!Contents, CM!Replies

\* Every step keeps the types.
LEMMA CommitStepTypes == ASSUME CM!CommitAssumption, CM!TypeOK, CommitGateIsHeld, [CM!Next]_(CM!vars) PROVE CM!TypeOK'
<1> USE DEF CM!CommitAssumption, CM!TypeOK, CM!File, CM!Links, CM!Versions, CM!Contents, CM!Replies, CM!Version, CommitGateIsHeld,
            CM!disk, CM!journal, CM!memory, CM!client
<1>1. ASSUME NEW mode \in {"online", "offline", "admin"}, CM!Start(mode) PROVE CM!TypeOK'
    BY <1>1 DEF CM!Start
<1>2. ASSUME CM!Crash PROVE CM!TypeOK'
    BY <1>2 DEF CM!Crash
<1>3. ASSUME CM!PowerLoss PROVE CM!TypeOK'
    BY <1>3 DEF CM!PowerLoss, CM!Die
<1>4. ASSUME CM!WriteBack PROVE CM!TypeOK'
    BY <1>4 DEF CM!WriteBack
<1>5. ASSUME NEW c \in Commands, CM!Snapshot(c) PROVE CM!TypeOK'
    BY <1>5 DEF CM!Snapshot
<1>6. ASSUME NEW c \in Commands, CM!Enter(c) PROVE CM!TypeOK'
    BY <1>6 DEF CM!Enter
<1>7. ASSUME CM!Finish PROVE CM!TypeOK'
    BY <1>7 DEF CM!Finish, CM!FinishLinked, CM!Continue
<1>8. ASSUME CM!Reject PROVE CM!TypeOK'
    BY <1>8 DEF CM!Reject, CM!RejectUncommitted, CM!Leave, CM!Continue
<1>9. ASSUME CM!Authorize PROVE CM!TypeOK'
    BY <1>9 DEF CM!Authorize, CM!Continue, CM!Leave
<1>10. ASSUME CM!Accept PROVE CM!TypeOK'
    BY <1>10 DEF CM!Accept, CM!Continue, CM!Leave
<1>11. ASSUME CM!Refuse PROVE CM!TypeOK'
    BY <1>11 DEF CM!Refuse, CM!Leave
<1>12. ASSUME CM!Validate PROVE CM!TypeOK'
    BY <1>12 DEF CM!Validate, CM!Continue
<1>13. ASSUME CM!SavePrevious PROVE CM!TypeOK'
    BY <1>13 DEF CM!SavePrevious, CM!Continue
<1>14. ASSUME CM!Replace PROVE CM!TypeOK'
    BY <1>14 DEF CM!Replace, CM!Written, CM!Continue
<1>15. ASSUME CM!Publish PROVE CM!TypeOK'
    BY <1>15 DEF CM!Publish, CM!NextPublished
<1>16. ASSUME CM!SyncParent PROVE CM!TypeOK'
    BY <1>16 DEF CM!SyncParent, CM!Continue
<1>17. ASSUME CM!Settle PROVE CM!TypeOK'
    BY <1>17 DEF CM!Settle, CM!FinishLinked, CM!Continue
<1>18. ASSUME CM!Settled PROVE CM!TypeOK'
    BY <1>18 DEF CM!Settled, CM!RejectUncommitted, CM!Leave
<1>19. ASSUME CM!Fails PROVE CM!TypeOK'
    BY <1>19 DEF CM!Fails, CM!Opening, CM!Leave
<1>20. ASSUME CM!AdminSave PROVE CM!TypeOK'
    BY <1>20 DEF CM!AdminSave
<1>21. ASSUME CM!ManualEdit PROVE CM!TypeOK'
    BY <1>21 DEF CM!ManualEdit
<1>22. CASE UNCHANGED CM!vars
    BY <1>22 DEF CM!vars
<1> HIDE DEF CM!TypeOK, CommitGateIsHeld
<1> QED
    BY <1>1, <1>2, <1>3, <1>4, <1>5, <1>6, <1>7, <1>8, <1>9, <1>10, <1>11, <1>12, <1>13, <1>14, <1>15, <1>16, <1>17, <1>18, <1>19, <1>20, <1>21, <1>22 DEF CM!Next, CM!Step

\* Every file that a step writes carries the link of its content, or no link that claims it.
LEMMA CommitStepLinks == ASSUME CM!CommitAssumption, CM!TypeOK, CommitCommitInv, [CM!Next]_(CM!vars) PROVE (CommitLinksAreWritten)'
<1> USE DEF CM!CommitAssumption, CM!TypeOK, CM!File, CM!Links, CM!Versions, CM!Contents, CM!Version, CM!LinkProves, CM!LinkFails,
            CM!disk, CM!journal, CM!memory, CM!client, CommitCommitInv, CommitLinksAreWritten, CommitRowsFollowDisk, CommitNoneAccepted,
            CommitGateIsHeld, CommitPublishedFollows, CM!RepliesAreSettled, CM!OldRowsAreSettled, CM!Current, CM!Granted, CM!Opening
<1>1. ASSUME NEW mode \in {"online", "offline", "admin"}, CM!Start(mode) PROVE (CommitLinksAreWritten)'
    BY <1>1 DEF CM!Start
<1>2. ASSUME CM!Crash PROVE (CommitLinksAreWritten)'
    BY <1>2 DEF CM!Crash
<1>3. ASSUME CM!PowerLoss PROVE (CommitLinksAreWritten)'
    BY <1>3 DEF CM!PowerLoss, CM!Die
<1>4. ASSUME CM!WriteBack PROVE (CommitLinksAreWritten)'
    BY <1>4 DEF CM!WriteBack
<1>5. ASSUME NEW c \in Commands, CM!Snapshot(c) PROVE (CommitLinksAreWritten)'
    BY <1>5 DEF CM!Snapshot
<1>6. ASSUME NEW c \in Commands, CM!Enter(c) PROVE (CommitLinksAreWritten)'
    BY <1>6 DEF CM!Enter
<1>7. ASSUME CM!Finish PROVE (CommitLinksAreWritten)'
    BY <1>7 DEF CM!Finish, CM!FinishLinked, CM!Continue
<1>8. ASSUME CM!Reject PROVE (CommitLinksAreWritten)'
    BY <1>8 DEF CM!Reject, CM!RejectUncommitted, CM!Leave, CM!Continue
<1>9. ASSUME CM!Authorize PROVE (CommitLinksAreWritten)'
    BY <1>9 DEF CM!Authorize, CM!Continue, CM!Leave
<1>10. ASSUME CM!Accept PROVE (CommitLinksAreWritten)'
    BY <1>10 DEF CM!Accept, CM!Continue, CM!Leave
<1>11. ASSUME CM!Refuse PROVE (CommitLinksAreWritten)'
    BY <1>11 DEF CM!Refuse, CM!Leave
<1>12. ASSUME CM!Validate PROVE (CommitLinksAreWritten)'
    BY <1>12 DEF CM!Validate, CM!Continue
<1>13. ASSUME CM!SavePrevious PROVE (CommitLinksAreWritten)'
    BY <1>13 DEF CM!SavePrevious, CM!Continue
<1>14. ASSUME CM!Replace PROVE (CommitLinksAreWritten)'
    BY <1>14 DEF CM!Replace, CM!Written, CM!Continue
<1>15. ASSUME CM!Publish PROVE (CommitLinksAreWritten)'
    BY <1>15 DEF CM!Publish, CM!NextPublished
<1>16. ASSUME CM!SyncParent PROVE (CommitLinksAreWritten)'
    BY <1>16 DEF CM!SyncParent, CM!Continue
<1>17. ASSUME CM!Settle PROVE (CommitLinksAreWritten)'
    BY <1>17 DEF CM!Settle, CM!FinishLinked, CM!Continue
<1>18. ASSUME CM!Settled PROVE (CommitLinksAreWritten)'
    BY <1>18 DEF CM!Settled, CM!RejectUncommitted, CM!Leave
<1>19. ASSUME CM!Fails PROVE (CommitLinksAreWritten)'
    BY <1>19 DEF CM!Fails, CM!Opening, CM!Leave
<1>20. ASSUME CM!AdminSave PROVE (CommitLinksAreWritten)'
    BY <1>20 DEF CM!AdminSave
<1>21. ASSUME CM!ManualEdit PROVE (CommitLinksAreWritten)'
    BY <1>21 DEF CM!ManualEdit
<1>22. CASE UNCHANGED CM!vars
    BY <1>22 DEF CM!vars
<1> QED
    BY <1>1, <1>2, <1>3, <1>4, <1>5, <1>6, <1>7, <1>8, <1>9, <1>10, <1>11, <1>12, <1>13, <1>14, <1>15, <1>16, <1>17, <1>18, <1>19, <1>20, <1>21, <1>22 DEF CM!Next, CM!Step

\* No step leaves a row behind what the disk holds.
LEMMA CommitStepRows == ASSUME CM!CommitAssumption, CM!TypeOK, CommitCommitInv, [CM!Next]_(CM!vars) PROVE (CommitRowsFollowDisk)'
<1> USE DEF CM!CommitAssumption, CM!TypeOK, CM!File, CM!Links, CM!Versions, CM!Contents, CM!Version, CM!LinkProves, CM!LinkFails,
            CM!disk, CM!journal, CM!memory, CM!client, CommitCommitInv, CommitLinksAreWritten, CommitRowsFollowDisk, CommitNoneAccepted,
            CommitGateIsHeld, CommitPublishedFollows, CM!RepliesAreSettled, CM!OldRowsAreSettled, CM!Current, CM!Granted, CM!Opening
<1>1. ASSUME NEW mode \in {"online", "offline", "admin"}, CM!Start(mode) PROVE (CommitRowsFollowDisk)'
    BY <1>1 DEF CM!Start
<1>2. ASSUME CM!Crash PROVE (CommitRowsFollowDisk)'
    BY <1>2 DEF CM!Crash
<1>3. ASSUME CM!PowerLoss PROVE (CommitRowsFollowDisk)'
    BY <1>3 DEF CM!PowerLoss, CM!Die
<1>4. ASSUME CM!WriteBack PROVE (CommitRowsFollowDisk)'
    BY <1>4 DEF CM!WriteBack
<1>5. ASSUME NEW c \in Commands, CM!Snapshot(c) PROVE (CommitRowsFollowDisk)'
    BY <1>5 DEF CM!Snapshot
<1>6. ASSUME NEW c \in Commands, CM!Enter(c) PROVE (CommitRowsFollowDisk)'
    BY <1>6 DEF CM!Enter
<1>7. ASSUME CM!Finish PROVE (CommitRowsFollowDisk)'
    BY <1>7 DEF CM!Finish, CM!FinishLinked, CM!Continue
<1>8. ASSUME CM!Reject PROVE (CommitRowsFollowDisk)'
    BY <1>8 DEF CM!Reject, CM!RejectUncommitted, CM!Leave, CM!Continue
<1>9. ASSUME CM!Authorize PROVE (CommitRowsFollowDisk)'
    BY <1>9 DEF CM!Authorize, CM!Continue, CM!Leave
<1>10. ASSUME CM!Accept PROVE (CommitRowsFollowDisk)'
    BY <1>10 DEF CM!Accept, CM!Continue, CM!Leave
<1>11. ASSUME CM!Refuse PROVE (CommitRowsFollowDisk)'
    BY <1>11 DEF CM!Refuse, CM!Leave
<1>12. ASSUME CM!Validate PROVE (CommitRowsFollowDisk)'
    BY <1>12 DEF CM!Validate, CM!Continue
<1>13. ASSUME CM!SavePrevious PROVE (CommitRowsFollowDisk)'
    BY <1>13 DEF CM!SavePrevious, CM!Continue
<1>14. ASSUME CM!Replace PROVE (CommitRowsFollowDisk)'
    BY <1>14 DEF CM!Replace, CM!Written, CM!Continue
<1>15. ASSUME CM!Publish PROVE (CommitRowsFollowDisk)'
    BY <1>15 DEF CM!Publish, CM!NextPublished
<1>16. ASSUME CM!SyncParent PROVE (CommitRowsFollowDisk)'
    BY <1>16 DEF CM!SyncParent, CM!Continue
<1>17. ASSUME CM!Settle PROVE (CommitRowsFollowDisk)'
    BY <1>17 DEF CM!Settle, CM!FinishLinked, CM!Continue
<1>18. ASSUME CM!Settled PROVE (CommitRowsFollowDisk)'
    BY <1>18 DEF CM!Settled, CM!RejectUncommitted, CM!Leave
<1>19. ASSUME CM!Fails PROVE (CommitRowsFollowDisk)'
    BY <1>19 DEF CM!Fails, CM!Opening, CM!Leave
<1>20. ASSUME CM!AdminSave PROVE (CommitRowsFollowDisk)'
    BY <1>20 DEF CM!AdminSave
<1>21. ASSUME CM!ManualEdit PROVE (CommitRowsFollowDisk)'
    BY <1>21 DEF CM!ManualEdit
<1>22. CASE UNCHANGED CM!vars
    BY <1>22 DEF CM!vars
<1> QED
    BY <1>1, <1>2, <1>3, <1>4, <1>5, <1>6, <1>7, <1>8, <1>9, <1>10, <1>11, <1>12, <1>13, <1>14, <1>15, <1>16, <1>17, <1>18, <1>19, <1>20, <1>21, <1>22 DEF CM!Next, CM!Step

\* Every step keeps what the holder of the gate relies on.
LEMMA CommitStepGate == ASSUME CM!CommitAssumption, CM!TypeOK, CommitCommitInv, [CM!Next]_(CM!vars) PROVE (CommitGateIsHeld)'
<1> USE DEF CM!CommitAssumption, CM!TypeOK, CM!File, CM!Links, CM!Versions, CM!Contents, CM!Version, CM!LinkProves, CM!LinkFails,
            CM!disk, CM!journal, CM!memory, CM!client, CommitCommitInv, CommitLinksAreWritten, CommitRowsFollowDisk, CommitNoneAccepted,
            CommitGateIsHeld, CommitPublishedFollows, CM!RepliesAreSettled, CM!OldRowsAreSettled, CM!Current, CM!Granted, CM!Opening
<1>1. ASSUME NEW mode \in {"online", "offline", "admin"}, CM!Start(mode) PROVE (CommitGateIsHeld)'
    BY <1>1 DEF CM!Start
<1>2. ASSUME CM!Crash PROVE (CommitGateIsHeld)'
    BY <1>2 DEF CM!Crash
<1>3. ASSUME CM!PowerLoss PROVE (CommitGateIsHeld)'
    BY <1>3 DEF CM!PowerLoss, CM!Die
<1>4. ASSUME CM!WriteBack PROVE (CommitGateIsHeld)'
    BY <1>4 DEF CM!WriteBack
<1>5. ASSUME NEW c \in Commands, CM!Snapshot(c) PROVE (CommitGateIsHeld)'
    BY <1>5 DEF CM!Snapshot
<1>6. ASSUME NEW c \in Commands, CM!Enter(c) PROVE (CommitGateIsHeld)'
    BY <1>6 DEF CM!Enter
<1>7. ASSUME CM!Finish PROVE (CommitGateIsHeld)'
    BY <1>7 DEF CM!Finish, CM!FinishLinked, CM!Continue
<1>8. ASSUME CM!Reject PROVE (CommitGateIsHeld)'
    BY <1>8 DEF CM!Reject, CM!RejectUncommitted, CM!Leave, CM!Continue
<1>9. ASSUME CM!Authorize PROVE (CommitGateIsHeld)'
    BY <1>9 DEF CM!Authorize, CM!Continue, CM!Leave
<1>10. ASSUME CM!Accept PROVE (CommitGateIsHeld)'
    BY <1>10 DEF CM!Accept, CM!Continue, CM!Leave
<1>11. ASSUME CM!Refuse PROVE (CommitGateIsHeld)'
    BY <1>11 DEF CM!Refuse, CM!Leave
<1>12. ASSUME CM!Validate PROVE (CommitGateIsHeld)'
    BY <1>12 DEF CM!Validate, CM!Continue
<1>13. ASSUME CM!SavePrevious PROVE (CommitGateIsHeld)'
    BY <1>13 DEF CM!SavePrevious, CM!Continue
<1>14. ASSUME CM!Replace PROVE (CommitGateIsHeld)'
    BY <1>14 DEF CM!Replace, CM!Written, CM!Continue
<1>15. ASSUME CM!Publish PROVE (CommitGateIsHeld)'
    BY <1>15 DEF CM!Publish, CM!NextPublished
<1>16. ASSUME CM!SyncParent PROVE (CommitGateIsHeld)'
    BY <1>16 DEF CM!SyncParent, CM!Continue
<1>17. ASSUME CM!Settle PROVE (CommitGateIsHeld)'
    BY <1>17 DEF CM!Settle, CM!FinishLinked, CM!Continue
<1>18. ASSUME CM!Settled PROVE (CommitGateIsHeld)'
    BY <1>18 DEF CM!Settled, CM!RejectUncommitted, CM!Leave
<1>19. ASSUME CM!Fails PROVE (CommitGateIsHeld)'
    BY <1>19 DEF CM!Fails, CM!Opening, CM!Leave
<1>20. ASSUME CM!AdminSave PROVE (CommitGateIsHeld)'
    BY <1>20 DEF CM!AdminSave
<1>21. ASSUME CM!ManualEdit PROVE (CommitGateIsHeld)'
    BY <1>21 DEF CM!ManualEdit
<1>22. CASE UNCHANGED CM!vars
    BY <1>22 DEF CM!vars
<1> QED
    BY <1>1, <1>2, <1>3, <1>4, <1>5, <1>6, <1>7, <1>8, <1>9, <1>10, <1>11, <1>12, <1>13, <1>14, <1>15, <1>16, <1>17, <1>18, <1>19, <1>20, <1>21, <1>22 DEF CM!Next, CM!Step

\* Every step publishes what it wrote and answers from the journal.
LEMMA CommitStepRest == ASSUME CM!CommitAssumption, CM!TypeOK, CommitCommitInv, [CM!Next]_(CM!vars) PROVE (CommitPublishedFollows /\ CM!RepliesAreSettled /\ CM!OldRowsAreSettled)'
<1> USE DEF CM!CommitAssumption, CM!TypeOK, CM!File, CM!Links, CM!Versions, CM!Contents, CM!Version, CM!LinkProves, CM!LinkFails,
            CM!disk, CM!journal, CM!memory, CM!client, CommitCommitInv, CommitLinksAreWritten, CommitRowsFollowDisk, CommitNoneAccepted,
            CommitGateIsHeld, CommitPublishedFollows, CM!RepliesAreSettled, CM!OldRowsAreSettled, CM!Current, CM!Granted, CM!Opening
<1>1. ASSUME NEW mode \in {"online", "offline", "admin"}, CM!Start(mode) PROVE (CommitPublishedFollows /\ CM!RepliesAreSettled /\ CM!OldRowsAreSettled)'
    BY <1>1 DEF CM!Start
<1>2. ASSUME CM!Crash PROVE (CommitPublishedFollows /\ CM!RepliesAreSettled /\ CM!OldRowsAreSettled)'
    BY <1>2 DEF CM!Crash
<1>3. ASSUME CM!PowerLoss PROVE (CommitPublishedFollows /\ CM!RepliesAreSettled /\ CM!OldRowsAreSettled)'
    BY <1>3 DEF CM!PowerLoss, CM!Die
<1>4. ASSUME CM!WriteBack PROVE (CommitPublishedFollows /\ CM!RepliesAreSettled /\ CM!OldRowsAreSettled)'
    BY <1>4 DEF CM!WriteBack
<1>5. ASSUME NEW c \in Commands, CM!Snapshot(c) PROVE (CommitPublishedFollows /\ CM!RepliesAreSettled /\ CM!OldRowsAreSettled)'
    BY <1>5 DEF CM!Snapshot
<1>6. ASSUME NEW c \in Commands, CM!Enter(c) PROVE (CommitPublishedFollows /\ CM!RepliesAreSettled /\ CM!OldRowsAreSettled)'
    BY <1>6 DEF CM!Enter
<1>7. ASSUME CM!Finish PROVE (CommitPublishedFollows /\ CM!RepliesAreSettled /\ CM!OldRowsAreSettled)'
    BY <1>7 DEF CM!Finish, CM!FinishLinked, CM!Continue
<1>8. ASSUME CM!Reject PROVE (CommitPublishedFollows /\ CM!RepliesAreSettled /\ CM!OldRowsAreSettled)'
    BY <1>8 DEF CM!Reject, CM!RejectUncommitted, CM!Leave, CM!Continue
<1>9. ASSUME CM!Authorize PROVE (CommitPublishedFollows /\ CM!RepliesAreSettled /\ CM!OldRowsAreSettled)'
    BY <1>9 DEF CM!Authorize, CM!Continue, CM!Leave
<1>10. ASSUME CM!Accept PROVE (CommitPublishedFollows /\ CM!RepliesAreSettled /\ CM!OldRowsAreSettled)'
    BY <1>10 DEF CM!Accept, CM!Continue, CM!Leave
<1>11. ASSUME CM!Refuse PROVE (CommitPublishedFollows /\ CM!RepliesAreSettled /\ CM!OldRowsAreSettled)'
    BY <1>11 DEF CM!Refuse, CM!Leave
<1>12. ASSUME CM!Validate PROVE (CommitPublishedFollows /\ CM!RepliesAreSettled /\ CM!OldRowsAreSettled)'
    BY <1>12 DEF CM!Validate, CM!Continue
<1>13. ASSUME CM!SavePrevious PROVE (CommitPublishedFollows /\ CM!RepliesAreSettled /\ CM!OldRowsAreSettled)'
    BY <1>13 DEF CM!SavePrevious, CM!Continue
<1>14. ASSUME CM!Replace PROVE (CommitPublishedFollows /\ CM!RepliesAreSettled /\ CM!OldRowsAreSettled)'
    BY <1>14 DEF CM!Replace, CM!Written, CM!Continue
<1>15. ASSUME CM!Publish PROVE (CommitPublishedFollows /\ CM!RepliesAreSettled /\ CM!OldRowsAreSettled)'
    BY <1>15 DEF CM!Publish, CM!NextPublished
<1>16. ASSUME CM!SyncParent PROVE (CommitPublishedFollows /\ CM!RepliesAreSettled /\ CM!OldRowsAreSettled)'
    BY <1>16 DEF CM!SyncParent, CM!Continue
<1>17. ASSUME CM!Settle PROVE (CommitPublishedFollows /\ CM!RepliesAreSettled /\ CM!OldRowsAreSettled)'
    BY <1>17 DEF CM!Settle, CM!FinishLinked, CM!Continue
<1>18. ASSUME CM!Settled PROVE (CommitPublishedFollows /\ CM!RepliesAreSettled /\ CM!OldRowsAreSettled)'
    BY <1>18 DEF CM!Settled, CM!RejectUncommitted, CM!Leave
<1>19. ASSUME CM!Fails PROVE (CommitPublishedFollows /\ CM!RepliesAreSettled /\ CM!OldRowsAreSettled)'
    BY <1>19 DEF CM!Fails, CM!Opening, CM!Leave
<1>20. ASSUME CM!AdminSave PROVE (CommitPublishedFollows /\ CM!RepliesAreSettled /\ CM!OldRowsAreSettled)'
    BY <1>20 DEF CM!AdminSave
<1>21. ASSUME CM!ManualEdit PROVE (CommitPublishedFollows /\ CM!RepliesAreSettled /\ CM!OldRowsAreSettled)'
    BY <1>21 DEF CM!ManualEdit
<1>22. CASE UNCHANGED CM!vars
    BY <1>22 DEF CM!vars
<1> QED
    BY <1>1, <1>2, <1>3, <1>4, <1>5, <1>6, <1>7, <1>8, <1>9, <1>10, <1>11, <1>12, <1>13, <1>14, <1>15, <1>16, <1>17, <1>18, <1>19, <1>20, <1>21, <1>22 DEF CM!Next, CM!Step

\* A board starts with nothing in the journal and nothing of a command on the disk.
LEMMA CommitInitInv == ASSUME CM!CommitAssumption, CM!Init PROVE CommitInv
<1>1. CM!TypeOK
    BY CommitInitTypes
<1>2. CommitLinksAreWritten /\ CommitRowsFollowDisk /\ CommitGateIsHeld
    BY DEF CM!CommitAssumption, CM!Init, CM!InitialFile, CommitLinksAreWritten, CommitRowsFollowDisk, CommitGateIsHeld,
           CommitNoneAccepted
<1>3. CommitPublishedFollows /\ CM!RepliesAreSettled /\ CM!OldRowsAreSettled
    BY DEF CM!Init, CommitPublishedFollows, CM!RepliesAreSettled, CM!OldRowsAreSettled
<1> QED
    BY <1>1, <1>2, <1>3 DEF CommitInv, CommitCommitInv

\* The invariant holds in every state, whatever dies, fails or is edited, and when.
THEOREM CommitInvariant == CM!CommitAssumption => (CM!Spec => []CommitInv)
<1> SUFFICES ASSUME CM!CommitAssumption PROVE CM!Spec => []CommitInv
    OBVIOUS
<1>1. CM!Init => CommitInv
    BY CommitInitInv
<1>2. CommitInv /\ [CM!Next]_(CM!vars) => CommitInv'
  <2> SUFFICES ASSUME CM!TypeOK, CommitCommitInv, [CM!Next]_(CM!vars) PROVE CommitInv'
      BY DEF CommitInv
  <2>1. CM!TypeOK'
      BY CommitStepTypes DEF CommitCommitInv
  <2>2. CommitLinksAreWritten' /\ CommitRowsFollowDisk' /\ CommitGateIsHeld'
      BY CommitStepLinks, CommitStepRows, CommitStepGate
  <2>3. CommitPublishedFollows' /\ CM!RepliesAreSettled' /\ CM!OldRowsAreSettled'
      BY CommitStepRest
  <2> QED
      BY <2>1, <2>2, <2>3 DEF CommitInv, CommitCommitInv
<1> QED
    BY <1>1, <1>2, PTL DEF CM!Spec

\* Journal and file tell one story in every state: a rejected save is not stored, a
\* free gate publishes the file, replies are settled and no open row is left behind.
THEOREM JournalMatchesFile ==
    CM!CommitAssumption =>
        (CM!Spec => [](/\ CM!TypeOK /\ CM!RejectedIsNotStored /\ CM!PublishedIsStored
                    /\ CM!RepliesAreSettled /\ CM!OldRowsAreSettled))
<1>1. CommitInv => /\ CM!TypeOK /\ CM!RejectedIsNotStored /\ CM!PublishedIsStored
             /\ CM!RepliesAreSettled /\ CM!OldRowsAreSettled
    BY DEF CommitInv, CommitCommitInv, CM!TypeOK, CommitRowsFollowDisk, CM!RejectedIsNotStored, CommitPublishedFollows, CM!PublishedIsStored
<1> QED
    BY <1>1, CommitInvariant, PTL

\* recover() and apply() complete a command only from a file that holds its content,
\* and without stored grants no running daemon replaces its file.
THEOREM CompletionAndRevocation ==
    CM!CommitAssumption => (CM!Spec => [][CM!CompletionNeedsItsFile /\ CM!RevocationHolds]_(CM!vars))
<1> SUFFICES ASSUME CM!CommitAssumption
             PROVE  CM!Spec => [][CM!CompletionNeedsItsFile /\ CM!RevocationHolds]_(CM!vars)
    OBVIOUS
<1>1. CommitInv /\ [CM!Next]_(CM!vars) => [CM!CompletionNeedsItsFile /\ CM!RevocationHolds]_(CM!vars)
  <2> SUFFICES ASSUME CM!TypeOK, CommitCommitInv, CM!Next PROVE CM!CompletionNeedsItsFile /\ CM!RevocationHolds
      BY DEF CommitInv
  <2>1. CM!CompletionNeedsItsFile
    <3> SUFFICES ASSUME NEW c \in Commands, row[c] # "completed", row'[c] = "completed"
                 PROVE  file.content = c
        BY DEF CM!CompletionNeedsItsFile
    <3>1. CASE CM!FinishLinked
        BY <3>1 DEF CM!FinishLinked, CommitCommitInv, CommitLinksAreWritten, CM!LinkProves, CM!Version, CM!TypeOK
    <3>2. CASE ~CM!FinishLinked
        BY <3>2 DEF CM!TypeOK, CM!Next, CM!Step, CM!Start, CM!Crash, CM!PowerLoss, CM!Die, CM!WriteBack, CM!Snapshot, CM!Enter,
               CM!Finish, CM!Reject, CM!RejectUncommitted, CM!Authorize, CM!Accept, CM!Refuse, CM!Validate, CM!SavePrevious,
               CM!Replace, CM!Publish, CM!SyncParent, CM!Settle, CM!Settled, CM!Fails, CM!AdminSave, CM!ManualEdit,
               CM!journal
    <3> QED
        BY <3>1, <3>2
  <2>2. CM!RevocationHolds
      BY DEF CM!RevocationHolds, CommitCommitInv, CommitGateIsHeld, CM!Granted, CM!Next, CM!Step, CM!Start, CM!Crash, CM!PowerLoss,
             CM!Die, CM!WriteBack, CM!Snapshot, CM!Enter, CM!Finish, CM!Reject, CM!Authorize, CM!Accept, CM!Refuse, CM!Validate,
             CM!SavePrevious, CM!Replace, CM!Publish, CM!SyncParent, CM!Settle, CM!Settled, CM!Fails, CM!AdminSave,
             CM!ManualEdit, CM!disk
  <2> QED
      BY <2>1, <2>2
<1> QED
    BY <1>1, CommitInvariant, PTL DEF CM!Spec

\* The authority keeps its promise for any commands, accidents and bounds.
THEOREM SavesAreSettledHolds == CM!CommitAssumption => (CM!Spec => CM!SavesAreSettled)
BY JournalMatchesFile, CompletionAndRevocation, PTL DEF CM!SavesAreSettled

-----------------------------------------------------------------------------
(***************************************************************************)
(* The authority implements ConfigRegister where nobody edits the file by   *)
(* hand and no power is lost.                                               *)
(***************************************************************************)

\* What a step does to a command: its row and what the file says of it.
LEMMA CommitOutcomeIs ==
    ASSUME CommitCommitInv, NEW c \in Commands
    PROVE  CM!Outcome(c) = IF row[c] = "rejected" THEN "refused"
                        ELSE IF row[c] = "completed" \/ (row[c] = "accepted" /\ file.content = c)
                        THEN "saved" ELSE "open"
BY DEF CommitCommitInv, CommitLinksAreWritten, CM!LinkProves, CM!Version, CM!Outcome

CommitoutcomeBar == [c \in Commands |-> CM!Outcome(c)]

\* Steps that leave the file and the expectations alone and move no outcome are invisible.
LEMMA CommitSameOutcomes ==
    ASSUME UNCHANGED <<file, expected>>, \A c \in Commands : CM!Outcome(c)' = CM!Outcome(c)
    PROVE  UNCHANGED <<CM!Version(file), expected, CommitoutcomeBar>>
<1>1. UNCHANGED CM!Version(file)
    BY DEF CM!Version
<1>2. UNCHANGED CommitoutcomeBar
    BY DEF CommitoutcomeBar
<1> QED
    BY <1>1, <1>2

\* recover() settling the row that the file proves changes no outcome.
LEMMA CommitFinishedOutcomes ==
    ASSUME CM!CommitAssumption, CM!TypeOK, CommitCommitInv, CommitCommitInv', CM!FinishLinked, UNCHANGED file
    PROVE  \A c \in Commands : CM!Outcome(c)' = CM!Outcome(c)
<1> SUFFICES ASSUME NEW c \in Commands PROVE CM!Outcome(c)' = CM!Outcome(c)
    OBVIOUS
<1>1. row'[c] = IF CM!LinkProves(file) /\ c = file.link.command /\ row[c] = "accepted"
                THEN "completed" ELSE row[c]
    BY DEF CM!FinishLinked
<1>2. CM!LinkProves(file) /\ c = file.link.command => file.content = c
    BY DEF CommitCommitInv, CommitLinksAreWritten, CM!LinkProves, CM!Version
<1> HIDE DEF CommitCommitInv
<1> QED
    BY <1>1, <1>2, CommitOutcomeIs DEF CM!Outcome, CM!LinkProves, CM!Version

\* Rejecting the open rows refuses what was open and nothing else.
LEMMA CommitRejectedOutcomes ==
    ASSUME CM!CommitAssumption, CM!TypeOK, CommitCommitInv, CommitCommitInv', CM!RejectUncommitted,
           UNCHANGED <<file, expected>>, pc \in {"reject", "settled"}
    PROVE  CM!Register!Next
<1> DEFINE C == {c \in Commands : row[c] = "accepted"}
<1>1. \A c \in C : CM!Outcome(c) = "open"
    BY CommitOutcomeIs DEF CommitCommitInv, CommitRowsFollowDisk
<1>2. \A c \in Commands : CM!Outcome(c)' = IF c \in C THEN "refused" ELSE CM!Outcome(c)
  <2> SUFFICES ASSUME NEW c \in Commands
               PROVE  CM!Outcome(c)' = IF c \in C THEN "refused" ELSE CM!Outcome(c)
      OBVIOUS
  <2>1. row'[c] = IF c \in C THEN "rejected" ELSE row[c]
      BY DEF CM!RejectUncommitted
  <2> QED
      BY <2>1 DEF CM!Outcome, CM!LinkProves, CM!Version
<1>3. UNCHANGED <<CM!Version(file), expected>>
    BY DEF CM!Version
<1>4. CM!Register!Refuse(C)
    BY <1>1, <1>2, <1>3 DEF CM!Register!Refuse
<1> QED
    BY <1>4 DEF CM!Register!Next

\* Every step is one of the register or invisible to it.
LEMMA CommitStepMaps ==
    ASSUME CM!CommitAssumption, Accidents = {}, CommitInv, CommitInv', [CM!Next]_(CM!vars)
    PROVE  [CM!Register!Next]_<<CM!Version(file), expected, CommitoutcomeBar>>
<1> DEFINE Goal == CM!Register!Next \/ UNCHANGED <<CM!Version(file), expected, CommitoutcomeBar>>
<1>a. CM!TypeOK /\ CommitCommitInv /\ CommitCommitInv'
    BY DEF CommitInv
<1>b. ASSUME UNCHANGED <<file, row, expected>> PROVE Goal
    BY <1>b, CommitSameOutcomes DEF CM!Outcome, CM!LinkProves, CM!Version
<1>1. ASSUME \/ \E mode \in {"online", "offline", "admin"} : CM!Start(mode)
             \/ CM!Crash \/ CM!WriteBack \/ CM!Authorize \/ CM!Validate \/ CM!SavePrevious \/ CM!Publish
             \/ CM!SyncParent \/ CM!Fails \/ UNCHANGED CM!vars
             \/ \E c \in Commands : CM!Enter(c)
      PROVE UNCHANGED <<file, row, expected>>
    BY <1>1 DEF CM!Start, CM!Crash, CM!WriteBack, CM!Authorize, CM!Validate, CM!SavePrevious, CM!Publish, CM!SyncParent,
                CM!Fails, CM!Leave, CM!Continue, CM!Enter, CM!disk, CM!journal, CM!client, CM!memory, CM!vars
<1>2. ASSUME CM!PowerLoss \/ CM!ManualEdit PROVE FALSE
    BY <1>2 DEF CM!PowerLoss, CM!ManualEdit
<1>3. ASSUME NEW c \in Commands, CM!Snapshot(c) PROVE Goal
  <2>1. \A d \in Commands : CM!Outcome(d)' = CM!Outcome(d)
      BY <1>3 DEF CM!Snapshot, CM!Outcome, CM!LinkProves, CM!Version, CM!disk, CM!journal
  <2>2. UNCHANGED CM!Version(file)
      BY <1>3 DEF CM!Snapshot, CM!Version, CM!disk
  <2>3. CM!Register!Prepare(c)
      BY <1>3, <2>1, <2>2 DEF CM!Snapshot, CM!Register!Prepare
  <2> QED
      BY <2>3 DEF CM!Register!Next
<1>4. ASSUME CM!Finish \/ CM!Settle PROVE Goal
  <2>1. UNCHANGED <<file, expected>> /\ CM!FinishLinked
      BY <1>4 DEF CM!Finish, CM!Settle, CM!Continue, CM!disk, CM!client
  <2> QED
      BY <1>a, <2>1, CommitFinishedOutcomes, CommitSameOutcomes
<1>5. ASSUME CM!Reject \/ CM!Settled PROVE Goal
  <2>1. UNCHANGED <<file, expected>> /\ CM!RejectUncommitted /\ pc \in {"reject", "settled"}
      BY <1>5 DEF CM!Reject, CM!Settled, CM!Continue, CM!Leave, CM!disk, CM!client
  <2> QED
      BY <1>a, <2>1, CommitRejectedOutcomes
<1>6. ASSUME CM!Accept PROVE Goal
  <2>1. UNCHANGED <<file, expected>> /\ who \in Commands
      BY <1>6, <1>a DEF CM!Accept, CM!Continue, CM!Leave, CM!disk, CM!client, CommitCommitInv, CommitGateIsHeld
  <2>2. \A c \in Commands : row'[c] = row[c] \/ (row[c] = "none" /\ row'[c] = "accepted")
      BY <1>6, <1>a, <2>1 DEF CM!Accept, CM!TypeOK, CM!journal
  <2>3. ASSUME NEW c \in Commands PROVE CM!Outcome(c)' = CM!Outcome(c)
    <3>1. CASE row'[c] = row[c]
        BY <2>1, <3>1 DEF CM!Outcome, CM!LinkProves, CM!Version
    <3>2. CASE row[c] = "none" /\ row'[c] = "accepted"
      <4>1. ~(CM!LinkProves(file) /\ file.link.command = c)
          BY <1>a, <3>2 DEF CommitCommitInv, CommitLinksAreWritten, CommitRowsFollowDisk, CM!LinkProves, CM!Version
      <4> QED
          BY <2>1, <3>2, <4>1 DEF CM!Outcome, CM!LinkProves, CM!Version
    <3> QED
        BY <2>2, <3>1, <3>2
  <2> QED
      BY <2>1, <2>3, CommitSameOutcomes
<1>7. ASSUME CM!Refuse PROVE Goal
  <2>1. /\ UNCHANGED <<file, expected>> /\ who \in Commands
        /\ row' = [row EXCEPT ![who] = "rejected"] /\ row[who] = "accepted" /\ file.content # who
      BY <1>7, <1>a DEF CM!Refuse, CM!Leave, CM!disk, CM!client, CommitCommitInv, CommitGateIsHeld
  <2>2. CM!Outcome(who) = "open"
      BY <1>a, <2>1, CommitOutcomeIs
  <2>3. \A c \in Commands : CM!Outcome(c)' = IF c \in {who} THEN "refused" ELSE CM!Outcome(c)
      BY <1>a, <2>1 DEF CM!Outcome, CM!LinkProves, CM!Version, CM!TypeOK
  <2>4. UNCHANGED CM!Version(file)
      BY <2>1 DEF CM!Version
  <2>5. CM!Register!Refuse({who})
      BY <2>1, <2>2, <2>3, <2>4 DEF CM!Register!Refuse
  <2> QED
      BY <2>1, <2>5 DEF CM!Register!Next
<1>8. ASSUME CM!Replace PROVE Goal
  <2>1. /\ who \in Commands /\ file' = CM!Written(who) /\ UNCHANGED <<row, expected>>
        /\ row[who] = "accepted" /\ file.content # who /\ expected[who] = CM!Version(file)
      BY <1>8, <1>a DEF CM!Replace, CM!Continue, CM!journal, CM!client, CommitCommitInv, CommitGateIsHeld, CM!Current
  <2>2. CM!Version(file)' = [rev |-> CM!Version(file).rev + 1, content |-> who]
      BY <2>1 DEF CM!Version, CM!Written
  <2>3. CM!Outcome(who) = "open"
      BY <1>a, <2>1, CommitOutcomeIs
  <2>4. ASSUME NEW c \in Commands
        PROVE  CM!Outcome(c)' = IF c = who THEN "saved" ELSE CM!Outcome(c)
    <3>1. CM!LinkProves(file)' /\ file'.link.command = who
        BY <2>1, <1>a DEF CM!LinkProves, CM!Written, CM!Version, CM!CommitAssumption, CM!TypeOK, CM!File, CM!Versions, CM!Contents
    <3>2. row[c] = "accepted" => ~(CM!LinkProves(file) /\ file.link.command = c)
        BY <1>8, <1>a DEF CM!Replace, CommitCommitInv, CommitLinksAreWritten, CommitRowsFollowDisk, CM!LinkProves, CM!Version
    <3> QED
        BY <2>1, <3>1, <3>2 DEF CM!Outcome
  <2>5. CM!Register!Save(who)
      BY <2>1, <2>2, <2>3, <2>4 DEF CM!Register!Save
  <2> QED
      BY <2>1, <2>5 DEF CM!Register!Next
<1>9. ASSUME CM!AdminSave PROVE Goal
  <2>1. /\ UNCHANGED <<row, expected>> /\ CommitNoneAccepted
        /\ file' = [rev |-> file.rev + 1, content |-> "admin", grants |-> file.grants, link |-> None]
      BY <1>9, <1>a DEF CM!AdminSave, CM!journal, CM!client, CommitCommitInv, CommitGateIsHeld
  <2>2. CM!Version(file)' = [rev |-> CM!Version(file).rev + 1, content |-> "admin"]
      BY <2>1 DEF CM!Version
  <2>3. \A c \in Commands : CM!Outcome(c)' = CM!Outcome(c)
      BY <2>1 DEF CM!Outcome, CommitNoneAccepted
  <2>4. CM!Register!Edit
      BY <2>1, <2>2, <2>3 DEF CM!Register!Edit
  <2> QED
      BY <2>4 DEF CM!Register!Next
<1> HIDE DEF Goal
<1>10. Goal
    BY <1>b, <1>1, <1>2, <1>3, <1>4, <1>5, <1>6, <1>7, <1>8, <1>9 DEF CM!Next, CM!Step
<1> QED
    BY <1>10 DEF Goal

\* The configuration authority is a register under compare-and-swap, through every
\* crash and failing step: no update is lost and no decided outcome changes.
THEOREM RegisterImplemented ==
    CM!CommitAssumption /\ Accidents = {} => (CM!Spec => CM!ImplementsRegister)
<1> SUFFICES ASSUME CM!CommitAssumption, Accidents = {} PROVE CM!Spec => CM!ImplementsRegister
    OBVIOUS
<1>1. CM!Init => CM!Register!Init
    BY DEF CM!Init, CM!InitialFile, CM!Register!Init, CM!Version, CM!Outcome, CM!LinkProves
<1>2. CommitInv /\ CommitInv' /\ [CM!Next]_(CM!vars) => [CM!Register!Next]_<<CM!Version(file), expected, CommitoutcomeBar>>
    BY CommitStepMaps
<1> QED
    BY <1>1, <1>2, CommitInvariant, PTL DEF CM!Spec, CM!ImplementsRegister, CM!Register!Spec, CM!Register!vars, CommitoutcomeBar

-----------------------------------------------------------------------------
(***************************************************************************)
(* Native admission, for any names, payloads, callers and bounds.          *)
(*                                                                         *)
(* Whoever created the entry of the area owns it until its row is there,   *)
(* and one worker owns an entry; so no row comes to stand beside bytes of  *)
(* another.  A row is left only by the recovery of a dead upload, which    *)
(* runs while no worker does: nobody is then on the way to creating the    *)
(* entry again.  A rejected row is taken up by the operator's tool alone,  *)
(* on a stopped board.                                                     *)
(***************************************************************************)
CONSTANTS FileNames, Contents, Uploaders, Network, FileTool, Verdicts, RecoversOps,
    FileCommands, AreaCrashes, AreaFaults, Partial
VARIABLES areaRow, area, store, areaJournal, stale, lease, approval, areaJob, areaUp,
    areaCrashes, areaFaults
FC == INSTANCE FileCustody WITH Names <- FileNames, Callers <- Uploaders,
    Console <- FileTool, Commands <- FileCommands, MaxCrashes <- AreaCrashes,
    MaxFaults <- AreaFaults, row <- areaRow, journal <- areaJournal, job <- areaJob,
    up <- areaUp, crashes <- areaCrashes, faults <- areaFaults

(***************************************************************************)
(* Native admission, for any names, payloads, callers and bounds.          *)
(*                                                                         *)
(* Whoever created the entry of the area owns it until its row is there,   *)
(* and one worker owns an entry; so no row comes to stand beside bytes of  *)
(* another.  A row is left only by the recovery of a dead upload, which    *)
(* runs while no worker does: nobody is then on the way to creating the    *)
(* entry again.  A rejected row is taken up by the operator's tool alone,  *)
(* on a stopped board.                                                     *)
(***************************************************************************)

AreaBusy == [at : FC!Places \ {"idle"}, name : FileNames, bytes : Contents, hold : BOOLEAN,
         verdict : {"none", "clean", "bad"}]
AreaTyped ==
    /\ areaRow \in [FileNames -> FC!Rows \cup {None}]
    /\ area \in [FileNames -> Contents \cup {None, Partial}] /\ store \in SUBSET Contents
    /\ areaJournal \in [FC!Workers -> {None, "staged", "bytes-published"}]
    /\ stale \in SUBSET [name : FileNames, phase : {"staged", "bytes-published", "needs-review"}]
    /\ lease \in [FileNames -> Uploaders \cup {None, FC!Gone}]
    /\ approval \in BOOLEAN /\ areaUp \in BOOLEAN
    /\ areaJob \in [FC!Workers -> AreaBusy \cup {FC!Idle}]
    /\ areaCrashes \in 0..AreaCrashes /\ areaFaults \in 0..AreaFaults

AreaCreating == {"operate", "create", "alias"}
AreaOwning == {"copy", "mark", "insert"}
AreaInspecting == {"inspect", "report", "decide"}
AreaAdmitting == {"complete", "admit", "stored", "begin"} \cup AreaInspecting

\* Daemon and tool do not run at once, callers upload, and an upload has a journal row
\* from its operation to its completion.
AreaTurns == \A w \in FC!Workers : areaJob[w].at # "idle" => FC!Running(w)
AreaUploading ==
    \A w \in FC!Workers :
        /\ areaJob[w].at \in {"operate", "create", "copy", "mark"} => w \in Uploaders
        /\ areaJournal[w] # None => w \in Uploaders
                /\ areaJob[w].at \in {"create", "copy", "mark", "insert", "complete"}
        /\ areaJob[w].at \in {"report", "decide"} => areaJob[w].verdict # "none"

\* An entry without a row is its creator's.
AreaOwned ==
    \A w \in FC!Workers : areaJob[w].at \in AreaOwning =>
        /\ areaRow[areaJob[w].name] = None
        /\ area[areaJob[w].name] = IF areaJob[w].at = "copy" THEN Partial ELSE areaJob[w].bytes
AreaOneOwner ==
    \A v, w \in FC!Workers : areaJob[v].at \in AreaOwning /\ areaJob[w].at \in AreaOwning
                          /\ areaJob[v].name = areaJob[w].name => v = w

\* A row keeps the bytes it was inserted with.
AreaKept ==
    \A n \in FileNames : areaRow[n] # None =>
        /\ area[n] = areaRow[n].bytes \/ (RecoversOps /\ area[n] = None)
        /\ areaRow[n].status # "missing" => areaRow[n].bytes \in store
AreaNobodyCreates ==
    \A w \in FC!Workers : areaJob[w].at \in AreaCreating /\ areaRow[areaJob[w].name] # None
                       => area[areaJob[w].name] # None

\* What a worker that admits a file may rely on.
AreaCataloged ==
    \A w \in FC!Workers :
        /\ areaJob[w].at \in AreaAdmitting => areaRow[areaJob[w].name] # None
        /\ areaJob[w].at \in {"begin"} \cup AreaInspecting => areaRow[areaJob[w].name].bytes \in store
        /\ areaJob[w].at \in {"lookup", "alias"} => areaJob[w].bytes \in store
        /\ areaJob[w].at = "insert" /\ w \notin Uploaders => areaJob[w].bytes \in store
AreaRefused ==
    \A w \in FC!Workers : w # FileTool /\ areaJob[w].at \in AreaAdmitting
                       => areaRow[areaJob[w].name].status # "rejected"

\* Without callers one worker inspects at a time, and the row shows its inspection.
AreaAlone ==
    Uploaders = {} => \A w \in FC!Workers :
        /\ areaJob[w].at \in AreaInspecting => areaRow[areaJob[w].name].status = "inspecting"
        /\ areaJob[w].at = "decide" => areaRow[areaJob[w].name].report = areaJob[w].verdict
AreaInspected == Uploaders = {} => FC!CleanReport

AreaInv ==
    /\ AreaTyped /\ AreaTurns /\ AreaUploading
    /\ AreaOwned /\ AreaOneOwner
    /\ AreaKept /\ AreaNobodyCreates /\ AreaCataloged /\ AreaRefused
    /\ FC!ActiveIsPublished /\ AreaAlone /\ AreaInspected

-----------------------------------------------------------------------------
(***************************************************************************)
(* Jobs.                                                                    *)
(***************************************************************************)

\* Another worker's job is as it was.
AreaAlike(w) == \A v \in FC!Workers \ {w} : areaJob'[v] = areaJob[v]
AreaWent(w, p) ==
    /\ AreaAlike(w) /\ areaJob'[w].at = p
    /\ areaJob'[w].name = areaJob[w].name /\ areaJob'[w].bytes = areaJob[w].bytes
    /\ areaJob'[w].hold = areaJob[w].hold /\ areaJob'[w].verdict = areaJob[w].verdict
AreaStopped(w) == AreaAlike(w) /\ areaJob'[w].at = "idle"
AreaJobsTyped == areaJob \in [FC!Workers -> AreaBusy \cup {FC!Idle}]

LEMMA AreaBusyWorker ==
    ASSUME AreaJobsTyped, NEW w \in FC!Workers, areaJob[w].at # "idle"
    PROVE  /\ areaJob[w] \in AreaBusy
           /\ areaJob[w].name \in FileNames /\ areaJob[w].bytes \in Contents /\ areaJob[w].hold \in BOOLEAN
           /\ areaJob[w].verdict \in {"none", "clean", "bad"} /\ areaJob[w].at \in FC!Places
<1>1. areaJob[w] \in AreaBusy \cup {FC!Idle} /\ areaJob[w] # FC!Idle
    BY DEF AreaJobsTyped, FC!Idle
<1>2. areaJob[w] \in AreaBusy
    BY <1>1
<1>3. \A j \in AreaBusy : /\ j.name \in FileNames /\ j.bytes \in Contents
                      /\ j.verdict \in {"none", "clean", "bad"} /\ j.at \in FC!Places
    BY DEF AreaBusy
<1>4. \A j \in AreaBusy : j.hold \in BOOLEAN
    BY Zenon DEF AreaBusy
<1> QED
    BY <1>2, <1>3, <1>4

LEMMA AreaMadeJob ==
    \A at \in FC!Places \ {"idle"}, n \in FileNames, c \in Contents, h \in BOOLEAN,
       v \in {"none", "clean", "bad"} :
        [at |-> at, name |-> n, bytes |-> c, hold |-> h, verdict |-> v] \in AreaBusy
    BY DEF AreaBusy

LEMMA AreaGoesTo ==
    ASSUME AreaJobsTyped, NEW w \in FC!Workers, areaJob[w].at # "idle",
           NEW p \in FC!Places \ {"idle"}, FC!Goto(w, p)
    PROVE  AreaWent(w, p) /\ AreaJobsTyped'
<1>1. areaJob[w] \in AreaBusy
    BY AreaBusyWorker
<1>2. \A j \in AreaBusy : /\ [j EXCEPT !.at = p] \in AreaBusy
                      /\ [j EXCEPT !.at = p].at = p
                      /\ [j EXCEPT !.at = p].name = j.name
                      /\ [j EXCEPT !.at = p].bytes = j.bytes
                      /\ [j EXCEPT !.at = p].hold = j.hold
                      /\ [j EXCEPT !.at = p].verdict = j.verdict
    BY DEF AreaBusy
<1>3. areaJob' = [areaJob EXCEPT ![w] = [areaJob[w] EXCEPT !.at = p]]
    BY DEF FC!Goto
<1>4. areaJob'[w] = [areaJob[w] EXCEPT !.at = p] /\ AreaAlike(w)
    BY <1>3 DEF AreaJobsTyped, AreaAlike
<1>5. [areaJob[w] EXCEPT !.at = p] \in AreaBusy
    BY <1>1, <1>2
<1>6. AreaJobsTyped'
    BY <1>3, <1>5 DEF AreaJobsTyped
<1> QED
    BY <1>1, <1>2, <1>4, <1>6 DEF AreaWent

LEMMA AreaGetsDone ==
    ASSUME AreaJobsTyped, NEW w \in FC!Workers, FC!Done(w)
    PROVE  AreaStopped(w) /\ AreaJobsTyped'
    BY DEF AreaJobsTyped, FC!Done, AreaStopped, AreaAlike, FC!Idle

LEMMA AreaTakesJob ==
    ASSUME AreaJobsTyped, NEW w \in FC!Workers, NEW p \in FC!Places \ {"idle"}, NEW n \in FileNames,
           NEW c \in Contents, NEW h \in BOOLEAN, areaJob' = [areaJob EXCEPT ![w] = FC!Job(p, n, c, h)]
    PROVE  /\ AreaAlike(w) /\ AreaJobsTyped'
           /\ areaJob'[w].at = p /\ areaJob'[w].name = n /\ areaJob'[w].bytes = c
<1>1. FC!Job(p, n, c, h) \in AreaBusy
    BY AreaMadeJob DEF FC!Job
<1>2. FC!Job(p, n, c, h).at = p /\ FC!Job(p, n, c, h).name = n /\ FC!Job(p, n, c, h).bytes = c
    BY DEF FC!Job
<1> QED
    BY <1>1, <1>2 DEF AreaJobsTyped, AreaAlike

LEMMA AreaLookupKeeps ==
    ASSUME FC!CustodyAssumption, AreaInv, NEW w \in FC!Workers, FC!Lookup(w)
    PROVE  AreaInv'
<1>1. AreaJobsTyped /\ areaJob[w].at = "lookup" /\ areaJob[w].at # "idle" /\ FC!Running(w)
    BY DEF AreaInv, AreaTyped, AreaJobsTyped, FC!Lookup, FC!At
<1>2. areaJob[w].name \in FileNames /\ areaJob[w].bytes \in Contents
    BY <1>1, AreaBusyWorker
<1>3. UNCHANGED <<areaRow, area, store, areaJournal, stale, lease, approval, areaUp, areaCrashes, areaFaults>>
    BY DEF FC!Lookup, FC!files, FC!operations
<1>4. /\ AreaJobsTyped' /\ AreaAlike(w)
      /\ \/ /\ AreaWent(w, "alias") /\ areaRow[areaJob[w].name] = None
         \/ /\ AreaWent(w, "stored") /\ areaRow[areaJob[w].name] # None
            /\ areaRow[areaJob[w].name].status # "rejected" 
         \/ AreaStopped(w)
    <2>1. FC!Goto(w, "alias") => AreaWent(w, "alias") /\ AreaJobsTyped'
        BY <1>1, AreaGoesTo DEF FC!Places
    <2>2. FC!Goto(w, "stored") => AreaWent(w, "stored") /\ AreaJobsTyped'
        BY <1>1, AreaGoesTo DEF FC!Places
    <2>3. FC!Done(w) => AreaStopped(w) /\ AreaJobsTyped'
        BY <1>1, AreaGetsDone
    <2> QED
        BY <2>1, <2>2, <2>3 DEF FC!Lookup, FC!Readmit, FC!Undecided, FC!Name, AreaWent, AreaStopped
<1>5. AreaTyped'
    BY <1>3, <1>4 DEF AreaInv, AreaTyped, AreaJobsTyped
<1>6. AreaTurns' 
    BY <1>1, <1>3, <1>4 DEF AreaInv, AreaTurns, FC!Running, AreaAlike, AreaWent, AreaStopped
<1>7. AreaUploading' 
    BY <1>1, <1>3, <1>4 DEF AreaInv, AreaUploading, AreaAlike, AreaWent, AreaStopped
<1>8. AreaOwned' /\ AreaOneOwner'
    BY <1>1, <1>3, <1>4 DEF AreaInv, AreaOwned, AreaOneOwner, AreaOwning, AreaAlike, AreaWent, AreaStopped
<1>9. AreaKept' /\ AreaNobodyCreates' 
    BY <1>1, <1>3, <1>4 DEF AreaInv, AreaKept, AreaNobodyCreates, AreaCreating, AreaAlike, AreaWent, AreaStopped
<1>10. AreaCataloged' /\ AreaRefused'
    BY <1>1, <1>3, <1>4 DEF AreaInv, AreaCataloged, AreaRefused, AreaAdmitting, AreaInspecting, AreaAlike, AreaWent, AreaStopped
<1>11. FC!ActiveIsPublished' /\ AreaAlone' /\ AreaInspected'
    BY <1>1, <1>3, <1>4 DEF AreaInv, FC!ActiveIsPublished, AreaAlone, AreaInspected, FC!CleanReport, AreaInspecting, AreaAlike, AreaWent, AreaStopped
<1> QED
    BY <1>5, <1>6, <1>7, <1>8, <1>9, <1>10, <1>11 DEF AreaInv

LEMMA AreaOperateKeeps ==
    ASSUME FC!CustodyAssumption, AreaInv, NEW w \in FC!Workers, FC!Operate(w)
    PROVE  AreaInv'
<1>1. AreaJobsTyped /\ areaJob[w].at = "operate" /\ areaJob[w].at # "idle" /\ FC!Running(w)
    BY DEF AreaInv, AreaTyped, AreaJobsTyped, FC!Operate, FC!At
<1>2. /\ areaJob[w].name \in FileNames /\ areaJob[w].bytes \in Contents
      /\ \A v \in FC!Workers : areaJob[v].at # "idle" => areaJob[v].name \in FileNames /\ areaJob[v].bytes \in Contents
    BY <1>1, AreaBusyWorker
<1>3. /\ UNCHANGED <<areaRow, area, store, stale, approval, areaUp, areaCrashes, areaFaults>>
      /\ lease' \in [FileNames -> Uploaders \cup {None, FC!Gone}]
      /\ areaJournal' \in [FC!Workers -> {None, "staged", "bytes-published"}]
      /\ \A v \in FC!Workers \ {w} : areaJournal'[v] = areaJournal[v]
    BY <1>1, <1>2 DEF FC!Operate, FC!files, AreaInv, AreaTyped, AreaUploading, FC!Name
<1>4. /\ AreaJobsTyped' /\ AreaAlike(w)
      /\ AreaWent(w, "create") \/ (AreaStopped(w) /\ areaJournal' = areaJournal)
    BY <1>1, AreaGoesTo, AreaGetsDone DEF FC!Operate, FC!Places, AreaWent, AreaStopped
<1>5. AreaTyped'
    BY <1>3, <1>4 DEF AreaInv, AreaTyped, AreaJobsTyped
<1>6. AreaTurns' /\ AreaUploading'
    BY <1>1, <1>3, <1>4 DEF AreaInv, AreaTurns, AreaUploading, FC!Running, AreaAlike, AreaWent, AreaStopped
<1>7. AreaOwned'
    BY <1>1, <1>2, <1>3, <1>4 DEF AreaInv, AreaOwned, AreaOneOwner, AreaOwning, AreaAlike, AreaWent, AreaStopped
<1>12. AreaOneOwner'
    BY <1>1, <1>2, <1>3, <1>4 DEF AreaInv, AreaOwned, AreaOneOwner, AreaOwning, AreaAlike, AreaWent, AreaStopped
<1>8. AreaKept'
    BY <1>1, <1>2, <1>3, <1>4 DEF AreaInv, AreaKept, AreaAlike, AreaWent, AreaStopped
<1>13. AreaNobodyCreates'
    BY <1>1, <1>2, <1>3, <1>4 DEF AreaInv, AreaKept, AreaNobodyCreates, AreaCreating, AreaAlike, AreaWent, AreaStopped
<1>9. AreaCataloged'
    BY <1>1, <1>2, <1>3, <1>4 DEF AreaInv, AreaCataloged, AreaAdmitting, AreaInspecting, AreaAlike, AreaWent, AreaStopped
<1>11. AreaRefused'
    BY <1>1, <1>2, <1>3, <1>4 DEF AreaInv, AreaRefused, AreaAdmitting, AreaInspecting, AreaAlike, AreaWent, AreaStopped
<1>10. FC!ActiveIsPublished' /\ AreaAlone' /\ AreaInspected'
    BY <1>1, <1>3, <1>4 DEF AreaInv, FC!ActiveIsPublished, AreaAlone, AreaInspected, FC!CleanReport, AreaInspecting,
       AreaAlike, AreaWent, AreaStopped
<1> QED
    BY <1>5, <1>6, <1>7, <1>8, <1>9, <1>10, <1>11, <1>12, <1>13 DEF AreaInv

LEMMA AreaMarkKeeps ==
    ASSUME FC!CustodyAssumption, AreaInv, NEW w \in FC!Workers, FC!Mark(w)
    PROVE  AreaInv'
<1>1. AreaJobsTyped /\ areaJob[w].at = "mark" /\ areaJob[w].at # "idle" /\ FC!Running(w)
    BY DEF AreaInv, AreaTyped, AreaJobsTyped, FC!Mark, FC!At
<1>2. /\ areaJob[w].name \in FileNames /\ areaJob[w].bytes \in Contents
      /\ \A v \in FC!Workers : areaJob[v].at # "idle" => areaJob[v].name \in FileNames /\ areaJob[v].bytes \in Contents
    BY <1>1, AreaBusyWorker
<1>3. /\ UNCHANGED <<areaRow, area, store, stale, lease, approval, areaUp, areaCrashes, areaFaults>>
      /\ areaJournal' \in [FC!Workers -> {None, "staged", "bytes-published"}]
      /\ \A v \in FC!Workers \ {w} : areaJournal'[v] = areaJournal[v]
    BY <1>1 DEF FC!Mark, FC!files, AreaInv, AreaTyped
<1>4. AreaJobsTyped' /\ AreaAlike(w) /\ AreaWent(w, "insert")
    BY <1>1, AreaGoesTo DEF FC!Mark, FC!Places, AreaWent
<1>5. AreaTyped'
    BY <1>3, <1>4 DEF AreaInv, AreaTyped, AreaJobsTyped
<1>6. AreaTurns' /\ AreaUploading'
    BY <1>1, <1>3, <1>4 DEF AreaInv, AreaTurns, AreaUploading, FC!Running, AreaAlike, AreaWent, AreaStopped
<1>7. AreaOwned'
    BY <1>1, <1>2, <1>3, <1>4 DEF AreaInv, AreaOwned, AreaOneOwner, AreaOwning, AreaAlike, AreaWent, AreaStopped
<1>12. AreaOneOwner'
    BY <1>1, <1>2, <1>3, <1>4 DEF AreaInv, AreaOwned, AreaOneOwner, AreaOwning, AreaAlike, AreaWent, AreaStopped
<1>8. AreaKept'
    BY <1>1, <1>2, <1>3, <1>4 DEF AreaInv, AreaKept, AreaAlike, AreaWent, AreaStopped
<1>13. AreaNobodyCreates'
    BY <1>1, <1>2, <1>3, <1>4 DEF AreaInv, AreaKept, AreaNobodyCreates, AreaCreating, AreaAlike, AreaWent, AreaStopped
<1>9. AreaCataloged'
    BY <1>1, <1>2, <1>3, <1>4 DEF AreaInv, AreaCataloged, AreaAdmitting, AreaInspecting, AreaAlike, AreaWent, AreaStopped, AreaUploading
<1>11. AreaRefused'
    BY <1>1, <1>2, <1>3, <1>4 DEF AreaInv, AreaRefused, AreaAdmitting, AreaInspecting, AreaAlike, AreaWent, AreaStopped
<1>10. FC!ActiveIsPublished' /\ AreaAlone' /\ AreaInspected'
    BY <1>1, <1>3, <1>4 DEF AreaInv, FC!ActiveIsPublished, AreaAlone, AreaInspected, FC!CleanReport, AreaInspecting,
       AreaAlike, AreaWent, AreaStopped
<1> QED
    BY <1>5, <1>6, <1>7, <1>8, <1>9, <1>10, <1>11, <1>12, <1>13 DEF AreaInv

LEMMA AreaCompleteKeeps ==
    ASSUME FC!CustodyAssumption, AreaInv, NEW w \in FC!Workers, FC!Complete(w)
    PROVE  AreaInv'
<1>1. AreaJobsTyped /\ areaJob[w].at = "complete" /\ areaJob[w].at # "idle" /\ FC!Running(w)
    BY DEF AreaInv, AreaTyped, AreaJobsTyped, FC!Complete, FC!At
<1>2. /\ areaJob[w].name \in FileNames /\ areaJob[w].bytes \in Contents
      /\ \A v \in FC!Workers : areaJob[v].at # "idle" => areaJob[v].name \in FileNames /\ areaJob[v].bytes \in Contents
    BY <1>1, AreaBusyWorker
<1>3. /\ UNCHANGED <<areaRow, area, store, stale, approval, areaUp, areaCrashes, areaFaults>>
      /\ lease' \in [FileNames -> Uploaders \cup {None, FC!Gone}]
      /\ areaJournal' \in [FC!Workers -> {None, "staged", "bytes-published"}]
      /\ areaJournal'[w] = None /\ \A v \in FC!Workers \ {w} : areaJournal'[v] = areaJournal[v]
    BY <1>1, <1>2 DEF FC!Complete, FC!Close, FC!Free, FC!files, AreaInv, AreaTyped, FC!Name
<1>4. AreaJobsTyped' /\ AreaAlike(w) /\ AreaWent(w, "admit")
    BY <1>1, AreaGoesTo DEF FC!Complete, FC!Places, AreaWent
<1>5. AreaTyped'
    BY <1>3, <1>4 DEF AreaInv, AreaTyped, AreaJobsTyped
<1>6. AreaTurns' /\ AreaUploading'
    BY <1>1, <1>3, <1>4 DEF AreaInv, AreaTurns, AreaUploading, FC!Running, AreaAlike, AreaWent, AreaStopped
<1>7. AreaOwned'
    BY <1>1, <1>2, <1>3, <1>4 DEF AreaInv, AreaOwned, AreaOneOwner, AreaOwning, AreaAlike, AreaWent, AreaStopped
<1>12. AreaOneOwner'
    BY <1>1, <1>2, <1>3, <1>4 DEF AreaInv, AreaOwned, AreaOneOwner, AreaOwning, AreaAlike, AreaWent, AreaStopped
<1>8. AreaKept'
    BY <1>1, <1>2, <1>3, <1>4 DEF AreaInv, AreaKept, AreaAlike, AreaWent, AreaStopped
<1>13. AreaNobodyCreates'
    BY <1>1, <1>2, <1>3, <1>4 DEF AreaInv, AreaKept, AreaNobodyCreates, AreaCreating, AreaAlike, AreaWent, AreaStopped
<1>9. AreaCataloged'
    BY <1>1, <1>2, <1>3, <1>4 DEF AreaInv, AreaCataloged, AreaAdmitting, AreaInspecting, AreaAlike, AreaWent, AreaStopped
<1>11. AreaRefused'
    BY <1>1, <1>2, <1>3, <1>4 DEF AreaInv, AreaRefused, AreaAdmitting, AreaInspecting, AreaAlike, AreaWent, AreaStopped
<1>10. FC!ActiveIsPublished' /\ AreaAlone' /\ AreaInspected'
    BY <1>1, <1>3, <1>4 DEF AreaInv, FC!ActiveIsPublished, AreaAlone, AreaInspected, FC!CleanReport, AreaInspecting,
       AreaAlike, AreaWent, AreaStopped
<1> QED
    BY <1>5, <1>6, <1>7, <1>8, <1>9, <1>10, <1>11, <1>12, <1>13 DEF AreaInv

LEMMA AreaCreateKeeps ==
    ASSUME FC!CustodyAssumption, AreaInv, NEW w \in FC!Workers, FC!Create(w)
    PROVE  AreaInv'
<1>1. AreaJobsTyped /\ areaJob[w].at = "create" /\ areaJob[w].at # "idle" /\ FC!Running(w)
    BY DEF AreaInv, AreaTyped, AreaJobsTyped, FC!Create, FC!At
<1>2. /\ areaJob[w].name \in FileNames /\ areaJob[w].bytes \in Contents
      /\ \A v \in FC!Workers : areaJob[v].at # "idle" => areaJob[v].name \in FileNames /\ areaJob[v].bytes \in Contents
    BY <1>1, AreaBusyWorker
<1>3. /\ UNCHANGED <<areaRow, store, stale, approval, areaUp, areaCrashes, areaFaults>>
      /\ \/ (areaJournal' = areaJournal /\ lease' = lease)
         \/ /\ areaJournal' \in [FC!Workers -> {None, "staged", "bytes-published"}]
            /\ areaJournal'[w] = None /\ \A v \in FC!Workers \ {w} : areaJournal'[v] = areaJournal[v]
            /\ lease' \in [FileNames -> Uploaders \cup {None, FC!Gone}]
    BY <1>1, <1>2 DEF FC!Create, FC!Close, FC!Free, FC!files, AreaInv, AreaTyped, FC!Name
<1>4. /\ AreaJobsTyped' /\ AreaAlike(w)
      /\ \/ /\ AreaWent(w, "copy") /\ areaJournal' = areaJournal
            /\ area[areaJob[w].name] = None /\ areaRow[areaJob[w].name] = None
            /\ area' \in [FileNames -> Contents \cup {None, Partial}] /\ area'[areaJob[w].name] = Partial
            /\ \A n \in FileNames \ {areaJob[w].name} : area'[n] = area[n]
         \/ AreaStopped(w) /\ area' = area /\ areaJournal'[w] = None
    <2>1. FC!Goto(w, "copy") => AreaWent(w, "copy") /\ AreaJobsTyped'
        BY <1>1, AreaGoesTo DEF FC!Places
    <2>2. FC!Done(w) => AreaStopped(w) /\ AreaJobsTyped'
        BY <1>1, AreaGetsDone
    <2>3. area[areaJob[w].name] = None => areaRow[areaJob[w].name] = None
        BY <1>1, <1>2 DEF AreaInv, AreaNobodyCreates, AreaCreating
    <2> QED
        BY <1>1, <1>2, <2>1, <2>2, <2>3 DEF FC!Create, FC!Close, FC!Vacant, FC!Name, AreaWent, AreaStopped, AreaInv, AreaTyped
<1>5. AreaTyped'
    BY <1>3, <1>4 DEF AreaInv, AreaTyped, AreaJobsTyped
<1>6. AreaTurns' /\ AreaUploading'
    BY <1>1, <1>3, <1>4 DEF AreaInv, AreaTurns, AreaUploading, FC!Running, AreaAlike, AreaWent, AreaStopped
<1>7. AreaOwned'
    BY <1>1, <1>2, <1>3, <1>4 DEF AreaInv, AreaOwned, AreaOneOwner, AreaOwning, AreaAlike, AreaWent, AreaStopped, FC!CustodyAssumption
<1>12. AreaOneOwner'
    BY <1>1, <1>2, <1>3, <1>4 DEF AreaInv, AreaOwned, AreaOneOwner, AreaOwning, AreaAlike, AreaWent, AreaStopped, FC!CustodyAssumption
<1>8. AreaKept'
    BY <1>1, <1>2, <1>3, <1>4 DEF AreaInv, AreaKept, AreaAlike, AreaWent, AreaStopped
<1>13. AreaNobodyCreates'
    BY <1>1, <1>2, <1>3, <1>4 DEF AreaInv, AreaKept, AreaNobodyCreates, AreaCreating, AreaAlike, AreaWent, AreaStopped
<1>9. AreaCataloged'
    BY <1>1, <1>2, <1>3, <1>4 DEF AreaInv, AreaCataloged, AreaAdmitting, AreaInspecting, AreaAlike, AreaWent, AreaStopped
<1>11. AreaRefused'
    BY <1>1, <1>2, <1>3, <1>4 DEF AreaInv, AreaRefused, AreaAdmitting, AreaInspecting, AreaAlike, AreaWent, AreaStopped
<1>10. FC!ActiveIsPublished' /\ AreaAlone' /\ AreaInspected'
    BY <1>1, <1>3, <1>4 DEF AreaInv, FC!ActiveIsPublished, AreaAlone, AreaInspected, FC!CleanReport, AreaInspecting,
       AreaAlike, AreaWent, AreaStopped
<1> QED
    BY <1>5, <1>6, <1>7, <1>8, <1>9, <1>10, <1>11, <1>12, <1>13 DEF AreaInv

LEMMA AreaCopyKeeps ==
    ASSUME FC!CustodyAssumption, AreaInv, NEW w \in FC!Workers, FC!Copy(w)
    PROVE  AreaInv'
<1>1. AreaJobsTyped /\ areaJob[w].at = "copy" /\ areaJob[w].at # "idle" /\ FC!Running(w)
    BY DEF AreaInv, AreaTyped, AreaJobsTyped, FC!Copy, FC!At
<1>2. /\ areaJob[w].name \in FileNames /\ areaJob[w].bytes \in Contents
      /\ \A v \in FC!Workers : areaJob[v].at # "idle" => areaJob[v].name \in FileNames /\ areaJob[v].bytes \in Contents
    BY <1>1, AreaBusyWorker
<1>3. /\ UNCHANGED <<areaRow, store, stale, approval, areaUp, areaCrashes>> /\ areaFaults' \in 0..AreaFaults
      /\ \/ (areaJournal' = areaJournal /\ lease' = lease)
         \/ /\ areaJournal' \in [FC!Workers -> {None, "staged", "bytes-published"}]
            /\ areaJournal'[w] = None /\ \A v \in FC!Workers \ {w} : areaJournal'[v] = areaJournal[v]
            /\ lease' \in [FileNames -> Uploaders \cup {None, FC!Gone}]
    BY <1>1, <1>2 DEF FC!Copy, FC!Close, FC!Free, FC!files, AreaInv, AreaTyped, FC!Name, FC!CustodyAssumption
<1>4. /\ AreaJobsTyped' /\ AreaAlike(w) /\ areaRow[areaJob[w].name] = None
      /\ \/ /\ AreaWent(w, "mark") /\ areaJournal' = areaJournal
            /\ area' \in [FileNames -> Contents \cup {None, Partial}] /\ area'[areaJob[w].name] = areaJob[w].bytes
            /\ \A n \in FileNames \ {areaJob[w].name} : area'[n] = area[n]
         \/ /\ AreaStopped(w) /\ areaJournal'[w] = None
            /\ area' \in [FileNames -> Contents \cup {None, Partial}] /\ area'[areaJob[w].name] = None
            /\ \A n \in FileNames \ {areaJob[w].name} : area'[n] = area[n]
    <2>1. FC!Goto(w, "mark") => AreaWent(w, "mark") /\ AreaJobsTyped'
        BY <1>1, AreaGoesTo DEF FC!Places
    <2>2. FC!Done(w) => AreaStopped(w) /\ AreaJobsTyped'
        BY <1>1, AreaGetsDone
    <2>3. areaRow[areaJob[w].name] = None
        BY <1>1, <1>2 DEF AreaInv, AreaOwned, AreaOwning
    <2> QED
        BY <1>1, <1>2, <2>1, <2>2, <2>3 DEF FC!Copy, FC!Close, FC!Name, AreaWent, AreaStopped, AreaInv, AreaTyped
<1>5. AreaTyped'
    BY <1>3, <1>4 DEF AreaInv, AreaTyped, AreaJobsTyped
<1>6. AreaTurns' /\ AreaUploading'
    BY <1>1, <1>3, <1>4 DEF AreaInv, AreaTurns, AreaUploading, FC!Running, AreaAlike, AreaWent, AreaStopped
<1>7. AreaOwned'
    BY <1>1, <1>2, <1>3, <1>4 DEF AreaInv, AreaOwned, AreaOneOwner, AreaOwning, AreaAlike, AreaWent, AreaStopped
<1>12. AreaOneOwner'
    BY <1>1, <1>2, <1>3, <1>4 DEF AreaInv, AreaOwned, AreaOneOwner, AreaOwning, AreaAlike, AreaWent, AreaStopped
<1>8. AreaKept'
    BY <1>1, <1>2, <1>3, <1>4 DEF AreaInv, AreaKept, AreaAlike, AreaWent, AreaStopped
<1>13. AreaNobodyCreates'
    BY <1>1, <1>2, <1>3, <1>4 DEF AreaInv, AreaKept, AreaNobodyCreates, AreaCreating, AreaAlike, AreaWent, AreaStopped
<1>9. AreaCataloged'
    BY <1>1, <1>2, <1>3, <1>4 DEF AreaInv, AreaCataloged, AreaAdmitting, AreaInspecting, AreaAlike, AreaWent, AreaStopped
<1>11. AreaRefused'
    BY <1>1, <1>2, <1>3, <1>4 DEF AreaInv, AreaRefused, AreaAdmitting, AreaInspecting, AreaAlike, AreaWent, AreaStopped
<1>10. FC!ActiveIsPublished' /\ AreaAlone' /\ AreaInspected'
    BY <1>1, <1>3, <1>4 DEF AreaInv, FC!ActiveIsPublished, AreaAlone, AreaInspected, FC!CleanReport, AreaInspecting,
       AreaAlike, AreaWent, AreaStopped
<1> QED
    BY <1>5, <1>6, <1>7, <1>8, <1>9, <1>10, <1>11, <1>12, <1>13 DEF AreaInv

LEMMA AreaAliasKeeps ==
    ASSUME FC!CustodyAssumption, AreaInv, NEW w \in FC!Workers, FC!Alias(w)
    PROVE  AreaInv'
<1>1. AreaJobsTyped /\ areaJob[w].at = "alias" /\ areaJob[w].at # "idle" /\ FC!Running(w)
    BY DEF AreaInv, AreaTyped, AreaJobsTyped, FC!Alias, FC!At
<1>2. /\ areaJob[w].name \in FileNames /\ areaJob[w].bytes \in Contents
      /\ \A v \in FC!Workers : areaJob[v].at # "idle" => areaJob[v].name \in FileNames /\ areaJob[v].bytes \in Contents
    BY <1>1, AreaBusyWorker
<1>3. UNCHANGED <<areaRow, store, areaJournal, stale, lease, approval, areaUp, areaCrashes, areaFaults>>
    BY DEF FC!Alias, FC!operations
<1>4. /\ AreaJobsTyped' /\ AreaAlike(w)
      /\ \/ /\ AreaWent(w, "insert") /\ area[areaJob[w].name] = None /\ areaRow[areaJob[w].name] = None
            /\ area' \in [FileNames -> Contents \cup {None, Partial}] /\ area'[areaJob[w].name] = areaJob[w].bytes
            /\ \A n \in FileNames \ {areaJob[w].name} : area'[n] = area[n]
         \/ AreaStopped(w) /\ area' = area
    <2>1. FC!Goto(w, "insert") => AreaWent(w, "insert") /\ AreaJobsTyped'
        BY <1>1, AreaGoesTo DEF FC!Places
    <2>2. FC!Done(w) => AreaStopped(w) /\ AreaJobsTyped'
        BY <1>1, AreaGetsDone
    <2>3. area[areaJob[w].name] = None => areaRow[areaJob[w].name] = None
        BY <1>1, <1>2 DEF AreaInv, AreaNobodyCreates, AreaCreating
    <2> QED
        BY <1>1, <1>2, <2>1, <2>2, <2>3 DEF FC!Alias, FC!Name, AreaWent, AreaStopped, AreaInv, AreaTyped
<1>5. AreaTyped'
    BY <1>3, <1>4 DEF AreaInv, AreaTyped, AreaJobsTyped
<1>6. AreaTurns' /\ AreaUploading'
    BY <1>1, <1>3, <1>4 DEF AreaInv, AreaTurns, AreaUploading, FC!Running, AreaAlike, AreaWent, AreaStopped
<1>7. AreaOwned'
    BY <1>1, <1>2, <1>3, <1>4 DEF AreaInv, AreaOwned, AreaOneOwner, AreaOwning, AreaAlike, AreaWent, AreaStopped, FC!CustodyAssumption
<1>12. AreaOneOwner'
    BY <1>1, <1>2, <1>3, <1>4 DEF AreaInv, AreaOwned, AreaOneOwner, AreaOwning, AreaAlike, AreaWent, AreaStopped, FC!CustodyAssumption
<1>8. AreaKept'
    BY <1>1, <1>2, <1>3, <1>4 DEF AreaInv, AreaKept, AreaAlike, AreaWent, AreaStopped
<1>13. AreaNobodyCreates'
    BY <1>1, <1>2, <1>3, <1>4 DEF AreaInv, AreaKept, AreaNobodyCreates, AreaCreating, AreaAlike, AreaWent, AreaStopped
<1>9. AreaCataloged'
    BY <1>1, <1>2, <1>3, <1>4 DEF AreaInv, AreaCataloged, AreaAdmitting, AreaInspecting, AreaAlike, AreaWent, AreaStopped
<1>11. AreaRefused'
    BY <1>1, <1>2, <1>3, <1>4 DEF AreaInv, AreaRefused, AreaAdmitting, AreaInspecting, AreaAlike, AreaWent, AreaStopped
<1>10. FC!ActiveIsPublished' /\ AreaAlone' /\ AreaInspected'
    BY <1>1, <1>3, <1>4 DEF AreaInv, FC!ActiveIsPublished, AreaAlone, AreaInspected, FC!CleanReport, AreaInspecting,
       AreaAlike, AreaWent, AreaStopped
<1> QED
    BY <1>5, <1>6, <1>7, <1>8, <1>9, <1>10, <1>11, <1>12, <1>13 DEF AreaInv

\* A row and what admission writes to it.
LEMMA AreaRowTyped ==
    ASSUME AreaTyped, NEW n \in FileNames, areaRow[n] # None
    PROVE  areaRow[n] \in FC!Rows /\ areaRow[n].bytes \in Contents /\ areaRow[n].status \in FC!Statuses
<1>1. areaRow[n] \in FC!Rows
    BY DEF AreaTyped
<1>2. \A r \in FC!Rows : r.bytes \in Contents /\ r.status \in FC!Statuses
    BY DEF FC!Rows
<1> QED
    BY <1>1, <1>2

LEMMA AreaMadeRow ==
    /\ \A c \in Contents :
        [bytes |-> c, life |-> "pending-review", status |-> "missing", report |-> "none",
         hold |-> FALSE] \in FC!Rows
    /\ \A r \in FC!Rows, h \in BOOLEAN :
        [r EXCEPT !.status = "inspecting", !.report = "none", !.life = "pending-review",
                  !.hold = h] \in FC!Rows
    /\ \A r \in FC!Rows, v \in {"clean", "bad"} : [r EXCEPT !.report = v] \in FC!Rows
    /\ \A r \in FC!Rows, k \in FC!Statuses, l \in FC!Lives :
        [r EXCEPT !.status = k, !.life = l] \in FC!Rows
<1>1. \A c \in Contents :
        [bytes |-> c, life |-> "pending-review", status |-> "missing", report |-> "none",
         hold |-> FALSE] \in FC!Rows
    BY DEF FC!Rows, FC!Lives, FC!Statuses
<1>2. \A r \in FC!Rows, h \in BOOLEAN :
        [r EXCEPT !.status = "inspecting", !.report = "none", !.life = "pending-review",
                  !.hold = h] \in FC!Rows
    BY DEF FC!Rows, FC!Lives, FC!Statuses
<1>3. \A r \in FC!Rows, v \in {"clean", "bad"} : [r EXCEPT !.report = v] \in FC!Rows
    BY DEF FC!Rows
<1>4. \A r \in FC!Rows, k \in FC!Statuses, l \in FC!Lives :
        [r EXCEPT !.status = k, !.life = l] \in FC!Rows
    BY DEF FC!Rows
<1> QED
    BY <1>1, <1>2, <1>3, <1>4

\* One row is written, of a cataloged name, and its bytes stay.
AreaWritten(n) ==
    /\ areaRow' \in [FileNames -> FC!Rows \cup {None}] /\ areaRow'[n] \in FC!Rows
    /\ areaRow'[n].bytes = areaRow[n].bytes
    /\ \A m \in FileNames \ {n} : areaRow'[m] = areaRow[m]

LEMMA AreaRowReplaced ==
    ASSUME AreaTyped, NEW n \in FileNames, NEW q \in FC!Rows, q.bytes = areaRow[n].bytes,
           areaRow' = [areaRow EXCEPT ![n] = q]
    PROVE  AreaWritten(n) /\ areaRow'[n] = q
    BY DEF AreaTyped, AreaWritten

LEMMA AreaRowBegins ==
    ASSUME AreaTyped, NEW n \in FileNames, areaRow[n] # None, NEW h \in BOOLEAN,
           areaRow' = [areaRow EXCEPT ![n].status = "inspecting", ![n].report = "none",
                              ![n].life = "pending-review", ![n].hold = h]
    PROVE  /\ AreaWritten(n)
           /\ areaRow'[n].status = "inspecting" /\ areaRow'[n].life = "pending-review"
<1> DEFINE q == [areaRow[n] EXCEPT !.status = "inspecting", !.report = "none",
                               !.life = "pending-review", !.hold = h]
<1>1. areaRow[n] \in FC!Rows
    BY AreaRowTyped
<1>2. q \in FC!Rows
    BY <1>1, AreaMadeRow
<1>4. q.bytes = areaRow[n].bytes /\ q.status = "inspecting" /\ q.life = "pending-review"
    BY <1>1 DEF FC!Rows
<1>3. areaRow' = [areaRow EXCEPT ![n] = q]
    OBVIOUS
<1> HIDE DEF q
<1>5. AreaWritten(n) /\ areaRow'[n] = q
    BY <1>2, <1>3, <1>4, AreaRowReplaced, Zenon
<1> QED
    BY <1>4, <1>5, Zenon

LEMMA AreaRowReports ==
    ASSUME AreaTyped, NEW n \in FileNames, areaRow[n] # None, NEW v \in {"clean", "bad"},
           areaRow' = [areaRow EXCEPT ![n].report = v]
    PROVE  /\ AreaWritten(n)
           /\ areaRow'[n].status = areaRow[n].status /\ areaRow'[n].life = areaRow[n].life
           /\ areaRow'[n].report = v
<1> DEFINE q == [areaRow[n] EXCEPT !.report = v]
<1>1. areaRow[n] \in FC!Rows
    BY AreaRowTyped
<1>2. q \in FC!Rows
    BY <1>1, AreaMadeRow
<1>4. /\ q.bytes = areaRow[n].bytes /\ q.status = areaRow[n].status
      /\ q.life = areaRow[n].life /\ q.report = v
    BY <1>1 DEF FC!Rows
<1>3. areaRow' = [areaRow EXCEPT ![n] = q]
    OBVIOUS
<1> HIDE DEF q
<1> QED
    BY <1>2, <1>3, <1>4 DEF AreaTyped, AreaWritten

\* admission_status writes the lifecycle of the status.
LEMMA AreaStatusSettles ==
    ASSUME AreaTyped, NEW n \in FileNames, areaRow[n] # None, NEW k \in FC!Statuses, FC!Status(n, k)
    PROVE  /\ AreaWritten(n)
           /\ areaRow'[n].status = k /\ areaRow'[n].report = areaRow[n].report
           /\ areaRow'[n].life = "active" <=> k = "published"
<1> DEFINE l == FC!Life(k)
           q == [areaRow[n] EXCEPT !.status = k, !.life = l]
<1>1. areaRow[n] \in FC!Rows
    BY AreaRowTyped
<1>2. l \in FC!Lives /\ (l = "active" <=> k = "published")
    BY DEF FC!Life, FC!Lives
<1>3. areaRow' = [areaRow EXCEPT ![n] = q]
    BY DEF FC!Status
<1> HIDE DEF l
<1>4. q \in FC!Rows
    BY <1>1, <1>2, AreaMadeRow
<1>5. q.bytes = areaRow[n].bytes /\ q.status = k /\ q.report = areaRow[n].report /\ q.life = l
    BY <1>1 DEF FC!Rows
<1> HIDE DEF q
<1> QED
    BY <1>2, <1>3, <1>4, <1>5 DEF AreaTyped, AreaWritten

LEMMA AreaJobReplaced ==
    ASSUME AreaJobsTyped, NEW w \in FC!Workers, NEW j \in AreaBusy, areaJob' = [areaJob EXCEPT ![w] = j]
    PROVE  AreaJobsTyped' /\ AreaAlike(w) /\ areaJob'[w] = j
    BY DEF AreaJobsTyped, AreaAlike

\* The approval that a policy requires is decided when the inspection begins.
LEMMA AreaInspectionBegins ==
    ASSUME AreaJobsTyped, NEW w \in FC!Workers, areaJob[w].at # "idle", NEW h \in BOOLEAN,
           areaJob' = [areaJob EXCEPT ![w].at = "inspect", ![w].hold = h]
    PROVE  /\ AreaJobsTyped' /\ AreaAlike(w) /\ areaJob'[w].at = "inspect"
           /\ areaJob'[w].name = areaJob[w].name /\ areaJob'[w].bytes = areaJob[w].bytes
<1> DEFINE j == [areaJob[w] EXCEPT !.at = "inspect", !.hold = h]
<1>1. areaJob[w] \in AreaBusy
    BY AreaBusyWorker
<1>2. j.at = "inspect" /\ j.name = areaJob[w].name /\ j.bytes = areaJob[w].bytes
    BY <1>1 DEF AreaBusy
<1>3. \A b \in AreaBusy, k \in BOOLEAN : [b EXCEPT !.at = "inspect", !.hold = k] \in AreaBusy
    BY DEF AreaBusy, FC!Places
<1>4. j \in AreaBusy
    BY <1>1, <1>3
<1>5. areaJob' = [areaJob EXCEPT ![w] = j]
    OBVIOUS
<1> HIDE DEF j
<1>6. AreaJobsTyped' /\ AreaAlike(w) /\ areaJob'[w] = j
    BY <1>4, <1>5, AreaJobReplaced, Zenon
<1> QED
    BY <1>2, <1>6, Zenon

LEMMA AreaInspectionEnds ==
    ASSUME AreaJobsTyped, NEW w \in FC!Workers, areaJob[w].at # "idle", NEW v \in {"clean", "bad"},
           areaJob' = [areaJob EXCEPT ![w].at = "report", ![w].verdict = v]
    PROVE  /\ AreaJobsTyped' /\ AreaAlike(w) /\ areaJob'[w].at = "report" /\ areaJob'[w].verdict = v
           /\ areaJob'[w].name = areaJob[w].name /\ areaJob'[w].bytes = areaJob[w].bytes
<1> DEFINE j == [areaJob[w] EXCEPT !.at = "report", !.verdict = v]
<1>1. areaJob[w] \in AreaBusy
    BY AreaBusyWorker
<1>2. /\ j.at = "report" /\ j.name = areaJob[w].name /\ j.bytes = areaJob[w].bytes
      /\ j.verdict = v
    BY <1>1 DEF AreaBusy
<1>3. j \in AreaBusy
    BY <1>1 DEF AreaBusy, FC!Places
<1>5. areaJob' = [areaJob EXCEPT ![w] = j]
    OBVIOUS
<1> HIDE DEF j
<1>6. AreaJobsTyped' /\ AreaAlike(w) /\ areaJob'[w] = j
    BY <1>3, <1>5, AreaJobReplaced
<1> QED
    BY <1>2, <1>6

LEMMA AreaInsertKeeps ==
    ASSUME FC!CustodyAssumption, AreaInv, NEW w \in FC!Workers, FC!InsertRow(w)
    PROVE  AreaInv'
<1>1. AreaJobsTyped /\ areaJob[w].at = "insert" /\ areaJob[w].at # "idle" /\ FC!Running(w)
    BY DEF AreaInv, AreaTyped, AreaJobsTyped, FC!InsertRow, FC!At
<1>2. /\ areaJob[w].name \in FileNames /\ areaJob[w].bytes \in Contents
      /\ \A v \in FC!Workers : areaJob[v].at # "idle" => areaJob[v].name \in FileNames /\ areaJob[v].bytes \in Contents
      /\ \A n \in FileNames : areaRow[n] # None => areaRow[n] \in FC!Rows /\ areaRow[n].bytes \in Contents
      /\ None \notin FC!Rows /\ None \notin Contents
    BY <1>1, AreaBusyWorker, AreaRowTyped DEF AreaInv, FC!CustodyAssumption
<1>3. /\ UNCHANGED <<store, stale, approval, areaUp, areaCrashes>> /\ areaFaults' \in 0..AreaFaults
      /\ \/ (areaJournal' = areaJournal /\ lease' = lease)
         \/ /\ areaJournal' \in [FC!Workers -> {None, "staged", "bytes-published"}]
            /\ areaJournal'[w] = None /\ \A v \in FC!Workers \ {w} : areaJournal'[v] = areaJournal[v]
            /\ lease' \in [FileNames -> Uploaders \cup {None, FC!Gone}]
    BY <1>1, <1>2 DEF FC!InsertRow, FC!Insert, FC!Close, FC!Free, AreaInv, AreaTyped, FC!Name, FC!CustodyAssumption
<1>4. /\ AreaJobsTyped' /\ AreaAlike(w) /\ areaRow[areaJob[w].name] = None /\ area[areaJob[w].name] = areaJob[w].bytes
      /\ \/ /\ AreaWent(w, IF w \in Uploaders THEN "complete" ELSE "begin")
            /\ areaJournal' = areaJournal /\ area' = area
            /\ areaRow' \in [FileNames -> FC!Rows \cup {None}] /\ areaRow'[areaJob[w].name] \in FC!Rows
            /\ areaRow'[areaJob[w].name].bytes = areaJob[w].bytes
            /\ areaRow'[areaJob[w].name].status = "missing"
            /\ areaRow'[areaJob[w].name].life = "pending-review"
            /\ \A m \in FileNames \ {areaJob[w].name} : areaRow'[m] = areaRow[m]
         \/ /\ AreaStopped(w) /\ areaJournal'[w] = None /\ areaRow' = areaRow
            /\ area' \in [FileNames -> Contents \cup {None, Partial}] /\ area'[areaJob[w].name] = None
            /\ \A n \in FileNames \ {areaJob[w].name} : area'[n] = area[n]
    <2>1. \A p \in FC!Places \ {"idle"} : FC!Goto(w, p) => AreaWent(w, p) /\ AreaJobsTyped'
        BY <1>1, AreaGoesTo
    <2>2. FC!Done(w) => AreaStopped(w) /\ AreaJobsTyped'
        BY <1>1, AreaGetsDone
    <2>3. areaRow[areaJob[w].name] = None /\ area[areaJob[w].name] = areaJob[w].bytes
        BY <1>1, <1>2 DEF AreaInv, AreaOwned, AreaOwning
    <2>4. FC!NewRow(w) \in FC!Rows /\ FC!NewRow(w).bytes = areaJob[w].bytes
          /\ FC!NewRow(w).status = "missing" /\ FC!NewRow(w).life = "pending-review"
        BY <1>2, AreaMadeRow DEF FC!NewRow
    <2>5. \/ /\ areaRow' = [areaRow EXCEPT ![areaJob[w].name] = FC!NewRow(w)] /\ areaJournal' = areaJournal
             /\ area' = area /\ FC!Goto(w, IF w \in Uploaders THEN "complete" ELSE "begin")
          \/ /\ area' = [area EXCEPT ![areaJob[w].name] = None] /\ areaRow' = areaRow
             /\ areaJournal' = [areaJournal EXCEPT ![w] = None] /\ FC!Done(w)
        BY <2>3 DEF FC!InsertRow, FC!Insert, FC!Withdrawn, FC!Close, FC!Name
    <2>6. (IF w \in Uploaders THEN "complete" ELSE "begin") \in FC!Places \ {"idle"}
        BY DEF FC!Places
    <2> HIDE DEF FC!NewRow
    <2>7. CASE /\ areaRow' = [areaRow EXCEPT ![areaJob[w].name] = FC!NewRow(w)] /\ areaJournal' = areaJournal
               /\ area' = area /\ FC!Goto(w, IF w \in Uploaders THEN "complete" ELSE "begin")
        BY <1>2, <2>1, <2>3, <2>4, <2>6, <2>7 DEF AreaWent, AreaInv, AreaTyped
    <2>8. CASE /\ area' = [area EXCEPT ![areaJob[w].name] = None] /\ areaRow' = areaRow
               /\ areaJournal' = [areaJournal EXCEPT ![w] = None] /\ FC!Done(w)
        BY <1>2, <2>2, <2>3, <2>8 DEF AreaStopped, AreaInv, AreaTyped
    <2> QED
        BY <2>5, <2>7, <2>8
<1>5. AreaTyped'
    BY <1>3, <1>4 DEF AreaInv, AreaTyped, AreaJobsTyped
<1>6. AreaTurns' /\ AreaUploading'
    BY <1>1, <1>3, <1>4 DEF AreaInv, AreaTurns, AreaUploading, FC!Running, AreaAlike, AreaWent, AreaStopped
<1>7. AreaOwned'
    BY <1>1, <1>2, <1>3, <1>4 DEF AreaInv, AreaOwned, AreaOneOwner, AreaOwning, AreaAlike, AreaWent, AreaStopped
<1>12. AreaOneOwner'
    BY <1>1, <1>2, <1>3, <1>4 DEF AreaInv, AreaOwned, AreaOneOwner, AreaOwning, AreaAlike, AreaWent, AreaStopped
<1>8. AreaKept'
    BY <1>1, <1>2, <1>3, <1>4 DEF AreaInv, AreaKept, AreaAlike, AreaWent, AreaStopped
<1>13. AreaNobodyCreates'
    BY <1>1, <1>2, <1>3, <1>4 DEF AreaInv, AreaKept, AreaNobodyCreates, AreaCreating, AreaAlike, AreaWent, AreaStopped
<1>9. AreaCataloged'
    BY <1>1, <1>2, <1>3, <1>4 DEF AreaInv, AreaCataloged, AreaAdmitting, AreaInspecting, AreaAlike, AreaWent, AreaStopped, AreaOwned, AreaOwning
<1>11. AreaRefused'
    BY <1>1, <1>2, <1>3, <1>4 DEF AreaInv, AreaRefused, AreaAdmitting, AreaInspecting, AreaAlike, AreaWent, AreaStopped
<1>10. FC!ActiveIsPublished' /\ AreaAlone' /\ AreaInspected'
    BY <1>1, <1>2, <1>3, <1>4 DEF AreaInv, FC!ActiveIsPublished, AreaAlone, AreaInspected, FC!CleanReport,
       AreaInspecting, AreaAlike, AreaWent, AreaStopped, AreaCataloged, AreaAdmitting
<1> QED
    BY <1>5, <1>6, <1>7, <1>8, <1>9, <1>10, <1>11, <1>12, <1>13 DEF AreaInv

LEMMA AreaAdmitKeeps ==
    ASSUME FC!CustodyAssumption, AreaInv, NEW w \in FC!Workers, FC!Admit(w)
    PROVE  AreaInv'
<1>1. AreaJobsTyped /\ areaJob[w].at = "admit" /\ areaJob[w].at # "idle" /\ FC!Running(w)
    BY DEF AreaInv, AreaTyped, AreaJobsTyped, FC!Admit, FC!At
<1>2. /\ areaJob[w].name \in FileNames /\ areaJob[w].bytes \in Contents
      /\ \A v \in FC!Workers : areaJob[v].at # "idle" => areaJob[v].name \in FileNames /\ areaJob[v].bytes \in Contents
      /\ \A n \in FileNames : areaRow[n] # None => areaRow[n] \in FC!Rows /\ areaRow[n].bytes \in Contents
      /\ None \notin FC!Rows /\ None \notin Contents
    BY <1>1, AreaBusyWorker, AreaRowTyped DEF AreaInv, FC!CustodyAssumption
<1>3. UNCHANGED <<areaRow, area, areaJournal, stale, lease, approval, areaUp, areaCrashes, areaFaults>>
    BY DEF FC!Admit, FC!operations
<1>4. /\ AreaJobsTyped' /\ AreaAlike(w) /\ store \subseteq store' /\ store' \subseteq Contents
      /\ \/ AreaWent(w, "stored")
         \/ AreaStopped(w)
    <2>1. FC!Goto(w, "stored") => AreaWent(w, "stored") /\ AreaJobsTyped'
        BY <1>1, AreaGoesTo DEF FC!Places
    <2>2. FC!Done(w) => AreaStopped(w) /\ AreaJobsTyped'
        BY <1>1, AreaGetsDone
    <2>3. areaRow[areaJob[w].name] # None
        BY <1>1 DEF AreaInv, AreaCataloged, AreaAdmitting
    <2> QED
        BY <1>1, <1>2, <2>1, <2>2, <2>3 DEF FC!Admit, FC!Name, AreaWent, AreaStopped, AreaInv, AreaTyped
<1>5. AreaTyped'
    BY <1>3, <1>4 DEF AreaInv, AreaTyped, AreaJobsTyped
<1>6. AreaTurns' /\ AreaUploading'
    BY <1>1, <1>3, <1>4 DEF AreaInv, AreaTurns, AreaUploading, FC!Running, AreaAlike, AreaWent, AreaStopped
<1>7. AreaOwned'
    BY <1>1, <1>2, <1>3, <1>4 DEF AreaInv, AreaOwned, AreaOneOwner, AreaOwning, AreaAlike, AreaWent, AreaStopped
<1>12. AreaOneOwner'
    BY <1>1, <1>2, <1>3, <1>4 DEF AreaInv, AreaOwned, AreaOneOwner, AreaOwning, AreaAlike, AreaWent, AreaStopped
<1>8. AreaKept'
    BY <1>1, <1>2, <1>3, <1>4 DEF AreaInv, AreaKept, AreaAlike, AreaWent, AreaStopped
<1>13. AreaNobodyCreates'
    BY <1>1, <1>2, <1>3, <1>4 DEF AreaInv, AreaKept, AreaNobodyCreates, AreaCreating, AreaAlike, AreaWent, AreaStopped
<1>9. AreaCataloged'
    BY <1>1, <1>2, <1>3, <1>4 DEF AreaInv, AreaCataloged, AreaAdmitting, AreaInspecting, AreaAlike, AreaWent, AreaStopped
<1>11. AreaRefused'
    BY <1>1, <1>2, <1>3, <1>4 DEF AreaInv, AreaRefused, AreaAdmitting, AreaInspecting, AreaAlike, AreaWent, AreaStopped
<1>10. FC!ActiveIsPublished' /\ AreaAlone' /\ AreaInspected'
    BY <1>1, <1>3, <1>4 DEF AreaInv, FC!ActiveIsPublished, AreaAlone, AreaInspected, FC!CleanReport, AreaInspecting,
       AreaAlike, AreaWent, AreaStopped
<1> QED
    BY <1>5, <1>6, <1>7, <1>8, <1>9, <1>10, <1>11, <1>12, <1>13 DEF AreaInv

LEMMA AreaLinkKeeps ==
    ASSUME FC!CustodyAssumption, AreaInv, NEW w \in FC!Workers, FC!Link(w)
    PROVE  AreaInv'
<1>1. AreaJobsTyped /\ areaJob[w].at = "stored" /\ areaJob[w].at # "idle" /\ FC!Running(w)
    BY DEF AreaInv, AreaTyped, AreaJobsTyped, FC!Link, FC!At
<1>2. /\ areaJob[w].name \in FileNames /\ areaJob[w].bytes \in Contents
      /\ \A v \in FC!Workers : areaJob[v].at # "idle" => areaJob[v].name \in FileNames /\ areaJob[v].bytes \in Contents
      /\ \A n \in FileNames : areaRow[n] # None => areaRow[n] \in FC!Rows /\ areaRow[n].bytes \in Contents
      /\ None \notin FC!Rows /\ None \notin Contents
    BY <1>1, AreaBusyWorker, AreaRowTyped DEF AreaInv, FC!CustodyAssumption
<1>3. UNCHANGED <<areaRow, store, areaJournal, stale, lease, approval, areaUp, areaCrashes, areaFaults>>
    BY DEF FC!Link, FC!operations
<1>4. /\ AreaJobsTyped' /\ AreaAlike(w) /\ areaRow[areaJob[w].name] # None
      /\ \/ /\ AreaWent(w, "begin") /\ areaRow[areaJob[w].name].bytes \in store
            /\ area' \in [FileNames -> Contents \cup {None, Partial}] /\ area'[areaJob[w].name] = areaRow[areaJob[w].name].bytes
            /\ \A n \in FileNames \ {areaJob[w].name} : area'[n] = area[n]
         \/ AreaStopped(w) /\ area' = area
    <2>1. FC!Goto(w, "begin") => AreaWent(w, "begin") /\ AreaJobsTyped'
        BY <1>1, AreaGoesTo DEF FC!Places
    <2>2. FC!Done(w) => AreaStopped(w) /\ AreaJobsTyped'
        BY <1>1, AreaGetsDone
    <2>3. areaRow[areaJob[w].name] # None
        BY <1>1 DEF AreaInv, AreaCataloged, AreaAdmitting
    <2> QED
        BY <1>1, <1>2, <2>1, <2>2, <2>3 DEF FC!Link, FC!Name, AreaWent, AreaStopped, AreaInv, AreaTyped
<1>5. AreaTyped'
    BY <1>3, <1>4 DEF AreaInv, AreaTyped, AreaJobsTyped
<1>6. AreaTurns' /\ AreaUploading'
    BY <1>1, <1>3, <1>4 DEF AreaInv, AreaTurns, AreaUploading, FC!Running, AreaAlike, AreaWent, AreaStopped
<1>7. AreaOwned'
    BY <1>1, <1>2, <1>3, <1>4 DEF AreaInv, AreaOwned, AreaOneOwner, AreaOwning, AreaAlike, AreaWent, AreaStopped
<1>12. AreaOneOwner'
    BY <1>1, <1>2, <1>3, <1>4 DEF AreaInv, AreaOwned, AreaOneOwner, AreaOwning, AreaAlike, AreaWent, AreaStopped
<1>8. AreaKept'
    BY <1>1, <1>2, <1>3, <1>4 DEF AreaInv, AreaKept, AreaAlike, AreaWent, AreaStopped
<1>13. AreaNobodyCreates'
    BY <1>1, <1>2, <1>3, <1>4 DEF AreaInv, AreaKept, AreaNobodyCreates, AreaCreating, AreaAlike, AreaWent, AreaStopped
<1>9. AreaCataloged'
    BY <1>1, <1>2, <1>3, <1>4 DEF AreaInv, AreaCataloged, AreaAdmitting, AreaInspecting, AreaAlike, AreaWent, AreaStopped
<1>11. AreaRefused'
    BY <1>1, <1>2, <1>3, <1>4 DEF AreaInv, AreaRefused, AreaAdmitting, AreaInspecting, AreaAlike, AreaWent, AreaStopped
<1>10. FC!ActiveIsPublished' /\ AreaAlone' /\ AreaInspected'
    BY <1>1, <1>3, <1>4 DEF AreaInv, FC!ActiveIsPublished, AreaAlone, AreaInspected, FC!CleanReport, AreaInspecting,
       AreaAlike, AreaWent, AreaStopped
<1> QED
    BY <1>5, <1>6, <1>7, <1>8, <1>9, <1>10, <1>11, <1>12, <1>13 DEF AreaInv

\* Daemon and tool take turns: without callers no other worker runs.
LEMMA AreaOnlyWorker ==
    ASSUME FC!CustodyAssumption, AreaInv, Uploaders = {}, NEW w \in FC!Workers, FC!Running(w),
           NEW v \in FC!Workers, areaJob[v].at # "idle"
    PROVE  v = w
    BY DEF AreaInv, AreaTurns, FC!Running, FC!Workers, FC!CustodyAssumption

LEMMA AreaBeginKeeps ==
    ASSUME FC!CustodyAssumption, AreaInv, NEW w \in FC!Workers, FC!Begin(w)
    PROVE  AreaInv'
<1>1. AreaJobsTyped /\ areaJob[w].at = "begin" /\ areaJob[w].at # "idle" /\ FC!Running(w)
    BY DEF AreaInv, AreaTyped, AreaJobsTyped, FC!Begin, FC!At
<1>2. /\ areaJob[w].name \in FileNames /\ areaJob[w].bytes \in Contents
      /\ \A v \in FC!Workers : areaJob[v].at # "idle" => areaJob[v].name \in FileNames /\ areaJob[v].bytes \in Contents
      /\ \A n \in FileNames : areaRow[n] # None => areaRow[n] \in FC!Rows /\ areaRow[n].bytes \in Contents
      /\ None \notin FC!Rows /\ None \notin Contents
      /\ areaRow[areaJob[w].name] # None
      /\ Uploaders = {} => \A v \in FC!Workers : areaJob[v].at # "idle" => v = w
    BY <1>1, AreaBusyWorker, AreaRowTyped, AreaOnlyWorker DEF AreaCataloged, AreaAdmitting, AreaInspecting, AreaInv, FC!CustodyAssumption
<1>3. UNCHANGED <<area, store, areaJournal, stale, lease, approval, areaUp, areaCrashes, areaFaults>>
    BY DEF FC!Begin, FC!operations
<1>4. /\ AreaJobsTyped' /\ AreaAlike(w) /\ areaJob'[w].at = "inspect"
      /\ areaJob'[w].name = areaJob[w].name /\ areaJob'[w].bytes = areaJob[w].bytes
      /\ AreaWritten(areaJob[w].name) /\ areaRow'[areaJob[w].name].status = "inspecting"
      /\ areaRow'[areaJob[w].name].life = "pending-review"
    <2>1. PICK h \in BOOLEAN :
              /\ areaRow' = [areaRow EXCEPT ![areaJob[w].name].status = "inspecting",
                                    ![areaJob[w].name].report = "none",
                                    ![areaJob[w].name].life = "pending-review",
                                    ![areaJob[w].name].hold = h]
              /\ areaJob' = [areaJob EXCEPT ![w].at = "inspect", ![w].hold = h]
        BY Zenon DEF FC!Begin, FC!Name, FC!WhileInspected
    <2>2. AreaTyped
        BY DEF AreaInv
    <2>3. /\ AreaJobsTyped' /\ AreaAlike(w) /\ areaJob'[w].at = "inspect"
          /\ areaJob'[w].name = areaJob[w].name /\ areaJob'[w].bytes = areaJob[w].bytes
        BY <1>1, <2>1, AreaInspectionBegins, Zenon
    <2>4. /\ AreaWritten(areaJob[w].name) /\ areaRow'[areaJob[w].name].status = "inspecting"
          /\ areaRow'[areaJob[w].name].life = "pending-review"
        BY <1>2, <2>1, <2>2, AreaRowBegins, Zenon
    <2> QED
        BY <2>3, <2>4
<1>5. AreaTyped'
    BY <1>3, <1>4 DEF AreaInv, AreaTyped, AreaJobsTyped, AreaWritten
<1>6. AreaTurns' /\ AreaUploading'
    BY <1>1, <1>3, <1>4 DEF AreaInv, AreaTurns, AreaUploading, FC!Running, AreaAlike, AreaWent, AreaStopped
<1>7. AreaOwned'
    BY <1>1, <1>2, <1>3, <1>4 DEF AreaInv, AreaOwned, AreaOneOwner, AreaOwning, AreaAlike, AreaWent, AreaStopped,
       AreaWritten
<1>12. AreaOneOwner'
    BY <1>1, <1>2, <1>3, <1>4 DEF AreaInv, AreaOwned, AreaOneOwner, AreaOwning, AreaAlike, AreaWent, AreaStopped,
       AreaWritten
<1>8. AreaKept'
    BY <1>1, <1>2, <1>3, <1>4 DEF AreaInv, AreaKept, AreaAlike, AreaWent, AreaStopped,
       AreaWritten, AreaCataloged, AreaInspecting
<1>13. AreaNobodyCreates'
    BY <1>1, <1>2, <1>3, <1>4 DEF AreaInv, AreaKept, AreaNobodyCreates, AreaCreating, AreaAlike, AreaWent, AreaStopped,
       AreaWritten
<1>9. AreaCataloged'
    BY <1>1, <1>2, <1>3, <1>4 DEF AreaInv, AreaCataloged, AreaAdmitting, AreaInspecting, AreaAlike, AreaWent, AreaStopped,
       AreaWritten
<1>11. AreaRefused'
    BY <1>1, <1>2, <1>3, <1>4 DEF AreaInv, AreaRefused, AreaAdmitting, AreaInspecting, AreaAlike, AreaWent, AreaStopped,
       AreaWritten
<1>10. FC!ActiveIsPublished' /\ AreaAlone' /\ AreaInspected'
    BY <1>1, <1>2, <1>3, <1>4 DEF AreaInv, FC!ActiveIsPublished, AreaAlone, AreaInspected, FC!CleanReport,
       AreaInspecting, AreaAlike, AreaWent, AreaStopped, AreaWritten
<1> QED
    BY <1>5, <1>6, <1>7, <1>8, <1>9, <1>10, <1>11, <1>12, <1>13 DEF AreaInv

LEMMA AreaInspectKeeps ==
    ASSUME FC!CustodyAssumption, AreaInv, NEW w \in FC!Workers, NEW d \in {"clean", "bad"}, FC!Inspect(w, d)
    PROVE  AreaInv'
<1>1. AreaJobsTyped /\ areaJob[w].at = "inspect" /\ areaJob[w].at # "idle" /\ FC!Running(w)
    BY DEF AreaInv, AreaTyped, AreaJobsTyped, FC!Inspect, FC!At
<1>2. /\ areaJob[w].name \in FileNames /\ areaJob[w].bytes \in Contents
      /\ \A v \in FC!Workers : areaJob[v].at # "idle" => areaJob[v].name \in FileNames /\ areaJob[v].bytes \in Contents
      /\ \A n \in FileNames : areaRow[n] # None => areaRow[n] \in FC!Rows /\ areaRow[n].bytes \in Contents
      /\ None \notin FC!Rows /\ None \notin Contents
      /\ areaRow[areaJob[w].name] # None
      /\ Uploaders = {} => \A v \in FC!Workers : areaJob[v].at # "idle" => v = w
    BY <1>1, AreaBusyWorker, AreaRowTyped, AreaOnlyWorker DEF AreaCataloged, AreaAdmitting, AreaInspecting, AreaInv, FC!CustodyAssumption
<1>3. UNCHANGED <<areaRow, area, store, areaJournal, stale, lease, approval, areaUp, areaCrashes, areaFaults>>
    BY DEF FC!Inspect, FC!files, FC!operations
<1>4. /\ AreaJobsTyped' /\ AreaAlike(w)
      /\ \/ /\ areaJob'[w].at = "report" /\ areaJob'[w].verdict = d /\ d \in {"clean", "bad"}
            /\ areaJob'[w].name = areaJob[w].name /\ areaJob'[w].bytes = areaJob[w].bytes
         \/ AreaStopped(w)
    <2>1. d \in {"clean", "bad"}
        OBVIOUS
    <2>2. FC!Done(w) => AreaStopped(w) /\ AreaJobsTyped'
        BY <1>1, AreaGetsDone
    <2> QED
        BY <1>1, <2>1, <2>2, AreaInspectionEnds DEF FC!Inspect, AreaStopped
<1>5. AreaTyped'
    BY <1>3, <1>4 DEF AreaInv, AreaTyped, AreaJobsTyped
<1>6. AreaTurns' /\ AreaUploading'
    BY <1>1, <1>3, <1>4 DEF AreaInv, AreaTurns, AreaUploading, FC!Running, AreaAlike, AreaWent, AreaStopped
<1>7. AreaOwned'
    BY <1>1, <1>2, <1>3, <1>4 DEF AreaInv, AreaOwned, AreaOneOwner, AreaOwning, AreaAlike, AreaWent, AreaStopped
<1>12. AreaOneOwner'
    BY <1>1, <1>2, <1>3, <1>4 DEF AreaInv, AreaOwned, AreaOneOwner, AreaOwning, AreaAlike, AreaWent, AreaStopped
<1>8. AreaKept'
    BY <1>1, <1>2, <1>3, <1>4 DEF AreaInv, AreaKept, AreaAlike, AreaWent, AreaStopped
<1>13. AreaNobodyCreates'
    BY <1>1, <1>2, <1>3, <1>4 DEF AreaInv, AreaKept, AreaNobodyCreates, AreaCreating, AreaAlike, AreaWent, AreaStopped
<1>9. AreaCataloged'
    BY <1>1, <1>2, <1>3, <1>4 DEF AreaInv, AreaCataloged, AreaAdmitting, AreaInspecting, AreaAlike, AreaWent, AreaStopped
<1>11. AreaRefused'
    BY <1>1, <1>2, <1>3, <1>4 DEF AreaInv, AreaRefused, AreaAdmitting, AreaInspecting, AreaAlike, AreaWent, AreaStopped
<1>10. FC!ActiveIsPublished' /\ AreaAlone' /\ AreaInspected'
    BY <1>1, <1>2, <1>3, <1>4 DEF AreaInv, FC!ActiveIsPublished, AreaAlone, AreaInspected, FC!CleanReport,
       AreaInspecting, AreaAlike, AreaWent, AreaStopped
<1> QED
    BY <1>5, <1>6, <1>7, <1>8, <1>9, <1>10, <1>11, <1>12, <1>13 DEF AreaInv

LEMMA AreaReportKeeps ==
    ASSUME FC!CustodyAssumption, AreaInv, NEW w \in FC!Workers, FC!Report(w)
    PROVE  AreaInv'
<1>1. AreaJobsTyped /\ areaJob[w].at = "report" /\ areaJob[w].at # "idle" /\ FC!Running(w)
    BY DEF AreaInv, AreaTyped, AreaJobsTyped, FC!Report, FC!At
<1>2. /\ areaJob[w].name \in FileNames /\ areaJob[w].bytes \in Contents
      /\ \A v \in FC!Workers : areaJob[v].at # "idle" => areaJob[v].name \in FileNames /\ areaJob[v].bytes \in Contents
      /\ \A n \in FileNames : areaRow[n] # None => areaRow[n] \in FC!Rows /\ areaRow[n].bytes \in Contents
      /\ None \notin FC!Rows /\ None \notin Contents
      /\ areaRow[areaJob[w].name] # None
      /\ Uploaders = {} => \A v \in FC!Workers : areaJob[v].at # "idle" => v = w
    BY <1>1, AreaBusyWorker, AreaRowTyped, AreaOnlyWorker DEF AreaCataloged, AreaAdmitting, AreaInspecting, AreaInv, FC!CustodyAssumption
<1>3. UNCHANGED <<area, store, areaJournal, stale, lease, approval, areaUp, areaCrashes, areaFaults>>
    BY DEF FC!Report, FC!operations
<1>4. /\ AreaJobsTyped' /\ AreaAlike(w) /\ AreaWent(w, "decide") /\ AreaWritten(areaJob[w].name)
      /\ areaRow'[areaJob[w].name].status = areaRow[areaJob[w].name].status
      /\ areaRow'[areaJob[w].name].life = areaRow[areaJob[w].name].life
      /\ areaRow'[areaJob[w].name].report = areaJob[w].verdict
    <2>1. FC!Goto(w, "decide") => AreaWent(w, "decide") /\ AreaJobsTyped'
        BY <1>1, AreaGoesTo DEF FC!Places
    <2>2. areaJob[w].verdict \in {"clean", "bad"} /\ AreaTyped
        BY <1>1, AreaBusyWorker DEF AreaInv, AreaUploading
    <2> QED
        BY <1>2, <2>1, <2>2, AreaRowReports DEF FC!Report, FC!Name, AreaWent
<1>5. AreaTyped'
    BY <1>3, <1>4 DEF AreaInv, AreaTyped, AreaJobsTyped, AreaWritten
<1>6. AreaTurns' /\ AreaUploading'
    BY <1>1, <1>3, <1>4 DEF AreaInv, AreaTurns, AreaUploading, FC!Running, AreaAlike, AreaWent, AreaStopped
<1>7. AreaOwned'
    BY <1>1, <1>2, <1>3, <1>4 DEF AreaInv, AreaOwned, AreaOneOwner, AreaOwning, AreaAlike, AreaWent, AreaStopped,
       AreaWritten
<1>12. AreaOneOwner'
    BY <1>1, <1>2, <1>3, <1>4 DEF AreaInv, AreaOwned, AreaOneOwner, AreaOwning, AreaAlike, AreaWent, AreaStopped,
       AreaWritten
<1>8. AreaKept'
    BY <1>1, <1>2, <1>3, <1>4 DEF AreaInv, AreaKept, AreaAlike, AreaWent, AreaStopped,
       AreaWritten, AreaCataloged, AreaInspecting
<1>13. AreaNobodyCreates'
    BY <1>1, <1>2, <1>3, <1>4 DEF AreaInv, AreaKept, AreaNobodyCreates, AreaCreating, AreaAlike, AreaWent, AreaStopped,
       AreaWritten
<1>9. AreaCataloged'
    BY <1>1, <1>2, <1>3, <1>4 DEF AreaInv, AreaCataloged, AreaAdmitting, AreaInspecting, AreaAlike, AreaWent, AreaStopped,
       AreaWritten
<1>11. AreaRefused'
    BY <1>1, <1>2, <1>3, <1>4 DEF AreaInv, AreaRefused, AreaAdmitting, AreaInspecting, AreaAlike, AreaWent, AreaStopped,
       AreaWritten
<1>10. FC!ActiveIsPublished' /\ AreaAlone' /\ AreaInspected'
    BY <1>1, <1>2, <1>3, <1>4 DEF AreaInv, FC!ActiveIsPublished, AreaAlone, AreaInspected, FC!CleanReport,
       AreaInspecting, AreaAlike, AreaWent, AreaStopped, AreaWritten
<1> QED
    BY <1>5, <1>6, <1>7, <1>8, <1>9, <1>10, <1>11, <1>12, <1>13 DEF AreaInv

LEMMA AreaDecideKeeps ==
    ASSUME FC!CustodyAssumption, AreaInv, NEW w \in FC!Workers, FC!Decide(w)
    PROVE  AreaInv'
<1>1. AreaJobsTyped /\ areaJob[w].at = "decide" /\ areaJob[w].at # "idle" /\ FC!Running(w)
    BY DEF AreaInv, AreaTyped, AreaJobsTyped, FC!Decide, FC!At
<1>2. /\ areaJob[w].name \in FileNames /\ areaJob[w].bytes \in Contents
      /\ \A v \in FC!Workers : areaJob[v].at # "idle" => areaJob[v].name \in FileNames /\ areaJob[v].bytes \in Contents
      /\ \A n \in FileNames : areaRow[n] # None => areaRow[n] \in FC!Rows /\ areaRow[n].bytes \in Contents
      /\ None \notin FC!Rows /\ None \notin Contents
      /\ areaRow[areaJob[w].name] # None
      /\ Uploaders = {} => \A v \in FC!Workers : areaJob[v].at # "idle" => v = w
    BY <1>1, AreaBusyWorker, AreaRowTyped, AreaOnlyWorker DEF AreaCataloged, AreaAdmitting, AreaInspecting, AreaInv, FC!CustodyAssumption
<1>3. UNCHANGED <<area, store, areaJournal, stale, lease, approval, areaUp, areaCrashes, areaFaults>>
    BY DEF FC!Decide, FC!operations
<1>4. /\ AreaJobsTyped' /\ AreaAlike(w) /\ AreaStopped(w) /\ AreaWritten(areaJob[w].name)
      /\ areaRow'[areaJob[w].name].status \in {"quarantined", "pending-approval", "published"}
      /\ areaRow'[areaJob[w].name].life = "active" <=> areaRow'[areaJob[w].name].status = "published"
      /\ areaRow'[areaJob[w].name].report = areaRow[areaJob[w].name].report
      /\ areaJob[w].verdict = "bad" => areaRow'[areaJob[w].name].status = "quarantined"
      /\ areaJob[w].verdict \in {"clean", "bad"}
    <2>1. FC!Done(w) => AreaStopped(w) /\ AreaJobsTyped'
        BY <1>1, AreaGetsDone
    <2>2. areaJob[w].verdict \in {"clean", "bad"} /\ AreaTyped
        BY <1>1, AreaBusyWorker DEF AreaInv, AreaUploading
    <2>3. /\ FC!Decision(w) \in {"quarantined", "pending-approval", "published"}
          /\ areaJob[w].verdict = "bad" => FC!Decision(w) = "quarantined"
        BY DEF FC!Decision
    <2>4. FC!Decision(w) \in FC!Statuses
        BY <2>3 DEF FC!Statuses
    <2>5. FC!Status(areaJob[w].name, FC!Decision(w)) /\ FC!Done(w)
        BY DEF FC!Decide, FC!Name
    <2> HIDE DEF FC!Decision
    <2>6. /\ AreaWritten(areaJob[w].name) /\ areaRow'[areaJob[w].name].status = FC!Decision(w)
          /\ areaRow'[areaJob[w].name].report = areaRow[areaJob[w].name].report
          /\ areaRow'[areaJob[w].name].life = "active" <=> FC!Decision(w) = "published"
        BY <1>2, <2>2, <2>4, <2>5, AreaStatusSettles
    <2> QED
        BY <2>1, <2>2, <2>3, <2>5, <2>6 DEF AreaStopped
<1>5. AreaTyped'
    BY <1>3, <1>4 DEF AreaInv, AreaTyped, AreaJobsTyped, AreaWritten
<1>6. AreaTurns' /\ AreaUploading'
    BY <1>1, <1>3, <1>4 DEF AreaInv, AreaTurns, AreaUploading, FC!Running, AreaAlike, AreaWent, AreaStopped
<1>7. AreaOwned'
    BY <1>1, <1>2, <1>3, <1>4 DEF AreaInv, AreaOwned, AreaOneOwner, AreaOwning, AreaAlike, AreaWent, AreaStopped,
       AreaWritten
<1>12. AreaOneOwner'
    BY <1>1, <1>2, <1>3, <1>4 DEF AreaInv, AreaOwned, AreaOneOwner, AreaOwning, AreaAlike, AreaWent, AreaStopped,
       AreaWritten
<1>8. AreaKept'
    BY <1>1, <1>2, <1>3, <1>4 DEF AreaInv, AreaKept, AreaAlike, AreaWent, AreaStopped,
       AreaWritten, AreaCataloged, AreaInspecting
<1>13. AreaNobodyCreates'
    BY <1>1, <1>2, <1>3, <1>4 DEF AreaInv, AreaKept, AreaNobodyCreates, AreaCreating, AreaAlike, AreaWent, AreaStopped,
       AreaWritten
<1>9. AreaCataloged'
    BY <1>1, <1>2, <1>3, <1>4 DEF AreaInv, AreaCataloged, AreaAdmitting, AreaInspecting, AreaAlike, AreaWent, AreaStopped,
       AreaWritten
<1>11. AreaRefused'
    BY <1>1, <1>2, <1>3, <1>4 DEF AreaInv, AreaRefused, AreaAdmitting, AreaInspecting, AreaAlike, AreaWent, AreaStopped,
       AreaWritten
<1>10. FC!ActiveIsPublished' /\ AreaAlone' /\ AreaInspected'
    BY <1>1, <1>2, <1>3, <1>4 DEF AreaInv, FC!ActiveIsPublished, AreaAlone, AreaInspected, FC!CleanReport,
       AreaInspecting, AreaAlike, AreaWent, AreaStopped, AreaWritten
<1> QED
    BY <1>5, <1>6, <1>7, <1>8, <1>9, <1>10, <1>11, <1>12, <1>13 DEF AreaInv

LEMMA AreaImportKeeps ==
    ASSUME FC!CustodyAssumption, AreaInv, NEW w \in FC!Workers, NEW n \in FileNames, NEW c \in Contents, FC!Import(w, n, c)
    PROVE  AreaInv'
<1>1. AreaJobsTyped /\ areaJob[w].at = "idle" /\ FC!Running(w) /\ w \notin Uploaders /\ AreaTyped
    BY DEF AreaInv, AreaTyped, AreaJobsTyped, FC!Import, FC!At, FC!CustodyAssumption
<1>2. /\ \A v \in FC!Workers : areaJob[v].at # "idle" => areaJob[v].name \in FileNames /\ areaJob[v].bytes \in Contents
      /\ \A k \in FileNames : areaRow[k] # None => areaRow[k] \in FC!Rows /\ areaRow[k].bytes \in Contents
      /\ None \notin FC!Rows /\ None \notin Contents
    BY <1>1, AreaBusyWorker, AreaRowTyped DEF AreaInv, FC!CustodyAssumption
<1>3. /\ UNCHANGED <<areaRow, area, areaJournal, stale, lease, approval, areaUp, areaCrashes, areaFaults>>
      /\ store \subseteq store' /\ store' \subseteq Contents /\ c \in store'
    BY <1>1 DEF FC!Import, FC!operations, AreaTyped
<1>4. /\ AreaAlike(w) /\ AreaJobsTyped' /\ areaJob'[w].at = "lookup"
      /\ areaJob'[w].name = n /\ areaJob'[w].bytes = c
    <2>1. areaJob' = [areaJob EXCEPT ![w] = FC!Job("lookup", n, c, FALSE)]
        BY DEF FC!Import
    <2> QED
        BY <1>1, <2>1, AreaTakesJob DEF FC!Places
<1>5. AreaTyped'
    BY <1>3, <1>4 DEF AreaInv, AreaTyped, AreaJobsTyped
<1>6. AreaTurns' /\ AreaUploading'
    BY <1>1, <1>3, <1>4 DEF AreaInv, AreaTurns, AreaUploading, FC!Running, AreaAlike, AreaWent, AreaStopped
<1>7. AreaOwned'
    BY <1>1, <1>2, <1>3, <1>4 DEF AreaInv, AreaOwned, AreaOneOwner, AreaOwning, AreaAlike, AreaWent, AreaStopped
<1>12. AreaOneOwner'
    BY <1>1, <1>2, <1>3, <1>4 DEF AreaInv, AreaOwned, AreaOneOwner, AreaOwning, AreaAlike, AreaWent, AreaStopped
<1>8. AreaKept'
    BY <1>1, <1>2, <1>3, <1>4 DEF AreaInv, AreaKept, AreaAlike, AreaWent, AreaStopped
<1>13. AreaNobodyCreates'
    BY <1>1, <1>2, <1>3, <1>4 DEF AreaInv, AreaKept, AreaNobodyCreates, AreaCreating, AreaAlike, AreaWent, AreaStopped
<1>9. AreaCataloged'
    BY <1>1, <1>2, <1>3, <1>4 DEF AreaInv, AreaCataloged, AreaAdmitting, AreaInspecting, AreaAlike, AreaWent, AreaStopped
<1>11. AreaRefused'
    BY <1>1, <1>2, <1>3, <1>4 DEF AreaInv, AreaRefused, AreaAdmitting, AreaInspecting, AreaAlike, AreaWent, AreaStopped
<1>10. FC!ActiveIsPublished' /\ AreaAlone' /\ AreaInspected'
    BY <1>1, <1>2, <1>3, <1>4 DEF AreaInv, FC!ActiveIsPublished, AreaAlone, AreaInspected, FC!CleanReport,
       AreaInspecting, AreaAlike, AreaWent, AreaStopped
<1> QED
    BY <1>5, <1>6, <1>7, <1>8, <1>9, <1>10, <1>11, <1>12, <1>13 DEF AreaInv

LEMMA AreaUploadKeeps ==
    ASSUME FC!CustodyAssumption, AreaInv, NEW w \in FC!Workers, NEW n \in FileNames, NEW c \in Contents,
           NEW h \in BOOLEAN, FC!Upload(w, n, c, h)
    PROVE  AreaInv'
<1>1. AreaJobsTyped /\ areaJob[w].at = "idle" /\ FC!Running(w) /\ w \in Uploaders /\ areaRow[n] = None /\ AreaTyped
    BY DEF AreaInv, AreaTyped, AreaJobsTyped, FC!Upload, FC!At, FC!CustodyAssumption, FC!Running
<1>2. /\ \A v \in FC!Workers : areaJob[v].at # "idle" => areaJob[v].name \in FileNames /\ areaJob[v].bytes \in Contents
      /\ \A k \in FileNames : areaRow[k] # None => areaRow[k] \in FC!Rows /\ areaRow[k].bytes \in Contents
      /\ None \notin FC!Rows /\ None \notin Contents
    BY <1>1, AreaBusyWorker, AreaRowTyped DEF AreaInv, FC!CustodyAssumption
<1>3. UNCHANGED <<areaRow, area, store, areaJournal, stale, lease, approval, areaUp, areaCrashes, areaFaults>>
    BY <1>1 DEF FC!Upload, FC!files, FC!operations
<1>4. /\ AreaAlike(w) /\ AreaJobsTyped' /\ areaJob'[w].at = "operate"
      /\ areaJob'[w].name = n /\ areaJob'[w].bytes = c
    <2>1. areaJob' = [areaJob EXCEPT ![w] = FC!Job("operate", n, c, h)]
        BY DEF FC!Upload
    <2> QED
        BY <1>1, <2>1, AreaTakesJob DEF FC!Places
<1>5. AreaTyped'
    BY <1>3, <1>4 DEF AreaInv, AreaTyped, AreaJobsTyped
<1>6. AreaTurns' /\ AreaUploading'
    BY <1>1, <1>3, <1>4 DEF AreaInv, AreaTurns, AreaUploading, FC!Running, AreaAlike, AreaWent, AreaStopped
<1>7. AreaOwned'
    BY <1>1, <1>2, <1>3, <1>4 DEF AreaInv, AreaOwned, AreaOneOwner, AreaOwning, AreaAlike, AreaWent, AreaStopped
<1>12. AreaOneOwner'
    BY <1>1, <1>2, <1>3, <1>4 DEF AreaInv, AreaOwned, AreaOneOwner, AreaOwning, AreaAlike, AreaWent, AreaStopped
<1>8. AreaKept'
    BY <1>1, <1>2, <1>3, <1>4 DEF AreaInv, AreaKept, AreaAlike, AreaWent, AreaStopped
<1>13. AreaNobodyCreates'
    BY <1>1, <1>2, <1>3, <1>4 DEF AreaInv, AreaKept, AreaNobodyCreates, AreaCreating, AreaAlike, AreaWent, AreaStopped
<1>9. AreaCataloged'
    BY <1>1, <1>2, <1>3, <1>4 DEF AreaInv, AreaCataloged, AreaAdmitting, AreaInspecting, AreaAlike, AreaWent, AreaStopped
<1>11. AreaRefused'
    BY <1>1, <1>2, <1>3, <1>4 DEF AreaInv, AreaRefused, AreaAdmitting, AreaInspecting, AreaAlike, AreaWent, AreaStopped
<1>10. FC!ActiveIsPublished' /\ AreaAlone' /\ AreaInspected'
    BY <1>1, <1>2, <1>3, <1>4 DEF AreaInv, FC!ActiveIsPublished, AreaAlone, AreaInspected, FC!CleanReport,
       AreaInspecting, AreaAlike, AreaWent, AreaStopped
<1> QED
    BY <1>5, <1>6, <1>7, <1>8, <1>9, <1>10, <1>11, <1>12, <1>13 DEF AreaInv

LEMMA AreaRescanKeeps ==
    ASSUME FC!CustodyAssumption, AreaInv, NEW n \in FileNames, FC!Rescan(n)
    PROVE  AreaInv'
<1>1. /\ AreaJobsTyped /\ AreaTyped /\ FileTool \in FC!Workers /\ areaJob[FileTool].at = "idle"
      /\ FC!Running(FileTool) /\ areaRow[n] # None /\ FileTool \notin Uploaders
    BY DEF AreaInv, AreaTyped, AreaJobsTyped, FC!Rescan, FC!At, FC!CustodyAssumption, FC!Running, FC!Workers
<1>2. /\ \A v \in FC!Workers : areaJob[v].at # "idle" => areaJob[v].name \in FileNames /\ areaJob[v].bytes \in Contents
      /\ \A k \in FileNames : areaRow[k] # None => areaRow[k] \in FC!Rows /\ areaRow[k].bytes \in Contents
      /\ None \notin FC!Rows /\ None \notin Contents
    BY <1>1, AreaBusyWorker, AreaRowTyped DEF AreaInv, FC!CustodyAssumption
<1>3. UNCHANGED <<areaRow, area, store, areaJournal, stale, lease, approval, areaUp, areaCrashes, areaFaults>>
    BY <1>1 DEF FC!Rescan, FC!files, FC!operations
<1>4. /\ AreaAlike(FileTool) /\ AreaJobsTyped'
      /\ areaJob'[FileTool].name = n /\ areaJob'[FileTool].bytes = areaRow[n].bytes
      /\ \/ areaJob'[FileTool].at = "admit"
         \/ areaJob'[FileTool].at = "begin" /\ areaRow[n].status # "missing"
    <2>3. PICK c \in Contents : c = areaRow[n].bytes
        BY <1>1, <1>2
    <2>1. CASE /\ areaRow[n].status = "missing"
               /\ areaJob' = [areaJob EXCEPT ![FileTool] = FC!Job("admit", n, c, TRUE)]
      <3>1. "admit" \in FC!Places \ {"idle"}
          BY DEF FC!Places
      <3>2. /\ AreaAlike(FileTool) /\ AreaJobsTyped' /\ areaJob'[FileTool].at = "admit"
            /\ areaJob'[FileTool].name = n /\ areaJob'[FileTool].bytes = c
        <4> DEFINE j == FC!Job("admit", n, c, TRUE)
        <4>1. j \in AreaBusy /\ j.at = "admit" /\ j.name = n /\ j.bytes = c
            BY <3>1 DEF FC!Job, AreaBusy
        <4>2. areaJob' = [areaJob EXCEPT ![FileTool] = j]
            BY <2>1
        <4> HIDE DEF j
        <4> QED
            BY <1>1, <4>1, <4>2, AreaJobReplaced
      <3> QED
          BY <2>1, <2>3, <3>2
    <2>2. CASE /\ areaRow[n].status # "missing"
               /\ areaJob' = [areaJob EXCEPT ![FileTool] = FC!Job("begin", n, c, FALSE)]
      <3>1. "begin" \in FC!Places \ {"idle"}
          BY DEF FC!Places
      <3>2. /\ AreaAlike(FileTool) /\ AreaJobsTyped' /\ areaJob'[FileTool].at = "begin"
            /\ areaJob'[FileTool].name = n /\ areaJob'[FileTool].bytes = c
          BY <1>1, <2>2, <3>1, AreaTakesJob, Zenon
      <3> QED
          BY <2>2, <2>3, <3>2
    <2> QED
        BY <2>1, <2>2, <2>3 DEF FC!Rescan
<1>5. AreaTyped'
    BY <1>3, <1>4 DEF AreaInv, AreaTyped, AreaJobsTyped
<1>6. AreaTurns' /\ AreaUploading'
    BY <1>1, <1>3, <1>4 DEF AreaInv, AreaTurns, AreaUploading, FC!Running, AreaAlike, AreaWent, AreaStopped
<1>7. AreaOwned'
    BY <1>1, <1>2, <1>3, <1>4 DEF AreaInv, AreaOwned, AreaOneOwner, AreaOwning, AreaAlike, AreaWent, AreaStopped
<1>12. AreaOneOwner'
    BY <1>1, <1>2, <1>3, <1>4 DEF AreaInv, AreaOwned, AreaOneOwner, AreaOwning, AreaAlike, AreaWent, AreaStopped
<1>8. AreaKept'
    BY <1>1, <1>2, <1>3, <1>4 DEF AreaInv, AreaKept, AreaAlike, AreaWent, AreaStopped
<1>13. AreaNobodyCreates'
    BY <1>1, <1>2, <1>3, <1>4 DEF AreaInv, AreaKept, AreaNobodyCreates, AreaCreating, AreaAlike, AreaWent, AreaStopped
<1>9. AreaCataloged'
    BY <1>1, <1>2, <1>3, <1>4 DEF AreaInv, AreaCataloged, AreaAdmitting, AreaInspecting, AreaAlike, AreaWent, AreaStopped, AreaKept
<1>11. AreaRefused'
    BY <1>1, <1>2, <1>3, <1>4 DEF AreaInv, AreaRefused, AreaAdmitting, AreaInspecting, AreaAlike, AreaWent, AreaStopped
<1>10. FC!ActiveIsPublished' /\ AreaAlone' /\ AreaInspected'
    BY <1>1, <1>2, <1>3, <1>4 DEF AreaInv, FC!ActiveIsPublished, AreaAlone, AreaInspected, FC!CleanReport,
       AreaInspecting, AreaAlike, AreaWent, AreaStopped
<1> QED
    BY <1>5, <1>6, <1>7, <1>8, <1>9, <1>10, <1>11, <1>12, <1>13 DEF AreaInv

\* The operator's tool reviews and recovers alone.
LEMMA AreaAllIdle ==
    ASSUME FC!CustodyAssumption, AreaInv, ~areaUp, FC!At(FileTool, "idle")
    PROVE  \A w \in FC!Workers : areaJob[w].at = "idle"
    BY DEF AreaInv, AreaTurns, FC!Running, FC!At

LEMMA AreaReviewKeeps ==
    ASSUME FC!CustodyAssumption, AreaInv, NEW n \in FileNames, NEW approve \in BOOLEAN, FC!Review(n, approve)
    PROVE  AreaInv'
<1>1. /\ \A w \in FC!Workers : areaJob[w].at = "idle"
      /\ AreaTyped /\ areaRow[n] # None /\ areaRow[n].status # "missing" /\ None \notin FC!Rows
      /\ Uploaders = {} => (areaRow[n].status = "pending-approval" => areaRow[n].report = "clean")
    BY AreaAllIdle DEF FC!Review, AreaInv, AreaInspected, FC!CleanReport, FC!CustodyAssumption
<1>2. UNCHANGED <<area, store, areaJournal, stale, lease, approval, areaJob, areaUp, areaCrashes, areaFaults>>
    BY DEF FC!Review, FC!operations
<1>3. PICK k \in {"published", "rejected"} :
          FC!Status(n, k) /\ (k = "published" => areaRow[n].status = "pending-approval")
    <2>1. CASE approve
        BY <2>1 DEF FC!Review, FC!Approvable
    <2>2. CASE ~approve
        BY <2>2 DEF FC!Review
    <2> QED
        BY <2>1, <2>2
<1>4. /\ AreaWritten(n) /\ areaRow'[n].status = k /\ areaRow'[n].report = areaRow[n].report
      /\ areaRow'[n].life = "active" <=> k = "published"
    <2>1. k \in FC!Statuses
        BY DEF FC!Statuses
    <2> QED
        BY <1>1, <1>3, <2>1, AreaStatusSettles
<1>5. AreaTyped'
    BY <1>1, <1>2, <1>4 DEF AreaTyped, AreaWritten
<1>6. AreaTurns' /\ AreaUploading' /\ AreaOwned' /\ AreaOneOwner'
    BY <1>1, <1>2 DEF AreaInv, AreaTurns, AreaUploading, AreaOwned, AreaOneOwner, AreaOwning
<1>7. AreaKept'
    BY <1>1, <1>2, <1>4 DEF AreaInv, AreaKept, AreaWritten
<1>8. AreaNobodyCreates' /\ AreaCataloged' /\ AreaRefused'
    BY <1>1, <1>2 DEF AreaNobodyCreates, AreaCataloged, AreaRefused, AreaCreating, AreaAdmitting, AreaInspecting
<1>9. FC!ActiveIsPublished' /\ AreaAlone' /\ AreaInspected'
    BY <1>1, <1>2, <1>3, <1>4 DEF AreaInv, FC!ActiveIsPublished, AreaAlone, AreaInspected, FC!CleanReport,
       AreaInspecting, AreaWritten
<1> QED
    BY <1>5, <1>6, <1>7, <1>8, <1>9 DEF AreaInv

LEMMA AreaRecoverKeeps ==
    ASSUME FC!CustodyAssumption, AreaInv, NEW x \in stale, FC!Recover(x)
    PROVE  AreaInv'
<1>1. /\ \A w \in FC!Workers : areaJob[w].at = "idle"
      /\ AreaTyped /\ RecoversOps /\ x.name \in FileNames
    BY AreaAllIdle DEF FC!Recover, AreaInv, AreaTyped
<1>2. UNCHANGED <<areaRow, store, areaJournal, approval, areaJob, areaUp, areaCrashes, areaFaults>>
    BY DEF FC!Recover
<1>3. /\ area' \in [FileNames -> Contents \cup {None, Partial}]
      /\ \A n \in FileNames : area'[n] \in {area[n], None}
    BY <1>1 DEF FC!Recover, AreaTyped
<1>4. lease' \in [FileNames -> Uploaders \cup {None, FC!Gone}]
    BY <1>1 DEF FC!Recover, AreaTyped
<1>5. stale' \in SUBSET [name : FileNames, phase : {"staged", "bytes-published", "needs-review"}]
    <2>1. [x EXCEPT !.phase = "needs-review"] \in
              [name : FileNames, phase : {"staged", "bytes-published", "needs-review"}]
        BY <1>1 DEF AreaTyped
    <2> QED
        BY <1>1, <2>1 DEF FC!Recover, AreaTyped
<1>6. AreaTyped'
    BY <1>1, <1>2, <1>3, <1>4, <1>5 DEF AreaTyped
<1>7. AreaTurns' /\ AreaUploading' /\ AreaOwned' /\ AreaOneOwner'
    BY <1>1, <1>2 DEF AreaInv, AreaTurns, AreaUploading, AreaOwned, AreaOneOwner, AreaOwning
<1>8. AreaKept'
    BY <1>1, <1>2, <1>3 DEF AreaInv, AreaKept
<1>9. AreaNobodyCreates' /\ AreaCataloged' /\ AreaRefused'
    BY <1>1, <1>2 DEF AreaNobodyCreates, AreaCataloged, AreaRefused, AreaCreating, AreaAdmitting, AreaInspecting
<1>10. FC!ActiveIsPublished' /\ AreaAlone' /\ AreaInspected'
    BY <1>2 DEF AreaInv, FC!ActiveIsPublished, AreaAlone, AreaInspected, FC!CleanReport
<1> QED
    BY <1>6, <1>7, <1>8, <1>9, <1>10 DEF AreaInv

\* Whoever is gone leaves a journal row and a lease behind, and the files as they are.
LEMMA AreaAbandonKeeps ==
    ASSUME FC!CustodyAssumption, AreaInv, NEW W \in SUBSET FC!Workers, FC!Abandon(W),
           areaUp' \in BOOLEAN, areaCrashes' \in 0..AreaCrashes, areaFaults' \in 0..AreaFaults,
           \A w \in FC!Workers \ W : FC!Running(w) => FC!Running(w)'
    PROVE  AreaInv'
<1>1. AreaTyped /\ AreaJobsTyped
    BY DEF AreaInv, AreaTyped, AreaJobsTyped
<1>2. UNCHANGED <<areaRow, area, store, approval>>
    BY DEF FC!Abandon, FC!files
<1>3. /\ areaJob' = [w \in FC!Workers |-> IF w \in W THEN FC!Idle ELSE areaJob[w]]
      /\ \A w \in FC!Workers \ W : areaJob'[w] = areaJob[w]
      /\ \A w \in W : areaJob'[w].at = "idle"
    BY DEF FC!Abandon, FC!Idle
<1>4. /\ areaJournal' \in [FC!Workers -> {None, "staged", "bytes-published"}]
      /\ \A w \in FC!Workers : areaJournal'[w] # None => w \notin W /\ areaJournal'[w] = areaJournal[w]
    BY <1>1 DEF FC!Abandon, AreaTyped
<1>5. lease' \in [FileNames -> Uploaders \cup {None, FC!Gone}]
    BY <1>1 DEF FC!Abandon, AreaTyped
<1>6. stale' \in SUBSET [name : FileNames, phase : {"staged", "bytes-published", "needs-review"}]
    <2>1. \A w \in FC!Workers : areaJournal[w] # None
              => areaJob[w].name \in FileNames /\ areaJournal[w] \in {"staged", "bytes-published"}
        BY <1>1, AreaBusyWorker DEF AreaInv, AreaTyped, AreaUploading
    <2>2. FC!Left(W) \subseteq [name : FileNames, phase : {"staged", "bytes-published", "needs-review"}]
        BY <2>1 DEF FC!Left, FC!Name
    <2> QED
        BY <1>1, <2>2 DEF FC!Abandon, AreaTyped
<1>7. AreaTyped'
    BY <1>1, <1>2, <1>3, <1>4, <1>5, <1>6 DEF AreaTyped
<1>8. AreaTurns'
    <2> SUFFICES ASSUME NEW w \in FC!Workers, areaJob'[w].at # "idle" PROVE FC!Running(w)'
        BY DEF AreaTurns
    <2>1. w \notin W /\ areaJob[w].at # "idle"
        BY <1>3
    <2>2. FC!Running(w)
        BY <2>1 DEF AreaInv, AreaTurns
    <2> QED
        BY <2>1, <2>2
<1>9. AreaUploading' /\ AreaOwned' /\ AreaOneOwner'
    BY <1>2, <1>3, <1>4 DEF AreaInv, AreaUploading, AreaOwned, AreaOneOwner, AreaOwning
<1>10. AreaKept' /\ AreaNobodyCreates'
    BY <1>2, <1>3 DEF AreaInv, AreaKept, AreaNobodyCreates, AreaCreating
<1>11. AreaCataloged' /\ AreaRefused'
    BY <1>2, <1>3 DEF AreaInv, AreaCataloged, AreaRefused, AreaAdmitting, AreaInspecting
<1>12. FC!ActiveIsPublished' /\ AreaAlone' /\ AreaInspected'
    BY <1>2, <1>3 DEF AreaInv, FC!ActiveIsPublished, AreaAlone, AreaInspected, FC!CleanReport, AreaInspecting
<1> QED
    BY <1>7, <1>8, <1>9, <1>10, <1>11, <1>12 DEF AreaInv

LEMMA AreaGiveUpKeeps ==
    ASSUME FC!CustodyAssumption, AreaInv, NEW w \in FC!Workers, FC!GiveUp(w)
    PROVE  AreaInv'
<1>1. FC!Abandon({w}) /\ UNCHANGED <<areaUp, areaCrashes>> /\ areaFaults' \in 0..AreaFaults
    BY DEF FC!GiveUp, AreaInv, AreaTyped, FC!CustodyAssumption
<1>2. areaUp' \in BOOLEAN /\ areaCrashes' \in 0..AreaCrashes /\ {w} \in SUBSET FC!Workers
      /\ \A v \in FC!Workers \ {w} : FC!Running(v) => FC!Running(v)'
    BY <1>1 DEF AreaInv, AreaTyped, FC!Running
<1> QED
    BY <1>1, <1>2, AreaAbandonKeeps

LEMMA AreaCrashKeeps == ASSUME FC!CustodyAssumption, AreaInv, FC!Crash PROVE AreaInv'
<1>1. FC!Abandon(FC!Workers) /\ areaUp' = FALSE /\ areaCrashes' \in 0..AreaCrashes /\ areaFaults' \in 0..AreaFaults
    BY DEF FC!Crash, AreaInv, AreaTyped, FC!CustodyAssumption
<1>2. areaUp' \in BOOLEAN /\ \A v \in FC!Workers \ FC!Workers : FC!Running(v) => FC!Running(v)'
    BY <1>1
<1> QED
    BY <1>1, <1>2, AreaAbandonKeeps

\* What changes neither files nor jobs.
LEMMA AreaQuietKeeps ==
    ASSUME FC!CustodyAssumption, AreaInv, UNCHANGED <<areaRow, area, store, areaJournal, stale, areaJob>>,
           lease' \in [FileNames -> Uploaders \cup {None, FC!Gone}], approval' \in BOOLEAN,
           areaUp' \in BOOLEAN, UNCHANGED <<areaCrashes, areaFaults>>, AreaTurns'
    PROVE  AreaInv'
<1>1. AreaTyped'
    BY DEF AreaInv, AreaTyped
<1>2. AreaUploading' /\ AreaOwned' /\ AreaOneOwner'
    BY DEF AreaInv, AreaUploading, AreaOwned, AreaOneOwner
<1>3. AreaKept' /\ AreaNobodyCreates' /\ AreaCataloged' /\ AreaRefused'
    BY DEF AreaInv, AreaKept, AreaNobodyCreates, AreaCataloged, AreaRefused
<1>4. FC!ActiveIsPublished' /\ AreaAlone' /\ AreaInspected'
    BY DEF AreaInv, FC!ActiveIsPublished, AreaAlone, AreaInspected, FC!CleanReport
<1> QED
    BY <1>1, <1>2, <1>3, <1>4 DEF AreaInv

LEMMA AreaInitially == FC!CustodyAssumption /\ FC!Init => AreaInv
<1> SUFFICES ASSUME FC!CustodyAssumption, FC!Init PROVE AreaInv
    OBVIOUS
<1>1. \A w \in FC!Workers : areaJob[w].at = "idle" /\ areaJob[w] = FC!Idle /\ areaJournal[w] = None
    BY DEF FC!Init, FC!Idle
<1>2. \A n \in FileNames : areaRow[n] = None
    BY DEF FC!Init
<1>3. AreaTyped
    BY <1>1 DEF FC!Init, AreaTyped, FC!CustodyAssumption
<1>4. AreaTurns /\ AreaUploading /\ AreaOwned /\ AreaOneOwner
    BY <1>1 DEF AreaTurns, AreaUploading, AreaOwned, AreaOneOwner, AreaOwning
<1>5. AreaKept /\ FC!ActiveIsPublished /\ AreaInspected
    BY <1>2 DEF AreaKept, FC!ActiveIsPublished, AreaInspected, FC!CleanReport
<1>6. AreaNobodyCreates /\ AreaCataloged /\ AreaRefused /\ AreaAlone
    BY <1>1 DEF AreaNobodyCreates, AreaCataloged, AreaRefused, AreaAlone, AreaCreating, AreaAdmitting, AreaInspecting
<1> QED
    BY <1>3, <1>4, <1>5, <1>6 DEF AreaInv

LEMMA AreaStepKeeps == ASSUME FC!CustodyAssumption, AreaInv, NEW w \in FC!Workers, FC!Step(w) PROVE AreaInv'
<1>1. FC!Operate(w) \/ FC!Create(w) \/ FC!Copy(w) \/ FC!Mark(w) => AreaInv'
    BY AreaOperateKeeps, AreaCreateKeeps, AreaCopyKeeps, AreaMarkKeeps
<1>2. FC!InsertRow(w) \/ FC!Complete(w) \/ FC!Admit(w) \/ FC!Link(w) => AreaInv'
    BY AreaInsertKeeps, AreaCompleteKeeps, AreaAdmitKeeps, AreaLinkKeeps
<1>3. FC!Lookup(w) \/ FC!Alias(w) \/ FC!Begin(w) \/ FC!Report(w) \/ FC!Decide(w) => AreaInv'
    BY AreaLookupKeeps, AreaAliasKeeps, AreaBeginKeeps, AreaReportKeeps, AreaDecideKeeps
<1>4. (\E v \in {"clean", "bad"} : FC!Inspect(w, v)) => AreaInv'
    BY AreaInspectKeeps
<1> QED
    BY <1>1, <1>2, <1>3, <1>4, Zenon DEF FC!Step

LEMMA AreaNextKeeps == FC!CustodyAssumption /\ AreaInv /\ [FC!Next]_(FC!vars) => AreaInv'
<1> SUFFICES ASSUME FC!CustodyAssumption, AreaInv, [FC!Next]_(FC!vars) PROVE AreaInv'
    OBVIOUS
<1>1. ASSUME NEW w \in FC!Workers, FC!Step(w) \/ FC!GiveUp(w) PROVE AreaInv'
    BY <1>1, AreaStepKeeps, AreaGiveUpKeeps, Zenon
<1>2. FC!Arrive => AreaInv'
  <2>1. {Network, FileTool} \subseteq FC!Workers /\ Uploaders \subseteq FC!Workers
      BY DEF FC!Workers
  <2>2. ASSUME NEW n \in FileNames, NEW c \in Contents, NEW w \in FC!Workers, FC!Import(w, n, c)
        PROVE  AreaInv'
      BY <2>2, AreaImportKeeps, Zenon
  <2>3. ASSUME NEW n \in FileNames, NEW c \in Contents, NEW w \in FC!Workers, NEW h \in BOOLEAN,
               FC!Upload(w, n, c, h)
        PROVE  AreaInv'
      BY <2>3, AreaUploadKeeps, Zenon
  <2> QED
      BY <2>1, <2>2, <2>3, Zenon DEF FC!Arrive
<1>3. FC!SetPolicy => AreaInv'
  <2> SUFFICES ASSUME FC!SetPolicy PROVE AreaInv'
      OBVIOUS
  <2>1. UNCHANGED <<areaRow, area, store, areaJournal, stale, lease, areaJob, areaUp, areaCrashes, areaFaults>>
      BY DEF FC!SetPolicy, FC!files, FC!operations
  <2>2. approval' \in BOOLEAN
      BY Zenon DEF FC!SetPolicy
  <2>3. AreaTurns' /\ lease' \in [FileNames -> Uploaders \cup {None, FC!Gone}] /\ areaUp' \in BOOLEAN
      BY <2>1 DEF AreaInv, AreaTyped, AreaTurns, FC!Running
  <2> QED
      BY <2>1, <2>2, <2>3, AreaQuietKeeps
<1>4. ASSUME NEW n \in FileNames, FC!LeaseExpires(n) PROVE AreaInv'
  <2>1. UNCHANGED <<areaRow, area, store, areaJournal, stale, approval, areaJob, areaUp, areaCrashes, areaFaults>>
      BY <1>4 DEF FC!LeaseExpires, FC!files
  <2>2. AreaTurns' /\ lease' \in [FileNames -> Uploaders \cup {None, FC!Gone}]
        /\ areaUp' \in BOOLEAN /\ approval' \in BOOLEAN
      BY <1>4, <2>1 DEF FC!LeaseExpires, AreaInv, AreaTyped, AreaTurns, FC!Running
  <2> QED
      BY <2>1, <2>2, AreaQuietKeeps
<1>5. FC!Stop \/ FC!Start => AreaInv'
  <2> SUFFICES ASSUME FC!Stop \/ FC!Start PROVE AreaInv'
      OBVIOUS
  <2>1. UNCHANGED <<areaRow, area, store, areaJournal, stale, lease, approval, areaJob, areaCrashes, areaFaults>>
      BY DEF FC!Stop, FC!Start, FC!files, FC!operations
  <2>4. areaUp' \in BOOLEAN
      BY Zenon DEF FC!Stop, FC!Start
  <2>2. \A w \in FC!Workers : areaJob[w].at = "idle"
      BY AreaAllIdle DEF FC!Stop, FC!Start, FC!At
  <2>3. AreaTurns' /\ lease' \in [FileNames -> Uploaders \cup {None, FC!Gone}] /\ approval' \in BOOLEAN
      BY <2>1, <2>2 DEF AreaInv, AreaTyped, AreaTurns
  <2> QED
      BY <2>1, <2>3, <2>4, AreaQuietKeeps
<1>6. FC!Operator => AreaInv'
    BY <1>3, AreaRescanKeeps, AreaReviewKeeps, AreaRecoverKeeps, Zenon DEF FC!Operator
<1>7. UNCHANGED FC!vars => AreaInv'
  <2> SUFFICES ASSUME UNCHANGED FC!vars PROVE AreaInv'
      OBVIOUS
  <2>1. UNCHANGED <<areaRow, area, store, areaJournal, stale, lease, approval, areaJob, areaUp, areaCrashes, areaFaults>>
      BY DEF FC!vars, FC!files, FC!operations
  <2>2. AreaTurns' /\ lease' \in [FileNames -> Uploaders \cup {None, FC!Gone}]
        /\ areaUp' \in BOOLEAN /\ approval' \in BOOLEAN
      BY <2>1 DEF AreaInv, AreaTyped, AreaTurns, FC!Running
  <2> QED
      BY <2>1, <2>2, AreaQuietKeeps
<1> QED
    BY <1>1, <1>2, <1>4, <1>5, <1>6, <1>7, AreaCrashKeeps, Zenon DEF FC!Next

-----------------------------------------------------------------------------
(***************************************************************************)
(* What the catalog promises.                                              *)
(***************************************************************************)

\* The invariant holds of uploads, imports, inspections, reviews and recoveries in any
\* order, with crashes, failures and expired leases (file.rs, files/mod.rs).
THEOREM CustodyInvariant == FC!CustodyAssumption => (FC!Spec => []AreaInv)
<1> SUFFICES ASSUME FC!CustodyAssumption PROVE FC!Spec => []AreaInv
    OBVIOUS
<1>1. FC!Init => AreaInv
    BY AreaInitially
<1>2. AreaInv /\ [FC!Next]_(FC!vars) => AreaInv'
    BY AreaNextKeeps
<1> QED
    BY <1>1, <1>2, PTL DEF FC!Spec

\* What callers can download has been decided, and decided so (finish_admission,
\* admission_status).
THEOREM ActiveIsPublishedHolds ==
    FC!CustodyAssumption => (FC!Spec => []FC!TypeOK /\ []FC!ActiveIsPublished)
<1> SUFFICES ASSUME FC!CustodyAssumption PROVE FC!Spec => []FC!TypeOK /\ []FC!ActiveIsPublished
    OBVIOUS
<1>1. AreaInv => FC!TypeOK
    BY AreaBusyWorker DEF AreaInv, AreaTyped, FC!TypeOK, AreaJobsTyped, FC!Places
<1>2. AreaInv => FC!ActiveIsPublished
    BY DEF AreaInv
<1> QED
    BY <1>1, <1>2, CustodyInvariant, PTL

\* No other bytes come to stand under the name of a cataloged file, and what was
\* inspected stays in the store, whatever recovery removes (commit_upload, link_content,
\* recover_file_operations).
THEOREM NoForeignBytesHolds ==
    FC!CustodyAssumption => (FC!Spec => []FC!NoForeignBytes /\ []FC!InspectedIsStored)
<1> SUFFICES ASSUME FC!CustodyAssumption PROVE FC!Spec => []FC!NoForeignBytes /\ []FC!InspectedIsStored
    OBVIOUS
<1>1. AreaInv => FC!NoForeignBytes /\ FC!InspectedIsStored
    BY DEF AreaInv, AreaKept, FC!NoForeignBytes, FC!InspectedIsStored
<1> QED
    BY <1>1, CustodyInvariant, PTL

\* As long as recover_file_operations is not called, and the daemon does not call it,
\* the bytes of every row are in the area, and in the store once they were inspected.
THEOREM CatalogHasBytesHolds ==
    FC!CustodyAssumption /\ ~RecoversOps => (FC!Spec => []FC!CatalogHasBytes)
<1> SUFFICES ASSUME FC!CustodyAssumption, ~RecoversOps PROVE FC!Spec => []FC!CatalogHasBytes
    OBVIOUS
<1>1. AreaInv => FC!CatalogHasBytes
    BY DEF AreaInv, AreaKept, FC!CatalogHasBytes, FC!InspectedIsStored
<1> QED
    BY <1>1, CustodyInvariant, PTL

\* Where no caller uploads, what is published or may be approved has a clean report
\* (finish_admission, review_file_admission).
THEOREM CleanReportHolds == FC!CustodyAssumption /\ Uploaders = {} => (FC!Spec => []FC!CleanReport)
<1> SUFFICES ASSUME FC!CustodyAssumption, Uploaders = {} PROVE FC!Spec => []FC!CleanReport
    OBVIOUS
<1>1. AreaInv => FC!CleanReport
    BY DEF AreaInv, AreaInspected
<1> QED
    BY <1>1, CustodyInvariant, PTL

\* What an inspection is about to report or decide is a result the bytes can have.
AreaHonest ==
    \A w \in FC!Workers : areaJob[w].at \in {"report", "decide"}
                       => areaJob[w].verdict \in Verdicts[areaRow[areaJob[w].name].bytes]

\* Every step leaves a file as it was, inserts it undecided, takes it out of circulation,
\* writes a report, decides by a clean verdict or approves what awaits approval; and a
\* cataloged file keeps its bytes.
AreaOfferedBy(n, w) ==
    /\ w \in FC!Workers /\ areaJob[w].at = "decide" /\ areaJob[w].name = n /\ areaJob[w].verdict # "bad"
AreaRowMoves ==
    \A n \in FileNames :
        /\ areaRow[n] # None => areaRow'[n] # None /\ areaRow'[n].bytes = areaRow[n].bytes
        /\ areaRow'[n] # None /\ areaRow'[n].status \in {"published", "pending-approval"}
            => /\ areaRow[n] # None
               /\ \/ areaRow[n].status \in {"published", "pending-approval"}
                  \/ \E w \in FC!Workers : AreaOfferedBy(n, w)

LEMMA AreaRowsMove ==
    ASSUME FC!CustodyAssumption, AreaInv, FC!Next PROVE AreaRowMoves
<1>1. /\ areaRow \in [FileNames -> FC!Rows \cup {None}] /\ None \notin FC!Rows /\ AreaJobsTyped
      /\ \A w \in FC!Workers : areaJob[w].at # "idle" => areaJob[w].name \in FileNames
    BY AreaBusyWorker DEF AreaInv, AreaTyped, AreaJobsTyped, FC!CustodyAssumption
<1>2. areaRow' = areaRow => AreaRowMoves
    BY DEF AreaRowMoves
<1>3. ASSUME NEW w \in FC!Workers, FC!Step(w) PROVE AreaRowMoves
  <2>1. CASE FC!InsertRow(w)
    <3>1. /\ areaJob[w].at = "insert" /\ areaJob[w].name \in FileNames /\ areaRow[areaJob[w].name] = None
          /\ FC!Insert(w)
        BY <1>1, <2>1 DEF FC!InsertRow, FC!At, AreaInv, AreaOwned, AreaOwning
    <3>2. areaRow' = areaRow \/ areaRow' = [areaRow EXCEPT ![areaJob[w].name] = FC!NewRow(w)]
        BY <3>1 DEF FC!Insert, FC!Name
    <3>3. FC!NewRow(w).status = "missing"
        BY DEF FC!NewRow
    <3> QED
        BY <1>1, <1>2, <3>1, <3>2, <3>3 DEF AreaRowMoves
  <2>2. CASE FC!Begin(w) \/ FC!Report(w) \/ FC!Decide(w)
    <3>1. /\ areaJob[w].at \in {"begin", "report", "decide"} /\ areaJob[w].name \in FileNames
          /\ areaRow[areaJob[w].name] # None /\ areaRow[areaJob[w].name] \in FC!Rows
        BY <1>1, <2>2 DEF FC!Begin, FC!Report, FC!Decide, FC!At, AreaInv, AreaCataloged, AreaAdmitting, AreaInspecting
    <3>2. CASE FC!Begin(w)
      <4>1. /\ \A n \in FileNames \ {areaJob[w].name} : areaRow'[n] = areaRow[n]
            /\ areaRow'[areaJob[w].name] \in FC!Rows /\ areaRow'[areaJob[w].name].bytes = areaRow[areaJob[w].name].bytes
            /\ areaRow'[areaJob[w].name].status = "inspecting"
        <5> DEFINE h == approval \/ areaJob[w].hold
        <5>1. h \in BOOLEAN /\ AreaTyped
            BY <1>1, <3>1, AreaBusyWorker DEF AreaInv, AreaTyped
        <5>2. areaRow' = [areaRow EXCEPT ![areaJob[w].name].status = "inspecting",
                                 ![areaJob[w].name].report = "none",
                                 ![areaJob[w].name].life = "pending-review",
                                 ![areaJob[w].name].hold = h]
            BY <3>2 DEF FC!Begin, FC!Name, FC!WhileInspected
        <5> HIDE DEF h
        <5>4. AreaWritten(areaJob[w].name) /\ areaRow'[areaJob[w].name].status = "inspecting"
            BY <3>1, <5>1, <5>2, AreaRowBegins
        <5> QED
            BY <5>4 DEF AreaWritten
      <4> QED
          BY <1>1, <3>1, <4>1 DEF AreaRowMoves
    <3>3. CASE FC!Report(w)
      <4>1. /\ \A n \in FileNames \ {areaJob[w].name} : areaRow'[n] = areaRow[n]
            /\ areaRow'[areaJob[w].name] \in FC!Rows /\ areaRow'[areaJob[w].name].bytes = areaRow[areaJob[w].name].bytes
            /\ areaRow'[areaJob[w].name].status = areaRow[areaJob[w].name].status
        <5>1. AreaTyped /\ areaJob[w].verdict \in {"clean", "bad"}
            BY <1>1, <3>1, <3>3, AreaBusyWorker DEF AreaInv, AreaUploading, FC!Report, FC!At
        <5>2. areaRow' = [areaRow EXCEPT ![areaJob[w].name].report = areaJob[w].verdict]
            BY <3>3 DEF FC!Report, FC!Name
        <5>3. AreaWritten(areaJob[w].name) /\ areaRow'[areaJob[w].name].status = areaRow[areaJob[w].name].status
            BY <3>1, <5>1, <5>2, AreaRowReports
        <5> QED
            BY <5>3 DEF AreaWritten
      <4> QED
          BY <1>1, <3>1, <4>1 DEF AreaRowMoves
    <3>4. CASE FC!Decide(w)
      <4>1. PICK k \in FC!Statuses : FC!Status(areaJob[w].name, k) /\ k = FC!Decision(w) /\ FC!At(w, "decide")
          BY <3>4 DEF FC!Decide, FC!Decision, FC!Statuses, FC!Name
      <4>2. /\ \A n \in FileNames \ {areaJob[w].name} : areaRow'[n] = areaRow[n]
            /\ areaRow'[areaJob[w].name] \in FC!Rows /\ areaRow'[areaJob[w].name].bytes = areaRow[areaJob[w].name].bytes
            /\ areaRow'[areaJob[w].name].status = k
        <5>1. AreaWritten(areaJob[w].name) /\ areaRow'[areaJob[w].name].status = k
            BY <3>1, <4>1, AreaStatusSettles DEF AreaInv
        <5> QED
            BY <5>1 DEF AreaWritten
      <4>3. k \in {"published", "pending-approval"} => AreaOfferedBy(areaJob[w].name, w)
          BY <4>1 DEF FC!Decision, AreaOfferedBy, FC!At
      <4> QED
          BY <1>1, <3>1, <4>2, <4>3 DEF AreaRowMoves
    <3> QED
        BY <2>2, <3>2, <3>3, <3>4
  <2>3. CASE ~(FC!InsertRow(w) \/ FC!Begin(w) \/ FC!Report(w) \/ FC!Decide(w))
    <3>1. areaRow' = areaRow
        BY <1>3, <2>3, Zenon DEF FC!Step, FC!Operate, FC!Create, FC!Copy, FC!Mark, FC!Complete, FC!Admit, FC!Link, FC!Lookup,
           FC!Alias, FC!Inspect, FC!files
    <3> QED
        BY <1>2, <3>1
  <2> QED
      BY <2>1, <2>2, <2>3
<1>4. ASSUME NEW n \in FileNames, NEW approve \in BOOLEAN, FC!Review(n, approve) PROVE AreaRowMoves
  <2>1. PICK k \in FC!Statuses :
            FC!Status(n, k) /\ k # "pending-approval"
            /\ (k = "published" => areaRow[n].status = "pending-approval")
      BY <1>4, Zenon DEF FC!Review, FC!Approvable, FC!Statuses
  <2>2. areaRow[n] # None /\ areaRow[n] \in FC!Rows
      BY <1>1, <1>4 DEF FC!Review
  <2>3. /\ \A i \in FileNames \ {n} : areaRow'[i] = areaRow[i]
        /\ areaRow'[n] \in FC!Rows /\ areaRow'[n].bytes = areaRow[n].bytes /\ areaRow'[n].status = k
    <3>1. AreaWritten(n) /\ areaRow'[n].status = k
        BY <2>1, <2>2, AreaStatusSettles DEF AreaInv
    <3> QED
        BY <3>1 DEF AreaWritten
  <2> QED
      BY <1>1, <2>1, <2>2, <2>3 DEF AreaRowMoves
<1>5. ASSUME ~(\E w \in FC!Workers : FC!Step(w)),
             ~(\E n \in FileNames : \E approve \in BOOLEAN : FC!Review(n, approve))
      PROVE  areaRow' = areaRow
    <2>1. ASSUME NEW w \in FC!Workers, FC!GiveUp(w) PROVE areaRow' = areaRow
        BY <2>1 DEF FC!GiveUp, FC!Abandon, FC!files
    <2>2. FC!Arrive => areaRow' = areaRow
        BY DEF FC!Arrive, FC!Import, FC!Upload, FC!files
    <2>3. FC!Operator => areaRow' = areaRow
        BY <1>5 DEF FC!Operator, FC!SetPolicy, FC!Rescan, FC!Recover, FC!files
    <2>4. (\E k \in FileNames : FC!LeaseExpires(k)) \/ FC!Crash \/ FC!Stop \/ FC!Start => areaRow' = areaRow
        BY DEF FC!LeaseExpires, FC!Crash, FC!Stop, FC!Start, FC!Abandon, FC!files
    <2> QED
        BY <1>5, <2>1, <2>2, <2>3, <2>4, Zenon DEF FC!Next
<1> QED
    BY <1>2, <1>3, <1>4, <1>5

\* An inspection finds what the bytes of its row can be found to be: no other step
\* writes a verdict, and the bytes of the row stay.
LEMMA AreaHonestKeeps ==
    ASSUME FC!CustodyAssumption, AreaInv, AreaHonest, FC!Next, AreaRowMoves PROVE AreaHonest'
<1>1. AreaJobsTyped /\ \A w \in FC!Workers : areaJob[w].at # "idle" => areaJob[w].name \in FileNames
    BY AreaBusyWorker DEF AreaInv, AreaTyped, AreaJobsTyped
<1>2. ASSUME NEW w \in FC!Workers, areaJob'[w] = areaJob[w] \/ areaJob'[w].at \notin {"report", "decide"},
             areaJob'[w].at \in {"report", "decide"}
      PROVE  areaJob'[w].verdict \in Verdicts[areaRow'[areaJob'[w].name].bytes]
  <2>1. areaJob[w].at \in {"report", "decide"} /\ areaJob'[w] = areaJob[w]
      BY <1>2
  <2>2. areaJob[w].name \in FileNames /\ areaRow[areaJob[w].name] # None
      BY <1>1, <2>1 DEF AreaInv, AreaCataloged, AreaAdmitting, AreaInspecting
  <2> QED
      BY <2>1, <2>2 DEF AreaHonest, AreaRowMoves
<1>3. ASSUME NEW w \in FC!Workers, FC!Step(w) PROVE AreaHonest'
  <2>1. AreaAlike(w) /\ (areaJob'[w].at \in {"report", "decide"} => FC!Inspect(w, "clean")
                     \/ FC!Inspect(w, "bad") \/ FC!Report(w))
    <3>0. areaJob[w].at # "idle"
        BY <1>3 DEF FC!Step, FC!Operate, FC!Create, FC!Copy, FC!Mark, FC!InsertRow, FC!Complete, FC!Admit, FC!Link, FC!Lookup, FC!Alias,
           FC!Begin, FC!Inspect, FC!Report, FC!Decide, FC!At
    <3>1. ASSUME NEW p \in FC!Places \ {"idle"}, FC!Goto(w, p) PROVE AreaAlike(w) /\ areaJob'[w].at = p
        BY <1>1, <3>0, <3>1, AreaGoesTo DEF AreaWent
    <3>2. FC!Done(w) => AreaAlike(w) /\ areaJob'[w].at = "idle"
        BY <1>1, AreaGetsDone DEF AreaStopped
    <3>3. FC!Operate(w) \/ FC!Create(w) \/ FC!Copy(w) \/ FC!Mark(w) \/ FC!Complete(w)
            => AreaAlike(w) /\ areaJob'[w].at \in FC!Places \ {"report", "decide"}
        BY <3>1, <3>2 DEF FC!Operate, FC!Create, FC!Copy, FC!Mark, FC!Complete, FC!Places
    <3>4. FC!InsertRow(w) => AreaAlike(w) /\ areaJob'[w].at \in FC!Places \ {"report", "decide"}
        BY <3>1, <3>2 DEF FC!InsertRow, FC!Insert, FC!Places
    <3>5. FC!Admit(w) \/ FC!Link(w) \/ FC!Lookup(w) \/ FC!Alias(w)
            => AreaAlike(w) /\ areaJob'[w].at \in FC!Places \ {"report", "decide"}
        BY <3>1, <3>2 DEF FC!Admit, FC!Link, FC!Lookup, FC!Alias, FC!Places
    <3>6. FC!Begin(w) => AreaAlike(w) /\ areaJob'[w].at \in FC!Places \ {"report", "decide"}
      <4> SUFFICES ASSUME FC!Begin(w) PROVE AreaAlike(w) /\ areaJob'[w].at = "inspect"
          BY DEF FC!Places
      <4>1. areaJob' = [areaJob EXCEPT ![w].at = "inspect", ![w].hold = approval \/ areaJob[w].hold]
          BY DEF FC!Begin
      <4> QED
        <5> DEFINE h == approval \/ areaJob[w].hold
        <5>1. h \in BOOLEAN
            BY <1>1, <3>0, AreaBusyWorker
        <5>2. areaJob' = [areaJob EXCEPT ![w].at = "inspect", ![w].hold = h]
            BY <4>1
        <5> HIDE DEF h
        <5> QED
            BY <1>1, <3>0, <5>1, <5>2, AreaInspectionBegins
    <3>7. FC!Decide(w) => AreaAlike(w) /\ areaJob'[w].at = "idle"
        BY <3>2 DEF FC!Decide
    <3>8. FC!Report(w) => AreaAlike(w)
        BY <3>1 DEF FC!Report, FC!Places
    <3>9. ASSUME NEW v \in {"clean", "bad"}, FC!Inspect(w, v) PROVE AreaAlike(w)
        BY <1>1, <3>0, <3>2, <3>9, AreaInspectionEnds DEF FC!Inspect
    <3> QED
        BY <1>3, <3>3, <3>4, <3>5, <3>6, <3>7, <3>8, <3>9, Zenon DEF FC!Step, FC!Places
  <2>2. ASSUME NEW v \in {"clean", "bad"}, FC!Inspect(w, v), areaJob'[w].at \in {"report", "decide"}
        PROVE  areaJob'[w].verdict \in Verdicts[areaRow'[areaJob'[w].name].bytes]
    <3>1. areaJob[w].at = "inspect" /\ v \in Verdicts[areaRow[areaJob[w].name].bytes] /\ areaRow' = areaRow
        BY <2>2 DEF FC!Inspect, FC!At, FC!Name, FC!files
    <3>2. areaJob'[w].verdict = v /\ areaJob'[w].name = areaJob[w].name
        BY <1>1, <2>2, <3>1, AreaGetsDone, AreaInspectionEnds DEF FC!Inspect, AreaStopped
    <3> QED
        BY <3>1, <3>2
  <2>3. ASSUME FC!Report(w) PROVE areaJob'[w].verdict \in Verdicts[areaRow'[areaJob'[w].name].bytes]
    <3>1. areaJob[w].at = "report" /\ FC!Goto(w, "decide")
        BY <2>3 DEF FC!Report, FC!At
    <3>2. areaJob'[w].verdict = areaJob[w].verdict /\ areaJob'[w].name = areaJob[w].name
        BY <1>1, <3>1, AreaGoesTo DEF AreaWent, FC!Places
    <3>3. areaJob[w].name \in FileNames /\ areaRow[areaJob[w].name] # None
        BY <1>1, <3>1 DEF AreaInv, AreaCataloged, AreaAdmitting, AreaInspecting
    <3> QED
        BY <3>1, <3>2, <3>3 DEF AreaHonest, AreaRowMoves
  <2> QED
      BY <1>2, <2>1, <2>2, <2>3 DEF AreaHonest, AreaAlike
<1>4. ASSUME ~(\E w \in FC!Workers : FC!Step(w)) 
      PROVE  \A w \in FC!Workers : areaJob'[w] = areaJob[w] \/ areaJob'[w].at \notin {"report", "decide"}
  <2>1. ASSUME NEW W \in SUBSET FC!Workers, FC!Abandon(W)
        PROVE  \A w \in FC!Workers : areaJob'[w] = areaJob[w] \/ areaJob'[w].at \notin {"report", "decide"}
      BY <2>1 DEF FC!Abandon, FC!Idle
  <2>2. ASSUME NEW w \in FC!Workers, NEW p \in {"operate", "lookup", "admit", "begin"}, NEW n \in FileNames,
               NEW c \in Contents, NEW h \in BOOLEAN, areaJob' = [areaJob EXCEPT ![w] = FC!Job(p, n, c, h)]
        PROVE  \A v \in FC!Workers : areaJob'[v] = areaJob[v] \/ areaJob'[v].at \notin {"report", "decide"}
    <3>1. p \in FC!Places \ {"idle"}
        BY DEF FC!Places
    <3> QED
        BY <1>1, <2>2, <3>1, AreaTakesJob DEF AreaAlike
  <2>3. ASSUME NEW n \in FileNames, NEW c \in Contents, NEW w \in {Network, FileTool}, FC!Import(w, n, c)
        PROVE  \A v \in FC!Workers : areaJob'[v] = areaJob[v] \/ areaJob'[v].at \notin {"report", "decide"}
      BY <2>2, <2>3 DEF FC!Import, FC!Workers
  <2>4. ASSUME NEW n \in FileNames, NEW c \in Contents, NEW w \in Uploaders, NEW h \in BOOLEAN,
               FC!Upload(w, n, c, h)
        PROVE  \A v \in FC!Workers : areaJob'[v] = areaJob[v] \/ areaJob'[v].at \notin {"report", "decide"}
      BY <2>2, <2>4 DEF FC!Upload, FC!Workers
  <2>5. ASSUME NEW n \in FileNames, FC!Rescan(n)
        PROVE  \A v \in FC!Workers : areaJob'[v] = areaJob[v] \/ areaJob'[v].at \notin {"report", "decide"}
    <3>1. areaRow[n].bytes \in Contents /\ FileTool \in FC!Workers
        BY <2>5, AreaRowTyped DEF FC!Rescan, FC!Workers, AreaInv
    <3> QED
        BY <2>2, <2>5, <3>1 DEF FC!Rescan
  <2>6. ASSUME NEW w \in FC!Workers, FC!GiveUp(w)
        PROVE  \A v \in FC!Workers : areaJob'[v] = areaJob[v] \/ areaJob'[v].at \notin {"report", "decide"}
      BY <2>1, <2>6 DEF FC!GiveUp
  <2>7. FC!Crash => \A v \in FC!Workers : areaJob'[v] = areaJob[v] \/ areaJob'[v].at \notin {"report", "decide"}
      BY <2>1 DEF FC!Crash
  <2>8. ASSUME FC!SetPolicy \/ (\E n \in FileNames : FC!LeaseExpires(n)) \/ FC!Stop \/ FC!Start
               \/ (\E n \in FileNames : \E approve \in BOOLEAN : FC!Review(n, approve))
               \/ (\E x \in stale : FC!Recover(x))
        PROVE  areaJob' = areaJob
      BY <2>8 DEF FC!SetPolicy, FC!LeaseExpires, FC!Stop, FC!Start, FC!Review, FC!Recover
  <2> QED
      BY <1>4, <2>3, <2>4, <2>5, <2>6, <2>7, <2>8, Zenon DEF FC!Next, FC!Arrive, FC!Operator
<1> QED
    BY <1>2, <1>3, <1>4 DEF AreaHonest

\* Nothing is offered that every inspection finds bad, for any callers, payloads and
\* results, however uploads, imports, rescans, reviews, failures and crashes overlap
\* (finish_admission, review_file_admission).
THEOREM BadIsNeverOfferedHolds == FC!CustodyAssumption => (FC!Spec => []FC!BadIsNeverOffered)
<1> SUFFICES ASSUME FC!CustodyAssumption PROVE FC!Spec => []FC!BadIsNeverOffered
    OBVIOUS
<1>1. FC!Init => AreaHonest /\ FC!BadIsNeverOffered
    BY DEF FC!Init, AreaHonest, FC!BadIsNeverOffered, FC!Idle
<1>2. ASSUME AreaInv, AreaInv', AreaHonest, FC!BadIsNeverOffered, FC!Next PROVE AreaHonest' /\ FC!BadIsNeverOffered'
  <2>1. AreaRowMoves
      BY <1>2, AreaRowsMove
  <2>2. AreaHonest'
      BY <1>2, <2>1, AreaHonestKeeps
  <2>3. ASSUME NEW n \in FileNames, NEW w \in FC!Workers, AreaOfferedBy(n, w)
        PROVE  "clean" \in Verdicts[areaRow[n].bytes]
    <3>1. areaRow[n] # None /\ areaRow[n].bytes \in Contents /\ areaJob[w].verdict # "bad"
        BY <1>2, <2>3, AreaRowTyped DEF AreaOfferedBy, AreaInv, AreaCataloged, AreaAdmitting, AreaInspecting
    <3>2. areaJob[w].verdict \in Verdicts[areaRow[n].bytes]
        BY <1>2, <2>3 DEF AreaOfferedBy, AreaHonest
    <3>3. Verdicts[areaRow[n].bytes] \subseteq {"clean", "bad"}
        BY <3>1 DEF FC!CustodyAssumption
    <3> QED
        BY <3>1, <3>2, <3>3
  <2> QED
      BY <1>2, <2>1, <2>2, <2>3 DEF FC!BadIsNeverOffered, AreaRowMoves
<1>3. ASSUME AreaHonest, FC!BadIsNeverOffered, UNCHANGED FC!vars PROVE AreaHonest' /\ FC!BadIsNeverOffered'
    BY <1>3 DEF AreaHonest, FC!BadIsNeverOffered, FC!vars, FC!files, FC!operations
<1> QED
    BY <1>1, <1>2, <1>3, CustodyInvariant, PTL DEF FC!Spec

\* While the daemon runs it does not take a rejected file up again, however often the
\* network offers it (import_file).
THEOREM RejectedStaysHolds == FC!CustodyAssumption => (FC!Spec => [][FC!RejectedStays]_(FC!vars))
<1> SUFFICES ASSUME FC!CustodyAssumption PROVE FC!Spec => [][FC!RejectedStays]_(FC!vars)
    OBVIOUS
<1>1. ASSUME AreaInv, FC!Next PROVE FC!RejectedStays
  <2> SUFFICES ASSUME NEW n \in FileNames, areaUp, areaRow[n] # None, areaRow[n].status = "rejected"
               PROVE  areaRow'[n].status = "rejected"
      BY DEF FC!RejectedStays
  <2>1. ASSUME NEW w \in FC!Workers, FC!Step(w) PROVE areaRow'[n] = areaRow[n] \/ areaRow'[n].status = areaRow[n].status
    <3>1. CASE FC!InsertRow(w)
      <4>1. areaJob[w].name # n
          BY <1>1, <3>1 DEF FC!InsertRow, FC!At, AreaInv, AreaOwned, AreaOwning
      <4> QED
          BY <1>1, <3>1, <4>1 DEF FC!InsertRow, FC!Insert, FC!Name, AreaInv, AreaTyped
    <3>2. CASE FC!Begin(w) \/ FC!Report(w) \/ FC!Decide(w)
      <4>1. w # FileTool /\ areaJob[w].at \in AreaAdmitting
          BY <3>2 DEF FC!Begin, FC!Report, FC!Decide, FC!Running, FC!At, AreaAdmitting, AreaInspecting
      <4>2. areaJob[w].name # n
          BY <1>1, <4>1 DEF AreaInv, AreaRefused
      <4> QED
          BY <1>1, <3>2, <4>2 DEF FC!Begin, FC!Report, FC!Decide, FC!Status, FC!Name, AreaInv, AreaTyped
    <3>3. CASE ~(FC!InsertRow(w) \/ FC!Begin(w) \/ FC!Report(w) \/ FC!Decide(w))
        BY <2>1, <3>3, Zenon DEF FC!Step, FC!Operate, FC!Create, FC!Copy, FC!Mark, FC!Complete, FC!Admit, FC!Link, FC!Lookup,
           FC!Alias, FC!Inspect, FC!files
    <3> QED
        BY <3>1, <3>2, <3>3
  <2>2. ASSUME ~(\E w \in FC!Workers : FC!Step(w)) PROVE areaRow' = areaRow
    <3>1. ASSUME NEW w \in FC!Workers, FC!GiveUp(w) PROVE areaRow' = areaRow
        BY <3>1 DEF FC!GiveUp, FC!Abandon, FC!files
    <3>2. FC!Arrive => areaRow' = areaRow
        BY DEF FC!Arrive, FC!Import, FC!Upload, FC!files
    <3>3. FC!Operator => areaRow' = areaRow
        BY DEF FC!Operator, FC!SetPolicy, FC!Rescan, FC!Review, FC!Recover, FC!files
    <3>4. (\E k \in FileNames : FC!LeaseExpires(k)) \/ FC!Crash \/ FC!Stop \/ FC!Start => areaRow' = areaRow
        BY DEF FC!LeaseExpires, FC!Crash, FC!Stop, FC!Start, FC!Abandon, FC!files
    <3> QED
        BY <1>1, <2>2, <3>1, <3>2, <3>3, <3>4, Zenon DEF FC!Next
  <2> QED
      BY <2>1, <2>2
<1>2. AreaInv /\ [FC!Next]_(FC!vars) => [FC!RejectedStays]_(FC!vars)
    BY <1>1
<1> QED
    BY <1>2, CustodyInvariant, PTL DEF FC!Spec
=============================================================================
