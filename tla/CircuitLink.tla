----------------------------- MODULE CircuitLink -----------------------------
(***************************************************************************)
(* Live CircuitNET links: the permits that bound the sessions of a board,   *)
(* outbound polls with their retries, inbound workers, and the frames of a  *)
(* session between them.  What a batch carries is the subject of            *)
(* CircuitNet; here a batch is only moved and acknowledged.                 *)
(*                                                                         *)
(* The protocol is strictly sequential, so the wire of a connection is the  *)
(* number of the last frame sent on it:                                     *)
(*   1, 2 the two Hellos       3 Offer of the initiator   4 its Ack          *)
(*   5 Offer of the responder  6 its Ack                  7, 8 the Closes    *)
(***************************************************************************)
EXTENDS Integers, Sequences, FiniteSets

CONSTANTS
    Boards,
    Initiators,   \* links <<a, b>> whose board a may poll b
    Capacity,     \* sessions of a board: 4 in the code
    Tries,        \* attempts of a poll: 3 in the code
    MaxPolls, MaxFaults, MaxHolds,  \* bounds
    MayStop       \* boards that may be shut down

Links == {t \in Boards \X Boards : t \in Initiators \/ <<t[2], t[1]>> \in Initiators}
LinkAssumption ==
    /\ Initiators \subseteq Boards \X Boards /\ \A t \in Initiators : t[1] # t[2]
    /\ {Capacity, Tries} \subseteq Nat \ {0} /\ {MaxPolls, MaxFaults, MaxHolds} \subseteq Nat
    /\ MayStop \subseteq Boards

VARIABLES
    count, active,   \* State.count and State.active of each board
    poll,            \* the worker of an outbound poll, of each link
    conn,            \* the connections of a link, oldest first, with their inbound workers
    held,            \* Peer.held: the neighbors a board holds
    last,            \* Health.last_success of each board for each neighbor
    stopping,        \* boards that shut down
    stamp, polls, faults, holds

vars == <<count, active, poll, conn, held, last, stopping, stamp, polls, faults, holds>>
permits == <<count, active>>
policy == <<held, stopping>>
counters == <<polls, faults, holds>>

Batches == {"forward", "reverse"}
Quiet == [pc |-> "idle", try |-> 0, mode |-> "poll", result |-> "none", seen |-> 0]
Connection(mode) ==
    [frame |-> 0, mode |-> mode, offered |-> {}, moved |-> {}, acked |-> {},
     i |-> "open",      \* what the initiator left on the wire: open, eof or an error
     r |-> "syn",       \* the inbound worker
     said |-> "open", result |-> "none", seen |-> 0]

Current(t) == Len(conn[t])
Wire(t) == conn[t][Current(t)]
Polling(t) == poll[t].pc # "idle"
Bound(c) == c.r \in {"work", "finish", "record"}
Live(c) == Bound(c) \/ c.r = "tls"
Serving(t, k) == k \in DOMAIN conn[t] /\ conn[t][k].r # "gone"
Worker(t, k) == k \in DOMAIN conn[t] /\ conn[t][k].r = "work"

\* the sessions a board has admitted with a neighbor, in either direction
Sessions(b, n) ==
    Cardinality({t \in Links : t = <<b, n>> /\ Polling(t)})
    + Cardinality({x \in Links \X (1..(MaxPolls * Tries)) :
                      /\ x[1] = <<n, b>> /\ x[2] \in DOMAIN conn[x[1]]
                      /\ Bound(conn[x[1]][x[2]])})
Permits(b) ==
    Cardinality({t \in Links : t[1] = b /\ Polling(t)})
    + Cardinality({x \in Links \X (1..(MaxPolls * Tries)) :
                      /\ x[1][2] = b /\ x[2] \in DOMAIN conn[x[1]] /\ Live(conn[x[1]][x[2]])})

\* Every permit in use belongs to a worker, and a neighbor is active exactly while a
\* session with it is.
TypeOK ==
    /\ \A b \in Boards :
        /\ count[b] = Permits(b) /\ count[b] <= Capacity
        /\ active[b] = {n \in Boards : Sessions(b, n) > 0}
        /\ held[b] \subseteq Boards
    /\ \A t \in Links :
        /\ poll[t].pc \in {"idle", "try", "tls", "work", "finish", "record"}
        /\ poll[t].try < Tries
        /\ \A k \in DOMAIN conn[t] :
            /\ conn[t][k].r \in {"syn", "tls", "work", "finish", "record", "gone"}
            /\ conn[t][k].acked \subseteq conn[t][k].moved
            /\ conn[t][k].moved \subseteq conn[t][k].offered /\ conn[t][k].offered \subseteq Batches
    /\ stopping \subseteq Boards

Init ==
    /\ count = [b \in Boards |-> 0] /\ active = [b \in Boards |-> {}]
    /\ poll = [t \in Links |-> Quiet] /\ conn = [t \in Links |-> <<>>]
    /\ held = [b \in Boards |-> {}] /\ stopping = {}
    /\ last = [b \in Boards |-> [n \in Boards |-> 0]] /\ stamp = 0
    /\ polls = [t \in Links |-> IF t \in Initiators THEN MaxPolls ELSE 0]
    /\ faults = 0 /\ holds = 0

-----------------------------------------------------------------------------
(***************************************************************************)
(* Permits.                                                                 *)
(***************************************************************************)

\* Plausible mistake: one session less than the limit.
RoomButOne(b) == count[b] + 1 < Capacity
\* Permit::acquire and Permit::bind
Room(b) == count[b] < Capacity
Take(b) == count' = [count EXCEPT ![b] = @ + 1]
Bind(b, n) == active' = [active EXCEPT ![b] = @ \cup {n}]
\* Plausible mistake: a permit whose bind was refused forgets the neighbor as well.
AlwaysForgets(b, n, bound) == active[b] \ {n}
Forgets(b, n, bound) == IF bound THEN active[b] \ {n} ELSE active[b]
\* Drop of a permit
Release(b, n, bound) ==
    /\ count' = [count EXCEPT ![b] = @ - 1]
    /\ active' = [active EXCEPT ![b] = Forgets(b, n, bound)]

-----------------------------------------------------------------------------
(***************************************************************************)
(* Outbound: dispatch and event_poll, outbound.                             *)
(***************************************************************************)

\* admitted: read anew before every step that moves anything
Admitted(b, n) == b \notin stopping /\ n \notin held[b]
Refusal(b, n) == IF b \in stopping THEN "interrupted" ELSE "held"

StartPoll(t, mode) ==
    /\ poll[t].pc = "idle" /\ polls[t] > 0 /\ polls' = [polls EXCEPT ![t] = @ - 1]
    /\ t[2] \notin held[t[1]] /\ Room(t[1]) /\ t[2] \notin active[t[1]]
    /\ Take(t[1]) /\ Bind(t[1], t[2])
    /\ poll' = [poll EXCEPT ![t] = [Quiet EXCEPT !.pc = "try", !.mode = mode]]
    /\ UNCHANGED <<conn, policy, last, stamp, faults, holds>>

\* the worker ends without a session
GiveUp(t) ==
    /\ poll[t].pc = "try" /\ ~Admitted(t[1], t[2])
    /\ poll' = [poll EXCEPT ![t] = [Quiet EXCEPT !.result = Refusal(t[1], t[2])]]
    /\ Release(t[1], t[2], TRUE)
    /\ UNCHANGED <<conn, policy, last, stamp, counters>>
End(t, result) == poll' = [poll EXCEPT ![t].pc = "finish", ![t].result = result]
Connect(t) ==
    /\ poll[t].pc = "try" /\ Admitted(t[1], t[2])
    /\ IF t[2] \in stopping THEN End(t, "connect") /\ UNCHANGED conn
       ELSE /\ conn' = [conn EXCEPT ![t] = Append(@, Connection(poll[t].mode))]
            /\ poll' = [poll EXCEPT ![t].pc = "tls"]
    /\ UNCHANGED <<permits, policy, last, stamp, counters>>
\* the TLS client is done before the server is; it sends its Hello at once
Secure(t) ==
    /\ poll[t].pc = "tls" /\ Wire(t).r = "tls"
    /\ poll' = [poll EXCEPT ![t].pc = "work"]
    /\ conn' = [conn EXCEPT ![t][Current(t)].frame = 1]
    /\ UNCHANGED <<permits, policy, last, stamp, counters>>
\* an end of file inside the handshake counts as a TLS error
NotSecured(t) ==
    /\ poll[t].pc = "tls" /\ Wire(t).r = "gone" /\ End(t, "tls")
    /\ conn' = [conn EXCEPT ![t][Current(t)].i = "eof"]
    /\ UNCHANGED <<permits, policy, last, stamp, counters>>

\* Session::finish reads the last success, then writes the whole row
Read(t) ==
    /\ poll[t].pc = "finish"
    /\ poll' = [poll EXCEPT ![t].pc = "record", ![t].seen = last[t[1]][t[2]]]
    /\ UNCHANGED <<permits, conn, policy, last, stamp, counters>>
Recorded(b, n, result, seen) ==
    /\ stamp' = IF result = "ok" THEN stamp + 1 ELSE stamp
    /\ last' = [last EXCEPT ![b][n] = IF result = "ok" THEN stamp + 1 ELSE seen]
TriedAgain(t) == poll[t].result \in {"connect", "interrupted", "timeout"}
\* Plausible mistake: what failed is tried without end.
NoEnd(t) == TriedAgain(t)
Again(t) == TriedAgain(t) /\ poll[t].try < Tries - 1
Record(t) ==
    /\ poll[t].pc = "record" /\ Recorded(t[1], t[2], poll[t].result, poll[t].seen)
    /\ IF Again(t)
       THEN poll' = [poll EXCEPT ![t].pc = "try", ![t].try = (@ + 1) % Tries] /\ UNCHANGED permits
       ELSE poll' = [poll EXCEPT ![t].pc = "idle"] /\ Release(t[1], t[2], TRUE)
    /\ UNCHANGED <<conn, policy, counters>>

-----------------------------------------------------------------------------
(***************************************************************************)
(* Inbound: the listener, inbound.                                          *)
(***************************************************************************)

Put(t, k, c) == conn' = [conn EXCEPT ![t][k] = c]
\* without a permit the stream is dropped
Accept(t, k) ==
    LET c == conn[t][k] IN
    /\ c.r = "syn"
    /\ IF Room(t[2]) /\ t[2] \notin stopping THEN Put(t, k, [c EXCEPT !.r = "tls"]) /\ Take(t[2])
       ELSE Put(t, k, [c EXCEPT !.r = "gone", !.said = "eof"]) /\ UNCHANGED count
    /\ UNCHANGED <<active, poll, policy, last, stamp, counters>>
\* The neighbor is known once its certificate is; a held one is not trusted, and one
\* with a session is refused.  Nothing is said to either.
Identify(t, k) ==
    LET c == conn[t][k] IN
    /\ c.r = "tls" /\ (c.frame > 0 \/ c.i # "open")
    /\ IF c.i = "open" /\ t[1] \notin held[t[2]] /\ t[1] \notin active[t[2]]
       THEN Put(t, k, [c EXCEPT !.r = "work"]) /\ Bind(t[2], t[1]) /\ UNCHANGED count
       ELSE Put(t, k, [c EXCEPT !.r = "gone", !.said = "eof"]) /\ Release(t[2], t[1], FALSE)
    /\ UNCHANGED <<poll, policy, last, stamp, counters>>
ServerRead(t, k) ==
    /\ k \in DOMAIN conn[t] /\ conn[t][k].r = "finish"
    /\ conn' = [conn EXCEPT ![t][k].r = "record", ![t][k].seen = last[t[2]][t[1]]]
    /\ UNCHANGED <<permits, poll, policy, last, stamp, counters>>
ServerRecord(t, k) ==
    LET c == conn[t][k] IN
    /\ k \in DOMAIN conn[t] /\ c.r = "record" /\ Recorded(t[2], t[1], c.result, c.seen)
    /\ Put(t, k, [c EXCEPT !.r = "gone"]) /\ Release(t[2], t[1], TRUE)
    /\ UNCHANGED <<poll, policy, counters>>

-----------------------------------------------------------------------------
(***************************************************************************)
(* The exchange.                                                            *)
(***************************************************************************)

\* A step of the initiator, on the connection it has, and one of an inbound worker.
Initiator(t) == poll[t].pc = "work" /\ Wire(t).said = "open"
Responder(t, k) == Worker(t, k) /\ conn[t][k].i = "open"
Quits(t, result) == End(t, result) /\ conn' = [conn EXCEPT ![t][Current(t)].i = result]
ServerQuits(t, k, result) ==
    Put(t, k, [conn[t][k] EXCEPT !.r = "finish", !.result = result, !.said = result])
rest == <<permits, policy, last, stamp, counters>>
\* Plausible mistake: an offer is taken for accepted once it is sent.
NotAwaited(c, b) == TRUE
\* an empty offer needs no Ack
Awaited(c, b) == b \in c.offered => b \in c.acked

SendHello(t, k) ==
    LET c == conn[t][k] IN
    /\ Responder(t, k) /\ c.frame = 1
    /\ IF Admitted(t[2], t[1]) THEN Put(t, k, [c EXCEPT !.frame = 2])
       ELSE ServerQuits(t, k, Refusal(t[2], t[1]))
    /\ UNCHANGED <<poll, rest>>
\* Session::send of the initiator, or the Close of a link test
SendForward(t) ==
    LET c == Wire(t) IN
    /\ Initiator(t) /\ c.frame = 2
    /\ IF ~Admitted(t[1], t[2]) THEN Quits(t, Refusal(t[1], t[2]))
       ELSE /\ \E S \in SUBSET {"forward"} :
                 Put(t, Current(t), IF c.mode = "test" THEN [c EXCEPT !.frame = 7]
                                    ELSE [c EXCEPT !.frame = 3, !.offered = S])
            /\ UNCHANGED poll
    /\ UNCHANGED rest
\* Session::receive of the responder: imported in one transaction before the Ack
ReceiveForward(t, k) ==
    LET c == conn[t][k] IN
    /\ Responder(t, k) /\ c.frame = 3 /\ "forward" \in c.offered
    /\ IF Admitted(t[2], t[1]) THEN Put(t, k, [c EXCEPT !.frame = 4, !.moved = @ \cup {"forward"}])
       ELSE ServerQuits(t, k, Refusal(t[2], t[1]))
    /\ UNCHANGED <<poll, rest>>
\* a receipt is recorded whatever the policy has become
AckForward(t) ==
    LET c == Wire(t) IN
    /\ Initiator(t) /\ c.frame \in {4, 5} /\ ~Awaited(c, "forward")
    /\ Put(t, Current(t), [c EXCEPT !.acked = @ \cup {"forward"}])
    /\ UNCHANGED <<poll, rest>>
SendReverse(t, k) ==
    LET c == conn[t][k] IN
    /\ Responder(t, k) /\ (c.frame = 4 \/ (c.frame = 3 /\ c.offered = {}))
    /\ IF Admitted(t[2], t[1])
       THEN \E S \in SUBSET {"reverse"} : Put(t, k, [c EXCEPT !.frame = 5, !.offered = @ \cup S])
       ELSE ServerQuits(t, k, Refusal(t[2], t[1]))
    /\ UNCHANGED <<poll, rest>>
ReceiveReverse(t) ==
    LET c == Wire(t) IN
    /\ Initiator(t) /\ c.frame = 5 /\ Awaited(c, "forward") /\ "reverse" \in c.offered
    /\ IF Admitted(t[1], t[2])
       THEN Put(t, Current(t), [c EXCEPT !.frame = 6, !.moved = @ \cup {"reverse"}]) /\ UNCHANGED poll
       ELSE Quits(t, Refusal(t[1], t[2]))
    /\ UNCHANGED rest
SendClose(t) ==
    LET c == Wire(t) IN
    /\ Initiator(t)
    /\ c.frame = 6 \/ (c.frame = 5 /\ Awaited(c, "forward") /\ "reverse" \notin c.offered)
    /\ Put(t, Current(t), [c EXCEPT !.frame = 7])
    /\ UNCHANGED <<poll, rest>>
AckReverse(t, k) ==
    LET c == conn[t][k] IN
    /\ Responder(t, k) /\ c.frame \in {6, 7} /\ ~Awaited(c, "reverse")
    /\ Put(t, k, [c EXCEPT !.acked = @ \cup {"reverse"}])
    /\ UNCHANGED <<poll, rest>>
\* the responder is done with its Close, whether or not it arrives
Closed(t, k) ==
    LET c == conn[t][k] IN
    /\ Responder(t, k) /\ c.frame = 7 /\ Awaited(c, "reverse")
    /\ Put(t, k, [c EXCEPT !.frame = 8, !.r = "finish", !.result = "ok"])
    /\ UNCHANGED <<poll, rest>>
Done(t) ==
    /\ Initiator(t) /\ Wire(t).frame = 8
    /\ End(t, "ok") /\ conn' = [conn EXCEPT ![t][Current(t)].i = "eof"]
    /\ UNCHANGED rest

-----------------------------------------------------------------------------
(***************************************************************************)
(* Failures and the operator.                                               *)
(***************************************************************************)

Heard(said) == IF said = "eof" THEN "interrupted" ELSE said
\* the other end is gone, perhaps with an error frame
Cut(t) ==
    /\ poll[t].pc = "work" /\ Wire(t).said # "open"
    /\ Quits(t, Heard(Wire(t).said)) /\ UNCHANGED rest
ServerCut(t, k) ==
    /\ Worker(t, k) /\ conn[t][k].i # "open"
    /\ ServerQuits(t, k, Heard(conn[t][k].i)) /\ UNCHANGED <<poll, rest>>
\* a deadline of ten seconds passes, a step is refused, or the answer is lost on the way
Fault == faults < MaxFaults /\ faults' = faults + 1
Codes == {"timeout", "custody", "eof"}
Breaks(t) ==
    /\ Fault /\ poll[t].pc \in {"tls", "work"}
    /\ \E code \in Codes :
        /\ End(t, Heard(code)) /\ conn' = [conn EXCEPT ![t][Current(t)].i = code]
    /\ UNCHANGED <<permits, policy, last, stamp, polls, holds>>
ServerBreaks(t, k) ==
    /\ Fault /\ Worker(t, k)
    /\ \E code \in Codes :
        Put(t, k, [conn[t][k] EXCEPT !.r = "finish", !.result = Heard(code), !.said = code])
    /\ UNCHANGED <<permits, poll, policy, last, stamp, polls, holds>>
Hold(b, n) ==
    /\ <<b, n>> \in Links /\ holds < MaxHolds /\ holds' = holds + 1
    /\ held' = [held EXCEPT ![b] = IF n \in @ THEN @ \ {n} ELSE @ \cup {n}]
    /\ UNCHANGED <<permits, poll, conn, last, stopping, stamp, polls, faults>>
Stop(b) ==
    /\ b \in MayStop \ stopping /\ stopping' = stopping \cup {b}
    /\ UNCHANGED <<permits, poll, conn, held, last, stamp, counters>>

Outbound(t) ==
    \/ GiveUp(t) \/ Connect(t) \/ Secure(t) \/ NotSecured(t) \/ SendForward(t) \/ AckForward(t)
    \/ ReceiveReverse(t) \/ SendClose(t) \/ Done(t) \/ Cut(t) \/ Read(t) \/ Record(t)
Inbound(t, k) ==
    /\ k \in DOMAIN conn[t]
    /\ \/ Accept(t, k) \/ Identify(t, k) \/ SendHello(t, k) \/ ReceiveForward(t, k)
       \/ SendReverse(t, k) \/ AckReverse(t, k) \/ Closed(t, k) \/ ServerCut(t, k)
       \/ ServerRead(t, k) \/ ServerRecord(t, k)
Keys == 1..(MaxPolls * Tries)
Next ==
    \/ \E t \in Links, mode \in {"poll", "test"} : StartPoll(t, mode)
    \/ \E t \in Links : Outbound(t) \/ Breaks(t)
    \/ \E t \in Links, k \in Keys : Inbound(t, k) \/ (k \in DOMAIN conn[t] /\ ServerBreaks(t, k))
    \/ \E b, n \in Boards : Hold(b, n)
    \/ \E b \in Boards : Stop(b)
Spec == Init /\ [][Next]_vars

\* Every worker is a thread of its own.
Fairness ==
    /\ \A t \in Links : WF_vars(Outbound(t)) /\ \A k \in Keys : WF_vars(Inbound(t, k))
FairSpec == Spec /\ Fairness

-----------------------------------------------------------------------------
(***************************************************************************)
(* Properties.                                                              *)
(***************************************************************************)

\* "one per profile/neighbor": a board never has two sessions with a neighbor, in
\* whichever direction they were opened and however both ends cross.
OneSession == \A t \in Links : Sessions(t[1], t[2]) <= 1

\* A success an end records is a whole exchange: everything either end offered was
\* imported by the other and acknowledged, whoever records first.
SuccessIsWhole ==
    \A t \in Links :
        /\ poll[t].result = "ok" /\ poll[t].pc \in {"finish", "record"} =>
              Wire(t).acked = Wire(t).offered
        /\ \A k \in DOMAIN conn[t] : conn[t][k].result = "ok" => conn[t][k].acked = conn[t][k].offered

\* The health row keeps the last success, although a session that fails writes the row
\* from what it has read before.
SuccessIsKept == \A b, n \in Boards : last'[b][n] >= last[b][n]

\* "No endless retries": two ends that poll each other refuse each other, and neither
\* waits for the other without end; every worker ends.
WorkersEnd ==
    \A t \in Links :
        /\ Polling(t) ~> ~Polling(t)
        /\ \A k \in Keys : Serving(t, k) ~> ~Serving(t, k)

\* A poll nobody crosses, on a board with room, without faults, is an exchange.
PollExchanges ==
    \A t \in Links : poll[t].pc = "try" /\ poll[t].try = 0 ~> last[t[1]][t[2]] > 0 /\ last[t[2]][t[1]] > 0

\* docs/technical/circuitnet-ng-specification.md: "Hold/admission/concurrency | held /
\* busy".  A poll that was refused for want of room or because of another session
\* learns that much.
BusyIsTold ==
    \A t \in Links : poll[t].pc \in {"finish", "record"} /\ Current(t) > 0 /\ Wire(t).r = "gone"
        /\ Wire(t).frame <= 1 /\ Wire(t).said = "eof" => poll[t].result \in {"busy", "held"}
=============================================================================
