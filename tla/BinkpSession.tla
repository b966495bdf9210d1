---------------------------- MODULE BinkpSession ----------------------------
(* One BinkP session between two boards: the `exchange` loop of each end, its *)
(* batches, its files and the connection between them.                        *)
(*                                                                            *)
(* A turn of the loop writes the oldest frame of the output to the socket,    *)
(* returns if the session is complete, handles one frame of the input if it   *)
(* is there, and chooses what to send next; each part is a step here.  (A     *)
(* socket that is full for a while only delays the write.)  Both ends run the same code; an end  *)
(* of another make that speaks only one batch, or that advertises NR, is one  *)
(* with the same rules on another link.  The idle and session limits are left *)
(* out: a session that has no need of them ends without.                      *)
EXTENDS Naturals, Sequences, FiniteSets

CONSTANTS
    Caller, Answerer,   \* the two ends
    Links,      \* the links the session may run over: records of
                \*   agreed   the two ends hold the same secret
                \*   admits   the answerer has the link free
                \*   test     the caller only tests the link
                \*   multiple both advertised binkp/1.1
                \*   nr       both advertised NR
                \*   queued   [end -> the files its queue holds at first]
    Unwanted,   \* [end -> the files it does not accept]
    Response,   \* [file -> what its receiver queues in answer, as a sequence]
    Late,       \* [end -> the files someone else may queue meanwhile]
    Chunks,     \* data frames in a file
    ResetLoses, \* TRUE: a reset destroys what the end has not read yet, as on
                \*   some systems
    MayBreak    \* TRUE: the connection may break, and custody may fail

BothEnds == {Caller, Answerer}
Other(e) == IF e = Caller THEN Answerer ELSE Caller

EndsAssumption == Caller # Answerer
ChunksAssumption == Chunks \in Nat \ {0}

VARIABLES
    link,       \* the link of this session
    turn,       \* [end -> where its loop is: "write", "read" or "send"]
    phase,      \* [end -> "greeting", "authenticating", "ready" or "ok", or
                \*         the error that ended it]
    batch,      \* [end -> the empty-batch evidence]
    recheck,    \* [end -> look once more for new work before completing]
    queue,      \* [end -> its durable queue: files no session has claimed]
    pending,    \* [end -> claimed files not offered yet]
    sending,    \* [end -> the file being sent, if any]
    receiving,  \* [end -> the file being received, if any]
    requested,  \* [end -> the file it asked to have restarted, if any]
    discard,    \* [end -> data frames are of a file it does not want]
    settled,    \* [end -> files of its own that were "got" and "skip"ped]
    kept,       \* [end -> files it received and took into custody, in order]
    output,     \* [end -> frames not yet written]
    wire,       \* [end -> frames written by it and not yet read]
    reset,      \* [end -> its connection was reset by the other]
    broken,     \* the connection broke
    late        \* [end -> files someone else has queued so far]

transfer == <<batch, recheck, queue, pending, sending, receiving, requested,
              discard, settled, kept>>
vars == <<link, turn, phase, transfer, output, wire, reset, broken, late>>

Frame(kind, f) == [kind |-> kind, file |-> f, asks |-> FALSE]
Plain(kind) == [kind |-> kind]
Offer(f, asks) == [kind |-> "file", file |-> f, asks |-> asks]

Running(e) == phase[e] \in {"greeting", "authenticating", "ready"}
\* Mutant: a test is a poll.
TestingNever(e) == FALSE
Testing(e) == e = Caller /\ link.test

-----------------------------------------------------------------------------
(* Batches: how many empty batches each direction has shown, up to two, and   *)
(* whether the other end's last one still waits for an answer.                *)

NoBatches == [sent |-> 0, received |-> 0, reply |-> FALSE]
\* Mutant: empty batches are counted without end.
CountOn(n) == n + 1
UpToTwo(n) == IF n = 2 THEN 2 ELSE n + 1

Activity(b) == IF link.multiple THEN [b EXCEPT !.received = 0, !.reply = FALSE] ELSE b
Outgoing(b) == [b EXCEPT !.sent = 0]
Confirmation(b) == IF link.multiple THEN [b EXCEPT !.sent = 0] ELSE b
ReceiveEob(b) == [b EXCEPT !.received = UpToTwo(@), !.reply = TRUE]
SendEob(b) == [b EXCEPT !.sent = UpToTwo(@), !.reply = FALSE]
\* Mutant: the other end's empty batch is not answered.
NeedsEobOnce(b) == b.sent = 0
NeedsEob(b) == b.sent = 0 \/ (link.multiple /\ b.reply)
\* Mutant: only what this end has sent counts.
BatchesCompleteSent(b) == b.sent >= IF link.multiple THEN 2 ELSE 1
BatchesComplete(b) ==
    LET count == IF link.multiple THEN 2 ELSE 1
    IN  b.sent >= count /\ b.received >= count
\* Mutant: no file after the other end's first empty batch, in either version.
AcceptsFileOnce(b) == b.received = 0
AcceptsFile(b) == link.multiple \/ b.received = 0

Complete(e) ==
    /\ phase[e] = "ready"
    /\ BatchesComplete(batch[e])
    /\ ~recheck[e] \/ ~link.multiple
    /\ pending[e] = <<>> /\ sending[e] = <<>> /\ receiving[e] = <<>>
    /\ output[e] = <<>>

-----------------------------------------------------------------------------
Prefixes(s) == {SubSeq(s, 1, n) : n \in 0 .. Len(s)}
Hears(e) == Running(Other(e)) /\ ~broken

Left(written) == IF ResetLoses THEN Prefixes(written) ELSE {written}

(* The end closes the connection.  With frames unread the close is a reset.   *)
Close(e, why, unread, written) ==
    /\ phase' = [phase EXCEPT ![e] = why]
    /\ output' = [output EXCEPT ![e] = <<>>]
    /\ reset' = [reset EXCEPT ![Other(e)] = @ \/ unread # <<>>]
    /\ \E w \in IF unread = <<>> THEN {written} ELSE Left(written) :
          wire' = [wire EXCEPT ![e] = w, ![Other(e)] = <<>>]

(* The end fails: it drops what it had not written and says why, if the other *)
(* end takes it within the moment the code allows for that.                   *)
Fail(e, why, unread) ==
    /\ \E said \in {<<>>, <<Plain(IF why = "busy" THEN "bsy" ELSE "err")>>} :
          Close(e, why, unread, IF Hears(e) THEN wire[e] \o said ELSE wire[e])
    /\ UNCHANGED transfer

Send(e, frames) == output' = [output EXCEPT ![e] = @ \o frames]
Taken(e) == wire' = [wire EXCEPT ![Other(e)] = Tail(@)] /\ UNCHANGED reset

Init ==
    /\ link \in Links
    /\ turn = [e \in BothEnds |-> "write"]
    /\ phase = [e \in BothEnds |-> "greeting"]
    /\ batch = [e \in BothEnds |-> NoBatches]
    /\ recheck = [e \in BothEnds |-> FALSE]
    /\ queue = link.queued
    /\ pending = [e \in BothEnds |-> <<>>]
    /\ sending = [e \in BothEnds |-> <<>>]
    /\ receiving = [e \in BothEnds |-> <<>>]
    /\ requested = [e \in BothEnds |-> <<>>]
    /\ discard = [e \in BothEnds |-> FALSE]
    /\ settled = [e \in BothEnds |-> [got |-> {}, skip |-> {}]]
    /\ kept = [e \in BothEnds |-> <<>>]
    /\ output = [e \in BothEnds |-> IF e = Caller THEN <<Plain("adr")>> ELSE <<Plain("opt")>>]
    /\ wire = [e \in BothEnds |-> <<>>]
    /\ reset = [e \in BothEnds |-> FALSE]
    /\ broken = FALSE
    /\ late = [e \in BothEnds |-> {}]

-----------------------------------------------------------------------------
(* Writing the oldest frame.  The first write to an end that has closed seems *)
(* to succeed and provokes a reset; the next one fails.                       *)
Flush(e) ==
    /\ Running(e)
    /\ turn[e] = "write" /\ output[e] # <<>>
    /\ turn' = [turn EXCEPT ![e] = "read"]
    /\ UNCHANGED <<link, broken, late>>
    /\ IF Hears(e)
       THEN /\ wire' = [wire EXCEPT ![e] = Append(@, Head(output[e]))]
            /\ output' = [output EXCEPT ![e] = Tail(@)]
            /\ UNCHANGED <<phase, transfer, reset>>
       ELSE IF ~reset[e]
       THEN /\ reset' = [reset EXCEPT ![e] = TRUE]
            /\ \E w \in Left(wire[Other(e)]) : wire' = [wire EXCEPT ![Other(e)] = w]
            /\ output' = [output EXCEPT ![e] = Tail(@)]
            /\ UNCHANGED <<phase, transfer>>
       ELSE Fail(e, "interrupted", wire[Other(e)])

(* Authentication is complete: the backend claims what the queue holds for    *)
(* this link, unless the session is a test.                                   *)
Ready(e, frames) ==
    /\ phase' = [phase EXCEPT ![e] = "ready"]
    /\ IF Testing(e)
       THEN UNCHANGED <<queue, pending>>
       ELSE /\ pending' = [pending EXCEPT ![e] = queue[e]]
            /\ queue' = [queue EXCEPT ![e] = <<>>]
    /\ Send(e, frames)
    /\ UNCHANGED <<batch, recheck, sending, receiving, requested, discard, settled, kept>>

Greet(e, frames) ==
    /\ phase' = [phase EXCEPT ![e] = "authenticating"]
    /\ Send(e, frames)
    /\ UNCHANGED transfer

(* A command of the handshake; the frame is the head of the other's wire.     *)
Handshake(e, f, unread) ==
    CASE f.kind = "opt" ->
            Taken(e) /\ UNCHANGED <<phase, transfer, output>>
      [] f.kind = "adr" /\ phase[e] = "greeting" ->
            IF e = Answerer /\ ~link.admits
            THEN Fail(e, "busy", unread)
            ELSE Taken(e) /\ Greet(e, IF e = Answerer THEN <<Plain("adr")>> ELSE <<Plain("pwd")>>)
      [] f.kind = "pwd" /\ e = Answerer /\ phase[e] = "authenticating" ->
            IF link.agreed
            THEN Taken(e) /\ Ready(e, <<Plain("ok")>>)
            ELSE Fail(e, "authentication", unread)
      [] f.kind = "ok" /\ e = Caller /\ phase[e] = "authenticating" ->
            Taken(e) /\ Ready(e, <<>>)
      [] OTHER -> Fail(e, "malformed", unread)

-----------------------------------------------------------------------------
(* Frames of the exchange.                                                    *)

(* A data frame: the last one of a file completes it, and the file is taken   *)
(* into custody, with any answer queued, before it is acknowledged.           *)
Data(e, unread) ==
    IF ~AcceptsFile(batch[e]) \/ requested[e] # <<>>
       \/ (receiving[e] = <<>> /\ ~discard[e])
    THEN Fail(e, "malformed", unread)
    ELSE IF receiving[e] = <<>>
    THEN Taken(e) /\ UNCHANGED <<phase, transfer, output>>
    ELSE LET r == receiving[e][1]
             done == r.got + 1 = Chunks
         IN  \/ /\ ~done
                /\ receiving' = [receiving EXCEPT ![e] = <<[r EXCEPT !.got = @ + 1]>>]
                /\ Taken(e)
                /\ UNCHANGED <<phase, batch, recheck, queue, pending, sending, requested,
                               discard, settled, kept, output>>
             \/ /\ done
                /\ receiving' = [receiving EXCEPT ![e] = <<>>]
                /\ kept' = [kept EXCEPT ![e] = Append(@, r.file)]
                /\ queue' = [queue EXCEPT ![e] = @ \o Response[r.file]]
                /\ recheck' = [recheck EXCEPT ![e] = TRUE]
                /\ batch' = [batch EXCEPT ![e] = Confirmation(@)]
                /\ Send(e, <<Frame("got", r.file)>>)
                /\ Taken(e)
                /\ UNCHANGED <<phase, pending, sending, requested, discard, settled>>
             \/ done /\ MayBreak /\ Fail(e, "custody", unread)

\* Mutant: every name is accepted.
RefusesNothing(e, f) == Testing(e)
Refuses(e, f) == Testing(e) \/ f \in Unwanted[e]

(* An offer replaces a file half received.  It is skipped, or asked for from  *)
(* its beginning, or awaited.                                                 *)
Offered(e, f, unread) ==
    IF ~AcceptsFile(batch[e]) \/ (requested[e] # <<>> /\ requested[e] # <<f.file>>)
    THEN Fail(e, "malformed", unread)
    ELSE LET b == Activity(batch[e])
             unwanted == Refuses(e, f.file)
             restarts == ~unwanted /\ f.asks
         IN  /\ batch' = [batch EXCEPT ![e] = IF unwanted \/ restarts THEN Confirmation(b) ELSE b]
             /\ requested' = [requested EXCEPT ![e] = IF restarts THEN <<f.file>> ELSE <<>>]
             /\ discard' = [discard EXCEPT ![e] = unwanted \/ restarts]
             /\ receiving' = [receiving EXCEPT ![e] =
                                IF unwanted \/ restarts THEN <<>>
                                ELSE <<[file |-> f.file, got |-> 0]>>]
             /\ Send(e, IF unwanted THEN <<Frame("skip", f.file)>>
                        ELSE IF restarts THEN <<Frame("get", f.file)>> ELSE <<>>)
             /\ Taken(e)
             /\ UNCHANGED <<phase, recheck, queue, pending, sending, settled, kept>>

\* Mutant: any answer counts as an acknowledgement.
AnsweredAny(e, f, unread) ==
    /\ sending' = [sending EXCEPT ![e] = <<>>]
    /\ settled' = [settled EXCEPT ![e].got = @ \cup {f.file}]
    /\ Taken(e)
    /\ UNCHANGED <<phase, batch, recheck, queue, pending, receiving, requested, discard, kept, output>>

(* An answer about the file being sent.                                       *)
Answered(e, f, unread) ==
    IF sending[e] = <<>> \/ sending[e][1].file # f.file
    THEN Fail(e, "malformed", unread)
    ELSE /\ IF f.kind = "get"
            THEN /\ sending' = [sending EXCEPT ![e] =
                                  <<[file |-> f.file, position |-> 0, waiting |-> FALSE]>>]
                 /\ Send(e, <<Offer(f.file, FALSE)>>)
                 /\ UNCHANGED settled
            ELSE /\ sending' = [sending EXCEPT ![e] = <<>>]
                 /\ settled' = [settled EXCEPT ![e][f.kind] = @ \cup {f.file}]
                 /\ UNCHANGED output
         /\ Taken(e)
         /\ UNCHANGED <<phase, batch, recheck, queue, pending, receiving, requested, discard, kept>>

Eob(e, unread) ==
    IF receiving[e] # <<>> \/ requested[e] # <<>>
    THEN Fail(e, "interrupted", unread)
    ELSE /\ discard' = [discard EXCEPT ![e] = FALSE]
         /\ batch' = [batch EXCEPT ![e] = ReceiveEob(@)]
         /\ recheck' = [recheck EXCEPT ![e] = TRUE]
         /\ Taken(e)
         /\ UNCHANGED <<phase, queue, pending, sending, receiving, requested, settled, kept, output>>

Exchange(e, f, unread) ==
    \/ f.kind = "data" /\ Data(e, unread)
    \/ f.kind = "file" /\ Offered(e, f, unread)
    \/ f.kind \in {"got", "skip", "get"} /\ Answered(e, f, unread)
    \/ f.kind = "eob" /\ Eob(e, unread)
    \/ f.kind \in {"adr", "pwd", "ok"} /\ Fail(e, "malformed", unread)

Reads(e) ==
    /\ Running(e) /\ ~Complete(e)
    /\ turn[e] = "read" \/ (turn[e] = "write" /\ output[e] = <<>>)
    /\ turn' = [turn EXCEPT ![e] = "send"]

(* Handling one frame, or finding the connection closed.                      *)
Read(e) ==
    /\ Reads(e)
    /\ UNCHANGED <<link, broken, late>>
    /\ LET frames == wire[Other(e)]
       IN  \/ /\ frames = <<>>
              /\ ~Hears(e)
              /\ Fail(e, "interrupted", <<>>)
           \/ /\ frames # <<>>
              /\ LET f == Head(frames)
                     unread == Tail(frames)
                 IN  CASE f.kind = "err" ->
                            Fail(e, IF phase[e] = "authenticating" THEN "authentication"
                                    ELSE "refused", unread)
                       [] f.kind = "bsy" -> Fail(e, "busy", unread)
                       [] phase[e] = "ready" -> Exchange(e, f, unread)
                       [] OTHER -> Handshake(e, f, unread)

-----------------------------------------------------------------------------
(* What an end may send, once everything is written: the next frame of the    *)
(* file under way; or else new work, looked for at the boundary of a batch;   *)
(* or the end of a batch.                                                     *)
\* Mutant: no second look at the queue.
NoLooks(e) == FALSE
Looks(e) == pending[e] = <<>> /\ link.multiple /\ (recheck[e] \/ NeedsEob(batch[e]))
Chunk(e) == sending[e] # <<>> /\ ~sending[e][1].waiting /\ sending[e][1].position < Chunks
MaySend(e) ==
    /\ phase[e] = "ready" /\ output[e] = <<>>
    /\ IF sending[e] # <<>> THEN Chunk(e)
       ELSE pending[e] # <<>> \/ Looks(e) \/ NeedsEob(batch[e])

SendChunk(e) ==
    /\ sending' = [sending EXCEPT ![e][1].position = @ + 1]
    /\ Send(e, <<Plain("data")>>)
    /\ UNCHANGED <<phase, batch, recheck, queue, pending, receiving, requested,
                   discard, settled, kept, wire, reset>>

SendNext(e) ==
    LET claims == Looks(e) /\ ~Testing(e)
        work == IF claims THEN queue[e] ELSE pending[e]
        done == BatchesComplete(batch[e]) /\ receiving[e] = <<>> /\ requested[e] = <<>>
    IN  /\ queue' = IF claims THEN [queue EXCEPT ![e] = <<>>] ELSE queue
        /\ recheck' = [recheck EXCEPT ![e] = @ /\ ~Looks(e)]
        /\ UNCHANGED <<receiving, requested, discard, settled, kept>>
        /\ \/ /\ work = <<>> /\ done
              /\ Close(e, "ok", wire[Other(e)], wire[e])
              /\ UNCHANGED <<batch, pending, sending>>
           \/ /\ work # <<>>
              /\ pending' = [pending EXCEPT ![e] = Tail(work)]
              /\ batch' = [batch EXCEPT ![e] = Outgoing(@)]
              /\ sending' = [sending EXCEPT ![e] =
                    <<[file |-> Head(work), position |-> 0, waiting |-> link.nr]>>]
              /\ Send(e, <<Offer(Head(work), link.nr)>>)
              /\ UNCHANGED <<phase, wire, reset>>
           \/ /\ work = <<>> /\ ~done
              /\ IF NeedsEob(batch[e])
                 THEN /\ batch' = [batch EXCEPT ![e] = SendEob(@)]
                      /\ Send(e, <<Plain("eob")>>)
                 ELSE UNCHANGED <<batch, output>>
              /\ UNCHANGED <<phase, pending, sending, wire, reset>>

Step(e) ==
    /\ Running(e)
    /\ turn[e] = "send"
    /\ turn' = [turn EXCEPT ![e] = "write"]
    /\ UNCHANGED <<link, broken, late>>
    /\ IF ~MaySend(e) THEN UNCHANGED <<phase, transfer, output, wire, reset>>
       ELSE IF sending[e] # <<>> THEN SendChunk(e) ELSE SendNext(e)

(* No frame has arrived yet, and the turn goes on to what it has to write or  *)
(* to send.                                                                   *)
NotYet(e) ==
    /\ Reads(e)
    /\ Hears(e) \/ wire[Other(e)] # <<>>
    /\ MaySend(e) \/ output[e] # <<>>
    /\ UNCHANGED <<link, phase, transfer, output, wire, reset, broken, late>>

(* The completion test holds: the end closes the connection and returns.      *)
Finish(e) ==
    /\ Complete(e) /\ turn[e] # "send"
    /\ UNCHANGED turn
    /\ Close(e, "ok", wire[Other(e)], wire[e])
    /\ UNCHANGED <<link, transfer, broken, late>>

-----------------------------------------------------------------------------
(* Someone else queues a file for the link meanwhile.                         *)
Enqueue(e) ==
    \E f \in Late[e] \ late[e] :
        /\ Running(e)
        /\ late' = [late EXCEPT ![e] = @ \cup {f}]
        /\ queue' = [queue EXCEPT ![e] = Append(@, f)]
        /\ UNCHANGED <<link, turn, phase, batch, recheck, pending, sending, receiving, requested,
                       discard, settled, kept, output, wire, reset, broken>>

(* The connection breaks, and what was on it may be lost.                     *)
Break ==
    /\ MayBreak /\ ~broken
    /\ \E e \in BothEnds : Running(e)
    /\ broken' = TRUE
    /\ \E a \in Prefixes(wire[Caller]), b \in Prefixes(wire[Answerer]) :
          wire' = [wire EXCEPT ![Caller] = a, ![Answerer] = b]
    /\ UNCHANGED <<link, turn, phase, transfer, output, reset, late>>

Ended ==
    /\ \A e \in BothEnds : ~Running(e)
    /\ UNCHANGED vars

Next ==
    \/ \E e \in BothEnds : 
          Flush(e) \/ Read(e) \/ NotYet(e) \/ Step(e) \/ Finish(e) \/ Enqueue(e)
    \/ Break
    \/ Ended

(* A running end's loop turns, and a frame written arrives before long: it is *)
(* not passed over at every turn.                                             *)
Fairness ==
    \A e \in BothEnds :
        /\ WF_vars(Flush(e)) /\ WF_vars(Step(e)) /\ WF_vars(Finish(e))
        /\ WF_vars(Read(e) \/ NotYet(e)) /\ SF_vars(Read(e))

Spec == Init /\ [][Next]_vars /\ Fairness

-----------------------------------------------------------------------------
Errors == {"authentication", "busy", "malformed", "interrupted", "refused", "custody"}
Held(files) == {files[i] : i \in 1 .. Len(files)}
Mine(e) == Held(link.queued[e]) \cup late[e] \cup UNION {Held(Response[f]) : f \in Held(kept[e])}

(* Every variable has its type.                                               *)
TypeOK ==
    /\ link \in Links
    /\ turn \in [BothEnds -> {"write", "read", "send"}]
    /\ phase \in [BothEnds -> {"greeting", "authenticating", "ready", "ok"} \cup Errors]
    /\ batch \in [BothEnds -> [sent : 0 .. 2, received : 0 .. 2, reply : BOOLEAN]]
    /\ recheck \in [BothEnds -> BOOLEAN] /\ discard \in [BothEnds -> BOOLEAN]
    /\ \A e \in BothEnds :
          /\ Len(sending[e]) <= 1 /\ Len(receiving[e]) <= 1 /\ Len(requested[e]) <= 1
          /\ late[e] \subseteq Late[e]
          /\ Held(queue[e]) \cup Held(pending[e]) \subseteq Mine(e)
    /\ reset \in [BothEnds -> BOOLEAN] /\ broken \in BOOLEAN

(* What an end counts as delivered the other end has in custody: `accepted`   *)
(* follows M_GOT, and `receive_file` precedes it, whatever breaks between.    *)
DeliveredIsKept == \A e \in BothEnds : settled[e].got \subseteq Held(kept[Other(e)])

(* No file of a session is taken into custody twice, restarted or not, and    *)
(* none that the receiving end does not want.                                 *)
KeptOnce ==
    \A e \in BothEnds :
        /\ \A i, j \in 1 .. Len(kept[e]) : kept[e][i] = kept[e][j] => i = j
        /\ Held(kept[e]) \cap Unwanted[e] = {}

(* An end that returns success does not leave the other's mail behind: each   *)
(* file the other had queued before the session is settled there, or its      *)
(* answer is on the way.                                                      *)
NoneLeftBehind ==
    \A e \in BothEnds : phase[e] = "ok" /\ ~Testing(Other(e)) =>
        \A f \in Held(link.queued[Other(e)]) :
            \/ f \in settled[Other(e)].got \cup settled[Other(e)].skip
            \/ Frame("got", f) \in Held(wire[e]) \/ Frame("skip", f) \in Held(wire[e])

(* A file received in the session and answered with another is answered in    *)
(* the same session: an end completes only after it looked again at its queue *)
(* (the boundary recheck of 1.1).                                             *)
AnsweredInSession ==
    \A e \in BothEnds : phase[e] = "ok" /\ link.multiple /\ ~Testing(e) =>
        \A f \in Held(kept[e]) :
            Held(Response[f]) \subseteq settled[e].got \cup settled[e].skip

(* Nothing is claimed, offered or received before the answerer has verified   *)
(* the caller's secret, and a test takes nothing into custody.                *)
OnlyAuthenticated ==
    /\ ~link.agreed \/ ~link.admits =>
          \A e \in BothEnds : kept[e] = <<>> /\ pending[e] = <<>> /\ sending[e] = <<>>
                          /\ phase[e] # "ok"
    /\ link.test => kept[Caller] = <<>> /\ settled[Caller].got = {} /\ kept[Answerer] = <<>>

(* While the connection stands and custody does not fail, the two ends never  *)
(* misread each other: neither finds the other's frames malformed, and        *)
(* neither closes on the other before it, too, has all it needs.              *)
NoQuarrel ==
    link.agreed /\ link.admits /\ ~MayBreak => \A e \in BothEnds : Running(e) \/ phase[e] = "ok"

(* Each session ends, with no need of a limit on time: an end never waits     *)
(* for a frame the other end will not send.                                   *)
BothEnd == <>(\A e \in BothEnds : ~Running(e))

(* In a session that is admitted, whose connection stands, each file queued   *)
(* before it began is settled, on both sides.                                 *)
EveryFileSettled ==
    [](link.agreed /\ link.admits /\ ~MayBreak =>
        <>(\A e \in BothEnds : Testing(e) \/
              Held(link.queued[e]) \subseteq settled[e].got \cup settled[e].skip))

=============================================================================
