---------------------------- MODULE MCMailServices ----------------------------
(***************************************************************************)
(* The services that carry mail in packets of other formats, small          *)
(* instances of them side by side.  They share no state, so a behaviour is  *)
(* about one of them, or about one instance of it, and the others stay as   *)
(* they begin: every behaviour of every component is one of this            *)
(* specification.  The constants of BinkpQueue are the ones the             *)
(* configuration gives.                                                     *)
(***************************************************************************)
EXTENDS BinkpQueue, TLC
CONSTANTS
    Parts,  \* the components whose behaviours are explored
    A, B, H, P, a1, a2, b1, j1, j2, k1, k2, r1, r2, w1, w2, m1, m2

VARIABLES
    part,  \* the component a behaviour is about
    artifactPhase, artifactRow, file, artifactPc, want, artifactCrashes, artifactFaults,
    msg, version, packetPolicy, access, pointer, resets, fresh, req, transfer, packetPc,
    received, packetCrashes, packetChanges, sent, chosen, changed, looked,
    receipt, posts, job, online, allowed, tokens, replyChanges, replyFaults, meant,
    ended, refused,
    link, turn, dialogPhase, batch, recheck, dialogQueue, pending, sending, receiving,
    requested, discard, settled, kept, output, wire, reset, broken, late,
    outboundRow, outboundLive, outboundClaim, outboundHealth, outboundRun,
    outboundAcked, outboundTaken, outboundOffers, outboundPolicy, outboundUp,
    outboundCopy, outboundFreed, outboundCount,
    native, pub, receipts, ftnQueue, subs, serial, hold, ftnCopy, evidence, ftnCount

artifacts == <<artifactPhase, artifactRow, file, artifactPc, want, artifactCrashes,
               artifactFaults>>
packets == <<msg, version, packetPolicy, access, pointer, resets, fresh, req, transfer,
             packetPc, received, packetCrashes, packetChanges, sent, chosen, changed,
             looked>>
replies == <<receipt, posts, job, online, allowed, tokens, replyChanges, replyFaults,
             meant, ended, refused>>
dialog == <<link, turn, dialogPhase, batch, recheck, dialogQueue, pending, sending,
            receiving, requested, discard, settled, kept, output, wire, reset, broken,
            late>>
outbound == <<outboundRow, outboundLive, outboundClaim, outboundHealth, outboundRun,
              outboundAcked, outboundTaken, outboundOffers, outboundPolicy, outboundUp,
              outboundCopy, outboundFreed, outboundCount>>
ftn == <<native, pub, receipts, ftnQueue, subs, serial, hold, ftnCopy, evidence,
         ftnCount>>
all == <<part, artifacts, packets, replies, dialog, vars, outbound, ftn>>

ToOne == (w1 :> B)

\* The two ends of a session.  A packet each way; a request with nothing, or with other
\* work, to answer it; a file that is not wanted; nothing at all.
Names == {"request", "answer", "big", "mail", "post", "late"}
Fill(x, y) == (A :> x) @@ (B :> y)
Loads == {Fill(<<"request">>, <<>>), Fill(<<"request">>, <<"big", "mail">>),
          Fill(<<"post", "request">>, <<"mail">>), Fill(<<>>, <<"mail">>), Fill(<<>>, <<>>)}
Link(loads) == [agreed : BOOLEAN, admits : BOOLEAN, test : BOOLEAN, multiple : BOOLEAN,
                nr : BOOLEAN, queued : loads]
Good == {l \in Link(Loads) : l.agreed /\ l.admits /\ ~l.test}
Bad == {l \in Link({Fill(<<"request">>, <<"mail">>)}) :
            l.multiple /\ ~l.nr /\ ~(l.agreed /\ l.admits /\ ~l.test)}
AllLinks == Good \cup Bad
Ordinary == {l \in Good : l.queued = Fill(<<"request">>, <<"big", "mail">>)}

\* A hub with two nodes that are also linked to one another, and a point of one of them.
Nodes == (H :> 1) @@ (A :> 2) @@ (B :> 3) @@ (P :> 3)
Ring == (H :> {A, B}) @@ (A :> {H, B}) @@ (B :> {H, A, P}) @@ (P :> {B})
Pair == (H :> {A}) @@ (A :> {H})

\* Two packets that share a member; the second one has a queue control between.
Uploads == [old |-> <<"x", "y">>, new |-> <<"y", "add", "z">>]

Journal == INSTANCE ArtifactCustody WITH
    Artifacts <- {a1, a2}, Batches <- {}, Jobs <- {j1, j2}, Links <- {}, Unknown <- 1,
    Limit <- 4, CircuitLimit <- 8, MaxCrashes <- 2, MaxFaults <- 1,
    phase <- artifactPhase, row <- artifactRow, pc <- artifactPc,
    crashes <- artifactCrashes, faults <- artifactFaults
Mixed == INSTANCE ArtifactCustody WITH
    Artifacts <- {a1, a2}, Batches <- {b1}, Jobs <- {j1}, Links <- {k1, k2},
    Unknown <- 1, Limit <- 4, CircuitLimit <- 4, MaxCrashes <- 2, MaxFaults <- 1,
    phase <- artifactPhase, row <- artifactRow, pc <- artifactPc,
    crashes <- artifactCrashes, faults <- artifactFaults
Overlap == INSTANCE OfflinePackets WITH
    Requests <- {r1, r2}, Size <- 2, Addressed <- {}, MaxChanges <- 0, MaxResets <- 1,
    MaxCrashes <- 0, policy <- packetPolicy, pc <- packetPc, crashes <- packetCrashes,
    changes <- packetChanges
Current == INSTANCE OfflinePackets WITH
    Requests <- {r1}, Size <- 2, Addressed <- {2}, MaxChanges <- 1, MaxResets <- 1,
    MaxCrashes <- 1, policy <- packetPolicy, pc <- packetPc, crashes <- packetCrashes,
    changes <- packetChanges
Replies == INSTANCE OfflineReplies WITH
    Content <- Uploads, Reviewed <- {"y"}, Controls <- {"add"}, MaxNew <- 1, MaxChanges <- 1, MaxFaults <- 2,
    changes <- replyChanges, faults <- replyFaults
Meet == INSTANCE BinkpSession WITH
    Caller <- A, Answerer <- B, Unwanted <- Fill({"big"}, {}),
    Response <- [f \in Names |-> IF f = "request" THEN <<"answer">> ELSE <<>>],
    Links <- AllLinks, Late <- Fill({}, {}), Chunks <- 2, ResetLoses <- FALSE,
    MayBreak <- FALSE, phase <- dialogPhase, queue <- dialogQueue
Broken == INSTANCE BinkpSession WITH
    Caller <- A, Answerer <- B, Unwanted <- Fill({"big"}, {}),
    Response <- [f \in Names |-> IF f = "request" THEN <<"answer">> ELSE <<>>],
    Links <- Ordinary \cup Bad, Late <- Fill({"late"}, {}), Chunks <- 1,
    ResetLoses <- TRUE, MayBreak <- TRUE, phase <- dialogPhase, queue <- dialogQueue
Shared == INSTANCE BinkpQueue WITH
    Works <- {w1, w2}, Links <- {B}, LinkOf <- [w \in {w1, w2} |-> B], MaxSessions <- 1,
    MaxCrashes <- 0, MaxRestores <- 0, Peer <- {"take", "skip"},
    Ends <- {"clean", "interrupted"}, MaxAttempts <- 2, MaxPolicy <- 1,
    MaxWithdrawals <- 0, MaxOperator <- 0, row <- outboundRow, live <- outboundLive,
    claim <- outboundClaim, health <- outboundHealth, run <- outboundRun,
    acked <- outboundAcked, taken <- outboundTaken, offers <- outboundOffers,
    policy <- outboundPolicy, up <- outboundUp, copy <- outboundCopy,
    freed <- outboundFreed, count <- outboundCount
Echoes == INSTANCE FtnMail WITH
    Points <- {P}, Boards <- {H, A, B, P}, Node <- Nodes, Peers <- Ring, Mails <- {m1},
    Echo <- {m1}, From <- (m1 :> P), To <- (m1 :> H),
    Route <- [b \in {H, A, B, P} |-> [d \in {H, A, B, P} |-> H]],
    Transit <- [b \in {H, A, B, P} |-> {}], MaxLost <- 1, MaxChanges <- 2,
    MaxRescans <- 1, MaxRestores <- 0, queue <- ftnQueue, copy <- ftnCopy,
    count <- ftnCount
Serials == INSTANCE FtnMail WITH
    Points <- {}, Boards <- {H, A}, Node <- Nodes, Peers <- Pair, Mails <- {m1, m2},
    Echo <- {m1, m2}, From <- (m1 :> A) @@ (m2 :> A), To <- (m1 :> H) @@ (m2 :> H),
    Route <- [b \in {H, A} |-> [d \in {H, A} |-> d]], Transit <- [b \in {H, A} |-> {}],
    MaxLost <- 1, MaxChanges <- 0, MaxRescans <- 0, MaxRestores <- 1, queue <- ftnQueue,
    copy <- ftnCopy, count <- ftnCount

\* what the theorems about the components assume of their constants
ASSUME AssumptionsHold ==
    /\ QueueAssumption
    /\ Journal!CustodyAssumption /\ Mixed!CustodyAssumption
    /\ Replies!RepliesAssumption
    /\ Echoes!FtnAssumption /\ Serials!FtnAssumption
    /\ Overlap!PacketAssumption /\ Current!PacketAssumption

AllInit ==
    /\ part \in Parts
    /\ part # "artifacts and batches" => Journal!Init /\ (part # "journaled artifacts" => want = [w \in {j1, j2} |-> a1])
    /\ part = "artifacts and batches" => Mixed!Init
    /\ part # "changing conference" => Overlap!Init
    /\ part = "changing conference" => Current!Init
    /\ Replies!Init
    /\ part # "broken sessions" => Meet!Init /\ (part # "whole sessions" => link = [agreed |-> TRUE, admits |-> TRUE, test |-> FALSE, multiple |-> TRUE, nr |-> FALSE, queued |-> Fill(<<>>, <<>>)])
    /\ part = "broken sessions" => Broken!Init
    /\ Init
    /\ Shared!Init
    /\ part # "restored node" => Echoes!Init
    /\ part = "restored node" => Serials!Init

\* A step of one component leaves the others alone.
OnlyArtifacts == UNCHANGED <<part, packets, replies, dialog, vars, outbound, ftn>>
OnlyPackets == UNCHANGED <<part, artifacts, replies, dialog, vars, outbound, ftn>>
OnlyReplies == UNCHANGED <<part, artifacts, packets, dialog, vars, outbound, ftn>>
OnlyDialog == UNCHANGED <<part, artifacts, packets, replies, vars, outbound, ftn>>
OnlyQueued == UNCHANGED <<part, artifacts, packets, replies, dialog, outbound, ftn>>
OnlyOutbound == UNCHANGED <<part, artifacts, packets, replies, dialog, vars, ftn>>
OnlyFtn == UNCHANGED <<part, artifacts, packets, replies, dialog, vars, outbound>>
AllNext ==
    \/ part = "journaled artifacts" /\ Journal!Next /\ OnlyArtifacts
    \/ part = "artifacts and batches" /\ Mixed!Next /\ OnlyArtifacts
    \/ part = "overlapping packets" /\ Overlap!Next /\ OnlyPackets
    \/ part = "changing conference" /\ Current!Next /\ OnlyPackets
    \/ part = "replies" /\ Replies!Next /\ OnlyReplies
    \/ part = "whole sessions" /\ Meet!Next /\ OnlyDialog
    \/ part = "broken sessions" /\ Broken!Next /\ OnlyDialog
    \/ part = "restored queue" /\ Next /\ OnlyQueued
    \/ part = "outbound queue" /\ Shared!Next /\ OnlyOutbound
    \/ part = "echo mail" /\ Echoes!Next /\ OnlyFtn
    \/ part = "restored node" /\ Serials!Next /\ OnlyFtn
AllSpec == AllInit /\ [][AllNext]_all

-----------------------------------------------------------------------------
\* A complete row has its whole file, a partial file has its row, and only what a row
\* calls pending is ever removed, whatever writer dies, fails or competes at whatever
\* byte (preserve_artifact, retain, recover).
CustodyOfArtifacts ==
    /\ [](part = "journaled artifacts" => Journal!PartialIsJournaled)
    /\ [](part = "artifacts and batches" => Mixed!TypeOK /\ Mixed!CompleteIsWhole)
    /\ [][part = "artifacts and batches" => Mixed!OnlyPendingRemoved]_all

\* Mail that a caller has not been sent stays ahead of the pointer, which only the caller
\* sets back; what is confirmed is what was sent and still stands (prepare_offline,
\* confirm_offline, check_manifest).
NothingIsPassedOver ==
    /\ [](part = "overlapping packets" => Overlap!NothingSkipped)
    /\ [](part = "changing conference" => Current!TypeOK /\ Current!ReceivedWasSent)
    /\ [][part = "overlapping packets" =>
            Overlap!OnlySetGoesBack /\ Overlap!ConfirmedKnowingly]_all
    /\ [][part = "changing conference" => Current!ConfirmedIsCurrent]_all

\* A reply is posted with its receipt or not at all, and a packet that is sent again posts
\* nothing twice (import_offline_replies_reviewed).
RepliesPostOnce ==
    part = "replies" => Replies!TypeOK /\ Replies!PostsHaveReceipts /\ Replies!RetryPostsOnce

\* The two ends of a session come to the same end with nothing left behind, only after
\* they know each other; where the connection breaks, a file its sender calls delivered
\* is in its receiver's custody, once; and work in the sender's queue counts as accepted
\* only if the peer took it (Session::step, receive, command, accepted, finish_binkp).
BothEndsAgree ==
    /\ part = "whole sessions" =>
        /\ Meet!TypeOK /\ Meet!AnsweredInSession /\ Meet!NoQuarrel
        /\ Meet!NoneLeftBehind /\ Meet!OnlyAuthenticated
    /\ part = "broken sessions" => Broken!DeliveredIsKept /\ Broken!KeptOnce
    /\ part = "outbound queue" =>
        Shared!TypeOK /\ Shared!AcceptedWasTaken /\ Shared!OffersAreAttempts

\* A message is published once whatever ways it comes, a node that a packet calls served
\* was served, and a restored board gives no identity twice (toss_ftn_admitted, build_ftn,
\* reconcile_ftn_recovery).
EchoesAreServedOnce ==
    /\ part = "echo mail" => Echoes!TypeOK /\ Echoes!PublishedOnce /\ Echoes!SeenIsServed
    /\ part = "restored node" => Serials!NoConflict
=============================================================================
