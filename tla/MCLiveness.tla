----------------------------- MODULE MCLiveness -----------------------------
(***************************************************************************)
(* What must happen some day, on small instances of BoardSessions and of    *)
(* CircuitNet side by side.  They share no state: a behaviour is about one  *)
(* of them, under that one's fairness, and the other stays as it begins,    *)
(* where none of its properties asks for anything.  The constants of        *)
(* BoardSessions are the ones the configuration gives.                      *)
(***************************************************************************)
EXTENDS BoardSessions, TLC

CONSTANTS endA, host, m1, m2, codeX, codeY

VARIABLES
    part,  \* the component a behaviour is about
    enabled, dossiers, mapping, copy, queue, attempts, artifact, offers, imports, pending,
    granted, changes, losses

net == <<enabled, dossiers, mapping, copy, queue, attempts, artifact, offers, imports,
         pending, granted, changes, losses>>

\* an End under its Host, which takes the codename of one of its two messages
Boards == {endA, host}
Both == [send |-> TRUE, receive |-> TRUE]
Net == INSTANCE CircuitNet WITH
    Nodes <- Boards, Ends <- {endA}, Offline <- {}, Parent <- (endA :> host) @@ (host :> None),
    Messages <- {m1, m2}, Codes <- {codeX, codeY},
    Origin <- (m1 :> endA) @@ (m2 :> endA), Code <- (m1 :> codeX) @@ (m2 :> codeY),
    Dest <- (m1 :> None) @@ (m2 :> None),
    Dossiers0 <- (endA :> {<<host, codeX>>, <<host, codeY>>}) @@ (host :> {<<endA, codeX>>}),
    Mapping0 <- [n \in Boards |-> [c \in {codeX, codeY} |-> Both]],
    MaxBatch <- 2, MaxAttempts <- 2, MaxWaiting <- 2, MaxChanges <- 1, MaxLosses <- 1

AllInit == part \in {"sessions", "custody"} /\ Init /\ Net!Init
AllNext ==
    \/ part = "sessions" /\ Next /\ UNCHANGED <<part, net>>
    \/ part = "custody" /\ Net!Next /\ UNCHANGED <<part, vars>>

\* BoardSessions at its beginning has nothing that Fairness could ask for; CircuitNet
\* has, and is asked only where the behaviour is about it.
NetFairness ==
    /\ \A n \in Boards : WF_net(part = "custody" /\ Net!Scan(n))
    /\ \A h \in Net!Hops : /\ WF_net(part = "custody" /\ Net!PollSend(h))
                          /\ WF_net(part = "custody" /\ Net!LinkFailed(h))
AllFairSpec == AllInit /\ [][AllNext]_<<part, vars, net>> /\ Fairness /\ NetFairness

\* see CircuitNet: a queued delivery is decided in a bounded number of attempts
DeliveryIsDecided == Net!DeliveryIsDecided
=============================================================================
