---------------------------- MODULE MCCircuitNet ----------------------------
(***************************************************************************)
(* Instances of CircuitNet: two End boards under one Host.                 *)
(***************************************************************************)
EXTENDS CircuitNet, TLC

CONSTANTS endA, host, endB, m1, m2, codeX, codeY

LineParent == (endA :> host) @@ (endB :> host) @@ (host :> None)
PairParent == (endA :> host) @@ (host :> None)
Both == [send |-> TRUE, receive |-> TRUE]

\* m1 is a broadcast, m2 goes to the other End, both written on one End.
FromA == (m1 :> endA) @@ (m2 :> endA)
OneCode == (m1 :> codeX) @@ (m2 :> codeX)
TwoCodes == (m1 :> codeX) @@ (m2 :> codeY)
SecondDirected == (m1 :> None) @@ (m2 :> endB)
AllBroadcast == (m1 :> None) @@ (m2 :> None)

AllSubscribed == [n \in Nodes |-> {d \in Nodes \X Codes : <<n, d[1]>> \in Hops}]
\* endB does not take codeX from the Host until its operator subscribes
EndNotSubscribed ==
    [n \in Nodes |-> {d \in Nodes \X Codes : <<n, d[1]>> \in Hops /\ n # endB}]
AllMapped == [n \in Nodes |-> [c \in Codes |-> Both]]
EndsMapped == [n \in Nodes |-> [c \in Codes |-> IF n = host THEN None ELSE Both]]
=============================================================================
