--------------------------- MODULE MessageCustody ---------------------------
(***************************************************************************)
(* What CircuitNET promises of a network message, without queues, batches, *)
(* sessions or retries: a node takes custody of a message at most once,    *)
(* from a neighbor that already has it, and a hop is called done only when *)
(* its far end has taken custody.                                          *)
(***************************************************************************)
CONSTANTS Nodes, Messages, Hops, Origin

VARIABLES
    holds,    \* the nodes that have taken custody of each message
    done      \* <<hop, message>> pairs a node considers delivered

Init == holds = [m \in Messages |-> {}] /\ done = {}

\* Some messages become network messages at the node they were written on.
Publish(n) ==
    \E S \in SUBSET {m \in Messages : Origin[m] = n /\ n \notin holds[m]} :
        /\ holds' = [m \in Messages |-> IF m \in S THEN holds[m] \cup {n} ELSE holds[m]]
        /\ UNCHANGED done

\* Some messages cross a hop together, none of them to a node that has it.
Cross(h) ==
    \E S \in SUBSET {m \in Messages : h[1] \in holds[m] /\ h[2] \notin holds[m]} :
        /\ holds' = [m \in Messages |-> IF m \in S THEN holds[m] \cup {h[2]} ELSE holds[m]]
        /\ UNCHANGED done

\* The near end learns that the far end has them; nothing is ever unlearned.
Confirm(h) ==
    \E S \in SUBSET {m \in Messages : h[1] \in holds[m] /\ h[2] \in holds[m]} :
        /\ done' = done \cup {<<h, m>> : m \in S}
        /\ UNCHANGED holds

Next == (\E n \in Nodes : Publish(n)) \/ (\E h \in Hops : Cross(h) \/ Confirm(h))

Spec == Init /\ [][Next]_<<holds, done>>
=============================================================================
