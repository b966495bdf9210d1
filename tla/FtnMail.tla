------------------------------- MODULE FtnMail -------------------------------
(* FTN mail between boards: one echo area and NetMail, scanned, routed, built *)
(* into packets, carried over the links and tossed.                           *)
(*                                                                            *)
(* A packet carries one message.  A transfer over a link is one step here:    *)
(* the receiver tosses before it acknowledges, and the acknowledgement may be *)
(* lost, so that the same packet comes again (BinkpQueue has the sender's     *)
(* side of that).  A member's import is one transaction, with its receipt.    *)
(* One domain and one zone; policies other than the subscriptions, weak       *)
(* identities and the limits of the shared queue are left out.                *)
EXTENDS Naturals, FiniteSets

CONSTANTS
    Boards,
    Points,         \* the boards that are points; a point has its boss's node
    Node,           \* [board -> its two-dimensional address]
    Peers,          \* [board -> boards it has a link with]
    Mails,
    Echo,           \* the mails of the area; the others are NetMail
    From, To,       \* [mail -> board]
    Route,          \* [board -> [board -> the next hop, or the board itself]]
    Transit,        \* [board -> links whose NetMail it passes on]
    MaxLost,        \* bound: lost acknowledgements
    MaxChanges,     \* bound: changes of subscription, and releases
    MaxRescans,     \* bound: rescans
    MaxRestores     \* bound: restores of an older copy of a board

(* Links go both ways.  Only its boss links a point (`downstream_valid`), and *)
(* a node has one board that is not a point.                                  *)
PeersAssumption ==
    /\ Peers \in [Boards -> SUBSET Boards]
    /\ \A b \in Boards : b \notin Peers[b] /\ \A n \in Peers[b] : b \in Peers[n]
PointsAssumption ==
    /\ Points \subseteq Boards
    /\ \A b \in Points : Peers[b] \cap Points = {}
    /\ \A b, c \in Boards \ Points : Node[b] = Node[c] => b = c
MailsAssumption ==
    /\ From \in [Mails -> Boards] /\ To \in [Mails -> Boards]
    /\ Echo \subseteq Mails /\ IsFiniteSet(Mails)
    /\ \A m \in Mails \ Echo, b \in Boards : Route[b][To[m]] \in Peers[b] \cup {b}
FtnAssumption ==
    /\ PeersAssumption /\ PointsAssumption /\ MailsAssumption
    /\ {MaxLost, MaxChanges, MaxRescans, MaxRestores} \subseteq Nat

VARIABLES
    native,     \* [board -> mails written there and kept as its messages]
    pub,        \* [board -> its publications: mail, identity, ingress, seen,
                \*   path, marked (imported from a rescan)]
    receipts,   \* [board -> import receipts: link, artifact, outcome]
    queue,      \* queue items: at, to, mail, key ("normal" or "rescan"), state,
                \*   packet
    subs,       \* [board -> links subscribed to the area]
    serial,     \* [board -> the next serial of its message identities]
    hold,       \* [board -> restored, its serials not yet reconciled]
    copy,       \* [board -> a copy of its database, if one was made]
    evidence,   \* [board -> what a restore found in the root it replaced]
    count       \* how often each bounded event has happened

board == <<native, pub, receipts, subs, serial>>
vars == <<native, pub, receipts, queue, subs, serial, hold, copy, evidence, count>>

NoPacket == [mail |-> "none"]
NoCopy == [items |-> {}, pub |-> "none"]
NoEvidence == [serial |-> 0, accepted |-> {}, held |-> TRUE]
Unsent == {"pending", "ready"}

Happens(event) == count' = [count EXCEPT ![event] = @ + 1]
Own(b) == IF b \in Points THEN {} ELSE {Node[b]}
Scope(m) == IF m \in Echo THEN "area" ELSE To[m]
Published(b, m) == \E p \in pub[b] : p.mail = m

Init ==
    /\ native = [b \in Boards |-> {}]
    /\ pub = [b \in Boards |-> {}]
    /\ receipts = [b \in Boards |-> {}]
    /\ queue = {}
    /\ subs = Peers
    /\ serial = [b \in Boards |-> 1]
    /\ hold = [b \in Boards |-> FALSE]
    /\ copy = [b \in Boards |-> NoCopy]
    /\ evidence = [b \in Boards |-> NoEvidence]
    /\ count = [e \in {"lost", "change", "rescan", "restore"} |-> 0]

-----------------------------------------------------------------------------
(* Where a publication goes from a board.                                     *)

\* Mutant: a point is taken for its node.
NodeTargets(b, m, seen, path, ingress) ==
    {n \in subs[b] \ {ingress, From[m]} : Node[n] \notin seen \cup path}
(* An echo goes to each subscribed link but the one it came from, its author  *)
(* and the nodes that have seen it.                                           *)
EchoTargets(b, m, seen, path, ingress) ==
    {n \in subs[b] \ {ingress, From[m]} : n \in Points \/ Node[n] \notin seen \cup path}

NetTargets(b, m) == IF b = To[m] THEN {} ELSE {Route[b][To[m]]}

Item(b, n, m, key) ==
    [at |-> b, to |-> n, mail |-> m, key |-> key, state |-> "pending", packet |-> NoPacket]

Publication(m, ident, ingress, seen, path, marked) ==
    [mail |-> m, ident |-> ident, ingress |-> ingress, seen |-> seen, path |-> path,
     marked |-> marked]

-----------------------------------------------------------------------------
(* A caller writes a message of the area.                                     *)
Post(m) ==
    /\ m \in Echo /\ m \notin UNION {native[b] : b \in Boards}
    /\ native' = [native EXCEPT ![From[m]] = @ \cup {m}]
    /\ UNCHANGED <<pub, receipts, queue, subs, serial, hold, copy, evidence, count>>

(* `scan_ftn`: each message of the area not yet published gets an identity and *)
(* its targets.  The order of the identities is the order of the messages.    *)
Scan(b) ==
    LET fresh == {m \in native[b] \cap Echo : ~Published(b, m)}
    IN  /\ fresh # {}
        /\ ~hold[b]
        /\ \E number \in [fresh -> serial[b] .. serial[b] + Cardinality(fresh) - 1] :
              /\ \A m, n \in fresh : number[m] = number[n] => m = n
              /\ pub' = [pub EXCEPT ![b] = @ \cup
                    {Publication(m, <<b, number[m]>>, b, {}, {}, FALSE) : m \in fresh}]
        /\ serial' = [serial EXCEPT ![b] = @ + Cardinality(fresh)]
        /\ queue' = queue \cup UNION
              {{Item(b, n, m, "normal") : n \in EchoTargets(b, m, {}, {}, b)} : m \in fresh}
        /\ UNCHANGED <<native, receipts, subs, hold, copy, evidence, count>>

(* `send_ftn_mail`: NetMail is published and routed as it is written.         *)
SendMail(m) ==
    LET b == From[m]
    IN  /\ m \notin Echo /\ m \notin UNION {native[c] : c \in Boards}
        /\ ~hold[b]
        /\ b # To[m] /\ Route[b][To[m]] # b
        /\ native' = [native EXCEPT ![b] = @ \cup {m}]
        /\ pub' = [pub EXCEPT ![b] = @ \cup {Publication(m, <<b, serial[b]>>, b, {}, {}, FALSE)}]
        /\ serial' = [serial EXCEPT ![b] = @ + 1]
        /\ queue' = queue \cup {Item(b, n, m, "normal") : n \in NetTargets(b, m)}
        /\ UNCHANGED <<receipts, subs, hold, copy, evidence, count>>

-----------------------------------------------------------------------------
\* Mutant: the packet lists the links subscribed when it is built.
PackedSubscribers(i, p) ==
    LET seen == p.seen \cup Own(i.at) \cup {Node[n] : n \in subs[i.at] \ Points}
    IN  [mail |-> i.mail, ident |-> p.ident,
         artifact |-> <<i.at, i.mail, i.key, count["restore"]>>,
         seen |-> IF i.mail \in Echo THEN seen ELSE {},
         path |-> IF i.mail \in Echo THEN p.path \cup Own(i.at) ELSE p.path \cup {i.at},
         marked |-> i.key = "rescan" \/ p.marked]
(* `build_ftn`: the packet is made when the link's session asks for it, or the *)
(* item is held, if its link is no longer subscribed.  The packet lists this  *)
(* board, and all its targets, as having seen the message.                    *)
Packed(i, p) ==
    LET targets == {j \in queue : j.at = i.at /\ j.mail = i.mail /\ j.key = i.key}
        nodes == {Node[j.to] : j \in {k \in targets : k.to \notin Points}}
        seen == p.seen \cup Own(i.at) \cup nodes
    IN  [mail |-> i.mail, ident |-> p.ident,
         artifact |-> <<i.at, i.mail, i.key, count["restore"]>>,
         seen |-> IF i.mail \notin Echo THEN {}
                  ELSE IF seen = {} THEN {Node[i.at]} ELSE seen,
         path |-> IF i.mail \in Echo THEN p.path \cup Own(i.at) ELSE p.path \cup {i.at},
         marked |-> i.key = "rescan" \/ p.marked]

Build(i) ==
    /\ i \in queue /\ i.state = "pending"
    /\ \E p \in pub[i.at] :
          /\ p.mail = i.mail
          /\ queue' = (queue \ {i}) \cup
                {IF i.mail \in Echo /\ i.to \notin subs[i.at]
                 THEN [i EXCEPT !.state = "held"]
                 ELSE [i EXCEPT !.state = "ready", !.packet = Packed(i, p)]}
    /\ UNCHANGED <<board, hold, copy, evidence, count>>

-----------------------------------------------------------------------------
(* What a board makes of a packet from a link.                                *)

(* NetMail in transit: admitted from the link, not here before, and routed    *)
(* elsewhere than back.                                                       *)
Routable(n, b, p) ==
    /\ b \in Transit[n]
    /\ n \notin p.path
    /\ Route[n][To[p.mail]] \notin {n, b}

\* Mutant: an identity is not remembered.
Unknown(n, p) == {}
Prior(n, p) == {q \in pub[n] : q.ident = p.ident /\ Scope(q.mail) = Scope(p.mail)}

Loops(n, p) == From[p.mail] = n \/ (n \notin Points /\ Node[n] \in p.path)

\* Mutant: NetMail that may not pass is dropped as a loop.
OutcomeDropped(n, b, p) ==
    IF Prior(n, p) # {}
    THEN IF \A q \in Prior(n, p) : q.mail = p.mail THEN "duplicate" ELSE "conflict"
    ELSE IF p.mail \in Echo
    THEN IF b \notin subs[n] THEN "denied" ELSE IF Loops(n, p) THEN "loop" ELSE "imported"
    ELSE IF n = To[p.mail] \/ Routable(n, b, p) THEN "imported" ELSE "loop"
(* The order of the checks is the code's: identity, then admission, then      *)
(* loops.                                                                     *)
Outcome(n, b, p) ==
    IF Prior(n, p) # {}
    THEN IF \A q \in Prior(n, p) : q.mail = p.mail THEN "duplicate" ELSE "conflict"
    ELSE IF p.mail \in Echo
    THEN IF b \notin subs[n] THEN "denied" ELSE IF Loops(n, p) THEN "loop" ELSE "imported"
    ELSE IF n = To[p.mail] \/ Routable(n, b, p) THEN "imported" ELSE "routing"

(* `toss_ftn_admitted`, for a packet with one member.                         *)
Toss(n, b, p, items) ==
    IF \E r \in receipts[n] : r.link = b /\ r.artifact = p.artifact
    THEN UNCHANGED <<pub, receipts>> /\ queue' = items
    ELSE LET outcome == Outcome(n, b, p)
             imports == outcome = "imported"
             goes == IF p.mail \in Echo
                     THEN IF p.marked THEN {} ELSE EchoTargets(n, p.mail, p.seen, p.path, b)
                     ELSE NetTargets(n, p.mail)
         IN  /\ receipts' = [receipts EXCEPT ![n] = @ \cup
                    {[link |-> b, artifact |-> p.artifact, outcome |-> outcome]}]
             /\ pub' = IF ~imports THEN pub
                       ELSE [pub EXCEPT ![n] = @ \cup
                              {Publication(p.mail, p.ident, b, p.seen, p.path, p.marked)}]
             /\ queue' = IF ~imports THEN items
                         ELSE items \cup {Item(n, t, p.mail, "normal") : t \in goes}

(* A session carries a packet over.  Its acknowledgement may be lost.         *)
Transfer(i) ==
    /\ i \in queue /\ i.state = "ready"
    /\ \/ /\ Toss(i.to, i.at, i.packet, (queue \ {i}) \cup {[i EXCEPT !.state = "accepted"]})
          /\ UNCHANGED count
       \/ /\ count["lost"] < MaxLost /\ Happens("lost")
          /\ Toss(i.to, i.at, i.packet, queue)
    /\ UNCHANGED <<native, subs, serial, hold, copy, evidence>>

-----------------------------------------------------------------------------
(* `set_subscription`, by the Sysop or by AreaFix.  Work for the link is held *)
(* when it leaves, unless the session that asked for it has it already.       *)
Unsubscribe(b, n) ==
    /\ n \in subs[b]
    /\ count["change"] < MaxChanges /\ Happens("change")
    /\ subs' = [subs EXCEPT ![b] = @ \ {n}]
    /\ \E claimed \in SUBSET {i \in queue : i.state = "ready"} :
          queue' = {IF i.at = b /\ i.to = n /\ i.mail \in Echo /\ i.state \in Unsent
                       /\ i \notin claimed
                    THEN [i EXCEPT !.state = "held"] ELSE i : i \in queue}
    /\ UNCHANGED <<native, pub, receipts, serial, hold, copy, evidence>>

Subscribe(b, n) ==
    /\ n \in Peers[b] \ subs[b]
    /\ count["change"] < MaxChanges /\ Happens("change")
    /\ subs' = [subs EXCEPT ![b] = @ \cup {n}]
    /\ UNCHANGED <<native, pub, receipts, queue, serial, hold, copy, evidence>>

\* Mutant: released work is ready, built or not.
ReleaseReady(i) ==
    /\ i \in queue /\ i.state = "held"
    /\ count["change"] < MaxChanges /\ Happens("change")
    /\ queue' = (queue \ {i}) \cup {[i EXCEPT !.state = "ready"]}
    /\ UNCHANGED <<board, hold, copy, evidence>>
(* `release_binkp`: the operator lets held work go.                           *)
Release(i) ==
    /\ i \in queue /\ i.state = "held"
    /\ count["change"] < MaxChanges /\ Happens("change")
    /\ queue' = (queue \ {i}) \cup
          {[i EXCEPT !.state = IF i.packet = NoPacket THEN "pending" ELSE "ready"]}
    /\ UNCHANGED <<board, hold, copy, evidence>>

(* `rescan_ftn`: what the area holds is queued again for one link, unless an  *)
(* earlier rescan of the link is still under way.                             *)
Rescan(b, n) ==
    /\ n \in subs[b]
    /\ count["rescan"] < MaxRescans /\ Happens("rescan")
    /\ ~\E i \in queue : i.at = b /\ i.to = n /\ i.key = "rescan" /\ i.state # "accepted"
    /\ queue' = {i \in queue : ~(i.at = b /\ i.to = n /\ i.key = "rescan")} \cup
          {Item(b, n, p.mail, "rescan") : p \in {q \in pub[b] : q.mail \in Echo}}
    /\ UNCHANGED <<board, hold, copy, evidence>>

-----------------------------------------------------------------------------
(* A copy of a board is made, and put back over a later state of it.  Unsent  *)
(* work is held, and no identity is given out until the serials are known.    *)
Backup(b) ==
    /\ MaxRestores > 0 /\ copy[b] = NoCopy
    /\ copy' = [copy EXCEPT ![b] =
          [native |-> native[b], pub |-> pub[b], receipts |-> receipts[b], subs |-> subs[b],
           serial |-> serial[b], items |-> {i \in queue : i.at = b}]]
    /\ UNCHANGED <<board, queue, hold, evidence, count>>

Restore(b) ==
    LET c == copy[b]
        items == {i \in queue : i.at = b}
    IN  /\ c # NoCopy
        /\ count["restore"] < MaxRestores /\ Happens("restore")
        /\ native' = [native EXCEPT ![b] = c.native]
        /\ pub' = [pub EXCEPT ![b] = c.pub]
        /\ receipts' = [receipts EXCEPT ![b] = c.receipts]
        /\ subs' = [subs EXCEPT ![b] = c.subs]
        /\ serial' = [serial EXCEPT ![b] = c.serial]
        /\ queue' = (queue \ items) \cup
              {IF i.state \in Unsent THEN [i EXCEPT !.state = "held"] ELSE i : i \in c.items}
        /\ hold' = [hold EXCEPT ![b] = TRUE]
        /\ evidence' = [evidence EXCEPT ![b] =
              [serial |-> serial[b], held |-> hold[b],
               accepted |-> {i \in items : i.state = "accepted"}]]
        /\ UNCHANGED copy

\* Mutant: the hold is lifted without the serials.
ReconcileOnly(b) ==
    /\ hold[b] /\ evidence[b] # NoEvidence
    /\ hold' = [hold EXCEPT ![b] = evidence[b].held]
    /\ UNCHANGED <<board, queue, copy, evidence, count>>

(* `reconcile_ftn_recovery`, with what the replaced root still showed: the    *)
(* serials never go back, and what its peers had acknowledged is accepted.    *)
Reconcile(b) ==
    LET e == evidence[b]
    IN  /\ hold[b] /\ e # NoEvidence
        /\ hold' = [hold EXCEPT ![b] = IF e.serial >= serial[b] THEN e.held ELSE @]
        /\ serial' = [serial EXCEPT ![b] = IF e.serial > @ THEN e.serial ELSE @]
        /\ queue' = {IF \E a \in e.accepted : [a EXCEPT !.state = i.state] = i
                     THEN [i EXCEPT !.state = "accepted"] ELSE i : i \in queue}
        /\ UNCHANGED <<native, pub, receipts, subs, copy, evidence, count>>

Next ==
    \/ \E m \in Mails : Post(m) \/ SendMail(m)
    \/ \E b \in Boards : Scan(b)
    \/ \E i \in queue : Build(i) \/ Transfer(i) \/ Release(i)
    \/ \E b, n \in Boards : Subscribe(b, n) \/ Unsubscribe(b, n) \/ Rescan(b, n)
    \/ \E b \in Boards : Backup(b) \/ Restore(b) \/ Reconcile(b)

(* Each board scans, and each link is polled, again and again.                *)
BuildAny(b, m) == \E i \in queue : i.at = b /\ i.mail = m /\ Build(i)
TransferAny(b, m) == \E i \in queue : i.at = b /\ i.mail = m /\ Transfer(i)
Fairness ==
    \A b \in Boards :
        /\ WF_vars(Scan(b))
        /\ \A m \in Mails : WF_vars(BuildAny(b, m)) /\ WF_vars(TransferAny(b, m))

Spec == Init /\ [][Next]_vars
FairSpec == Spec /\ Fairness

-----------------------------------------------------------------------------
Quarantined(b, m) ==
    \E r \in receipts[b] : r.artifact[2] = m /\ r.outcome \in {"denied", "conflict", "routing"}
OnTheWay(n, m) == \E i \in queue : i.to = n /\ i.mail = m /\ i.state # "accepted"

(* Every variable has its type.                                               *)
TypeOK ==
    /\ \A b \in Boards :
          /\ native[b] \subseteq Mails /\ subs[b] \subseteq Peers[b]
          /\ serial[b] \in Nat \ {0} /\ hold[b] \in BOOLEAN
          /\ \A p \in pub[b] : p.mail \in Mails /\ p.ingress \in Boards
          /\ \A r \in receipts[b] :
                r.outcome \in {"imported", "duplicate", "loop", "denied", "conflict", "routing"}
    /\ \A i \in queue :
          /\ i.to \in Peers[i.at] /\ i.mail \in Mails
          /\ i.state \in {"pending", "ready", "held", "accepted"}
          /\ i.state = "ready" => i.packet # NoPacket

(* A board publishes a mail once, however many copies reach it, and none of   *)
(* its own comes back to it as another's.                                     *)
PublishedOnce ==
    \A b \in Boards :
        /\ \A p, q \in pub[b] : p.mail = q.mail => p = q
        /\ \A p \in pub[b] : (From[p.mail] = b) = (p.ingress = b)

(* A node that a publication lists as having seen the mail has it, or will:   *)
(* it is published there, or refused there for review, or still in a queue    *)
(* for it.  This is what lets the others leave it out.                        *)
SeenIsServed ==
    \A b \in Boards : \A p \in pub[b] : \A n \in Boards \ Points :
        p.mail \in Echo /\ Node[n] \in p.seen =>
            Published(n, p.mail) \/ Quarantined(n, p.mail) \/ OnTheWay(n, p.mail)

(* No two mails share an identity: no board quarantines one for the other,    *)
(* not even after a board is restored and its serials reconciled.             *)
NoConflict ==
    \A b \in Boards : \A r \in receipts[b] : r.outcome # "conflict"

(* A mail of the area reaches every board that is linked to its author's,     *)
(* over others or not.                                                        *)
EveryoneGetsIt ==
    \A m \in Echo : \A b \in Boards :
        m \in native[From[m]] ~> Published(b, m)

(* NetMail arrives, or a board on its way has quarantined it.                 *)
MailIsAccountedFor ==
    \A m \in Mails \ Echo :
        m \in native[From[m]] ~>
            Published(To[m], m) \/ \E b \in Boards : Quarantined(b, m)
=============================================================================
