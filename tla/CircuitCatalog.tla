--------------------------- MODULE CircuitCatalog ---------------------------
(***************************************************************************)
(* The CircuitNET conference catalog: a chain of signed revisions that the *)
(* root publishes and every board passes on to its children.  A revision   *)
(* names the hash of the one before it, so it stands here for the whole    *)
(* chain that ends in it.  A catalog describes one conference, which each  *)
(* board maps to a conference of its own or not.                           *)
(*                                                                         *)
(* Board 1 is the root and board b - 1 the parent of b; all are pinned to  *)
(* the first signing key.  A signing key is replaced on each board by its  *)
(* operator, at one agreed revision.  Publishing, import, enrolment,       *)
(* backup and restore are commands on a stopped board.                     *)
(***************************************************************************)
EXTENDS Integers, Sequences

CONSTANTS Depth,        \* boards in the line
          Lifecycles,   \* what the root may declare the conference to be
          Replaceable,  \* boards that may be lost and built anew
          Snapshots,    \* boards that have a backup
          Limit,        \* revisions of one exchange, 64 in the code
          MaxRevs, MaxKeys, MaxFaults,  \* bounds
          None

CatalogAssumption ==
    {Depth, Limit, MaxKeys} \subseteq Nat \ {0} /\ {MaxRevs, MaxFaults} \subseteq Nat

VARIABLES chain,      \* board -> accepted revisions
          keys,       \* board -> key epochs
          upstream,   \* board -> the parent's revision last seen
          peer,       \* board -> the revision its child has acknowledged
          map,        \* board -> the conference is mapped
          sess,       \* child -> the catalog phase with its parent
          backup,
          published, transitions,   \* what the root ever signed
          faults
board == <<chain, keys, upstream, peer, map>>
vars == <<board, sess, backup, published, transitions, faults>>

Boards == 1..Depth
Children == 2..Depth
Revision == [status : Lifecycles, key : 1..MaxKeys]
Epoch == [key : 1..MaxKeys, cutoff : 0..MaxRevs]
Idle == [at |-> "idle", head |-> <<>>, remote |-> <<>>, next |-> 0, last |-> 0]
Fresh == [chain |-> <<>>, keys |-> <<[key |-> 1, cutoff |-> 0]>>, upstream |-> 0,
          peer |-> 0, map |-> FALSE]

IsPrefixOf(s, t) == Len(s) <= Len(t) /\ SubSeq(t, 1, Len(s)) = s
Key(b) == keys[b][Len(keys[b])].key

TypeOK ==
    /\ \A b \in Boards : chain[b] \in Seq(Revision) /\ keys[b] \in Seq(Epoch)
                         /\ Len(keys[b]) \in 1..MaxKeys
    /\ upstream \in [Boards -> 0..MaxRevs] /\ peer \in [Boards -> 0..MaxRevs]
    /\ map \in [Boards -> BOOLEAN]
    /\ \A c \in Children :
        /\ sess[c].at \in {"idle", "head", "asked", "objects", "ack"}
        /\ sess[c].last <= Len(chain[c - 1])
        /\ sess[c].at \in {"objects", "ack"} => sess[c].next \in 1..sess[c].last
    /\ faults \in 0..MaxFaults

Init ==
    /\ chain = [b \in Boards |-> Fresh.chain] /\ keys = [b \in Boards |-> Fresh.keys]
    /\ upstream = [b \in Boards |-> 0] /\ peer = [b \in Boards |-> 0]
    /\ map = [b \in Boards |-> FALSE]
    /\ sess = [c \in Children |-> Idle] /\ backup = [b \in Boards |-> None]
    /\ published = {<<>>} /\ transitions = {} /\ faults = 0

-----------------------------------------------------------------------------
(* Accepting a revision.                                                   *)

(* The key of the latest epoch that begins at or before revision n.        *)
AuthorityAt(b, n) ==
    keys[b][CHOOSE e \in DOMAIN keys[b] :
              /\ keys[b][e].cutoff < n
              /\ \A k \in DOMAIN keys[b] : keys[b][k].cutoff < n => k <= e].key

(* A retired conference comes back active or not at all.                   *)
Lawful(old, new) == old = "retired" => new \in {"retired", "active"}

Accepts_AnyPrevious(b, h) ==
    LET n == Len(h)
    IN /\ n = Len(chain[b]) + 1 /\ h[n].key = AuthorityAt(b, n)
       /\ n > 1 => Lawful(chain[b][n - 1].status, h[n].status)
(* Revision h, which commits to the revisions before it, is next at b.     *)
Accepts(b, h) ==
    LET n == Len(h)
    IN /\ n = Len(chain[b]) + 1 /\ IsPrefixOf(chain[b], h)
       /\ h[n].key = AuthorityAt(b, n)
       /\ n > 1 => Lawful(chain[b][n - 1].status, h[n].status)

Accept_Mapped(b, h) ==
    /\ chain' = [chain EXCEPT ![b] = Append(@, h[Len(h)])] /\ UNCHANGED map
(* Retirement takes the conference out of routing in the same transaction. *)
Accept(b, h) ==
    /\ chain' = [chain EXCEPT ![b] = Append(@, h[Len(h)])]
    /\ map' = [map EXCEPT ![b] = @ /\ h[Len(h)].status # "retired"]

-----------------------------------------------------------------------------
(* Operator commands on a stopped board.                                   *)
Stopped(b) == \A c \in Children \cap {b, b + 1} : sess[c].at = "idle"

Publish(status) ==
    LET h == Append(chain[1], [status |-> status, key |-> Key(1)])
    IN /\ Stopped(1) /\ Len(h) <= MaxRevs /\ Accepts(1, h)
       /\ Accept(1, h)
       /\ published' = published \cup {h}
       /\ UNCHANGED <<keys, upstream, peer, sess, backup, transitions, faults>>

Import(b, h) ==
    /\ Stopped(b) /\ h # <<>> /\ Accepts(b, h)
    /\ Accept(b, h)
    /\ UNCHANGED <<keys, upstream, peer, sess, backup, published, transitions, faults>>

Choose(b, mapped) ==
    /\ Stopped(b) /\ chain[b] # <<>>
    /\ chain[b][Len(chain[b])].status # "retired"
    /\ map' = [map EXCEPT ![b] = mapped]
    /\ UNCHANGED <<chain, keys, upstream, peer, sess, backup, published, transitions, faults>>

(* The root announces a new key at its current revision.                   *)
Announce(k) ==
    /\ chain[1] # <<>> /\ \A t \in transitions : t.new # k
    /\ \A e \in DOMAIN keys[1] : keys[1][e].key # k
    /\ transitions' = transitions \cup {[old |-> Key(1), new |-> k, at |-> chain[1]]}
    /\ UNCHANGED <<board, sess, backup, published, faults>>

Enrollable_Anywhere(b, t) == Key(b) = t.old /\ Len(keys[b]) < MaxKeys
Enrollable(b, t) == Key(b) = t.old /\ chain[b] = t.at
                    /\ \A e \in DOMAIN keys[b] : keys[b][e].key # t.new

Enroll(b, t) ==
    /\ Stopped(b) /\ Enrollable(b, t)
    /\ keys' = [keys EXCEPT ![b] = Append(@, [key |-> t.new, cutoff |-> Len(t.at)])]
    /\ UNCHANGED <<chain, upstream, peer, map, sess, backup, published, transitions, faults>>

Becomes(b, s) ==
    /\ chain' = [chain EXCEPT ![b] = s.chain] /\ keys' = [keys EXCEPT ![b] = s.keys]
    /\ upstream' = [upstream EXCEPT ![b] = s.upstream]
    /\ peer' = [peer EXCEPT ![b] = s.peer] /\ map' = [map EXCEPT ![b] = s.map]

Save(b) ==
    /\ Stopped(b) /\ b \in Snapshots /\ backup[b] = None /\ chain[b] # <<>>
    /\ backup' = [backup EXCEPT ![b] = [chain |-> chain[b], keys |-> keys[b],
                    upstream |-> upstream[b], peer |-> peer[b], map |-> map[b]]]
    /\ UNCHANGED <<board, sess, published, transitions, faults>>

Restorable_Unchecked(b) == backup[b] # None
(* An existing board is not taken back behind what it has accepted.        *)
Restorable(b) ==
    /\ backup[b] # None
    /\ backup[b].keys[Len(backup[b].keys)].key = Key(b)
    /\ IsPrefixOf(chain[b], backup[b].chain)

Restore(b) ==
    /\ Stopped(b) /\ Restorable(b)
    /\ Becomes(b, backup[b])
    /\ UNCHANGED <<sess, backup, published, transitions, faults>>

(* A board that is lost starts again, from a backup or empty.              *)
Rebuild(b) ==
    /\ Stopped(b) /\ b \in Replaceable
    /\ Becomes(b, Fresh) \/ (backup[b] # None /\ Becomes(b, backup[b]))
    /\ UNCHANGED <<sess, backup, published, transitions, faults>>

-----------------------------------------------------------------------------
(* The catalog phase of a session between child c and its parent.          *)
Start(c) ==
    /\ sess[c].at = "idle"
    /\ sess' = [sess EXCEPT ![c] = [Idle EXCEPT !.at = "head", !.head = chain[c - 1]]]
    /\ UNCHANGED <<board, backup, published, transitions, faults>>

(* Another revision under the child's own number is a fork.                *)
Ask(c) ==
    LET s == sess[c]
        fork == Len(s.head) = Len(chain[c]) /\ s.head # chain[c]
    IN /\ s.at = "head"
       /\ IF fork THEN sess' = [sess EXCEPT ![c] = Idle] /\ UNCHANGED upstream
          ELSE /\ upstream' = [upstream EXCEPT ![c] = Len(s.head)]
               /\ sess' = [sess EXCEPT ![c].at = "asked", ![c].remote = chain[c]]
       /\ UNCHANGED <<chain, keys, peer, map, backup, published, transitions, faults>>

Upto_Unbounded(n, m) == n + Limit
(* The last revision that an exchange brings to a child at revision n.     *)
Upto(n, m) == IF n + Limit < m THEN n + Limit ELSE m

(* A child that is ahead of its parent, or beside it, fails the exchange.  *)
Answer(c) ==
    LET s == sess[c]
        n == Len(s.remote)
        last == Upto(n, Len(s.head))
        agreed == s.head # <<>> /\ IsPrefixOf(s.remote, s.head)
    IN /\ s.at = "asked"
       /\ peer' = IF agreed THEN [peer EXCEPT ![c - 1] = n] ELSE peer
       /\ sess' = [sess EXCEPT ![c] =
            IF agreed /\ n < last
            THEN [@ EXCEPT !.at = "objects", !.next = n + 1, !.last = last] ELSE Idle]
       /\ UNCHANGED <<chain, keys, upstream, map, backup, published, transitions, faults>>

(* The child commits each revision before it acknowledges it.              *)
Object(c) ==
    LET h == SubSeq(chain[c - 1], 1, sess[c].next)
    IN /\ sess[c].at = "objects"
       /\ IF Accepts(c, h)
          THEN Accept(c, h) /\ sess' = [sess EXCEPT ![c].at = "ack"]
          ELSE sess' = [sess EXCEPT ![c] = Idle] /\ UNCHANGED <<chain, map>>
       /\ UNCHANGED <<keys, upstream, peer, backup, published, transitions, faults>>

Acknowledged_Head(c) == Len(sess[c].head)
Acknowledged(c) == sess[c].next

Ack(c) ==
    /\ sess[c].at = "ack"
    /\ peer' = [peer EXCEPT ![c - 1] = Acknowledged(c)]
    /\ sess' = [sess EXCEPT ![c] = IF @.next = @.last THEN Idle
                    ELSE [@ EXCEPT !.at = "objects", !.next = sess[c].next + 1]]
    /\ UNCHANGED <<chain, keys, upstream, map, backup, published, transitions, faults>>

Break(c) ==
    /\ sess[c].at # "idle" /\ faults < MaxFaults
    /\ faults' = faults + 1
    /\ sess' = [sess EXCEPT ![c] = Idle]
    /\ UNCHANGED <<board, backup, published, transitions>>

-----------------------------------------------------------------------------
(* What makes an event poll a link for the catalog's sake: the child has   *)
(* seen a later revision, or has not acknowledged the parent's last.       *)
PendingSync_Upstream(c) == upstream[c] > Len(chain[c])
PendingSync(c) == upstream[c] > Len(chain[c]) \/ peer[c - 1] < Len(chain[c - 1])

Phase(c) == Ask(c) \/ Answer(c) \/ Object(c) \/ Ack(c)

Next ==
    \/ \E status \in Lifecycles : Publish(status)
    \/ \E k \in 1..MaxKeys : Announce(k)
    \/ \E b \in Boards :
        \/ \E h \in published : Import(b, h)
        \/ \E mapped \in BOOLEAN : Choose(b, mapped)
        \/ \E t \in transitions : Enroll(b, t)
        \/ Save(b) \/ Restore(b) \/ Rebuild(b)
    \/ \E c \in Children : Start(c) \/ Phase(c) \/ Break(c)

Spec == Init /\ [][Next]_vars

(* Events poll what is pending, and an exchange goes on until it breaks.   *)
Fairness ==
    /\ \A c \in Children : WF_vars(PendingSync(c) /\ Start(c)) /\ WF_vars(Phase(c))
FairSpec == Spec /\ Fairness

-----------------------------------------------------------------------------
(* A board's catalog is one the root published as a whole: revisions of    *)
(* two histories, after a root rebuilt from an old backup publishes anew,  *)
(* are never mixed (Signed::follows).                                      *)
WholeHistory == \A b \in Boards : chain[b] \in published

(* The catalog a board has verifies under the key epochs it has, and every *)
(* epoch begins at a revision it has: the check of every backup            *)
(* (validate_catalog_authority, keys::validate).                           *)
HistoryVerifies ==
    \A b \in Boards :
        /\ \A n \in DOMAIN chain[b] : chain[b][n].key = AuthorityAt(b, n)
        /\ \A e \in DOMAIN keys[b] : keys[b][e].cutoff <= Len(chain[b])
        /\ \A e, f \in DOMAIN keys[b] : e < f =>
              keys[b][e].cutoff <= keys[b][f].cutoff /\ keys[b][e].key # keys[b][f].key

(* Nothing is routed in a conference that the board knows to be retired,   *)
(* however it learned of it (circuitnet_catalog_receive, check_restore).   *)
RoutingIsAdmitted ==
    \A b \in Boards : map[b] => chain[b] # <<>> /\ chain[b][Len(chain[b])].status # "retired"

(* Short of being rebuilt, a board never forgets or changes a revision     *)
(* (circuitnet_catalog_check_restore).                                     *)
HistoryStays ==
    \A b \in Boards : ~Rebuild(b) => IsPrefixOf(chain[b], chain'[b])

(* A parent never believes that its child has more than the child has, so  *)
(* that a child that lacks a revision is still pending at its parent       *)
(* (circuitnet_catalog_peer, circuitnet_catalog_pending).                  *)
PeerNotAhead == \A c \in Children : peer[c - 1] <= Len(chain[c])

(* Under one key, what the parent has the child gets, through polls that   *)
(* only happen while the catalog is pending (event_has_outbound_work).     *)
CatchesUp ==
    \A c \in Children, n \in 1..MaxRevs :
        (Len(chain[c - 1]) >= n) ~> (Len(chain[c]) >= n)
=============================================================================
