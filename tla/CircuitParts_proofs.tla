------------------------- MODULE CircuitParts_proofs -------------------------
(***************************************************************************)
(* Proofs about the components of CircuitNET.  The module extends          *)
(* CircuitLink, the live links.  The other components are instances with   *)
(* parameters of their own: CF is CircuitFiles, CC is CircuitControl, CT   *)
(* is CircuitCatalog, CR is CircuitRestore.                                *)
(***************************************************************************)
EXTENDS CircuitLink, TLAPS, FiniteSetTheorems, SequenceTheorems, WellFoundedInduction

(***************************************************************************)
(* Proofs about CircuitLink, for any boards, initiators, capacity, tries,  *)
(* faults and holds.                                                       *)
(*                                                                         *)
(* The set of active neighbors is exact: a neighbor is in it exactly while *)
(* a poll of it or a worker bound to it is, and then only one of them is.  *)
(* That makes a session single, the health row a single writer's, and, with*)
(* what the number of the last frame says of a connection, a recorded      *)
(* success a whole exchange.                                               *)
(***************************************************************************)

Said == {"eof", "timeout", "custody", "interrupted", "held"}
Word == {"open"} \cup Said
Result == {"none", "ok", "connect", "tls"} \cup Said
Poll == [pc : {"idle", "try", "tls", "work", "finish", "record"}, try : 0..(Tries - 1),
         mode : {"poll", "test"}, result : Result, seen : Nat]
Conn == [frame : 0..8, mode : {"poll", "test"},
         offered : SUBSET Batches, moved : SUBSET Batches, acked : SUBSET Batches,
         i : Word, r : {"syn", "tls", "work", "finish", "record", "gone"},
         said : Word, result : Result, seen : Nat]

Typed ==
    /\ count \in [Boards -> Nat] /\ active \in [Boards -> SUBSET Boards]
    /\ poll \in [Links -> Poll] /\ conn \in [Links -> Seq(Conn)]
    /\ held \in [Boards -> SUBSET Boards] /\ stopping \in SUBSET Boards
    /\ last \in [Boards -> [Boards -> Nat]] /\ stamp \in Nat
    /\ polls \in [Links -> 0..MaxPolls] /\ faults \in Nat /\ holds \in Nat

\* What the number of the last frame says of a connection: who has offered, moved and
\* acknowledged what by then.
Sound(c) ==
    /\ c.acked \subseteq c.moved /\ c.moved \subseteq c.offered
    /\ c.frame < 3 => c.offered = {}
    /\ c.frame < 5 => "reverse" \notin c.offered
    /\ c.frame > 3 /\ "forward" \in c.offered => "forward" \in c.moved
    /\ c.frame > 5 /\ "forward" \in c.offered => "forward" \in c.acked
    /\ c.frame > 5 /\ "reverse" \in c.offered => "reverse" \in c.moved
    /\ c.frame = 8 => c.acked = c.offered /\ c.r \in {"finish", "record", "gone"}
    /\ c.result = "ok" => c.frame = 8
ConnsSound == \A t \in Links : \A k \in DOMAIN conn[t] : Sound(conn[t][k])

\* A poll has a connection while it is on one, nothing has been said on it before the
\* handshake is done, and its success was told by the last frame.
PollSound(t) ==
    /\ poll[t].pc \in {"tls", "work"} => Current(t) > 0
    /\ poll[t].pc = "tls" => Wire(t).frame = 0
    /\ poll[t].result = "ok" /\ poll[t].pc \in {"finish", "record"} =>
          Current(t) > 0 /\ Wire(t).frame = 8
PollsSound == \A t \in Links : PollSound(t)

Back(t) == <<t[2], t[1]>>
BoundTo(t) == \E k \in DOMAIN conn[t] : Bound(conn[t][k])

\* A neighbor is active exactly while a session with it is, and there is one.
ActiveIsExact ==
    /\ \A b, n \in Boards : n \in active[b] => <<b, n>> \in Links
    /\ \A t \in Links : t[2] \in active[t[1]] <=> Polling(t) \/ BoundTo(Back(t))
    /\ \A t \in Links : ~(Polling(t) /\ BoundTo(Back(t)))
    /\ \A t \in Links : \A k, l \in DOMAIN conn[t] :
          Bound(conn[t][k]) /\ Bound(conn[t][l]) => k = l

\* The permits in use, of a board's polls and of its inbound workers.
PollPermits(b) == {t \in Links : t[1] = b /\ Polling(t)}
WorkerPermits(b) ==
    {x \in Links \X Keys : x[1][2] = b /\ x[2] \in DOMAIN conn[x[1]] /\ Live(conn[x[1]][x[2]])}
PermitsCounted ==
    \A b \in Boards :
        /\ IsFiniteSet(PollPermits(b)) /\ IsFiniteSet(WorkerPermits(b))
        /\ count[b] = Cardinality(PollPermits(b)) + Cardinality(WorkerPermits(b))
        /\ count[b] <= Capacity

\* A poll opens one connection a try, so the connections of a link are numbered by Keys.
Opened(t) ==
    CASE poll[t].pc = "idle" -> 0
      [] poll[t].pc = "try" -> poll[t].try
      [] OTHER -> poll[t].try + 1
Started(t) == MaxPolls - polls[t]
ConnsCounted ==
    \A t \in Links :
        IF Polling(t) THEN Started(t) > 0 /\ Current(t) <= (Started(t) - 1) * Tries + Opened(t)
        ELSE Current(t) <= Started(t) * Tries

\* Whoever is about to write a health row has read what the row still says.
ReadIsFresh ==
    /\ \A b, n \in Boards : last[b][n] <= stamp
    /\ \A t \in Links : poll[t].pc = "record" => poll[t].seen = last[t[1]][t[2]]
    /\ \A t \in Links : \A k \in DOMAIN conn[t] :
          conn[t][k].r = "record" => conn[t][k].seen = last[t[2]][t[1]]

Inv ==
    /\ Typed /\ ConnsSound /\ PollsSound /\ ActiveIsExact /\ PermitsCounted
    /\ ConnsCounted /\ ReadIsFresh

-----------------------------------------------------------------------------
LEMMA LinksAre ==
    ASSUME LinkAssumption, NEW t \in Links
    PROVE  /\ t[1] \in Boards /\ t[2] \in Boards /\ t[1] # t[2] /\ t = <<t[1], t[2]>>
           /\ Back(t) \in Links /\ Back(Back(t)) = t /\ Back(t) # t
           /\ Back(t)[1] = t[2] /\ Back(t)[2] = t[1]
BY DEF LinkAssumption, Links, Back

LEMMA KeysAre == ASSUME LinkAssumption PROVE MaxPolls * Tries \in Nat
BY DEF LinkAssumption

LEMMA MoreTries ==
    ASSUME LinkAssumption, NEW u \in Nat, u <= MaxPolls
    PROVE  /\ u * Tries \in Nat /\ u * Tries <= MaxPolls * Tries
           /\ u > 0 => (u - 1) * Tries + Tries = u * Tries
BY DEF LinkAssumption

LEMMA PutIs ==
    ASSUME Typed, NEW t \in Links, NEW k \in DOMAIN conn[t], NEW c \in Conn,
           conn' = [conn EXCEPT ![t][k] = c]
    PROVE  /\ conn' \in [Links -> Seq(Conn)] /\ conn'[t][k] = c
           /\ \A u \in Links : DOMAIN conn'[u] = DOMAIN conn[u] /\ Len(conn'[u]) = Len(conn[u])
           /\ \A u \in Links : \A l \in DOMAIN conn[u] : <<u, l>> # <<t, k>> => conn'[u][l] = conn[u][l]
<1>1. conn \in [Links -> Seq(Conn)]
    BY DEF Typed
<1> QED
    BY <1>1

-----------------------------------------------------------------------------
(***************************************************************************)
(* The steps of an exchange, and those that end or time out, write one     *)
(* connection or one poll and leave every permit where it is.              *)
(***************************************************************************)
\* A connection and a poll that are written anew, by a worker that stays what it was.
SteadyConn(o, c, read) ==
    /\ c \in Conn /\ Sound(c)
    /\ (Live(c) <=> Live(o)) /\ (Bound(c) <=> Bound(o))
    /\ c.r = "record" => c.seen = read
SteadyPoll(o, p, read) ==
    /\ p \in Poll /\ p.try = o.try
    /\ (p.pc = "idle" <=> o.pc = "idle") /\ (p.pc = "try" <=> o.pc = "try")
    /\ p.pc = "record" => p.seen = read
Steady(t, k, c, p) ==
    /\ SteadyConn(conn[t][k], c, last[t[2]][t[1]]) /\ SteadyPoll(poll[t], p, last[t[1]][t[2]])
    /\ p.pc \in {"tls", "work"} => poll[t].pc \in {"tls", "work"}
    /\ p.pc = "tls" /\ k = Current(t) => c.frame = 0
    /\ p.pc = "tls" => poll[t].pc = "tls"
    /\ k = Current(t) /\ Wire(t).frame = 8 => c.frame = 8
    /\ p.result = "ok" /\ p.pc \in {"finish", "record"} =>
          \/ poll[t].result = "ok" /\ poll[t].pc \in {"finish", "record"}
          \/ k = Current(t) /\ c.frame = 8
    /\ conn' = [conn EXCEPT ![t][k] = c] /\ poll' = [poll EXCEPT ![t] = p]
    /\ UNCHANGED <<permits, policy, last, stamp, polls, holds>> /\ faults' \in Nat

\* No permit is taken or given back.
SamePermits ==
    /\ UNCHANGED permits
    /\ \A t \in Links :
        /\ Polling(t)' <=> Polling(t)
        /\ \A k \in Keys : k \in DOMAIN conn'[t] /\ Live(conn'[t][k]) <=>
                           k \in DOMAIN conn[t] /\ Live(conn[t][k])
        /\ \A k \in Nat : k \in DOMAIN conn'[t] /\ Bound(conn'[t][k]) <=>
                           k \in DOMAIN conn[t] /\ Bound(conn[t][k])

LEMMA SamePermitsKeep ==
    ASSUME LinkAssumption, Inv, SamePermits, conn' \in [Links -> Seq(Conn)]
    PROVE  ActiveIsExact' /\ PermitsCounted'
<1>1. \A b \in Boards : PollPermits(b)' = PollPermits(b)
    BY DEF SamePermits, PollPermits
<1>2. \A b \in Boards : WorkerPermits(b)' = WorkerPermits(b)
    BY DEF SamePermits, WorkerPermits
<1>3. PermitsCounted'
    BY <1>1, <1>2 DEF Inv, PermitsCounted, SamePermits, permits
<1>4. \A t \in Links : BoundTo(t)' <=> BoundTo(t)
  <2>1. conn \in [Links -> Seq(Conn)]
      BY DEF Inv, Typed
  <2>2. \A t \in Links : DOMAIN conn[t] \subseteq Nat /\ DOMAIN conn'[t] \subseteq Nat
      BY <2>1
  <2> QED
      BY <2>2 DEF SamePermits, BoundTo
<1>5. \A t \in Links : BoundTo(Back(t))' <=> BoundTo(Back(t))
    BY <1>4, LinksAre DEF Back
<1>6. ActiveIsExact'
  <2>1. conn \in [Links -> Seq(Conn)] /\ active' = active
      BY DEF Inv, Typed, SamePermits, permits
  <2>2. \A t \in Links : DOMAIN conn[t] \subseteq Nat /\ DOMAIN conn'[t] \subseteq Nat
      BY <2>1
  <2>3. \A t \in Links : Polling(t)' <=> Polling(t)
      BY DEF SamePermits
  <2>4. \A t \in Links : \A k, l \in DOMAIN conn'[t] :
            Bound(conn'[t][k]) /\ Bound(conn'[t][l]) => k = l
      BY <2>2 DEF Inv, ActiveIsExact, SamePermits
  <2> QED
      BY <1>5, <2>1, <2>3, <2>4 DEF Inv, ActiveIsExact
<1> QED
    BY <1>3, <1>6

LEMMA SteadyKeeps ==
    ASSUME LinkAssumption, Inv, NEW t \in Links, NEW k \in DOMAIN conn[t], NEW c, NEW p,
           Steady(t, k, c, p)
    PROVE  Inv'
<1>1. /\ conn' \in [Links -> Seq(Conn)] /\ conn'[t][k] = c
      /\ \A u \in Links : DOMAIN conn'[u] = DOMAIN conn[u] /\ Len(conn'[u]) = Len(conn[u])
      /\ \A u \in Links : \A l \in DOMAIN conn[u] : <<u, l>> # <<t, k>> => conn'[u][l] = conn[u][l]
    BY PutIs DEF Steady, SteadyConn, Inv
<1>2. poll' \in [Links -> Poll] /\ poll'[t] = p /\ \A u \in Links : u # t => poll'[u] = poll[u]
    BY DEF Steady, SteadyPoll, Inv, Typed
<1>3. Typed'
    BY <1>1, <1>2 DEF Inv, Typed, Steady, permits, policy
<1>4. ConnsSound'
    BY <1>1 DEF Inv, ConnsSound, Steady, SteadyConn
<1>5. \A u \in Links : Current(u)' = Current(u) /\ Current(u) \in Nat
                       /\ (Current(u) > 0 => Current(u) \in DOMAIN conn[u])
    BY <1>1 DEF Inv, Typed, Current
<1>6. PollsSound'
  <2>1. ASSUME NEW u \in Links, u # t PROVE PollSound(u)'
      BY <1>1, <1>2, <1>5, <2>1 DEF Inv, PollsSound, PollSound, Wire
  <2>2. Current(t) > 0 => Wire(t)' = IF k = Current(t) THEN c ELSE Wire(t)
      BY <1>1, <1>5 DEF Wire
  <2>3. PollSound(t)'
    <3>1. k \in Nat \ {0} /\ PollSound(t) /\ poll'[t] = p
        BY <1>2 DEF Inv, Typed, PollsSound
    <3>2. p.pc \in {"tls", "work"} => Current(t)' > 0
        BY <1>5, <3>1 DEF PollSound, Steady
    <3>3. p.pc = "tls" => Wire(t)'.frame = 0
        BY <2>2, <3>1 DEF PollSound, Steady
    <3>4. p.result = "ok" /\ p.pc \in {"finish", "record"} =>
              Current(t)' > 0 /\ Wire(t)'.frame = 8
        BY <1>5, <2>2, <3>1 DEF PollSound, Steady
    <3> QED
        BY <3>1, <3>2, <3>3, <3>4 DEF PollSound
  <2> QED
      BY <2>1, <2>3 DEF PollsSound
<1>7. SamePermits
  <2>1. \A u \in Links : Polling(u)' <=> Polling(u)
      BY <1>2 DEF Polling, Steady, SteadyPoll
  <2>2. \A u \in Links : \A l \in DOMAIN conn[u] : (Live(conn'[u][l]) <=> Live(conn[u][l]))
            /\ (Bound(conn'[u][l]) <=> Bound(conn[u][l]))
      BY <1>1 DEF Steady, SteadyConn
  <2> QED
      BY <1>1, <2>1, <2>2 DEF SamePermits, Steady
<1>8. ActiveIsExact' /\ PermitsCounted'
    BY <1>1, <1>7, SamePermitsKeep
<1>9. ConnsCounted'
  <2>1. \A u \in Links : Started(u)' = Started(u) /\ (Polling(u)' <=> Polling(u)) /\ Opened(u)' = Opened(u)
      BY <1>2, <1>7 DEF Started, Steady, SteadyPoll, Opened, SamePermits, Polling
  <2> QED
      BY <1>5, <2>1 DEF Inv, ConnsCounted
<1>10. ReadIsFresh'
    BY <1>1, <1>2 DEF Inv, ReadIsFresh, Steady, SteadyConn, SteadyPoll
<1> QED
    BY <1>3, <1>4, <1>6, <1>8, <1>9, <1>10 DEF Inv

-----------------------------------------------------------------------------
(***************************************************************************)
(* What each frame makes of a sound connection.                            *)
(***************************************************************************)
LEMMA LeavesAWord ==
    ASSUME NEW o \in Conn, Sound(o), NEW x \in Word, NEW read, o.r = "record" => o.seen = read
    PROVE  LET c == [o EXCEPT !.i = x]
           IN  SteadyConn(o, c, read) /\ c.frame = o.frame
<1> DEFINE c == [o EXCEPT !.i = x]
<1>1. c \in Conn
    BY DEF Conn
<1>2. /\ c.frame = o.frame /\ c.offered = o.offered /\ c.moved = o.moved /\ c.acked = o.acked
      /\ c.r = o.r /\ c.result = o.result /\ c.seen = o.seen
    BY DEF Conn
<1> HIDE DEF c
<1>3. SteadyConn(o, c, read)
    BY <1>1, <1>2 DEF SteadyConn, Sound, Live, Bound, Conn, Batches, Said
<1> QED
    BY <1>2, <1>3 DEF c

LEMMA HelloBegins ==
    ASSUME NEW o \in Conn, Sound(o), NEW read, o.frame = 0, o.r = "tls"
    PROVE  LET c == [o EXCEPT !.frame = 1]
           IN  SteadyConn(o, c, read) /\ c.frame = 1
<1> DEFINE c == [o EXCEPT !.frame = 1]
<1>1. c \in Conn
    BY DEF Conn
<1>2. /\ c.frame = 1 /\ c.offered = o.offered /\ c.moved = o.moved /\ c.acked = o.acked
      /\ c.r = o.r /\ c.result = o.result /\ c.seen = o.seen
    BY DEF Conn
<1> HIDE DEF c
<1>3. SteadyConn(o, c, read)
    BY <1>1, <1>2 DEF SteadyConn, Sound, Live, Bound, Conn, Batches, Said
<1> QED
    BY <1>2, <1>3 DEF c

LEMMA HelloAnswers ==
    ASSUME NEW o \in Conn, Sound(o), NEW read, o.frame = 1, o.r = "work"
    PROVE  LET c == [o EXCEPT !.frame = 2]
           IN  SteadyConn(o, c, read) /\ (o.frame = 0 => c.frame = 0) /\ (o.frame = 8 => c.frame = 8)
<1> DEFINE c == [o EXCEPT !.frame = 2]
<1>1. c \in Conn
    BY DEF Conn
<1>2. /\ c.frame = 2 /\ c.offered = o.offered /\ c.moved = o.moved /\ c.acked = o.acked
      /\ c.r = o.r /\ c.result = o.result /\ c.seen = o.seen
    BY DEF Conn
<1> HIDE DEF c
<1>3. SteadyConn(o, c, read)
    BY <1>1, <1>2 DEF SteadyConn, Sound, Live, Bound, Conn, Batches, Said
<1> QED
    BY <1>2, <1>3 DEF c

LEMMA TestCloses ==
    ASSUME NEW o \in Conn, Sound(o), NEW read, o.frame = 2, o.r = "record" => o.seen = read
    PROVE  LET c == [o EXCEPT !.frame = 7]
           IN  SteadyConn(o, c, read) /\ (o.frame = 0 => c.frame = 0) /\ (o.frame = 8 => c.frame = 8)
<1> DEFINE c == [o EXCEPT !.frame = 7]
<1>1. c \in Conn
    BY DEF Conn
<1>2. /\ c.frame = 7 /\ c.offered = o.offered /\ c.moved = o.moved /\ c.acked = o.acked
      /\ c.r = o.r /\ c.result = o.result /\ c.seen = o.seen
    BY DEF Conn
<1> HIDE DEF c
<1>3. SteadyConn(o, c, read)
    BY <1>1, <1>2 DEF SteadyConn, Sound, Live, Bound, Conn, Batches, Said
<1> QED
    BY <1>2, <1>3 DEF c

LEMMA ForwardOffered ==
    ASSUME NEW o \in Conn, Sound(o), NEW S \in SUBSET {"forward"}, NEW read, o.frame = 2, o.r = "record" => o.seen = read
    PROVE  LET c == [o EXCEPT !.frame = 3, !.offered = S]
           IN  SteadyConn(o, c, read) /\ (o.frame = 0 => c.frame = 0) /\ (o.frame = 8 => c.frame = 8)
<1> DEFINE c == [o EXCEPT !.frame = 3, !.offered = S]
<1>0. 3 \in 0..8
    OBVIOUS
<1>4. S \in SUBSET Batches
    BY DEF Conn, Batches
<1>1. c \in Conn
    BY <1>0, <1>4 DEF Conn, Batches
<1>2. /\ c.frame = 3 /\ c.offered = S /\ c.moved = o.moved /\ c.acked = o.acked
      /\ c.r = o.r /\ c.result = o.result /\ c.seen = o.seen
    BY DEF Conn
<1> HIDE DEF c
<1>3. SteadyConn(o, c, read)
    BY <1>1, <1>2 DEF SteadyConn, Sound, Live, Bound, Conn, Batches, Said
<1> QED
    BY <1>2, <1>3 DEF c

LEMMA ForwardTaken ==
    ASSUME NEW o \in Conn, Sound(o), NEW read, o.frame = 3, "forward" \in o.offered, o.r = "work"
    PROVE  LET c == [o EXCEPT !.frame = 4, !.moved = @ \cup {"forward"}]
           IN  SteadyConn(o, c, read) /\ (o.frame = 0 => c.frame = 0) /\ (o.frame = 8 => c.frame = 8)
<1> DEFINE c == [o EXCEPT !.frame = 4, !.moved = @ \cup {"forward"}]
<1>0. 4 \in 0..8
    OBVIOUS
<1>4. o.moved \cup {"forward"} \in SUBSET Batches
    BY DEF Conn, Batches
<1>1. c \in Conn
    BY <1>0, <1>4 DEF Conn, Batches
<1>2. /\ c.frame = 4 /\ c.offered = o.offered /\ c.moved = o.moved \cup {"forward"} /\ c.acked = o.acked
      /\ c.r = o.r /\ c.result = o.result /\ c.seen = o.seen
    BY DEF Conn
<1> HIDE DEF c
<1>3. SteadyConn(o, c, read)
    BY <1>1, <1>2 DEF SteadyConn, Sound, Live, Bound, Conn, Batches, Said
<1> QED
    BY <1>2, <1>3 DEF c

LEMMA ForwardAcknowledged ==
    ASSUME NEW o \in Conn, Sound(o), NEW read, o.frame \in {4, 5}, "forward" \in o.offered, o.r = "record" => o.seen = read
    PROVE  LET c == [o EXCEPT !.acked = @ \cup {"forward"}]
           IN  SteadyConn(o, c, read) /\ (o.frame = 0 => c.frame = 0) /\ (o.frame = 8 => c.frame = 8)
<1> DEFINE c == [o EXCEPT !.acked = @ \cup {"forward"}]
<1>1. c \in Conn
    BY DEF Conn, Batches
<1>2. /\ c.frame = o.frame /\ c.offered = o.offered /\ c.moved = o.moved /\ c.acked = o.acked \cup {"forward"}
      /\ c.r = o.r /\ c.result = o.result /\ c.seen = o.seen
    BY DEF Conn
<1> HIDE DEF c
<1>3. SteadyConn(o, c, read)
    BY <1>1, <1>2 DEF SteadyConn, Sound, Live, Bound, Conn, Batches, Said
<1> QED
    BY <1>2, <1>3 DEF c

LEMMA ReverseOffered ==
    ASSUME NEW o \in Conn, Sound(o), NEW S \in SUBSET {"reverse"}, NEW read,
           o.frame = 4 \/ (o.frame = 3 /\ o.offered = {}), o.r = "work"
    PROVE  LET c == [o EXCEPT !.frame = 5, !.offered = @ \cup S]
           IN  SteadyConn(o, c, read) /\ (o.frame = 0 => c.frame = 0) /\ (o.frame = 8 => c.frame = 8)
<1> DEFINE c == [o EXCEPT !.frame = 5, !.offered = @ \cup S]
<1>0. 5 \in 0..8
    OBVIOUS
<1>4. o.offered \cup S \in SUBSET Batches
    BY DEF Conn, Batches
<1>1. c \in Conn
    BY <1>0, <1>4 DEF Conn, Batches
<1>2. /\ c.frame = 5 /\ c.offered = o.offered \cup S /\ c.moved = o.moved /\ c.acked = o.acked
      /\ c.r = o.r /\ c.result = o.result /\ c.seen = o.seen
    BY DEF Conn
<1> HIDE DEF c
<1>3. SteadyConn(o, c, read)
    BY <1>1, <1>2 DEF SteadyConn, Sound, Live, Bound, Conn, Batches, Said
<1> QED
    BY <1>2, <1>3 DEF c

LEMMA ReverseTaken ==
    ASSUME NEW o \in Conn, Sound(o), NEW read, o.frame = 5, "reverse" \in o.offered,
           "forward" \in o.offered => "forward" \in o.acked, o.r = "record" => o.seen = read
    PROVE  LET c == [o EXCEPT !.frame = 6, !.moved = @ \cup {"reverse"}]
           IN  SteadyConn(o, c, read) /\ (o.frame = 0 => c.frame = 0) /\ (o.frame = 8 => c.frame = 8)
<1> DEFINE c == [o EXCEPT !.frame = 6, !.moved = @ \cup {"reverse"}]
<1>0. 6 \in 0..8
    OBVIOUS
<1>4. o.moved \cup {"reverse"} \in SUBSET Batches
    BY DEF Conn, Batches
<1>1. c \in Conn
    BY <1>0, <1>4 DEF Conn, Batches
<1>2. /\ c.frame = 6 /\ c.offered = o.offered /\ c.moved = o.moved \cup {"reverse"} /\ c.acked = o.acked
      /\ c.r = o.r /\ c.result = o.result /\ c.seen = o.seen
    BY DEF Conn
<1> HIDE DEF c
<1>3. SteadyConn(o, c, read)
    BY <1>1, <1>2 DEF SteadyConn, Sound, Live, Bound, Conn, Batches, Said
<1> QED
    BY <1>2, <1>3 DEF c

LEMMA CloseSent ==
    ASSUME NEW o \in Conn, Sound(o), NEW read,
           \/ o.frame = 6
           \/ /\ o.frame = 5 /\ "reverse" \notin o.offered
              /\ "forward" \in o.offered => "forward" \in o.acked,
           o.r = "record" => o.seen = read
    PROVE  LET c == [o EXCEPT !.frame = 7]
           IN  SteadyConn(o, c, read) /\ (o.frame = 0 => c.frame = 0) /\ (o.frame = 8 => c.frame = 8)
<1> DEFINE c == [o EXCEPT !.frame = 7]
<1>1. c \in Conn
    BY DEF Conn
<1>2. /\ c.frame = 7 /\ c.offered = o.offered /\ c.moved = o.moved /\ c.acked = o.acked
      /\ c.r = o.r /\ c.result = o.result /\ c.seen = o.seen
    BY DEF Conn
<1> HIDE DEF c
<1>3. SteadyConn(o, c, read)
    BY <1>1, <1>2 DEF SteadyConn, Sound, Live, Bound, Conn, Batches, Said
<1> QED
    BY <1>2, <1>3 DEF c

LEMMA ReverseAcknowledged ==
    ASSUME NEW o \in Conn, Sound(o), NEW read, o.frame \in {6, 7}, "reverse" \in o.offered, o.r = "work"
    PROVE  LET c == [o EXCEPT !.acked = @ \cup {"reverse"}]
           IN  SteadyConn(o, c, read) /\ (o.frame = 0 => c.frame = 0) /\ (o.frame = 8 => c.frame = 8)
<1> DEFINE c == [o EXCEPT !.acked = @ \cup {"reverse"}]
<1>1. c \in Conn
    BY DEF Conn, Batches
<1>2. /\ c.frame = o.frame /\ c.offered = o.offered /\ c.moved = o.moved /\ c.acked = o.acked \cup {"reverse"}
      /\ c.r = o.r /\ c.result = o.result /\ c.seen = o.seen
    BY DEF Conn
<1> HIDE DEF c
<1>3. SteadyConn(o, c, read)
    BY <1>1, <1>2 DEF SteadyConn, Sound, Live, Bound, Conn, Batches, Said
<1> QED
    BY <1>2, <1>3 DEF c

LEMMA CloseAnswered ==
    ASSUME NEW o \in Conn, Sound(o), NEW read, o.frame = 7, "reverse" \in o.offered => "reverse" \in o.acked, o.r = "work"
    PROVE  LET c == [o EXCEPT !.frame = 8, !.r = "finish", !.result = "ok"]
           IN  SteadyConn(o, c, read) /\ (o.frame = 0 => c.frame = 0) /\ (o.frame = 8 => c.frame = 8)
<1> DEFINE c == [o EXCEPT !.frame = 8, !.r = "finish", !.result = "ok"]
<1>0. 8 \in 0..8
    OBVIOUS
<1>1. c \in Conn
    BY <1>0 DEF Conn, Result
<1>2. /\ c.frame = 8 /\ c.offered = o.offered /\ c.moved = o.moved /\ c.acked = o.acked
      /\ c.r = "finish" /\ c.result = "ok" /\ c.seen = o.seen
    BY DEF Conn
<1> HIDE DEF c
<1>3. SteadyConn(o, c, read)
    BY <1>1, <1>2 DEF SteadyConn, Sound, Live, Bound, Conn, Batches, Said
<1> QED
    BY <1>2, <1>3 DEF c

LEMMA HealthRead ==
    ASSUME NEW o \in Conn, Sound(o), NEW read, o.r = "finish", read \in Nat
    PROVE  LET c == [o EXCEPT !.r = "record", !.seen = read]
           IN  SteadyConn(o, c, read) /\ c.frame = o.frame
<1> DEFINE c == [o EXCEPT !.r = "record", !.seen = read]
<1>1. c \in Conn
    BY DEF Conn
<1>2. /\ c.frame = o.frame /\ c.offered = o.offered /\ c.moved = o.moved /\ c.acked = o.acked
      /\ c.r = "record" /\ c.result = o.result /\ c.seen = read
    BY DEF Conn
<1> HIDE DEF c
<1>3. SteadyConn(o, c, read)
    BY <1>1, <1>2 DEF SteadyConn, Sound, Live, Bound, Conn, Batches, Said
<1> QED
    BY <1>2, <1>3 DEF c

-----------------------------------------------------------------------------
LEMMA ConnAt ==
    ASSUME Inv, NEW t \in Links, NEW k \in DOMAIN conn[t]
    PROVE  /\ conn[t][k] \in Conn /\ Sound(conn[t][k])
           /\ conn[t][k].r = "record" => conn[t][k].seen = last[t[2]][t[1]]
BY DEF Inv, Typed, ConnsSound, ReadIsFresh

LEMMA WireAt ==
    ASSUME Inv, NEW t \in Links, poll[t].pc \in {"tls", "work"}
    PROVE  Current(t) \in DOMAIN conn[t] /\ Wire(t) = conn[t][Current(t)]
<1>1. conn[t] \in Seq(Conn) /\ PollSound(t)
    BY DEF Inv, Typed, PollsSound
<1> QED
    BY <1>1 DEF PollSound, Wire, Current

LEMMA PollAt ==
    ASSUME Inv, NEW t \in Links
    PROVE  /\ poll[t] \in Poll /\ PollSound(t)
           /\ SteadyPoll(poll[t], poll[t], last[t[1]][t[2]])
           /\ poll = [poll EXCEPT ![t] = poll[t]]
BY DEF Inv, Typed, PollsSound, ReadIsFresh, SteadyPoll

LEMMA RefusalIs == ASSUME NEW b, NEW n PROVE Refusal(b, n) \in Said
BY DEF Refusal, Said

LEMMA HeardIs == ASSUME NEW x \in Word, x # "open" PROVE Heard(x) \in Said
BY DEF Heard, Word, Said

\* A step that writes a connection alone.
LEMMA WriteKeeps ==
    ASSUME LinkAssumption, Inv, NEW t \in Links, NEW k \in DOMAIN conn[t], NEW o, NEW c,
           o = conn[t][k], SteadyConn(o, c, last[t[2]][t[1]]),
           o.frame = 0 => c.frame = 0, o.frame = 8 => c.frame = 8,
           conn' = [conn EXCEPT ![t][k] = c], poll' = poll,
           UNCHANGED <<permits, policy, last, stamp, polls, holds>>, faults' \in Nat
    PROVE  Inv'
<1>1. k = Current(t) => Wire(t) = conn[t][k]
    BY DEF Wire
<1>2. Steady(t, k, c, poll[t])
    BY <1>1, PollAt DEF Steady, PollSound
<1> QED
    BY <1>2, SteadyKeeps

\* The initiator's worker leaves a connection, with a word on it.
LEMMA Ended ==
    ASSUME Inv, NEW t \in Links, NEW result \in Result, End(t, result)
    PROVE  LET p == [poll[t] EXCEPT !.pc = "finish", !.result = result]
           IN  /\ poll' = [poll EXCEPT ![t] = p] /\ p \in Poll /\ p.pc = "finish"
               /\ p.result = result /\ p.try = poll[t].try
BY PollAt DEF End, Poll

LEMMA QuitKeeps ==
    ASSUME LinkAssumption, Inv, NEW t \in Links, NEW result \in Result, NEW x \in Word,
           poll[t].pc \in {"tls", "work"}, result = "ok" => Wire(t).frame = 8,
           End(t, result), conn' = [conn EXCEPT ![t][Current(t)].i = x],
           UNCHANGED <<permits, policy, last, stamp, polls, holds>>, faults' \in Nat
    PROVE  Inv'
<1> DEFINE o == Wire(t)
           c == [o EXCEPT !.i = x]
           p == [poll[t] EXCEPT !.pc = "finish", !.result = result]
<1>1. Current(t) \in DOMAIN conn[t] /\ o = conn[t][Current(t)]
    BY WireAt
<1>2. o \in Conn /\ Sound(o) /\ (o.r = "record" => o.seen = last[t[2]][t[1]])
    BY <1>1, ConnAt
<1>4. conn' = [conn EXCEPT ![t][Current(t)] = c]
    BY <1>1
<1>5. SteadyConn(o, c, last[t[2]][t[1]]) /\ c.frame = o.frame
    BY <1>2, LeavesAWord
<1>6. poll' = [poll EXCEPT ![t] = p] /\ p \in Poll /\ p.pc = "finish" /\ p.result = result /\ p.try = poll[t].try
    BY Ended
<1> HIDE DEF c, p
<1>7. Steady(t, Current(t), c, p)
    BY <1>1, <1>4, <1>5, <1>6 DEF Steady, SteadyPoll
<1> QED
    BY <1>1, <1>7, SteadyKeeps
-----------------------------------------------------------------------------
(***************************************************************************)
(* The inbound worker keeps the invariant.                                 *)
(***************************************************************************)
\* It leaves a connection, with a word on it, before the last frame.
LEMMA ServerQuitKeeps ==
    ASSUME LinkAssumption, Inv, NEW t \in Links, NEW k \in DOMAIN conn[t], NEW x \in Said,
           NEW y \in Said, conn[t][k].r = "work",
           Put(t, k, [conn[t][k] EXCEPT !.r = "finish", !.result = x, !.said = y]),
           poll' = poll, UNCHANGED <<permits, policy, last, stamp, polls, holds>>, faults' \in Nat
    PROVE  Inv'
<1> DEFINE o == conn[t][k]
           c == [o EXCEPT !.r = "finish", !.result = x, !.said = y]
<1>1. o \in Conn /\ Sound(o) /\ o.r = "work"
    BY ConnAt
<1>2. conn' = [conn EXCEPT ![t][k] = c] /\ o = conn[t][k]
    BY DEF Put
<1> HIDE DEF o
<1>3. c \in Conn
    BY <1>1 DEF Conn, Result, Word
<1>4. /\ c.frame = o.frame /\ c.offered = o.offered /\ c.moved = o.moved /\ c.acked = o.acked
      /\ c.r = "finish" /\ c.result = x /\ c.seen = o.seen
    BY <1>1 DEF Conn
<1> HIDE DEF c
<1>5. SteadyConn(o, c, last[t[2]][t[1]])
    BY <1>1, <1>3, <1>4 DEF SteadyConn, Sound, Live, Bound, Said
<1>6. (o.frame = 0 => c.frame = 0) /\ (o.frame = 8 => c.frame = 8)
    BY <1>4
<1> QED
    BY <1>2, <1>5, <1>6, WriteKeeps

LEMMA SendHelloKeeps ==
    ASSUME LinkAssumption, Inv, NEW t \in Links, NEW k \in DOMAIN conn[t], SendHello(t, k)
    PROVE  Inv'
<1>1. /\ UNCHANGED <<permits, policy, last, stamp, polls, holds>> /\ poll' = poll
      /\ faults' \in Nat
    BY DEF SendHello, rest, counters, Inv, Typed
<1> DEFINE o == conn[t][k]
<1>2. o \in Conn /\ Sound(o) /\ o = conn[t][k] /\ o.frame = 1 /\ o.r = "work"
    BY ConnAt DEF SendHello, Responder, Worker
<1>3. CASE Admitted(t[2], t[1])
  <2> DEFINE c == [o EXCEPT !.frame = 2]
  <2>1. conn' = [conn EXCEPT ![t][k] = c]
      BY <1>3 DEF SendHello, Put
  <2> HIDE DEF o
  <2>2. SteadyConn(o, c, last[t[2]][t[1]]) /\ (o.frame = 0 => c.frame = 0) /\ (o.frame = 8 => c.frame = 8)
      BY <1>2, HelloAnswers
  <2> HIDE DEF c
  <2> QED
      BY <1>1, <1>2, <2>1, <2>2, WriteKeeps
<1>4. CASE ~Admitted(t[2], t[1])
    BY <1>1, <1>2, <1>4, RefusalIs, ServerQuitKeeps DEF SendHello, ServerQuits
<1> QED
    BY <1>3, <1>4

LEMMA ReceiveForwardKeeps ==
    ASSUME LinkAssumption, Inv, NEW t \in Links, NEW k \in DOMAIN conn[t], ReceiveForward(t, k)
    PROVE  Inv'
<1>1. /\ UNCHANGED <<permits, policy, last, stamp, polls, holds>> /\ poll' = poll
      /\ faults' \in Nat
    BY DEF ReceiveForward, rest, counters, Inv, Typed
<1> DEFINE o == conn[t][k]
<1>2. o \in Conn /\ Sound(o) /\ o = conn[t][k] /\ o.frame = 3
      /\ o.r = "work" /\ "forward" \in o.offered
    BY ConnAt DEF ReceiveForward, Responder, Worker
<1>3. CASE Admitted(t[2], t[1])
  <2> DEFINE c == [o EXCEPT !.frame = 4, !.moved = @ \cup {"forward"}]
  <2>1. conn' = [conn EXCEPT ![t][k] = c]
      BY <1>3 DEF ReceiveForward, Put
  <2> HIDE DEF o
  <2>2. SteadyConn(o, c, last[t[2]][t[1]]) /\ (o.frame = 0 => c.frame = 0) /\ (o.frame = 8 => c.frame = 8)
      BY <1>2, ForwardTaken
  <2> HIDE DEF c
  <2> QED
      BY <1>1, <1>2, <2>1, <2>2, WriteKeeps
<1>4. CASE ~Admitted(t[2], t[1])
    BY <1>1, <1>2, <1>4, RefusalIs, ServerQuitKeeps DEF ReceiveForward, ServerQuits
<1> QED
    BY <1>3, <1>4

LEMMA SendReverseKeeps ==
    ASSUME LinkAssumption, Inv, NEW t \in Links, NEW k \in DOMAIN conn[t], SendReverse(t, k)
    PROVE  Inv'
<1>1. /\ UNCHANGED <<permits, policy, last, stamp, polls, holds>> /\ poll' = poll
      /\ faults' \in Nat
    BY DEF SendReverse, rest, counters, Inv, Typed
<1> DEFINE o == conn[t][k]
<1>2. o \in Conn /\ Sound(o) /\ o = conn[t][k] /\ o.r = "work"
      /\ (o.frame = 4 \/ (o.frame = 3 /\ o.offered = {}))
    BY ConnAt DEF SendReverse, Responder, Worker
<1>3. CASE Admitted(t[2], t[1])
  <2>1. PICK S \in SUBSET {"reverse"} : conn' = [conn EXCEPT ![t][k] = [o EXCEPT !.frame = 5, !.offered = @ \cup S]]
      BY <1>3 DEF SendReverse, Put
  <2> DEFINE c == [o EXCEPT !.frame = 5, !.offered = @ \cup S]
  <2> HIDE DEF o
  <2>2. SteadyConn(o, c, last[t[2]][t[1]]) /\ (o.frame = 0 => c.frame = 0) /\ (o.frame = 8 => c.frame = 8)
      BY <1>2, ReverseOffered
  <2>3. conn' = [conn EXCEPT ![t][k] = c]
      BY <2>1
  <2> HIDE DEF c
  <2> QED
      BY <1>1, <1>2, <2>2, <2>3, WriteKeeps
<1>4. CASE ~Admitted(t[2], t[1])
    BY <1>1, <1>2, <1>4, RefusalIs, ServerQuitKeeps DEF SendReverse, ServerQuits
<1> QED
    BY <1>3, <1>4

LEMMA AckReverseKeeps ==
    ASSUME LinkAssumption, Inv, NEW t \in Links, NEW k \in DOMAIN conn[t], AckReverse(t, k)
    PROVE  Inv'
<1>1. /\ UNCHANGED <<permits, policy, last, stamp, polls, holds>> /\ poll' = poll
      /\ faults' \in Nat
    BY DEF AckReverse, rest, counters, Inv, Typed
<1> DEFINE o == conn[t][k]
<1>2. o \in Conn /\ Sound(o) /\ o = conn[t][k] /\ o.r = "work"
      /\ o.frame \in {6, 7} /\ "reverse" \in o.offered
    BY ConnAt DEF AckReverse, Responder, Worker, Awaited
<1> DEFINE c == [o EXCEPT !.acked = @ \cup {"reverse"}]
<1>3. conn' = [conn EXCEPT ![t][k] = c]
    BY DEF AckReverse, Put
<1> HIDE DEF o
<1>4. SteadyConn(o, c, last[t[2]][t[1]]) /\ (o.frame = 0 => c.frame = 0) /\ (o.frame = 8 => c.frame = 8)
    BY <1>2, ReverseAcknowledged
<1> HIDE DEF c
<1> QED
    BY <1>1, <1>2, <1>3, <1>4, WriteKeeps

LEMMA ClosedKeeps ==
    ASSUME LinkAssumption, Inv, NEW t \in Links, NEW k \in DOMAIN conn[t], Closed(t, k)
    PROVE  Inv'
<1>1. /\ UNCHANGED <<permits, policy, last, stamp, polls, holds>> /\ poll' = poll
      /\ faults' \in Nat
    BY DEF Closed, rest, counters, Inv, Typed
<1> DEFINE o == conn[t][k]
<1>2. o \in Conn /\ Sound(o) /\ o = conn[t][k] /\ o.r = "work"
      /\ o.frame = 7 /\ ("reverse" \in o.offered => "reverse" \in o.acked)
    BY ConnAt DEF Closed, Responder, Worker, Awaited
<1> DEFINE c == [o EXCEPT !.frame = 8, !.r = "finish", !.result = "ok"]
<1>3. conn' = [conn EXCEPT ![t][k] = c]
    BY DEF Closed, Put
<1> HIDE DEF o
<1>4. SteadyConn(o, c, last[t[2]][t[1]]) /\ (o.frame = 0 => c.frame = 0) /\ (o.frame = 8 => c.frame = 8)
    BY <1>2, CloseAnswered
<1> HIDE DEF c
<1> QED
    BY <1>1, <1>2, <1>3, <1>4, WriteKeeps

LEMMA ServerCutKeeps ==
    ASSUME LinkAssumption, Inv, NEW t \in Links, NEW k \in DOMAIN conn[t], ServerCut(t, k)
    PROVE  Inv'
<1>1. /\ UNCHANGED <<permits, policy, last, stamp, polls, holds>> /\ poll' = poll
      /\ faults' \in Nat
    BY DEF ServerCut, rest, counters, Inv, Typed
<1>2. conn[t][k] \in Conn /\ conn[t][k].r = "work" /\ conn[t][k].i # "open"
    BY ConnAt DEF ServerCut, Worker
<1>3. Heard(conn[t][k].i) \in Said
    BY <1>2, HeardIs DEF Conn
<1> QED
    BY <1>1, <1>2, <1>3, ServerQuitKeeps DEF ServerCut, ServerQuits

LEMMA ServerBreaksKeeps ==
    ASSUME LinkAssumption, Inv, NEW t \in Links, NEW k \in DOMAIN conn[t], ServerBreaks(t, k)
    PROVE  Inv'
<1>1. PICK code \in Codes :
          Put(t, k, [conn[t][k] EXCEPT !.r = "finish", !.result = Heard(code), !.said = code])
    BY DEF ServerBreaks
<1>2. Heard(code) \in Said /\ code \in Said /\ conn[t][k].r = "work"
    BY DEF ServerBreaks, Worker, Heard, Said, Codes
<1>3. faults' \in Nat
    BY DEF ServerBreaks, Inv, Typed, Fault
<1> QED
    BY <1>1, <1>2, <1>3, ServerQuitKeeps DEF ServerBreaks

LEMMA ServerReadKeeps ==
    ASSUME LinkAssumption, Inv, NEW t \in Links, NEW k \in DOMAIN conn[t], ServerRead(t, k)
    PROVE  Inv'
<1> DEFINE o == conn[t][k]
           read == last[t[2]][t[1]]
           c == [o EXCEPT !.r = "record", !.seen = read]
<1>1. /\ UNCHANGED <<permits, policy, last, stamp, polls, holds>> /\ poll' = poll
      /\ faults' \in Nat
    BY DEF ServerRead, counters, Inv, Typed
<1>2. o \in Conn /\ Sound(o) /\ o = conn[t][k] /\ o.r = "finish"
    BY ConnAt DEF ServerRead
<1>3. read \in Nat
    BY LinksAre DEF Inv, Typed
<1>4. conn' = [conn EXCEPT ![t][k] = c]
    BY DEF ServerRead
<1> HIDE DEF o
<1>5. SteadyConn(o, c, read) /\ c.frame = o.frame
    BY <1>2, <1>3, HealthRead
<1> HIDE DEF c
<1> QED
    BY <1>1, <1>2, <1>4, <1>5, WriteKeeps

-----------------------------------------------------------------------------
(***************************************************************************)
(* The worker of a poll keeps the invariant.                               *)
(***************************************************************************)
LEMMA AckForwardKeeps == ASSUME LinkAssumption, Inv, NEW t \in Links, AckForward(t) PROVE Inv'
<1>1. UNCHANGED <<permits, policy, last, stamp, polls, holds>> /\ faults' \in Nat
    BY DEF AckForward, rest, counters, Inv, Typed
<1> DEFINE k == Current(t)
           o == Wire(t)
<1>2. /\ k \in DOMAIN conn[t] /\ o = conn[t][k] /\ o \in Conn /\ Sound(o)
      /\ o.r = "record" => o.seen = last[t[2]][t[1]]
    BY WireAt, ConnAt DEF AckForward, Initiator
<1>3. poll[t].pc = "work" /\ o.frame \in {4, 5} /\ "forward" \in o.offered
    BY DEF AckForward, Initiator, Awaited
<1> DEFINE c == [o EXCEPT !.acked = @ \cup {"forward"}]
<1>4. conn' = [conn EXCEPT ![t][k] = c] /\ poll' = poll
    BY DEF AckForward, Put
<1> HIDE DEF o, k
<1>5. SteadyConn(o, c, last[t[2]][t[1]]) /\ (o.frame = 0 => c.frame = 0) /\ (o.frame = 8 => c.frame = 8)
    BY <1>2, <1>3, ForwardAcknowledged
<1> HIDE DEF c
<1> QED
    BY <1>1, <1>2, <1>4, <1>5, WriteKeeps

LEMMA SendCloseKeeps == ASSUME LinkAssumption, Inv, NEW t \in Links, SendClose(t) PROVE Inv'
<1>1. UNCHANGED <<permits, policy, last, stamp, polls, holds>> /\ faults' \in Nat
    BY DEF SendClose, rest, counters, Inv, Typed
<1> DEFINE k == Current(t)
           o == Wire(t)
<1>2. /\ k \in DOMAIN conn[t] /\ o = conn[t][k] /\ o \in Conn /\ Sound(o)
      /\ o.r = "record" => o.seen = last[t[2]][t[1]]
    BY WireAt, ConnAt DEF SendClose, Initiator
<1>3. /\ poll[t].pc = "work"
      /\ \/ o.frame = 6
         \/ /\ o.frame = 5 /\ "reverse" \notin o.offered
            /\ "forward" \in o.offered => "forward" \in o.acked
    BY DEF SendClose, Initiator, Awaited
<1> DEFINE c == [o EXCEPT !.frame = 7]
<1>4. conn' = [conn EXCEPT ![t][k] = c] /\ poll' = poll
    BY DEF SendClose, Put
<1> HIDE DEF o, k
<1>5. SteadyConn(o, c, last[t[2]][t[1]]) /\ (o.frame = 0 => c.frame = 0) /\ (o.frame = 8 => c.frame = 8)
    BY <1>2, <1>3, CloseSent
<1> HIDE DEF c
<1> QED
    BY <1>1, <1>2, <1>4, <1>5, WriteKeeps

LEMMA ReceiveReverseKeeps == ASSUME LinkAssumption, Inv, NEW t \in Links, ReceiveReverse(t) PROVE Inv'
<1>1. UNCHANGED <<permits, policy, last, stamp, polls, holds>> /\ faults' \in Nat
    BY DEF ReceiveReverse, rest, counters, Inv, Typed
<1> DEFINE k == Current(t)
           o == Wire(t)
<1>2. /\ k \in DOMAIN conn[t] /\ o = conn[t][k] /\ o \in Conn /\ Sound(o)
      /\ o.r = "record" => o.seen = last[t[2]][t[1]]
    BY WireAt, ConnAt DEF ReceiveReverse, Initiator
<1>3. poll[t].pc = "work" /\ o.frame = 5 /\ "reverse" \in o.offered
      /\ ("forward" \in o.offered => "forward" \in o.acked)
    BY DEF ReceiveReverse, Initiator, Awaited
<1>4. CASE Admitted(t[1], t[2])
  <2> DEFINE c == [o EXCEPT !.frame = 6, !.moved = @ \cup {"reverse"}]
  <2>1. conn' = [conn EXCEPT ![t][k] = c] /\ poll' = poll
      BY <1>4 DEF ReceiveReverse, Put
  <2> HIDE DEF o, k
  <2>2. SteadyConn(o, c, last[t[2]][t[1]]) /\ (o.frame = 0 => c.frame = 0) /\ (o.frame = 8 => c.frame = 8)
      BY <1>2, <1>3, ReverseTaken
  <2> HIDE DEF c
  <2> QED
      BY <1>1, <1>2, <2>1, <2>2, WriteKeeps
<1>5. CASE ~Admitted(t[1], t[2])
  <2>1. End(t, Refusal(t[1], t[2])) /\ conn' = [conn EXCEPT ![t][Current(t)].i = Refusal(t[1], t[2])]
      BY <1>5 DEF ReceiveReverse, Quits
  <2>2. Refusal(t[1], t[2]) \in Result \ {"ok"} /\ Refusal(t[1], t[2]) \in Word
      BY RefusalIs DEF Result, Word, Said
  <2> QED
      BY <1>1, <1>3, <2>1, <2>2, QuitKeeps
<1> QED
    BY <1>4, <1>5

LEMMA SendForwardKeeps == ASSUME LinkAssumption, Inv, NEW t \in Links, SendForward(t) PROVE Inv'
<1>1. UNCHANGED <<permits, policy, last, stamp, polls, holds>> /\ faults' \in Nat
    BY DEF SendForward, rest, counters, Inv, Typed
<1> DEFINE k == Current(t)
           o == Wire(t)
<1>2. /\ k \in DOMAIN conn[t] /\ o = conn[t][k] /\ o \in Conn /\ Sound(o)
      /\ o.r = "record" => o.seen = last[t[2]][t[1]]
    BY WireAt, ConnAt DEF SendForward, Initiator
<1>3. poll[t].pc = "work" /\ o.frame = 2
    BY DEF SendForward, Initiator
<1>4. CASE Admitted(t[1], t[2])
  <2>1. /\ poll' = poll
        /\ \E S \in SUBSET {"forward"} :
              conn' = [conn EXCEPT ![t][k] = IF o.mode = "test" THEN [o EXCEPT !.frame = 7]
                                             ELSE [o EXCEPT !.frame = 3, !.offered = S]]
      BY <1>4 DEF SendForward, Put
  <2>2. CASE o.mode = "test"
    <3> DEFINE c == [o EXCEPT !.frame = 7]
    <3>1. conn' = [conn EXCEPT ![t][k] = c]
        BY <2>1, <2>2
    <3> HIDE DEF o, k
    <3>2. SteadyConn(o, c, last[t[2]][t[1]]) /\ (o.frame = 0 => c.frame = 0) /\ (o.frame = 8 => c.frame = 8)
        BY <1>2, <1>3, TestCloses
    <3> HIDE DEF c
    <3> QED
        BY <1>1, <1>2, <2>1, <3>1, <3>2, WriteKeeps
  <2>3. CASE o.mode # "test"
    <3>1. PICK S \in SUBSET {"forward"} :
              conn' = [conn EXCEPT ![t][k] = [o EXCEPT !.frame = 3, !.offered = S]]
        BY <2>1, <2>3
    <3> DEFINE c == [o EXCEPT !.frame = 3, !.offered = S]
    <3>2. conn' = [conn EXCEPT ![t][k] = c]
        BY <3>1
    <3> HIDE DEF o, k
    <3>3. SteadyConn(o, c, last[t[2]][t[1]]) /\ (o.frame = 0 => c.frame = 0) /\ (o.frame = 8 => c.frame = 8)
        BY <1>2, <1>3, ForwardOffered
    <3> HIDE DEF c
    <3> QED
        BY <1>1, <1>2, <2>1, <3>2, <3>3, WriteKeeps
  <2> QED
      BY <2>2, <2>3
<1>5. CASE ~Admitted(t[1], t[2])
  <2>1. End(t, Refusal(t[1], t[2])) /\ conn' = [conn EXCEPT ![t][Current(t)].i = Refusal(t[1], t[2])]
      BY <1>5 DEF SendForward, Quits
  <2>2. Refusal(t[1], t[2]) \in Result \ {"ok"} /\ Refusal(t[1], t[2]) \in Word
      BY RefusalIs DEF Result, Word, Said
  <2> QED
      BY <1>1, <1>3, <2>1, <2>2, QuitKeeps
<1> QED
    BY <1>4, <1>5

LEMMA NotSecuredKeeps == ASSUME LinkAssumption, Inv, NEW t \in Links, NotSecured(t) PROVE Inv'
<1>1. UNCHANGED <<permits, policy, last, stamp, polls, holds>> /\ faults' \in Nat
    BY DEF NotSecured, counters, Inv, Typed
<1>2. /\ poll[t].pc = "tls" /\ End(t, "tls") /\ conn' = [conn EXCEPT ![t][Current(t)].i = "eof"]
      /\ "tls" \in Result /\ "eof" \in Word
    BY DEF NotSecured, Result, Word, Said
<1> QED
    BY <1>1, <1>2, QuitKeeps

LEMMA DoneKeeps == ASSUME LinkAssumption, Inv, NEW t \in Links, Done(t) PROVE Inv'
<1>1. UNCHANGED <<permits, policy, last, stamp, polls, holds>> /\ faults' \in Nat
    BY DEF Done, rest, counters, Inv, Typed
<1>2. /\ poll[t].pc = "work" /\ End(t, "ok") /\ conn' = [conn EXCEPT ![t][Current(t)].i = "eof"]
      /\ "ok" \in Result /\ "eof" \in Word /\ Wire(t).frame = 8
    BY DEF Done, Initiator, Result, Word, Said
<1> QED
    BY <1>1, <1>2, QuitKeeps

LEMMA CutKeeps == ASSUME LinkAssumption, Inv, NEW t \in Links, Cut(t) PROVE Inv'
<1>1. UNCHANGED <<permits, policy, last, stamp, polls, holds>> /\ faults' \in Nat
    BY DEF Cut, rest, counters, Inv, Typed
<1> DEFINE x == Heard(Wire(t).said)
<1>2. poll[t].pc = "work" /\ End(t, x) /\ conn' = [conn EXCEPT ![t][Current(t)].i = x]
    BY DEF Cut, Quits
<1>3. x \in Said
    BY <1>2, WireAt, ConnAt, HeardIs DEF Cut, Conn
<1>4. x \in Result /\ x \in Word /\ x # "ok"
    BY <1>3 DEF Result, Word, Said
<1> HIDE DEF x
<1> QED
    BY <1>1, <1>2, <1>4, QuitKeeps

LEMMA BreaksKeeps == ASSUME LinkAssumption, Inv, NEW t \in Links, Breaks(t) PROVE Inv'
<1>1. UNCHANGED <<permits, policy, last, stamp, polls, holds>> /\ faults' \in Nat
    BY DEF Breaks, Fault, Inv, Typed
<1>2. PICK code \in Codes :
          End(t, Heard(code)) /\ conn' = [conn EXCEPT ![t][Current(t)].i = code]
    BY DEF Breaks
<1>3. Heard(code) \in Result /\ Heard(code) # "ok" /\ code \in Word
    BY DEF Codes, Heard, Result, Word, Said
<1>4. poll[t].pc \in {"tls", "work"}
    BY DEF Breaks
<1> QED
    BY <1>1, <1>2, <1>3, <1>4, QuitKeeps

LEMMA SecureKeeps == ASSUME LinkAssumption, Inv, NEW t \in Links, Secure(t) PROVE Inv'
<1>1. UNCHANGED <<permits, policy, last, stamp, polls, holds>> /\ faults' \in Nat
    BY DEF Secure, counters, Inv, Typed
<1> DEFINE k == Current(t)
           o == Wire(t)
           c == [o EXCEPT !.frame = 1]
           p == [poll[t] EXCEPT !.pc = "work"]
<1>2. k \in DOMAIN conn[t] /\ o = conn[t][k] /\ o \in Conn /\ Sound(o)
    BY WireAt, ConnAt DEF Secure
<1>3. poll[t].pc = "tls" /\ o.r = "tls" /\ o.frame = 0
    BY PollAt DEF Secure, PollSound
<1>9. Wire(t).frame = 0
    BY <1>3
<1>4. conn' = [conn EXCEPT ![t][k] = c] /\ poll' = [poll EXCEPT ![t] = p]
    BY <1>2 DEF Secure
<1>5. p \in Poll /\ p.pc = "work" /\ p.try = poll[t].try /\ p.result = poll[t].result
    BY PollAt DEF Poll
<1> HIDE DEF o, k, p
<1>6. SteadyConn(o, c, last[t[2]][t[1]]) /\ c.frame = 1
    BY <1>2, <1>3, HelloBegins
<1> HIDE DEF c
<1>7. SteadyPoll(poll[t], p, last[t[1]][t[2]])
    BY <1>3, <1>5 DEF SteadyPoll
<1>8. Steady(t, k, c, p)
    BY <1>1, <1>2, <1>3, <1>4, <1>5, <1>6, <1>7, <1>9 DEF Steady
<1> QED
    BY <1>2, <1>8, SteadyKeeps

-----------------------------------------------------------------------------
(***************************************************************************)
(* Steps of a poll's worker alone, and the connection it opens.            *)
(***************************************************************************)
\* A worker that ended a try records it, whether or not it had a connection.
LEMMA PollOnlyKeeps ==
    ASSUME LinkAssumption, Inv, NEW t \in Links, NEW p \in Poll,
           poll[t].pc \in {"try", "finish"}, p.pc \in {"finish", "record"}, p.try = poll[t].try,
           p.pc = "record" => p.seen = last[t[1]][t[2]],
           p.result = "ok" => poll[t].result = "ok" /\ poll[t].pc = "finish",
           poll' = [poll EXCEPT ![t] = p],
           UNCHANGED <<permits, conn, policy, last, stamp, counters>>
    PROVE  Inv'
<1>1. poll' \in [Links -> Poll] /\ poll'[t] = p /\ \A u \in Links : u # t => poll'[u] = poll[u]
    BY DEF Inv, Typed
<1>2. Typed' /\ ConnsSound'
    BY <1>1 DEF Inv, Typed, ConnsSound, permits, policy, counters
<1>3. PollsSound'
    BY <1>1 DEF Inv, PollsSound, PollSound, Current, Wire
<1>4. SamePermits
    BY <1>1 DEF SamePermits, Polling
<1>5. ActiveIsExact' /\ PermitsCounted'
    BY <1>2, <1>4, SamePermitsKeep DEF Typed
<1>6. ConnsCounted'
  <2>1. \A u \in Links : u # t => Opened(u)' = Opened(u) /\ (Polling(u)' <=> Polling(u))
      BY <1>1 DEF Opened, Polling
  <2>2. Opened(t) \in {poll[t].try, poll[t].try + 1} /\ Opened(t)' = poll[t].try + 1
        /\ Polling(t) /\ Polling(t)' /\ poll[t].try \in Nat
      BY <1>1, PollAt DEF Opened, Polling, Poll, LinkAssumption
  <2>3. \A u \in Links : Current(u)' = Current(u) /\ Started(u)' = Started(u)
      BY DEF Current, Started, counters
  <2>4. \A u \in Links : Current(u) \in Nat /\ Started(u) \in Nat /\ Tries \in Nat
      BY DEF Inv, Typed, Current, Started, LinkAssumption
  <2>5. \A u \in Links : Started(u) > 0 => (Started(u) - 1) * Tries \in Nat
      BY <2>4
  <2>6. ASSUME NEW u \in Links, u # t
        PROVE  IF Polling(u)'
               THEN Started(u)' > 0 /\ Current(u)' <= (Started(u)' - 1) * Tries + Opened(u)'
               ELSE Current(u)' <= Started(u)' * Tries
      BY <2>1, <2>3, <2>6 DEF Inv, ConnsCounted
  <2>7. Started(t)' > 0 /\ Current(t)' <= (Started(t)' - 1) * Tries + Opened(t)'
    <3>1. Started(t) > 0 /\ Current(t) <= (Started(t) - 1) * Tries + Opened(t)
        BY <2>2 DEF Inv, ConnsCounted
    <3> QED
        BY <2>2, <2>3, <2>4, <2>5, <3>1
  <2> QED
      BY <2>2, <2>6, <2>7 DEF ConnsCounted
<1>7. ReadIsFresh'
    BY <1>1 DEF Inv, ReadIsFresh
<1> QED
    BY <1>2, <1>3, <1>5, <1>6, <1>7 DEF Inv

LEMMA ReadKeeps == ASSUME LinkAssumption, Inv, NEW t \in Links, Read(t) PROVE Inv'
<1> DEFINE read == last[t[1]][t[2]]
           p == [poll[t] EXCEPT !.pc = "record", !.seen = read]
<1>1. poll' = [poll EXCEPT ![t] = p] /\ poll[t].pc = "finish"
      /\ UNCHANGED <<permits, conn, policy, last, stamp, counters>>
    BY DEF Read
<1>2. read \in Nat
    BY LinksAre DEF Inv, Typed
<1> HIDE DEF read
<1>3. p \in Poll /\ p.pc = "record" /\ p.try = poll[t].try /\ p.seen = read
      /\ p.result = poll[t].result
    BY <1>2, PollAt DEF Poll
<1> HIDE DEF p
<1> QED
    BY <1>1, <1>3, PollOnlyKeeps DEF read

LEMMA ConnectionIs ==
    ASSUME NEW mode \in {"poll", "test"}
    PROVE  LET c == Connection(mode)
           IN  c \in Conn /\ Sound(c) /\ c.frame = 0 /\ c.r = "syn"
<1> DEFINE c == Connection(mode)
<1>1. c \in Conn
    BY DEF Connection, Conn, Word, Said, Result, Batches
<1>2. c.frame = 0 /\ c.r = "syn" /\ c.offered = {} /\ c.moved = {} /\ c.acked = {} /\ c.result = "none"
    BY DEF Connection
<1> HIDE DEF c
<1>3. Sound(c)
    BY <1>2 DEF Sound
<1> QED
    BY <1>1, <1>2, <1>3 DEF c

LEMMA ConnectKeeps == ASSUME LinkAssumption, Inv, NEW t \in Links, Connect(t) PROVE Inv'
<1>1. poll[t].pc = "try" /\ UNCHANGED <<permits, policy, last, stamp, counters>>
    BY DEF Connect
<1>2. CASE t[2] \in stopping
  <2> DEFINE p == [poll[t] EXCEPT !.pc = "finish", !.result = "connect"]
  <2>1. End(t, "connect") /\ conn' = conn /\ "connect" \in Result
      BY <1>2 DEF Connect, Result
  <2>2. /\ poll' = [poll EXCEPT ![t] = p] /\ p \in Poll /\ p.pc = "finish"
        /\ p.result = "connect" /\ p.try = poll[t].try
      BY <2>1, Ended
  <2> HIDE DEF p
  <2> QED
      BY <1>1, <2>1, <2>2, PollOnlyKeeps
<1>3. CASE t[2] \notin stopping
  <2> DEFINE c == Connection(poll[t].mode)
             p == [poll[t] EXCEPT !.pc = "tls"]
  <2>1. conn' = [conn EXCEPT ![t] = Append(conn[t], c)] /\ poll' = [poll EXCEPT ![t] = p]
      BY <1>3 DEF Connect
  <2>2. c \in Conn /\ Sound(c) /\ c.frame = 0 /\ c.r = "syn"
      BY PollAt, ConnectionIs DEF Poll
  <2>3. p \in Poll /\ p.pc = "tls" /\ p.try = poll[t].try /\ poll[t].try \in Nat
      BY PollAt DEF Poll, LinkAssumption
  <2> HIDE DEF c, p
  <2>4. conn \in [Links -> Seq(Conn)]
      BY DEF Inv, Typed
  <2>5. /\ conn' \in [Links -> Seq(Conn)] /\ Len(conn'[t]) = Len(conn[t]) + 1
        /\ DOMAIN conn'[t] = DOMAIN conn[t] \cup {Len(conn'[t])} /\ Len(conn'[t]) \notin DOMAIN conn[t]
        /\ conn'[t][Len(conn'[t])] = c
        /\ \A k \in DOMAIN conn[t] : conn'[t][k] = conn[t][k]
        /\ \A u \in Links : u # t => conn'[u] = conn[u]
      BY <2>1, <2>2, <2>4
  <2>6. poll' \in [Links -> Poll] /\ poll'[t] = p /\ \A u \in Links : u # t => poll'[u] = poll[u]
      BY <2>1, <2>3 DEF Inv, Typed
  <2>7. Typed'
      BY <1>1, <2>5, <2>6 DEF Inv, Typed, permits, policy, counters
  <2>8. ConnsSound'
      BY <2>2, <2>5 DEF Inv, ConnsSound
  <2>9. PollsSound'
    <3>1. ASSUME NEW u \in Links, u # t PROVE PollSound(u)'
        BY <2>5, <2>6, <3>1 DEF Inv, PollsSound, PollSound, Current, Wire
    <3>2. Current(t)' > 0 /\ Wire(t)' = c
        BY <2>4, <2>5 DEF Current, Wire
    <3>3. PollSound(t)'
        BY <2>2, <2>3, <2>6, <3>2 DEF PollSound
    <3> QED
        BY <3>1, <3>3 DEF PollsSound
  <2>10. SamePermits
    <3>1. \A u \in Links : Polling(u)' <=> Polling(u)
        BY <1>1, <2>3, <2>6 DEF Polling
    <3>2. ~Live(c) /\ ~Bound(c)
        BY <2>2 DEF Live, Bound
    <3> QED
        BY <1>1, <2>5, <3>1, <3>2 DEF SamePermits
  <2>11. ActiveIsExact' /\ PermitsCounted'
      BY <2>5, <2>10, SamePermitsKeep
  <2>12. ConnsCounted'
    <3>1. \A u \in Links : u # t => Opened(u)' = Opened(u) /\ (Polling(u)' <=> Polling(u))
                                    /\ Current(u)' = Current(u)
        BY <2>5, <2>6 DEF Opened, Polling, Current
    <3>2. Opened(t) = poll[t].try /\ Opened(t)' = poll[t].try + 1 /\ Polling(t) /\ Polling(t)'
          /\ Current(t)' = Current(t) + 1
        BY <1>1, <2>3, <2>5, <2>6 DEF Opened, Polling, Current
    <3>3. \A u \in Links : Started(u)' = Started(u)
        BY <1>1 DEF Started, counters
    <3>4. \A u \in Links : Current(u) \in Nat /\ Started(u) \in Nat /\ Tries \in Nat
        BY DEF Inv, Typed, Current, Started, LinkAssumption
    <3>5. \A u \in Links : Started(u) > 0 => (Started(u) - 1) * Tries \in Nat
        BY <3>4
    <3>6. ASSUME NEW u \in Links, u # t
          PROVE  IF Polling(u)'
                 THEN Started(u)' > 0 /\ Current(u)' <= (Started(u)' - 1) * Tries + Opened(u)'
                 ELSE Current(u)' <= Started(u)' * Tries
        BY <3>1, <3>3, <3>6 DEF Inv, ConnsCounted
    <3>7. Started(t)' > 0 /\ Current(t)' <= (Started(t)' - 1) * Tries + Opened(t)'
      <4>1. Started(t) > 0 /\ Current(t) <= (Started(t) - 1) * Tries + Opened(t)
          BY <3>2 DEF Inv, ConnsCounted
      <4> QED
          BY <2>3, <3>2, <3>3, <3>4, <3>5, <4>1
    <3> QED
        BY <3>2, <3>6, <3>7 DEF ConnsCounted
  <2>13. ReadIsFresh'
    <3>1. \A u \in Links : poll'[u].pc = "record" => poll[u].pc = "record" /\ poll'[u] = poll[u]
        BY <2>3, <2>6
    <3>2. \A u \in Links : \A k \in DOMAIN conn'[u] : conn'[u][k].r = "record" =>
              k \in DOMAIN conn[u] /\ conn'[u][k] = conn[u][k]
        BY <2>2, <2>5
    <3>3. last' = last /\ stamp' = stamp
        BY <1>1
    <3> QED
        BY <3>1, <3>2, <3>3 DEF Inv, ReadIsFresh
  <2> QED
      BY <2>7, <2>8, <2>9, <2>11, <2>12, <2>13 DEF Inv
<1> QED
    BY <1>2, <1>3

-----------------------------------------------------------------------------
(***************************************************************************)
(* Permits that are taken and given back.                                  *)
(***************************************************************************)
\* The permits of one board change by one, those of the others do not.
OthersKeep(b) == \A d \in Boards \ {b} :
    PollPermits(d)' = PollPermits(d) /\ WorkerPermits(d)' = WorkerPermits(d)

LEMMA PermitTaken ==
    ASSUME LinkAssumption, Inv, NEW b \in Boards, NEW x, OthersKeep(b), Room(b), Take(b),
           \/ /\ x \notin PollPermits(b) /\ PollPermits(b)' = PollPermits(b) \cup {x}
              /\ WorkerPermits(b)' = WorkerPermits(b)
           \/ /\ x \notin WorkerPermits(b) /\ WorkerPermits(b)' = WorkerPermits(b) \cup {x}
              /\ PollPermits(b)' = PollPermits(b)
    PROVE  PermitsCounted' /\ count' \in [Boards -> Nat]
<1>1. /\ IsFiniteSet(PollPermits(b)) /\ IsFiniteSet(WorkerPermits(b)) /\ count[b] < Capacity
      /\ count[b] = Cardinality(PollPermits(b)) + Cardinality(WorkerPermits(b))
      /\ count \in [Boards -> Nat] /\ Capacity \in Nat
    BY DEF Inv, Typed, PermitsCounted, Room, LinkAssumption
<1>2. Cardinality(PollPermits(b)) \in Nat /\ Cardinality(WorkerPermits(b)) \in Nat
    BY <1>1, FS_CardinalityType
<1>3. /\ count' \in [Boards -> Nat] /\ count'[b] = count[b] + 1 /\ count'[b] <= Capacity
      /\ \A d \in Boards \ {b} : count'[d] = count[d]
    BY <1>1 DEF Take
<1>4. /\ IsFiniteSet(PollPermits(b)') /\ IsFiniteSet(WorkerPermits(b)')
      /\ count'[b] = Cardinality(PollPermits(b)') + Cardinality(WorkerPermits(b)')
  <2>1. CASE /\ x \notin PollPermits(b) /\ PollPermits(b)' = PollPermits(b) \cup {x}
             /\ WorkerPermits(b)' = WorkerPermits(b)
    <3>1. IsFiniteSet(PollPermits(b)') /\ Cardinality(PollPermits(b)') = Cardinality(PollPermits(b)) + 1
        BY <1>1, <2>1, FS_AddElement
    <3> QED
        BY <1>1, <1>2, <1>3, <2>1, <3>1
  <2>2. CASE /\ x \notin WorkerPermits(b) /\ WorkerPermits(b)' = WorkerPermits(b) \cup {x}
             /\ PollPermits(b)' = PollPermits(b)
    <3>1. IsFiniteSet(WorkerPermits(b)') /\ Cardinality(WorkerPermits(b)') = Cardinality(WorkerPermits(b)) + 1
        BY <1>1, <2>2, FS_AddElement
    <3> QED
        BY <1>1, <1>2, <1>3, <2>2, <3>1
  <2> QED
      BY <2>1, <2>2
<1>5. \A d \in Boards \ {b} :
        /\ IsFiniteSet(PollPermits(d)') /\ IsFiniteSet(WorkerPermits(d)')
        /\ count'[d] = Cardinality(PollPermits(d)') + Cardinality(WorkerPermits(d)')
        /\ count'[d] <= Capacity
    BY <1>3 DEF Inv, PermitsCounted, OthersKeep
<1> QED
    BY <1>3, <1>4, <1>5 DEF PermitsCounted

LEMMA PermitGiven ==
    ASSUME LinkAssumption, Inv, NEW b \in Boards, NEW x, OthersKeep(b),
           count' = [count EXCEPT ![b] = @ - 1],
           \/ /\ x \in PollPermits(b) /\ PollPermits(b)' = PollPermits(b) \ {x}
              /\ WorkerPermits(b)' = WorkerPermits(b)
           \/ /\ x \in WorkerPermits(b) /\ WorkerPermits(b)' = WorkerPermits(b) \ {x}
              /\ PollPermits(b)' = PollPermits(b)
    PROVE  PermitsCounted' /\ count' \in [Boards -> Nat]
<1>1. /\ IsFiniteSet(PollPermits(b)) /\ IsFiniteSet(WorkerPermits(b)) /\ count[b] <= Capacity
      /\ count[b] = Cardinality(PollPermits(b)) + Cardinality(WorkerPermits(b))
      /\ count \in [Boards -> Nat] /\ Capacity \in Nat
    BY DEF Inv, Typed, PermitsCounted, LinkAssumption
<1>2. Cardinality(PollPermits(b)) \in Nat /\ Cardinality(WorkerPermits(b)) \in Nat
    BY <1>1, FS_CardinalityType
<1>3. count'[b] = count[b] - 1 /\ \A d \in Boards \ {b} : count'[d] = count[d]
    BY <1>1
<1>4. /\ IsFiniteSet(PollPermits(b)') /\ IsFiniteSet(WorkerPermits(b)')
      /\ count'[b] = Cardinality(PollPermits(b)') + Cardinality(WorkerPermits(b)')
      /\ Cardinality(PollPermits(b)') \in Nat /\ Cardinality(WorkerPermits(b)') \in Nat
  <2>1. CASE /\ x \in PollPermits(b) /\ PollPermits(b)' = PollPermits(b) \ {x}
             /\ WorkerPermits(b)' = WorkerPermits(b)
    <3>1. IsFiniteSet(PollPermits(b)') /\ Cardinality(PollPermits(b)') = Cardinality(PollPermits(b)) - 1
        BY <1>1, <2>1, FS_RemoveElement
    <3>2. Cardinality(PollPermits(b)') \in Nat
        BY <3>1, FS_CardinalityType
    <3> QED
        BY <1>1, <1>2, <1>3, <2>1, <3>1, <3>2
  <2>2. CASE /\ x \in WorkerPermits(b) /\ WorkerPermits(b)' = WorkerPermits(b) \ {x}
             /\ PollPermits(b)' = PollPermits(b)
    <3>1. IsFiniteSet(WorkerPermits(b)') /\ Cardinality(WorkerPermits(b)') = Cardinality(WorkerPermits(b)) - 1
        BY <1>1, <2>2, FS_RemoveElement
    <3>2. Cardinality(WorkerPermits(b)') \in Nat
        BY <3>1, FS_CardinalityType
    <3> QED
        BY <1>1, <1>2, <1>3, <2>2, <3>1, <3>2
  <2> QED
      BY <2>1, <2>2
<1>5. count' \in [Boards -> Nat] /\ count'[b] <= Capacity
    BY <1>1, <1>3, <1>4
<1>6. \A d \in Boards \ {b} :
        /\ IsFiniteSet(PollPermits(d)') /\ IsFiniteSet(WorkerPermits(d)')
        /\ count'[d] = Cardinality(PollPermits(d)') + Cardinality(WorkerPermits(d)')
        /\ count'[d] <= Capacity
    BY <1>3 DEF Inv, PermitsCounted, OthersKeep
<1> QED
    BY <1>4, <1>5, <1>6 DEF PermitsCounted

\* A poll that begins and one that ends.
LEMMA PollPermitsMove ==
    ASSUME LinkAssumption, Inv, NEW t \in Links, NEW p \in Poll,
           poll' = [poll EXCEPT ![t] = p], conn' = conn
    PROVE  /\ poll' \in [Links -> Poll] /\ poll'[t] = p
           /\ \A u \in Links : u # t => poll'[u] = poll[u]
           /\ OthersKeep(t[1]) /\ WorkerPermits(t[1])' = WorkerPermits(t[1])
           /\ p.pc # "idle" => PollPermits(t[1])' = PollPermits(t[1]) \cup {t}
           /\ p.pc = "idle" => PollPermits(t[1])' = PollPermits(t[1]) \ {t}
<1>1. poll' \in [Links -> Poll] /\ poll'[t] = p /\ \A u \in Links : u # t => poll'[u] = poll[u]
    BY DEF Inv, Typed
<1>2. \A b : WorkerPermits(b)' = WorkerPermits(b)
    BY DEF WorkerPermits
<1>3. \A d \in Boards \ {t[1]} : PollPermits(d)' = PollPermits(d)
    BY <1>1 DEF PollPermits, Polling
<1>4. p.pc # "idle" => PollPermits(t[1])' = PollPermits(t[1]) \cup {t}
    BY <1>1 DEF PollPermits, Polling
<1>5. p.pc = "idle" => PollPermits(t[1])' = PollPermits(t[1]) \ {t}
    BY <1>1 DEF PollPermits, Polling
<1> QED
    BY <1>1, <1>2, <1>3, <1>4, <1>5 DEF OthersKeep

-----------------------------------------------------------------------------
(***************************************************************************)
(* A poll begins and ends.                                                 *)
(***************************************************************************)
LEMMA CountsAre ==
    ASSUME LinkAssumption, Inv
    PROVE  \A u \in Links :
               /\ Current(u) \in Nat /\ Started(u) \in Nat /\ Started(u) <= MaxPolls
               /\ poll[u].try \in Nat /\ poll[u].try < Tries
               /\ Tries \in Nat /\ Started(u) * Tries \in Nat
               /\ Started(u) > 0 => /\ (Started(u) - 1) * Tries \in Nat
                                    /\ (Started(u) - 1) * Tries + Tries = Started(u) * Tries
<1>1. ASSUME NEW u \in Links
      PROVE  /\ Current(u) \in Nat /\ Started(u) \in Nat /\ Started(u) <= MaxPolls
             /\ poll[u].try \in Nat /\ poll[u].try < Tries /\ Tries \in Nat
    BY PollAt DEF Inv, Typed, Current, Started, LinkAssumption, Poll
<1>2. ASSUME NEW u \in Links
      PROVE  /\ Started(u) * Tries \in Nat
             /\ Started(u) > 0 => /\ (Started(u) - 1) * Tries \in Nat
                                  /\ (Started(u) - 1) * Tries + Tries = Started(u) * Tries
  <2>1. Started(u) \in Nat /\ Started(u) <= MaxPolls /\ (Started(u) > 0 => Started(u) - 1 \in Nat)
      BY <1>1
  <2>2. Started(u) > 0 => Started(u) - 1 <= MaxPolls
      BY <2>1 DEF LinkAssumption
  <2> QED
      BY <2>1, <2>2, MoreTries
<1> QED
    BY <1>1, <1>2

LEMMA StartPollKeeps ==
    ASSUME LinkAssumption, Inv, NEW t \in Links, NEW mode \in {"poll", "test"}, StartPoll(t, mode)
    PROVE  Inv'
<1> DEFINE p == [Quiet EXCEPT !.pc = "try", !.mode = mode]
<1>1. /\ poll[t].pc = "idle" /\ polls[t] > 0 /\ polls' = [polls EXCEPT ![t] = @ - 1]
      /\ poll' = [poll EXCEPT ![t] = p] /\ t[2] \notin active[t[1]]
      /\ active' = [active EXCEPT ![t[1]] = @ \cup {t[2]}] /\ Room(t[1]) /\ Take(t[1])
      /\ UNCHANGED <<conn, policy, last, stamp, faults, holds>>
    BY DEF StartPoll, Bind
<1>2. 0 \in 0..(Tries - 1)
    BY DEF LinkAssumption
<1>3. p \in Poll /\ p.pc = "try" /\ p.try = 0 /\ p.result = "none"
    BY <1>2 DEF Quiet, Poll, Result
<1> HIDE DEF p
<1>4. /\ poll' \in [Links -> Poll] /\ poll'[t] = p
      /\ \A u \in Links : u # t => poll'[u] = poll[u]
      /\ OthersKeep(t[1]) /\ WorkerPermits(t[1])' = WorkerPermits(t[1])
      /\ PollPermits(t[1])' = PollPermits(t[1]) \cup {t}
    BY <1>1, <1>3, PollPermitsMove
<1>5. t \notin PollPermits(t[1]) /\ t[1] \in Boards /\ t[2] \in Boards
    BY <1>1, LinksAre DEF PollPermits, Polling
<1>6. PermitsCounted' /\ count' \in [Boards -> Nat]
    BY <1>1, <1>4, <1>5, PermitTaken
<1>7. /\ active' \in [Boards -> SUBSET Boards] /\ active'[t[1]] = active[t[1]] \cup {t[2]}
      /\ \A b \in Boards : b # t[1] => active'[b] = active[b]
    BY <1>1, <1>5 DEF Inv, Typed
<1>8. polls' \in [Links -> 0..MaxPolls] /\ polls'[t] = polls[t] - 1 /\ \A u \in Links : u # t => polls'[u] = polls[u]
    BY <1>1 DEF Inv, Typed, LinkAssumption
<1>9. Typed' /\ ConnsSound'
    BY <1>1, <1>4, <1>6, <1>7, <1>8 DEF Inv, Typed, ConnsSound, policy
<1>10. PollsSound'
    BY <1>1, <1>3, <1>4 DEF Inv, PollsSound, PollSound, Current, Wire
<1>11. ActiveIsExact'
  <2>1. \A u \in Links : BoundTo(Back(u))' <=> BoundTo(Back(u))
      BY <1>1 DEF BoundTo, Back
  <2>2. \A u \in Links : Polling(u)' <=> (u = t \/ Polling(u))
      BY <1>3, <1>4 DEF Polling
  <2>3. ~Polling(t) /\ ~BoundTo(Back(t))
      BY <1>1 DEF Inv, ActiveIsExact
  <2>4. \A u \in Links : u[1] \in Boards /\ u[2] \in Boards /\ (u[1] = t[1] /\ u[2] = t[2] => u = t)
      BY LinksAre
  <2>5. \A b, n \in Boards : n \in active'[b] => <<b, n>> \in Links
      BY <1>5, <1>7, LinksAre DEF Inv, ActiveIsExact
  <2>6. \A u \in Links : u[2] \in active'[u[1]] <=> u = t \/ u[2] \in active[u[1]]
      BY <1>7, <2>4
  <2>7. \A u \in Links : u[2] \in active'[u[1]] <=> Polling(u)' \/ BoundTo(Back(u))'
      BY <2>1, <2>2, <2>6 DEF Inv, ActiveIsExact
  <2>8. \A u \in Links : ~(Polling(u)' /\ BoundTo(Back(u))')
      BY <2>1, <2>2, <2>3 DEF Inv, ActiveIsExact
  <2> QED
      BY <1>1, <2>5, <2>7, <2>8 DEF Inv, ActiveIsExact
<1>12. ConnsCounted'
  <2>1. \A u \in Links : u # t => Started(u)' = Started(u) /\ (Polling(u)' <=> Polling(u))
                                   /\ Opened(u)' = Opened(u)
      BY <1>4, <1>8 DEF Started, Polling, Opened
  <2>2. Started(t)' = Started(t) + 1 /\ ~Polling(t) /\ Polling(t)' /\ Opened(t)' = 0
      BY <1>1, <1>3, <1>4, <1>8 DEF Started, Polling, Opened, Inv, Typed, LinkAssumption
  <2>3. \A u \in Links : Current(u)' = Current(u)
      BY <1>1 DEF Current
  <2>4. ASSUME NEW u \in Links, u # t
        PROVE  IF Polling(u)'
               THEN Started(u)' > 0 /\ Current(u)' <= (Started(u)' - 1) * Tries + Opened(u)'
               ELSE Current(u)' <= Started(u)' * Tries
      BY <2>1, <2>3, <2>4 DEF Inv, ConnsCounted
  <2>5. Started(t)' > 0 /\ Current(t)' <= (Started(t)' - 1) * Tries + Opened(t)'
    <3>1. Current(t) <= Started(t) * Tries
        BY <2>2 DEF Inv, ConnsCounted
    <3>2. Started(t)' - 1 = Started(t) /\ Started(t)' > 0
      <4>1. Started(t) \in Nat
          BY CountsAre
      <4> QED
          BY <2>2, <4>1
    <3> QED
        BY <2>2, <2>3, <3>1, <3>2, CountsAre
  <2> QED
      BY <2>2, <2>4, <2>5 DEF ConnsCounted
<1>13. ReadIsFresh'
    BY <1>1, <1>3, <1>4 DEF Inv, ReadIsFresh
<1> QED
    BY <1>6, <1>9, <1>10, <1>11, <1>12, <1>13 DEF Inv

\* The worker of a poll ends, and gives its permit back with the neighbor.
LEMMA PollEnds ==
    ASSUME LinkAssumption, Inv, NEW t \in Links, NEW p \in Poll, Polling(t), p.pc = "idle",
           poll' = [poll EXCEPT ![t] = p], Release(t[1], t[2], TRUE),
           UNCHANGED <<conn, policy, counters>>
    PROVE  /\ poll' \in [Links -> Poll] /\ poll'[t] = p
           /\ \A u \in Links : u # t => poll'[u] = poll[u]
           /\ count' \in [Boards -> Nat] /\ active' \in [Boards -> SUBSET Boards]
           /\ ConnsSound' /\ PollsSound' /\ ActiveIsExact' /\ PermitsCounted' /\ ConnsCounted'
<1>1. /\ count' = [count EXCEPT ![t[1]] = @ - 1]
      /\ active' = [active EXCEPT ![t[1]] = active[t[1]] \ {t[2]}]
    BY DEF Release, Forgets
<1>2. /\ poll' \in [Links -> Poll] /\ poll'[t] = p
      /\ \A u \in Links : u # t => poll'[u] = poll[u]
      /\ OthersKeep(t[1]) /\ WorkerPermits(t[1])' = WorkerPermits(t[1])
      /\ PollPermits(t[1])' = PollPermits(t[1]) \ {t}
    BY PollPermitsMove
<1>3. t \in PollPermits(t[1]) /\ t[1] \in Boards /\ t[2] \in Boards
    BY LinksAre DEF PollPermits
<1>4. PermitsCounted' /\ count' \in [Boards -> Nat]
    BY <1>1, <1>2, <1>3, PermitGiven
<1>5. /\ active' \in [Boards -> SUBSET Boards] /\ active'[t[1]] = active[t[1]] \ {t[2]}
      /\ \A b \in Boards : b # t[1] => active'[b] = active[b]
    BY <1>1, <1>3 DEF Inv, Typed
<1>6. ConnsSound'
    BY DEF Inv, ConnsSound
<1>7. PollsSound'
    BY <1>2 DEF Inv, PollsSound, PollSound, Current, Wire
<1>8. ActiveIsExact'
  <2>1. \A u \in Links : BoundTo(Back(u))' <=> BoundTo(Back(u))
      BY DEF BoundTo, Back
  <2>2. \A u \in Links : Polling(u)' <=> (u # t /\ Polling(u))
      BY <1>2 DEF Polling
  <2>3. ~BoundTo(Back(t))
      BY DEF Inv, ActiveIsExact
  <2>4. \A u \in Links : u[1] \in Boards /\ u[2] \in Boards /\ (u[1] = t[1] /\ u[2] = t[2] => u = t)
      BY LinksAre
  <2>5. \A b, n \in Boards : n \in active'[b] => <<b, n>> \in Links
      BY <1>3, <1>5 DEF Inv, ActiveIsExact
  <2>6. \A u \in Links : u[2] \in active'[u[1]] <=> u # t /\ u[2] \in active[u[1]]
      BY <1>5, <2>4
  <2>7. \A u \in Links : u[2] \in active'[u[1]] <=> Polling(u)' \/ BoundTo(Back(u))'
      BY <2>1, <2>2, <2>3, <2>6 DEF Inv, ActiveIsExact
  <2>8. \A u \in Links : ~(Polling(u)' /\ BoundTo(Back(u))')
      BY <2>1, <2>2 DEF Inv, ActiveIsExact
  <2> QED
      BY <2>5, <2>7, <2>8 DEF Inv, ActiveIsExact
<1>9. ConnsCounted'
  <2>1. \A u \in Links : u # t => (Polling(u)' <=> Polling(u)) /\ Opened(u)' = Opened(u)
      BY <1>2 DEF Polling, Opened
  <2>2. \A u \in Links : Current(u)' = Current(u) /\ Started(u)' = Started(u)
      BY DEF Current, Started, counters
  <2>3. ASSUME NEW u \in Links, u # t
        PROVE  IF Polling(u)'
               THEN Started(u)' > 0 /\ Current(u)' <= (Started(u)' - 1) * Tries + Opened(u)'
               ELSE Current(u)' <= Started(u)' * Tries
      BY <2>1, <2>2, <2>3 DEF Inv, ConnsCounted
  <2>4. ~Polling(t)' /\ Current(t)' <= Started(t)' * Tries
    <3>1. Started(t) > 0 /\ Current(t) <= (Started(t) - 1) * Tries + Opened(t)
        BY DEF Inv, ConnsCounted
    <3>2. Opened(t) \in Nat /\ Opened(t) <= Tries
        BY CountsAre DEF Opened, Polling
    <3>3. ~Polling(t)'
        BY <1>2 DEF Polling
    <3> QED
        BY <2>2, <3>1, <3>2, <3>3, CountsAre
  <2> QED
      BY <2>3, <2>4 DEF ConnsCounted
<1> QED
    BY <1>2, <1>4, <1>5, <1>6, <1>7, <1>8, <1>9

LEMMA GiveUpKeeps == ASSUME LinkAssumption, Inv, NEW t \in Links, GiveUp(t) PROVE Inv'
<1> DEFINE x == Refusal(t[1], t[2])
           p == [Quiet EXCEPT !.result = x]
<1>1. /\ poll[t].pc = "try" /\ poll' = [poll EXCEPT ![t] = p] /\ Release(t[1], t[2], TRUE)
      /\ UNCHANGED <<conn, policy, last, stamp, counters>>
    BY DEF GiveUp
<1>2. 0 \in 0..(Tries - 1) /\ x \in Result
    BY RefusalIs DEF LinkAssumption, Result
<1> HIDE DEF x
<1>3. p \in Poll /\ p.pc = "idle"
    BY <1>2 DEF Quiet, Poll
<1> HIDE DEF p
<1>4. Polling(t)
    BY <1>1 DEF Polling
<1>5. /\ poll' \in [Links -> Poll] /\ poll'[t] = p
      /\ \A u \in Links : u # t => poll'[u] = poll[u]
      /\ count' \in [Boards -> Nat] /\ active' \in [Boards -> SUBSET Boards]
      /\ ConnsSound' /\ PollsSound' /\ ActiveIsExact' /\ PermitsCounted' /\ ConnsCounted'
    BY <1>1, <1>3, <1>4, PollEnds
<1>6. Typed'
    BY <1>1, <1>5 DEF Inv, Typed, policy, counters
<1>7. ReadIsFresh'
    BY <1>1, <1>3, <1>5 DEF Inv, ReadIsFresh
<1> QED
    BY <1>5, <1>6, <1>7 DEF Inv

\* A success is a new stamp, and a failure writes back what the row still says.
LEMMA RecordedIs ==
    ASSUME Inv, NEW b \in Boards, NEW n \in Boards, NEW result, Recorded(b, n, result, last[b][n])
    PROVE  /\ last' \in [Boards -> [Boards -> Nat]] /\ stamp' \in Nat /\ stamp <= stamp'
           /\ last'[b][n] <= stamp' /\ last'[b][n] >= last[b][n]
           /\ \A c, m \in Boards : <<c, m>> # <<b, n>> => last'[c][m] = last[c][m]
<1>1. last \in [Boards -> [Boards -> Nat]] /\ stamp \in Nat /\ last[b][n] <= stamp
    BY DEF Inv, Typed, ReadIsFresh
<1> DEFINE v == IF result = "ok" THEN stamp + 1 ELSE last[b][n]
<1>2. v \in Nat /\ v >= last[b][n] /\ stamp' \in Nat /\ stamp <= stamp' /\ v <= stamp'
    BY <1>1 DEF Recorded
<1>3. last' = [last EXCEPT ![b][n] = v]
    BY DEF Recorded
<1> HIDE DEF v
<1>4. last' \in [Boards -> [Boards -> Nat]] /\ last'[b][n] = v
    BY <1>1, <1>2, <1>3
<1>5. \A c, m \in Boards : <<c, m>> # <<b, n>> => last'[c][m] = last[c][m]
    BY <1>1, <1>3
<1> QED
    BY <1>2, <1>4, <1>5

\* While a poll is recorded, nobody else is about to write its row.
LEMMA RecordReads ==
    ASSUME LinkAssumption, Inv, NEW t \in Links, Record(t)
    PROVE  /\ poll[t].pc = "record" /\ poll[t].seen = last[t[1]][t[2]]
           /\ t[1] \in Boards /\ t[2] \in Boards
           /\ Recorded(t[1], t[2], poll[t].result, last[t[1]][t[2]])
           /\ \A u \in Links : poll[u].pc = "record" /\ u # t => <<u[1], u[2]>> # <<t[1], t[2]>>
           /\ \A u \in Links : \A k \in DOMAIN conn[u] :
                 conn[u][k].r = "record" => <<u[2], u[1]>> # <<t[1], t[2]>>
<1>1. poll[t].pc = "record" /\ poll[t].seen = last[t[1]][t[2]]
      /\ Recorded(t[1], t[2], poll[t].result, poll[t].seen)
    BY DEF Record, Inv, ReadIsFresh
<1>2. \A u \in Links : u # t => <<u[1], u[2]>> # <<t[1], t[2]>>
    BY LinksAre
<1>3. ASSUME NEW u \in Links, NEW k \in DOMAIN conn[u], conn[u][k].r = "record"
      PROVE  <<u[2], u[1]>> # <<t[1], t[2]>>
  <2>1. SUFFICES ASSUME u[2] = t[1], u[1] = t[2] PROVE FALSE
      OBVIOUS
  <2>2. u = Back(t)
      BY <2>1, LinksAre DEF Back
  <2>3. BoundTo(Back(t))
      BY <1>3, <2>2 DEF BoundTo, Bound
  <2> QED
      BY <1>1, <2>3 DEF Inv, ActiveIsExact, Polling
<1> QED
    BY <1>1, <1>2, <1>3, LinksAre

LEMMA RecordKeeps == ASSUME LinkAssumption, Inv, NEW t \in Links, Record(t) PROVE Inv'
<1>1. /\ last' \in [Boards -> [Boards -> Nat]] /\ stamp' \in Nat /\ stamp <= stamp'
      /\ last'[t[1]][t[2]] <= stamp'
      /\ \A c, m \in Boards : <<c, m>> # <<t[1], t[2]>> => last'[c][m] = last[c][m]
    BY RecordReads, RecordedIs
<1>2. UNCHANGED <<conn, policy, counters>> /\ poll[t].pc = "record"
    BY RecordReads DEF Record
<1>3. ASSUME NEW p \in Poll, p.pc # "record", poll'[t] = p,
             \A u \in Links : u # t => poll'[u] = poll[u]
      PROVE  ReadIsFresh'
  <2>1. \A b, n \in Boards : last'[b][n] <= stamp'
    <3>1. \A b, n \in Boards : last[b][n] <= stamp /\ last[b][n] \in Nat /\ stamp \in Nat
        BY DEF Inv, ReadIsFresh, Typed
    <3>2. ASSUME NEW b \in Boards, NEW n \in Boards, <<b, n>> # <<t[1], t[2]>> PROVE last'[b][n] <= stamp'
        BY <1>1, <3>1, <3>2
    <3>3. ASSUME NEW b \in Boards, NEW n \in Boards, <<b, n>> = <<t[1], t[2]>> PROVE last'[b][n] <= stamp'
        BY <1>1, <3>3
    <3> QED
        BY <3>2, <3>3
  <2>2. \A u \in Links : poll'[u].pc = "record" => poll'[u].seen = last'[u[1]][u[2]]
    <3>1. ASSUME NEW u \in Links, poll'[u].pc = "record" PROVE poll'[u].seen = last'[u[1]][u[2]]
      <4>1. u # t /\ poll'[u] = poll[u]
          BY <1>3, <3>1
      <4>2. <<u[1], u[2]>> # <<t[1], t[2]>> /\ u[1] \in Boards /\ u[2] \in Boards
          BY <3>1, <4>1, RecordReads, LinksAre
      <4> QED
          BY <1>1, <3>1, <4>1, <4>2 DEF Inv, ReadIsFresh
    <3> QED
        BY <3>1
  <2>3. \A u \in Links : \A k \in DOMAIN conn'[u] :
            conn'[u][k].r = "record" => conn'[u][k].seen = last'[u[2]][u[1]]
    <3>1. ASSUME NEW u \in Links, NEW k \in DOMAIN conn[u], conn[u][k].r = "record"
          PROVE  conn[u][k].seen = last'[u[2]][u[1]]
      <4>1. <<u[2], u[1]>> # <<t[1], t[2]>> /\ u[1] \in Boards /\ u[2] \in Boards
          BY <3>1, RecordReads, LinksAre
      <4> QED
          BY <1>1, <3>1, <4>1 DEF Inv, ReadIsFresh
    <3> QED
        BY <1>2, <3>1
  <2> QED
      BY <2>1, <2>2, <2>3 DEF ReadIsFresh
<1>4. CASE Again(t)
  <2> DEFINE tries == (poll[t].try + 1) % Tries
             p == [poll[t] EXCEPT !.pc = "try", !.try = tries]
  <2>1. poll' = [poll EXCEPT ![t] = p] /\ UNCHANGED permits
      BY <1>4 DEF Record
  <2>2. poll[t].try + 1 < Tries /\ poll[t].try + 1 \in Nat /\ Tries \in Nat
      BY <1>4, CountsAre DEF Again
  <2>3. tries = poll[t].try + 1
      BY <2>2
  <2>4. tries \in 0..(Tries - 1)
      BY <2>2, <2>3
  <2> HIDE DEF tries
  <2>5. p \in Poll /\ p.pc = "try" /\ p.try = tries
      BY <2>4, PollAt DEF Poll
  <2> HIDE DEF p
  <2>6. /\ poll' \in [Links -> Poll] /\ poll'[t] = p
        /\ \A u \in Links : u # t => poll'[u] = poll[u]
      BY <2>1, <2>5 DEF Inv, Typed
  <2>7. Typed' /\ ConnsSound'
      BY <1>1, <1>2, <2>1, <2>6 DEF Inv, Typed, ConnsSound, permits, policy, counters
  <2>8. PollsSound'
      BY <1>2, <2>5, <2>6 DEF Inv, PollsSound, PollSound, Current, Wire
  <2>9. SamePermits
      BY <1>2, <2>1, <2>5, <2>6 DEF SamePermits, Polling
  <2>10. ActiveIsExact' /\ PermitsCounted'
      BY <2>7, <2>9, SamePermitsKeep DEF Typed
  <2>11. ConnsCounted'
    <3>1. Opened(t)' = Opened(t)
        BY <1>2, <2>3, <2>5, <2>6 DEF Opened
    <3>2. \A u \in Links : Opened(u)' = Opened(u)
        BY <2>6, <3>1 DEF Opened
    <3>3. \A u \in Links : Polling(u)' <=> Polling(u)
        BY <2>9 DEF SamePermits
    <3>4. \A u \in Links : Current(u)' = Current(u) /\ Started(u)' = Started(u)
        BY <1>2 DEF Current, Started, counters
    <3> QED
        BY <3>2, <3>3, <3>4 DEF Inv, ConnsCounted
  <2>12. ReadIsFresh'
      BY <1>3, <2>5, <2>6
  <2> QED
      BY <2>7, <2>8, <2>10, <2>11, <2>12 DEF Inv
<1>5. CASE ~Again(t)
  <2> DEFINE p == [poll[t] EXCEPT !.pc = "idle"]
  <2>1. poll' = [poll EXCEPT ![t] = p] /\ Release(t[1], t[2], TRUE)
      BY <1>5 DEF Record
  <2>2. p \in Poll /\ p.pc = "idle"
      BY PollAt DEF Poll
  <2> HIDE DEF p
  <2>3. Polling(t)
      BY <1>2 DEF Polling
  <2>4. /\ poll' \in [Links -> Poll] /\ poll'[t] = p
        /\ \A u \in Links : u # t => poll'[u] = poll[u]
        /\ count' \in [Boards -> Nat] /\ active' \in [Boards -> SUBSET Boards]
        /\ ConnsSound' /\ PollsSound' /\ ActiveIsExact' /\ PermitsCounted' /\ ConnsCounted'
      BY <1>2, <2>1, <2>2, <2>3, PollEnds
  <2>5. Typed'
      BY <1>1, <1>2, <2>4 DEF Inv, Typed, policy, counters
  <2>6. ReadIsFresh'
      BY <1>3, <2>2, <2>4
  <2> QED
      BY <2>4, <2>5, <2>6 DEF Inv
<1> QED
    BY <1>4, <1>5

-----------------------------------------------------------------------------
(***************************************************************************)
(* Inbound workers are admitted, bound to their neighbor, and end.         *)
(***************************************************************************)
\* A worker writes its connection, whose frames stay what they were.
LEMMA WorkerMoves ==
    ASSUME LinkAssumption, Inv, NEW t \in Links, NEW k \in DOMAIN conn[t], NEW c \in Conn,
           Sound(c), c.frame = conn[t][k].frame, conn' = [conn EXCEPT ![t][k] = c],
           poll' = poll, UNCHANGED counters
    PROVE  /\ conn' \in [Links -> Seq(Conn)] /\ conn'[t][k] = c
           /\ \A u \in Links : DOMAIN conn'[u] = DOMAIN conn[u]
           /\ \A u \in Links : \A l \in DOMAIN conn[u] : <<u, l>> # <<t, k>> => conn'[u][l] = conn[u][l]
           /\ ConnsSound' /\ PollsSound' /\ ConnsCounted'
<1>1. /\ conn' \in [Links -> Seq(Conn)] /\ conn'[t][k] = c
      /\ \A u \in Links : DOMAIN conn'[u] = DOMAIN conn[u] /\ Len(conn'[u]) = Len(conn[u])
      /\ \A u \in Links : \A l \in DOMAIN conn[u] : <<u, l>> # <<t, k>> => conn'[u][l] = conn[u][l]
    BY PutIs DEF Inv
<1>2. ConnsSound'
    BY <1>1 DEF Inv, ConnsSound
<1>3. \A u \in Links : Current(u)' = Current(u)
    BY <1>1 DEF Current
<1>4. PollsSound'
  <2>1. ASSUME NEW u \in Links, Current(u) > 0 PROVE Wire(u)'.frame = Wire(u).frame
    <3>1. Current(u) \in DOMAIN conn[u]
        BY <2>1 DEF Inv, Typed, Current
    <3>2. CASE <<u, Current(u)>> = <<t, k>>
        BY <1>1, <1>3, <3>1, <3>2 DEF Wire
    <3>3. CASE <<u, Current(u)>> # <<t, k>>
        BY <1>1, <1>3, <3>1, <3>3 DEF Wire
    <3> QED
        BY <3>2, <3>3
  <2> QED
      BY <1>3, <2>1 DEF Inv, PollsSound, PollSound
<1>5. ConnsCounted'
  <2>1. \A u \in Links : Started(u)' = Started(u) /\ (Polling(u)' <=> Polling(u)) /\ Opened(u)' = Opened(u)
      BY DEF Started, Polling, Opened, counters
  <2> QED
      BY <1>3, <2>1 DEF Inv, ConnsCounted
<1> QED
    BY <1>1, <1>2, <1>4, <1>5

\* Its permit is one of the board it runs on.
LEMMA WorkerPermitsMove ==
    ASSUME LinkAssumption, Inv, NEW t \in Links, NEW k \in DOMAIN conn[t], k \in Keys, NEW c,
           conn'[t][k] = c, poll' = poll,
           \A u \in Links : DOMAIN conn'[u] = DOMAIN conn[u],
           \A u \in Links : \A l \in DOMAIN conn[u] : <<u, l>> # <<t, k>> => conn'[u][l] = conn[u][l]
    PROVE  /\ OthersKeep(t[2]) /\ PollPermits(t[2])' = PollPermits(t[2])
           /\ Live(c) => WorkerPermits(t[2])' = WorkerPermits(t[2]) \cup {<<t, k>>}
           /\ ~Live(c) => WorkerPermits(t[2])' = WorkerPermits(t[2]) \ {<<t, k>>}
           /\ <<t, k>> \in WorkerPermits(t[2]) <=> Live(conn[t][k])
<1>1. \A b : PollPermits(b)' = PollPermits(b)
    BY DEF PollPermits, Polling
<1>2. \A x \in Links \X Keys : x # <<t, k>> /\ x[2] \in DOMAIN conn[x[1]] => conn'[x[1]][x[2]] = conn[x[1]][x[2]]
  <2>1. \A x \in Links \X Keys : x = <<x[1], x[2]>> /\ x[1] \in Links
      OBVIOUS
  <2> QED
      BY <2>1
<1>3. \A d \in Boards \ {t[2]} : WorkerPermits(d)' = WorkerPermits(d)
    BY <1>2 DEF WorkerPermits
<1>4. <<t, k>> \in WorkerPermits(t[2]) <=> Live(conn[t][k])
    BY DEF WorkerPermits
<1>5. Live(c) => WorkerPermits(t[2])' = WorkerPermits(t[2]) \cup {<<t, k>>}
    BY <1>2 DEF WorkerPermits
<1>6. ~Live(c) => WorkerPermits(t[2])' = WorkerPermits(t[2]) \ {<<t, k>>}
    BY <1>2 DEF WorkerPermits
<1> QED
    BY <1>1, <1>3, <1>4, <1>5, <1>6 DEF OthersKeep

\* Without a bound connection more or less, and with the same neighbors active.
LEMMA SameSessionsKeep ==
    ASSUME LinkAssumption, Inv, NEW t \in Links, NEW k \in DOMAIN conn[t], NEW c,
           conn'[t][k] = c, poll' = poll, Bound(c) <=> Bound(conn[t][k]),
           \A u \in Links : DOMAIN conn'[u] = DOMAIN conn[u],
           \A u \in Links : \A l \in DOMAIN conn[u] : <<u, l>> # <<t, k>> => conn'[u][l] = conn[u][l],
           \A b \in Boards : active'[b] = active[b]
    PROVE  ActiveIsExact'
<1>1. \A u \in Links : \A l \in DOMAIN conn[u] : Bound(conn'[u][l]) <=> Bound(conn[u][l])
  <2>1. ASSUME NEW u \in Links, NEW l \in DOMAIN conn[u] PROVE Bound(conn'[u][l]) <=> Bound(conn[u][l])
    <3>1. CASE <<u, l>> = <<t, k>>
        BY <3>1
    <3>2. CASE <<u, l>> # <<t, k>>
        BY <3>2
    <3> QED
        BY <3>1, <3>2
  <2> QED
      BY <2>1
<1>2. \A u \in Links : BoundTo(u)' <=> BoundTo(u)
    BY <1>1 DEF BoundTo
<1>3. \A u \in Links : BoundTo(Back(u))' <=> BoundTo(Back(u))
    BY <1>2, LinksAre DEF Back
<1>4. \A u \in Links : u[1] \in Boards /\ (Polling(u)' <=> Polling(u))
    BY LinksAre DEF Polling
<1> QED
    BY <1>1, <1>3, <1>4 DEF Inv, ActiveIsExact

LEMMA AcceptKeeps ==
    ASSUME LinkAssumption, Inv, NEW t \in Links, NEW k \in Keys, k \in DOMAIN conn[t], Accept(t, k)
    PROVE  Inv'
<1> DEFINE o == conn[t][k]
<1>1. o \in Conn /\ Sound(o) /\ o = conn[t][k] /\ t[2] \in Boards
    BY ConnAt, LinksAre
<1>2. o.r = "syn" /\ UNCHANGED <<active, poll, policy, last, stamp, counters>>
    BY DEF Accept
<1>3. CASE Room(t[2]) /\ t[2] \notin stopping
  <2> DEFINE c == [o EXCEPT !.r = "tls"]
  <2>1. conn' = [conn EXCEPT ![t][k] = c] /\ Take(t[2])
      BY <1>3 DEF Accept, Put
  <2> HIDE DEF o
  <2>2. /\ c \in Conn /\ c.frame = o.frame /\ c.offered = o.offered /\ c.moved = o.moved
        /\ c.acked = o.acked /\ c.r = "tls" /\ c.result = o.result
      BY <1>1 DEF Conn
  <2> HIDE DEF c
  <2>3. Sound(c) /\ Live(c) /\ ~Live(o) /\ (Bound(c) <=> Bound(o))
      BY <1>1, <1>2, <2>2 DEF Sound, Live, Bound
  <2>4. /\ conn' \in [Links -> Seq(Conn)] /\ conn'[t][k] = c
        /\ \A u \in Links : DOMAIN conn'[u] = DOMAIN conn[u]
        /\ \A u \in Links : \A l \in DOMAIN conn[u] : <<u, l>> # <<t, k>> => conn'[u][l] = conn[u][l]
        /\ ConnsSound' /\ PollsSound' /\ ConnsCounted'
      BY <1>1, <1>2, <2>1, <2>2, <2>3, WorkerMoves
  <2>5. /\ OthersKeep(t[2]) /\ PollPermits(t[2])' = PollPermits(t[2])
        /\ WorkerPermits(t[2])' = WorkerPermits(t[2]) \cup {<<t, k>>}
        /\ <<t, k>> \notin WorkerPermits(t[2])
      BY <1>1, <1>2, <2>3, <2>4, WorkerPermitsMove
  <2>6. PermitsCounted' /\ count' \in [Boards -> Nat]
      BY <1>1, <1>3, <2>1, <2>5, PermitTaken
  <2>7. ActiveIsExact'
      BY <1>1, <1>2, <2>3, <2>4, SameSessionsKeep
  <2>8. Typed'
      BY <1>2, <2>4, <2>6 DEF Inv, Typed, policy, counters
  <2>9. ReadIsFresh'
      BY <1>2, <2>2, <2>4 DEF Inv, ReadIsFresh
  <2> QED
      BY <2>4, <2>6, <2>7, <2>8, <2>9 DEF Inv
<1>4. CASE ~(Room(t[2]) /\ t[2] \notin stopping)
  <2> DEFINE c == [o EXCEPT !.r = "gone", !.said = "eof"]
  <2>1. conn' = [conn EXCEPT ![t][k] = c] /\ count' = count
      BY <1>4 DEF Accept, Put
  <2> HIDE DEF o
  <2>2. c \in Conn
      BY <1>1 DEF Conn, Word, Said
  <2>3. /\ c.frame = o.frame /\ c.offered = o.offered /\ c.moved = o.moved
        /\ c.acked = o.acked /\ c.r = "gone" /\ c.result = o.result
      BY <1>1 DEF Conn
  <2> HIDE DEF c
  <2>4. /\ SteadyConn(o, c, last[t[2]][t[1]])
        /\ (o.frame = 0 => c.frame = 0) /\ (o.frame = 8 => c.frame = 8)
      BY <1>1, <1>2, <2>2, <2>3 DEF SteadyConn, Sound, Live, Bound
  <2>5. UNCHANGED <<permits, policy, last, stamp, polls, holds>> /\ faults' \in Nat /\ poll' = poll
      BY <1>2, <2>1 DEF permits, counters, Inv, Typed
  <2> QED
      BY <1>1, <2>1, <2>4, <2>5, WriteKeeps
<1> QED
    BY <1>3, <1>4

\* A worker bound to a neighbor without a session makes it the one that is active.
LEMMA WorkerBinds ==
    ASSUME LinkAssumption, Inv, NEW t \in Links, NEW k \in DOMAIN conn[t], NEW c,
           conn'[t][k] = c, poll' = poll, Bound(c), t[1] \notin active[t[2]],
           \A u \in Links : DOMAIN conn'[u] = DOMAIN conn[u],
           \A u \in Links : \A l \in DOMAIN conn[u] : <<u, l>> # <<t, k>> => conn'[u][l] = conn[u][l],
           active' = [active EXCEPT ![t[2]] = @ \cup {t[1]}]
    PROVE  ActiveIsExact' /\ active' \in [Boards -> SUBSET Boards]
<1>1. /\ t[1] \in Boards /\ t[2] \in Boards /\ Back(t) \in Links /\ Back(Back(t)) = t
      /\ Back(t)[1] = t[2] /\ Back(t)[2] = t[1] /\ Back(t) = <<t[2], t[1]>>
    BY LinksAre DEF Back
<1>2. /\ active' \in [Boards -> SUBSET Boards] /\ active'[t[2]] = active[t[2]] \cup {t[1]}
      /\ \A b \in Boards : b # t[2] => active'[b] = active[b]
    BY <1>1 DEF Inv, Typed
<1>3. ~Polling(Back(t)) /\ ~BoundTo(t)
    BY <1>1 DEF Inv, ActiveIsExact
<1>4. BoundTo(t)' /\ \A l \in DOMAIN conn'[t] : Bound(conn'[t][l]) => l = k
    BY <1>3 DEF BoundTo
<1>5. \A u \in Links : u # t => (BoundTo(u)' <=> BoundTo(u))
  <2>1. \A u \in Links : u # t => \A l \in DOMAIN conn[u] : conn'[u][l] = conn[u][l]
      OBVIOUS
  <2> QED
      BY <2>1 DEF BoundTo
<1>6. \A u \in Links : Back(u) \in Links /\ (Back(u) = t <=> u = Back(t))
    BY <1>1, LinksAre
<1>7. \A u \in Links : BoundTo(Back(u))' <=> u = Back(t) \/ BoundTo(Back(u))
  <2>1. ASSUME NEW u \in Links, u = Back(t) PROVE BoundTo(Back(u))'
      BY <1>1, <1>4, <2>1 DEF Back
  <2>2. ASSUME NEW u \in Links, u # Back(t) PROVE BoundTo(Back(u))' <=> BoundTo(Back(u))
    <3>1. Back(u) \in Links /\ Back(u) # t
        BY <1>6, <2>2
    <3> QED
        BY <1>5, <3>1 DEF Back
  <2> QED
      BY <2>1, <2>2
<1>8. \A u \in Links : u[1] \in Boards /\ u[2] \in Boards /\ (u[1] = t[2] /\ u[2] = t[1] => u = Back(t))
    BY <1>1, LinksAre
<1>9. \A u \in Links : u[2] \in active'[u[1]] <=> u = Back(t) \/ u[2] \in active[u[1]]
    BY <1>1, <1>2, <1>8
<1>10. \A b, n \in Boards : n \in active'[b] => <<b, n>> \in Links
    BY <1>1, <1>2 DEF Inv, ActiveIsExact
<1>11. \A u \in Links : Polling(u)' <=> Polling(u)
    BY DEF Polling
<1>12. \A u \in Links : u[2] \in active'[u[1]] <=> Polling(u)' \/ BoundTo(Back(u))'
    BY <1>7, <1>9, <1>11 DEF Inv, ActiveIsExact
<1>13. \A u \in Links : ~(Polling(u)' /\ BoundTo(Back(u))')
    BY <1>3, <1>7, <1>11 DEF Inv, ActiveIsExact
<1>14. \A u \in Links : \A l, m \in DOMAIN conn'[u] : Bound(conn'[u][l]) /\ Bound(conn'[u][m]) => l = m
  <2>1. ASSUME NEW u \in Links, u # t
        PROVE  \A l, m \in DOMAIN conn'[u] : Bound(conn'[u][l]) /\ Bound(conn'[u][m]) => l = m
      BY <2>1 DEF Inv, ActiveIsExact
  <2> QED
      BY <1>4, <2>1
<1> QED
    BY <1>2, <1>10, <1>12, <1>13, <1>14 DEF ActiveIsExact

\* When the worker of a session ends, the neighbor is active no more.
LEMMA WorkerUnbinds ==
    ASSUME LinkAssumption, Inv, NEW t \in Links, NEW k \in DOMAIN conn[t], NEW c,
           conn'[t][k] = c, poll' = poll, ~Bound(c), Bound(conn[t][k]),
           \A u \in Links : DOMAIN conn'[u] = DOMAIN conn[u],
           \A u \in Links : \A l \in DOMAIN conn[u] : <<u, l>> # <<t, k>> => conn'[u][l] = conn[u][l],
           active' = [active EXCEPT ![t[2]] = active[t[2]] \ {t[1]}]
    PROVE  ActiveIsExact' /\ active' \in [Boards -> SUBSET Boards]
<1>1. /\ t[1] \in Boards /\ t[2] \in Boards /\ Back(t) \in Links /\ Back(Back(t)) = t
      /\ Back(t)[1] = t[2] /\ Back(t)[2] = t[1] /\ Back(t) = <<t[2], t[1]>>
    BY LinksAre DEF Back
<1>2. /\ active' \in [Boards -> SUBSET Boards] /\ active'[t[2]] = active[t[2]] \ {t[1]}
      /\ \A b \in Boards : b # t[2] => active'[b] = active[b]
    BY <1>1 DEF Inv, Typed
<1>3. BoundTo(t) /\ \A l \in DOMAIN conn[t] : Bound(conn[t][l]) => l = k
    BY DEF Inv, ActiveIsExact, BoundTo
<1>4. ~Polling(Back(t))
    BY <1>1, <1>3 DEF Inv, ActiveIsExact
<1>5. ~BoundTo(t)' /\ \A l \in DOMAIN conn'[t] : ~Bound(conn'[t][l])
  <2>1. \A l \in DOMAIN conn'[t] : ~Bound(conn'[t][l])
      BY <1>3
  <2> QED
      BY <2>1 DEF BoundTo
<1>6. \A u \in Links : u # t => (BoundTo(u)' <=> BoundTo(u))
  <2>1. \A u \in Links : u # t => \A l \in DOMAIN conn[u] : conn'[u][l] = conn[u][l]
      OBVIOUS
  <2> QED
      BY <2>1 DEF BoundTo
<1>7. \A u \in Links : Back(u) \in Links /\ (Back(u) = t <=> u = Back(t))
    BY <1>1, LinksAre
<1>8. \A u \in Links : BoundTo(Back(u))' <=> u # Back(t) /\ BoundTo(Back(u))
  <2>1. ASSUME NEW u \in Links, u = Back(t) PROVE ~BoundTo(Back(u))'
      BY <1>1, <1>5, <2>1 DEF Back
  <2>2. ASSUME NEW u \in Links, u # Back(t) PROVE BoundTo(Back(u))' <=> BoundTo(Back(u))
    <3>1. Back(u) \in Links /\ Back(u) # t
        BY <1>7, <2>2
    <3> QED
        BY <1>6, <3>1 DEF Back
  <2> QED
      BY <2>1, <2>2
<1>9. \A u \in Links : u[1] \in Boards /\ u[2] \in Boards /\ (u[1] = t[2] /\ u[2] = t[1] => u = Back(t))
    BY <1>1, LinksAre
<1>10. \A u \in Links : u[2] \in active'[u[1]] <=> u # Back(t) /\ u[2] \in active[u[1]]
    BY <1>1, <1>2, <1>9
<1>11. \A b, n \in Boards : n \in active'[b] => <<b, n>> \in Links
    BY <1>1, <1>2 DEF Inv, ActiveIsExact
<1>12. \A u \in Links : Polling(u)' <=> Polling(u)
    BY DEF Polling
<1>13. \A u \in Links : u[2] \in active'[u[1]] <=> Polling(u)' \/ BoundTo(Back(u))'
    BY <1>4, <1>8, <1>10, <1>12 DEF Inv, ActiveIsExact
<1>14. \A u \in Links : ~(Polling(u)' /\ BoundTo(Back(u))')
    BY <1>8, <1>12 DEF Inv, ActiveIsExact
<1>15. \A u \in Links : \A l, m \in DOMAIN conn'[u] : Bound(conn'[u][l]) /\ Bound(conn'[u][m]) => l = m
  <2>1. ASSUME NEW u \in Links, u # t
        PROVE  \A l, m \in DOMAIN conn'[u] : Bound(conn'[u][l]) /\ Bound(conn'[u][m]) => l = m
      BY <2>1 DEF Inv, ActiveIsExact
  <2> QED
      BY <1>5, <2>1
<1> QED
    BY <1>2, <1>11, <1>13, <1>14, <1>15 DEF ActiveIsExact

LEMMA IdentifyKeeps ==
    ASSUME LinkAssumption, Inv, NEW t \in Links, NEW k \in Keys, k \in DOMAIN conn[t], Identify(t, k)
    PROVE  Inv'
<1> DEFINE o == conn[t][k]
<1>1. /\ o \in Conn /\ Sound(o) /\ o = conn[t][k] /\ t[1] \in Boards /\ t[2] \in Boards
    BY ConnAt, LinksAre
<1>2. o.r = "tls" /\ UNCHANGED <<poll, policy, last, stamp, counters>>
    BY DEF Identify
<1>3. CASE o.i = "open" /\ t[1] \notin held[t[2]] /\ t[1] \notin active[t[2]]
  <2> DEFINE c == [o EXCEPT !.r = "work"]
  <2>1. /\ conn' = [conn EXCEPT ![t][k] = c] /\ count' = count
        /\ active' = [active EXCEPT ![t[2]] = @ \cup {t[1]}]
      BY <1>3 DEF Identify, Put, Bind
  <2>2. t[1] \notin active[t[2]]
      BY <1>3
  <2> HIDE DEF o
  <2>3. /\ c \in Conn /\ c.frame = o.frame /\ c.offered = o.offered /\ c.moved = o.moved
        /\ c.acked = o.acked /\ c.r = "work" /\ c.result = o.result
      BY <1>1 DEF Conn
  <2> HIDE DEF c
  <2>4. Sound(c) /\ Live(c) /\ Live(o) /\ Bound(c)
      BY <1>1, <1>2, <2>3 DEF Sound, Live, Bound
  <2>5. /\ conn' \in [Links -> Seq(Conn)] /\ conn'[t][k] = c
        /\ \A u \in Links : DOMAIN conn'[u] = DOMAIN conn[u]
        /\ \A u \in Links : \A l \in DOMAIN conn[u] : <<u, l>> # <<t, k>> => conn'[u][l] = conn[u][l]
        /\ ConnsSound' /\ PollsSound' /\ ConnsCounted'
      BY <1>1, <1>2, <2>1, <2>3, <2>4, WorkerMoves
  <2>6. /\ OthersKeep(t[2]) /\ PollPermits(t[2])' = PollPermits(t[2])
        /\ WorkerPermits(t[2])' = WorkerPermits(t[2]) \cup {<<t, k>>}
        /\ <<t, k>> \in WorkerPermits(t[2])
      BY <1>1, <1>2, <2>4, <2>5, WorkerPermitsMove
  <2>7. PermitsCounted'
    <3>1. \A d \in Boards : PollPermits(d)' = PollPermits(d) /\ WorkerPermits(d)' = WorkerPermits(d)
        BY <2>6 DEF OthersKeep
    <3> QED
        BY <2>1, <3>1 DEF Inv, PermitsCounted
  <2>8. ActiveIsExact' /\ active' \in [Boards -> SUBSET Boards]
    <3>1. poll' = poll /\ active' = [active EXCEPT ![t[2]] = @ \cup {t[1]}] /\ Bound(c)
        BY <1>2, <2>1, <2>4
    <3> QED
        BY <2>2, <2>5, <3>1, WorkerBinds
  <2>9. Typed'
      BY <1>2, <2>1, <2>5, <2>8 DEF Inv, Typed, policy, counters
  <2>10. ReadIsFresh'
      BY <1>2, <2>3, <2>5 DEF Inv, ReadIsFresh
  <2> QED
      BY <2>5, <2>7, <2>8, <2>9, <2>10 DEF Inv
<1>4. CASE ~(o.i = "open" /\ t[1] \notin held[t[2]] /\ t[1] \notin active[t[2]])
  <2> DEFINE c == [o EXCEPT !.r = "gone", !.said = "eof"]
  <2>1. /\ conn' = [conn EXCEPT ![t][k] = c] /\ count' = [count EXCEPT ![t[2]] = @ - 1]
        /\ active' = [active EXCEPT ![t[2]] = active[t[2]]]
      BY <1>4 DEF Identify, Put, Release, Forgets
  <2> HIDE DEF o
  <2>2. c \in Conn
      BY <1>1 DEF Conn, Word, Said
  <2>3. /\ c.frame = o.frame /\ c.offered = o.offered /\ c.moved = o.moved
        /\ c.acked = o.acked /\ c.r = "gone" /\ c.result = o.result
      BY <1>1 DEF Conn
  <2> HIDE DEF c
  <2>4. Sound(c) /\ ~Live(c) /\ Live(o) /\ ~Bound(c) /\ ~Bound(o)
      BY <1>1, <1>2, <2>3 DEF Sound, Live, Bound
  <2>5. /\ conn' \in [Links -> Seq(Conn)] /\ conn'[t][k] = c
        /\ \A u \in Links : DOMAIN conn'[u] = DOMAIN conn[u]
        /\ \A u \in Links : \A l \in DOMAIN conn[u] : <<u, l>> # <<t, k>> => conn'[u][l] = conn[u][l]
        /\ ConnsSound' /\ PollsSound' /\ ConnsCounted'
      BY <1>1, <1>2, <2>1, <2>2, <2>3, <2>4, WorkerMoves
  <2>6. /\ OthersKeep(t[2]) /\ PollPermits(t[2])' = PollPermits(t[2])
        /\ WorkerPermits(t[2])' = WorkerPermits(t[2]) \ {<<t, k>>}
        /\ <<t, k>> \in WorkerPermits(t[2])
      BY <1>1, <1>2, <2>4, <2>5, WorkerPermitsMove
  <2>7. PermitsCounted' /\ count' \in [Boards -> Nat]
      BY <1>1, <2>1, <2>6, PermitGiven
  <2>8. active' = active
      BY <1>1, <2>1 DEF Inv, Typed
  <2>9. ActiveIsExact'
      BY <1>1, <1>2, <2>4, <2>5, <2>8, SameSessionsKeep
  <2>10. Typed'
      BY <1>2, <2>5, <2>7, <2>8 DEF Inv, Typed, policy, counters
  <2>11. ReadIsFresh'
      BY <1>2, <2>3, <2>5 DEF Inv, ReadIsFresh
  <2> QED
      BY <2>5, <2>7, <2>9, <2>10, <2>11 DEF Inv
<1> QED
    BY <1>3, <1>4

\* While a worker is recorded, nobody else is about to write its row.
LEMMA ServerRecordReads ==
    ASSUME LinkAssumption, Inv, NEW t \in Links, NEW k \in DOMAIN conn[t], ServerRecord(t, k)
    PROVE  /\ conn[t][k].r = "record" /\ t[1] \in Boards /\ t[2] \in Boards
           /\ Recorded(t[2], t[1], conn[t][k].result, last[t[2]][t[1]])
           /\ \A u \in Links : poll[u].pc = "record" => <<u[1], u[2]>> # <<t[2], t[1]>>
           /\ \A u \in Links : \A l \in DOMAIN conn[u] :
                 conn[u][l].r = "record" /\ <<u, l>> # <<t, k>> => <<u[2], u[1]>> # <<t[2], t[1]>>
<1>1. conn[t][k].r = "record" /\ conn[t][k].seen = last[t[2]][t[1]]
      /\ Recorded(t[2], t[1], conn[t][k].result, conn[t][k].seen)
    BY DEF ServerRecord, Inv, ReadIsFresh
<1>2. BoundTo(t) /\ Bound(conn[t][k])
    BY <1>1 DEF BoundTo, Bound
<1>3. ASSUME NEW u \in Links, poll[u].pc = "record" PROVE <<u[1], u[2]>> # <<t[2], t[1]>>
  <2>1. SUFFICES ASSUME u[1] = t[2], u[2] = t[1] PROVE FALSE
      OBVIOUS
  <2>2. Back(u) = t
      BY <2>1, LinksAre DEF Back
  <2> QED
      BY <1>2, <1>3, <2>2 DEF Inv, ActiveIsExact, Polling
<1>4. ASSUME NEW u \in Links, NEW l \in DOMAIN conn[u], conn[u][l].r = "record", <<u, l>> # <<t, k>>
      PROVE  <<u[2], u[1]>> # <<t[2], t[1]>>
  <2>1. SUFFICES ASSUME u[1] = t[1], u[2] = t[2] PROVE FALSE
      OBVIOUS
  <2>2. u = t
      BY <2>1, LinksAre
  <2>3. Bound(conn[t][l]) /\ l # k /\ l \in DOMAIN conn[t]
      BY <1>4, <2>2 DEF Bound
  <2> QED
      BY <1>2, <2>3 DEF Inv, ActiveIsExact
<1> QED
    BY <1>1, <1>3, <1>4, LinksAre

LEMMA ServerRecordKeeps ==
    ASSUME LinkAssumption, Inv, NEW t \in Links, NEW k \in Keys, k \in DOMAIN conn[t], ServerRecord(t, k)
    PROVE  Inv'
<1> DEFINE o == conn[t][k]
           c == [o EXCEPT !.r = "gone"]
<1>1. /\ o \in Conn /\ Sound(o) /\ o = conn[t][k] /\ t[1] \in Boards /\ t[2] \in Boards
    BY ConnAt, LinksAre
<1>2. o.r = "record" /\ UNCHANGED <<poll, policy, counters>>
    BY DEF ServerRecord
<1>3. /\ last' \in [Boards -> [Boards -> Nat]] /\ stamp' \in Nat /\ stamp <= stamp'
      /\ last'[t[2]][t[1]] <= stamp'
      /\ \A d, m \in Boards : <<d, m>> # <<t[2], t[1]>> => last'[d][m] = last[d][m]
  <2>1. Recorded(t[2], t[1], conn[t][k].result, last[t[2]][t[1]])
      BY ServerRecordReads
  <2> QED
      BY <1>1, <2>1, RecordedIs
<1>4. /\ conn' = [conn EXCEPT ![t][k] = c] /\ count' = [count EXCEPT ![t[2]] = @ - 1]
      /\ active' = [active EXCEPT ![t[2]] = active[t[2]] \ {t[1]}]
    BY DEF ServerRecord, Put, Release, Forgets
<1> HIDE DEF o
<1>5. /\ c \in Conn /\ c.frame = o.frame /\ c.offered = o.offered /\ c.moved = o.moved
      /\ c.acked = o.acked /\ c.r = "gone" /\ c.result = o.result
    BY <1>1 DEF Conn
<1> HIDE DEF c
<1>6. Sound(c) /\ ~Live(c) /\ Live(o) /\ ~Bound(c) /\ Bound(o)
    BY <1>1, <1>2, <1>5 DEF Sound, Live, Bound
<1>7. /\ conn' \in [Links -> Seq(Conn)] /\ conn'[t][k] = c
      /\ \A u \in Links : DOMAIN conn'[u] = DOMAIN conn[u]
      /\ \A u \in Links : \A l \in DOMAIN conn[u] : <<u, l>> # <<t, k>> => conn'[u][l] = conn[u][l]
      /\ ConnsSound' /\ PollsSound' /\ ConnsCounted'
    BY <1>1, <1>2, <1>4, <1>5, <1>6, WorkerMoves
<1>8. /\ OthersKeep(t[2]) /\ PollPermits(t[2])' = PollPermits(t[2])
      /\ WorkerPermits(t[2])' = WorkerPermits(t[2]) \ {<<t, k>>}
      /\ <<t, k>> \in WorkerPermits(t[2])
    BY <1>1, <1>2, <1>6, <1>7, WorkerPermitsMove
<1>9. PermitsCounted' /\ count' \in [Boards -> Nat]
    BY <1>1, <1>4, <1>8, PermitGiven
<1>10. ActiveIsExact' /\ active' \in [Boards -> SUBSET Boards]
  <2>1. poll' = poll /\ Bound(conn[t][k]) /\ ~Bound(c)
      BY <1>1, <1>2, <1>6
  <2>2. active' = [active EXCEPT ![t[2]] = active[t[2]] \ {t[1]}]
      BY <1>4
  <2> QED
      BY <1>7, <2>1, <2>2, WorkerUnbinds
<1>11. Typed'
    BY <1>2, <1>3, <1>7, <1>9, <1>10 DEF Inv, Typed, policy, counters
<1>12. ReadIsFresh'
  <2>1. \A b, n \in Boards : last'[b][n] <= stamp'
    <3>1. \A b, n \in Boards : last[b][n] <= stamp /\ last[b][n] \in Nat /\ stamp \in Nat
        BY DEF Inv, ReadIsFresh, Typed
    <3>2. ASSUME NEW b \in Boards, NEW n \in Boards, <<b, n>> # <<t[2], t[1]>> PROVE last'[b][n] <= stamp'
        BY <1>3, <3>1, <3>2
    <3>3. ASSUME NEW b \in Boards, NEW n \in Boards, <<b, n>> = <<t[2], t[1]>> PROVE last'[b][n] <= stamp'
        BY <1>3, <3>3
    <3> QED
        BY <3>2, <3>3
  <2>2. ASSUME NEW u \in Links, poll'[u].pc = "record" PROVE poll'[u].seen = last'[u[1]][u[2]]
    <3>1. poll[u].pc = "record" /\ poll'[u] = poll[u]
        BY <1>2, <2>2
    <3>2. <<u[1], u[2]>> # <<t[2], t[1]>> /\ u[1] \in Boards /\ u[2] \in Boards
        BY <3>1, ServerRecordReads, LinksAre
    <3> QED
        BY <1>3, <3>1, <3>2 DEF Inv, ReadIsFresh
  <2>3. ASSUME NEW u \in Links, NEW l \in DOMAIN conn[u], conn'[u][l].r = "record"
        PROVE  conn'[u][l].seen = last'[u[2]][u[1]]
    <3>1. <<u, l>> # <<t, k>>
        BY <1>5, <1>7, <2>3
    <3>2. conn'[u][l] = conn[u][l] /\ conn[u][l].r = "record"
        BY <1>7, <2>3, <3>1
    <3>3. <<u[2], u[1]>> # <<t[2], t[1]>> /\ u[1] \in Boards /\ u[2] \in Boards
        BY <3>1, <3>2, ServerRecordReads, LinksAre
    <3>4. conn[u][l].seen = last[u[2]][u[1]]
        BY <3>2 DEF Inv, ReadIsFresh
    <3>5. last'[u[2]][u[1]] = last[u[2]][u[1]]
        BY <1>3, <3>3
    <3> QED
        BY <3>2, <3>4, <3>5
  <2> QED
      BY <1>7, <2>1, <2>2, <2>3 DEF ReadIsFresh
<1> QED
    BY <1>7, <1>9, <1>10, <1>11, <1>12 DEF Inv

-----------------------------------------------------------------------------
(***************************************************************************)
(* The operator, and every step.                                           *)
(***************************************************************************)
LEMMA PolicyKeeps ==
    ASSUME Inv, held' \in [Boards -> SUBSET Boards], stopping' \in SUBSET Boards, holds' \in Nat,
           UNCHANGED <<permits, poll, conn, last, stamp, polls, faults>>
    PROVE  Inv'
<1>1. Typed' /\ ConnsSound' /\ ReadIsFresh'
    BY DEF Inv, Typed, ConnsSound, ReadIsFresh, permits
<1>2. PollsSound' /\ ConnsCounted'
    BY DEF Inv, PollsSound, PollSound, Current, Wire, ConnsCounted, Polling, Started, Opened
<1>3. ActiveIsExact'
    BY DEF Inv, ActiveIsExact, Polling, BoundTo, Back, permits
<1>4. PermitsCounted'
    BY DEF Inv, PermitsCounted, PollPermits, WorkerPermits, Polling, permits
<1> QED
    BY <1>1, <1>2, <1>3, <1>4 DEF Inv

LEMMA HoldKeeps == ASSUME Inv, NEW b \in Boards, NEW n \in Boards, Hold(b, n) PROVE Inv'
<1>1. /\ held' = [held EXCEPT ![b] = IF n \in @ THEN @ \ {n} ELSE @ \cup {n}]
      /\ stopping' = stopping /\ holds' = holds + 1
      /\ UNCHANGED <<permits, poll, conn, last, stamp, polls, faults>>
    BY DEF Hold
<1>2. held' \in [Boards -> SUBSET Boards] /\ stopping' \in SUBSET Boards /\ holds' \in Nat
    BY <1>1 DEF Inv, Typed
<1> QED
    BY <1>1, <1>2, PolicyKeeps

LEMMA StopKeeps == ASSUME Inv, NEW b \in Boards, Stop(b) PROVE Inv'
<1>1. /\ held' = held /\ stopping' = stopping \cup {b} /\ holds' = holds
      /\ UNCHANGED <<permits, poll, conn, last, stamp, polls, faults>>
    BY DEF Stop, counters
<1>2. held' \in [Boards -> SUBSET Boards] /\ stopping' \in SUBSET Boards /\ holds' \in Nat
    BY <1>1 DEF Inv, Typed
<1> QED
    BY <1>1, <1>2, PolicyKeeps

LEMMA InitInv == ASSUME LinkAssumption, Init PROVE Inv
<1>1. Typed
  <2>1. Quiet \in Poll
      BY DEF Quiet, Poll, Result, LinkAssumption
  <2>2. <<>> \in Seq(Conn) /\ MaxPolls \in Nat
      BY DEF LinkAssumption
  <2> QED
      BY <2>1, <2>2 DEF Init, Typed
<1>2. \A t \in Links : conn[t] = <<>> /\ poll[t] = Quiet /\ ~Polling(t) /\ Current(t) = 0
    BY DEF Init, Polling, Quiet, Current
<1>3. \A t \in Links : ~BoundTo(t) /\ ~BoundTo(Back(t))
    BY <1>2, LinksAre DEF BoundTo
<1>4. ConnsSound /\ PollsSound
    BY <1>2 DEF ConnsSound, PollsSound, PollSound, Quiet
<1>5. ActiveIsExact
  <2>1. \A b \in Boards : active[b] = {}
      BY DEF Init
  <2>2. \A t \in Links : t[1] \in Boards
      BY LinksAre
  <2> QED
      BY <1>2, <1>3, <2>1, <2>2 DEF ActiveIsExact
<1>6. PermitsCounted
  <2>1. \A b \in Boards : PollPermits(b) = {}
      BY <1>2 DEF PollPermits
  <2>2. \A x \in Links \X Keys : conn[x[1]] = <<>>
    <3>1. \A x \in Links \X Keys : x[1] \in Links
        OBVIOUS
    <3> QED
        BY <1>2, <3>1
  <2>3. \A b \in Boards : WorkerPermits(b) = {}
      BY <2>2 DEF WorkerPermits
  <2>4. \A b \in Boards : count[b] = 0
      BY DEF Init
  <2>5. IsFiniteSet({}) /\ Cardinality({}) = 0
      BY FS_EmptySet
  <2>6. 0 = 0 + 0 /\ 0 <= Capacity
      BY DEF LinkAssumption
  <2> QED
      BY <2>1, <2>3, <2>4, <2>5, <2>6 DEF PermitsCounted
<1>7. ConnsCounted
  <2>1. ASSUME NEW t \in Links PROVE Current(t) <= Started(t) * Tries
    <3>1. Started(t) \in Nat /\ Started(t) <= MaxPolls
        BY <1>1 DEF Typed, Started, LinkAssumption
    <3>2. Started(t) * Tries \in Nat
        BY <3>1, MoreTries
    <3> QED
        BY <1>2, <3>2
  <2> QED
      BY <1>2, <2>1 DEF ConnsCounted
<1>8. ReadIsFresh
    BY <1>2 DEF Init, ReadIsFresh, Quiet
<1> QED
    BY <1>1, <1>4, <1>5, <1>6, <1>7, <1>8 DEF Inv

LEMMA OutboundKeeps == ASSUME LinkAssumption, Inv, NEW t \in Links, Outbound(t) PROVE Inv'
BY GiveUpKeeps, ConnectKeeps, SecureKeeps, NotSecuredKeeps, SendForwardKeeps, AckForwardKeeps,
   ReceiveReverseKeeps, SendCloseKeeps, DoneKeeps, CutKeeps, ReadKeeps, RecordKeeps DEF Outbound

LEMMA InboundKeeps ==
    ASSUME LinkAssumption, Inv, NEW t \in Links, NEW k \in Keys, Inbound(t, k)
    PROVE  Inv'
<1>1. k \in DOMAIN conn[t]
    BY DEF Inbound
<1> QED
    BY <1>1, AcceptKeeps, IdentifyKeeps, SendHelloKeeps, ReceiveForwardKeeps, SendReverseKeeps,
       AckReverseKeeps, ClosedKeeps, ServerCutKeeps, ServerReadKeeps, ServerRecordKeeps DEF Inbound

LEMMA InvNext == ASSUME LinkAssumption, Inv, [Next]_vars PROVE Inv'
<1>1. ASSUME NEW t \in Links, NEW mode \in {"poll", "test"}, StartPoll(t, mode) PROVE Inv'
    BY <1>1, StartPollKeeps
<1>2. ASSUME NEW t \in Links, Outbound(t) \/ Breaks(t) PROVE Inv'
    BY <1>2, OutboundKeeps, BreaksKeeps
<1>3. ASSUME NEW t \in Links, NEW k \in Keys,
             Inbound(t, k) \/ (k \in DOMAIN conn[t] /\ ServerBreaks(t, k))
      PROVE  Inv'
    BY <1>3, InboundKeeps, ServerBreaksKeeps
<1>4. ASSUME NEW b \in Boards, NEW n \in Boards, Hold(b, n) PROVE Inv'
    BY <1>4, HoldKeeps
<1>5. ASSUME NEW b \in Boards, Stop(b) PROVE Inv'
    BY <1>5, StopKeeps
<1>6. CASE UNCHANGED vars
  <2>1. /\ UNCHANGED <<permits, poll, conn, last, stamp, polls, faults>>
        /\ held' = held /\ stopping' = stopping /\ holds' = holds
      BY <1>6 DEF vars, permits
  <2> QED
      BY <2>1, PolicyKeeps DEF Inv, Typed
<1> QED
    BY <1>1, <1>2, <1>3, <1>4, <1>5, <1>6 DEF Next

\* The inductive invariant holds of every run, for any boards, initiators and bounds.
THEOREM LinkInvariant == LinkAssumption => (Spec => []Inv)
<1> SUFFICES ASSUME LinkAssumption PROVE Spec => []Inv
    OBVIOUS
<1>1. Init => Inv
    BY InitInv
<1>2. Inv /\ [Next]_vars => Inv'
    BY InvNext
<1> QED
    BY <1>1, <1>2, PTL DEF Spec

-----------------------------------------------------------------------------
(***************************************************************************)
(* What the invariant says.                                                *)
(***************************************************************************)
LEMMA ConnsHaveKeys == ASSUME LinkAssumption, Inv, NEW t \in Links PROVE DOMAIN conn[t] \subseteq Keys
<1>1. Current(t) <= Started(t) * Tries
  <2>1. CASE Polling(t)
    <3>1. Started(t) > 0 /\ Current(t) <= (Started(t) - 1) * Tries + Opened(t)
        BY <2>1 DEF Inv, ConnsCounted
    <3>2. Opened(t) \in Nat /\ Opened(t) <= Tries
        BY CountsAre, <2>1 DEF Opened, Polling
    <3> QED
        BY <3>1, <3>2, CountsAre
  <2>2. CASE ~Polling(t)
      BY <2>2 DEF Inv, ConnsCounted
  <2> QED
      BY <2>1, <2>2
<1>2. Started(t) * Tries <= MaxPolls * Tries
    BY CountsAre, MoreTries
<1>3. Current(t) <= MaxPolls * Tries
    BY <1>1, <1>2, CountsAre, KeysAre
<1>4. DOMAIN conn[t] = 1..Current(t) /\ Current(t) \in Nat
    BY DEF Inv, Typed, Current
<1> QED
    BY <1>3, <1>4, KeysAre DEF Keys

\* A board has one session with the neighbors it calls active, and none with others.
LEMMA SessionsAre ==
    ASSUME LinkAssumption, Inv, NEW b \in Boards, NEW n \in Boards
    PROVE  Sessions(b, n) = IF n \in active[b] THEN 1 ELSE 0
<1> DEFINE P == {t \in Links : t = <<b, n>> /\ Polling(t)}
           W == {x \in Links \X (1..(MaxPolls * Tries)) :
                      /\ x[1] = <<n, b>> /\ x[2] \in DOMAIN conn[x[1]]
                      /\ Bound(conn[x[1]][x[2]])}
<1>1. Sessions(b, n) = Cardinality(P) + Cardinality(W)
    BY DEF Sessions
<1>2. Cardinality({}) = 0 /\ \A x : Cardinality({x}) = 1
    BY FS_EmptySet, FS_Singleton
<1>3. <<b, n>> \in Links <=> <<n, b>> \in Links
    BY DEF Links
<1>4. CASE <<b, n>> \notin Links
  <2>1. P = {} /\ W = {}
      BY <1>3, <1>4
  <2>2. n \notin active[b]
      BY <1>4 DEF Inv, ActiveIsExact
  <2> HIDE DEF P, W
  <2>3. Cardinality(P) = 0 /\ Cardinality(W) = 0
      BY <1>2, <2>1
  <2> QED
      BY <1>1, <2>2, <2>3
<1>5. CASE <<b, n>> \in Links
  <2> DEFINE t == <<b, n>>
             s == <<n, b>>
  <2>1. t \in Links /\ s \in Links /\ Back(t) = s /\ t[1] = b /\ t[2] = n
      BY <1>3, <1>5 DEF Back
  <2> HIDE DEF t, s
  <2>2. n \in active[b] <=> Polling(t) \/ BoundTo(s)
      BY <2>1 DEF Inv, ActiveIsExact
  <2>3. ~(Polling(t) /\ BoundTo(s))
      BY <2>1 DEF Inv, ActiveIsExact
  <2>4. P = IF Polling(t) THEN {t} ELSE {}
      BY <2>1 DEF t
  <2>5. ~BoundTo(s) => W = {}
      BY <2>1 DEF BoundTo, s
  <2>6. ASSUME BoundTo(s) PROVE Cardinality(W) = 1
    <3>1. PICK k \in DOMAIN conn[s] : Bound(conn[s][k])
        BY <2>6 DEF BoundTo
    <3>2. k \in 1..(MaxPolls * Tries)
        BY <2>1, ConnsHaveKeys DEF Keys
    <3>3. \A l \in DOMAIN conn[s] : Bound(conn[s][l]) => l = k
        BY <2>1, <3>1 DEF Inv, ActiveIsExact
    <3>4. \A x \in W : x = <<s, k>>
        BY <3>3 DEF s
    <3>5. <<s, k>> \in W
        BY <2>1, <3>1, <3>2 DEF s
    <3>6. W = {<<s, k>>}
        BY <3>4, <3>5
    <3> QED
        BY <1>2, <3>6
  <2> HIDE DEF P, W
  <2>7. CASE Polling(t)
    <3>1. Cardinality(P) = 1 /\ Cardinality(W) = 0 /\ n \in active[b]
        BY <1>2, <2>2, <2>3, <2>4, <2>5, <2>7
    <3> QED
        BY <1>1, <3>1
  <2>8. CASE ~Polling(t) /\ BoundTo(s)
    <3>1. Cardinality(P) = 0 /\ Cardinality(W) = 1 /\ n \in active[b]
        BY <1>2, <2>2, <2>4, <2>6, <2>8
    <3> QED
        BY <1>1, <3>1
  <2>9. CASE ~Polling(t) /\ ~BoundTo(s)
    <3>1. Cardinality(P) = 0 /\ Cardinality(W) = 0 /\ n \notin active[b]
        BY <1>2, <2>2, <2>4, <2>5, <2>9
    <3> QED
        BY <1>1, <3>1
  <2> QED
      BY <2>7, <2>8, <2>9
<1> QED
    BY <1>4, <1>5

LEMMA PermitsAre ==
    ASSUME NEW b
    PROVE  Permits(b) = Cardinality(PollPermits(b)) + Cardinality(WorkerPermits(b))
BY DEF Permits, PollPermits, WorkerPermits, Keys

\* Every permit in use belongs to a worker, no board has more than its capacity, and a
\* neighbor is active exactly while a session with it is (Permit::acquire, bind, drop).
THEOREM TypeCorrect == LinkAssumption => (Spec => []TypeOK)
<1> SUFFICES ASSUME LinkAssumption PROVE Spec => []TypeOK
    OBVIOUS
<1>1. ASSUME Inv PROVE TypeOK
  <2>1. ASSUME NEW b \in Boards
        PROVE  /\ count[b] = Permits(b) /\ count[b] <= Capacity
               /\ active[b] = {n \in Boards : Sessions(b, n) > 0}
               /\ held[b] \subseteq Boards
    <3>1. count[b] = Permits(b) /\ count[b] <= Capacity
        BY <1>1, PermitsAre DEF Inv, PermitsCounted
    <3>2. active[b] \subseteq Boards /\ held[b] \subseteq Boards
        BY <1>1 DEF Inv, Typed
    <3>3. \A n \in Boards : Sessions(b, n) > 0 <=> n \in active[b]
        BY <1>1, SessionsAre
    <3> QED
        BY <3>1, <3>2, <3>3
  <2>2. ASSUME NEW t \in Links
        PROVE  /\ poll[t].pc \in {"idle", "try", "tls", "work", "finish", "record"}
               /\ poll[t].try < Tries
      BY <1>1, PollAt, CountsAre DEF Poll
  <2>3. ASSUME NEW t \in Links, NEW k \in DOMAIN conn[t]
        PROVE  /\ conn[t][k].r \in {"syn", "tls", "work", "finish", "record", "gone"}
               /\ conn[t][k].acked \subseteq conn[t][k].moved
               /\ conn[t][k].moved \subseteq conn[t][k].offered /\ conn[t][k].offered \subseteq Batches
      BY <1>1, ConnAt DEF Conn, Sound
  <2>4. stopping \subseteq Boards
      BY <1>1 DEF Inv, Typed
  <2> QED
      BY <2>1, <2>2, <2>3, <2>4 DEF TypeOK
<1> QED
    BY <1>1, LinkInvariant, PTL

\* "one per profile/neighbor", for any boards that poll each other in any order.
THEOREM OneSessionHolds == LinkAssumption => (Spec => []OneSession)
<1> SUFFICES ASSUME LinkAssumption PROVE Spec => []OneSession
    OBVIOUS
<1>1. ASSUME Inv PROVE OneSession
  <2>1. ASSUME NEW t \in Links PROVE Sessions(t[1], t[2]) <= 1
      BY <1>1, SessionsAre, LinksAre
  <2> QED
      BY <2>1 DEF OneSession
<1> QED
    BY <1>1, LinkInvariant, PTL

\* A success an end records is a whole exchange: the last frame is sent after everything
\* that was offered is acknowledged, and no later try replaces its connection (exchange).
THEOREM SuccessIsWholeHolds == LinkAssumption => (Spec => []SuccessIsWhole)
<1> SUFFICES ASSUME LinkAssumption PROVE Spec => []SuccessIsWhole
    OBVIOUS
<1>1. ASSUME Inv PROVE SuccessIsWhole
  <2>1. ASSUME NEW t \in Links, NEW k \in DOMAIN conn[t], conn[t][k].frame = 8
        PROVE  conn[t][k].acked = conn[t][k].offered
      BY <1>1, <2>1, ConnAt DEF Sound
  <2>2. ASSUME NEW t \in Links, poll[t].result = "ok", poll[t].pc \in {"finish", "record"}
        PROVE  Wire(t).acked = Wire(t).offered
    <3>1. Current(t) > 0 /\ Wire(t).frame = 8
        BY <1>1, <2>2 DEF Inv, PollsSound, PollSound
    <3>2. Current(t) \in DOMAIN conn[t]
        BY <1>1, <3>1 DEF Inv, Typed, Current
    <3> QED
        BY <2>1, <3>1, <3>2 DEF Wire
  <2>3. ASSUME NEW t \in Links, NEW k \in DOMAIN conn[t], conn[t][k].result = "ok"
        PROVE  conn[t][k].acked = conn[t][k].offered
      BY <1>1, <2>1, <2>3, ConnAt DEF Sound
  <2> QED
      BY <2>2, <2>3 DEF SuccessIsWhole
<1> QED
    BY <1>1, LinkInvariant, PTL

\* A worker that ends without success writes back the last success it read, and no other
\* worker has written the row since (Session::finish, record_health).
THEOREM SuccessIsKeptHolds == LinkAssumption => (Spec => [][SuccessIsKept]_vars)
<1> SUFFICES ASSUME LinkAssumption PROVE Spec => [][SuccessIsKept]_vars
    OBVIOUS
<1>1. ASSUME Inv, Next PROVE SuccessIsKept
  <2>1. \A b, n \in Boards : last[b][n] \in Nat
      BY <1>1 DEF Inv, Typed
  <2>2. ASSUME last' = last PROVE SuccessIsKept
      BY <2>1, <2>2 DEF SuccessIsKept
  <2>3. ASSUME NEW b \in Boards, NEW n \in Boards, NEW result, Recorded(b, n, result, last[b][n])
        PROVE  SuccessIsKept
    <3>1. /\ last'[b][n] >= last[b][n]
          /\ \A c, m \in Boards : <<c, m>> # <<b, n>> => last'[c][m] = last[c][m]
        BY <1>1, <2>3, RecordedIs
    <3>2. ASSUME NEW c \in Boards, NEW m \in Boards, <<c, m>> # <<b, n>> PROVE last'[c][m] >= last[c][m]
        BY <2>1, <3>1, <3>2
    <3>3. ASSUME NEW c \in Boards, NEW m \in Boards, <<c, m>> = <<b, n>> PROVE last'[c][m] >= last[c][m]
        BY <3>1, <3>3
    <3> QED
        BY <3>2, <3>3 DEF SuccessIsKept
  <2>4. ASSUME NEW t \in Links, Outbound(t) PROVE SuccessIsKept
    <3>1. CASE Record(t)
        BY <1>1, <2>3, <3>1, RecordReads
    <3>2. CASE ~Record(t)
        BY <2>2, <2>4, <3>2 DEF Outbound, GiveUp, Connect, Secure, NotSecured, SendForward, AckForward,
           ReceiveReverse, SendClose, Done, Cut, Read, rest
    <3> QED
        BY <3>1, <3>2
  <2>5. ASSUME NEW t \in Links, NEW k \in Keys, Inbound(t, k) PROVE SuccessIsKept
    <3>1. CASE ServerRecord(t, k)
      <4>1. k \in DOMAIN conn[t]
          BY <2>5 DEF Inbound
      <4> QED
          BY <1>1, <2>3, <3>1, <4>1, ServerRecordReads
    <3>2. CASE ~ServerRecord(t, k)
        BY <2>2, <2>5, <3>2 DEF Inbound, Accept, Identify, SendHello, ReceiveForward, SendReverse,
           AckReverse, Closed, ServerCut, ServerRead, rest
    <3> QED
        BY <3>1, <3>2
  <2>6. ASSUME NEW t \in Links, NEW mode, StartPoll(t, mode) PROVE SuccessIsKept
      BY <2>2, <2>6 DEF StartPoll
  <2>7. ASSUME NEW t \in Links, Breaks(t) PROVE SuccessIsKept
      BY <2>2, <2>7 DEF Breaks
  <2>8. ASSUME NEW t \in Links, NEW k \in Keys, ServerBreaks(t, k) PROVE SuccessIsKept
      BY <2>2, <2>8 DEF ServerBreaks
  <2>9. ASSUME NEW b \in Boards, NEW n \in Boards, Hold(b, n) \/ Stop(b) PROVE SuccessIsKept
      BY <2>2, <2>9 DEF Hold, Stop
  <2> QED
      BY <1>1, <2>4, <2>5, <2>6, <2>7, <2>8, <2>9 DEF Next
<1>2. Inv /\ [Next]_vars => [SuccessIsKept]_vars
    BY <1>1
<1> QED
    BY <1>2, LinkInvariant, PTL DEF Spec

-----------------------------------------------------------------------------
(***************************************************************************)
(* Files, for any line of boards, files, identities, verdicts and bounds.  *)
(*                                                                         *)
(* A publication is drawn once, by the board that admitted its file, and a *)
(* delivery is owed only by a board that filed it, away from the origin.   *)
(* What a session holds is on record at both ends until it breaks, so that *)
(* the receipt it brings back is the importer's own.                       *)
(***************************************************************************)
CONSTANTS Length, Files, MaxIds, Native, Refused, Verdicts, MaxAttempts, FileLimit,
    FileEdits, FileFaults, None
VARIABLES lib, source, fileOf, pub, dossier, due, fileSess, fileEdits, fileFaults
CF == INSTANCE CircuitFiles WITH Limit <- FileLimit, MaxEdits <- FileEdits,
    MaxFaults <- FileFaults, of <- fileOf, sess <- fileSess, edits <- fileEdits,
    faults <- fileFaults

FileDrawn == \A b \in CF!Boards, id \in CF!Ids : pub[b][id] # None => fileOf[id] # None
FileSourced == \A b \in CF!Boards, f \in Files : lib[b][f] # "absent" => source[b][f] # "none"
FileOwned == \A id \in CF!Ids : fileOf[id] # None =>
    /\ pub[fileOf[id][1]][id] = CF!Own
    /\ source[fileOf[id][1]][CF!File(id)] = "local"
FileOwable(l, id) ==
    /\ fileOf[id] # None
    /\ pub[l[1]][id] # None /\ pub[l[1]][id].filed
    /\ l[2] \notin CF!Path(fileOf[id][1], l[1])
FileOwed == \A l \in CF!Links, id \in CF!Ids : due[l][id] # None => FileOwable(l, id)
FileBusy == {"offered", "want", "admitted", "receipt"}
\* What session record s of link l stands for.
FileKnows(l, s) ==
    /\ \A id \in s.list : /\ due[l][id] # None
                          /\ due[l][id].receipt = None => due[l][id].tries < MaxAttempts
    /\ s.at \in {"idle", "list"} => s.list = {}
    /\ s.at \in FileBusy => s.cur \in CF!Ids /\ due[l][s.cur] # None
    /\ s.at \in {"want", "admitted"} => pub[l[2]][s.cur] = None
    /\ (s.at = "admitted" /\ s.outcome = "published") => s.filed
    /\ s.at = "receipt" => /\ pub[l[2]][s.cur] # None
                           /\ s.outcome = pub[l[2]][s.cur].receipt
FileAsked == \A l \in CF!Links : FileKnows(l, fileSess[l])
FileLedger == FileDrawn /\ FileSourced /\ FileOwned /\ FileOwed /\ CF!ReceiptsAgree /\ CF!OriginIsLocal /\ CF!EachHandHasFiledIt
FileInv == CF!TypeOK /\ FileLedger /\ FileAsked

FileSession == [at : CF!Places, list : SUBSET CF!Ids, cur : 0..MaxIds,
            outcome : CF!Outcomes \cup {None}, filed : BOOLEAN]
-----------------------------------------------------------------------------
LEMMA FileMinIsMember == ASSUME NEW S \in SUBSET Nat, S # {} PROVE CF!Min(S) \in S
<1> DEFINE R == {ss \in Nat \X Nat : ss[1] < ss[2]}
<1>1. IsWellFoundedOn(R, Nat)
    BY NatLessThanWellFounded DEF OpToRel
<1> HIDE DEF R
<1>2. PICK x \in S : \A y \in S : ~ (<<y, x>> \in R)
    BY <1>1, WFMin
<1>3. \A y \in S : x <= y
    <2> SUFFICES ASSUME NEW y \in S, ~(x <= y) PROVE FALSE
        OBVIOUS
    <2>1. x \in Nat /\ y \in Nat /\ y < x
        OBVIOUS
    <2>2. <<y, x>> \in Nat \X Nat /\ <<y, x>>[1] < <<y, x>>[2]
        BY <2>1
    <2>3. <<y, x>> \in R
        BY <2>2 DEF R
    <2> QED
        BY <1>2, <2>3
<1> QED
    BY <1>3 DEF CF!Min

\* On the line, the way to a board is the way to the one before it and one hop.
LEMMA FilePathGrows ==
    ASSUME CF!FilesAssumption, NEW o \in CF!Boards, NEW l \in CF!Links, l[2] \notin CF!Path(o, l[1])
    PROVE  CF!Path(o, l[2]) \ {l[2]} = CF!Path(o, l[1])
BY DEF CF!FilesAssumption, CF!Boards, CF!Links, CF!Path

\* A publication comes to a board from one side only.
LEMMA FileOneWayIn ==
    ASSUME CF!FilesAssumption, NEW o \in CF!Boards, NEW l \in CF!Links, NEW m \in CF!Links, l[2] = m[2],
           l[2] \notin CF!Path(o, l[1]), m[2] \notin CF!Path(o, m[1])
    PROVE  l = m
BY DEF CF!FilesAssumption, CF!Boards, CF!Links, CF!Path

LEMMA FileLinkEnds == ASSUME NEW l \in CF!Links PROVE l[1] \in CF!Boards /\ l[2] \in CF!Boards /\ l[1] # l[2]
BY DEF CF!Links, CF!Boards

LEMMA FileOwnPath == ASSUME CF!FilesAssumption, NEW b \in CF!Boards PROVE CF!Path(b, b) = {b}
BY DEF CF!FilesAssumption, CF!Boards, CF!Path

\* Steps of one session that leave the tables alone.
LEMMA FileSessionStep ==
    ASSUME FileInv, NEW l \in CF!Links, NEW s \in FileSession, FileKnows(l, s),
           fileSess' = [fileSess EXCEPT ![l] = s], fileFaults' \in 0..FileFaults,
           UNCHANGED <<CF!custody, fileOf, pub, dossier, due, fileEdits>>
    PROVE  FileInv'
<1>1. CF!TypeOK'
    BY DEF FileInv, CF!TypeOK, FileSession, CF!custody
<1>2. FileLedger'
    BY DEF FileInv, FileLedger, FileDrawn, FileSourced, FileOwned, FileOwed, FileOwable, CF!ReceiptsAgree, CF!OriginIsLocal,
       CF!EachHandHasFiledIt, CF!File, CF!custody
<1>3. ASSUME NEW m \in CF!Links PROVE FileKnows(m, fileSess[m])'
    <2>1. FileKnows(m, fileSess[m])
        BY DEF FileInv, FileAsked
    <2>2. fileSess'[m] = IF m = l THEN s ELSE fileSess[m]
        BY DEF FileInv, CF!TypeOK
    <2>3. CASE m = l
        BY <2>2, <2>3 DEF FileKnows, CF!custody
    <2>4. CASE m # l
        BY <2>1, <2>2, <2>4 DEF FileKnows, CF!custody
    <2> QED
        BY <2>3, <2>4
<1> QED
    BY <1>1, <1>2, <1>3 DEF FileInv, FileAsked

LEMMA FileSessionType ==
    ASSUME CF!FilesAssumption, FileInv, NEW l \in CF!Links
    PROVE  fileSess[l] \in FileSession /\ FileKnows(l, fileSess[l]) /\ CF!Idle \in FileSession /\ FileKnows(l, CF!Idle)
<1>1. fileSess[l] \in FileSession
    BY DEF FileInv, CF!TypeOK, FileSession
<1>2. CF!Idle \in FileSession
    BY DEF CF!Idle, FileSession, CF!Places, CF!FilesAssumption
<1>3. FileKnows(l, CF!Idle)
    BY DEF FileKnows, CF!Idle, FileBusy
<1> QED
    BY <1>1, <1>2, <1>3 DEF FileInv, FileAsked

LEMMA FileListStep == ASSUME CF!FilesAssumption, FileInv, NEW l \in CF!Links, CF!List(l) PROVE FileInv'
<1> DEFINE s == [fileSess[l] EXCEPT !.at = "next", !.list = CF!FirstOf(CF!Offerable(l))]
<1>1. fileSess[l] \in FileSession /\ FileKnows(l, fileSess[l])
    BY FileSessionType
<1>2. CF!FirstOf(CF!Offerable(l)) \subseteq CF!Offerable(l)
    BY DEF CF!FirstOf
<1>3. s \in FileSession
    BY <1>1, <1>2 DEF FileSession, CF!Places, CF!Offerable
<1>4. FileKnows(l, s)
    BY <1>1, <1>2 DEF FileKnows, CF!Offerable, FileBusy, FileSession
<1>5. fileSess' = [fileSess EXCEPT ![l] = s] /\ fileFaults' \in 0..FileFaults
    BY DEF CF!List, FileInv, CF!TypeOK
<1>6. UNCHANGED <<CF!custody, fileOf, pub, dossier, due, fileEdits>>
    BY DEF CF!List
<1> HIDE DEF s
<1> QED
    BY <1>3, <1>4, <1>5, <1>6, FileSessionStep

LEMMA FileCloseStep == ASSUME CF!FilesAssumption, FileInv, NEW l \in CF!Links, CF!Close(l) PROVE FileInv'
<1>1. CF!Idle \in FileSession /\ FileKnows(l, CF!Idle)
    BY FileSessionType
<1>2. fileSess' = [fileSess EXCEPT ![l] = CF!Idle] /\ fileFaults' \in 0..FileFaults
    BY DEF CF!Close, FileInv, CF!TypeOK
<1>3. UNCHANGED <<CF!custody, fileOf, pub, dossier, due, fileEdits>>
    BY DEF CF!Close
<1> QED
    BY <1>1, <1>2, <1>3, FileSessionStep

LEMMA FileBreakStep == ASSUME CF!FilesAssumption, FileInv, NEW l \in CF!Links, CF!Break(l) PROVE FileInv'
<1>1. CF!Idle \in FileSession /\ FileKnows(l, CF!Idle)
    BY FileSessionType
<1>2. fileSess' = [fileSess EXCEPT ![l] = CF!Idle] /\ fileFaults' \in 0..FileFaults
    BY DEF CF!Break, FileInv, CF!TypeOK, CF!FilesAssumption
<1>3. UNCHANGED <<CF!custody, fileOf, pub, dossier, due, fileEdits>>
    BY DEF CF!Break
<1> QED
    BY <1>1, <1>2, <1>3, FileSessionStep

LEMMA FileAnswerStep == ASSUME CF!FilesAssumption, FileInv, NEW l \in CF!Links, CF!Answer(l) PROVE FileInv'
<1> DEFINE receipt == [fileSess[l] EXCEPT !.at = "receipt", !.outcome = pub[l[2]][fileSess[l].cur].receipt]
           want == [fileSess[l] EXCEPT !.at = "want"]
<1>1. fileSess[l] \in FileSession /\ FileKnows(l, fileSess[l]) /\ CF!Idle \in FileSession /\ FileKnows(l, CF!Idle)
    BY FileSessionType
<1>2. fileSess[l].at = "offered" /\ fileSess[l].cur \in CF!Ids /\ due[l][fileSess[l].cur] # None
    BY <1>1 DEF CF!Answer, FileKnows, FileBusy
<1>3. UNCHANGED <<CF!custody, fileOf, pub, dossier, due, fileEdits>> /\ fileFaults' \in 0..FileFaults
    BY DEF CF!Answer, FileInv, CF!TypeOK
<1>4. CASE CF!Known(l)
    <2>1. pub[l[2]][fileSess[l].cur] \in CF!Publication
        BY <1>2, <1>4, FileLinkEnds DEF FileInv, CF!TypeOK, CF!Known
    <2>2. receipt \in FileSession
        BY <1>1, <2>1 DEF FileSession, CF!Publication, CF!Places
    <2>3. FileKnows(l, receipt)
        BY <1>1, <1>2, <1>4 DEF FileKnows, FileBusy, FileSession, CF!Known
    <2>4. fileSess' = [fileSess EXCEPT ![l] = receipt]
        BY <1>4 DEF CF!Answer
    <2> HIDE DEF receipt
    <2> QED
        BY <1>3, <2>2, <2>3, <2>4, FileSessionStep
<1>5. CASE ~CF!Known(l) /\ CF!Refuses(l)
    <2>1. fileSess' = [fileSess EXCEPT ![l] = CF!Idle]
        BY <1>5 DEF CF!Answer
    <2> QED
        BY <1>1, <1>3, <2>1, FileSessionStep
<1>6. CASE ~CF!Known(l) /\ ~CF!Refuses(l)
    <2>2. want \in FileSession
        BY <1>1 DEF FileSession, CF!Places
    <2>3. FileKnows(l, want)
        BY <1>1, <1>2, <1>6 DEF FileKnows, FileBusy, FileSession, CF!Known
    <2>4. fileSess' = [fileSess EXCEPT ![l] = want]
        BY <1>6 DEF CF!Answer
    <2> HIDE DEF want
    <2> QED
        BY <1>3, <2>2, <2>3, <2>4, FileSessionStep
<1> QED
    BY <1>4, <1>5, <1>6

LEMMA FileWrongHashStep == ASSUME CF!FilesAssumption, FileInv, NEW l \in CF!Links, CF!WrongHash(l) PROVE FileInv'
<1> DEFINE s == [fileSess[l] EXCEPT !.at = "admitted", !.outcome = "rejected", !.filed = FALSE]
<1>1. fileSess[l] \in FileSession /\ FileKnows(l, fileSess[l]) /\ CF!Idle \in FileSession /\ FileKnows(l, CF!Idle)
    BY FileSessionType
<1>2. s \in FileSession
    BY <1>1 DEF FileSession, CF!Places, CF!Outcomes, CF!Statuses
<1>3. FileKnows(l, s)
    BY <1>1 DEF CF!WrongHash, FileKnows, FileBusy, FileSession
<1>4. UNCHANGED <<CF!custody, fileOf, pub, dossier, due, fileEdits>> /\ fileFaults' \in 0..FileFaults
    BY DEF CF!WrongHash, FileInv, CF!TypeOK, CF!FilesAssumption
<1>5. fileSess' = [fileSess EXCEPT ![l] = CF!Idle] \/ fileSess' = [fileSess EXCEPT ![l] = s]
    BY DEF CF!WrongHash
<1> HIDE DEF s
<1> QED
    BY <1>1, <1>2, <1>3, <1>4, <1>5, FileSessionStep

-----------------------------------------------------------------------------
\* The native admission.  Who a file came from is settled the first time.
LEMMA FileCustodyStep ==
    ASSUME CF!FilesAssumption, FileInv,
           lib' \in [CF!Boards -> [Files -> CF!Statuses]],
           source' \in [CF!Boards -> [Files -> {"none", "local", "circuitnet"}]],
           \A b \in CF!Boards, f \in Files :
              (source[b][f] = "local" => source'[b][f] = "local")
              /\ (lib'[b][f] # "absent" => source'[b][f] # "none"),
           UNCHANGED <<fileOf, pub, due>>
    PROVE  FileLedger'
<1>1. \A id \in CF!Ids : fileOf[id] # None => fileOf[id] \in CF!Boards \X Files
    BY DEF FileInv, CF!TypeOK
<1>2. FileDrawn' /\ FileSourced' /\ FileOwed' /\ CF!ReceiptsAgree' /\ CF!EachHandHasFiledIt'
    BY DEF FileInv, FileLedger, FileDrawn, FileSourced, FileOwed, FileOwable, CF!ReceiptsAgree, CF!EachHandHasFiledIt, CF!File
<1>3. FileOwned'
    BY <1>1 DEF FileInv, FileLedger, FileOwned, CF!File
<1>4. CF!OriginIsLocal'
    BY <1>1 DEF FileInv, FileLedger, CF!OriginIsLocal, CF!File
<1> QED
    BY <1>2, <1>3, <1>4 DEF FileLedger

LEMMA FileAdmitStep ==
    ASSUME CF!FilesAssumption, FileInv, NEW b \in CF!Boards, NEW f \in Files, CF!Admit(b, f) PROVE FileInv'
<1>1. PICK v \in Verdicts : lib' = [lib EXCEPT ![b][f] = v]
    BY DEF CF!Admit
<1>2. v \in CF!Statuses
    BY DEF CF!FilesAssumption, CF!Outcomes
<1>3. source' = [source EXCEPT ![b][f] = "local"] /\ UNCHANGED <<fileOf, pub, dossier, due, fileSess, fileEdits, fileFaults>>
    BY DEF CF!Admit
<1>4. lib' \in [CF!Boards -> [Files -> CF!Statuses]]
      /\ source' \in [CF!Boards -> [Files -> {"none", "local", "circuitnet"}]]
    BY <1>1, <1>2, <1>3 DEF FileInv, CF!TypeOK
<1>5. \A c \in CF!Boards, g \in Files : (source[c][g] = "local" => source'[c][g] = "local")
          /\ (lib'[c][g] # "absent" => source'[c][g] # "none")
    BY <1>1, <1>3 DEF FileInv, FileLedger, FileSourced, CF!TypeOK
<1>6. FileLedger'
    <2>1. UNCHANGED <<fileOf, pub, due>>
        BY <1>3
    <2> QED
        BY <2>1, <1>4, <1>5, FileCustodyStep
<1>7. CF!TypeOK'
    BY <1>3, <1>4 DEF FileInv, CF!TypeOK
<1>8. FileAsked'
    BY <1>3 DEF FileInv, FileAsked, FileKnows
<1> QED
    BY <1>6, <1>7, <1>8 DEF FileInv

LEMMA FileReviewStep ==
    ASSUME CF!FilesAssumption, FileInv, NEW b \in CF!Boards, NEW f \in Files,
           NEW v \in {"published", "rejected"}, CF!Review(b, f, v)
    PROVE  FileInv'
<1>1. lib' = [lib EXCEPT ![b][f] = v] /\ lib[b][f] # "absent"
      /\ UNCHANGED <<source, fileOf, pub, dossier, due, fileSess, fileEdits, fileFaults>>
    BY DEF CF!Review
<1>4. lib' \in [CF!Boards -> [Files -> CF!Statuses]]
      /\ source' \in [CF!Boards -> [Files -> {"none", "local", "circuitnet"}]]
    BY <1>1 DEF FileInv, CF!TypeOK, CF!Statuses
<1>5. \A c \in CF!Boards, g \in Files : (source[c][g] = "local" => source'[c][g] = "local")
          /\ (lib'[c][g] # "absent" => source'[c][g] # "none")
    BY <1>1 DEF FileInv, FileLedger, FileSourced, CF!TypeOK
<1>6. FileLedger'
    <2>1. UNCHANGED <<fileOf, pub, due>>
        BY <1>1
    <2> QED
        BY <2>1, <1>4, <1>5, FileCustodyStep
<1>7. CF!TypeOK'
    BY <1>1, <1>4 DEF FileInv, CF!TypeOK
<1>8. FileAsked'
    BY <1>1 DEF FileInv, FileAsked, FileKnows
<1> QED
    BY <1>6, <1>7, <1>8 DEF FileInv

LEMMA FileImportStep == ASSUME CF!FilesAssumption, FileInv, NEW l \in CF!Links, CF!Import(l) PROVE FileInv'
<1> DEFINE r == l[2]
           f == CF!File(fileSess[l].cur)
           s(v) == [fileSess[l] EXCEPT !.at = "admitted", !.outcome = v, !.filed = TRUE]
<1>1. fileSess[l] \in FileSession /\ FileKnows(l, fileSess[l]) /\ CF!Idle \in FileSession /\ FileKnows(l, CF!Idle)
    BY FileSessionType
<1>2. UNCHANGED <<fileOf, pub, dossier, due, fileEdits, fileFaults>> /\ fileFaults' \in 0..FileFaults
    BY DEF CF!Import, FileInv, CF!TypeOK
<1>3. CASE CF!Refuses(l)
    <2>1. fileSess' = [fileSess EXCEPT ![l] = CF!Idle] /\ UNCHANGED CF!custody
        BY <1>3 DEF CF!Import
    <2> QED
        BY <1>1, <1>2, <2>1, FileSessionStep
<1>4. CASE ~CF!Refuses(l)
    <2>1. fileSess[l].cur \in CF!Ids /\ due[l][fileSess[l].cur] # None
        BY <1>1 DEF CF!Import, FileKnows, FileBusy
    <2>2. r \in CF!Boards /\ f \in Files
        BY <2>1, FileLinkEnds DEF FileInv, FileLedger, FileOwed, FileOwable, CF!TypeOK, CF!File
    <2>3. PICK v \in CF!Outcomes : /\ lib' = [lib EXCEPT ![r][f] = v]
                                /\ source' = [source EXCEPT ![r][f] = IF @ = "none" THEN "circuitnet" ELSE @]
                                /\ fileSess' = [fileSess EXCEPT ![l].at = "admitted", ![l].outcome = v, ![l].filed = TRUE]
        BY <1>4 DEF CF!Import, CF!FilesAssumption, CF!Outcomes, CF!Statuses
    <2> HIDE DEF r, f
    <2>4. lib' \in [CF!Boards -> [Files -> CF!Statuses]]
          /\ source' \in [CF!Boards -> [Files -> {"none", "local", "circuitnet"}]]
        BY <2>2, <2>3 DEF FileInv, CF!TypeOK, CF!Outcomes
    <2>5. \A c \in CF!Boards, g \in Files : (source[c][g] = "local" => source'[c][g] = "local")
          /\ (lib'[c][g] # "absent" => source'[c][g] # "none")
        BY <2>2, <2>3 DEF FileInv, FileLedger, FileSourced, CF!TypeOK
    <2>6. FileLedger'
        <3>1. UNCHANGED <<fileOf, pub, due>>
            BY <1>2
        <3> QED
            BY <3>1, <2>4, <2>5, FileCustodyStep
    <2>7. s(v) \in FileSession /\ fileSess' = [fileSess EXCEPT ![l] = s(v)]
        BY <1>1, <2>3 DEF FileSession, CF!Places
    <2>8. FileKnows(l, s(v))
        BY <1>1 DEF CF!Import, FileKnows, FileBusy, FileSession
    <2> HIDE DEF s
    <2>9. CF!TypeOK'
        BY <1>2, <2>4, <2>7 DEF FileInv, CF!TypeOK, FileSession
    <2>10. FileAsked'
        BY <1>2, <2>7, <2>8 DEF FileInv, FileAsked, FileKnows, CF!TypeOK
    <2> QED
        BY <2>6, <2>9, <2>10 DEF FileInv
<1> QED
    BY <1>3, <1>4

-----------------------------------------------------------------------------
\* Steps that change delivery rows only.
LEMMA FileDueStep ==
    ASSUME FileInv, UNCHANGED <<CF!custody, fileOf, pub>>,
           \A m \in CF!Links, k \in CF!Ids : due'[m][k] # None => due[m][k] # None,
           \A m \in CF!Links, k \in CF!Ids : (due'[m][k] # None /\ due'[m][k].receipt # None)
              => pub[m[2]][k] # None /\ pub[m[2]][k].receipt = due'[m][k].receipt
    PROVE  FileLedger'
<1>1. FileDrawn' /\ FileSourced' /\ FileOwned' /\ CF!OriginIsLocal' /\ CF!EachHandHasFiledIt'
    BY DEF FileInv, FileLedger, FileDrawn, FileSourced, FileOwned, CF!OriginIsLocal, CF!EachHandHasFiledIt, CF!File, CF!custody
<1>2. FileOwed' /\ CF!ReceiptsAgree'
    BY DEF FileInv, FileLedger, FileOwed, FileOwable, CF!ReceiptsAgree
<1> QED
    BY <1>1, <1>2 DEF FileLedger

LEMMA FileAttemptStep == ASSUME CF!FilesAssumption, FileInv, NEW l \in CF!Links, CF!Attempt(l) PROVE FileInv'
<1> DEFINE id == CF!Min(fileSess[l].list)
           s == [fileSess[l] EXCEPT !.at = "offered", !.cur = id, !.list = @ \ {id}]
<1>1. fileSess[l] \in FileSession /\ FileKnows(l, fileSess[l])
    BY FileSessionType
<1>2. id \in fileSess[l].list /\ id \in CF!Ids
    <2>1. fileSess[l].list \in SUBSET Nat /\ fileSess[l].list # {} /\ fileSess[l].list \subseteq CF!Ids
        BY <1>1 DEF FileSession, CF!Ids, CF!Attempt, CF!FilesAssumption
    <2> QED
        BY <2>1, FileMinIsMember
<1>3. due' = [due EXCEPT ![l][id].tries = IF due[l][id].receipt = None THEN @ + 1 ELSE @]
      /\ fileSess' = [fileSess EXCEPT ![l] = s] /\ fileSess[l].at = "next"
      /\ UNCHANGED <<CF!custody, fileOf, pub, dossier, fileEdits, fileFaults>>
    BY DEF CF!Attempt
<1> HIDE DEF id
<1>4. due[l][id] # None /\ due[l][id] \in CF!Delivery
      /\ (due[l][id].receipt = None => due[l][id].tries < MaxAttempts)
    BY <1>1, <1>2 DEF FileKnows, FileInv, CF!TypeOK
<1>5. s \in FileSession
    <2>1. id \in 0..MaxIds
        BY <1>2 DEF CF!Ids, CF!FilesAssumption
    <2>2. fileSess[l].list \ {id} \in SUBSET CF!Ids
        BY <1>1 DEF FileSession
    <2> QED
        BY <1>1, <2>1, <2>2 DEF FileSession, CF!Places
<1> DEFINE row == [due[l][id] EXCEPT !.tries = IF due[l][id].receipt = None THEN @ + 1 ELSE @]
<1>6. row \in CF!Delivery /\ row.receipt = due[l][id].receipt /\ row # None
    BY <1>4 DEF CF!Delivery, CF!FilesAssumption
<1>7. \A m \in CF!Links, k \in CF!Ids : due'[m][k] = IF m = l /\ k = id THEN row ELSE due[m][k]
    BY <1>2, <1>3 DEF FileInv, CF!TypeOK
<1>8. due' \in [CF!Links -> [CF!Ids -> CF!Delivery \cup {None}]]
    <2>1. due' = [due EXCEPT ![l] = [due[l] EXCEPT ![id] = row]]
        BY <1>3
    <2> HIDE DEF row
    <2> QED
        BY <1>2, <1>6, <2>1 DEF FileInv, CF!TypeOK
<1> HIDE DEF row, s
<1>9. CF!TypeOK'
    BY <1>3, <1>5, <1>8 DEF FileInv, CF!TypeOK, FileSession, CF!custody
<1>10. FileLedger'
    <2>1. \A m \in CF!Links, k \in CF!Ids : due'[m][k] # None => due[m][k] # None
        BY <1>4, <1>7
    <2>2. \A m \in CF!Links, k \in CF!Ids : (due'[m][k] # None /\ due'[m][k].receipt # None)
              => pub[m[2]][k] # None /\ pub[m[2]][k].receipt = due'[m][k].receipt
        BY <1>4, <1>6, <1>7 DEF FileInv, FileLedger, CF!ReceiptsAgree
    <2>3. UNCHANGED <<CF!custody, fileOf, pub>>
        BY <1>3
    <2> QED
        BY <2>1, <2>2, <2>3, FileDueStep
<1>11. ASSUME NEW m \in CF!Links PROVE FileKnows(m, fileSess[m])'
    <2>1. CASE m = l
        <3>1. fileSess'[l] = s
            BY <1>3 DEF FileInv, CF!TypeOK
        <3>2. s.at = "offered" /\ s.cur = id /\ s.list = fileSess[l].list \ {id}
            BY <1>1 DEF s, FileSession
        <3>3. s.list \subseteq CF!Ids
            BY <1>1, <3>2 DEF FileSession
        <3>4. \A k \in s.list : due'[l][k] = due[l][k]
            BY <1>7, <3>2, <3>3
        <3>5. due'[l][id] # None
            BY <1>2, <1>6, <1>7
        <3> QED
            BY <2>1, <1>1, <1>2, <3>1, <3>2, <3>4, <3>5 DEF FileKnows, FileBusy
    <2>2. CASE m # l
        <3>1. fileSess'[m] = fileSess[m] /\ due'[m] = due[m] /\ pub' = pub
            BY <1>3, <2>2 DEF FileInv, CF!TypeOK
        <3> QED
            BY <3>1 DEF FileInv, FileAsked, FileKnows
    <2> QED
        BY <2>1, <2>2
<1> QED
    BY <1>9, <1>10, <1>11 DEF FileInv, FileAsked

LEMMA FileSettleStep == ASSUME CF!FilesAssumption, FileInv, NEW l \in CF!Links, CF!Settle(l) PROVE FileInv'
<1> DEFINE id == fileSess[l].cur
           s == [CF!Idle EXCEPT !.at = "next", !.list = fileSess[l].list]
           row == [due[l][id] EXCEPT !.receipt = IF @ = None THEN fileSess[l].outcome ELSE @]
<1>1. fileSess[l] \in FileSession /\ FileKnows(l, fileSess[l]) /\ CF!Idle \in FileSession
    BY FileSessionType
<1>2. id \in CF!Ids /\ due[l][id] # None /\ due[l][id] \in CF!Delivery
      /\ pub[l[2]][id] # None /\ fileSess[l].outcome = pub[l[2]][id].receipt
    BY <1>1 DEF CF!Settle, FileKnows, FileBusy, FileInv, CF!TypeOK
<1>3. due' = [due EXCEPT ![l][id].receipt = IF @ = None THEN fileSess[l].outcome ELSE @]
      /\ fileSess' = [fileSess EXCEPT ![l] = s]
      /\ UNCHANGED <<CF!custody, fileOf, pub, dossier, fileEdits, fileFaults>>
    BY DEF CF!Settle
<1>5. s \in FileSession
    BY <1>1 DEF FileSession, CF!Places, CF!Idle
<1>6. row \in CF!Delivery /\ row # None /\ row.tries = due[l][id].tries
      /\ (row.receipt = None => due[l][id].receipt = None)
      /\ (row.receipt # None => row.receipt = fileSess[l].outcome \/ row.receipt = due[l][id].receipt)
    <2>1. fileSess[l].outcome \in CF!Outcomes \cup {None}
        BY <1>1 DEF FileSession
    <2>2. row \in CF!Delivery
        BY <1>2, <2>1 DEF CF!Delivery
    <2> QED
        BY <1>2, <2>2 DEF CF!Delivery, CF!FilesAssumption
<1> HIDE DEF id
<1>7. \A m \in CF!Links, k \in CF!Ids : due'[m][k] = IF m = l /\ k = id THEN row ELSE due[m][k]
    BY <1>2, <1>3 DEF FileInv, CF!TypeOK
<1>8. due' \in [CF!Links -> [CF!Ids -> CF!Delivery \cup {None}]]
    <2>1. due' = [due EXCEPT ![l] = [due[l] EXCEPT ![id] = row]]
        BY <1>3
    <2> HIDE DEF row
    <2> QED
        BY <1>2, <1>6, <2>1 DEF FileInv, CF!TypeOK
<1> HIDE DEF row
<1>9. CF!TypeOK'
    <2> HIDE DEF s
    <2> QED
        BY <1>3, <1>5, <1>8 DEF FileInv, CF!TypeOK, FileSession, CF!custody
<1>10. FileLedger'
    <2>1. \A m \in CF!Links, k \in CF!Ids : due'[m][k] # None => due[m][k] # None
        BY <1>2, <1>7
    <2>2. \A m \in CF!Links, k \in CF!Ids : (due'[m][k] # None /\ due'[m][k].receipt # None)
              => pub[m[2]][k] # None /\ pub[m[2]][k].receipt = due'[m][k].receipt
        BY <1>2, <1>6, <1>7 DEF FileInv, FileLedger, CF!ReceiptsAgree
    <2>3. UNCHANGED <<CF!custody, fileOf, pub>>
        BY <1>3
    <2> QED
        BY <2>1, <2>2, <2>3, FileDueStep
<1>11. ASSUME NEW m \in CF!Links PROVE FileKnows(m, fileSess[m])'
    <2>1. CASE m = l
        <3>1. fileSess'[l] = s
            BY <1>3 DEF FileInv, CF!TypeOK
        <3>2. s.at = "next" /\ s.list = fileSess[l].list /\ s.list \subseteq CF!Ids
            BY <1>1 DEF FileSession, CF!Idle
        <3>3. \A k \in s.list : /\ due'[l][k] # None
                                /\ due'[l][k].receipt = None => due'[l][k].tries < MaxAttempts
            BY <1>1, <1>2, <1>6, <1>7, <3>2 DEF FileKnows
        <3> HIDE DEF s
        <3> QED
            BY <2>1, <3>1, <3>2, <3>3 DEF FileKnows, FileBusy
    <2>2. CASE m # l
        <3>1. fileSess'[m] = fileSess[m] /\ due'[m] = due[m] /\ pub' = pub
            BY <1>3, <2>2 DEF FileInv, CF!TypeOK
        <3> QED
            BY <3>1 DEF FileInv, FileAsked, FileKnows
    <2> QED
        BY <2>1, <2>2
<1> QED
    BY <1>9, <1>10, <1>11 DEF FileInv, FileAsked

LEMMA FileRetryStep ==
    ASSUME CF!FilesAssumption, FileInv, NEW l \in CF!Links, NEW id \in CF!Ids, CF!Retry(l, id) PROVE FileInv'
<1> DEFINE row == [due[l][id] EXCEPT !.tries = 0]
<1>2. due[l][id] # None /\ due[l][id] \in CF!Delivery
    BY DEF CF!Retry, FileInv, CF!TypeOK
<1>3. due' = [due EXCEPT ![l][id].tries = 0] /\ UNCHANGED <<CF!custody, fileOf, pub, dossier, fileSess, fileFaults>>
      /\ fileEdits' \in 0..FileEdits
    BY DEF CF!Retry, CF!Edit, FileInv, CF!TypeOK, CF!FilesAssumption
<1>4. fileSess[l].at = "idle" /\ fileSess[l].list = {}
    <2>1. l[1] \in {l[1], l[2]}
        OBVIOUS
    <2>2. fileSess[l].at = "idle"
        BY <2>1 DEF CF!Retry, CF!Stopped
    <2> QED
        BY <2>2 DEF FileInv, FileAsked, FileKnows
<1>6. row \in CF!Delivery /\ row # None /\ row.receipt = due[l][id].receipt
    <2>1. row \in CF!Delivery
        BY <1>2 DEF CF!Delivery, CF!FilesAssumption
    <2> QED
        BY <1>2, <2>1 DEF CF!Delivery, CF!FilesAssumption
<1>7. \A m \in CF!Links, k \in CF!Ids : due'[m][k] = IF m = l /\ k = id THEN row ELSE due[m][k]
    BY <1>2, <1>3 DEF FileInv, CF!TypeOK
<1>8. due' \in [CF!Links -> [CF!Ids -> CF!Delivery \cup {None}]]
    <2>1. due' = [due EXCEPT ![l] = [due[l] EXCEPT ![id] = row]]
        BY <1>3
    <2> HIDE DEF row
    <2> QED
        BY <1>2, <1>6, <2>1 DEF FileInv, CF!TypeOK
<1> HIDE DEF row
<1>9. CF!TypeOK'
    BY <1>3, <1>8 DEF FileInv, CF!TypeOK, CF!custody
<1>10. FileLedger'
    <2>1. \A m \in CF!Links, k \in CF!Ids : due'[m][k] # None => due[m][k] # None
        BY <1>2, <1>7
    <2>2. \A m \in CF!Links, k \in CF!Ids : (due'[m][k] # None /\ due'[m][k].receipt # None)
              => pub[m[2]][k] # None /\ pub[m[2]][k].receipt = due'[m][k].receipt
        BY <1>2, <1>6, <1>7 DEF FileInv, FileLedger, CF!ReceiptsAgree
    <2>3. UNCHANGED <<CF!custody, fileOf, pub>>
        BY <1>3
    <2> QED
        BY <2>1, <2>2, <2>3, FileDueStep
<1>11. ASSUME NEW m \in CF!Links PROVE FileKnows(m, fileSess[m])'
    <2>1. CASE m = l
        BY <2>1, <1>3, <1>4 DEF FileKnows, FileBusy
    <2>2. CASE m # l
        <3>1. fileSess'[m] = fileSess[m] /\ due'[m] = due[m] /\ pub' = pub
            BY <1>3, <2>2 DEF FileInv, CF!TypeOK
        <3> QED
            BY <3>1 DEF FileInv, FileAsked, FileKnows
    <2> QED
        BY <2>1, <2>2
<1> QED
    BY <1>9, <1>10, <1>11 DEF FileInv, FileAsked

LEMMA FileSubscribeStep == ASSUME CF!FilesAssumption, FileInv, NEW l \in CF!Links, CF!Subscribe(l) PROVE FileInv'
<1>1. dossier' = [dossier EXCEPT ![l] = ~@] /\ UNCHANGED <<CF!custody, fileOf, pub, due, fileSess, fileFaults>>
      /\ fileEdits' \in 0..FileEdits
    BY DEF CF!Subscribe, CF!Edit, FileInv, CF!TypeOK, CF!FilesAssumption
<1>2. CF!TypeOK'
    BY <1>1 DEF FileInv, CF!TypeOK, CF!custody
<1>3. FileLedger'
    <2>1. UNCHANGED <<CF!custody, fileOf, pub>>
        BY <1>1
    <2>2. \A m \in CF!Links, k \in CF!Ids : due'[m][k] = due[m][k]
        BY <1>1
    <2> QED
        BY <2>1, <2>2, FileDueStep DEF FileInv, FileLedger, CF!ReceiptsAgree
<1>4. FileAsked'
    BY <1>1 DEF FileInv, FileAsked, FileKnows
<1> QED
    BY <1>2, <1>3, <1>4 DEF FileInv

-----------------------------------------------------------------------------
\* What fanout adds: fresh rows for links that lead away from the origin.
LEMMA FileFanoutAdds ==
    ASSUME CF!FilesAssumption, FileInv, NEW b \in CF!Boards, NEW ids \in SUBSET CF!Ids,
           NEW origins \in [CF!Ids -> (CF!Boards \X Files) \cup {None}]
    PROVE  /\ CF!Fanout(b, ids, origins) \in [CF!Links -> [CF!Ids -> CF!Delivery \cup {None}]]
           /\ \A m \in CF!Links, k \in CF!Ids :
                \/ CF!Fanout(b, ids, origins)[m][k] = due[m][k]
                \/ /\ CF!Fanout(b, ids, origins)[m][k] = CF!Fresh
                   /\ due[m][k] = None /\ m[1] = b /\ k \in ids
                   /\ m[2] \notin CF!Path(origins[k][1], b)
<1>1. CF!Fresh \in CF!Delivery
    BY DEF CF!Fresh, CF!Delivery, CF!FilesAssumption
<1>2. due \in [CF!Links -> [CF!Ids -> CF!Delivery \cup {None}]]
    BY DEF FileInv, CF!TypeOK
<1> QED
    BY <1>1, <1>2 DEF CF!Fanout

LEMMA FileOwnIsARow ==
    ASSUME CF!FilesAssumption
    PROVE  CF!Own \in CF!Publication /\ CF!Own # None /\ CF!Own.filed /\ CF!Own.receipt = None
<1>1. CF!Own \in CF!Publication
    BY DEF CF!Own, CF!Publication
<1>2. CF!Own # None
    BY <1>1 DEF CF!FilesAssumption
<1> QED
    BY <1>1, <1>2 DEF CF!Own

LEMMA FileRecordStep == ASSUME CF!FilesAssumption, FileInv, NEW l \in CF!Links, CF!Record(l) PROVE FileInv'
<1> DEFINE r == l[2]
           id == fileSess[l].cur
           s == [fileSess[l] EXCEPT !.at = "receipt"]
           row == [receipt |-> fileSess[l].outcome, filed |-> fileSess[l].filed]
<1>1. fileSess[l] \in FileSession /\ FileKnows(l, fileSess[l]) /\ fileSess[l].at = "admitted"
    BY FileSessionType DEF CF!Record
<1>2. id \in CF!Ids /\ due[l][id] # None /\ pub[r][id] = None /\ r \in CF!Boards
    BY <1>1, FileLinkEnds DEF FileKnows, FileBusy
<1>3. FileOwable(l, id) /\ fileOf[id] \in CF!Boards \X Files /\ fileOf[id][1] \in CF!Boards
    BY <1>2 DEF FileInv, FileLedger, FileOwed, FileOwable, CF!TypeOK
<1>4. fileSess' = [fileSess EXCEPT ![l] = s] /\ UNCHANGED <<CF!custody, fileOf, dossier, fileEdits, fileFaults>>
    BY DEF CF!Record
<1>5. row \in CF!Publication /\ row # None /\ row.filed = fileSess[l].filed /\ row.receipt = fileSess[l].outcome
    <2>1. row \in CF!Publication
        BY <1>1 DEF FileSession, CF!Publication
    <2> QED
        BY <2>1 DEF CF!FilesAssumption
<1>6. pub' = [pub EXCEPT ![r][id] = row]
    BY <1>2 DEF CF!Record
<1>7. s \in FileSession /\ s.at = "receipt" /\ s.cur = id /\ s.list = fileSess[l].list /\ s.outcome = fileSess[l].outcome
    BY <1>1 DEF FileSession, CF!Places
<1> HIDE DEF id, row
<1>8. \A b \in CF!Boards, k \in CF!Ids : pub'[b][k] = IF b = r /\ k = id THEN row ELSE pub[b][k]
    BY <1>2, <1>6 DEF FileInv, CF!TypeOK
<1>9. pub' \in [CF!Boards -> [CF!Ids -> CF!Publication \cup {None}]]
    BY <1>2, <1>5, <1>6 DEF FileInv, CF!TypeOK
<1>10. /\ due' \in [CF!Links -> [CF!Ids -> CF!Delivery \cup {None}]]
       /\ \A m \in CF!Links, k \in CF!Ids :
            \/ due'[m][k] = due[m][k]
            \/ /\ due'[m][k] = CF!Fresh /\ due[m][k] = None /\ m[1] = r /\ k = id
               /\ m[2] \notin CF!Path(fileOf[id][1], r) /\ row.filed
    <2>1. CASE fileSess[l].outcome = "published"
        <3>1. due' = CF!Fanout(r, {id}, fileOf)
            BY <2>1 DEF CF!Record, id
        <3>2. row.filed
            BY <1>1, <1>5, <2>1 DEF FileKnows
        <3>3. {id} \in SUBSET CF!Ids /\ fileOf \in [CF!Ids -> (CF!Boards \X Files) \cup {None}]
            BY <1>2 DEF FileInv, CF!TypeOK
        <3> DEFINE rows == CF!Fanout(r, {id}, fileOf)
        <3> DEFINE one == {id}
        <3> HIDE DEF one
        <3>4. /\ CF!Fanout(r, one, fileOf) \in [CF!Links -> [CF!Ids -> CF!Delivery \cup {None}]]
              /\ \A m \in CF!Links, k \in CF!Ids :
                    \/ CF!Fanout(r, one, fileOf)[m][k] = due[m][k]
                    \/ /\ CF!Fanout(r, one, fileOf)[m][k] = CF!Fresh
                       /\ due[m][k] = None /\ m[1] = r /\ k \in one
                       /\ m[2] \notin CF!Path(fileOf[k][1], r)
            <4>1. one \in SUBSET CF!Ids
                BY <3>3 DEF one
            <4> HIDE DEF r
            <4> QED
                BY <1>2, <3>3, <4>1, FileFanoutAdds
        <3>6. /\ rows \in [CF!Links -> [CF!Ids -> CF!Delivery \cup {None}]]
              /\ \A m \in CF!Links, k \in CF!Ids :
                    \/ rows[m][k] = due[m][k]
                    \/ /\ rows[m][k] = CF!Fresh
                       /\ due[m][k] = None /\ m[1] = r /\ k \in {id}
                       /\ m[2] \notin CF!Path(fileOf[k][1], r)
            BY <3>4 DEF one
        <3> HIDE DEF rows
        <3>5. due' = rows
            BY <3>1 DEF rows
        <3> QED
            BY <3>2, <3>5, <3>6
    <2>2. CASE fileSess[l].outcome # "published"
        BY <2>2 DEF CF!Record, FileInv, CF!TypeOK
    <2> QED
        BY <2>1, <2>2
<1> HIDE DEF s
<1>11. CF!TypeOK'
    BY <1>4, <1>7, <1>9, <1>10 DEF FileInv, CF!TypeOK, FileSession, CF!custody
<1>12. FileDrawn' /\ FileSourced' /\ CF!OriginIsLocal'
    BY <1>3, <1>4, <1>8 DEF FileInv, FileLedger, FileDrawn, FileSourced, CF!OriginIsLocal, FileOwable, CF!File, CF!custody
<1>13. FileOwned'
    <2> SUFFICES ASSUME NEW k \in CF!Ids, fileOf[k] # None
                 PROVE  pub'[fileOf[k][1]][k] = CF!Own /\ source[fileOf[k][1]][CF!File(k)] = "local"
        BY <1>4 DEF FileOwned, CF!File, CF!custody
    <2>1. pub[fileOf[k][1]][k] = CF!Own /\ fileOf[k][1] \in CF!Boards /\ source[fileOf[k][1]][CF!File(k)] = "local"
        BY DEF FileInv, FileLedger, FileOwned, CF!TypeOK
    <2>2. CF!Own # None
        BY FileOwnIsARow
    <2> QED
        BY <1>2, <1>8, <2>1, <2>2
<1>14. ASSUME NEW m \in CF!Links, NEW k \in CF!Ids, pub[m[1]][k] # None
       PROVE  pub'[m[1]][k] = pub[m[1]][k]
    BY <1>2, <1>8, <1>14, FileLinkEnds
<1>15. FileOwed'
    <2> SUFFICES ASSUME NEW m \in CF!Links, NEW k \in CF!Ids, due'[m][k] # None
                 PROVE  /\ fileOf[k] # None /\ pub'[m[1]][k] # None /\ pub'[m[1]][k].filed
                        /\ m[2] \notin CF!Path(fileOf[k][1], m[1])
        BY <1>4 DEF FileOwed, FileOwable, CF!Path
    <2>1. CASE due'[m][k] = due[m][k]
        <3>1. FileOwable(m, k)
            BY <2>1 DEF FileInv, FileLedger, FileOwed
        <3> QED
            BY <1>14, <3>1 DEF FileOwable
    <2>2. CASE m[1] = r /\ k = id /\ m[2] \notin CF!Path(fileOf[id][1], r) /\ row.filed
        BY <1>2, <1>3, <1>5, <1>8, <2>2 DEF FileOwable
    <2> QED
        BY <1>10, <2>1, <2>2
<1>16. CF!ReceiptsAgree'
    <2> SUFFICES ASSUME NEW m \in CF!Links, NEW k \in CF!Ids, due'[m][k] # None, due'[m][k].receipt # None
                 PROVE  pub'[m[2]][k] # None /\ pub'[m[2]][k].receipt = due'[m][k].receipt
        BY DEF CF!ReceiptsAgree
    <2>1. due'[m][k] = due[m][k]
        BY <1>10 DEF CF!Fresh
    <2>2. pub[m[2]][k] # None /\ pub[m[2]][k].receipt = due[m][k].receipt
        BY <2>1 DEF FileInv, FileLedger, CF!ReceiptsAgree
    <2>3. pub'[m[2]][k] = pub[m[2]][k]
        BY <1>2, <1>8, <2>2, FileLinkEnds
    <2> QED
        BY <2>1, <2>2, <2>3
<1>17. CF!EachHandHasFiledIt'
    <2> SUFFICES ASSUME NEW b \in CF!Boards, NEW k \in CF!Ids, pub'[b][k] # None,
                        NEW n \in CF!Path(fileOf[k][1], b) \ {b}
                 PROVE  pub'[n][k] # None /\ pub'[n][k].filed
        BY <1>4 DEF CF!EachHandHasFiledIt, CF!Path
    <2>1. n \in CF!Boards
        BY DEF CF!Path
    <2>2. CASE pub[b][k] # None
        <3>1. pub[n][k] # None /\ pub[n][k].filed
            BY <2>2 DEF FileInv, FileLedger, CF!EachHandHasFiledIt
        <3> QED
            BY <1>2, <1>8, <2>1, <3>1
    <2>3. CASE b = r /\ k = id
        <3>1. n \in CF!Path(fileOf[id][1], l[1])
            BY <1>3, <2>3, FilePathGrows DEF FileOwable, CF!FilesAssumption
        <3>2. pub[l[1]][id] # None /\ pub[l[1]][id].filed
            BY <1>3 DEF FileOwable
        <3>3. pub[n][id] # None /\ pub[n][id].filed
            BY <1>2, <3>1, <3>2, FileLinkEnds DEF FileInv, FileLedger, CF!EachHandHasFiledIt
        <3> QED
            BY <1>2, <1>8, <2>1, <2>3, <3>3
    <2> QED
        BY <1>8, <2>2, <2>3
<1>18. ASSUME NEW m \in CF!Links PROVE FileKnows(m, fileSess[m])'
    <2>1. \A k \in CF!Ids : due[m][k] # None => due'[m][k] = due[m][k]
        BY <1>10
    <2>2. FileKnows(m, fileSess[m]) /\ fileSess[m].list \subseteq CF!Ids
        BY DEF FileInv, FileAsked, CF!TypeOK
    <2>3. CASE m = l
        <3>1. fileSess'[m] = s
            BY <1>4, <2>3 DEF FileInv, CF!TypeOK
        <3>2. pub'[r][id] = row
            BY <1>2, <1>8
        <3> QED
            BY <1>2, <1>5, <1>7, <2>1, <2>2, <2>3, <3>1, <3>2 DEF FileKnows, FileBusy
    <2>4. CASE m # l
        <3>1. fileSess'[m] = fileSess[m]
            BY <1>4, <2>4 DEF FileInv, CF!TypeOK
        <3>2. ASSUME fileSess[m].at \in {"want", "admitted"} PROVE pub'[m[2]][fileSess[m].cur] = None
            <4>1. fileSess[m].cur \in CF!Ids /\ due[m][fileSess[m].cur] # None /\ pub[m[2]][fileSess[m].cur] = None
                BY <2>2, <3>2 DEF FileKnows, FileBusy
            <4>2. FileOwable(m, fileSess[m].cur)
                BY <4>1 DEF FileInv, FileLedger, FileOwed
            <4>3. ~(m[2] = r /\ fileSess[m].cur = id)
                BY <1>3, <2>4, <4>2, FileOneWayIn DEF FileOwable, CF!FilesAssumption
            <4> QED
                BY <1>8, <4>1, <4>3, FileLinkEnds
        <3>3. ASSUME fileSess[m].at = "receipt"
              PROVE  pub'[m[2]][fileSess[m].cur] # None /\ fileSess[m].outcome = pub'[m[2]][fileSess[m].cur].receipt
            <4>1. fileSess[m].cur \in CF!Ids /\ pub[m[2]][fileSess[m].cur] # None
                  /\ fileSess[m].outcome = pub[m[2]][fileSess[m].cur].receipt
                BY <2>2, <3>3 DEF FileKnows, FileBusy
            <4>2. pub'[m[2]][fileSess[m].cur] = pub[m[2]][fileSess[m].cur]
                BY <1>2, <1>8, <4>1, FileLinkEnds
            <4> QED
                BY <4>1, <4>2
        <3>4. fileSess[m].at \in FileBusy => fileSess[m].cur \in CF!Ids /\ due[m][fileSess[m].cur] # None
            BY <2>2 DEF FileKnows
        <3> QED
            BY <2>1, <2>2, <3>1, <3>2, <3>3, <3>4 DEF FileKnows
    <2> QED
        BY <2>3, <2>4
<1> QED
    BY <1>11, <1>12, <1>13, <1>15, <1>16, <1>17, <1>18 DEF FileInv, FileAsked, FileLedger

-----------------------------------------------------------------------------
\* Publishing what the board has of its own, and owing it to its neighbors.
LEMMA FilePrepareStep ==
    ASSUME CF!FilesAssumption, FileInv, NEW b \in CF!Boards, CF!Prepare(b)
    PROVE  /\ fileOf' \in [CF!Ids -> (CF!Boards \X Files) \cup {None}]
           /\ pub' \in [CF!Boards -> [CF!Ids -> CF!Publication \cup {None}]]
           /\ due' \in [CF!Links -> [CF!Ids -> CF!Delivery \cup {None}]]
           /\ UNCHANGED <<CF!custody, dossier, fileEdits, fileFaults>>
           /\ FileLedger'
           /\ \A m \in CF!Links, k \in CF!Ids : due[m][k] # None => due'[m][k] = due[m][k] /\ fileOf[k] # None
           /\ \A c \in CF!Boards, k \in CF!Ids : fileOf[k] # None => pub'[c][k] = pub[c][k]
<1> DEFINE new == CF!Unpublished(b)
<1>1. PICK draw \in [new -> {id \in CF!Ids : fileOf[id] = None}] :
            /\ fileOf' = [id \in CF!Ids |-> IF id \in {draw[f] : f \in new}
                         THEN <<b, CHOOSE f \in new : draw[f] = id>> ELSE fileOf[id]]
            /\ pub' = [pub EXCEPT ![b] = [id \in CF!Ids |->
                         IF id \in {draw[f] : f \in new} THEN CF!Own ELSE @[id]]]
    BY DEF CF!Prepare
<1> DEFINE ids == {draw[f] : f \in new}
           nameOf == [id \in {draw[f] : f \in new} |-> CHOOSE f \in new : draw[f] = id]
<1>2. UNCHANGED <<CF!custody, dossier, fileEdits, fileFaults>> /\ due' = CF!Fanout(b, CF!Reconsidered(b)', fileOf')
    BY DEF CF!Prepare
<1>3. \A f \in new : f \in Files /\ lib[b][f] = "published" /\ source[b][f] # "circuitnet"
                     /\ \A id \in CF!Ids : pub[b][id] = CF!Own => fileOf[id] # <<b, f>>
    BY DEF CF!Unpublished
<1> HIDE DEF new
<1>4. \A id \in ids : id \in CF!Ids /\ fileOf[id] = None /\ nameOf[id] \in new /\ draw[nameOf[id]] = id
    OBVIOUS
<1>25. \A id \in ids : nameOf[id] = CHOOSE f \in new : draw[f] = id
    OBVIOUS
<1>26. \A k \in CF!Ids : fileOf'[k] = IF k \in ids THEN <<b, CHOOSE f \in new : draw[f] = k>> ELSE fileOf[k]
    BY <1>1
<1>27. fileOf' = [k \in CF!Ids |-> fileOf'[k]]
    BY <1>1
<1>5. pub' = [pub EXCEPT ![b] = [id \in CF!Ids |-> IF id \in ids THEN CF!Own ELSE pub[b][id]]]
    BY <1>1
<1> HIDE DEF ids, nameOf
<1>6. CF!Own \in CF!Publication /\ CF!Own # None /\ CF!Own.filed /\ CF!Own.receipt = None
    BY FileOwnIsARow
<1>7. \A c \in CF!Boards, k \in CF!Ids : pub'[c][k] = IF c = b /\ k \in ids THEN CF!Own ELSE pub[c][k]
    BY <1>5 DEF FileInv, CF!TypeOK
<1>8. \A k \in CF!Ids : fileOf'[k] = IF k \in ids THEN <<b, nameOf[k]>> ELSE fileOf[k]
    BY <1>25, <1>26
<1>9. fileOf' \in [CF!Ids -> (CF!Boards \X Files) \cup {None}]
    <2>1. \A k \in CF!Ids : fileOf'[k] \in (CF!Boards \X Files) \cup {None}
        <3> SUFFICES ASSUME NEW k \in CF!Ids PROVE fileOf'[k] \in (CF!Boards \X Files) \cup {None}
            OBVIOUS
        <3>1. fileOf[k] \in (CF!Boards \X Files) \cup {None}
            BY DEF FileInv, CF!TypeOK
        <3>2. k \in ids => <<b, nameOf[k]>> \in CF!Boards \X Files
            BY <1>3, <1>4
        <3> QED
            BY <1>8, <3>1, <3>2
    <2> QED
        BY <1>27, <2>1
<1>10. pub' \in [CF!Boards -> [CF!Ids -> CF!Publication \cup {None}]]
    BY <1>5, <1>6 DEF FileInv, CF!TypeOK
<1>11. \A k \in ids : <<b, nameOf[k]>> # None
    BY <1>3, <1>4 DEF CF!FilesAssumption
<1>12. \A c \in CF!Boards, k \in CF!Ids : k \in ids => pub[c][k] = None
    BY <1>4 DEF FileInv, FileLedger, FileDrawn
<1>13. \A m \in CF!Links, k \in CF!Ids : k \in ids => due[m][k] = None
    BY <1>4 DEF FileInv, FileLedger, FileOwed, FileOwable
<1>14. due' \in [CF!Links -> [CF!Ids -> CF!Delivery \cup {None}]]
       /\ \A m \in CF!Links, k \in CF!Ids :
                \/ due'[m][k] = due[m][k]
                \/ /\ due'[m][k] = CF!Fresh /\ due[m][k] = None /\ m[1] = b
                   /\ pub'[b][k] # None /\ pub'[b][k].filed
                   /\ m[2] \notin CF!Path(fileOf'[k][1], b)
    <2>1. CF!Reconsidered(b)' = {id \in CF!Ids : pub'[b][id] # None /\ pub'[b][id].filed /\ lib'[b][CF!File(id)'] = "published"}
        BY DEF CF!Reconsidered, CF!Published
    <2> DEFINE again == CF!Reconsidered(b)'
               origins == fileOf'
    <2>2. again \in SUBSET CF!Ids /\ \A k \in again : pub'[b][k] # None /\ pub'[b][k].filed
        BY <2>1
    <2>3. due' = CF!Fanout(b, again, origins)
        BY <1>2
    <2> HIDE DEF again, origins
    <2>6. again \in SUBSET CF!Ids
        BY <2>2
    <2>4. ASSUME NEW os \in [CF!Ids -> (CF!Boards \X Files) \cup {None}]
          PROVE  /\ CF!Fanout(b, again, os) \in [CF!Links -> [CF!Ids -> CF!Delivery \cup {None}]]
                 /\ \A m \in CF!Links, k \in CF!Ids :
                        \/ CF!Fanout(b, again, os)[m][k] = due[m][k]
                        \/ /\ CF!Fanout(b, again, os)[m][k] = CF!Fresh
                           /\ due[m][k] = None /\ m[1] = b /\ k \in again
                           /\ m[2] \notin CF!Path(os[k][1], b)
        BY <2>6, FileFanoutAdds
    <2>5. /\ due' \in [CF!Links -> [CF!Ids -> CF!Delivery \cup {None}]]
          /\ \A m \in CF!Links, k \in CF!Ids :
                        \/ due'[m][k] = due[m][k]
                        \/ /\ due'[m][k] = CF!Fresh
                           /\ due[m][k] = None /\ m[1] = b /\ k \in again
                           /\ m[2] \notin CF!Path(origins[k][1], b)
        BY <1>9, <2>3, <2>4 DEF origins
    <2> QED
        BY <2>2, <2>5 DEF origins
<1>15. \A m \in CF!Links, k \in CF!Ids : due[m][k] # None => due'[m][k] = due[m][k] /\ fileOf[k] # None
    BY <1>14 DEF FileInv, FileLedger, FileOwed, FileOwable
<1>16. \A c \in CF!Boards, k \in CF!Ids : fileOf[k] # None => pub'[c][k] = pub[c][k]
    BY <1>4, <1>7
<1>17. FileDrawn'
    BY <1>7, <1>8, <1>11 DEF FileInv, FileLedger, FileDrawn
<1>18. FileSourced'
    BY <1>2 DEF FileInv, FileLedger, FileSourced, CF!custody
<1>19. \A f \in new : source[b][f] = "local"
    BY <1>3 DEF FileInv, FileLedger, FileSourced, CF!TypeOK
<1>20. FileOwned'
    <2> SUFFICES ASSUME NEW k \in CF!Ids, fileOf'[k] # None
                 PROVE  pub'[fileOf'[k][1]][k] = CF!Own /\ source[fileOf'[k][1]][fileOf'[k][2]] = "local"
        BY <1>2 DEF FileOwned, CF!File, CF!custody
    <2>1. CASE k \in ids
        <3>0. fileOf'[k] = <<b, nameOf[k]>>
            BY <1>8, <2>1
        <3>1. fileOf'[k][1] = b /\ fileOf'[k][2] = nameOf[k] /\ nameOf[k] \in new
            BY <1>4, <2>1, <3>0
        <3>2. pub'[b][k] = CF!Own
            BY <1>7, <2>1
        <3> QED
            BY <1>19, <3>1, <3>2
    <2>2. CASE k \notin ids
        <3>1. fileOf'[k] = fileOf[k] /\ fileOf[k] \in CF!Boards \X Files
            BY <1>8, <2>2 DEF FileInv, CF!TypeOK
        <3> QED
            BY <1>7, <2>2, <3>1 DEF FileInv, FileLedger, FileOwned, CF!File
    <2> QED
        BY <2>1, <2>2
<1>21. FileOwed'
    <2> SUFFICES ASSUME NEW m \in CF!Links, NEW k \in CF!Ids, due'[m][k] # None
                 PROVE  /\ fileOf'[k] # None /\ pub'[m[1]][k] # None /\ pub'[m[1]][k].filed
                        /\ m[2] \notin CF!Path(fileOf'[k][1], m[1])
        BY DEF FileOwed, FileOwable, CF!Path
    <2>1. CASE due'[m][k] = due[m][k]
        <3>1. FileOwable(m, k) /\ k \notin ids
            BY <1>13, <2>1 DEF FileInv, FileLedger, FileOwed
        <3> QED
            BY <1>7, <1>8, <3>1, FileLinkEnds DEF FileOwable
    <2>2. CASE m[1] = b /\ pub'[b][k] # None /\ pub'[b][k].filed /\ m[2] \notin CF!Path(fileOf'[k][1], b)
        BY <1>17, <2>2 DEF FileDrawn
    <2> QED
        BY <1>14, <2>1, <2>2
<1>22. CF!ReceiptsAgree'
    <2> SUFFICES ASSUME NEW m \in CF!Links, NEW k \in CF!Ids, due'[m][k] # None, due'[m][k].receipt # None
                 PROVE  pub'[m[2]][k] # None /\ pub'[m[2]][k].receipt = due'[m][k].receipt
        BY DEF CF!ReceiptsAgree
    <2>1. due'[m][k] = due[m][k]
        BY <1>14 DEF CF!Fresh
    <2>2. pub[m[2]][k] # None /\ pub[m[2]][k].receipt = due[m][k].receipt
        BY <2>1 DEF FileInv, FileLedger, CF!ReceiptsAgree
    <2>3. pub'[m[2]][k] = pub[m[2]][k]
        BY <1>7, <1>12, <2>2, FileLinkEnds
    <2> QED
        BY <2>1, <2>2, <2>3
<1>23. CF!OriginIsLocal'
    <2>1. ASSUME NEW k \in CF!Ids, NEW j \in CF!Ids, fileOf'[k] # None, fileOf'[j] = fileOf'[k] PROVE j = k
        <3>1. CASE k \in ids /\ j \in ids
            <4>0. fileOf'[k] = <<b, nameOf[k]>> /\ fileOf'[j] = <<b, nameOf[j]>>
                BY <1>8, <3>1
            <4>1. nameOf[k] = nameOf[j]
                BY <2>1, <4>0
            <4> QED
                BY <1>4, <3>1, <4>1
        <3>2. CASE k \notin ids /\ j \notin ids
            BY <1>8, <2>1, <3>2 DEF FileInv, FileLedger, CF!OriginIsLocal
        <3>3. ASSUME NEW x \in ids, NEW y \in CF!Ids, y \notin ids, fileOf'[x] = fileOf'[y] PROVE FALSE
            <4>1. fileOf[y] = <<b, nameOf[x]>> /\ nameOf[x] \in new
                BY <1>4, <1>8, <3>3
            <4>2. fileOf[y] # None /\ fileOf[y][1] = b
                BY <1>11, <3>3, <4>1
            <4>3. pub[b][y] = CF!Own
                BY <3>3, <4>2 DEF FileInv, FileLedger, FileOwned
            <4> QED
                BY <1>3, <3>3, <4>1, <4>3
        <3> QED
            BY <2>1, <3>1, <3>2, <3>3
    <2>2. \A k \in CF!Ids : fileOf'[k] # None => source'[fileOf'[k][1]][fileOf'[k][2]] = "local"
        BY <1>20 DEF FileOwned, CF!File
    <2> QED
        BY <2>1, <2>2 DEF CF!OriginIsLocal, CF!File
<1>24. CF!EachHandHasFiledIt'
    <2> SUFFICES ASSUME NEW c \in CF!Boards, NEW k \in CF!Ids, pub'[c][k] # None,
                        NEW n \in CF!Path(fileOf'[k][1], c) \ {c}
                 PROVE  pub'[n][k] # None /\ pub'[n][k].filed
        BY DEF CF!EachHandHasFiledIt, CF!Path
    <2>1. n \in CF!Boards
        BY DEF CF!Path
    <2>2. CASE k \in ids
        <3>1. c = b /\ fileOf'[k][1] = b
            <4>1. c = b
                BY <1>7, <1>12, <2>2
            <4>2. fileOf'[k] = <<b, nameOf[k]>>
                BY <1>8, <2>2
            <4> QED
                BY <4>1, <4>2
        <3> QED
            BY <3>1, FileOwnPath DEF CF!FilesAssumption
    <2>3. CASE k \notin ids
        <3>1. pub[c][k] # None /\ n \in CF!Path(fileOf[k][1], c) \ {c}
            BY <1>7, <1>8, <2>3
        <3>2. pub[n][k] # None /\ pub[n][k].filed
            BY <3>1 DEF FileInv, FileLedger, CF!EachHandHasFiledIt
        <3> QED
            BY <1>7, <2>1, <2>3, <3>2
    <2> QED
        BY <2>2, <2>3
<1> QED
    BY <1>2, <1>9, <1>10, <1>14, <1>15, <1>16, <1>17, <1>18, <1>20, <1>21, <1>22, <1>23, <1>24 DEF FileLedger

\* A preparation takes nothing from what a session knows.
LEMMA FilePreparedSessions ==
    ASSUME CF!FilesAssumption, FileInv, NEW b \in CF!Boards, CF!Prepare(b), NEW l \in CF!Links, NEW s \in FileSession, FileKnows(l, s)
    PROVE  FileKnows(l, s)'
<1>1. /\ \A k \in CF!Ids : due[l][k] # None => due'[l][k] = due[l][k] /\ fileOf[k] # None
      /\ \A k \in CF!Ids : fileOf[k] # None => pub'[l[2]][k] = pub[l[2]][k]
    BY FilePrepareStep, FileLinkEnds
<1>2. s.list \subseteq CF!Ids
    BY DEF FileSession
<1> QED
    BY <1>1, <1>2 DEF FileKnows, FileBusy

LEMMA FileWakeStep == ASSUME CF!FilesAssumption, FileInv, NEW b \in CF!Boards, CF!Wake(b) PROVE FileInv'
<1>1. CF!Prepare(b) /\ fileSess' = fileSess
    BY DEF CF!Wake
<1>2. CF!TypeOK' /\ FileLedger'
    BY <1>1, FilePrepareStep DEF FileInv, CF!TypeOK, CF!custody
<1>3. ASSUME NEW m \in CF!Links PROVE FileKnows(m, fileSess[m])'
    <2> DEFINE s == fileSess[m]
    <2>1. s \in FileSession /\ FileKnows(m, s)
        BY FileSessionType
    <2>2. fileSess'[m] = s
        BY <1>1
    <2>3. ASSUME NEW t \in FileSession, t = s PROVE FileKnows(m, t)'
        BY <1>1, <2>1, <2>3, FilePreparedSessions
    <2> QED
        BY <2>1, <2>2, <2>3 DEF FileKnows
<1> QED
    BY <1>2, <1>3 DEF FileInv, FileAsked

LEMMA FilePollStep == ASSUME CF!FilesAssumption, FileInv, NEW l \in CF!Links, CF!Poll(l) PROVE FileInv'
<1> DEFINE s(m) == IF m = l THEN [fileSess[l] EXCEPT !.at = "list"] ELSE fileSess[m]
<1>1. CF!Prepare(l[1]) /\ fileSess' = [fileSess EXCEPT ![l].at = "list"] /\ fileSess[l].at = "idle" /\ l[1] \in CF!Boards
    BY FileLinkEnds DEF CF!Poll
<1>2. ASSUME NEW m \in CF!Links PROVE s(m) \in FileSession /\ FileKnows(m, s(m)) /\ fileSess'[m] = s(m)
    <2>1. fileSess[m] \in FileSession /\ FileKnows(m, fileSess[m]) /\ fileSess[l] \in FileSession /\ FileKnows(l, fileSess[l])
        BY FileSessionType
    <2>2. s(m) \in FileSession
        BY <2>1 DEF FileSession, CF!Places
    <2>3. FileKnows(m, s(m))
        BY <1>1, <2>1 DEF FileKnows, FileBusy, FileSession
    <2> QED
        BY <1>1, <2>2, <2>3 DEF FileInv, CF!TypeOK
<1>3. fileSess' = [m \in CF!Links |-> s(m)]
    BY <1>1 DEF FileInv, CF!TypeOK
<1> HIDE DEF s
<1>4. CF!TypeOK' /\ FileLedger'
    <2>1. fileSess' \in [CF!Links -> FileSession]
        BY <1>2, <1>3
    <2> QED
        BY <1>1, <2>1, FilePrepareStep DEF FileInv, CF!TypeOK, CF!custody, FileSession
<1>5. ASSUME NEW m \in CF!Links PROVE FileKnows(m, fileSess[m])'
    <2>1. ASSUME NEW t \in FileSession, t = s(m) PROVE FileKnows(m, t)'
        BY <1>1, <1>2, <2>1, FilePreparedSessions
    <2>2. \E t \in FileSession : t = s(m) /\ t = fileSess'[m]
        BY <1>2
    <2> QED
        BY <2>1, <2>2 DEF FileKnows
<1> QED
    BY <1>4, <1>5 DEF FileInv, FileAsked

-----------------------------------------------------------------------------
LEMMA FileInitInv == ASSUME CF!FilesAssumption, CF!Init PROVE FileInv
<1>1. CF!Idle \in FileSession /\ \A l \in CF!Links : FileKnows(l, CF!Idle)
    <2>1. CF!Idle \in FileSession
        BY DEF CF!Idle, FileSession, CF!Places, CF!FilesAssumption
    <2> QED
        BY <2>1 DEF FileKnows, CF!Idle, FileBusy
<1>2. CF!TypeOK
    BY <1>1 DEF CF!Init, CF!TypeOK, CF!Statuses, FileSession, CF!FilesAssumption
<1>3. FileLedger
    BY DEF CF!Init, FileLedger, FileDrawn, FileSourced, FileOwned, FileOwed, CF!ReceiptsAgree, CF!OriginIsLocal, CF!EachHandHasFiledIt
<1>4. FileAsked
    BY <1>1 DEF CF!Init, FileAsked
<1> QED
    BY <1>2, <1>3, <1>4 DEF FileInv

LEMMA FileInvNext == ASSUME CF!FilesAssumption, FileInv, [CF!Next]_(CF!vars) PROVE FileInv'
<1>1. CASE UNCHANGED CF!vars
    BY <1>1 DEF CF!vars, CF!custody, FileInv, CF!TypeOK, FileLedger, FileDrawn, FileSourced, FileOwned, FileOwed, FileOwable, CF!ReceiptsAgree, CF!OriginIsLocal,
       CF!EachHandHasFiledIt, CF!File, FileAsked, FileKnows
<1>2. ASSUME NEW b \in CF!Boards, NEW f \in Files, CF!Admit(b, f) PROVE FileInv'
    BY <1>2, FileAdmitStep
<1>3. ASSUME NEW b \in CF!Boards, CF!Wake(b) PROVE FileInv'
    BY <1>3, FileWakeStep
<1>4. ASSUME NEW l \in CF!Links, CF!Poll(l) PROVE FileInv'
    BY <1>4, FilePollStep
<1>5. ASSUME NEW l \in CF!Links, CF!Phase(l) PROVE FileInv'
    BY <1>5, FileListStep, FileAttemptStep, FileCloseStep, FileSettleStep, FileAnswerStep, FileImportStep, FileRecordStep DEF CF!Phase
<1>6. ASSUME NEW l \in CF!Links, CF!WrongHash(l) \/ CF!Break(l) \/ CF!Subscribe(l) PROVE FileInv'
    BY <1>6, FileWrongHashStep, FileBreakStep, FileSubscribeStep
<1>7. ASSUME NEW l \in CF!Links, NEW id \in CF!Ids, CF!Retry(l, id) PROVE FileInv'
    BY <1>7, FileRetryStep
<1>8. ASSUME NEW b \in CF!Boards, NEW f \in Files, NEW v \in {"published", "rejected"}, CF!Review(b, f, v) PROVE FileInv'
    BY <1>8, FileReviewStep
<1> QED
    BY <1>1, <1>2, <1>3, <1>4, <1>5, <1>6, <1>7, <1>8 DEF CF!Next

\* The inductive invariant holds of every run, for any line, files, identities and bounds.
THEOREM FilesInvariant == CF!FilesAssumption => (CF!Spec => []FileInv)
<1> SUFFICES ASSUME CF!FilesAssumption PROVE CF!Spec => []FileInv
    OBVIOUS
<1>1. CF!Init => FileInv
    BY FileInitInv
<1>2. FileInv /\ [CF!Next]_(CF!vars) => FileInv'
    BY FileInvNext
<1> QED
    BY <1>1, <1>2, PTL DEF CF!Spec

\* Every table of a board keeps its type, with identities drawn in any order, and each
\* session holds only what the file phase of an exchange may hold.
THEOREM FileTypeCorrect == CF!FilesAssumption => (CF!Spec => []CF!TypeOK)
<1>1. FileInv => CF!TypeOK
    BY DEF FileInv
<1> QED
    BY <1>1, FilesInvariant, PTL

\* A receipt that a sender has is the one its importer wrote, after any broken sessions,
\* repeated attempts and later reviews (circuitnet_file_record, Settle).
THEOREM ReceiptsAgreeHolds == CF!FilesAssumption => (CF!Spec => []CF!ReceiptsAgree)
<1>1. FileInv => CF!ReceiptsAgree
    BY DEF FileInv, FileLedger
<1> QED
    BY <1>1, FilesInvariant, PTL

\* A file enters circulation once, at a board that admitted it locally and never at one
\* that has it from the network (circuitnet_files_prepare).
THEOREM OriginIsLocalHolds == CF!FilesAssumption => (CF!Spec => []CF!OriginIsLocal)
<1>1. FileInv => CF!OriginIsLocal
    BY DEF FileInv, FileLedger
<1> QED
    BY <1>1, FilesInvariant, PTL

\* A board has a publication only if every board on its way has filed it, on lines of any
\* length (circuitnet_files_prepare, circuitnet_file_record).
THEOREM EachHandHasFiledItHolds == CF!FilesAssumption => (CF!Spec => []CF!EachHandHasFiledIt)
<1>1. FileInv => CF!EachHandHasFiledIt
    BY DEF FileInv, FileLedger
<1> QED
    BY <1>1, FilesInvariant, PTL

-----------------------------------------------------------------------------
(***************************************************************************)
(* Proofs about CircuitControl, for any requests, operators, faults and     *)
(* batch limit.                                                             *)
(*                                                                         *)
(* What makes a request act once is that a row of the parent is answered   *)
(* anew only while it is absent or pending, and then has changed nothing;  *)
(* the invariant says so of the parent and of its copy.  Both ends keep    *)
(* one answer because a final answer of the parent never changes, and what *)
(* travels or is on record at the child, or in its copy, came from there.  *)
(***************************************************************************)
CONSTANTS Requests, Operations, Limit, Policies, Snapshots, MaxEdits, ControlFaults
VARIABLES controlChild, controlParent, controlAvail, controlSess, controlBackup,
    controlEdits, controlFaults
CC == INSTANCE CircuitControl WITH MaxFaults <- ControlFaults, child <- controlChild,
    parent <- controlParent, avail <- controlAvail, sess <- controlSess,
    backup <- controlBackup, edits <- controlEdits, faults <- controlFaults

\* The instance counts as the standard module does.
LEMMA ControlCounts == \A S : CC!Cardinality(S) = Cardinality(S) /\ (CC!IsFiniteSet(S) <=> IsFiniteSet(S))
BY DEF CC!Cardinality, Cardinality, CC!IsFiniteSet, IsFiniteSet

\* A child's table: its order lists its rows, and what is settled is final.
ControlOrdered(c) ==
    /\ CC!ToSet(c.order) = {r \in Requests : c.out[r] # None}
    /\ \A r \in Requests : c.out[r] # None /\ c.out[r].settled => c.out[r].result.outcome \in CC!Terminal

\* A request that is absent or pending at the parent has changed nothing yet.
ControlOpen(p, r) == p.in[r] = None \/ p.in[r].result.outcome = "pending-approval"
ControlOnce(p) == \A r \in Requests : p.changes[r] <= 1 /\ (ControlOpen(p, r) => p.changes[r] = 0)

\* What somebody has been told as final is the parent's answer.
ControlAgree(p, r, result) == result.outcome \in CC!Terminal => p.in[r] # None /\ p.in[r].result = result
ControlRecorded(p, c) == \A r \in Requests : c.out[r] # None => ControlAgree(p, r, c.out[r].result)

ControlChildTyped == controlChild \in CC!Child /\ ControlOrdered(controlChild) /\ controlAvail \in BOOLEAN
ControlParentTyped == controlParent \in CC!Parent /\ ControlOnce(controlParent)
ControlSessTyped ==
    /\ controlSess.at \in {"idle", "requests", "results"}
    /\ controlSess.batch \subseteq {r \in Requests : controlChild.out[r] # None}
    /\ IsFiniteSet(controlSess.batch) /\ Cardinality(controlSess.batch) <= Limit
    /\ controlSess.results \in [Requests -> CC!Result \cup {None}]
    /\ \A r \in Requests : controlSess.results[r] # None =>
          r \in controlSess.batch /\ ControlAgree(controlParent, r, controlSess.results[r])
    /\ controlSess.at = "results" => \A r \in controlSess.batch : controlSess.results[r] # None
ControlSaved ==
    /\ controlBackup.child # None => controlBackup.child \in CC!Child /\ ControlOrdered(controlBackup.child)
    /\ controlBackup.parent # None => controlBackup.parent \in CC!Parent /\ ControlOnce(controlBackup.parent)
ControlCounted == controlEdits \in 0 .. MaxEdits /\ controlFaults \in 0 .. ControlFaults
ControlTold == "parent" \notin Snapshots =>
    /\ ControlRecorded(controlParent, controlChild) /\ controlBackup.parent = None
    /\ controlBackup.child # None => ControlRecorded(controlParent, controlBackup.child)
ControlInv == ControlChildTyped /\ ControlParentTyped /\ ControlSessTyped /\ ControlSaved /\ ControlCounted /\ ControlTold

-----------------------------------------------------------------------------
LEMMA ControlSaysIs == ASSUME NEW o \in CC!Outcomes PROVE CC!Says(o) \in CC!Result /\ CC!Says(o).outcome = o
BY DEF CC!Says, CC!Result

LEMMA ControlOutcomesAre ==
    ASSUME NEW op \in CC!Ops, ControlChildTyped, ControlParentTyped
    PROVE  CC!Outcome(op) \in CC!Outcomes /\ CC!FirstOutcome(op) \in CC!Outcomes
<1>1. controlParent.dossier \in BOOLEAN /\ CC!Wants(op) \in BOOLEAN /\ controlAvail \in BOOLEAN
      /\ controlParent.policy \in {"require-approval", "auto-approve", "deny"}
    BY DEF ControlParentTyped, CC!Parent, CC!Wants, ControlChildTyped
<1>2. CC!Outcome(op) \in CC!Outcomes
    BY <1>1 DEF CC!Outcome, CC!Outcomes, CC!Terminal
<1> QED
    BY <1>1, <1>2 DEF CC!FirstOutcome, CC!Outcomes, CC!Terminal

\* An answer fills one row, and changes the dossier only as an applied request.
LEMMA ControlAnsweredIs ==
    ASSUME CC!ControlAssumption, ControlParentTyped, NEW r \in Requests, NEW op \in CC!Ops,
           NEW outcome \in CC!Outcomes, ControlOpen(controlParent, r)
    PROVE  LET after == CC!Answered(r, op, outcome)
           IN  /\ after \in CC!Parent /\ ControlOnce(after)
               /\ after.in[r] # None /\ after.in[r].result \in CC!Result
               /\ \A q \in Requests : q # r => after.in[q] = controlParent.in[q]
<1> DEFINE after == CC!Answered(r, op, outcome)
           answer == [op |-> op, result |-> [outcome |-> outcome,
                                             listed |-> op = "query" /\ controlParent.dossier]]
<1>1. answer \in CC!Incoming /\ answer.result \in CC!Result /\ answer # None
      /\ answer.result.outcome = outcome
  <2>1. (op = "query" /\ controlParent.dossier) \in BOOLEAN
      OBVIOUS
  <2>2. answer.result \in CC!Result /\ answer.result.outcome = outcome
      BY <2>1 DEF CC!Result
  <2> DEFINE said == [outcome |-> outcome, listed |-> op = "query" /\ controlParent.dossier]
  <2>3. answer = [op |-> op, result |-> said] /\ answer.result = said
      OBVIOUS
  <2> HIDE DEF answer, said
  <2>4. answer \in CC!Incoming
      BY <2>2, <2>3 DEF CC!Incoming
  <2> QED BY <2>2, <2>4 DEF CC!ControlAssumption
<1>2. /\ controlParent \in CC!Parent /\ ControlOnce(controlParent) /\ controlParent.in \in [Requests -> CC!Incoming \cup {None}]
      /\ controlParent.changes \in [Requests -> Nat] /\ controlParent.changes[r] = 0 /\ CC!Wants(op) \in BOOLEAN
    BY DEF ControlParentTyped, CC!Parent, ControlOnce, CC!Wants
<1>3. after.in = [controlParent.in EXCEPT ![r] = answer]
    BY DEF CC!Answered
<1> HIDE DEF answer
<1>4. /\ after.in \in [Requests -> CC!Incoming \cup {None}] /\ after.in[r] = answer
      /\ \A q \in Requests : q # r => after.in[q] = controlParent.in[q]
    BY <1>1, <1>2, <1>3
<1>5. /\ after.changes \in [Requests -> Nat]
      /\ after.changes[r] <= 1 /\ (outcome # "applied" => after.changes[r] = 0)
      /\ \A q \in Requests : q # r => after.changes[q] = controlParent.changes[q]
    BY <1>2 DEF CC!Answered
<1>6. after \in CC!Parent
    BY <1>2, <1>4, <1>5 DEF CC!Parent, CC!Answered
<1>7. ControlOnce(after)
    BY <1>1, <1>2, <1>4, <1>5 DEF ControlOnce, ControlOpen
<1> QED
    BY <1>1, <1>4, <1>6, <1>7

\* The parent's answers stand: only an open row is answered, and no row disappears.
ControlStands == \A r \in Requests :
    controlParent'.in[r] = controlParent.in[r] \/ (ControlOpen(controlParent, r) /\ controlParent'.in[r] # None)
LEMMA ControlStandsKeeps ==
    ASSUME ControlStands, NEW r \in Requests, NEW result, ControlAgree(controlParent, r, result)
    PROVE  ControlAgree(controlParent', r, result)
BY DEF ControlStands, ControlAgree, ControlOpen, CC!Terminal

LEMMA ControlToEndIs ==
    ASSUME NEW order \in Seq(Requests), NEW r \in CC!ToSet(order)
    PROVE  /\ CC!ToEnd(order, r) \in Seq(Requests)
           /\ CC!ToSet(CC!ToEnd(order, r)) = CC!ToSet(order)
<1> DEFINE at == CHOOSE i \in DOMAIN order : order[i] = r
           others == CC!RemoveAt(order, at)
<1>1. at \in DOMAIN order /\ order[at] = r /\ r \in Requests
    BY DEF CC!ToSet
<1> HIDE DEF at
<1>2. /\ others \in Seq(Requests) /\ Len(others) = Len(order) - 1
      /\ \A i \in 1 .. Len(order) - 1 : others[i] = IF i < at THEN order[i] ELSE order[i + 1]
  <2> DEFINE front == SubSeq(order, 1, at - 1)
             back == SubSeq(order, at + 1, Len(order))
  <2>1. /\ front \in Seq(Requests) /\ Len(front) = at - 1
        /\ \A i \in 1 .. at - 1 : front[i] = order[i]
      BY <1>1
  <2>2. /\ back \in Seq(Requests) /\ Len(back) = Len(order) - at
        /\ \A i \in 1 .. Len(order) - at : back[i] = order[at + i]
      BY <1>1
  <2>3. others = front \o back /\ at \in 1 .. Len(order) /\ Len(order) \in Nat
      BY <1>1 DEF CC!RemoveAt
  <2> HIDE DEF front, back, others
  <2>4. /\ others \in Seq(Requests) /\ Len(others) = Len(order) - 1
        /\ \A i \in 1 .. Len(front) + Len(back) :
              others[i] = IF i <= Len(front) THEN front[i] ELSE back[i - Len(front)]
    <3>1. /\ others \in Seq(Requests) /\ Len(others) = Len(front) + Len(back)
          /\ \A i \in 1 .. Len(front) + Len(back) :
                others[i] = IF i <= Len(front) THEN front[i] ELSE back[i - Len(front)]
        BY <2>1, <2>2, <2>3, ConcatProperties
    <3> QED BY <2>1, <2>2, <2>3, <3>1
  <2>5. ASSUME NEW i \in 1 .. Len(order) - 1
        PROVE  others[i] = IF i < at THEN order[i] ELSE order[i + 1]
    <3>1. i \in Int /\ at \in Int /\ Len(order) \in Int
        BY <2>3
    <3>2. CASE i < at
        BY <2>1, <2>2, <2>3, <2>4, <3>1, <3>2
    <3>3. CASE ~(i < at)
      <4> DEFINE k == i - (at - 1)
      <4>1. k \in 1 .. Len(order) - at /\ at + k = i + 1
          BY <2>3, <3>1, <3>3
      <4>2. others[i] = back[k]
          BY <2>1, <2>2, <2>3, <2>4, <3>1, <3>3
      <4> HIDE DEF k
      <4>3. back[k] = order[at + k]
          BY <2>2, <4>1
      <4> QED BY <3>3, <4>1, <4>2, <4>3
    <3> QED BY <3>2, <3>3
  <2> QED BY <2>4, <2>5
<1>3. CC!ToEnd(order, r) = Append(others, r)
    BY DEF CC!ToEnd, at
<1> HIDE DEF others
<1>4. /\ CC!ToEnd(order, r) \in Seq(Requests) /\ Len(CC!ToEnd(order, r)) = Len(order)
      /\ \A i \in 1 .. Len(order) - 1 : CC!ToEnd(order, r)[i] = others[i]
      /\ CC!ToEnd(order, r)[Len(order)] = r
    BY <1>1, <1>2, <1>3
<1>5. ASSUME NEW q \in CC!ToSet(order) PROVE q \in CC!ToSet(CC!ToEnd(order, r))
  <2>1. PICK i \in 1 .. Len(order) : order[i] = q
      BY <1>5 DEF CC!ToSet
  <2>2. CASE i = at
      BY <1>1, <1>4, <2>1, <2>2 DEF CC!ToSet
  <2>3. CASE i < at
      BY <1>1, <1>2, <1>4, <2>1, <2>3 DEF CC!ToSet
  <2>4. CASE i > at
    <3>1. i - 1 \in 1 .. Len(order) - 1 /\ others[i - 1] = order[i]
        BY <1>1, <1>2, <2>1, <2>4
    <3> QED BY <1>4, <2>1, <3>1 DEF CC!ToSet
  <2> QED BY <1>1, <2>1, <2>2, <2>3, <2>4
<1>6. ASSUME NEW q \in CC!ToSet(CC!ToEnd(order, r)) PROVE q \in CC!ToSet(order)
  <2>1. PICK i \in 1 .. Len(order) : CC!ToEnd(order, r)[i] = q
      BY <1>4, <1>6 DEF CC!ToSet
  <2>2. Len(order) \in Nat /\ at \in 1 .. Len(order)
      BY <1>1
  <2>3. CASE i = Len(order)
      BY <1>1, <1>4, <2>1, <2>3
  <2>4. CASE i # Len(order)
    <3>1. i \in 1 .. Len(order) - 1 /\ others[i] = q
        BY <1>4, <2>1, <2>2, <2>4
    <3>2. \E k \in 1 .. Len(order) : order[k] = q
        BY <1>2, <2>2, <3>1
    <3> QED BY <3>2 DEF CC!ToSet
  <2> QED BY <2>3, <2>4
<1> QED
    BY <1>4, <1>5, <1>6

\* A batch carries rows of the child, as many as the limit allows.
LEMMA ControlPendingIs ==
    ASSUME CC!ControlAssumption, ControlChildTyped
    PROVE  /\ CC!Pending \subseteq {r \in Requests : controlChild.out[r] # None}
           /\ IsFiniteSet(CC!Pending) /\ Cardinality(CC!Pending) <= Limit
<1> DEFINE order == controlChild.order
           upTo(k) == {j \in CC!Unsettled : j <= k}
           K == {k \in CC!Unsettled : Cardinality(upTo(k)) <= Limit}
           place == [r \in CC!Pending |-> CHOOSE k \in K : order[k] = r]
           rank == [r \in CC!Pending |-> Cardinality(upTo(place[r]))]
<1>1. order \in Seq(Requests) /\ CC!ToSet(order) = {r \in Requests : controlChild.out[r] # None}
      /\ Limit \in Nat
    BY DEF ControlChildTyped, CC!Child, ControlOrdered, CC!ControlAssumption
<1>2. /\ CC!Unsettled \subseteq 1 .. Len(order) /\ Len(order) \in Nat
      /\ \A k \in CC!Unsettled : k \in Int /\ 1 <= k /\ k <= Len(order)
    BY <1>1 DEF CC!Unsettled
<1>3. CC!Pending = {order[k] : k \in K}
    BY ControlCounts DEF CC!Pending
<1>4. CC!Pending \subseteq {r \in Requests : controlChild.out[r] # None}
    BY <1>1, <1>2, <1>3 DEF CC!ToSet, CC!Unsettled
<1>5. ASSUME NEW k \in CC!Unsettled
      PROVE  IsFiniteSet(upTo(k)) /\ Cardinality(upTo(k)) \in Nat /\ Cardinality(upTo(k)) >= 1
  <2>1. k \in Int /\ upTo(k) \in SUBSET (1 .. Len(order)) /\ 1 \in Int /\ Len(order) \in Int
    <3>1. upTo(k) \subseteq CC!Unsettled
        OBVIOUS
    <3> HIDE DEF upTo
    <3>2. upTo(k) \subseteq 1 .. Len(order)
        BY <1>2, <3>1
    <3> QED BY <1>2, <1>5, <3>2
  <2>2. k \in upTo(k)
      BY <1>5, <2>1
  <2>3. IsFiniteSet(1 .. Len(order))
      BY <2>1, FS_Interval
  <2>4. IsFiniteSet(upTo(k)) /\ upTo(k) # {}
      BY <2>1, <2>2, <2>3, FS_Subset
  <2> QED BY <2>4, FS_CardinalityType, FS_EmptySet
<1>6. ASSUME NEW i \in CC!Unsettled, NEW k \in CC!Unsettled, i < k
      PROVE  Cardinality(upTo(i)) # Cardinality(upTo(k))
  <2>0. i \in Int /\ k \in Int /\ \A j \in CC!Unsettled : j \in Int
      BY <1>2
  <2>1. ASSUME NEW j \in upTo(i) PROVE j \in upTo(k)
    <3>1. j \in CC!Unsettled /\ j <= i
        OBVIOUS
    <3>2. j \in Int /\ j <= k
        BY <1>6, <2>0, <3>1
    <3> QED BY <3>1, <3>2
  <2>2. k \in upTo(k)
      BY <2>0
  <2>3. ~(k <= i)
      BY <1>6, <2>0
  <2>4. k \notin upTo(i)
      BY <2>3
  <2>5. upTo(i) \in SUBSET upTo(k) /\ upTo(i) # upTo(k) /\ IsFiniteSet(upTo(k))
      BY <1>5, <2>1, <2>2, <2>4
  <2> HIDE DEF upTo
  <2> QED BY <2>5, FS_Subset
<1>7. \A r \in CC!Pending : place[r] \in K /\ order[place[r]] = r
    BY <1>3
<1> HIDE DEF upTo, place
<1>8. ASSUME NEW r \in CC!Pending PROVE rank[r] \in 1 .. Limit
    BY <1>1, <1>5, <1>7
<1>9. ASSUME NEW r \in CC!Pending, NEW q \in CC!Pending, rank[r] = rank[q] PROVE r = q
  <2>1. place[r] \in CC!Unsettled /\ place[q] \in CC!Unsettled
      BY <1>7
  <2>2. place[r] = place[q]
    <3>1. place[r] \in Int /\ place[q] \in Int
        BY <1>2, <2>1
    <3>2. rank[r] = Cardinality(upTo(place[r])) /\ rank[q] = Cardinality(upTo(place[q]))
        OBVIOUS
    <3> QED BY <1>6, <1>9, <2>1, <3>1, <3>2
  <2> QED BY <1>7, <2>2
<1>10. rank \in Injection(CC!Pending, 1 .. Limit)
  <2>1. rank \in [CC!Pending -> 1 .. Limit]
      BY <1>8
  <2> HIDE DEF rank
  <2> QED BY <1>9, <2>1 DEF Injection, IsInjective
<1>11. IsFiniteSet(1 .. Limit) /\ Cardinality(1 .. Limit) = Limit
  <2>1. Limit \in Nat \ {0} /\ 1 \in Int /\ Limit \in Int
      BY DEF CC!ControlAssumption
  <2>2. IsFiniteSet(1 .. Limit) /\ Cardinality(1 .. Limit) = IF 1 > Limit THEN 0 ELSE Limit - 1 + 1
      BY <2>1, FS_Interval
  <2> QED BY <2>1, <2>2
<1> QED
    BY <1>4, <1>10, <1>11, FS_Injection

-----------------------------------------------------------------------------
\* Where neither the parent's answers nor the child's rows are disturbed, what was told
\* still agrees.
LEMMA ControlStillTold ==
    ASSUME ControlTold, ControlStands, UNCHANGED controlBackup,
           \A r \in Requests : controlChild'.out[r] # None =>
               \/ controlChild.out[r] # None /\ controlChild'.out[r].result = controlChild.out[r].result
               \/ ControlAgree(controlParent', r, controlChild'.out[r].result)
    PROVE  ControlTold'
<1> SUFFICES ASSUME "parent" \notin Snapshots
             PROVE  ControlRecorded(controlParent', controlChild') /\ controlBackup'.parent = None
                    /\ (controlBackup'.child # None => ControlRecorded(controlParent', controlBackup'.child))
    BY DEF ControlTold
<1>1. ControlRecorded(controlParent,
controlChild) /\ controlBackup.parent = None /\ (controlBackup.child # None => ControlRecorded(controlParent, controlBackup.child))
    BY DEF ControlTold
<1>2. ControlRecorded(controlParent', controlChild')
    BY <1>1, ControlStandsKeeps DEF ControlRecorded
<1>3. controlBackup.child # None => ControlRecorded(controlParent', controlBackup'.child)
    BY <1>1, ControlStandsKeeps DEF ControlRecorded
<1> QED
    BY <1>1, <1>2, <1>3

\* Every step keeps the invariant, and no step but a restore takes back a final result.
LEMMA ControlStep == ASSUME CC!ControlAssumption, ControlInv, CC!Next PROVE ControlInv' /\ CC!TerminalStays
<1>a. ControlChildTyped /\ ControlParentTyped /\ ControlSessTyped /\ ControlSaved /\ ControlCounted /\ ControlTold
    BY DEF ControlInv
<1>b. /\ controlChild \in CC!Child /\ ControlOrdered(controlChild) /\ controlParent \in CC!Parent /\ ControlOnce(controlParent)
      /\ controlChild.out \in [Requests -> CC!Outgoing \cup {None}] /\ controlChild.order \in Seq(Requests)
      /\ controlParent.in \in [Requests -> CC!Incoming \cup {None}]
      /\ MaxEdits \in Nat /\ ControlFaults \in Nat /\ Limit \in Nat /\ None \notin CC!Outgoing
      /\ IsFiniteSet({}) /\ Cardinality({}) = 0
    BY <1>a, FS_EmptySet DEF ControlChildTyped, CC!Child, ControlParentTyped, CC!Parent, CC!ControlAssumption
<1>c. ASSUME NEW r \in Requests, controlChild.out[r] # None
      PROVE  controlChild.out[r] \in CC!Outgoing /\ controlChild.out[r].op \in CC!Ops
             /\ controlChild.out[r].result \in CC!Result /\ controlChild.out[r].settled \in BOOLEAN
    BY <1>b, <1>c DEF CC!Outgoing
<1>d. controlParent'.in = controlParent.in => ControlStands
    BY DEF ControlStands
<1>e. /\ CC!Idle.at = "idle" /\ CC!Idle.batch = {} /\ \A r \in Requests : CC!Idle.results[r] = None
      /\ CC!Idle.results \in [Requests -> CC!Result \cup {None}]
    BY DEF CC!Idle
<1>f. controlSess' = CC!Idle => ControlSessTyped'
  <2> SUFFICES ASSUME controlSess' = CC!Idle PROVE ControlSessTyped'
      OBVIOUS
  <2>1. /\ controlSess'.at = "idle" /\ controlSess'.batch = {} /\ \A r \in Requests : controlSess'.results[r] = None
        /\ controlSess'.results \in [Requests -> CC!Result \cup {None}]
      BY <1>e
  <2> QED BY <1>b, <2>1 DEF ControlSessTyped
<1>1. ASSUME NEW r \in Requests, NEW op \in Operations, CC!Request(r,
op) PROVE ControlInv' /\ CC!TerminalStays
  <2>1. UNCHANGED <<controlParent, controlAvail, controlSess, controlBackup, controlEdits, controlFaults>> /\ controlChild.out[r] = None
      BY <1>1 DEF CC!Request, CC!New
  <2>2. /\ controlChild'.out \in [Requests -> CC!Outgoing \cup {None}] /\ controlChild'.out[r] # None
        /\ controlChild'.out[r].result.outcome = "accepted" /\ controlChild'.out[r].settled = FALSE
        /\ \A q \in Requests : q # r => controlChild'.out[q] = controlChild.out[q]
    <3> DEFINE new == [op |-> op, result |-> CC!Says("accepted"), settled |-> FALSE]
    <3>1. CC!Says("accepted") \in CC!Result /\ CC!Says("accepted").outcome = "accepted"
        BY ControlSaysIs DEF CC!Outcomes
    <3>2. new \in CC!Outgoing
      <4>1. op \in CC!Ops
          BY DEF CC!ControlAssumption
      <4> QED BY <3>1, <4>1 DEF CC!Outgoing
    <3>3. new.result.outcome = "accepted" /\ new.settled = FALSE
        BY <3>1
    <3>4. controlChild'.out = [controlChild.out EXCEPT ![r] = new]
        BY <1>1 DEF CC!Request
    <3> HIDE DEF new
    <3>5. new # None
        BY <1>b, <3>2
    <3> QED BY <1>b, <3>2, <3>3, <3>4, <3>5
  <2>3. /\ controlChild'.order \in Seq(Requests)
        /\ CC!ToSet(controlChild'.order) = CC!ToSet(controlChild.order) \cup {r}
    <3>1. /\ controlChild'.order = Append(controlChild.order, r) /\ controlChild'.order \in Seq(Requests)
          /\ Len(controlChild'.order) = Len(controlChild.order) + 1 /\ controlChild'.order[Len(controlChild.order) + 1] = r
          /\ \A i \in 1 .. Len(controlChild.order) : controlChild'.order[i] = controlChild.order[i]
        BY <1>1, <1>b DEF CC!Request
    <3>2. DOMAIN controlChild.order = 1 .. Len(controlChild.order) /\ Len(controlChild.order) \in Nat
          /\ DOMAIN controlChild'.order = 1 .. Len(controlChild.order) + 1
        BY <1>b, <3>1
    <3> QED BY <3>1, <3>2 DEF CC!ToSet
  <2>4. controlChild' \in CC!Child
      BY <1>1, <2>2, <2>3 DEF CC!Child, CC!Request
  <2>5. ControlOrdered(controlChild')
      BY <1>b, <2>1, <2>2, <2>3 DEF ControlOrdered, CC!Terminal
  <2>6. ControlStands
      BY <1>d, <2>1
  <2>7. ControlChildTyped'
      BY <1>a, <2>1, <2>4, <2>5 DEF ControlChildTyped, ControlOrdered
  <2>8. ControlParentTyped'
      BY <1>a, <2>1 DEF ControlParentTyped, ControlOnce, ControlOpen
  <2>9. ControlSessTyped'
      BY <1>a, <2>1, <2>2 DEF ControlSessTyped, ControlAgree
  <2>10. ControlSaved'
      BY <1>a, <2>1 DEF ControlSaved, ControlOrdered, ControlOnce, ControlOpen
  <2>11. ControlCounted'
      BY <1>a, <2>1 DEF ControlCounted
  <2>12. ControlTold'
      BY <1>a, <2>1, <2>2, <2>6, ControlStillTold DEF ControlAgree, CC!Terminal
  <2>13. CC!TerminalStays
      BY <2>1, <2>2 DEF CC!TerminalStays
  <2> QED BY <2>7, <2>8, <2>9, <2>10, <2>11, <2>12, <2>13 DEF ControlInv
<1>2. ASSUME NEW r \in Requests, CC!Retry(r) PROVE ControlInv' /\ CC!TerminalStays
  <2>1. UNCHANGED <<controlParent, controlAvail, controlSess, controlBackup, controlFaults>> /\ controlChild.out[r] # None /\ CC!Edit
      BY <1>2 DEF CC!Retry
  <2>2. /\ controlChild'.out \in [Requests -> CC!Outgoing \cup {None}] /\ controlChild'.order = controlChild.order
        /\ controlChild'.out[r] # None /\ controlChild'.out[r].result = controlChild.out[r].result
        /\ controlChild'.out[r].settled = FALSE
        /\ \A q \in Requests : q # r => controlChild'.out[q] = controlChild.out[q]
    <3> DEFINE new == [op |-> controlChild.out[r].op, result |-> controlChild.out[r].result,
    settled |-> FALSE]
    <3>1. new \in CC!Outgoing /\ new.result = controlChild.out[r].result /\ new.settled = FALSE
        BY <1>c, <2>1 DEF CC!Outgoing
    <3>2. controlChild'.out = [controlChild.out EXCEPT ![r] = new] /\ controlChild'.order = controlChild.order
        BY <1>2 DEF CC!Retry
    <3> HIDE DEF new
    <3>3. new # None
        BY <1>b, <3>1
    <3> QED BY <1>b, <3>1, <3>2, <3>3
  <2>3. controlChild' \in CC!Child
      BY <1>b, <1>2, <2>2 DEF CC!Child, CC!Retry
  <2>4. ControlOrdered(controlChild')
      BY <1>b, <2>1, <2>2 DEF ControlOrdered
  <2>5. ControlStands
      BY <1>d, <2>1
  <2>6. ControlChildTyped'
      BY <1>a, <2>1, <2>3, <2>4 DEF ControlChildTyped, ControlOrdered
  <2>7. ControlParentTyped'
      BY <1>a, <2>1 DEF ControlParentTyped, ControlOnce, ControlOpen
  <2>8. ControlSessTyped'
      BY <1>a, <2>1, <2>2 DEF ControlSessTyped, ControlAgree
  <2>9. ControlSaved'
      BY <1>a, <2>1 DEF ControlSaved, ControlOrdered, ControlOnce, ControlOpen
  <2>10. ControlCounted'
      BY <1>a, <1>b, <2>1 DEF ControlCounted, CC!Edit
  <2>11. ControlTold'
      BY <1>a, <2>1, <2>2, <2>5, ControlStillTold
  <2>12. CC!TerminalStays
      BY <2>1, <2>2 DEF CC!TerminalStays
  <2> QED BY <2>6, <2>7, <2>8, <2>9, <2>10, <2>11, <2>12 DEF ControlInv
<1>3. ASSUME NEW p \in Policies, CC!SetPolicy(p) PROVE ControlInv' /\ CC!TerminalStays
  <2>1. UNCHANGED <<controlChild, controlAvail, controlSess, controlBackup, controlFaults>> /\ CC!Edit
      BY <1>3 DEF CC!SetPolicy
  <2>2. controlParent' \in CC!Parent /\ controlParent'.in = controlParent.in /\ controlParent'.changes = controlParent.changes
      BY <1>b, <1>3 DEF CC!SetPolicy, CC!Parent, CC!ControlAssumption
  <2>3. ControlStands
      BY <1>d, <2>2
  <2>4. ControlChildTyped'
      BY <1>a, <2>1 DEF ControlChildTyped, ControlOrdered
  <2>5. ControlParentTyped'
      BY <1>b, <2>2 DEF ControlParentTyped, ControlOnce, ControlOpen
  <2>6. ControlSessTyped'
      BY <1>a, <2>1, <2>2 DEF ControlSessTyped, ControlAgree
  <2>7. ControlSaved'
      BY <1>a, <2>1 DEF ControlSaved, ControlOrdered, ControlOnce, ControlOpen
  <2>8. ControlCounted'
      BY <1>a, <1>b, <2>1 DEF ControlCounted, CC!Edit
  <2>9. ControlTold'
      BY <1>a, <2>1, <2>3, ControlStillTold
  <2>10. CC!TerminalStays
      BY <2>1 DEF CC!TerminalStays
  <2> QED BY <2>4, <2>5, <2>6, <2>7, <2>8, <2>9, <2>10 DEF ControlInv
<1>4. ASSUME NEW wanted \in BOOLEAN, CC!Subscribe(wanted) PROVE ControlInv' /\ CC!TerminalStays
  <2>1. UNCHANGED <<controlChild, controlAvail, controlSess, controlBackup, controlFaults>> /\ CC!Edit
      BY <1>4 DEF CC!Subscribe
  <2>2. controlParent' \in CC!Parent /\ controlParent'.in = controlParent.in /\ controlParent'.changes = controlParent.changes
      BY <1>b, <1>4 DEF CC!Subscribe, CC!Parent, CC!ControlAssumption
  <2>3. ControlStands
      BY <1>d, <2>2
  <2>4. ControlChildTyped'
      BY <1>a, <2>1 DEF ControlChildTyped, ControlOrdered
  <2>5. ControlParentTyped'
      BY <1>b, <2>2 DEF ControlParentTyped, ControlOnce, ControlOpen
  <2>6. ControlSessTyped'
      BY <1>a, <2>1, <2>2 DEF ControlSessTyped, ControlAgree
  <2>7. ControlSaved'
      BY <1>a, <2>1 DEF ControlSaved, ControlOrdered, ControlOnce, ControlOpen
  <2>8. ControlCounted'
      BY <1>a, <1>b, <2>1 DEF ControlCounted, CC!Edit
  <2>9. ControlTold'
      BY <1>a, <2>1, <2>3, ControlStillTold
  <2>10. CC!TerminalStays
      BY <2>1 DEF CC!TerminalStays
  <2> QED BY <2>4, <2>5, <2>6, <2>7, <2>8, <2>9, <2>10 DEF ControlInv
<1>5. ASSUME CC!Map PROVE ControlInv' /\ CC!TerminalStays
  <2>1. UNCHANGED <<controlChild, controlParent, controlSess, controlBackup, controlFaults>> /\ CC!Edit /\ controlAvail' = ~controlAvail
      BY <1>5 DEF CC!Map
  <2>2. ControlChildTyped'
      BY <1>a, <2>1 DEF ControlChildTyped, ControlOrdered
  <2>3. ControlParentTyped'
      BY <1>a, <2>1 DEF ControlParentTyped, ControlOnce, ControlOpen
  <2>4. ControlSessTyped'
      BY <1>a, <2>1 DEF ControlSessTyped, ControlAgree
  <2>5. ControlSaved'
      BY <1>a, <2>1 DEF ControlSaved, ControlOrdered, ControlOnce, ControlOpen
  <2>6. ControlCounted'
      BY <1>a, <1>b, <2>1 DEF ControlCounted, CC!Edit
  <2>7. ControlTold'
      BY <1>a, <1>d, <2>1, ControlStillTold
  <2>8. CC!TerminalStays
      BY <2>1 DEF CC!TerminalStays
  <2> QED BY <2>2, <2>3, <2>4, <2>5, <2>6, <2>7, <2>8 DEF ControlInv
<1>6. ASSUME CC!Start PROVE ControlInv' /\ CC!TerminalStays
  <2>1. /\ UNCHANGED <<controlChild, controlParent, controlAvail, controlBackup, controlEdits, controlFaults>>
        /\ controlSess' = [at |-> "requests", batch |-> CC!Pending, results |-> CC!Idle.results]
      BY <1>6 DEF CC!Start
  <2>2. ControlChildTyped'
      BY <1>a, <2>1 DEF ControlChildTyped, ControlOrdered
  <2>3. ControlParentTyped'
      BY <1>a, <2>1 DEF ControlParentTyped, ControlOnce, ControlOpen
  <2>4. ControlSessTyped'
      BY <1>a, <1>e, <2>1, ControlPendingIs DEF ControlSessTyped
  <2>5. ControlSaved'
      BY <1>a, <2>1 DEF ControlSaved, ControlOrdered, ControlOnce, ControlOpen
  <2>6. ControlCounted'
      BY <1>a, <1>b, <2>1 DEF ControlCounted, CC!Edit
  <2>7. ControlTold'
      BY <1>a, <1>d, <2>1, ControlStillTold
  <2>8. CC!TerminalStays
      BY <2>1 DEF CC!TerminalStays
  <2> QED BY <2>2, <2>3, <2>4, <2>5, <2>6, <2>7, <2>8 DEF ControlInv
<1>7. ASSUME NEW r \in Requests, CC!Receive(r) PROVE ControlInv' /\ CC!TerminalStays
  <2>1. UNCHANGED <<controlChild, controlAvail, controlBackup, controlEdits, controlFaults>>
      BY <1>7 DEF CC!Receive
  <2>2. controlSess.at = "requests" /\ r \in controlSess.batch /\ controlChild.out[r] # None
      BY <1>a, <1>7 DEF CC!Receive, CC!First, ControlSessTyped
  <2>3. /\ controlParent' \in CC!Parent /\ ControlOnce(controlParent') /\ ControlStands
        /\ controlParent'.in[r] # None /\ controlParent'.in[r].result \in CC!Result
    <3> DEFINE op == controlChild.out[r].op
    <3>1. CASE CC!Known(r)
      <4>1. controlParent' = controlParent /\ controlParent.in[r] # None
          BY <1>7, <3>1 DEF CC!Receive, CC!Known
      <4>2. controlParent.in[r] \in CC!Incoming
          BY <1>b, <4>1
      <4> QED BY <1>b, <1>d, <4>1, <4>2 DEF CC!Incoming
    <3>2. CASE ~CC!Known(r)
      <4>1. controlParent' = CC!Answered(r, op, CC!FirstOutcome(op)) /\ controlParent.in[r] = None
          BY <1>7, <3>2 DEF CC!Receive, CC!Known
      <4>2. op \in CC!Ops /\ CC!FirstOutcome(op) \in CC!Outcomes /\ ControlOpen(controlParent, r)
          BY <1>a, <1>c, <2>2, <4>1, ControlOutcomesAre DEF ControlOpen
      <4> HIDE DEF op
      <4> QED BY <1>a, <4>1, <4>2, ControlAnsweredIs DEF ControlStands
    <3> QED BY <3>1, <3>2
  <2>4. /\ controlSess' = [at |-> "requests", batch |-> controlSess.batch,
                      results |-> [controlSess.results EXCEPT ![r] = controlParent'.in[r].result]]
      BY <1>7 DEF CC!Receive
  <2>5. ControlChildTyped'
      BY <1>a, <2>1 DEF ControlChildTyped, ControlOrdered
  <2>6. ControlParentTyped'
      BY <2>3 DEF ControlParentTyped, ControlOnce, ControlOpen
  <2>7. ControlSessTyped'
    <3>1. /\ controlSess.results \in [Requests -> CC!Result \cup {None}]
          /\ controlSess.batch \subseteq {q \in Requests : controlChild.out[q] # None}
          /\ IsFiniteSet(controlSess.batch) /\ Cardinality(controlSess.batch) <= Limit
          /\ \A q \in Requests : controlSess.results[q] # None =>
                q \in controlSess.batch /\ ControlAgree(controlParent, q, controlSess.results[q])
        BY <1>a DEF ControlSessTyped
    <3>2. /\ controlSess'.at = "requests" /\ controlSess'.batch = controlSess.batch
          /\ controlSess'.results \in [Requests -> CC!Result \cup {None}]
          /\ controlSess'.results[r] = controlParent'.in[r].result
          /\ \A q \in Requests : q # r => controlSess'.results[q] = controlSess.results[q]
        BY <2>3, <2>4, <3>1
    <3>3. ASSUME NEW q \in Requests, controlSess'.results[q] # None
          PROVE  q \in controlSess'.batch /\ ControlAgree(controlParent', q, controlSess'.results[q])
      <4>1. CASE q = r
          BY <2>2, <2>3, <3>2, <4>1 DEF ControlAgree
      <4>2. CASE q # r
          BY <2>3, <3>1, <3>2, <3>3, <4>2, ControlStandsKeeps
      <4> QED BY <4>1, <4>2
    <3> QED BY <2>1, <3>1, <3>2, <3>3 DEF ControlSessTyped
  <2>8. ControlSaved'
      BY <1>a, <2>1 DEF ControlSaved, ControlOrdered, ControlOnce, ControlOpen
  <2>9. ControlCounted'
      BY <1>a, <1>b, <2>1 DEF ControlCounted, CC!Edit
  <2>10. ControlTold'
      BY <1>a, <2>1, <2>3, ControlStillTold
  <2>11. CC!TerminalStays
      BY <2>1 DEF CC!TerminalStays
  <2> QED BY <2>5, <2>6, <2>7, <2>8, <2>9, <2>10, <2>11 DEF ControlInv
<1>8. ASSUME CC!Return PROVE ControlInv' /\ CC!TerminalStays
  <2>1. /\ UNCHANGED <<controlChild, controlParent, controlAvail, controlBackup, controlEdits, controlFaults>>
        /\ \A r \in controlSess.batch : controlSess.results[r] # None
        /\ controlSess' = IF controlSess.batch = {} THEN CC!Idle
                   ELSE [at |-> "results", batch |-> controlSess.batch, results |-> controlSess.results]
      BY <1>8 DEF CC!Return
  <2>2. ControlChildTyped'
      BY <1>a, <2>1 DEF ControlChildTyped, ControlOrdered
  <2>3. ControlParentTyped'
      BY <1>a, <2>1 DEF ControlParentTyped, ControlOnce, ControlOpen
  <2>4. ControlSessTyped'
    <3>1. CASE controlSess' = CC!Idle
        BY <1>f, <3>1
    <3>2. CASE controlSess' = [at |-> "results", batch |-> controlSess.batch, results |-> controlSess.results]
        BY <1>a, <2>1, <3>2 DEF ControlSessTyped, ControlAgree
    <3> QED BY <2>1, <3>1, <3>2
  <2>5. ControlSaved'
      BY <1>a, <2>1 DEF ControlSaved, ControlOrdered, ControlOnce, ControlOpen
  <2>6. ControlCounted'
      BY <1>a, <1>b, <2>1 DEF ControlCounted, CC!Edit
  <2>7. ControlTold'
      BY <1>a, <1>d, <2>1, ControlStillTold
  <2>8. CC!TerminalStays
      BY <2>1 DEF CC!TerminalStays
  <2> QED BY <2>2, <2>3, <2>4, <2>5, <2>6, <2>7, <2>8 DEF ControlInv
<1>9. ASSUME NEW r \in Requests, CC!Persist(r) PROVE ControlInv' /\ CC!TerminalStays
  <2>1. /\ UNCHANGED <<controlParent, controlAvail, controlBackup, controlEdits, controlFaults>> /\ ControlStands
        /\ controlSess.at = "results" /\ r \in controlSess.batch
      BY <1>d, <1>9 DEF CC!Persist, CC!First
  <2>2. /\ controlChild.out[r] # None /\ controlSess.results[r] \in CC!Result
        /\ ControlAgree(controlParent, r, controlSess.results[r])
      BY <1>a, <2>1 DEF ControlSessTyped
  <2>3. \/ controlSess' = CC!Idle /\ UNCHANGED controlChild
        \/ /\ ~CC!Conflict(controlChild.out[r].result, controlSess.results[r])
           /\ controlChild' \in CC!Child /\ ControlOrdered(controlChild')
           /\ controlChild'.out[r] # None /\ controlChild'.out[r].result = controlSess.results[r]
           /\ \A q \in Requests : q # r => controlChild'.out[q] = controlChild.out[q]
           /\ \/ controlSess' = CC!Idle
              \/ controlSess' = [at |-> "results", batch |-> controlSess.batch \ {r},
                          results |-> [controlSess.results EXCEPT ![r] = None]]
    <3>1. CASE CC!Conflict(controlChild.out[r].result, controlSess.results[r])
        BY <1>9, <3>1 DEF CC!Persist
    <3>2. CASE ~CC!Conflict(controlChild.out[r].result, controlSess.results[r])
      <4> DEFINE new == [op |-> controlChild.out[r].op, result |-> controlSess.results[r],
                         settled |-> controlSess.results[r].outcome \in CC!Terminal]
      <4>1. /\ controlChild' = [out |-> [controlChild.out EXCEPT ![r] = new], order |-> CC!ToEnd(controlChild.order, r)]
            /\ \/ controlSess' = CC!Idle
               \/ controlSess' = [at |-> "results", batch |-> controlSess.batch \ {r},
                           results |-> [controlSess.results EXCEPT ![r] = None]]
          BY <1>9, <3>2 DEF CC!Persist
      <4>2. /\ new \in CC!Outgoing /\ new # None /\ new.result = controlSess.results[r]
            /\ new.settled => new.result.outcome \in CC!Terminal
        <5>1. (controlSess.results[r].outcome \in CC!Terminal) \in BOOLEAN
            OBVIOUS
        <5>2. new \in CC!Outgoing
            BY <1>c, <2>2, <5>1 DEF CC!Outgoing
        <5> QED BY <1>b, <5>2
      <4> HIDE DEF new
      <4>3. r \in CC!ToSet(controlChild.order)
          BY <1>b, <2>2 DEF ControlOrdered
      <4>4. /\ CC!ToEnd(controlChild.order, r) \in Seq(Requests)
            /\ CC!ToSet(CC!ToEnd(controlChild.order, r)) = CC!ToSet(controlChild.order)
          BY <1>b, <4>3, ControlToEndIs
      <4>5. /\ controlChild'.out \in [Requests -> CC!Outgoing \cup {None}] /\ controlChild'.out[r] = new
            /\ \A q \in Requests : q # r => controlChild'.out[q] = controlChild.out[q]
          BY <1>b, <4>1, <4>2
      <4>6. controlChild' \in CC!Child
          BY <4>1, <4>4, <4>5 DEF CC!Child
      <4>7. ControlOrdered(controlChild')
          BY <1>b, <2>2, <4>1, <4>2, <4>4, <4>5 DEF ControlOrdered
      <4> QED BY <3>2, <4>1, <4>2, <4>5, <4>6, <4>7
    <3> QED BY <3>1, <3>2
  <2>4. \A q \in Requests : controlChild'.out[q] # None <=> controlChild.out[q] # None
      BY <2>2, <2>3
  <2>5. ControlChildTyped'
      BY <1>a, <2>1, <2>3 DEF ControlChildTyped, ControlOrdered
  <2>6. ControlParentTyped'
      BY <1>a, <2>1 DEF ControlParentTyped, ControlOnce, ControlOpen
  <2>7. ControlSessTyped'
    <3>1. CASE controlSess' = CC!Idle
        BY <1>f, <3>1
    <3>2. CASE controlSess' = [at |-> "results", batch |-> controlSess.batch \ {r},
                        results |-> [controlSess.results EXCEPT ![r] = None]]
      <4>1. IsFiniteSet(controlSess.batch \ {r}) /\ Cardinality(controlSess.batch \ {r}) <= Limit
        <5>1. /\ IsFiniteSet(controlSess.batch) /\ Cardinality(controlSess.batch) <= Limit
              /\ controlSess.batch \ {r} \in SUBSET controlSess.batch
            BY <1>a DEF ControlSessTyped
        <5>2. /\ IsFiniteSet(controlSess.batch \ {r})
              /\ Cardinality(controlSess.batch \ {r}) <= Cardinality(controlSess.batch)
            BY <5>1, FS_Subset
        <5> QED BY <1>b, <5>1, <5>2, FS_CardinalityType
      <4>2. /\ controlSess'.at = "results" /\ controlSess'.batch = controlSess.batch \ {r}
            /\ controlSess'.results \in [Requests -> CC!Result \cup {None}] /\ controlSess'.results[r] = None
            /\ \A q \in Requests : q # r => controlSess'.results[q] = controlSess.results[q]
          BY <1>a, <3>2 DEF ControlSessTyped
      <4> QED BY <1>a, <2>1, <2>4, <4>1, <4>2 DEF ControlSessTyped, ControlAgree
    <3> QED BY <2>3, <3>1, <3>2, <1>a, <2>1 DEF ControlSessTyped
  <2>8. ControlSaved'
      BY <1>a, <2>1 DEF ControlSaved, ControlOrdered, ControlOnce, ControlOpen
  <2>9. ControlCounted'
      BY <1>a, <1>b, <2>1 DEF ControlCounted, CC!Edit
  <2>10. ControlTold'
    <3>1. ControlAgree(controlParent', r, controlSess.results[r])
        BY <2>1, <2>2, ControlStandsKeeps
    <3>2. \A q \in Requests : controlChild'.out[q] # None =>
               \/ controlChild.out[q] # None /\ controlChild'.out[q].result = controlChild.out[q].result
               \/ ControlAgree(controlParent', q, controlChild'.out[q].result)
        BY <2>1, <2>2, <2>3, <3>1 DEF ControlAgree
    <3> QED BY <1>a, <2>1, <3>2, ControlStillTold
  <2>11. CC!TerminalStays
      BY <2>2, <2>3 DEF CC!TerminalStays, CC!Conflict
  <2> QED BY <2>5, <2>6, <2>7, <2>8, <2>9, <2>10, <2>11 DEF ControlInv
<1>10. ASSUME NEW r \in Requests, NEW approve \in BOOLEAN, CC!Decide(r,
approve) PROVE ControlInv' /\ CC!TerminalStays
  <2>1. UNCHANGED <<controlChild, controlAvail, controlSess, controlBackup, controlEdits, controlFaults>> /\ CC!Decidable(r)
      BY <1>10 DEF CC!Decide
  <2>2. /\ controlParent' \in CC!Parent /\ ControlOnce(controlParent') /\ ControlStands
    <3> DEFINE op == controlParent.in[r].op
               said == IF ~approve \/ controlParent.policy = "deny" THEN "denied" ELSE CC!Outcome(op)
    <3>1. controlParent' = CC!Answered(r, op, said)
        BY <1>10 DEF CC!Decide
    <3>2. op \in CC!Ops /\ ControlOpen(controlParent, r)
        BY <1>b, <2>1 DEF CC!Decidable, CC!Incoming, ControlOpen
    <3>3. said \in CC!Outcomes
        BY <1>a, <3>2, ControlOutcomesAre DEF CC!Outcomes, CC!Terminal
    <3> HIDE DEF op, said
    <3> QED BY <1>a, <3>1, <3>2, <3>3, ControlAnsweredIs DEF ControlStands
  <2>3. ControlChildTyped'
      BY <1>a, <2>1 DEF ControlChildTyped, ControlOrdered
  <2>4. ControlParentTyped'
      BY <2>2 DEF ControlParentTyped, ControlOnce, ControlOpen
  <2>5. ControlSessTyped'
    <3>1. \A q \in Requests : controlSess.results[q] # None => ControlAgree(controlParent', q, controlSess.results[q])
        BY <1>a, <2>2, ControlStandsKeeps DEF ControlSessTyped
    <3> QED BY <1>a, <2>1, <3>1 DEF ControlSessTyped
  <2>6. ControlSaved'
      BY <1>a, <2>1 DEF ControlSaved, ControlOrdered, ControlOnce, ControlOpen
  <2>7. ControlCounted'
      BY <1>a, <1>b, <2>1 DEF ControlCounted, CC!Edit
  <2>8. ControlTold'
      BY <1>a, <2>1, <2>2, ControlStillTold
  <2>9. CC!TerminalStays
      BY <2>1 DEF CC!TerminalStays
  <2> QED BY <2>3, <2>4, <2>5, <2>6, <2>7, <2>8, <2>9 DEF ControlInv
<1>11. ASSUME CC!Break PROVE ControlInv' /\ CC!TerminalStays
  <2>1. UNCHANGED <<controlChild, controlParent, controlAvail, controlBackup, controlEdits>> /\ controlSess' = CC!Idle
      BY <1>11 DEF CC!Break
  <2>2. ControlChildTyped'
      BY <1>a, <2>1 DEF ControlChildTyped, ControlOrdered
  <2>3. ControlParentTyped'
      BY <1>a, <2>1 DEF ControlParentTyped, ControlOnce, ControlOpen
  <2>4. ControlSessTyped'
      BY <1>f, <2>1
  <2>5. ControlSaved'
      BY <1>a, <2>1 DEF ControlSaved, ControlOrdered, ControlOnce, ControlOpen
  <2>6. ControlCounted'
      BY <1>a, <1>b, <1>11 DEF ControlCounted, CC!Break
  <2>7. ControlTold'
      BY <1>a, <1>d, <2>1, ControlStillTold
  <2>8. CC!TerminalStays
      BY <2>1 DEF CC!TerminalStays
  <2> QED BY <2>2, <2>3, <2>4, <2>5, <2>6, <2>7, <2>8 DEF ControlInv
<1>12. ASSUME CC!Save PROVE ControlInv' /\ CC!TerminalStays
  <2>1. UNCHANGED <<controlChild, controlParent, controlAvail, controlSess, controlEdits, controlFaults>>
      BY <1>12 DEF CC!Save
  <2>2. \/ controlBackup' = [child |-> controlChild, parent |-> controlBackup.parent]
        \/ "parent" \in Snapshots /\ controlBackup' = [child |-> controlBackup.child, parent |-> controlParent]
      BY <1>12 DEF CC!Save
  <2>3. ControlChildTyped'
      BY <1>a, <2>1 DEF ControlChildTyped, ControlOrdered
  <2>4. ControlParentTyped'
      BY <1>a, <2>1 DEF ControlParentTyped, ControlOnce, ControlOpen
  <2>5. ControlSessTyped'
      BY <1>a, <2>1 DEF ControlSessTyped, ControlAgree
  <2>6. ControlSaved'
      BY <1>a, <1>b, <2>1, <2>2 DEF ControlSaved, ControlOrdered, ControlOnce, ControlOpen
  <2>7. ControlCounted'
      BY <1>a, <1>b, <2>1 DEF ControlCounted, CC!Edit
  <2>8. ControlTold'
      BY <1>a, <2>1, <2>2 DEF ControlTold, ControlRecorded, ControlAgree
  <2>9. CC!TerminalStays
      BY <2>1 DEF CC!TerminalStays
  <2> QED BY <2>3, <2>4, <2>5, <2>6, <2>7, <2>8, <2>9 DEF ControlInv
<1>13. ASSUME CC!Restore PROVE ControlInv' /\ CC!TerminalStays
  <2>1. UNCHANGED <<controlAvail, controlSess, controlBackup, controlFaults>> /\ CC!Edit /\ controlSess = CC!Idle
      BY <1>13 DEF CC!Restore
  <2>2. \/ controlBackup.child # None /\ controlChild' = controlBackup.child /\ UNCHANGED controlParent
        \/ controlBackup.parent # None /\ controlParent' = controlBackup.parent /\ UNCHANGED controlChild
      BY <1>13 DEF CC!Restore
  <2>3. ControlChildTyped'
      BY <1>a, <2>1, <2>2 DEF ControlChildTyped, ControlSaved, ControlOrdered
  <2>4. ControlParentTyped'
      BY <1>a, <2>1, <2>2 DEF ControlParentTyped, ControlSaved, ControlOnce, ControlOpen
  <2>5. ControlSessTyped'
      BY <1>f, <2>1
  <2>6. ControlSaved'
      BY <1>a, <2>1 DEF ControlSaved, ControlOrdered, ControlOnce, ControlOpen
  <2>7. ControlCounted'
      BY <1>a, <1>b, <2>1 DEF ControlCounted, CC!Edit
  <2>8. ControlTold'
      BY <1>a, <2>1, <2>2 DEF ControlTold, ControlRecorded, ControlAgree
  <2>9. CC!TerminalStays
      BY <1>13 DEF CC!TerminalStays
  <2> QED BY <2>3, <2>4, <2>5, <2>6, <2>7, <2>8, <2>9 DEF ControlInv
<1> QED
    BY <1>1, <1>2, <1>3, <1>4, <1>5, <1>6, <1>7, <1>8, <1>9, <1>10, <1>11, <1>12,
       <1>13 DEF CC!Next, CC!Exchange

LEMMA ControlInitInv == ASSUME CC!ControlAssumption, CC!Init PROVE ControlInv
<1>1. IsFiniteSet({}) /\ Cardinality({}) = 0
    BY FS_EmptySet
<1>2. ControlChildTyped
    BY DEF CC!Init, ControlChildTyped, CC!Child, ControlOrdered, CC!ToSet
<1>3. ControlParentTyped
    BY DEF CC!Init, ControlParentTyped, CC!Parent, ControlOnce
<1>4. ControlSessTyped
    BY <1>1 DEF CC!Init, ControlSessTyped, CC!Idle, CC!ControlAssumption
<1>5. ControlSaved /\ ControlCounted /\ ControlTold
    BY DEF CC!Init, ControlSaved, ControlCounted, ControlTold, ControlRecorded, CC!ControlAssumption
<1> QED
    BY <1>2, <1>3, <1>4, <1>5 DEF ControlInv

LEMMA ControlInvNext == ASSUME CC!ControlAssumption, ControlInv, [CC!Next]_(CC!vars) PROVE ControlInv' /\ [CC!TerminalStays]_(CC!vars)
<1>1. CASE CC!Next
    BY <1>1, ControlStep
<1>2. CASE UNCHANGED CC!vars
    BY <1>2 DEF CC!vars, ControlInv, ControlChildTyped, ControlParentTyped, ControlSessTyped, ControlSaved, ControlCounted, ControlTold, ControlOrdered, ControlOnce,
       ControlOpen, ControlRecorded, ControlAgree
<1> QED
    BY <1>1, <1>2

\* The inductive invariant holds of every run.
THEOREM ControlInvariant == CC!ControlAssumption => (CC!Spec => []ControlInv)
<1> SUFFICES ASSUME CC!ControlAssumption PROVE CC!Spec => []ControlInv
    OBVIOUS
<1>1. CC!Init => ControlInv
    BY ControlInitInv
<1>2. ControlInv /\ [CC!Next]_(CC!vars) => ControlInv'
    BY ControlInvNext
<1> QED
    BY <1>1, <1>2, PTL DEF CC!Spec

LEMMA ControlInvImplies ==
    ASSUME ControlInv
    PROVE  CC!TypeOK /\ CC!AppliedOnce /\ ("parent" \notin Snapshots => CC!ResultsAgree)
<1>1. CC!TypeOK
    BY ControlCounts DEF ControlInv, ControlChildTyped, ControlParentTyped, ControlSessTyped, ControlCounted,
       ControlOrdered, CC!TypeOK
<1>2. CC!AppliedOnce
    BY DEF ControlInv, ControlParentTyped, ControlOnce, CC!AppliedOnce
<1>3. "parent" \notin Snapshots => CC!ResultsAgree
    BY DEF ControlInv, ControlTold, ControlRecorded, ControlAgree, CC!ResultsAgree
<1> QED
    BY <1>1, <1>2, <1>3

\* A request acts at most once however often it is sent, retried or decided; both ends
\* keep one final answer unless the parent forgets; and no answer of a restored parent
\* replaces the one on record: for any requests, batch limit and faults.
THEOREM RequestsApplyOnceHolds == CC!ControlAssumption => (CC!Spec => CC!RequestsApplyOnce)
<1> SUFFICES ASSUME CC!ControlAssumption PROVE CC!Spec => CC!RequestsApplyOnce
    OBVIOUS
<1>1. CC!Spec => []ControlInv
    BY ControlInvariant
<1>2. ControlInv => CC!TypeOK /\ CC!AppliedOnce /\ ("parent" \notin Snapshots => CC!ResultsAgree)
    BY ControlInvImplies
<1>3. ControlInv /\ [CC!Next]_(CC!vars) => [CC!TerminalStays]_(CC!vars)
    BY ControlInvNext
<1> QED
    BY <1>1, <1>2, <1>3, PTL DEF CC!Spec, CC!RequestsApplyOnce

-----------------------------------------------------------------------------
(***************************************************************************)
(* The catalog, for any line of boards, keys, lifecycles and bounds.       *)
(*                                                                         *)
(* What the root has published is closed under prefixes, and a board takes *)
(* a revision only after the ones before it; so its chain is always one    *)
(* that was published, and the epochs it has enrolled at revisions it has  *)
(* verify the chain they verified before.                                  *)
(***************************************************************************)
CONSTANTS Depth, Lifecycles, Replaceable, CatalogSnapshots, CatalogLimit, MaxRevs,
    MaxKeys, CatalogFaults
VARIABLES chain, keys, upstream, peer, map, catalogSess, catalogBackup, published,
    transitions, catalogFaults
CT == INSTANCE CircuitCatalog WITH Snapshots <- CatalogSnapshots,
    Limit <- CatalogLimit, MaxFaults <- CatalogFaults, sess <- catalogSess,
    backup <- catalogBackup, faults <- catalogFaults

(***************************************************************************)
(* The catalog, for any line of boards, keys, lifecycles and bounds.       *)
(*                                                                         *)
(* What the root has published is closed under prefixes, and a board takes *)
(* a revision only after the ones before it; so its chain is always one    *)
(* that was published, and the epochs it has enrolled at revisions it has  *)
(* verify the chain they verified before.                                  *)
(***************************************************************************)
CatalogTransition == [old : 1..MaxKeys, new : 1..MaxKeys, at : Seq(CT!Revision)]
CatalogImage == [chain : Seq(CT!Revision), keys : Seq(CT!Epoch), upstream : 0..MaxRevs,
          peer : 0..MaxRevs, map : BOOLEAN]
CatalogSession == [at : {"idle", "head", "asked", "objects", "ack"}, head : Seq(CT!Revision),
            remote : Seq(CT!Revision), next : Nat, last : Nat]
CatalogTyped ==
    /\ chain \in [CT!Boards -> Seq(CT!Revision)] /\ keys \in [CT!Boards -> Seq(CT!Epoch)]
    /\ upstream \in [CT!Boards -> 0..MaxRevs] /\ peer \in [CT!Boards -> 0..MaxRevs]
    /\ map \in [CT!Boards -> BOOLEAN] /\ catalogSess \in [CT!Children -> CatalogSession]
    /\ catalogBackup \in [CT!Boards -> CatalogImage \cup {None}]
    /\ transitions \subseteq CatalogTransition /\ catalogFaults \in 0..CatalogFaults

\* What was published was published revision by revision.
CatalogChained ==
    /\ published \subseteq Seq(CT!Revision) /\ <<>> \in published
    /\ \A h \in published :
         Len(h) <= MaxRevs /\ \A n \in 0..Len(h) : SubSeq(h, 1, n) \in published

CatalogLatest(ks, n) ==
    CHOOSE e \in DOMAIN ks : ks[e].cutoff < n /\ \A k \in DOMAIN ks : ks[k].cutoff < n => k <= e
CatalogEpochs(ks) ==
    /\ Len(ks) > 0 /\ ks[1].cutoff = 0
    /\ \A e, f \in 1..Len(ks) : e < f => ks[e].cutoff <= ks[f].cutoff /\ ks[e].key # ks[f].key
\* A chain that verifies under key epochs, and a mapping it admits.
CatalogVerified(ch, ks) ==
    /\ CatalogEpochs(ks)
    /\ \A n \in 1..Len(ch) : ch[n].key = ks[CatalogLatest(ks, n)].key
    /\ \A e \in 1..Len(ks) : ks[e].cutoff <= Len(ch)
CatalogAdmits(ch, m) == m => ch # <<>> /\ ch[Len(ch)].status # "retired"

CatalogWhole == \A b \in CT!Boards : chain[b] \in published /\ CatalogVerified(chain[b], keys[b])
                            /\ CatalogAdmits(chain[b], map[b])
CatalogSaved ==
    \A b \in CT!Boards : catalogBackup[b] # None =>
        /\ catalogBackup[b].chain \in published /\ CatalogVerified(catalogBackup[b].chain, catalogBackup[b].keys)
        /\ CatalogAdmits(catalogBackup[b].chain, catalogBackup[b].map)

\* A session speaks of no later revision than its parent has.
CatalogSpoken ==
    \A c \in CT!Children :
        /\ Len(catalogSess[c].head) <= MaxRevs
        /\ catalogSess[c].at # "idle" => Len(catalogSess[c].head) <= Len(chain[c - 1])
        /\ catalogSess[c].last <= Len(catalogSess[c].head)
        /\ catalogSess[c].at = "idle" => catalogSess[c].last = 0
        /\ catalogSess[c].at \in {"objects", "ack"} => catalogSess[c].next \in 1..catalogSess[c].last
CatalogInv == CatalogTyped /\ CatalogChained /\ CatalogWhole /\ CatalogSaved /\ CatalogSpoken

\* What a child has acknowledged or answered, it has; so had it when the parent was saved.
CatalogAcked ==
    \A c \in CT!Children :
        /\ peer[c - 1] <= Len(chain[c])
        /\ catalogBackup[c - 1] # None => catalogBackup[c - 1].peer <= Len(chain[c])
        /\ catalogSess[c].at = "asked" => Len(catalogSess[c].remote) <= Len(chain[c])
        /\ catalogSess[c].at = "ack" => catalogSess[c].next <= Len(chain[c])
-----------------------------------------------------------------------------
\* A set of numbers has a largest one.
LEMMA CatalogLargestExists ==
    ASSUME NEW N \in Nat, NEW S \in SUBSET (0..N), S # {}
    PROVE  \E h \in S : \A k \in S : k <= h
<1> DEFINE R == {ss \in Nat \X Nat : ss[1] < ss[2]}
           T == {k \in 0..N : N - k \in S}
<1>1. IsWellFoundedOn(R, Nat)
    BY NatLessThanWellFounded DEF OpToRel
<1>2. T \subseteq Nat /\ T # {}
    <2>1. PICK s \in S : TRUE
        OBVIOUS
    <2>2. N - s \in 0..N /\ N - (N - s) = s
        OBVIOUS
    <2> QED
        BY <2>1, <2>2
<1>3. \A y \in T, x \in T : <<y, x>> \notin R => x <= y
    <2> SUFFICES ASSUME NEW y \in T, NEW x \in T, <<y, x>> \notin R, ~(x <= y) PROVE FALSE
        OBVIOUS
    <2>1. x \in Nat /\ y \in Nat /\ y < x
        OBVIOUS
    <2>2. <<y, x>> \in Nat \X Nat /\ <<y, x>>[1] < <<y, x>>[2]
        BY <2>1
    <2> QED
        BY <2>2
<1>4. PICK x \in T : \A y \in T : <<y, x>> \notin R
    <2> HIDE DEF R, T
    <2> QED
        BY <1>1, <1>2, WFMin
<1>5. \A y \in T : x <= y
    <2> HIDE DEF R, T
    <2> QED
        BY <1>3, <1>4
<1>6. N - x \in S /\ x \in 0..N
    OBVIOUS
<1>7. \A k \in S : k <= N - x
    <2> TAKE k \in S
    <2>1. k \in 0..N /\ N - k \in 0..N /\ N - (N - k) = k
        OBVIOUS
    <2>2. N - k \in T
        BY <2>1
    <2>3. x <= N - k
        BY <1>5, <2>2
    <2> QED
        BY <1>6, <2>1, <2>3
<1> QED
    BY <1>6, <1>7

\* The epoch that governs a revision is the last one that begins before it.
LEMMA CatalogLatestIs ==
    ASSUME NEW ks \in Seq(CT!Epoch), CatalogEpochs(ks), MaxRevs \in Nat, NEW n \in Nat \ {0}
    PROVE  /\ CatalogLatest(ks, n) \in 1..Len(ks) /\ ks[CatalogLatest(ks, n)].cutoff < n
           /\ \A k \in 1..Len(ks) : ks[k].cutoff < n => k <= CatalogLatest(ks, n)
<1> DEFINE S == {e \in 1..Len(ks) : ks[e].cutoff < n}
<1>1. Len(ks) \in Nat /\ DOMAIN ks = 1..Len(ks) /\ S \in SUBSET (0..Len(ks))
    BY LenProperties
<1>2. 1 \in S
    BY <1>1 DEF CatalogEpochs
<1>3. \E h \in S : \A k \in S : k <= h
    <2> HIDE DEF S
    <2> QED
        BY <1>1, <1>2, CatalogLargestExists
<1>4. PICK h \in DOMAIN ks : ks[h].cutoff < n /\ \A k \in DOMAIN ks : ks[k].cutoff < n => k <= h
    BY <1>1, <1>3
<1> QED
    BY <1>1, <1>4 DEF CatalogLatest

\* A new epoch does not govern the revisions before it.
LEMMA CatalogEpochAdded ==
    ASSUME NEW ks \in Seq(CT!Epoch), CatalogEpochs(ks), MaxRevs \in Nat, NEW ep \in CT!Epoch, NEW n \in Nat \ {0},
           n <= ep.cutoff, CatalogEpochs(Append(ks, ep))
    PROVE  Append(ks, ep)[CatalogLatest(Append(ks, ep), n)].key = ks[CatalogLatest(ks, n)].key
<1> DEFINE new == Append(ks, ep)
<1>1. /\ new \in Seq(CT!Epoch) /\ Len(new) = Len(ks) + 1 /\ Len(ks) \in Nat
      /\ \A i \in 1..Len(ks) : new[i] = ks[i]
      /\ new[Len(ks) + 1] = ep
    BY AppendProperties, LenProperties
<1> HIDE DEF new
<1> DEFINE e == CatalogLatest(new, n)
           f == CatalogLatest(ks, n)
<1>2. e \in 1..Len(new) /\ new[e].cutoff < n /\ \A k \in 1..Len(new) : new[k].cutoff < n => k <= e
    BY <1>1, CatalogLatestIs DEF new
<1>3. f \in 1..Len(ks) /\ ks[f].cutoff < n /\ \A k \in 1..Len(ks) : ks[k].cutoff < n => k <= f
    BY CatalogLatestIs
<1> HIDE DEF e, f
<1>4. e # Len(ks) + 1
    BY <1>1, <1>2 DEF CT!Epoch
<1>5. e \in 1..Len(ks) /\ f \in 1..Len(new)
    BY <1>1, <1>2, <1>3, <1>4
<1>6. e <= f /\ f <= e
    BY <1>1, <1>2, <1>3, <1>5
<1>7. e = f
    BY <1>5, <1>6
<1> QED
    BY <1>1, <1>5, <1>7 DEF new, e, f

LEMMA CatalogPrefixIs ==
    ASSUME NEW S, NEW s \in Seq(S), NEW t \in Seq(S)
    PROVE  CT!IsPrefixOf(s, t) <=> Len(s) <= Len(t) /\ \A i \in 1..Len(s) : t[i] = s[i]
<1>1. Len(s) \in Nat /\ Len(t) \in Nat
    BY LenProperties
<1>2. ASSUME Len(s) <= Len(t)
      PROVE  /\ SubSeq(t, 1, Len(s)) \in Seq(S) /\ Len(SubSeq(t, 1, Len(s))) = Len(s)
             /\ \A i \in 1..Len(s) : SubSeq(t, 1, Len(s))[i] = t[i]
    <2>1. \A i \in 1..Len(s) : t[i] \in S
        BY <1>1, <1>2, ElementOfSeq
    <2>2. 1 \in Int /\ Len(s) \in Int
        BY <1>1
    <2>3. /\ SubSeq(t, 1, Len(s)) \in Seq(S)
          /\ Len(SubSeq(t, 1, Len(s))) = IF 1 <= Len(s) THEN Len(s) - 1 + 1 ELSE 0
          /\ \A i \in 1..(Len(s) - 1 + 1) : SubSeq(t, 1, Len(s))[i] = t[1 + i - 1]
        BY <2>1, <2>2, SubSeqProperties
    <2> QED
        BY <1>1, <2>3
<1>3. ASSUME Len(s) <= Len(t), \A i \in 1..Len(s) : t[i] = s[i]
      PROVE  SubSeq(t, 1, Len(s)) = s
    BY <1>2, <1>3, SeqEqual
<1> QED
    BY <1>1, <1>2, <1>3 DEF CT!IsPrefixOf

\* A board accepts a published chain by its last revision.
LEMMA CatalogAcceptedIs ==
    ASSUME CT!CatalogAssumption, CatalogInv, NEW b \in CT!Boards, NEW h \in Seq(CT!Revision), CT!Accepts(b, h)
    PROVE  /\ Append(chain[b], h[Len(h)]) = h /\ h # <<>>
           /\ Len(h) = Len(chain[b]) + 1 /\ CT!IsPrefixOf(chain[b], h)
           /\ h[Len(h)] \in CT!Revision
           /\ h[Len(h)].key = keys[b][CatalogLatest(keys[b], Len(h))].key
<1> DEFINE ch == chain[b]
           rev == h[Len(h)]
           new == Append(ch, rev)
<1>1. ch \in Seq(CT!Revision) /\ Len(ch) \in Nat /\ Len(h) \in Nat
    BY LenProperties DEF CatalogInv, CatalogTyped
<1>2. Len(h) = Len(ch) + 1 /\ CT!IsPrefixOf(ch, h)
    BY DEF CT!Accepts
<1>3. rev \in CT!Revision
    BY <1>1, <1>2, ElementOfSeq
<1>4. \A i \in 1..Len(ch) : h[i] = ch[i]
    BY <1>1, <1>2, CatalogPrefixIs
<1> HIDE DEF ch, rev
<1>5. /\ new \in Seq(CT!Revision) /\ Len(new) = Len(ch) + 1
      /\ \A i \in 1..Len(ch) : new[i] = ch[i]
      /\ new[Len(ch) + 1] = rev
    BY <1>1, <1>3, AppendProperties
<1> HIDE DEF new
<1>6. h[Len(ch) + 1] = rev
    BY <1>2 DEF rev
<1>7. \A i \in 1..Len(new) : new[i] = h[i]
    BY <1>1, <1>4, <1>5, <1>6
<1>8. new = h
    BY <1>2, <1>5, <1>7, SeqEqual
<1>9. rev.key = keys[b][CatalogLatest(keys[b], Len(h))].key
    BY DEF CT!Accepts, CT!AuthorityAt, CatalogLatest, rev
<1>10. h # <<>>
    BY <1>1, <1>2, EmptySeq
<1> QED
    BY <1>2, <1>3, <1>8, <1>9, <1>10 DEF new, rev, ch

LEMMA CatalogVerifiedGrows ==
    ASSUME NEW ks, NEW ch \in Seq(CT!Revision), NEW h \in Seq(CT!Revision), CatalogVerified(ch, ks),
           Len(h) = Len(ch) + 1, CT!IsPrefixOf(ch, h), h[Len(h)].key = ks[CatalogLatest(ks, Len(h))].key,
           \A e \in 1..Len(ks) : ks[e].cutoff \in Nat
    PROVE  CatalogVerified(h, ks)
<1>1. Len(ch) \in Nat /\ \A i \in 1..Len(ch) : h[i] = ch[i]
    BY CatalogPrefixIs, LenProperties
<1>2. \A n \in 1..Len(h) : h[n].key = ks[CatalogLatest(ks, n)].key
    <2> TAKE n \in 1..Len(h)
    <2>1. n \in 1..Len(ch) \/ n = Len(h)
        BY <1>1
    <2> QED
        BY <1>1, <2>1 DEF CatalogVerified
<1>3. \A e \in 1..Len(ks) : ks[e].cutoff <= Len(h)
    BY <1>1 DEF CatalogVerified
<1> QED
    BY <1>2, <1>3 DEF CatalogVerified

LEMMA CatalogVerifiedEnrolls ==
    ASSUME MaxRevs \in Nat, NEW ks \in Seq(CT!Epoch), NEW ch \in Seq(CT!Revision), CatalogVerified(ch, ks),
           NEW ep \in CT!Epoch, ep.cutoff = Len(ch), \A e \in 1..Len(ks) : ks[e].key # ep.key
    PROVE  CatalogVerified(ch, Append(ks, ep))
<1> DEFINE new == Append(ks, ep)
<1>1. /\ new \in Seq(CT!Epoch) /\ Len(new) = Len(ks) + 1 /\ Len(ks) \in Nat /\ Len(ch) \in Nat
      /\ \A i \in 1..Len(ks) : new[i] = ks[i]
      /\ new[Len(ks) + 1] = ep
    BY AppendProperties, LenProperties
<1> HIDE DEF new
<1>2. \A e \in 1..Len(new) : e \in 1..Len(ks) \/ e = Len(ks) + 1
    BY <1>1
<1>3. \A e \in 1..Len(ks) : ks[e].cutoff \in Nat
    <2>1. \A e \in 1..Len(ks) : ks[e] \in CT!Epoch
        BY ElementOfSeq
    <2> QED
        BY <2>1 DEF CT!Epoch
<1>4. Len(ks) > 0 /\ ks[1].cutoff = 0 /\ \A e \in 1..Len(ks) : ks[e].cutoff <= Len(ch)
    BY DEF CatalogVerified, CatalogEpochs
<1>5. \A e, f \in 1..Len(ks) : e < f => ks[e].cutoff <= ks[f].cutoff /\ ks[e].key # ks[f].key
    BY DEF CatalogVerified, CatalogEpochs
<1>6. CatalogEpochs(new)
    <2>1. Len(new) > 0 /\ new[1].cutoff = 0
        BY <1>1, <1>4
    <2>2. \A e, f \in 1..Len(new) : e < f => new[e].cutoff <= new[f].cutoff /\ new[e].key # new[f].key
        <3> TAKE e, f \in 1..Len(new)
        <3> HAVE e < f
        <3>1. e \in 1..Len(ks)
            BY <1>1
        <3>2. CASE f \in 1..Len(ks)
            BY <1>1, <1>5, <3>1, <3>2
        <3>3. CASE f = Len(ks) + 1
            BY <1>1, <1>4, <3>1, <3>3
        <3> QED
            BY <1>2, <3>2, <3>3
    <2> QED
        BY <2>1, <2>2 DEF CatalogEpochs
<1>7. \A n \in 1..Len(ch) : ch[n].key = new[CatalogLatest(new, n)].key
    <2> TAKE n \in 1..Len(ch)
    <2>1. n \in Nat \ {0} /\ n <= ep.cutoff
        BY <1>1
    <2>2. CatalogEpochs(ks) /\ ch[n].key = ks[CatalogLatest(ks, n)].key
        BY DEF CatalogVerified
    <2> QED
        BY <1>6, <2>1, <2>2, CatalogEpochAdded DEF new
<1>8. \A e \in 1..Len(new) : new[e].cutoff <= Len(ch)
    BY <1>1, <1>2, <1>4
<1> QED
    BY <1>6, <1>7, <1>8 DEF CatalogVerified, new

\* A fresh board's catalog verifies.
LEMMA CatalogFreshIs ==
    ASSUME CT!CatalogAssumption
    PROVE  /\ CT!Fresh.chain = <<>> /\ CT!Fresh.keys \in Seq(CT!Epoch) /\ CT!Fresh.map = FALSE
           /\ CT!Fresh.upstream = 0 /\ CT!Fresh.peer = 0
           /\ CatalogVerified(CT!Fresh.chain, CT!Fresh.keys)
<1> DEFINE first == [key |-> 1, cutoff |-> 0]
<1>1. first \in CT!Epoch /\ first.cutoff = 0
    BY DEF CT!Epoch, CT!CatalogAssumption
<1>2. CT!Fresh.chain = <<>> /\ CT!Fresh.keys = <<first>> /\ CT!Fresh.map = FALSE /\ CT!Fresh.upstream = 0 /\ CT!Fresh.peer = 0
    BY DEF CT!Fresh
<1> HIDE DEF first
<1>3. <<first>> \in Seq(CT!Epoch) /\ Len(<<first>>) = 1 /\ <<first>>[1] = first /\ Len(<<>>) = 0
    BY <1>1
<1>4. CatalogVerified(<<>>, <<first>>)
    BY <1>1, <1>3 DEF CatalogVerified, CatalogEpochs
<1> QED
    BY <1>2, <1>3, <1>4

\* What is published stays so, and stays closed under prefixes.
LEMMA CatalogChainedStep == ASSUME CT!CatalogAssumption, CatalogInv, [CT!Next]_(CT!vars) PROVE CatalogChained' /\ published \subseteq published'
<1> USE DEF CatalogInv, CatalogTyped, CT!CatalogAssumption
<1>1. ASSUME NEW status \in Lifecycles, CT!Publish(status) PROVE CatalogChained' /\ published \subseteq published'
    <2> DEFINE ch == chain[1]
               rev == [status |-> status, key |-> CT!Key(1)]
               h == Append(ch, rev)
    <2>0. 1 \in CT!Boards
        BY DEF CT!Boards
    <2>1. 1 \in CT!Boards /\ ch \in published /\ ch \in Seq(CT!Revision) /\ Len(ch) \in Nat
        BY <2>0, LenProperties DEF CatalogWhole
    <2>2. Len(h) <= MaxRevs /\ published' = published \cup {h}
        BY <1>1 DEF CT!Publish
    <2>3. rev \in CT!Revision
        <3>1. CT!Key(1) \in 1..MaxKeys
            <4>1. keys[1] \in Seq(CT!Epoch) /\ Len(keys[1]) \in Nat /\ Len(keys[1]) > 0
                BY <2>1, LenProperties DEF CatalogWhole, CatalogVerified, CatalogEpochs
            <4>2. keys[1][Len(keys[1])] \in CT!Epoch
                BY <4>1, ElementOfSeq
            <4> QED
                BY <4>2 DEF CT!Key, CT!Epoch
        <3> QED
            BY <3>1 DEF CT!Revision
    <2> HIDE DEF ch, rev
    <2>4. /\ h \in Seq(CT!Revision) /\ Len(h) = Len(ch) + 1
          /\ \A i \in 1..Len(ch) : h[i] = ch[i]
        BY <2>1, <2>3, AppendProperties
    <2> HIDE DEF h
    <2>5. \A n \in 0..Len(h) : SubSeq(h, 1, n) \in published'
        <3> TAKE n \in 0..Len(h)
        <3>1. CASE n = Len(h)
            BY <2>2, <2>4, <3>1, SubSeqFull
        <3>2. CASE n \in 0..Len(ch)
            <4>0. Len(h) \in Nat /\ n \in Int /\ 1 \in Int /\ n <= Len(h)
                BY <2>1, <2>4
            <4>1. \A i \in 1..n : h[i] \in CT!Revision /\ ch[i] \in CT!Revision /\ h[i] = ch[i]
                BY <2>1, <2>4, <3>2, ElementOfSeq
            <4>2. /\ SubSeq(h, 1, n) \in Seq(CT!Revision)
                  /\ Len(SubSeq(h, 1, n)) = IF 1 <= n THEN n - 1 + 1 ELSE 0
                  /\ \A i \in 1..(n - 1 + 1) : SubSeq(h, 1, n)[i] = h[1 + i - 1]
                BY <4>0, <4>1, SubSeqProperties
            <4>3. /\ SubSeq(ch, 1, n) \in Seq(CT!Revision)
                  /\ Len(SubSeq(ch, 1, n)) = IF 1 <= n THEN n - 1 + 1 ELSE 0
                  /\ \A i \in 1..(n - 1 + 1) : SubSeq(ch, 1, n)[i] = ch[1 + i - 1]
                BY <4>0, <4>1, SubSeqProperties
            <4>4. Len(SubSeq(h, 1, n)) = n /\ Len(SubSeq(ch, 1, n)) = n
                BY <3>2, <2>1, <4>2, <4>3
            <4>5. \A i \in 1..n : SubSeq(h, 1, n)[i] = SubSeq(ch, 1, n)[i]
                BY <4>0, <4>1, <4>2, <4>3
            <4>6. SubSeq(h, 1, n) = SubSeq(ch, 1, n)
                BY <4>2, <4>3, <4>4, <4>5, SeqEqual
            <4> QED
                BY <2>1, <2>2, <3>2, <4>6 DEF CatalogChained
        <3> QED
            BY <2>1, <2>4, <3>1, <3>2
    <2> QED
        BY <2>2, <2>4, <2>5 DEF CatalogChained
<1>2. UNCHANGED published => CatalogChained' /\ published \subseteq published'
    BY DEF CatalogChained
<1>3. UNCHANGED published \/ \E status \in Lifecycles : CT!Publish(status)
    BY DEF CT!Next, CT!Announce, CT!Import, CT!Choose, CT!Enroll, CT!Save, CT!Restore, CT!Rebuild, CT!Start, CT!Phase, CT!Ask,
           CT!Answer, CT!Object, CT!Ack, CT!Break, CT!vars, CT!board
<1> QED
    BY <1>1, <1>2, <1>3

\* How a board's catalog moves: it stays, grows by a published revision, gets an epoch, or
\* becomes a fresh or a saved one.
CatalogStays(b) == chain'[b] = chain[b] /\ keys'[b] = keys[b] /\ (map'[b] = map[b] \/ CatalogAdmits(chain[b], map'[b]))
CatalogGrows(b) ==
    \E h \in published' :
        /\ CT!Accepts(b, h) /\ chain'[b] = Append(chain[b], h[Len(h)]) /\ keys'[b] = keys[b]
        /\ map'[b] = (map[b] /\ h[Len(h)].status # "retired")
CatalogEnrolls(b) ==
    \E t \in transitions :
        /\ CT!Enrollable(b, t) /\ chain'[b] = chain[b] /\ map'[b] = map[b]
        /\ keys'[b] = Append(keys[b], [key |-> t.new, cutoff |-> Len(t.at)])
CatalogIsMade(b, s) == chain'[b] = s.chain /\ keys'[b] = s.keys /\ map'[b] = s.map
CatalogIsRestored(b) == catalogBackup[b] # None /\ CatalogIsMade(b, catalogBackup[b]) /\ (CT!Restorable(b) \/ CT!Rebuild(b))

LEMMA CatalogBoardMoves ==
    ASSUME CT!CatalogAssumption, CatalogInv, [CT!Next]_(CT!vars), NEW b \in CT!Boards
    PROVE  CatalogStays(b) \/ CatalogGrows(b) \/ CatalogEnrolls(b) \/ (CT!Rebuild(b) /\ CatalogIsMade(b, CT!Fresh)) \/ CatalogIsRestored(b)
<1> USE DEF CatalogInv, CatalogTyped
<1> DEFINE Moves == CatalogStays(b) \/ CatalogGrows(b) \/ CatalogEnrolls(b) \/ (CT!Rebuild(b) /\ CatalogIsMade(b, CT!Fresh)) \/ CatalogIsRestored(b)
<1>1. ASSUME NEW q \in CT!Boards, NEW h \in published', CT!Accepts(q, h), CT!Accept(q, h), UNCHANGED keys
      PROVE  Moves
    <2>1. CASE q = b
        BY <1>1, <2>1 DEF CT!Accept, CatalogGrows
    <2>2. CASE q # b
        BY <1>1, <2>2 DEF CT!Accept, CatalogStays
    <2> QED
        BY <2>1, <2>2
<1>2. ASSUME NEW q \in CT!Boards, NEW s, CT!Becomes(q, s)
      PROVE  IF q = b THEN CatalogIsMade(b, s) ELSE CatalogStays(b)
    BY <1>2 DEF CT!Becomes, CatalogIsMade, CatalogStays
<1>3. ASSUME NEW status \in Lifecycles, CT!Publish(status) PROVE Moves
    <2>1. 1 \in CT!Boards
        BY DEF CT!Boards, CT!CatalogAssumption
    <2> QED
        BY <1>1, <1>3, <2>1 DEF CT!Publish
<1>4. ASSUME NEW q \in CT!Boards, NEW h \in published, CT!Import(q, h) PROVE Moves
    BY <1>1, <1>4, CatalogChainedStep DEF CT!Import
<1>5. ASSUME NEW q \in CT!Boards, NEW mapped \in BOOLEAN, CT!Choose(q, mapped) PROVE Moves
    BY <1>5 DEF CT!Choose, CatalogStays, CatalogAdmits
<1>6. ASSUME NEW q \in CT!Boards, NEW t \in transitions, CT!Enroll(q, t) PROVE Moves
    BY <1>6 DEF CT!Enroll, CatalogStays, CatalogEnrolls
<1>7. ASSUME NEW q \in CT!Boards, CT!Restore(q) PROVE Moves
    <2>1. CT!Becomes(q, catalogBackup[q]) /\ CT!Restorable(q) /\ catalogBackup[q] # None
        BY <1>7 DEF CT!Restore, CT!Restorable
    <2> QED
        BY <1>2, <2>1 DEF CatalogIsRestored
<1>8. ASSUME NEW q \in CT!Boards, CT!Rebuild(q) PROVE Moves
    <2>1. CT!Becomes(q, CT!Fresh) \/ (catalogBackup[q] # None /\ CT!Becomes(q, catalogBackup[q]))
        BY <1>8 DEF CT!Rebuild
    <2> QED
        BY <1>2, <1>8, <2>1 DEF CatalogIsRestored
<1>9. ASSUME NEW c \in CT!Children, CT!Object(c) PROVE Moves
    <2> DEFINE h == SubSeq(chain[c - 1], 1, catalogSess[c].next)
    <2>1. c \in CT!Boards /\ c - 1 \in CT!Boards
        BY DEF CT!Children, CT!Boards, CT!CatalogAssumption
    <2>2. chain[c - 1] \in published /\ catalogSess[c].next \in 1..catalogSess[c].last /\ catalogSess[c].last <= Len(chain[c - 1])
        <3>1. catalogSess[c].at = "objects"
            BY <1>9 DEF CT!Object
        <3>2. /\ catalogSess[c] \in CatalogSession /\ Len(catalogSess[c].head) \in Nat /\ Len(chain[c - 1]) \in Nat
              /\ catalogSess[c].last \in Nat
            BY <2>1, LenProperties DEF CatalogSession
        <3>3. /\ Len(catalogSess[c].head) <= Len(chain[c - 1]) /\ catalogSess[c].last <= Len(catalogSess[c].head)
              /\ catalogSess[c].next \in 1..catalogSess[c].last
            BY <3>1 DEF CatalogSpoken
        <3> QED
            BY <2>1, <3>2, <3>3 DEF CatalogWhole
    <2>3. Len(chain[c - 1]) \in Nat /\ catalogSess[c].last \in Nat
        BY <2>1, LenProperties DEF CatalogSession
    <2>4. h \in published
        BY <2>2, <2>3 DEF CatalogChained
    <2> HIDE DEF h
    <2>5. CASE CT!Accepts(c, h)
        BY <1>1, <1>9, <2>1, <2>4, <2>5, CatalogChainedStep DEF CT!Object, h
    <2>6. CASE ~CT!Accepts(c, h)
        BY <1>9, <2>6 DEF CT!Object, h, CatalogStays
    <2> QED
        BY <2>5, <2>6
<1>10. UNCHANGED <<chain, keys, map>> => Moves
    BY DEF CatalogStays
<1>11. ASSUME NEW c \in CT!Children, CT!Start(c) \/ CT!Ask(c) \/ CT!Answer(c) \/ CT!Ack(c) \/ CT!Break(c)
       PROVE  UNCHANGED <<chain, keys, map>>
    BY <1>11 DEF CT!Start, CT!Ask, CT!Answer, CT!Ack, CT!Break, CT!board
<1>12. ASSUME NEW k, CT!Announce(k) PROVE UNCHANGED <<chain, keys, map>>
    BY <1>12 DEF CT!Announce, CT!board
<1>13. ASSUME NEW q, CT!Save(q) PROVE UNCHANGED <<chain, keys, map>>
    BY <1>13 DEF CT!Save, CT!board
<1>14. ASSUME UNCHANGED CT!vars PROVE Moves
    BY <1>10, <1>14 DEF CT!vars, CT!board
<1> HIDE DEF Moves
<1>15. ASSUME CT!Next PROVE Moves
    BY <1>3, <1>4, <1>5, <1>6, <1>7, <1>8, <1>9, <1>10, <1>11, <1>12, <1>13, <1>15, Zenon DEF CT!Next, CT!Phase
<1> QED
    BY <1>14, <1>15 DEF Moves

\* What a board has is published, verifies and admits its mapping.
LEMMA CatalogWholeStep ==
    ASSUME CT!CatalogAssumption, CatalogInv, [CT!Next]_(CT!vars), NEW b \in CT!Boards
    PROVE  /\ chain'[b] \in published' /\ CatalogVerified(chain'[b], keys'[b]) /\ CatalogAdmits(chain'[b], map'[b])
           /\ chain'[b] \in Seq(CT!Revision) /\ keys'[b] \in Seq(CT!Epoch) /\ map'[b] \in BOOLEAN
           /\ ~CT!Rebuild(b) => CT!IsPrefixOf(chain[b], chain'[b])
<1> USE DEF CatalogInv, CatalogTyped
<1>1. published \subseteq published' /\ CatalogChained'
    BY CatalogChainedStep
<1>2. chain[b] \in published /\ CatalogVerified(chain[b], keys[b]) /\ CatalogAdmits(chain[b], map[b])
    BY DEF CatalogWhole
<1>3. chain[b] \in Seq(CT!Revision) /\ keys[b] \in Seq(CT!Epoch) /\ map[b] \in BOOLEAN
    OBVIOUS
<1>4. CT!IsPrefixOf(chain[b], chain[b])
    <2>1. Len(chain[b]) \in Nat
        BY <1>3, LenProperties
    <2> QED
        BY <1>3, <2>1, CatalogPrefixIs
<1>5. CASE CatalogStays(b)
    <2>1. map'[b] \in BOOLEAN
        <3>1. map' \in [CT!Boards -> BOOLEAN]
            BY DEF CT!Next, CT!Publish, CT!Accept, CT!Announce, CT!Import, CT!Choose, CT!Enroll, CT!Save, CT!Restore, CT!Rebuild,
                   CT!Becomes, CT!Fresh, CT!Restorable, CatalogImage, CT!Start, CT!Phase, CT!Ask, CT!Answer, CT!Object, CT!Ack, CT!Break, CT!vars, CT!board
        <3> QED
            BY <3>1
    <2> QED
        BY <1>1, <1>2, <1>3, <1>4, <1>5, <2>1 DEF CatalogStays
<1>6. CASE CatalogGrows(b)
    <2>1. PICK h \in published' :
            /\ CT!Accepts(b, h) /\ chain'[b] = Append(chain[b], h[Len(h)]) /\ keys'[b] = keys[b]
            /\ map'[b] = (map[b] /\ h[Len(h)].status # "retired")
        BY <1>6 DEF CatalogGrows
    <2>2. h \in Seq(CT!Revision)
        BY <1>1 DEF CatalogChained
    <2>3. /\ Append(chain[b], h[Len(h)]) = h /\ h # <<>>
          /\ Len(h) = Len(chain[b]) + 1 /\ CT!IsPrefixOf(chain[b], h)
          /\ h[Len(h)].key = keys[b][CatalogLatest(keys[b], Len(h))].key
        BY <2>1, <2>2, CatalogAcceptedIs
    <2>4. \A e \in 1..Len(keys[b]) : keys[b][e].cutoff \in Nat
        <3>1. \A e \in 1..Len(keys[b]) : keys[b][e] \in CT!Epoch
            BY <1>3, ElementOfSeq
        <3> QED
            BY <3>1 DEF CT!Epoch
    <2>5. CatalogVerified(h, keys[b])
        BY <1>2, <1>3, <2>2, <2>3, <2>4, CatalogVerifiedGrows
    <2>6. CatalogAdmits(h, map'[b]) /\ map'[b] \in BOOLEAN
        BY <2>1, <2>3, Zenon DEF CatalogAdmits
    <2> QED
        BY <1>3, <2>1, <2>2, <2>3, <2>5, <2>6
<1>7. CASE CatalogEnrolls(b)
    <2>1. PICK t \in transitions :
            /\ CT!Enrollable(b, t) /\ chain'[b] = chain[b] /\ map'[b] = map[b]
            /\ keys'[b] = Append(keys[b], [key |-> t.new, cutoff |-> Len(t.at)])
        BY <1>7 DEF CatalogEnrolls
    <2> DEFINE ep == [key |-> t.new, cutoff |-> Len(t.at)]
    <2>2. t.new \in 1..MaxKeys /\ t.at = chain[b]
        BY <2>1 DEF CT!Enrollable, CatalogTransition
    <2>3. Len(chain[b]) \in 0..MaxRevs
        <3>1. Len(chain[b]) \in Nat
            BY <1>3, LenProperties
        <3> QED
            BY <1>2, <3>1 DEF CatalogChained, CT!CatalogAssumption
    <2>4. ep \in CT!Epoch /\ ep.cutoff = Len(chain[b]) /\ ep.key = t.new
        BY <2>2, <2>3 DEF CT!Epoch
    <2>5. \A e \in 1..Len(keys[b]) : keys[b][e].key # ep.key
        BY <1>3, <2>1, <2>4, LenProperties DEF CT!Enrollable
    <2> HIDE DEF ep
    <2>6. CatalogVerified(chain[b], Append(keys[b], ep))
        BY <1>2, <1>3, <2>4, <2>5, CatalogVerifiedEnrolls DEF CT!CatalogAssumption
    <2>7. Append(keys[b], ep) \in Seq(CT!Epoch)
        BY <1>3, <2>4, AppendProperties
    <2> QED
        BY <1>1, <1>2, <1>3, <1>4, <2>1, <2>6, <2>7 DEF ep
<1>8. CASE CT!Rebuild(b) /\ CatalogIsMade(b, CT!Fresh)
    <2>1. <<>> \in Seq(CT!Revision) /\ FALSE \in BOOLEAN
        OBVIOUS
    <2> QED
        BY <1>1, <1>8, <2>1, CatalogFreshIs DEF CatalogIsMade, CatalogAdmits, CatalogChained
<1>9. CASE CatalogIsRestored(b)
    <2>1. catalogBackup[b] \in CatalogImage /\ catalogBackup[b] # None
        BY <1>9 DEF CatalogIsRestored
    <2>2. /\ catalogBackup[b].chain \in published /\ CatalogVerified(catalogBackup[b].chain, catalogBackup[b].keys)
          /\ CatalogAdmits(catalogBackup[b].chain, catalogBackup[b].map)
        BY <2>1 DEF CatalogSaved
    <2>3. ~CT!Rebuild(b) => CT!IsPrefixOf(chain[b], catalogBackup[b].chain)
        BY <1>9 DEF CatalogIsRestored, CT!Restorable
    <2>4. catalogBackup[b].chain \in Seq(CT!Revision) /\ catalogBackup[b].keys \in Seq(CT!Epoch) /\ catalogBackup[b].map \in BOOLEAN
        BY <2>1 DEF CatalogImage
    <2> QED
        BY <1>1, <1>9, <2>2, <2>3, <2>4 DEF CatalogIsRestored, CatalogIsMade
<1> QED
    BY <1>5, <1>6, <1>7, <1>8, <1>9, CatalogBoardMoves

LEMMA CatalogSavedStep == ASSUME CT!CatalogAssumption, CatalogInv, [CT!Next]_(CT!vars) PROVE CatalogSaved' /\ catalogBackup' \in [CT!Boards -> CatalogImage \cup {None}]
<1> USE DEF CatalogInv, CatalogTyped
<1>1. published \subseteq published'
    BY CatalogChainedStep
<1>2. CASE UNCHANGED catalogBackup
    BY <1>1, <1>2 DEF CatalogSaved
<1>3. ASSUME NEW q \in CT!Boards, CT!Save(q) PROVE CatalogSaved' /\ catalogBackup' \in [CT!Boards -> CatalogImage \cup {None}]
    <2> DEFINE image == [chain |-> chain[q], keys |-> keys[q], upstream |-> upstream[q],
                         peer |-> peer[q], map |-> map[q]]
    <2>1. catalogBackup' = [catalogBackup EXCEPT ![q] = image]
        BY <1>3 DEF CT!Save
    <2>2. image \in CatalogImage /\ image.chain = chain[q] /\ image.keys = keys[q] /\ image.map = map[q]
        BY DEF CatalogImage
    <2> HIDE DEF image
    <2> QED
        BY <1>1, <2>1, <2>2 DEF CatalogSaved, CatalogWhole
<1>4. UNCHANGED catalogBackup \/ \E q \in CT!Boards : CT!Save(q)
    BY DEF CT!Next, CT!Publish, CT!Announce, CT!Import, CT!Choose, CT!Enroll, CT!Restore, CT!Rebuild, CT!Start, CT!Phase, CT!Ask,
           CT!Answer, CT!Object, CT!Ack, CT!Break, CT!vars
<1> QED
    BY <1>2, <1>3, <1>4

\* Only its own steps move a child's session.
LEMMA CatalogSessionMoves ==
    ASSUME CatalogInv, [CT!Next]_(CT!vars), NEW c \in CT!Children
    PROVE  catalogSess'[c] = catalogSess[c] \/ CT!Start(c) \/ CT!Phase(c) \/ CT!Break(c)
<1> USE DEF CatalogInv, CatalogTyped
<1>1. ASSUME NEW d \in CT!Children, CT!Start(d) \/ CT!Ask(d) \/ CT!Answer(d) \/ CT!Object(d) \/ CT!Ack(d) \/ CT!Break(d)
      PROVE  d = c \/ catalogSess'[c] = catalogSess[c]
    BY <1>1 DEF CT!Start, CT!Ask, CT!Answer, CT!Object, CT!Ack, CT!Break
<1>2. ASSUME NEW status, CT!Publish(status) PROVE UNCHANGED catalogSess
    BY <1>2 DEF CT!Publish
<1>3. ASSUME NEW b, CT!Save(b) \/ CT!Restore(b) \/ CT!Rebuild(b) PROVE UNCHANGED catalogSess
    BY <1>3 DEF CT!Save, CT!Restore, CT!Rebuild
<1>4. ASSUME NEW b, NEW x, CT!Import(b, x) \/ CT!Choose(b, x) \/ CT!Enroll(b, x) PROVE UNCHANGED catalogSess
    BY <1>4 DEF CT!Import, CT!Choose, CT!Enroll
<1>5. ASSUME NEW k, CT!Announce(k) PROVE UNCHANGED catalogSess
    BY <1>5 DEF CT!Announce
<1>6. ASSUME UNCHANGED CT!vars PROVE UNCHANGED catalogSess
    BY <1>6 DEF CT!vars
<1> QED
    BY <1>1, <1>2, <1>3, <1>4, <1>5, <1>6, Zenon DEF CT!Next, CT!Phase

LEMMA CatalogParentOf ==
    ASSUME CT!CatalogAssumption, NEW c \in CT!Children
    PROVE  c \in CT!Boards /\ c - 1 \in CT!Boards /\ c - 1 + 1 = c /\ c # c - 1
BY DEF CT!CatalogAssumption, CT!Children, CT!Boards

\* A chain gets shorter only where the board is built anew.
LEMMA CatalogChainLasts ==
    ASSUME CT!CatalogAssumption, CatalogInv, [CT!Next]_(CT!vars), NEW b \in CT!Boards, ~CT!Rebuild(b)
    PROVE  Len(chain[b]) \in Nat /\ Len(chain'[b]) \in Nat /\ Len(chain[b]) <= Len(chain'[b])
<1>1. CT!IsPrefixOf(chain[b], chain'[b]) /\ chain'[b] \in Seq(CT!Revision)
    BY CatalogWholeStep
<1>2. chain[b] \in Seq(CT!Revision)
    BY DEF CatalogInv, CatalogTyped
<1> QED
    BY <1>1, <1>2, LenProperties DEF CT!IsPrefixOf

LEMMA CatalogSpokenStep ==
    ASSUME CT!CatalogAssumption, CatalogInv, [CT!Next]_(CT!vars), NEW c \in CT!Children
    PROVE  /\ catalogSess'[c] \in CatalogSession
           /\ Len(catalogSess'[c].head) <= MaxRevs
           /\ catalogSess'[c].at # "idle" => Len(catalogSess'[c].head) <= Len(chain'[c - 1])
           /\ catalogSess'[c].last <= Len(catalogSess'[c].head)
           /\ catalogSess'[c].at = "idle" => catalogSess'[c].last = 0
           /\ catalogSess'[c].at \in {"objects", "ack"} => catalogSess'[c].next \in 1..catalogSess'[c].last
<1> DEFINE s == catalogSess[c]
           t == catalogSess'[c]
           Says == /\ t \in CatalogSession /\ Len(t.head) <= MaxRevs
                   /\ t.at # "idle" => Len(t.head) <= Len(chain'[c - 1])
                   /\ t.last <= Len(t.head)
                   /\ t.at = "idle" => t.last = 0
                   /\ t.at \in {"objects", "ack"} => t.next \in 1..t.last
<1>1. /\ s \in CatalogSession /\ chain[c] \in Seq(CT!Revision) /\ chain[c - 1] \in Seq(CT!Revision)
      /\ Len(chain[c - 1]) \in Nat /\ Len(s.head) \in Nat /\ Len(s.remote) \in Nat
    BY CatalogParentOf, LenProperties DEF CatalogInv, CatalogTyped, CatalogSession
<1>2. /\ Len(s.head) <= MaxRevs
      /\ s.at # "idle" => Len(s.head) <= Len(chain[c - 1])
      /\ s.last <= Len(s.head)
      /\ s.at = "idle" => s.last = 0
      /\ s.at \in {"objects", "ack"} => s.next \in 1..s.last
    BY DEF CatalogInv, CatalogSpoken
<1>3. Len(chain[c - 1]) <= MaxRevs
    BY CatalogParentOf DEF CatalogInv, CatalogWhole, CatalogChained
<1>4. s.at # "idle" => Len(chain[c - 1]) <= Len(chain'[c - 1]) /\ Len(chain'[c - 1]) \in Nat
    <2>1. CT!Rebuild(c - 1) => s.at = "idle"
        BY CatalogParentOf DEF CT!Rebuild, CT!Stopped
    <2> QED
        BY <2>1, CatalogParentOf, CatalogChainLasts
<1>5. CT!Idle \in CatalogSession /\ CT!Idle.at = "idle" /\ CT!Idle.last = 0 /\ CT!Idle.head = <<>> /\ Len(<<>>) = 0
    BY DEF CT!Idle, CatalogSession
<1>6. catalogSess \in [CT!Children -> CatalogSession] /\ {MaxRevs, CatalogLimit} \subseteq Nat
    BY DEF CatalogInv, CatalogTyped, CT!CatalogAssumption
<1>7. ASSUME t = s PROVE Says
    BY <1>1, <1>2, <1>4, <1>6, <1>7 DEF CatalogSession
<1>8. ASSUME t = CT!Idle PROVE Says
    BY <1>5, <1>6, <1>8
<1>9. ASSUME CT!Start(c) PROVE Says
    <2>1. chain' = chain /\ s.at = "idle" /\ t = [CT!Idle EXCEPT !.at = "head", !.head = chain[c - 1]]
        BY <1>6, <1>9 DEF CT!Start, CT!board
    <2>2. t \in CatalogSession /\ t.head = chain[c - 1] /\ t.at = "head" /\ t.last = 0
        <3>1. t = [at |-> "head", head |-> chain[c - 1], remote |-> <<>>, next |-> 0, last |-> 0]
            BY <2>1 DEF CT!Idle
        <3>2. <<>> \in Seq(CT!Revision)
            OBVIOUS
        <3> HIDE DEF t
        <3> QED
            BY <1>1, <3>1, <3>2 DEF CatalogSession
    <2> HIDE DEF t
    <2> QED
        BY <1>1, <1>3, <2>1, <2>2
<1>10. ASSUME CT!Ask(c) PROVE Says
    <2>1. t = CT!Idle \/ (s.at = "head" /\ t = [s EXCEPT !.at = "asked", !.remote = chain[c]])
        BY <1>6, <1>10 DEF CT!Ask
    <2>2. ASSUME s.at = "head", t = [s EXCEPT !.at = "asked", !.remote = chain[c]]
          PROVE  t \in CatalogSession /\ t.head = s.head /\ t.last = s.last /\ t.at = "asked"
        BY <1>1, <2>2 DEF CatalogSession
    <2> HIDE DEF t, s
    <2>3. ASSUME s.at = "head", t = [s EXCEPT !.at = "asked", !.remote = chain[c]] PROVE Says
        BY <1>1, <1>2, <1>4, <2>2, <2>3
    <2> QED
        BY <2>1, <2>3, <1>8
<1>11. ASSUME CT!Answer(c) PROVE Says
    <2> DEFINE n == Len(s.remote)
               end == CT!Upto(n, Len(s.head))
    <2>1. t = CT!Idle \/ (s.at = "asked" /\ n < end
                         /\ t = [s EXCEPT !.at = "objects", !.next = n + 1, !.last = end])
        BY <1>6, <1>11 DEF CT!Answer
    <2>2. end \in Nat /\ end <= Len(s.head) /\ n \in Nat /\ n + 1 \in Nat
        BY <1>1, <1>6 DEF CT!Upto
    <2> HIDE DEF n, end
    <2>3. ASSUME s.at = "asked", t = [s EXCEPT !.at = "objects", !.next = n + 1, !.last = end]
          PROVE  t \in CatalogSession /\ t.head = s.head /\ t.last = end /\ t.at = "objects" /\ t.next = n + 1
        <3> HIDE DEF s, t
        <3> QED
            BY <1>1, <2>2, <2>3 DEF CatalogSession
    <2> HIDE DEF t, s
    <2>4. ASSUME s.at = "asked", n < end, t = [s EXCEPT !.at = "objects", !.next = n + 1, !.last = end] PROVE Says
        BY <1>1, <1>2, <1>4, <2>2, <2>3, <2>4
    <2> QED
        BY <2>1, <2>4, <1>8
<1>12. ASSUME CT!Object(c) PROVE Says
    <2>1. t = CT!Idle \/ (s.at = "objects" /\ t = [s EXCEPT !.at = "ack"])
        BY <1>6, <1>12 DEF CT!Object
    <2>2. ASSUME s.at = "objects", t = [s EXCEPT !.at = "ack"]
          PROVE  t \in CatalogSession /\ t.head = s.head /\ t.last = s.last /\ t.at = "ack" /\ t.next = s.next
        BY <1>1, <2>2 DEF CatalogSession
    <2> HIDE DEF t, s
    <2>3. ASSUME s.at = "objects", t = [s EXCEPT !.at = "ack"] PROVE Says
        BY <1>1, <1>2, <1>4, <2>2, <2>3
    <2> QED
        BY <2>1, <2>3, <1>8
<1>13. ASSUME CT!Ack(c) PROVE Says
    <2>1. t = CT!Idle \/ (s.at = "ack" /\ s.next # s.last /\ t = [s EXCEPT !.at = "objects", !.next = s.next + 1])
        <3>1. s.at = "ack" /\ catalogSess' = [catalogSess EXCEPT ![c] =
                                IF s.next = s.last THEN CT!Idle
                                ELSE [s EXCEPT !.at = "objects", !.next = s.next + 1]]
            BY <1>13, Zenon DEF CT!Ack
        <3>2. t = IF s.next = s.last THEN CT!Idle ELSE [s EXCEPT !.at = "objects", !.next = s.next + 1]
            BY <1>6, <3>1
        <3> HIDE DEF t, s
        <3> QED
            BY <3>1, <3>2
    <2>2. ASSUME s.at = "ack", t = [s EXCEPT !.at = "objects", !.next = s.next + 1]
          PROVE  t \in CatalogSession /\ t.head = s.head /\ t.last = s.last /\ t.at = "objects" /\ t.next = s.next + 1
        <3>1. s.next + 1 \in Nat
            BY <1>1 DEF CatalogSession
        <3> HIDE DEF t, s
        <3> QED
            BY <1>1, <2>2, <3>1 DEF CatalogSession
    <2>3. s.last \in Nat /\ s.next \in Nat
        BY <1>1 DEF CatalogSession
    <2> HIDE DEF t, s
    <2>4. ASSUME s.at = "ack", s.next # s.last, t = [s EXCEPT !.at = "objects", !.next = s.next + 1] PROVE Says
        BY <1>1, <1>2, <1>4, <2>2, <2>3, <2>4
    <2> QED
        BY <2>1, <2>4, <1>8
<1>14. ASSUME CT!Break(c) PROVE Says
    BY <1>6, <1>8, <1>14 DEF CT!Break
<1> HIDE DEF Says
<1>15. Says
    BY <1>7, <1>9, <1>10, <1>11, <1>12, <1>13, <1>14, CatalogSessionMoves DEF CT!Phase
<1> QED
    BY <1>15 DEF Says

\* Every step changes boards one by one.
LEMMA CatalogFunctionsStay ==
    ASSUME CatalogInv, [CT!Next]_(CT!vars)
    PROVE  /\ chain' = [b \in CT!Boards |-> chain'[b]] /\ keys' = [b \in CT!Boards |-> keys'[b]]
           /\ upstream' = [b \in CT!Boards |-> upstream'[b]] /\ peer' = [b \in CT!Boards |-> peer'[b]]
           /\ map' = [b \in CT!Boards |-> map'[b]] /\ catalogSess' = [c \in CT!Children |-> catalogSess'[c]]
<1> USE DEF CatalogInv, CatalogTyped
<1> DEFINE Same(f, S) == DOMAIN f = S /\ f = [x \in S |-> f[x]]
           All == /\ Same(chain', CT!Boards) /\ Same(keys', CT!Boards) /\ Same(upstream', CT!Boards)
                  /\ Same(peer', CT!Boards) /\ Same(map', CT!Boards) /\ Same(catalogSess', CT!Children)
<1>1. ASSUME NEW c \in CT!Children, CT!Start(c) \/ CT!Ask(c) \/ CT!Answer(c) \/ CT!Object(c) \/ CT!Ack(c) \/ CT!Break(c)
      PROVE  All
    BY <1>1 DEF CT!Start, CT!Ask, CT!Answer, CT!Object, CT!Accept, CT!Ack, CT!Break, CT!board
<1>2. ASSUME NEW status, CT!Publish(status) PROVE All
    BY <1>2 DEF CT!Publish, CT!Accept
<1>3. ASSUME NEW b, CT!Save(b) \/ CT!Restore(b) \/ CT!Rebuild(b) PROVE All
    BY <1>3 DEF CT!Save, CT!Restore, CT!Rebuild, CT!Becomes, CT!board
<1>4. ASSUME NEW b, NEW x, CT!Import(b, x) \/ CT!Choose(b, x) \/ CT!Enroll(b, x) PROVE All
    BY <1>4 DEF CT!Import, CT!Choose, CT!Enroll, CT!Accept
<1>5. ASSUME NEW k, CT!Announce(k) PROVE All
    BY <1>5 DEF CT!Announce, CT!board
<1>6. ASSUME UNCHANGED CT!vars PROVE All
    BY <1>6 DEF CT!vars, CT!board
<1> HIDE DEF All
<1>7. All
    BY <1>1, <1>2, <1>3, <1>4, <1>5, <1>6, Zenon DEF CT!Next, CT!Phase
<1> QED
    BY <1>7 DEF All

LEMMA CatalogUpstreamStep ==
    ASSUME CT!CatalogAssumption, CatalogInv, [CT!Next]_(CT!vars), NEW b \in CT!Boards
    PROVE  upstream'[b] \in 0..MaxRevs
<1> USE DEF CatalogInv, CatalogTyped
<1>1. ASSUME NEW c \in CT!Children, CT!Ask(c) PROVE upstream'[b] \in 0..MaxRevs
    <2>1. catalogSess[c].head \in Seq(CT!Revision) /\ Len(catalogSess[c].head) \in Nat /\ Len(catalogSess[c].head) <= MaxRevs
        BY LenProperties DEF CatalogSession, CatalogSpoken
    <2> DEFINE v == Len(catalogSess[c].head)
    <2>2. upstream' = upstream \/ upstream' = [upstream EXCEPT ![c] = v]
        BY <1>1 DEF CT!Ask
    <2>3. v \in 0..MaxRevs
        BY <2>1 DEF CT!CatalogAssumption
    <2> HIDE DEF v
    <2> QED
        BY <2>2, <2>3
<1>2. ASSUME NEW q \in CT!Boards, NEW s, CT!Becomes(q, s), s.upstream \in 0..MaxRevs PROVE upstream'[b] \in 0..MaxRevs
    BY <1>2 DEF CT!Becomes
<1>3. CT!Fresh.upstream \in 0..MaxRevs
    BY CatalogFreshIs DEF CT!CatalogAssumption
<1>4. ASSUME NEW q \in CT!Boards, catalogBackup[q] # None PROVE catalogBackup[q].upstream \in 0..MaxRevs
    BY <1>4 DEF CatalogImage
<1>5. ASSUME NEW q \in CT!Boards, CT!Restore(q) \/ CT!Rebuild(q) PROVE upstream'[b] \in 0..MaxRevs
    BY <1>2, <1>3, <1>4, <1>5 DEF CT!Restore, CT!Restorable, CT!Rebuild
<1>6. ASSUME UNCHANGED upstream PROVE upstream'[b] \in 0..MaxRevs
    BY <1>6
<1>7. \/ UNCHANGED upstream
      \/ \E c \in CT!Children : CT!Ask(c)
      \/ \E q \in CT!Boards : CT!Restore(q) \/ CT!Rebuild(q)
    BY DEF CT!Next, CT!Publish, CT!Announce, CT!Import, CT!Choose, CT!Enroll, CT!Save, CT!Start, CT!Phase, CT!Answer, CT!Object,
           CT!Ack, CT!Break, CT!vars, CT!board
<1> QED
    BY <1>1, <1>5, <1>6, <1>7

LEMMA CatalogPeerStep ==
    ASSUME CT!CatalogAssumption, CatalogInv, [CT!Next]_(CT!vars), NEW b \in CT!Boards
    PROVE  peer'[b] \in 0..MaxRevs
<1> USE DEF CatalogInv, CatalogTyped
<1>1. ASSUME NEW c \in CT!Children, CT!Answer(c) PROVE peer'[b] \in 0..MaxRevs
    <2>1. /\ catalogSess[c].head \in Seq(CT!Revision) /\ Len(catalogSess[c].head) \in Nat /\ Len(catalogSess[c].head) <= MaxRevs
          /\ catalogSess[c].remote \in Seq(CT!Revision) /\ Len(catalogSess[c].remote) \in Nat
        BY LenProperties DEF CatalogSession, CatalogSpoken
    <2> DEFINE v == Len(catalogSess[c].remote)
    <2>2. peer' = peer \/ (CT!IsPrefixOf(catalogSess[c].remote, catalogSess[c].head)
                            /\ peer' = [peer EXCEPT ![c - 1] = v])
        BY <1>1 DEF CT!Answer
    <2>3. CT!IsPrefixOf(catalogSess[c].remote, catalogSess[c].head) => v \in 0..MaxRevs
        BY <2>1 DEF CT!CatalogAssumption, CT!IsPrefixOf
    <2> HIDE DEF v
    <2> QED
        BY <2>2, <2>3
<1>2. ASSUME NEW c \in CT!Children, CT!Ack(c) PROVE peer'[b] \in 0..MaxRevs
    <2>1. /\ Len(catalogSess[c].head) \in Nat /\ Len(catalogSess[c].head) <= MaxRevs /\ catalogSess[c].last \in Nat
          /\ catalogSess[c].last <= Len(catalogSess[c].head)
        BY LenProperties DEF CatalogSession, CatalogSpoken
    <2>2. catalogSess[c].next \in 1..catalogSess[c].last /\ peer' = [peer EXCEPT ![c - 1] = catalogSess[c].next]
        BY <1>2 DEF CT!Ack, CT!Acknowledged, CatalogSpoken
    <2> QED
        BY <2>1, <2>2 DEF CT!CatalogAssumption
<1>3. ASSUME NEW q \in CT!Boards, NEW s, CT!Becomes(q, s), s.peer \in 0..MaxRevs PROVE peer'[b] \in 0..MaxRevs
    BY <1>3 DEF CT!Becomes
<1>4. CT!Fresh.peer \in 0..MaxRevs
    BY CatalogFreshIs DEF CT!CatalogAssumption
<1>5. ASSUME NEW q \in CT!Boards, catalogBackup[q] # None PROVE catalogBackup[q].peer \in 0..MaxRevs
    BY <1>5 DEF CatalogImage
<1>6. ASSUME NEW q \in CT!Boards, CT!Restore(q) \/ CT!Rebuild(q) PROVE peer'[b] \in 0..MaxRevs
    BY <1>3, <1>4, <1>5, <1>6 DEF CT!Restore, CT!Restorable, CT!Rebuild
<1>7. ASSUME UNCHANGED peer PROVE peer'[b] \in 0..MaxRevs
    BY <1>7
<1>8. \/ UNCHANGED peer
      \/ \E c \in CT!Children : CT!Answer(c) \/ CT!Ack(c)
      \/ \E q \in CT!Boards : CT!Restore(q) \/ CT!Rebuild(q)
    BY DEF CT!Next, CT!Publish, CT!Announce, CT!Import, CT!Choose, CT!Enroll, CT!Save, CT!Start, CT!Phase, CT!Ask, CT!Object,
           CT!Break, CT!vars, CT!board
<1> QED
    BY <1>1, <1>2, <1>6, <1>7, <1>8

LEMMA CatalogInvStep == ASSUME CT!CatalogAssumption, CatalogInv, [CT!Next]_(CT!vars) PROVE CatalogInv'
<1>1. CatalogChained' /\ CatalogSaved' /\ catalogBackup' \in [CT!Boards -> CatalogImage \cup {None}]
    BY CatalogChainedStep, CatalogSavedStep
<1>2. CatalogWhole'
    BY CatalogWholeStep DEF CatalogWhole
<1>3. CatalogSpoken'
    BY CatalogSpokenStep DEF CatalogSpoken
<1>4. \A b \in CT!Boards : /\ chain'[b] \in Seq(CT!Revision) /\ keys'[b] \in Seq(CT!Epoch)
                        /\ map'[b] \in BOOLEAN
    BY CatalogWholeStep
<1>5. \A b \in CT!Boards : upstream'[b] \in 0..MaxRevs /\ peer'[b] \in 0..MaxRevs
    BY CatalogUpstreamStep, CatalogPeerStep
<1>6. \A c \in CT!Children : catalogSess'[c] \in CatalogSession
    BY CatalogSpokenStep
<1>7. /\ chain' \in [CT!Boards -> Seq(CT!Revision)] /\ keys' \in [CT!Boards -> Seq(CT!Epoch)]
      /\ map' \in [CT!Boards -> BOOLEAN] /\ upstream' \in [CT!Boards -> 0..MaxRevs]
      /\ peer' \in [CT!Boards -> 0..MaxRevs] /\ catalogSess' \in [CT!Children -> CatalogSession]
    BY <1>4, <1>5, <1>6, CatalogFunctionsStay
<1>8. transitions' \subseteq CatalogTransition
    <2> USE DEF CatalogInv, CatalogTyped
    <2>1. ASSUME NEW k \in 1..MaxKeys, CT!Announce(k) PROVE transitions' \subseteq CatalogTransition
        <3>1. 1 \in CT!Boards
            BY DEF CT!Boards, CT!CatalogAssumption
        <3>2. keys[1] \in Seq(CT!Epoch) /\ Len(keys[1]) \in Nat /\ Len(keys[1]) > 0 /\ chain[1] \in Seq(CT!Revision)
            BY <3>1, LenProperties DEF CatalogWhole, CatalogVerified, CatalogEpochs
        <3>3. keys[1][Len(keys[1])] \in CT!Epoch
            BY <3>2, ElementOfSeq
        <3>4. CT!Key(1) \in 1..MaxKeys
            BY <3>3 DEF CT!Key, CT!Epoch
        <3>5. [old |-> CT!Key(1), new |-> k, at |-> chain[1]] \in CatalogTransition
            BY <3>2, <3>4 DEF CatalogTransition
        <3> QED
            BY <2>1, <3>5 DEF CT!Announce
    <2>2. UNCHANGED transitions \/ \E k \in 1..MaxKeys : CT!Announce(k)
        BY DEF CT!Next, CT!Publish, CT!Import, CT!Choose, CT!Enroll, CT!Save, CT!Restore, CT!Rebuild, CT!Start, CT!Phase, CT!Ask,
               CT!Answer, CT!Object, CT!Ack, CT!Break, CT!vars
    <2> QED
        BY <2>1, <2>2
<1>9. catalogFaults' \in 0..CatalogFaults
    <2>1. catalogFaults \in 0..CatalogFaults /\ CatalogFaults \in Nat
        BY DEF CatalogInv, CatalogTyped, CT!CatalogAssumption
    <2>2. UNCHANGED catalogFaults \/ (catalogFaults < CatalogFaults /\ catalogFaults' = catalogFaults + 1)
        BY DEF CT!Next, CT!Publish, CT!Announce, CT!Import, CT!Choose, CT!Enroll, CT!Save, CT!Restore, CT!Rebuild, CT!Start,
               CT!Phase, CT!Ask, CT!Answer, CT!Object, CT!Ack, CT!Break, CT!vars
    <2> QED
        BY <2>1, <2>2
<1> QED
    BY <1>1, <1>2, <1>3, <1>7, <1>8, <1>9 DEF CatalogInv, CatalogTyped

LEMMA CatalogInvInit == ASSUME CT!CatalogAssumption, CT!Init PROVE CatalogInv
<1>1. /\ chain = [b \in CT!Boards |-> <<>>] /\ keys = [b \in CT!Boards |-> CT!Fresh.keys]
      /\ upstream = [b \in CT!Boards |-> 0] /\ peer = [b \in CT!Boards |-> 0]
      /\ map = [b \in CT!Boards |-> FALSE]
      /\ catalogSess = [c \in CT!Children |-> CT!Idle] /\ catalogBackup = [b \in CT!Boards |-> None]
      /\ published = {<<>>} /\ transitions = {} /\ catalogFaults = 0
    BY CatalogFreshIs DEF CT!Init
<1>2. <<>> \in Seq(CT!Revision) /\ Len(<<>>) = 0 /\ SubSeq(<<>>, 1, 0) = <<>>
    BY SubSeqEmpty
<1>3. CT!Idle \in CatalogSession /\ CT!Idle.at = "idle" /\ CT!Idle.last = 0 /\ CT!Idle.head = <<>>
    BY DEF CT!Idle, CatalogSession
<1>4. {0} \subseteq 0..MaxRevs /\ 0 \in 0..CatalogFaults /\ FALSE \in BOOLEAN
    BY DEF CT!CatalogAssumption
<1>5. CatalogTyped
    BY <1>1, <1>2, <1>3, <1>4, CatalogFreshIs DEF CatalogTyped
<1>6. CatalogChained
    <2>1. \A n \in 0..0 : n = 0
        OBVIOUS
    <2> QED
        BY <1>1, <1>2, <1>4, <2>1 DEF CatalogChained
<1>7. CatalogWhole /\ CatalogSaved
    BY <1>1, CatalogFreshIs DEF CatalogWhole, CatalogSaved, CatalogAdmits
<1>8. CatalogSpoken
    BY <1>1, <1>2, <1>3, <1>4 DEF CatalogSpoken, CT!CatalogAssumption
<1> QED
    BY <1>5, <1>6, <1>7, <1>8 DEF CatalogInv

\* The inductive invariant: what a board or a backup has is published, verifies and admits its
\* mapping, and a session speaks of what the parent has (circuitnet_catalog_receive).
THEOREM CatalogInvariant == CT!CatalogAssumption => (CT!Spec => []CatalogInv)
<1> SUFFICES ASSUME CT!CatalogAssumption PROVE CT!Spec => []CatalogInv
    OBVIOUS
<1>1. CT!Init => CatalogInv
    BY CatalogInvInit
<1>2. CatalogInv /\ [CT!Next]_(CT!vars) => CatalogInv'
    BY CatalogInvStep
<1> QED
    BY <1>1, <1>2, PTL DEF CT!Spec

\* A board never enrolls more keys than there are.
LEMMA CatalogKeysFit ==
    ASSUME CT!CatalogAssumption, CatalogInv, NEW b \in CT!Boards
    PROVE  Len(keys[b]) \in 1..MaxKeys
<1> DEFINE ks == keys[b]
           n == Len(ks)
           f == [e \in 1..n |-> ks[e].key]
<1>1. ks \in Seq(CT!Epoch) /\ n \in Nat /\ n > 0
    BY LenProperties DEF CatalogInv, CatalogTyped, CatalogWhole, CatalogVerified, CatalogEpochs
<1>2. \A e \in 1..n : ks[e].key \in 1..MaxKeys
    <2>1. \A e \in 1..n : ks[e] \in CT!Epoch
        BY <1>1, ElementOfSeq
    <2> QED
        BY <2>1 DEF CT!Epoch
<1>3. \A d, e \in 1..n : d < e => ks[d].key # ks[e].key
    BY DEF CatalogInv, CatalogWhole, CatalogVerified, CatalogEpochs
<1> HIDE DEF n, ks
<1>4. f \in [1..n -> 1..MaxKeys]
    BY <1>2
<1>5. \A d, e \in 1..n : f[d] = f[e] => d = e
    <2> TAKE d, e \in 1..n
    <2>1. d < e \/ e < d \/ d = e
        BY <1>1
    <2> QED
        BY <1>3, <2>1
<1> HIDE DEF f
<1>6. f \in Injection(1..n, 1..MaxKeys)
    BY <1>4, <1>5 DEF Injection, IsInjective
<1>7. IsFiniteSet(1..MaxKeys) /\ Cardinality(1..MaxKeys) = MaxKeys
    <2>1. 1 \in Int /\ MaxKeys \in Int /\ MaxKeys >= 1
        BY DEF CT!CatalogAssumption
    <2>2. IsFiniteSet(1..MaxKeys) /\ Cardinality(1..MaxKeys) = IF 1 > MaxKeys THEN 0 ELSE MaxKeys - 1 + 1
        BY <2>1, FS_Interval
    <2> QED
        BY <2>1, <2>2
<1>8. Cardinality(1..n) = n
    <2>1. 1 \in Int /\ n \in Int /\ n >= 1
        BY <1>1
    <2>2. Cardinality(1..n) = IF 1 > n THEN 0 ELSE n - 1 + 1
        BY <2>1, FS_Interval
    <2> QED
        BY <2>1, <2>2
<1>9. Cardinality(1..n) <= Cardinality(1..MaxKeys)
    BY <1>6, <1>7, FS_Injection
<1> QED
    BY <1>1, <1>7, <1>8, <1>9 DEF n, ks

LEMMA CatalogInvGivesTypeOK == ASSUME CT!CatalogAssumption, CatalogInv PROVE CT!TypeOK
<1> USE DEF CatalogInv, CatalogTyped
<1>1. \A b \in CT!Boards : Len(keys[b]) \in 1..MaxKeys
    BY CatalogKeysFit
<1>2. ASSUME NEW c \in CT!Children
      PROVE  /\ catalogSess[c].at \in {"idle", "head", "asked", "objects", "ack"}
             /\ catalogSess[c].last <= Len(chain[c - 1])
             /\ catalogSess[c].at \in {"objects", "ack"} => catalogSess[c].next \in 1..catalogSess[c].last
    <2>1. /\ catalogSess[c] \in CatalogSession /\ chain[c - 1] \in Seq(CT!Revision) /\ Len(chain[c - 1]) \in Nat
          /\ Len(catalogSess[c].head) \in Nat
        BY CatalogParentOf, LenProperties DEF CatalogSession
    <2>3. /\ catalogSess[c].at # "idle" => Len(catalogSess[c].head) <= Len(chain[c - 1])
          /\ catalogSess[c].last <= Len(catalogSess[c].head)
          /\ catalogSess[c].at = "idle" => catalogSess[c].last = 0
        BY DEF CatalogSpoken
    <2>4. catalogSess[c].last \in Nat
        BY <2>1 DEF CatalogSession
    <2>2. catalogSess[c].last <= Len(chain[c - 1])
        BY <2>1, <2>3, <2>4
    <2> QED
        BY <2>1, <2>2 DEF CatalogSession, CatalogSpoken
<1> QED
    BY <1>1, <1>2 DEF CT!TypeOK

\* Every board's catalog is one the root published as a whole, verifies under the keys the
\* board enrolled, and routes nothing that it retired (Signed::follows, keys::validate,
\* circuitnet_catalog_receive).
THEOREM OneHistoryHolds ==
    CT!CatalogAssumption => (CT!Spec => [](CT!TypeOK /\ CT!WholeHistory /\ CT!HistoryVerifies /\ CT!RoutingIsAdmitted))
<1> SUFFICES ASSUME CT!CatalogAssumption
             PROVE  CT!Spec => [](CT!TypeOK /\ CT!WholeHistory /\ CT!HistoryVerifies /\ CT!RoutingIsAdmitted)
    OBVIOUS
<1>1. ASSUME CatalogInv PROVE CT!WholeHistory
    BY <1>1 DEF CatalogInv, CatalogWhole, CT!WholeHistory
<1>2. ASSUME CatalogInv PROVE CT!HistoryVerifies
    <2>1. ASSUME NEW b \in CT!Boards
          PROVE  /\ \A n \in DOMAIN chain[b] : chain[b][n].key = CT!AuthorityAt(b, n)
                 /\ \A e \in DOMAIN keys[b] : keys[b][e].cutoff <= Len(chain[b])
                 /\ \A e, f \in DOMAIN keys[b] : e < f =>
                      keys[b][e].cutoff <= keys[b][f].cutoff /\ keys[b][e].key # keys[b][f].key
        <3>1. chain[b] \in Seq(CT!Revision) /\ keys[b] \in Seq(CT!Epoch)
            BY <1>2 DEF CatalogInv, CatalogTyped
        <3>2. DOMAIN chain[b] = 1..Len(chain[b]) /\ DOMAIN keys[b] = 1..Len(keys[b])
            BY <3>1, LenProperties
        <3>3. \A n : CT!AuthorityAt(b, n) = keys[b][CatalogLatest(keys[b], n)].key
            BY DEF CT!AuthorityAt, CatalogLatest
        <3>4. CatalogVerified(chain[b], keys[b])
            BY <1>2 DEF CatalogInv, CatalogWhole
        <3> QED
            BY <3>2, <3>3, <3>4 DEF CatalogVerified, CatalogEpochs
    <2> QED
        BY <2>1 DEF CT!HistoryVerifies
<1>3. ASSUME CatalogInv PROVE CT!RoutingIsAdmitted
    BY <1>3 DEF CatalogInv, CatalogWhole, CatalogAdmits, CT!RoutingIsAdmitted
<1>4. CatalogInv => CT!TypeOK /\ CT!WholeHistory /\ CT!HistoryVerifies /\ CT!RoutingIsAdmitted
    BY <1>1, <1>2, <1>3, CatalogInvGivesTypeOK
<1> QED
    BY <1>4, CatalogInvariant, PTL

\* Short of being rebuilt, no step of a board forgets or changes a revision
\* (circuitnet_catalog_check_restore).
THEOREM HistoryStaysHolds == CT!CatalogAssumption => (CT!Spec => [][CT!HistoryStays]_(CT!vars))
<1> SUFFICES ASSUME CT!CatalogAssumption PROVE CT!Spec => [][CT!HistoryStays]_(CT!vars)
    OBVIOUS
<1>1. CatalogInv /\ [CT!Next]_(CT!vars) => [CT!HistoryStays]_(CT!vars)
    BY CatalogWholeStep DEF CT!HistoryStays
<1> QED
    BY <1>1, CatalogInvariant, PTL DEF CT!Spec

LEMMA CatalogAckedStep ==
    ASSUME CT!CatalogAssumption, Replaceable \cap CT!Children = {}, CatalogInv, CatalogAcked, [CT!Next]_(CT!vars)
    PROVE  CatalogAcked'
<1> USE DEF CatalogInv, CatalogTyped
<1> SUFFICES ASSUME NEW c \in CT!Children
             PROVE  /\ peer'[c - 1] <= Len(chain'[c])
                    /\ catalogBackup'[c - 1] # None => catalogBackup'[c - 1].peer <= Len(chain'[c])
                    /\ catalogSess'[c].at = "asked" => Len(catalogSess'[c].remote) <= Len(chain'[c])
                    /\ catalogSess'[c].at = "ack" => catalogSess'[c].next <= Len(chain'[c])
    BY DEF CatalogAcked
<1>1. c \in CT!Boards /\ c - 1 \in CT!Boards /\ ~CT!Rebuild(c)
    BY CatalogParentOf DEF CT!Rebuild
<1>2. Len(chain[c]) \in Nat /\ Len(chain'[c]) \in Nat /\ Len(chain[c]) <= Len(chain'[c])
    BY <1>1, CatalogChainLasts
<1>3. /\ peer[c - 1] \in Nat /\ peer[c - 1] <= Len(chain[c])
      /\ catalogBackup[c - 1] # None => (catalogBackup[c - 1] \in CatalogImage /\ catalogBackup[c - 1].peer \in Nat
                                  /\ catalogBackup[c - 1].peer <= Len(chain[c]))
      /\ catalogSess[c] \in CatalogSession
      /\ catalogSess[c].at = "asked" => Len(catalogSess[c].remote) <= Len(chain[c])
      /\ catalogSess[c].at = "ack" => catalogSess[c].next <= Len(chain[c])
    BY <1>1 DEF CatalogAcked, CatalogImage
<1>4. Len(catalogSess[c].remote) \in Nat /\ catalogSess[c].next \in Nat
    BY <1>3, LenProperties DEF CatalogSession
<1>5. peer'[c - 1] <= Len(chain'[c])
    <2>1. ASSUME NEW d \in CT!Children, CT!Answer(d) PROVE peer'[c - 1] <= Len(chain'[c])
        <3>1. d - 1 \in CT!Boards /\ (d - 1 = c - 1 => d = c)
            BY CatalogParentOf DEF CT!Children
        <3>2. catalogSess[d].at = "asked" /\ (peer' = peer \/ peer' = [peer EXCEPT ![d - 1] = Len(catalogSess[d].remote)])
            BY <2>1 DEF CT!Answer
        <3> QED
            BY <1>1, <1>2, <1>3, <1>4, <3>1, <3>2
    <2>2. ASSUME NEW d \in CT!Children, CT!Ack(d) PROVE peer'[c - 1] <= Len(chain'[c])
        <3>1. d - 1 \in CT!Boards /\ (d - 1 = c - 1 => d = c)
            BY CatalogParentOf DEF CT!Children
        <3>2. catalogSess[d].at = "ack" /\ peer' = [peer EXCEPT ![d - 1] = catalogSess[d].next]
            BY <2>2 DEF CT!Ack, CT!Acknowledged
        <3> QED
            BY <1>1, <1>2, <1>3, <1>4, <3>1, <3>2
    <2>3. ASSUME NEW q \in CT!Boards, NEW s, CT!Becomes(q, s), q = c - 1 => s.peer \in Nat /\ s.peer <= Len(chain[c])
          PROVE  peer'[c - 1] <= Len(chain'[c])
        BY <1>1, <1>2, <1>3, <2>3 DEF CT!Becomes
    <2>4. CT!Fresh.peer \in Nat /\ CT!Fresh.peer <= Len(chain[c])
        BY <1>2, CatalogFreshIs
    <2>5. ASSUME NEW q \in CT!Boards, CT!Restore(q) \/ CT!Rebuild(q) PROVE peer'[c - 1] <= Len(chain'[c])
        BY <1>3, <2>3, <2>4, <2>5 DEF CT!Restore, CT!Restorable, CT!Rebuild
    <2>6. ASSUME UNCHANGED peer PROVE peer'[c - 1] <= Len(chain'[c])
        BY <1>2, <1>3, <2>6
    <2>7. \/ UNCHANGED peer
          \/ \E d \in CT!Children : CT!Answer(d) \/ CT!Ack(d)
          \/ \E q \in CT!Boards : CT!Restore(q) \/ CT!Rebuild(q)
        BY DEF CT!Next, CT!Publish, CT!Announce, CT!Import, CT!Choose, CT!Enroll, CT!Save, CT!Start, CT!Phase, CT!Ask, CT!Object,
               CT!Break, CT!vars, CT!board
    <2> QED
        BY <2>1, <2>2, <2>5, <2>6, <2>7
<1>6. catalogBackup'[c - 1] # None => catalogBackup'[c - 1].peer <= Len(chain'[c])
    <2>1. ASSUME NEW q \in CT!Boards, CT!Save(q) PROVE catalogBackup'[c - 1] # None => catalogBackup'[c - 1].peer <= Len(chain'[c])
        <3> DEFINE image == [chain |-> chain[q], keys |-> keys[q], upstream |-> upstream[q],
                             peer |-> peer[q], map |-> map[q]]
        <3>1. catalogBackup' = [catalogBackup EXCEPT ![q] = image] /\ image.peer = peer[q]
            BY <2>1 DEF CT!Save
        <3> HIDE DEF image
        <3> QED
            BY <1>1, <1>2, <1>3, <3>1
    <2>2. ASSUME UNCHANGED catalogBackup PROVE catalogBackup'[c - 1] # None => catalogBackup'[c - 1].peer <= Len(chain'[c])
        BY <1>2, <1>3, <2>2
    <2>3. UNCHANGED catalogBackup \/ \E q \in CT!Boards : CT!Save(q)
        BY DEF CT!Next, CT!Publish, CT!Announce, CT!Import, CT!Choose, CT!Enroll, CT!Restore, CT!Rebuild, CT!Start, CT!Phase, CT!Ask,
               CT!Answer, CT!Object, CT!Ack, CT!Break, CT!vars
    <2> QED
        BY <2>1, <2>2, <2>3
<1>7. /\ catalogSess'[c].at = "asked" => Len(catalogSess'[c].remote) <= Len(chain'[c])
      /\ catalogSess'[c].at = "ack" => catalogSess'[c].next <= Len(chain'[c])
    <2> DEFINE Known == /\ catalogSess'[c].at = "asked" => Len(catalogSess'[c].remote) <= Len(chain'[c])
                        /\ catalogSess'[c].at = "ack" => catalogSess'[c].next <= Len(chain'[c])
    <2>1. ASSUME catalogSess'[c] = catalogSess[c] PROVE Known
        BY <1>2, <1>3, <1>4, <2>1
    <2>2. CT!Idle.at = "idle"
        BY DEF CT!Idle
    <2>3. ASSUME CT!Start(c) PROVE Known
        BY <2>2, <2>3 DEF CT!Start, CT!Idle
    <2>4. ASSUME CT!Ask(c) PROVE Known
        BY <1>1, <1>2, <1>3, <2>2, <2>4 DEF CT!Ask, CatalogSession
    <2>5. ASSUME CT!Answer(c) PROVE Known
        BY <1>3, <2>2, <2>5 DEF CT!Answer, CatalogSession
    <2>6. ASSUME CT!Object(c) PROVE Known
        <3> DEFINE h == SubSeq(chain[c - 1], 1, catalogSess[c].next)
        <3>1. catalogSess[c].at = "objects"
            BY <2>6 DEF CT!Object
        <3>2. /\ Len(catalogSess[c].head) <= Len(chain[c - 1]) /\ catalogSess[c].last <= Len(catalogSess[c].head)
              /\ catalogSess[c].next \in 1..catalogSess[c].last
            BY <3>1 DEF CatalogSpoken
        <3>3. chain[c - 1] \in Seq(CT!Revision) /\ Len(chain[c - 1]) \in Nat /\ Len(catalogSess[c].head) \in Nat
              /\ catalogSess[c].last \in Nat
            BY <1>1, <1>3, LenProperties DEF CatalogSession
        <3>4. catalogSess[c].next \in 1..Len(chain[c - 1]) /\ 1 \in Int /\ catalogSess[c].next \in Int
            BY <3>2, <3>3
        <3>5. \A i \in 1..catalogSess[c].next : chain[c - 1][i] \in CT!Revision
            BY <3>3, <3>4, ElementOfSeq
        <3>6. /\ h \in Seq(CT!Revision)
              /\ Len(h) = IF 1 <= catalogSess[c].next THEN catalogSess[c].next - 1 + 1 ELSE 0
            BY <3>4, <3>5, SubSeqProperties
        <3>7. Len(h) = catalogSess[c].next
            BY <3>4, <3>6
        <3> HIDE DEF h
        <3>8. CASE CT!Accepts(c, h)
            <4>1. chain' = [chain EXCEPT ![c] = Append(chain[c], h[Len(h)])]
                  /\ catalogSess' = [catalogSess EXCEPT ![c].at = "ack"]
                BY <2>6, <3>8 DEF CT!Object, CT!Accept, h
            <4>2. Append(chain[c], h[Len(h)]) = h
                BY <1>1, <3>6, <3>8, CatalogAcceptedIs
            <4>3. chain'[c] = h
                BY <1>1, <4>1, <4>2
            <4>4. catalogSess'[c].at = "ack" /\ catalogSess'[c].next = catalogSess[c].next
                BY <1>3, <4>1 DEF CatalogSession
            <4> QED
                BY <1>4, <3>7, <4>3, <4>4
        <3>9. CASE ~CT!Accepts(c, h)
            BY <2>2, <2>6, <3>9 DEF CT!Object, h
        <3> QED
            BY <3>8, <3>9
    <2>7. ASSUME CT!Ack(c) PROVE Known
        BY <1>3, <2>2, <2>7 DEF CT!Ack, CatalogSession
    <2>8. ASSUME CT!Break(c) PROVE Known
        BY <2>2, <2>8 DEF CT!Break
    <2> HIDE DEF Known
    <2>9. Known
        BY <2>1, <2>3, <2>4, <2>5, <2>6, <2>7, <2>8, CatalogSessionMoves DEF CT!Phase
    <2> QED
        BY <2>9 DEF Known
<1> QED
    BY <1>5, <1>6, <1>7

\* Where only the root is built anew, no parent believes that its child has more than it has
\* (circuitnet_catalog_peer).
THEOREM PeerNotAheadHolds ==
    CT!CatalogAssumption /\ Replaceable \cap CT!Children = {} => (CT!Spec => []CT!PeerNotAhead)
<1> SUFFICES ASSUME CT!CatalogAssumption, Replaceable \cap CT!Children = {} PROVE CT!Spec => []CT!PeerNotAhead
    OBVIOUS
<1>1. CT!Init => CatalogAcked
    <2> SUFFICES ASSUME CT!Init, NEW c \in CT!Children
                 PROVE  /\ peer[c - 1] <= Len(chain[c]) /\ catalogBackup[c - 1] = None
                        /\ catalogSess[c].at = "idle"
        BY DEF CatalogAcked
    <2>1. c \in CT!Boards /\ c - 1 \in CT!Boards
        BY CatalogParentOf
    <2>2. peer[c - 1] = 0 /\ chain[c] = <<>> /\ catalogBackup[c - 1] = None /\ catalogSess[c] = CT!Idle
        BY <2>1, CatalogFreshIs DEF CT!Init
    <2> QED
        BY <2>2 DEF CT!Idle
<1>2. CatalogInv /\ CatalogAcked /\ [CT!Next]_(CT!vars) => CatalogAcked'
    BY CatalogAckedStep
<1>3. CatalogAcked => CT!PeerNotAhead
    BY DEF CatalogAcked, CT!PeerNotAhead
<1> QED
    BY <1>1, <1>2, <1>3, CatalogInvariant, PTL DEF CT!Spec

-----------------------------------------------------------------------------
(***************************************************************************)
(* Proofs about restored boards, for any line of boards, posts, names and  *)
(* bounds.  What a board knows fits together in each of its databases, and *)
(* so it does in its backup, which was one of them; a name that was drawn  *)
(* is known at the origin or was forgotten in its restore.                 *)
(***************************************************************************)
CONSTANTS LineLength, Posts, Names, NoPost, LineAttempts, MaxRestores
VARIABLES db, tape, offers, receipts, lineOf, lost, review, restores
CR == INSTANCE CircuitRestore WITH Length <- LineLength, MaxAttempts <- LineAttempts,
    of <- lineOf
(***************************************************************************)
(* Proofs about restored boards, for any line of boards, posts, names and  *)
(* bounds.  What a board knows fits together in each of its databases, and *)
(* so it does in its backup, which was one of them; a name that was drawn  *)
(* is known at the origin or was forgotten in its restore.                 *)
(***************************************************************************)
\* In one database: rows, batches and imports are of messages the board has.
LineFits(d, o) ==
    /\ \A n \in Names : d.row[n].state # "none" => n \in d.msgs
    /\ \A batch \in d.batches \cup d.imports : batch \subseteq d.msgs
    /\ \A n \in d.msgs : o[n] # NoPost
LineWhole == \A b \in CR!Boards : LineFits(db[b], lineOf) /\ LineFits(tape[b], lineOf)

\* The next board has, or forgot, what it gave a receipt for and what is called accepted.
LineAcknowledged ==
    /\ \A b \in CR!Boards, batch \in CR!Batches :
         <<b, batch>> \in receipts => batch \subseteq db[b].msgs \cup lost[b]
    /\ \A b \in 1..(LineLength - 1), n \in Names :
         db[b].row[n].state = "accepted" \/ tape[b].row[n].state = "accepted"
            => n \in db[b + 1].msgs \cup lost[b + 1]

\* The origin has one name for a post at a time, and has each name or forgot it.
LineOneName(d, o) == \A n, m \in d.msgs : o[n] = o[m] => n = m
LineDrawn ==
    /\ LineOneName(db[1], lineOf) /\ LineOneName(tape[1], lineOf)
    /\ \A n \in Names : lineOf[n] # NoPost => n \in db[1].msgs \cup lost[1]
    /\ \A b \in CR!Boards, batch \in CR!Batches :
         <<b, batch>> \in offers => \A n \in batch : lineOf[n] # NoPost
LineInv == CR!TypeOK /\ LineWhole /\ LineAcknowledged /\ LineDrawn /\ CR!RestoredIsReviewed
-----------------------------------------------------------------------------
\* The origin is a board.
LEMMA LineBoardsAre == ASSUME CR!LineAssumption
                   PROVE  1 \in CR!Boards /\ CR!Boards \subseteq Nat /\ LineLength \in CR!Boards
                          /\ \A b \in CR!Boards : b < LineLength => b + 1 \in CR!Boards
BY DEF CR!LineAssumption, CR!Boards

\* What the updates of a table of rows make of it.
LEMMA LineRowsPublished ==
    ASSUME NEW rows \in [Names -> CR!Row], NEW ns \in SUBSET Names, NEW b \in CR!Boards,
           CR!LineAssumption
    PROVE  /\ CR!Publish(b, rows, ns) \in [Names -> CR!Row]
           /\ \A n \in Names : /\ n \notin ns => CR!Publish(b, rows, ns)[n] = rows[n]
                               /\ n \in ns => CR!Publish(b, rows, ns)[n].state = "pending"
                                              \/ CR!Publish(b, rows, ns)[n] = rows[n]
BY DEF CR!LineAssumption, CR!Publish, CR!Row, CR!NoRow, CR!States

\* What a step makes of a row and of a database is one.
LEMMA LineRowsMade ==
    ASSUME NEW r \in CR!Row
    PROVE  /\ \A s \in CR!States : [r EXCEPT !.state = s] \in CR!Row
           /\ \A s \in CR!States, c \in SUBSET Names : [r EXCEPT !.state = s, !.batch = c] \in CR!Row
           /\ \A s \in CR!States, k \in 0..LineAttempts : [r EXCEPT !.tries = k, !.state = s] \in CR!Row
           /\ r.state \in CR!States /\ r.batch \in SUBSET Names /\ r.tries \in 0..LineAttempts
BY DEF CR!Row
LEMMA LineDatabaseIs ==
    ASSUME NEW d \in CR!Database
    PROVE  /\ d.posts \subseteq Posts /\ d.msgs \subseteq Names /\ d.row \in [Names -> CR!Row]
           /\ d.batches \subseteq CR!Batches /\ d.imports \subseteq CR!Batches
           /\ \A n \in Names : d.row[n] \in CR!Row
BY DEF CR!Database
LEMMA LineDatabaseMade ==
    ASSUME NEW d \in CR!Database, NEW rows \in [Names -> CR!Row]
    PROVE  /\ \A posts \in SUBSET Posts : [d EXCEPT !.posts = posts] \in CR!Database
           /\ [d EXCEPT !.row = rows] \in CR!Database
           /\ \A msgs \in SUBSET Names : [d EXCEPT !.msgs = msgs, !.row = rows] \in CR!Database
           /\ \A made \in SUBSET CR!Batches : [d EXCEPT !.batches = made, !.row = rows] \in CR!Database
           /\ \A msgs \in SUBSET Names, seen \in SUBSET CR!Batches :
                 [d EXCEPT !.msgs = msgs, !.row = rows, !.imports = seen] \in CR!Database
<1> DEFINE A == SUBSET Posts
           B == SUBSET Names
           C == [Names -> CR!Row]
           D == SUBSET CR!Batches
<1>1. CR!Database = [posts : A, msgs : B, row : C, batches : D, imports : D]
    BY DEF CR!Database
<1>2. rows \in C
    OBVIOUS
<1>3. SUBSET Posts = A /\ SUBSET Names = B /\ [Names -> CR!Row] = C /\ SUBSET CR!Batches = D
    OBVIOUS
<1> HIDE DEF A, B, C, D
<1> QED
    BY <1>1, <1>2, <1>3

\* What TypeOK says of the databases.
LEMMA LineTyped == ASSUME CR!TypeOK
    PROVE /\ db \in [CR!Boards -> CR!Database] /\ tape \in [CR!Boards -> CR!Database]
          /\ \A b \in CR!Boards :
                /\ db[b] \in CR!Database /\ tape[b] \in CR!Database
                /\ db[b].row \in [Names -> CR!Row] /\ tape[b].row \in [Names -> CR!Row]
                /\ \A n \in Names : db[b].row[n] \in CR!Row /\ tape[b].row[n] \in CR!Row
                /\ db[b].msgs \subseteq Names /\ tape[b].msgs \subseteq Names
                /\ db[b].batches \subseteq CR!Batches /\ tape[b].batches \subseteq CR!Batches
                /\ db[b].imports \subseteq CR!Batches /\ tape[b].imports \subseteq CR!Batches
          /\ offers \subseteq CR!Boards \X CR!Batches /\ receipts \subseteq CR!Boards \X CR!Batches
          /\ lost \in [CR!Boards -> SUBSET Names] /\ review \in [CR!Boards -> SUBSET Names]
          /\ lineOf \in [Names -> Posts \cup {NoPost}] /\ restores \in 0..MaxRestores
BY LineDatabaseIs DEF CR!TypeOK

-----------------------------------------------------------------------------
(* Steps that change no custody: a row moves on, or a batch of rows is put together. *)
LineQuiet(b, d) ==
    /\ db' = [db EXCEPT ![b] = d] /\ d \in CR!Database
    /\ d.msgs = db[b].msgs /\ d.imports = db[b].imports
    /\ \A batch \in d.batches : batch \in db[b].batches \/ \A n \in batch : db[b].row[n].state # "none"
    /\ \A n \in Names : d.row[n].state # "none" =>
         db[b].row[n].state # "none" \/ \E batch \in db[b].batches : n \in batch
    /\ \A n \in Names : d.row[n].state = "accepted" =>
         \/ db[b].row[n].state = "accepted"
         \/ \E batch \in CR!Batches : <<b + 1, batch>> \in receipts /\ n \in batch
    /\ \A n \in Names : db[b].row[n].state = "held" /\ n \in review'[b] => d.row[n].state = "held"
    /\ review' \in [CR!Boards -> SUBSET Names] /\ \A c \in CR!Boards : review'[c] \subseteq review[c]
    /\ offers' \subseteq CR!Boards \X CR!Batches
    /\ \A c \in CR!Boards, batch \in CR!Batches : <<c, batch>> \in offers' =>
         <<c, batch>> \in offers \/ \A n \in batch : db[b].row[n].state # "none"
    /\ UNCHANGED <<tape, receipts, lineOf, lost, restores>>

LEMMA LinePostIsQuiet == ASSUME CR!LineAssumption, CR!TypeOK, NEW p \in Posts, CR!Post(p) PROVE \E d : LineQuiet(1, d)
<1> DEFINE d == [db[1] EXCEPT !.posts = @ \cup {p}]
<1>1. db[1] \in CR!Database /\ db[1].posts \cup {p} \in SUBSET Posts /\ db[1].row \in [Names -> CR!Row]
    BY LineTyped, LineBoardsAre, LineDatabaseIs
<1>2. d \in CR!Database
    BY <1>1, LineDatabaseMade
<1>3. db' = [db EXCEPT ![1] = d]
    BY DEF CR!Post
<1>4. d.msgs = db[1].msgs /\ d.row = db[1].row /\ d.batches = db[1].batches /\ d.imports = db[1].imports
    BY <1>1 DEF CR!Database
<1> HIDE DEF d
<1>5. LineQuiet(1, d)
    BY <1>2, <1>3, <1>4, LineTyped DEF LineQuiet, CR!Post
<1> QED
    BY <1>5

LEMMA LinePrepareIsQuiet == ASSUME CR!LineAssumption, CR!TypeOK, NEW b \in CR!Boards, CR!Prepare(b) PROVE \E d : LineQuiet(b, d)
<1>1. PICK batch \in CR!NextBatches(db[b].row) :
    /\ batch # {}
    /\ db' = [db EXCEPT
                ![b].batches = @ \cup {batch},
                ![b].row = CR!SetRows(@, batch,
                    LAMBDA r : [r EXCEPT !.state = "ready", !.batch = batch])]
    /\ offers' = offers \cup {<<b, batch>>}
    BY DEF CR!Prepare
<1> DEFINE rows == CR!SetRows(db[b].row, batch, LAMBDA r : [r EXCEPT !.state = "ready", !.batch = batch])
           d == [db[b] EXCEPT !.batches = @ \cup {batch}, !.row = rows]
<1>2. /\ batch \in SUBSET Names /\ db[b] \in CR!Database
      /\ \A n \in batch : db[b].row[n].state \in {"pending", "ready", "retry"}
    BY LineTyped DEF CR!NextBatches, CR!Sendable
<1>3. batch # {}
    BY <1>1
<1>4. batch \in CR!Batches /\ db[b].batches \subseteq CR!Batches
    <2>1. batch \in CR!Batches
        BY <1>2, <1>3 DEF CR!Batches
    <2> QED
        BY <2>1, LineTyped
<1>5. rows \in [Names -> CR!Row]
    <2>1. \A n \in Names : db[b].row[n] \in CR!Row
        BY LineTyped
    <2>2. \A n \in Names : [db[b].row[n] EXCEPT !.state = "ready", !.batch = batch] \in CR!Row
        BY <1>2, <2>1, LineRowsMade DEF CR!States
    <2> QED
        BY <2>1, <2>2 DEF CR!SetRows
<1>6. \A n \in Names : IF n \in batch THEN rows[n].state = "ready" ELSE rows[n] = db[b].row[n]
    <2>1. \A n \in Names : db[b].row[n] \in CR!Row
        BY LineTyped
    <2> QED
        BY <2>1 DEF CR!SetRows, CR!Row
<1>7. db' = [db EXCEPT ![b] = d]
    BY <1>1
<1> HIDE DEF rows
<1>8. d \in CR!Database
    <2>1. db[b].batches \cup {batch} \in SUBSET CR!Batches
        BY <1>4
    <2> QED
        BY <1>2, <1>5, <2>1, LineDatabaseMade
<1>9. d.msgs = db[b].msgs /\ d.row = rows /\ d.batches = db[b].batches \cup {batch} /\ d.imports = db[b].imports
    BY <1>2 DEF CR!Database
<1> HIDE DEF d
<1>10. UNCHANGED <<tape, receipts, lineOf, lost, review, restores>>
    BY DEF CR!Prepare
<1>11. offers' = offers \cup {<<b, batch>>}
    BY <1>1
<1>12. /\ offers' \subseteq CR!Boards \X CR!Batches
       /\ \A c \in CR!Boards, other \in CR!Batches : <<c, other>> \in offers' =>
            <<c, other>> \in offers \/ \A n \in other : db[b].row[n].state # "none"
    BY <1>2, <1>4, <1>11, LineTyped
<1>13. LineQuiet(b, d)
    BY <1>2, <1>6, <1>7, <1>8, <1>9, <1>10, <1>12, LineTyped DEF LineQuiet
<1> QED
    BY <1>13

LEMMA LineAcknowledgeIsQuiet ==
    ASSUME CR!LineAssumption, CR!TypeOK, NEW b \in CR!Boards, NEW batch \in CR!Batches, CR!Acknowledge(b, batch)
    PROVE  \E d : LineQuiet(b, d)
<1> DEFINE rows == CR!SetRows(db[b].row, batch, LAMBDA r : [r EXCEPT !.state = "accepted"])
           d == [db[b] EXCEPT !.row = rows]
<1>1. db[b] \in CR!Database /\ \A n \in Names : db[b].row[n] \in CR!Row
    BY LineTyped
<1>2. rows \in [Names -> CR!Row]
    <2>2. \A n \in Names : [db[b].row[n] EXCEPT !.state = "accepted"] \in CR!Row
        BY <1>1, LineRowsMade DEF CR!States, CR!Terminal
    <2> QED
        BY <1>1, <2>2 DEF CR!SetRows
<1>3. \A n \in Names : IF n \in batch THEN rows[n].state = "accepted" ELSE rows[n] = db[b].row[n]
    BY <1>1 DEF CR!SetRows, CR!Row
<1>4. db' = [db EXCEPT ![b] = d] /\ <<b + 1, batch>> \in receipts /\ batch \in db[b].batches
    BY DEF CR!Acknowledge
<1> HIDE DEF rows
<1>5. d \in CR!Database
    BY <1>1, <1>2, LineDatabaseMade
<1>6. d.msgs = db[b].msgs /\ d.row = rows /\ d.batches = db[b].batches /\ d.imports = db[b].imports
    BY <1>1 DEF CR!Database
<1> HIDE DEF d
<1>7. /\ review' = [review EXCEPT ![b] = @ \ batch]
      /\ UNCHANGED <<tape, offers, receipts, lineOf, lost, restores>>
    BY DEF CR!Acknowledge
<1>8. /\ review' \in [CR!Boards -> SUBSET Names] /\ \A c \in CR!Boards : review'[c] \subseteq review[c]
      /\ \A n \in batch : n \notin review'[b]
    BY <1>7, LineTyped
<1>9. LineQuiet(b, d)
    BY <1>3, <1>4, <1>5, <1>6, <1>7, <1>8, LineTyped DEF LineQuiet
<1> QED
    BY <1>9

LEMMA LineFailedIsQuiet ==
    ASSUME CR!LineAssumption, CR!TypeOK, NEW b \in CR!Boards, NEW batch \in CR!Batches, CR!Failed(b, batch)
    PROVE  \E d : LineQuiet(b, d)
<1> DEFINE burnt == CR!Burnt(db[b].row, batch)
           rows == CR!SetRows(db[b].row, burnt, LAMBDA r : [r EXCEPT !.tries = @ + 1,
                    !.state = IF r.tries = LineAttempts - 1 THEN "failed" ELSE "retry"])
           d == [db[b] EXCEPT !.row = rows]
<1>1. /\ burnt \subseteq Names
      /\ \A n \in burnt : db[b].row[n].tries < LineAttempts /\ db[b].row[n].state = "ready"
    BY DEF CR!Burnt, CR!Batches
<1>2. db[b] \in CR!Database /\ LineAttempts \in Nat
    BY LineTyped DEF CR!LineAssumption
<1> HIDE DEF burnt
<1>3. ASSUME NEW n \in Names
      PROVE  /\ rows[n] \in CR!Row
             /\ IF n \in burnt THEN rows[n].state \in {"failed", "retry"} ELSE rows[n] = db[b].row[n]
    <2>1. db[b].row[n] \in CR!Row
        BY LineTyped
    <2>2. CASE n \in burnt
        <3> DEFINE r == db[b].row[n]
                   s == IF r.tries = LineAttempts - 1 THEN "failed" ELSE "retry"
        <3>1. rows[n] = [r EXCEPT !.tries = r.tries + 1, !.state = s]
            BY <2>2 DEF CR!SetRows
        <3>2. s \in {"failed", "retry"} /\ s \in CR!States /\ r.batch \in SUBSET Names /\ r.tries + 1 \in 0..LineAttempts
            BY <1>1, <1>2, <2>1, <2>2 DEF CR!States, CR!Terminal, CR!Row
        <3> HIDE DEF s, r
        <3>3. [r EXCEPT !.tries = r.tries + 1, !.state = s] \in CR!Row
            BY <2>1, <3>2, LineRowsMade DEF r
        <3>4. [r EXCEPT !.tries = r.tries + 1, !.state = s].state = s
            BY <2>1 DEF CR!Row, r
        <3> QED
            BY <2>2, <3>1, <3>2, <3>3, <3>4
    <2>3. CASE n \notin burnt
        BY <2>1, <2>3 DEF CR!SetRows
    <2> QED
        BY <2>2, <2>3
<1>4. rows \in [Names -> CR!Row]
    BY <1>3 DEF CR!SetRows
<1>5. db' = [db EXCEPT ![b] = d]
    BY DEF CR!Failed, burnt
<1> HIDE DEF rows
<1>6. d \in CR!Database
    BY <1>2, <1>4, LineDatabaseMade
<1>7. d.msgs = db[b].msgs /\ d.row = rows /\ d.batches = db[b].batches /\ d.imports = db[b].imports
    BY <1>2 DEF CR!Database
<1> HIDE DEF d
<1>8. UNCHANGED <<tape, offers, receipts, lineOf, lost, review, restores>>
    BY DEF CR!Failed
<1>9. LineQuiet(b, d)
    BY <1>1, <1>3, <1>5, <1>6, <1>7, <1>8, LineTyped DEF LineQuiet
<1> QED
    BY <1>9

LEMMA LineRetryIsQuiet ==
    ASSUME CR!LineAssumption, CR!TypeOK, NEW b \in CR!Boards, NEW n \in Names, CR!Retry(b, n)
    PROVE  \E d : LineQuiet(b, d)
<1> DEFINE rows == [db[b].row EXCEPT ![n].state = "retry"]
           d == [db[b] EXCEPT !.row = rows]
<1>1. db[b] \in CR!Database /\ db[b].row \in [Names -> CR!Row] /\ \A k \in Names : db[b].row[k] \in CR!Row
    BY LineTyped
<1>2. [db[b].row[n] EXCEPT !.state = "retry"] \in CR!Row
    BY <1>1, LineRowsMade DEF CR!States
<1>3. rows \in [Names -> CR!Row]
    BY <1>1, <1>2
<1>4. rows[n].state = "retry" /\ \A k \in Names \ {n} : rows[k] = db[b].row[k]
    BY <1>1 DEF CR!Row
<1>5. db' = [db EXCEPT ![b] = d] /\ db[b].row[n].state \in {"held", "retry"}
    BY DEF CR!Retry
<1> HIDE DEF rows
<1>6. d \in CR!Database
    BY <1>1, <1>3, LineDatabaseMade
<1>7. d.msgs = db[b].msgs /\ d.row = rows /\ d.batches = db[b].batches /\ d.imports = db[b].imports
    BY <1>1 DEF CR!Database
<1> HIDE DEF d
<1>8. /\ review' = [review EXCEPT ![b] = @ \ {n}]
      /\ UNCHANGED <<tape, offers, receipts, lineOf, lost, restores>>
    BY DEF CR!Retry
<1>9. review' \in [CR!Boards -> SUBSET Names] /\ n \notin review'[b] /\ \A c \in CR!Boards : review'[c] \subseteq review[c]
    BY <1>8, LineTyped
<1>10. LineQuiet(b, d)
    BY <1>4, <1>5, <1>6, <1>7, <1>8, <1>9, LineTyped DEF LineQuiet
<1> QED
    BY <1>10

LEMMA LineQuietKeeps ==
    ASSUME CR!LineAssumption, LineInv, NEW b \in CR!Boards, NEW d, LineQuiet(b, d)
    PROVE  LineInv'
<1>1. /\ db' = [db EXCEPT ![b] = d] /\ d \in CR!Database
      /\ UNCHANGED <<tape, receipts, lineOf, lost, restores>> /\ CR!TypeOK
    BY DEF LineQuiet, LineInv
<1>2. /\ db' \in [CR!Boards -> CR!Database] /\ db'[b] = d /\ \A c \in CR!Boards \ {b} : db'[c] = db[c]
      /\ \A c \in CR!Boards : db'[c].msgs = db[c].msgs
    BY <1>1, LineTyped DEF LineQuiet
<1>3. CR!TypeOK'
    BY <1>1, <1>2 DEF CR!TypeOK, LineQuiet
<1>4. LineFits(db[b], lineOf)
    BY DEF LineInv, LineWhole
<1>5. \A n \in Names : db[b].row[n].state # "none" => n \in db[b].msgs
    BY <1>4 DEF LineFits
<1>6. \A batch \in db[b].batches \cup db[b].imports : batch \subseteq db[b].msgs
    BY <1>4 DEF LineFits
<1>7. LineFits(d, lineOf)
    <2>1. \A n \in Names : d.row[n].state # "none" => n \in d.msgs
        BY <1>5, <1>6 DEF LineQuiet
    <2>2. \A batch \in d.batches \cup d.imports : batch \subseteq d.msgs
        <3>1. d.batches \subseteq CR!Batches
            BY <1>1, LineDatabaseIs
        <3>2. \A batch \in CR!Batches : (\A n \in batch : db[b].row[n].state # "none") => batch \subseteq db[b].msgs
            BY <1>5 DEF CR!Batches
        <3> QED
            BY <1>6, <3>1, <3>2 DEF LineQuiet
    <2>3. \A n \in d.msgs : lineOf[n] # NoPost
        BY <1>4 DEF LineFits, LineQuiet
    <2> QED
        BY <2>1, <2>2, <2>3 DEF LineFits
<1>8. LineWhole'
    BY <1>1, <1>2, <1>7 DEF LineInv, LineWhole
<1>9. LineAcknowledged'
    <2>1. \A c \in CR!Boards, batch \in CR!Batches :
            <<c, batch>> \in receipts' => batch \subseteq db'[c].msgs \cup lost'[c]
        BY <1>1, <1>2 DEF LineInv, LineAcknowledged
    <2>2. ASSUME NEW c \in 1..(LineLength - 1), NEW n \in Names,
                 db'[c].row[n].state = "accepted" \/ tape'[c].row[n].state = "accepted"
          PROVE  n \in db'[c + 1].msgs \cup lost'[c + 1]
        <3>1. c \in CR!Boards /\ c + 1 \in CR!Boards
            BY DEF CR!Boards, CR!LineAssumption
        <3>2. db[c].row[n].state = "accepted" \/ tape[c].row[n].state = "accepted"
                => n \in db[c + 1].msgs \cup lost[c + 1]
            BY DEF LineInv, LineAcknowledged
        <3>3. CASE c = b /\ \E batch \in CR!Batches : <<b + 1, batch>> \in receipts /\ n \in batch
            BY <1>1, <1>2, <3>1, <3>3 DEF LineInv, LineAcknowledged
        <3>4. CASE ~(c = b /\ \E batch \in CR!Batches : <<b + 1, batch>> \in receipts /\ n \in batch)
            BY <1>1, <1>2, <2>2, <3>1, <3>2, <3>4 DEF LineQuiet
        <3> QED
            BY <3>3, <3>4
    <2> QED
        BY <2>1, <2>2 DEF LineAcknowledged
<1>10. LineDrawn'
    <2>1. LineOneName(db'[1], lineOf') /\ LineOneName(tape'[1], lineOf')
        BY <1>1, <1>2, LineBoardsAre DEF LineInv, LineDrawn, LineOneName
    <2>2. \A n \in Names : lineOf'[n] # NoPost => n \in db'[1].msgs \cup lost'[1]
        BY <1>1, <1>2, LineBoardsAre DEF LineInv, LineDrawn
    <2>3. ASSUME NEW c \in CR!Boards, NEW batch \in CR!Batches, <<c, batch>> \in offers', NEW n \in batch
          PROVE  lineOf'[n] # NoPost
        <3>1. CASE <<c, batch>> \in offers
            BY <1>1, <3>1 DEF LineInv, LineDrawn
        <3>2. CASE db[b].row[n].state # "none"
            <4>1. n \in Names
                BY DEF CR!Batches
            <4> QED
                BY <1>1, <1>4, <1>5, <3>2, <4>1 DEF LineFits
        <3> QED
            BY <2>3, <3>1, <3>2 DEF LineQuiet
    <2> QED
        BY <2>1, <2>2, <2>3 DEF LineDrawn
<1>11. CR!RestoredIsReviewed'
    <2>1. ASSUME NEW c \in CR!Boards, NEW n \in review'[c] PROVE db'[c].row[n].state = "held"
        <3>1. n \in review[c] /\ n \in Names /\ db[c].row[n].state = "held"
            BY <1>1, LineTyped DEF LineQuiet, LineInv, CR!RestoredIsReviewed
        <3>2. CASE c = b
            BY <1>2, <3>1, <3>2 DEF LineQuiet
        <3>3. CASE c # b
            BY <1>2, <3>1, <3>3
        <3> QED
            BY <3>2, <3>3
    <2> QED
        BY <2>1 DEF CR!RestoredIsReviewed
<1> QED
    BY <1>3, <1>8, <1>9, <1>10, <1>11 DEF LineInv

-----------------------------------------------------------------------------
(* Steps that give a board custody of messages, or take it back.           *)
LEMMA LineScanKeeps == ASSUME CR!LineAssumption, LineInv, CR!Scan PROVE LineInv'
<1>1. PICK draw \in [CR!Unscanned(db[1]) -> {n \in Names : lineOf[n] = NoPost}] :
         LET ns == {draw[p] : p \in CR!Unscanned(db[1])}
         IN  /\ lineOf' = [n \in Names |-> IF n \in ns
                            THEN CHOOSE p \in CR!Unscanned(db[1]) : draw[p] = n ELSE lineOf[n]]
             /\ db' = [db EXCEPT ![1].msgs = @ \cup ns, ![1].row = CR!Publish(1, @, ns)]
    BY DEF CR!Scan
<1> DEFINE ns == {draw[p] : p \in CR!Unscanned(db[1])}
           rows == CR!Publish(1, db[1].row, ns)
           d == [db[1] EXCEPT !.msgs = @ \cup ns, !.row = rows]
<1>2. /\ ns \in SUBSET Names /\ db[1] \in CR!Database /\ CR!TypeOK /\ 1 \in CR!Boards
      /\ db[1].row \in [Names -> CR!Row] /\ db[1].msgs \subseteq Names
      /\ \A n \in ns : lineOf[n] = NoPost
    BY <1>1, LineBoardsAre, LineTyped DEF LineInv
<1>3. /\ rows \in [Names -> CR!Row]
      /\ \A n \in Names : n \notin ns => rows[n] = db[1].row[n]
      /\ \A n \in ns : rows[n].state = "pending" \/ rows[n] = db[1].row[n]
    <2> HIDE DEF ns
    <2>1. ns \in SUBSET Names /\ db[1].row \in [Names -> CR!Row] /\ 1 \in CR!Boards
        BY <1>2
    <2>2. /\ rows \in [Names -> CR!Row]
          /\ \A n \in Names : /\ n \notin ns => rows[n] = db[1].row[n]
                              /\ n \in ns => rows[n].state = "pending" \/ rows[n] = db[1].row[n]
        BY <2>1, LineRowsPublished
    <2> QED
        BY <2>1, <2>2
<1>4. db' = [db EXCEPT ![1] = d]
    BY <1>1
<1>5. /\ UNCHANGED <<tape, offers, receipts, lost, review, restores>>
    BY DEF CR!Scan
<1>6. /\ lineOf' \in [Names -> Posts \cup {NoPost}]
      /\ \A n \in Names \ ns : lineOf'[n] = lineOf[n]
      /\ \A n \in ns : lineOf'[n] \in CR!Unscanned(db[1]) /\ draw[lineOf'[n]] = n
    <2>1. \A n \in ns : \E p \in CR!Unscanned(db[1]) : draw[p] = n
        OBVIOUS
    <2>2. lineOf' = [n \in Names |-> IF n \in ns THEN CHOOSE p \in CR!Unscanned(db[1]) : draw[p] = n ELSE lineOf[n]]
        BY <1>1
    <2>3. CR!Unscanned(db[1]) \subseteq Posts
        BY <1>2, LineDatabaseIs DEF CR!Unscanned
    <2>4. lineOf \in [Names -> Posts \cup {NoPost}]
        BY <1>2, LineTyped
    <2> HIDE DEF ns
    <2>5. \A n \in ns : lineOf'[n] \in CR!Unscanned(db[1]) /\ draw[lineOf'[n]] = n
        BY <1>2, <2>1, <2>2
    <2>6. \A n \in Names \ ns : lineOf'[n] = lineOf[n]
        BY <2>2
    <2> QED
        BY <2>2, <2>3, <2>4, <2>5, <2>6
<1>7. CR!Unscanned(db[1]) \subseteq Posts /\ NoPost \notin Posts
    BY <1>2, LineDatabaseIs DEF CR!Unscanned, CR!LineAssumption
<1>8. \A p \in CR!Unscanned(db[1]) : \A n \in db[1].msgs : lineOf[n] # p
    BY DEF CR!Unscanned
<1> HIDE DEF rows, ns
<1>9. d \in CR!Database
    BY <1>2, <1>3, LineDatabaseMade
<1>10. d.msgs = db[1].msgs \cup ns /\ d.row = rows /\ d.batches = db[1].batches /\ d.imports = db[1].imports
    BY <1>2 DEF CR!Database
<1> HIDE DEF d
<1>11. db' \in [CR!Boards -> CR!Database] /\ db'[1] = d /\ \A c \in CR!Boards \ {1} : db'[c] = db[c]
    BY <1>2, <1>4, <1>9, LineTyped
<1>12. CR!TypeOK'
    BY <1>2, <1>5, <1>6, <1>11 DEF CR!TypeOK
<1>13. \A n \in Names : lineOf[n] # NoPost => lineOf'[n] = lineOf[n]
    BY <1>2, <1>6
<1>14. \A n \in ns : lineOf'[n] # NoPost
    BY <1>6, <1>7
<1>15. ASSUME NEW c \in CR!Boards, NEW e \in CR!Database, LineFits(e, lineOf) PROVE LineFits(e, lineOf')
    BY <1>13, <1>15, LineDatabaseIs DEF LineFits
<1>16. LineFits(d, lineOf')
    BY <1>2, <1>3, <1>10, <1>13, <1>14 DEF LineFits, LineInv, LineWhole
<1>17. LineWhole'
    BY <1>2, <1>5, <1>11, <1>15, <1>16, LineTyped DEF LineInv, LineWhole
<1>18. LineAcknowledged'
    <2>1. \A c \in CR!Boards : db[c].msgs \subseteq db'[c].msgs
        BY <1>10, <1>11
    <2>2. ASSUME NEW c \in CR!Boards, NEW n \in Names, db'[c].row[n].state = "accepted"
          PROVE  db[c].row[n].state = "accepted"
        BY <1>3, <1>10, <1>11, <2>2
    <2>3. \A c \in 1..(LineLength - 1) : c \in CR!Boards /\ c + 1 \in CR!Boards
        BY DEF CR!Boards, CR!LineAssumption
    <2> QED
        BY <1>5, <2>1, <2>2, <2>3 DEF LineInv, LineAcknowledged
<1>19. LineDrawn'
    <2>1. LineOneName(db'[1], lineOf')
        <3>1. \A n, m \in db[1].msgs : lineOf'[n] = lineOf'[m] => n = m
            BY <1>2, <1>13 DEF LineInv, LineDrawn, LineOneName, LineWhole, LineFits
        <3>2. \A n, m \in ns : lineOf'[n] = lineOf'[m] => n = m
            BY <1>6
        <3>3. \A n \in ns, m \in db[1].msgs : lineOf'[n] # lineOf'[m]
            BY <1>2, <1>6, <1>8, <1>13 DEF LineInv, LineWhole, LineFits
        <3> QED
            BY <1>10, <1>11, <3>1, <3>2, <3>3 DEF LineOneName
    <2>2. LineOneName(tape'[1], lineOf')
        BY <1>2, <1>5, <1>13, LineTyped DEF LineInv, LineDrawn, LineOneName, LineWhole, LineFits
    <2>3. \A n \in Names : lineOf'[n] # NoPost => n \in db'[1].msgs \cup lost'[1]
        BY <1>2, <1>5, <1>6, <1>10, <1>11 DEF LineInv, LineDrawn
    <2>4. \A c \in CR!Boards, batch \in CR!Batches :
            <<c, batch>> \in offers' => \A n \in batch : lineOf'[n] # NoPost
        BY <1>5, <1>13 DEF LineInv, LineDrawn, CR!Batches
    <2> QED
        BY <2>1, <2>2, <2>3, <2>4 DEF LineDrawn
<1>20. CR!RestoredIsReviewed'
    <2>1. ASSUME NEW c \in CR!Boards, NEW n \in review[c] PROVE db'[c].row[n].state = "held"
        <3>1. n \in Names /\ db[c].row[n].state = "held"
            BY <1>2, LineTyped DEF LineInv, CR!RestoredIsReviewed
        <3>2. CASE c = 1
            <4>1. n \in db[1].msgs /\ lineOf[n] # NoPost
                BY <1>2, <3>1, <3>2 DEF LineInv, LineWhole, LineFits
            <4> QED
                BY <1>2, <1>3, <1>10, <1>11, <3>1, <3>2, <4>1
        <3>3. CASE c # 1
            BY <1>11, <3>1, <3>3
        <3> QED
            BY <3>2, <3>3
    <2> QED
        BY <1>5, <2>1 DEF CR!RestoredIsReviewed
<1> QED
    BY <1>12, <1>17, <1>18, <1>19, <1>20 DEF LineInv

LEMMA LineImportKeeps ==
    ASSUME CR!LineAssumption, LineInv, NEW b \in CR!Boards, b > 1, NEW batch \in CR!Batches, CR!Import(b, batch)
    PROVE  LineInv'
<1> DEFINE new == IF batch \in db[b].imports THEN {} ELSE batch \ db[b].msgs
           rows == CR!Publish(b, db[b].row, new)
           d == [db[b] EXCEPT !.msgs = @ \cup new, !.row = rows, !.imports = @ \cup {batch}]
<1>1. /\ new \in SUBSET Names /\ new \subseteq batch /\ db[b] \in CR!Database /\ CR!TypeOK /\ new \cap db[b].msgs = {}
      /\ db[b].row \in [Names -> CR!Row] /\ db[b].msgs \subseteq Names /\ db[b].imports \subseteq CR!Batches
    BY LineTyped DEF CR!Batches, LineInv
<1>2. db' = [db EXCEPT ![b] = d]
    BY DEF CR!Import
<1>3. batch \subseteq db[b].msgs \cup new
    BY <1>1 DEF LineInv, LineWhole, LineFits
<1>4. /\ lost' = [lost EXCEPT ![b] = @ \ new]
      /\ receipts' = receipts \cup {<<b, batch>>} /\ <<b - 1, batch>> \in offers
      /\ UNCHANGED <<tape, offers, lineOf, review, restores>>
    BY DEF CR!Import
<1> HIDE DEF new
<1>5. /\ rows \in [Names -> CR!Row]
      /\ \A n \in Names : /\ n \notin new => rows[n] = db[b].row[n]
                          /\ n \in new => rows[n].state = "pending" \/ rows[n] = db[b].row[n]
    BY <1>1, LineRowsPublished
<1> HIDE DEF rows
<1>6. d \in CR!Database
    BY <1>1, <1>5, LineDatabaseMade
<1>7. d.msgs = db[b].msgs \cup new /\ d.row = rows /\ d.batches = db[b].batches /\ d.imports = db[b].imports \cup {batch}
    BY <1>1 DEF CR!Database
<1> HIDE DEF d
<1>8. /\ db' \in [CR!Boards -> CR!Database] /\ db'[b] = d /\ \A c \in CR!Boards \ {b} : db'[c] = db[c]
      /\ lost' \in [CR!Boards -> SUBSET Names]
      /\ \A c \in CR!Boards : db[c].msgs \cup lost[c] \subseteq db'[c].msgs \cup lost'[c]
    BY <1>1, <1>2, <1>4, <1>6, <1>7, LineTyped
<1>9. CR!TypeOK'
    BY <1>1, <1>4, <1>8 DEF CR!TypeOK
<1>10. \A n \in batch : lineOf[n] # NoPost
    <2>1. b - 1 \in CR!Boards
        BY DEF CR!Boards, CR!LineAssumption
    <2> QED
        BY <1>4, <2>1 DEF LineInv, LineDrawn
<1>11. LineFits(d, lineOf)
    BY <1>1, <1>3, <1>5, <1>7, <1>10 DEF LineFits, LineInv, LineWhole
<1>12. LineWhole'
    BY <1>4, <1>8, <1>11 DEF LineInv, LineWhole
<1>13. LineAcknowledged'
    <2>1. ASSUME NEW c \in CR!Boards, NEW other \in CR!Batches, <<c, other>> \in receipts'
          PROVE  other \subseteq db'[c].msgs \cup lost'[c]
        <3>1. CASE <<c, other>> \in receipts
            BY <1>8, <3>1 DEF LineInv, LineAcknowledged
        <3>2. CASE c = b /\ other = batch
            BY <1>3, <1>7, <1>8, <3>2
        <3> QED
            BY <1>4, <2>1, <3>1, <3>2
    <2>2. ASSUME NEW c \in CR!Boards, NEW n \in Names, db'[c].row[n].state = "accepted"
          PROVE  db[c].row[n].state = "accepted"
        BY <1>5, <1>7, <1>8, <2>2
    <2>3. \A c \in 1..(LineLength - 1) : c \in CR!Boards /\ c + 1 \in CR!Boards
        BY DEF CR!Boards, CR!LineAssumption
    <2> QED
        BY <1>4, <1>8, <2>1, <2>2, <2>3 DEF LineInv, LineAcknowledged
<1>14. LineDrawn'
    <2>1. 1 \in CR!Boards /\ b # 1
        BY LineBoardsAre
    <2>2. db'[1] = db[1] /\ lost'[1] = lost[1]
        BY <1>4, <1>8, <2>1, <1>1, LineTyped
    <2> QED
        BY <1>4, <2>2 DEF LineInv, LineDrawn
<1>15. CR!RestoredIsReviewed'
    <2>1. ASSUME NEW c \in CR!Boards, NEW n \in review[c] PROVE db'[c].row[n].state = "held"
        <3>1. n \in Names /\ db[c].row[n].state = "held"
            BY <1>1, LineTyped DEF LineInv, CR!RestoredIsReviewed
        <3>2. CASE c = b
            <4>1. n \in db[b].msgs
                BY <1>1, <3>1, <3>2 DEF LineInv, LineWhole, LineFits
            <4> QED
                BY <1>1, <1>5, <1>7, <1>8, <3>1, <3>2, <4>1
        <3>3. CASE c # b
            BY <1>8, <3>1, <3>3
        <3> QED
            BY <3>2, <3>3
    <2> QED
        BY <1>4, <2>1 DEF CR!RestoredIsReviewed
<1> QED
    BY <1>9, <1>12, <1>13, <1>14, <1>15 DEF LineInv

LEMMA LineBackupKeeps == ASSUME CR!LineAssumption, LineInv, NEW b \in CR!Boards, CR!Backup(b) PROVE LineInv'
<1>1. /\ tape' = [tape EXCEPT ![b] = db[b]]
      /\ UNCHANGED <<db, offers, receipts, lineOf, lost, review, restores>>
    BY DEF CR!Backup
<1>2. CR!TypeOK
    BY DEF LineInv
<1>3. /\ tape' \in [CR!Boards -> CR!Database] /\ tape'[b] = db[b] /\ \A c \in CR!Boards \ {b} : tape'[c] = tape[c]
    BY <1>1, <1>2, LineTyped
<1>4. CR!TypeOK'
    BY <1>1, <1>2, <1>3 DEF CR!TypeOK
<1>5. LineWhole'
    BY <1>1, <1>3 DEF LineInv, LineWhole
<1>6. LineAcknowledged'
    <2>1. \A c \in 1..(LineLength - 1) : c \in CR!Boards
        BY DEF CR!Boards, CR!LineAssumption
    <2> QED
        BY <1>1, <1>3, <2>1 DEF LineInv, LineAcknowledged
<1>7. LineDrawn'
    BY <1>1, <1>3, LineBoardsAre DEF LineInv, LineDrawn
<1>8. CR!RestoredIsReviewed'
    BY <1>1 DEF LineInv, CR!RestoredIsReviewed
<1> QED
    BY <1>4, <1>5, <1>6, <1>7, <1>8 DEF LineInv

LEMMA LineRestoreKeeps == ASSUME CR!LineAssumption, LineInv, NEW b \in CR!Boards, CR!Restore(b) PROVE LineInv'
<1> DEFINE rows == CR!HoldRestored(tape[b].row)
           d == [tape[b] EXCEPT !.row = rows]
<1>1. CR!TypeOK /\ tape[b] \in CR!Database /\ tape[b].row \in [Names -> CR!Row]
      /\ \A n \in Names : tape[b].row[n] \in CR!Row
    BY LineTyped DEF LineInv
<1>2. rows \in [Names -> CR!Row]
    <2>1. \A n \in Names : [tape[b].row[n] EXCEPT !.state = "held"] \in CR!Row
        BY <1>1, LineRowsMade DEF CR!States
    <2> QED
        BY <1>1, <2>1 DEF CR!HoldRestored, CR!SetRows
<1>3. \A n \in Names : IF n \in CR!Unsettled(tape[b].row) THEN rows[n].state = "held" ELSE rows[n] = tape[b].row[n]
    BY <1>1 DEF CR!HoldRestored, CR!SetRows, CR!Row
<1>4. \A n \in CR!Unsettled(tape[b].row) : n \in Names /\ tape[b].row[n].state # "none"
    BY DEF CR!Unsettled
<1>5. /\ db' = [db EXCEPT ![b] = d]
      /\ lost' = [lost EXCEPT ![b] = (@ \cup db[b].msgs) \ tape[b].msgs]
      /\ review' = [review EXCEPT ![b] = CR!Unsettled(tape[b].row)]
      /\ restores < MaxRestores /\ restores' = restores + 1
      /\ UNCHANGED <<tape, offers, receipts, lineOf>>
    BY DEF CR!Restore
<1> HIDE DEF rows
<1>6. d \in CR!Database
    BY <1>1, <1>2, LineDatabaseMade
<1>7. d.msgs = tape[b].msgs /\ d.row = rows /\ d.batches = tape[b].batches /\ d.imports = tape[b].imports
    BY <1>1 DEF CR!Database
<1> HIDE DEF d
<1>8. /\ db' \in [CR!Boards -> CR!Database] /\ db'[b] = d /\ \A c \in CR!Boards \ {b} : db'[c] = db[c]
      /\ lost' \in [CR!Boards -> SUBSET Names]
      /\ \A c \in CR!Boards : db[c].msgs \cup lost[c] \subseteq db'[c].msgs \cup lost'[c]
    BY <1>1, <1>5, <1>6, <1>7, LineTyped
<1>9. review' \in [CR!Boards -> SUBSET Names] /\ review'[b] = CR!Unsettled(tape[b].row)
      /\ \A c \in CR!Boards \ {b} : review'[c] = review[c]
    BY <1>1, <1>4, <1>5, LineTyped
<1>10. restores' \in 0..MaxRestores
    BY <1>1, <1>5, LineTyped DEF CR!LineAssumption
<1>11. CR!TypeOK'
    BY <1>1, <1>5, <1>8, <1>9, <1>10 DEF CR!TypeOK
<1>12. LineFits(d, lineOf)
    BY <1>3, <1>4, <1>7 DEF LineFits, LineInv, LineWhole
<1>13. LineWhole'
    BY <1>5, <1>8, <1>12 DEF LineInv, LineWhole
<1>14. LineAcknowledged'
    <2>1. ASSUME NEW c \in CR!Boards, NEW n \in Names, db'[c].row[n].state = "accepted"
          PROVE  db[c].row[n].state = "accepted" \/ tape[c].row[n].state = "accepted"
        BY <1>3, <1>7, <1>8, <2>1
    <2>2. \A c \in 1..(LineLength - 1) : c \in CR!Boards /\ c + 1 \in CR!Boards
        BY DEF CR!Boards, CR!LineAssumption
    <2>3. \A c \in CR!Boards, batch \in CR!Batches :
            <<c, batch>> \in receipts' => batch \subseteq db'[c].msgs \cup lost'[c]
        BY <1>5, <1>8 DEF LineInv, LineAcknowledged
    <2> QED
        BY <1>5, <1>8, <2>1, <2>2, <2>3 DEF LineInv, LineAcknowledged
<1>15. LineDrawn'
    <2>1. 1 \in CR!Boards /\ (db'[1] = db[1] \/ db'[1].msgs = tape[1].msgs)
        BY <1>7, <1>8, LineBoardsAre
    <2>2. LineOneName(db'[1], lineOf')
        BY <1>5, <2>1 DEF LineInv, LineDrawn, LineOneName
    <2> QED
        BY <1>5, <1>8, <2>1, <2>2 DEF LineInv, LineDrawn
<1>16. CR!RestoredIsReviewed'
    <2>1. ASSUME NEW c \in CR!Boards, NEW n \in review'[c] PROVE db'[c].row[n].state = "held"
        <3>1. CASE c = b
            BY <1>3, <1>4, <1>7, <1>8, <1>9, <2>1, <3>1
        <3>2. CASE c # b
            BY <1>8, <1>9, <2>1, <3>2 DEF LineInv, CR!RestoredIsReviewed
        <3> QED
            BY <3>1, <3>2
    <2> QED
        BY <2>1 DEF CR!RestoredIsReviewed
<1> QED
    BY <1>11, <1>13, <1>14, <1>15, <1>16 DEF LineInv

-----------------------------------------------------------------------------
(* The theorems.                                                           *)

\* What each database, the copies and the receipts say fits together on every line of
\* boards, whatever is lost, late, repeated or restored (circuitnet_scan,
\* circuitnet_prepare_excluding, circuitnet_import_inner, hold_restored_circuitnet).
THEOREM RestoreInvariant == CR!LineAssumption => (CR!Spec => []LineInv)
<1> SUFFICES ASSUME CR!LineAssumption PROVE CR!Spec => []LineInv
    OBVIOUS
<1>1. CR!Init => LineInv
    <2> SUFFICES ASSUME CR!Init PROVE LineInv
        OBVIOUS
    <2>1. CR!Empty \in CR!Database /\ LineFits(CR!Empty, lineOf) /\ CR!Empty.msgs = {} /\ CR!Empty.row = [n \in Names |-> CR!NoRow]
        <3>1. CR!NoRow \in CR!Row /\ CR!NoRow.state = "none"
            BY DEF CR!NoRow, CR!Row, CR!States, CR!LineAssumption
        <3> QED
            BY <3>1 DEF CR!Empty, CR!Database, LineFits
    <2>2. CR!TypeOK
        BY <2>1 DEF CR!Init, CR!TypeOK, CR!LineAssumption
    <2>3. LineWhole /\ CR!RestoredIsReviewed
        BY <2>1 DEF CR!Init, LineWhole, CR!RestoredIsReviewed
    <2>4. LineAcknowledged
        <3>1. \A c \in 1..(LineLength - 1) : c \in CR!Boards
            BY DEF CR!Boards, CR!LineAssumption
        <3>2. \A b \in CR!Boards, n \in Names : db[b].row[n].state # "accepted" /\ tape[b].row[n].state # "accepted"
            BY <2>1 DEF CR!Init, CR!NoRow
        <3> QED
            BY <3>1, <3>2 DEF CR!Init, LineAcknowledged
    <2>5. LineDrawn
        BY <2>1, LineBoardsAre DEF CR!Init, LineDrawn, LineOneName
    <2> QED
        BY <2>2, <2>3, <2>4, <2>5 DEF LineInv
<1>2. LineInv /\ [CR!Next]_(CR!vars) => LineInv'
    <2> SUFFICES ASSUME LineInv, [CR!Next]_(CR!vars) PROVE LineInv'
        OBVIOUS
    <2>1. CASE UNCHANGED CR!vars
        BY <2>1 DEF CR!vars, LineInv, CR!TypeOK, LineWhole, LineAcknowledged, LineDrawn, CR!RestoredIsReviewed
    <2>2. CR!TypeOK
        BY DEF LineInv
    <2>3. ASSUME NEW p \in Posts, CR!Post(p) PROVE LineInv'
        BY <2>2, <2>3, LinePostIsQuiet, LineQuietKeeps, LineBoardsAre
    <2>4. ASSUME CR!Scan PROVE LineInv'
        BY <2>4, LineScanKeeps
    <2>5. ASSUME NEW b \in CR!Boards, CR!Prepare(b) \/ CR!Backup(b) \/ CR!Restore(b) PROVE LineInv'
        BY <2>2, <2>5, LinePrepareIsQuiet, LineQuietKeeps, LineBackupKeeps, LineRestoreKeeps
    <2>6. ASSUME NEW b \in CR!Boards, NEW batch \in CR!Batches,
                 (b > 1 /\ CR!Import(b, batch)) \/ (b < LineLength /\ CR!Acknowledge(b, batch)) \/ CR!Failed(b, batch)
          PROVE LineInv'
        BY <2>2, <2>6, LineImportKeeps, LineAcknowledgeIsQuiet, LineFailedIsQuiet, LineQuietKeeps
    <2>7. ASSUME NEW b \in CR!Boards, NEW n \in Names, CR!Retry(b, n) PROVE LineInv'
        BY <2>2, <2>7, LineRetryIsQuiet, LineQuietKeeps
    <2> QED
        BY <2>1, <2>3, <2>4, <2>5, <2>6, <2>7, Zenon DEF CR!Next
<1> QED
    BY <1>1, <1>2, PTL DEF CR!Spec

\* A restored board sends nothing an operator has not looked at, what is called accepted is
\* forgotten only in its receiver's own restore, and a post has two names only where the
\* origin's restore forgot one (hold_restored_circuitnet, circuitnet_acknowledge_neighbor,
\* circuitnet_scan).
THEOREM RestoreHolds ==
    CR!LineAssumption =>
        (CR!Spec => [](CR!TypeOK /\ CR!RestoredIsReviewed /\ CR!OnlyRestoreLoses /\ CR!SecondNameNeedsRestore))
<1> SUFFICES ASSUME CR!LineAssumption
             PROVE  CR!Spec => [](CR!TypeOK /\ CR!RestoredIsReviewed /\ CR!OnlyRestoreLoses /\ CR!SecondNameNeedsRestore)
    OBVIOUS
<1>1. LineInv => CR!OnlyRestoreLoses
    BY DEF LineInv, LineAcknowledged, CR!OnlyRestoreLoses
<1>2. LineInv => CR!SecondNameNeedsRestore
    <2> SUFFICES ASSUME LineInv, NEW b \in CR!Boards, NEW n \in Names, NEW m \in Names, n # m,
                        n \in db[b].msgs, m \in db[b].msgs, lineOf[n] = lineOf[m]
                 PROVE  {n, m} \cap lost[1] # {}
        BY DEF CR!SecondNameNeedsRestore
    <2>1. lineOf[n] # NoPost /\ lineOf[m] # NoPost
        BY DEF LineInv, LineWhole, LineFits
    <2>2. n \in db[1].msgs \cup lost[1] /\ m \in db[1].msgs \cup lost[1]
        BY <2>1 DEF LineInv, LineDrawn
    <2>3. ~(n \in db[1].msgs /\ m \in db[1].msgs)
        BY DEF LineInv, LineDrawn, LineOneName
    <2> QED
        BY <2>2, <2>3
<1>3. LineInv => CR!TypeOK /\ CR!RestoredIsReviewed /\ CR!OnlyRestoreLoses /\ CR!SecondNameNeedsRestore
    BY <1>1, <1>2 DEF LineInv
<1> QED
    BY <1>3, RestoreInvariant, PTL
=============================================================================
