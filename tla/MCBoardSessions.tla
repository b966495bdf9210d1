--------------------------- MODULE MCBoardSessions ---------------------------
(***************************************************************************)
(* BoardSessions for TLC, with a scope for each behaviour: the sessions     *)
(* and callers that come, the nodes in use, who may be locked out, which    *)
(* session may be disconnected, the daemon starts and the failures.  What   *)
(* a scope admits are behaviours of BoardSessions, and the kinds of scope   *)
(* below are the questions asked of it together.                            *)
(***************************************************************************)
EXTENDS BoardSessions, TLC

VARIABLE part  \* the scope of this behaviour

Rivals == {S \in SUBSET Sessions : Cardinality(S) = 2}

\* two callers' sessions come and go over two nodes with a failure: three of them in one
\* daemon run, two over two runs
Comings(S, g, f) == [sessions |-> S, callers |-> Callers, nodes |-> 2, lockable |-> {},
                     controlled |-> {}, generations |-> g, failures |-> f]
Restarts ==
    {Comings(Sessions, 1, 1)} \cup {Comings(S, 2, 1) : S \in Rivals}

\* one session of a caller after another on one node: lockout, disconnect, shutdown
Operators ==
    {[sessions |-> rivals, callers |-> {c}, nodes |-> 1, lockable |-> {c},
      controlled |-> {t}, generations |-> 1, failures |-> 0] :
        rivals \in Rivals, c \in Callers, t \in Sessions}

\* one such session and two failures
Failures ==
    {[sessions |-> {t}, callers |-> {c}, nodes |-> 1, lockable |-> {c},
      controlled |-> {t}, generations |-> 1, failures |-> 2] : c \in Callers, t \in Sessions}

Scopes == {scope \in Restarts \cup Operators \cup Failures : scope.controlled \subseteq scope.sessions}

Within ==
    /\ \A n \in Nodes : n > part.nodes => occupant'[n] = None
    /\ \A c \in Callers \ part.callers : claim'[c] = None
    /\ generation' <= part.generations
    /\ MaxFaults - faults' <= part.failures

ScopedOperator ==
    \/ \E c \in part.lockable : \/ Lockout(c) \/ Reactivate(c) \/ Scan(c)
                               \/ \E s \in part.sessions : Invalidate(c, s)
    \/ \E s \in part.controlled : \/ ConsoleDisconnect(s)
                                 \/ AcceptDisconnect(s) \/ RequestOperatorDisconnect(s)
                                 \/ TrackWorker(s) \/ WorkerGrace(s) \/ WorkerFinish(s)

ScopedInit == part \in Scopes /\ Init
ScopedNext ==
    /\ \/ \E s \in part.sessions : Thread(s)
       \/ ScopedOperator
       \/ RequestShutdown \/ Drain
       \/ Exit \/ Crash \/ Load
    /\ Within
    /\ UNCHANGED part

ScopedSpec == ScopedInit /\ [][ScopedNext]_<<part, vars>>

\* no scope tells one session or one caller from another but by its part in it
Symmetry == Permutations(Sessions) \cup Permutations(Callers)
=============================================================================
