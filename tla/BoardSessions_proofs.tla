------------------------- MODULE BoardSessions_proofs -------------------------
(***************************************************************************)
(* Proofs about BoardSessions, for any sets of sessions and callers, any   *)
(* number of nodes, daemon runs and failures.                              *)
(*                                                                         *)
(* Each property is made inductive by the facts its own steps lack:        *)
(*   - a thread that holds a node remembers which one (HeldLease), and a   *)
(*     slot that shows a caller shows a session (CallerShown);             *)
(*   - a thread knows its caller only between admission and its end, and   *)
(*     then holds the durable claim (Admitted);                            *)
(*   - a durable claim has its thread, until something fails (ClaimedInv);  *)
(*   - a completed ticket stands for a settled session (ReceiptInv,        *)
(*     CompleteInv).                                                       *)
(***************************************************************************)
EXTENDS BoardSessions, TLAPS

-----------------------------------------------------------------------------
(***************************************************************************)
(* Types.                                                                  *)
(***************************************************************************)
HeldLease == \A s \in Sessions : pc[s] \in Holding => lease[s] \in Nodes
CallerShown == \A n \in Nodes : nodeCaller[n] # None => occupant[n] # None
TypeInv == TypeOK /\ HeldLease /\ CallerShown

\* The initial state of the board: nothing has run yet.
LEMMA TypeInit == Init => TypeInv
<1> SUFFICES ASSUME Init PROVE TypeInv
  OBVIOUS
<1>1. "Down" \in Phases /\ "new" \in PCs /\ "none" \in Tickets /\ "idle" \in Cmds
  BY DEF Phases, PCs, Tickets, Cmds
<1>2. 0 \in 0..MaxGenerations /\ MaxFaults \in 0..MaxFaults
  BY ConstantsAssumption
<1>3. TypeOK
  BY <1>1, <1>2, ConstantsAssumption DEF Init, TypeOK
<1>4. HeldLease /\ CallerShown
  BY DEF Init, PCs, HeldLease, CallerShown, Holding, Engine
<1> QED
  BY <1>3, <1>4 DEF TypeInv

\* Every step keeps the types: one step of the proof per action of the model.
LEMMA TypeStep == TypeInv /\ [Next]_vars => TypeInv'
<1> SUFFICES ASSUME TypeInv, [Next]_vars PROVE TypeInv'
  OBVIOUS
<1> USE ConstantsAssumption DEF TypeInv, TypeOK, HeldLease, CallerShown, nodeVars, threadVars,
      dbVars, lockoutVars, cmdVars, drainVars, ticketVars, Fault, NoFault
<1> DEFINE TicketTypes ==
             /\ request' \in [Sessions -> {"none", "caller"} \cup Correlated]
             /\ drainTicket' \in [Sessions -> Tickets]
             /\ cmdTicket' \in [Sessions -> Tickets]
           OthersKept ==
             UNCHANGED <<phase, generation, nodeVars, lease, who, accounting, account, cut,
                         lockoutVars, cmd, evidenceFailed, drain, todo>>
<1>d. ASSUME NEW s \in Sessions, SessionEnded(s) PROVE TicketTypes
  BY <1>d DEF SessionEnded, Tickets
<1>e. ASSUME NEW s \in Sessions, NEW outcome \in {"completed", "failed"},
             DisconnectFinalized(s, outcome)
      PROVE  TicketTypes
  BY <1>e DEF DisconnectFinalized, Tickets
<1>f. ASSUME NEW s \in Sessions, NEW p \in PCs, pc' = [pc EXCEPT ![s] = p],
             p \in Holding => pc[s] \in Holding
      PROVE  pc' \in [Sessions -> PCs] /\ \A t \in Sessions : pc'[t] \in Holding => pc[t] \in Holding
  BY <1>f
<1>g. ASSUME NEW s \in Sessions, TicketTypes, OthersKept,
             pc' \in [Sessions -> PCs],
             \A t \in Sessions : pc'[t] \in Holding => pc[t] \in Holding,
             claim' \in [Callers -> Claims \cup {None}], faults' \in 0..MaxFaults
      PROVE  TypeInv'
  BY <1>g
<1>h. ASSUME NEW s \in Sessions, Abandon(s)
      PROVE  TicketTypes /\ OthersKept /\ claim' \in [Callers -> Claims \cup {None}]
  <2>1. claim' \in [Callers -> Claims \cup {None}]
    BY <1>h DEF Abandon
  <2> QED
    BY <1>d, <1>h, <2>1 DEF Abandon
<1>i. ASSUME NEW s \in Sessions, End(s), pc[s] \in Holding PROVE TypeInv'
  <2>1. TicketTypes /\ OthersKept /\ UNCHANGED <<claim, faults>>
    BY <1>d, <1>i DEF End
  <2>2. pc' = [pc EXCEPT ![s] = "ended"] /\ "ended" \in PCs
    BY <1>i DEF End, PCs, Holding
  <2>3. pc' \in [Sessions -> PCs] /\ \A t \in Sessions : pc'[t] \in Holding => pc[t] \in Holding
    BY <1>f, <1>i, <2>2
  <2> QED
    BY <1>g, <2>1, <2>3
<1>1. ASSUME NEW s \in Sessions, Connect(s) PROVE TypeInv'
  BY <1>1 DEF Connect, Waiting, PCs, Holding, Engine
<1>2. ASSUME NEW s \in Sessions, NEW c \in Callers, Admit(s, c) PROVE TypeInv'
  <2>1. ClaimOf(s) \in Claims
    BY <1>2 DEF Admit, ClaimOf, Claims, PCs, Holding, Engine, Nodes
  <2>2. claim' \in [Callers -> Claims \cup {None}]
    BY <1>2, <2>1 DEF Admit
  <2>3. UNCHANGED <<phase, generation, nodeVars, lease, accounting, account, cut, lockoutVars,
       cmd, evidenceFailed, drain, todo>>
    BY <1>2 DEF Admit
  <2>4. /\ pc' \in [Sessions -> PCs] /\ who' \in [Sessions -> Callers \cup {None}]
        /\ faults' \in 0..MaxFaults
        /\ \A t \in Sessions : pc'[t] \in Holding => pc[t] \in Holding
    BY <1>2 DEF Admit, PCs, Holding, Engine
  <2>5. request' \in [Sessions -> {"none", "caller"} \cup Correlated] /\ drainTicket' \in
       [Sessions -> Tickets]
        /\ cmdTicket' \in [Sessions -> Tickets]
    BY <1>2 DEF Admit, SessionEnded, Tickets
  <2> QED
    BY <2>2, <2>3, <2>4, <2>5
<1>3. ASSUME NEW s \in Sessions, MarkOnline(s) PROVE TypeInv'
  BY <1>3 DEF MarkOnline, PCs, Holding, Engine
<1>4. ASSUME NEW s \in Sessions, EndByCaller(s) PROVE TypeInv'
  BY <1>i, <1>4 DEF EndByCaller, Holding, Engine
<1>5. ASSUME NEW s \in Sessions, EndByDisconnect(s) PROVE TypeInv'
  BY <1>i, <1>5 DEF EndByDisconnect, Holding, Engine
<1>6. ASSUME NEW s \in Sessions, EndByDispatch(s) PROVE TypeInv'
  BY <1>i, <1>6 DEF EndByDispatch, Holding, Engine
<1>7. ASSUME NEW s \in Sessions, Finish(s) PROVE TypeInv'
  BY <1>7 DEF Finish, PCs, Holding, Engine
<1>8. ASSUME NEW s \in Sessions, Release(s) PROVE TypeInv'
  BY <1>8 DEF Release, ClearSlot, PCs, Holding, Engine
<1>9. ASSUME NEW s \in Sessions, Finalize(s) PROVE TypeInv'
  BY <1>9 DEF Finalize, DisconnectFinalized, Tickets, PCs, Holding, Engine
<1>10. ASSUME NEW s \in Sessions, Cleanup(s) PROVE TypeInv'
  <2>1. TicketTypes /\ OthersKept /\ claim' \in [Callers -> Claims \cup {None}]
    BY <1>h, <1>10 DEF Cleanup
  <2>2. /\ pc' = [pc EXCEPT ![s] = "gone"] /\ "gone" \in PCs
        /\ "gone" \in Holding => pc[s] \in Holding
    BY <1>10 DEF Cleanup, PCs, Holding, Engine
  <2>3. pc' \in [Sessions -> PCs] /\ \A t \in Sessions : pc'[t] \in Holding => pc[t] \in Holding
    BY <1>f, <2>2
  <2>4. faults' \in 0..MaxFaults
    BY <1>10 DEF Cleanup
  <2> QED
    BY <1>g, <2>1, <2>3, <2>4
<1>11. ASSUME NEW s \in Sessions, Unwind(s) PROVE TypeInv'
  <2>1. TicketTypes /\ OthersKept /\ claim' \in [Callers -> Claims \cup {None}]
    BY <1>h, <1>11 DEF Unwind
  <2>2. /\ pc' = [pc EXCEPT ![s] = "leasing"] /\ "leasing" \in PCs
        /\ "leasing" \in Holding => pc[s] \in Holding
    BY <1>11 DEF Unwind, PCs, Holding, Engine
  <2>3. pc' \in [Sessions -> PCs] /\ \A t \in Sessions : pc'[t] \in Holding => pc[t] \in Holding
    BY <1>f, <2>2
  <2>4. faults' \in 0..MaxFaults
    BY <1>11 DEF Unwind
  <2> QED
    BY <1>g, <2>1, <2>3, <2>4
<1>12. ASSUME NEW s \in Sessions, DropLease(s) PROVE TypeInv'
  BY <1>12 DEF DropLease, ClearSlot, PCs, Holding, Engine
<1>13. ASSUME NEW c \in Callers, Lockout(c) PROVE TypeInv'
  BY <1>13 DEF Lockout
<1>14. ASSUME NEW c \in Callers, Reactivate(c) PROVE TypeInv'
  BY <1>14 DEF Reactivate
<1>15. ASSUME NEW c \in Callers, Scan(c) PROVE TypeInv'
  BY <1>15 DEF Scan, Nodes
<1>16. ASSUME NEW s \in Sessions, NEW c \in Callers, Invalidate(c, s) PROVE TypeInv'
  BY <1>16 DEF Invalidate, RequestDisconnect
<1>17. ASSUME NEW s \in Sessions, ConsoleDisconnect(s) PROVE TypeInv'
  BY <1>17 DEF ConsoleDisconnect, RequestDisconnect
<1>18. ASSUME NEW s \in Sessions, AcceptDisconnect(s) PROVE TypeInv'
  BY <1>18 DEF AcceptDisconnect, Cmds
<1>19. ASSUME NEW s \in Sessions, RequestOperatorDisconnect(s) PROVE TypeInv'
  BY <1>19 DEF RequestOperatorDisconnect, RequestDisconnect, Cmds, Tickets, Correlated
<1>20. ASSUME NEW s \in Sessions, TrackWorker(s) PROVE TypeInv'
  BY <1>20 DEF TrackWorker, Cmds
<1>21. ASSUME NEW s \in Sessions, WorkerGrace(s) PROVE TypeInv'
  BY <1>21 DEF WorkerGrace, EmergencyClose, Cmds
<1>22. ASSUME NEW s \in Sessions, WorkerFinish(s) PROVE TypeInv'
  <2>1. ResultOf(s) \in Cmds
    BY DEF ResultOf, Cmds, Results
  <2>2. cmd' \in [Sessions -> Cmds]
    BY <1>22, <2>1 DEF WorkerFinish, Cmds
  <2>3. evidenceFailed' \in BOOLEAN
    BY <1>22, Zenon DEF WorkerFinish
  <2>4. faults' \in 0..MaxFaults
    BY <1>22 DEF WorkerFinish
  <2>5. UNCHANGED <<phase, generation, nodeVars, threadVars, dbVars, request, cut, lockoutVars,
                    cmdTicket, drainVars>>
    BY <1>22 DEF WorkerFinish
  <2> QED
    BY <2>2, <2>3, <2>4, <2>5
<1>23. ASSUME RequestShutdown PROVE TypeInv'
  BY <1>23 DEF RequestShutdown, Phases
<1>24. ASSUME BeginDrain PROVE TypeInv'
  BY <1>24 DEF BeginDrain, Occupants, Phases
<1>25. ASSUME NEW s \in Sessions, Collect(s) PROVE TypeInv'
  BY <1>25 DEF Collect, RequestDisconnect, Tickets, Correlated
<1>26. ASSUME DrainGrace PROVE TypeInv'
  BY <1>26 DEF DrainGrace
<1>27. ASSUME NEW s \in Sessions, DrainClose(s) PROVE TypeInv'
  BY <1>27 DEF DrainClose, EmergencyClose
<1>28. ASSUME DrainVerdict PROVE TypeInv'
  BY <1>28 DEF DrainVerdict, Phases
<1>29. ASSUME DrainError PROVE TypeInv'
  BY <1>29 DEF DrainError, Phases
<1>30. ASSUME Exit PROVE TypeInv'
  BY <1>30 DEF Exit, Volatile, Phases, Cmds, Tickets, PCs, Holding, Engine
<1>31. ASSUME Crash PROVE TypeInv'
  BY <1>31 DEF Crash, Volatile, Phases, Cmds, Tickets, PCs, Holding, Engine
<1>32. ASSUME Load PROVE TypeInv'
  BY <1>32 DEF Load, RecoverClaims, Phases
<1>33. CASE UNCHANGED vars
  BY <1>33 DEF vars
<1> HIDE DEF TypeInv
<1>a. ASSUME NEW s \in Sessions, Thread(s) PROVE TypeInv'
  BY <1>a, <1>1, <1>2, <1>3, <1>4, <1>5, <1>6, <1>7, <1>8, <1>9, <1>10, <1>11, <1>12, Zenon DEF
       Thread
<1>b. ASSUME Operator PROVE TypeInv'
  BY <1>b, <1>13, <1>14, <1>15, <1>16, <1>17, <1>18, <1>19, <1>20, <1>21, <1>22,
       ConstantsAssumption, Zenon DEF Operator
<1>c. ASSUME RequestShutdown \/ Drain \/ Exit \/ Crash \/ Load PROVE TypeInv'
  BY <1>c, <1>23, <1>24, <1>25, <1>26, <1>27, <1>28, <1>29, <1>30, <1>31, <1>32, Zenon DEF Drain
<1> QED
  BY <1>a, <1>b, <1>c, <1>33, Zenon DEF Next

\* The operator, the daemon runner and a shutdown request never touch a node, a
\* connection thread or a claim, and only a load or an exit changes Down.
LEMMA OthersLeaveThreads ==
  ASSUME Operator \/ RequestShutdown \/ Drain
  PROVE  /\ UNCHANGED <<occupant, nodeCaller, pc, lease, who, accounting, claim, generation>>
         /\ phase' = "Down" <=> phase = "Down"
<1>1. ASSUME Operator
      PROVE  UNCHANGED <<occupant, nodeCaller, pc, lease, who, accounting, claim, generation, phase>>
  BY <1>1 DEF Operator, Lockout, Reactivate, Scan, Invalidate, ConsoleDisconnect, AcceptDisconnect,
       RequestOperatorDisconnect, TrackWorker, WorkerGrace, WorkerFinish, nodeVars, threadVars,
       dbVars
<1>2. CASE RequestShutdown
  BY <1>2 DEF RequestShutdown, nodeVars, threadVars, dbVars
<1>3. CASE Drain
  BY <1>3 DEF Drain, BeginDrain, Collect, DrainGrace, DrainClose, DrainVerdict, DrainError,
       nodeVars, threadVars, dbVars
<1> QED
  BY <1>1, <1>2, <1>3

-----------------------------------------------------------------------------
(***************************************************************************)
(* Nodes: the table and the leases agree.                                  *)
(***************************************************************************)
Structure == TypeInv /\ NodeOwnership

LEMMA OwnershipInit == Init => NodeOwnership
  BY ConstantsAssumption DEF Init, NodeOwnership, Holding, Engine, Nodes

\* Only taking a node, clearing it and losing the process touch the agreement:
\* every other step of a thread moves it within Holding or within its complement.
LEMMA OwnershipStep == TypeInv /\ NodeOwnership /\ [Next]_vars => NodeOwnership'
<1> SUFFICES ASSUME TypeInv, NodeOwnership, [Next]_vars PROVE NodeOwnership'
  OBVIOUS
<1> USE ConstantsAssumption
    DEF TypeInv, TypeOK, HeldLease, NodeOwnership, Holding, Engine, nodeVars, threadVars
<1>1. ASSUME NEW s \in Sessions, Connect(s) PROVE NodeOwnership'
  BY <1>1 DEF Connect, Waiting
<1>2. ASSUME NEW s \in Sessions, NEW c \in Callers, Admit(s, c) PROVE NodeOwnership'
  BY <1>2 DEF Admit
<1>3. ASSUME NEW s \in Sessions, MarkOnline(s) PROVE NodeOwnership'
  BY <1>3 DEF MarkOnline
<1>4. ASSUME NEW s \in Sessions, EndByCaller(s) \/ EndByDisconnect(s) \/ EndByDispatch(s)
      PROVE  NodeOwnership'
  BY <1>4 DEF EndByCaller, EndByDisconnect, EndByDispatch, End
<1>5. ASSUME NEW s \in Sessions, Finish(s) PROVE NodeOwnership'
  BY <1>5 DEF Finish
<1>6. ASSUME NEW s \in Sessions, Release(s) PROVE NodeOwnership'
  BY <1>6 DEF Release, ClearSlot
<1>7. ASSUME NEW s \in Sessions, Finalize(s) PROVE NodeOwnership'
  BY <1>7 DEF Finalize
<1>8. ASSUME NEW s \in Sessions, Cleanup(s) PROVE NodeOwnership'
  BY <1>8 DEF Cleanup, Abandon
<1>9. ASSUME NEW s \in Sessions, Unwind(s) PROVE NodeOwnership'
  BY <1>9 DEF Unwind, Abandon
<1>10. ASSUME NEW s \in Sessions, DropLease(s) PROVE NodeOwnership'
  BY <1>10 DEF DropLease, ClearSlot
<1>11. CASE Operator \/ RequestShutdown \/ Drain
  BY <1>11, OthersLeaveThreads
<1>12. CASE Exit \/ Crash
  BY <1>12 DEF Exit, Crash, Volatile, Nodes
<1>13. CASE Load \/ UNCHANGED vars
  BY <1>13 DEF Load, vars
<1> HIDE DEF TypeInv, NodeOwnership
<1>14. ASSUME NEW s \in Sessions, Thread(s) PROVE NodeOwnership'
  BY <1>14, <1>1, <1>2, <1>3, <1>4, <1>5, <1>6, <1>7, <1>8, <1>9, <1>10, Zenon DEF Thread
<1> QED
  BY <1>11, <1>12, <1>13, <1>14, Zenon DEF Next

LEMMA StructureHolds == Spec => []Structure
<1>1. Init => Structure
  BY TypeInit, OwnershipInit DEF Structure
<1>2. Structure /\ [Next]_vars => Structure'
  BY TypeStep, OwnershipStep DEF Structure
<1> QED
  BY <1>1, <1>2, PTL DEF Spec

\* Every reachable state of the board daemon is well typed.
THEOREM TypeCorrect == Spec => []TypeOK
<1>1. Structure => TypeOK
  BY DEF Structure, TypeInv
<1> QED
  BY <1>1, StructureHolds, PTL

\* NodeManager and NodeLease: a node shows a session exactly while the thread of
\* that session holds the lease on it, however threads, drain and crashes interleave.
THEOREM NodesHaveOneOwner == Spec => []NodeOwnership
<1>1. Structure => NodeOwnership
  BY DEF Structure
<1> QED
  BY <1>1, StructureHolds, PTL

-----------------------------------------------------------------------------
(***************************************************************************)
(* Admission: a thread that knows its caller holds the caller's claim.     *)
(***************************************************************************)

\* who is set by admission only; the claim is held until settlement; no thread
\* exists while no daemon runs, so that a load may clear every claim.
Admitted ==
    /\ \A s \in Sessions : pc[s] \in {"new", "login"} => who[s] = None
    /\ \A s \in Sessions :
         who[s] # None /\ pc[s] \in {"admitted", "online", "ended"} => claim[who[s]] = ClaimOf(s)
    /\ phase = "Down" => \A s \in Sessions : pc[s] = "new"

\* Two sessions never make the same claim, and no claim is the absence of one.
LEMMA ClaimsDiffer ==
  ASSUME Structure
  PROVE  /\ \A s, t \in Sessions : ClaimOf(s) = ClaimOf(t) => s = t
         /\ \A s \in Sessions : pc[s] \in Holding => ClaimOf(s) # None
<1>1. \A s \in Sessions : ClaimOf(s).session = s
  BY DEF ClaimOf
<1>2. \A s \in Sessions : pc[s] \in Holding =>
        ClaimOf(s) \in [generation: Nat, node: 1..NumNodes, session: Sessions]
  BY ConstantsAssumption DEF Structure, TypeInv, TypeOK, HeldLease, ClaimOf, Nodes
<1> QED
  BY <1>1, <1>2, ConstantsAssumption

LEMMA AdmittedInit == Init => Admitted
  BY DEF Init, Admitted

LEMMA AdmittedStep == Structure /\ Admitted /\ [Next]_vars => Admitted'
<1> SUFFICES ASSUME Structure, Admitted, [Next]_vars PROVE Admitted'
  OBVIOUS
<1>0. /\ pc \in [Sessions -> PCs] /\ who \in [Sessions -> Callers \cup {None}]
      /\ lease \in [Sessions -> Nodes \cup {None}] /\ DOMAIN claim = Callers
  BY DEF Structure, TypeInv, TypeOK
<1>claims. \A t \in Sessions :
             generation' = generation /\ lease'[t] = lease[t] => ClaimOf(t)' = ClaimOf(t)
  BY DEF ClaimOf
<1> USE <1>0, <1>claims, ConstantsAssumption DEF Admitted, nodeVars, threadVars, dbVars
<1>1. ASSUME NEW s \in Sessions, Connect(s) PROVE Admitted'
  BY <1>1 DEF Connect, Up
<1>2. ASSUME NEW s \in Sessions, NEW c \in Callers, Admit(s, c) PROVE Admitted'
  <2>1. \A t \in Sessions : who[t] = c => pc[t] \notin {"admitted", "online", "ended"}
    BY <1>2, ClaimsDiffer DEF Admit, Holding, Engine
  <2> QED
    BY <1>2, <2>1 DEF Admit, Up
<1>3. ASSUME NEW s \in Sessions, MarkOnline(s) PROVE Admitted'
  BY <1>3 DEF MarkOnline, Up
<1>4. ASSUME NEW s \in Sessions, EndByCaller(s) \/ EndByDisconnect(s) \/ EndByDispatch(s)
      PROVE  Admitted'
  BY <1>4 DEF EndByCaller, EndByDisconnect, EndByDispatch, End, Up
<1>5. ASSUME NEW s \in Sessions, Finish(s) PROVE Admitted'
  <2>1. \A t \in Sessions : t # s => ClaimOf(t) # ClaimOf(s)
    BY ClaimsDiffer
  <2>2. \A t \in Sessions : pc'[t] \in {"admitted", "online", "ended"} => t # s /\ pc'[t] = pc[t]
    BY <1>5 DEF Finish
  <2>3. \A t \in Sessions : who[t] # None /\ pc'[t] \in {"admitted", "online", "ended"}
                               => claim'[who[t]] = claim[who[t]]
    BY <1>5, <2>1, <2>2 DEF Finish, OwnClaim
  <2> QED
    BY <1>5, <2>2, <2>3 DEF Finish, Up
<1>6. ASSUME NEW s \in Sessions, Release(s) \/ Finalize(s) \/ DropLease(s) PROVE Admitted'
  BY <1>6 DEF Release, Finalize, DropLease, Up
<1>7. ASSUME NEW s \in Sessions, Abandon(s), Up,
             pc' = [pc EXCEPT ![s] = "gone"] \/ pc' = [pc EXCEPT ![s] = "leasing"]
      PROVE  Admitted'
  <2>1. \A t \in Sessions : t # s => ClaimOf(t) # ClaimOf(s)
    BY ClaimsDiffer
  <2>2. \A t \in Sessions : pc'[t] \in {"new", "login", "admitted", "online", "ended"}
                               => t # s /\ pc'[t] = pc[t]
    BY <1>7
  <2>3. \A t \in Sessions : who[t] # None /\ pc'[t] \in {"admitted", "online", "ended"}
                               => claim'[who[t]] = claim[who[t]]
    BY <1>7, <2>1, <2>2 DEF Abandon, OwnClaim
  <2> QED
    BY <1>7, <2>2, <2>3 DEF Abandon, Up
<1>8. ASSUME NEW s \in Sessions, Cleanup(s) \/ Unwind(s) PROVE Admitted'
  BY <1>7, <1>8 DEF Cleanup, Unwind
<1>9. CASE Operator \/ RequestShutdown \/ Drain
  BY <1>9, OthersLeaveThreads
<1>10. CASE Exit \/ Crash
  BY <1>10 DEF Exit, Crash, Volatile
<1>11. CASE Load
  BY <1>11 DEF Load
<1>12. CASE UNCHANGED vars
  BY <1>12 DEF vars
<1> HIDE DEF Admitted
<1>13. ASSUME NEW s \in Sessions, Thread(s) PROVE Admitted'
  BY <1>13, <1>1, <1>2, <1>3, <1>4, <1>5, <1>6, <1>8, Zenon DEF Thread
<1> QED
  BY <1>9, <1>10, <1>11, <1>12, <1>13, Zenon DEF Next

\* admit_caller_session and the claim table: no caller is ever in two
\* authenticated sessions, across settlement, abandonment, crash and restart.
THEOREM OneSessionPerCallerHolds == Spec => []OneSessionPerCaller
<1>1. Structure /\ Admitted => OneSessionPerCaller
  BY ClaimsDiffer DEF Admitted, OneSessionPerCaller
<1>2. Structure /\ Admitted /\ [Next]_vars => Admitted'
  BY AdmittedStep
<1> QED
  BY <1>1, <1>2, AdmittedInit, StructureHolds, PTL DEF Spec

-----------------------------------------------------------------------------
(***************************************************************************)
(* Claims: while nothing failed, every durable claim has its thread.       *)
(***************************************************************************)

\* A claim is the one its session made, and that session is still in custody.
Claimed ==
    \A c \in Callers : claim[c] # None =>
        /\ claim[c] = ClaimOf(claim[c].session)
        /\ who[claim[c].session] = c
        /\ pc[claim[c].session] \in {"admitted", "online", "ended"}
ClaimedInv == Up /\ faults = MaxFaults => Claimed

\* A failure that was injected stays injected.
LEMMA FaultsAreSpent == TypeInv /\ Fault => faults' # MaxFaults
  BY ConstantsAssumption DEF TypeInv, TypeOK, Fault

LEMMA ClaimedStep == Structure /\ ClaimedInv /\ [Next]_vars => ClaimedInv'
<1> SUFFICES ASSUME Structure, ClaimedInv, [Next]_vars, (Up /\ faults = MaxFaults)'
             PROVE  Claimed'
  BY DEF ClaimedInv
<1>0. /\ pc \in [Sessions -> PCs] /\ who \in [Sessions -> Callers \cup {None}]
      /\ lease \in [Sessions -> Nodes \cup {None}]
      /\ claim \in [Callers -> Claims \cup {None}]
      /\ \A k \in Claims : k.session \in Sessions
  BY DEF Structure, TypeInv, TypeOK, Claims
<1>no. ~Fault
  BY FaultsAreSpent DEF Structure
<1>claims. \A t \in Sessions :
             generation' = generation /\ lease'[t] = lease[t] => ClaimOf(t)' = ClaimOf(t)
  BY DEF ClaimOf
<1> USE <1>0, ConstantsAssumption DEF nodeVars, threadVars, dbVars, NoFault
<1>keep. ASSUME Up, UNCHANGED <<claim, who, lease, generation, faults>>,
                \A t \in Sessions : pc[t] \in {"admitted", "online", "ended"} =>
                                      pc'[t] \in {"admitted", "online", "ended"}
         PROVE  Claimed'
  <2>1. Claimed
    BY <1>keep DEF ClaimedInv
  <2>2. \A t \in Sessions : ClaimOf(t)' = ClaimOf(t)
    BY <1>keep, <1>claims
  <2> QED
    BY <1>keep, <2>1, <2>2 DEF Claimed
<1>1. ASSUME NEW s \in Sessions, Connect(s) PROVE Claimed'
  <2>1. Claimed /\ UNCHANGED <<claim, who, generation>> /\ pc[s] = "new"
    BY <1>1 DEF Connect, ClaimedInv
  <2>2. \A t \in Sessions : t # s => ClaimOf(t)' = ClaimOf(t) /\ pc'[t] = pc[t]
    BY <1>1, <1>claims DEF Connect
  <2> QED
    BY <2>1, <2>2 DEF Claimed
<1>2. ASSUME NEW s \in Sessions, NEW c \in Callers, Admit(s, c) PROVE Claimed'
  <2>1. Claimed /\ UNCHANGED <<lease, generation>> /\ pc[s] = "login"
    BY <1>2, <1>no DEF Admit, ClaimedInv
  <2>2. /\ claim' = [claim EXCEPT ![c] = ClaimOf(s)]
        /\ pc' = [pc EXCEPT ![s] = "admitted"] /\ who' = [who EXCEPT ![s] = c]
    BY <1>2, <1>no DEF Admit
  <2>3. ClaimOf(s).session = s /\ \A t \in Sessions : ClaimOf(t)' = ClaimOf(t)
    BY <2>1, <1>claims DEF ClaimOf
  <2> QED
    BY <2>1, <2>2, <2>3 DEF Claimed
<1>3. ASSUME NEW s \in Sessions, MarkOnline(s) PROVE Claimed'
  BY <1>3, <1>keep DEF MarkOnline
<1>4. ASSUME NEW s \in Sessions, EndByCaller(s) \/ EndByDisconnect(s) \/ EndByDispatch(s)
      PROVE  Claimed'
  BY <1>4, <1>keep DEF EndByCaller, EndByDisconnect, EndByDispatch, End
<1>5. ASSUME NEW s \in Sessions, Finish(s) PROVE Claimed'
  <2>1. /\ Claimed /\ UNCHANGED <<who, lease, generation>> /\ pc[s] = "ended"
        /\ pc' = [pc EXCEPT ![s] = "finished"]
    BY <1>5, <1>no DEF Finish, ClaimedInv
  <2>2. \A t \in Sessions : ClaimOf(t)' = ClaimOf(t)
    BY <2>1, <1>claims
  <2>3. \A c \in Callers : claim[c] # None /\ claim[c].session = s => c = who[s] /\ OwnClaim(s, c)
    BY <2>1 DEF Claimed, OwnClaim
  <2>4. CASE who[s] # None /\ OwnClaim(s, who[s])
    <3>1. \A c \in Callers : claim'[c] = IF c = who[s] THEN None ELSE claim[c]
      BY <1>5, <2>4, <1>no DEF Finish
    <3>2. \A c \in Callers : claim'[c] # None => claim'[c] = claim[c] /\ claim[c].session # s
      BY <3>1, <2>3
    <3> QED
      BY <2>1, <2>2, <3>2 DEF Claimed
  <2>5. CASE ~(who[s] # None /\ OwnClaim(s, who[s]))
    <3>1. UNCHANGED claim
      BY <1>5, <2>5 DEF Finish
    <3>2. \A c \in Callers : claim[c] # None => claim[c].session # s
      BY <2>3, <2>5
    <3> QED
      BY <2>1, <2>2, <3>1, <3>2 DEF Claimed
  <2> QED
    BY <2>4, <2>5
<1>6. ASSUME NEW s \in Sessions, Release(s) \/ Finalize(s) \/ DropLease(s) PROVE Claimed'
  <2>1. /\ Claimed /\ UNCHANGED <<claim, who, lease, generation>>
        /\ \A t \in Sessions : pc[t] \in {"admitted", "online", "ended"} => pc'[t] = pc[t]
    BY <1>6 DEF Release, Finalize, DropLease, ClaimedInv
  <2> QED
    BY <1>6, <2>1, <1>keep DEF Release, Finalize, DropLease
<1>7. ASSUME NEW s \in Sessions, Cleanup(s) PROVE Claimed'
  <2>1. /\ Claimed /\ UNCHANGED <<who, lease, generation>> /\ pc[s] = "tail"
        /\ pc' = [pc EXCEPT ![s] = "gone"]
    BY <1>7, <1>no DEF Cleanup, Abandon, ClaimedInv
  <2>2. \A c \in Callers : claim'[c] # None => claim'[c] = claim[c]
    BY <1>7 DEF Cleanup, Abandon
  <2>3. \A t \in Sessions : ClaimOf(t)' = ClaimOf(t)
    BY <2>1, <1>claims
  <2> QED
    BY <2>1, <2>2, <2>3 DEF Claimed
<1>8. ASSUME NEW s \in Sessions PROVE ~Unwind(s)
  BY <1>no DEF Unwind
<1>9. CASE Operator \/ RequestShutdown \/ Drain
  <2>1. UNCHANGED <<pc, claim, who, lease, generation>> /\ Up
    BY <1>9, OthersLeaveThreads DEF Up
  <2>2. UNCHANGED faults
    BY <1>9, <1>no DEF Operator, Lockout, Reactivate, Scan, Invalidate, ConsoleDisconnect,
         AcceptDisconnect, RequestOperatorDisconnect, TrackWorker, WorkerGrace, WorkerFinish,
         RequestShutdown, Drain, BeginDrain, Collect, DrainGrace, DrainClose, DrainVerdict,
         DrainError
  <2> QED
    BY <1>keep, <2>1, <2>2
<1>10. ~Exit /\ ~Crash
  BY DEF Exit, Crash, Up
<1>11. CASE Load
  BY <1>11 DEF Load, RecoverClaims, Claimed
<1>12. CASE UNCHANGED vars
  BY <1>12, <1>keep DEF vars, Up
<1>13. ASSUME NEW s \in Sessions, Thread(s) PROVE Claimed'
  BY <1>13, <1>1, <1>2, <1>3, <1>4, <1>5, <1>6, <1>7, <1>8, Zenon DEF Thread
<1> QED
  BY <1>9, <1>10, <1>11, <1>12, <1>13, Zenon DEF Next

\* recover_caller_sessions, finish_caller_session and the abandonment by exact
\* identity: while nothing failed, a durable claim has a running thread that
\* still holds the claimed node, however often the daemon died before.
THEOREM ClaimsAreOwnedHolds == Spec => []ClaimsAreOwned
<1>1. Init => ClaimedInv
  BY DEF Init, ClaimedInv, Up
<1>2. ASSUME Structure, ClaimedInv PROVE ClaimsAreOwned
  <2> SUFFICES ASSUME Up, faults = MaxFaults, NEW c \in Callers, claim[c] # None
               PROVE  /\ claim[c].generation = generation
                      /\ who[claim[c].session] = c
                      /\ pc[claim[c].session] \in {"admitted", "online", "ended"}
                      /\ occupant[claim[c].node] = claim[c].session
    BY DEF ClaimsAreOwned
  <2> DEFINE s == claim[c].session
  <2>1. s \in Sessions
    BY <1>2 DEF Structure, TypeInv, TypeOK, Claims
  <2>2. claim[c] = ClaimOf(s) /\ who[s] = c /\ pc[s] \in {"admitted", "online", "ended"}
    BY <1>2 DEF ClaimedInv, Claimed
  <2>3. claim[c].generation = generation /\ claim[c].node = lease[s]
    BY <2>2 DEF ClaimOf
  <2>4. lease[s] \in Nodes /\ occupant[lease[s]] = s
    BY <2>1, <2>2, <1>2 DEF Structure, TypeInv, HeldLease, NodeOwnership, Holding, Engine
  <2> QED
    BY <2>2, <2>3, <2>4
<1> QED
  BY <1>1, <1>2, ClaimedStep, StructureHolds, PTL DEF Spec

-----------------------------------------------------------------------------
(***************************************************************************)
(* Disconnect requests and their tickets.                                  *)
(***************************************************************************)
LEMMA CorrelatedStep ==
  Structure /\ CorrelatedRequestsAreMet /\ [Next]_vars => CorrelatedRequestsAreMet'
<1> SUFFICES ASSUME Structure, CorrelatedRequestsAreMet, [Next]_vars
             PROVE  CorrelatedRequestsAreMet'
  OBVIOUS
<1>0. /\ pc \in [Sessions -> PCs] /\ DOMAIN request = Sessions /\ NodeOwnership
  BY DEF Structure, TypeInv, TypeOK
<1> USE <1>0 DEF CorrelatedRequestsAreMet, Correlated, Holding, Engine, nodeVars, threadVars
<1>1. ASSUME NEW s \in Sessions, Connect(s) PROVE CorrelatedRequestsAreMet'
  BY <1>1 DEF Connect
<1>2. ASSUME NEW s \in Sessions, NEW c \in Callers, Admit(s, c) PROVE CorrelatedRequestsAreMet'
  BY <1>2 DEF Admit, SessionEnded, ticketVars
<1>3. ASSUME NEW s \in Sessions, MarkOnline(s) PROVE CorrelatedRequestsAreMet'
  BY <1>3 DEF MarkOnline
<1>4. ASSUME NEW s \in Sessions, EndByCaller(s) \/ EndByDisconnect(s) \/ EndByDispatch(s)
      PROVE  CorrelatedRequestsAreMet'
  BY <1>4 DEF EndByCaller, EndByDisconnect, EndByDispatch, End, SessionEnded, ticketVars
<1>5. ASSUME NEW s \in Sessions, Finish(s) \/ Release(s) \/ DropLease(s)
      PROVE  CorrelatedRequestsAreMet'
  BY <1>5 DEF Finish, Release, DropLease
<1>6. ASSUME NEW s \in Sessions, Finalize(s) PROVE CorrelatedRequestsAreMet'
  BY <1>6 DEF Finalize, DisconnectFinalized, ticketVars
<1>7. ASSUME NEW s \in Sessions, Cleanup(s) \/ Unwind(s) PROVE CorrelatedRequestsAreMet'
  BY <1>7 DEF Cleanup, Unwind, Abandon, SessionEnded, ticketVars
<1>8. CASE Operator
  <2>1. ASSUME NEW s \in Sessions, RequestOperatorDisconnect(s) PROVE CorrelatedRequestsAreMet'
    BY <2>1 DEF RequestOperatorDisconnect, RequestDisconnect, Live, NodeOwnership
  <2>2. ASSUME NEW s \in Sessions, NEW c \in Callers, Invalidate(c, s)
        PROVE  CorrelatedRequestsAreMet'
    BY <2>2 DEF Invalidate, RequestDisconnect
  <2>3. ASSUME NEW s \in Sessions, ConsoleDisconnect(s) PROVE CorrelatedRequestsAreMet'
    BY <2>3 DEF ConsoleDisconnect, RequestDisconnect
  <2>4. ASSUME NEW s \in Sessions, \/ AcceptDisconnect(s) \/ TrackWorker(s)
                                   \/ WorkerGrace(s) \/ WorkerFinish(s)
        PROVE  UNCHANGED <<request, pc>>
    BY <2>4 DEF AcceptDisconnect, TrackWorker, WorkerGrace, WorkerFinish
  <2>5. ASSUME NEW c \in Callers, Lockout(c) \/ Reactivate(c) \/ Scan(c)
        PROVE  UNCHANGED <<request, pc>>
    BY <2>5 DEF Lockout, Reactivate, Scan
  <2> QED
    BY <1>8, <2>1, <2>2, <2>3, <2>4, <2>5, ConstantsAssumption DEF Operator
<1>9. CASE Drain
  <2>1. ASSUME NEW s \in Sessions, Collect(s) PROVE CorrelatedRequestsAreMet'
    BY <2>1 DEF Collect, RequestDisconnect, Live, NodeOwnership
  <2>2. ASSUME NEW s \in Sessions, DrainClose(s) PROVE CorrelatedRequestsAreMet'
    BY <2>2 DEF DrainClose
  <2>3. CASE BeginDrain \/ DrainGrace \/ DrainVerdict \/ DrainError
    BY <2>3 DEF BeginDrain, DrainGrace, DrainVerdict, DrainError
  <2> QED
    BY <1>9, <2>1, <2>2, <2>3, Zenon DEF Drain
<1>10. CASE Exit \/ Crash
  BY <1>10 DEF Exit, Crash, Volatile
<1>11. CASE RequestShutdown \/ Load \/ UNCHANGED vars
  BY <1>11 DEF RequestShutdown, Load, vars
<1> HIDE DEF CorrelatedRequestsAreMet
<1>12. ASSUME NEW s \in Sessions, Thread(s) PROVE CorrelatedRequestsAreMet'
  BY <1>12, <1>1, <1>2, <1>3, <1>4, <1>5, <1>6, <1>7, Zenon DEF Thread
<1> QED
  BY <1>8, <1>9, <1>10, <1>11, <1>12, Zenon DEF Next

\* request_disconnect_policy and request_board_shutdown run under the node lock
\* with the exact session present: no correlated request is entered after the
\* session's disconnect_finalized has run.
THEOREM CorrelatedRequestsAreMetHolds == Spec => []CorrelatedRequestsAreMet
<1>1. Init => CorrelatedRequestsAreMet
  BY DEF Init, CorrelatedRequestsAreMet, Correlated
<1> QED
  BY <1>1, CorrelatedStep, StructureHolds, PTL DEF Spec

\* An open ticket has its entry: nothing but the two removals unlinks one, and
\* they settle or drop the ticket in the same step.
LEMMA OpenTicketsStep ==
  Structure /\ OpenTicketsAreLinked /\ [Next]_vars => OpenTicketsAreLinked'
<1> SUFFICES ASSUME Structure, OpenTicketsAreLinked, [Next]_vars PROVE OpenTicketsAreLinked'
  OBVIOUS
<1>0. /\ DOMAIN request = Sessions
      /\ cmdTicket \in [Sessions -> Tickets] /\ drainTicket \in [Sessions -> Tickets]
      /\ \A s \in Sessions : accounting[s] # "open"
  BY DEF Structure, TypeInv, TypeOK
<1> USE <1>0 DEF OpenTicketsAreLinked, Correlated, drainVars, cmdVars, ticketVars
<1>1. ASSUME NEW s \in Sessions, SessionEnded(s) PROVE OpenTicketsAreLinked'
  BY <1>1 DEF SessionEnded
<1>2. ASSUME NEW s \in Sessions, NEW c \in Callers, Admit(s, c) PROVE OpenTicketsAreLinked'
  BY <1>1, <1>2 DEF Admit
<1>3. ASSUME NEW s \in Sessions, \/ EndByCaller(s) \/ EndByDisconnect(s) \/ EndByDispatch(s)
                                 \/ Cleanup(s) \/ Unwind(s)
      PROVE  OpenTicketsAreLinked'
  BY <1>1, <1>3 DEF EndByCaller, EndByDisconnect, EndByDispatch, End, Cleanup, Unwind, Abandon
<1>4. ASSUME NEW s \in Sessions, \/ Connect(s) \/ MarkOnline(s) \/ Finish(s) \/ Release(s)
                                 \/ DropLease(s)
      PROVE  OpenTicketsAreLinked'
  BY <1>4 DEF Connect, MarkOnline, Finish, Release, DropLease
<1>5. ASSUME NEW s \in Sessions, Finalize(s) PROVE OpenTicketsAreLinked'
  BY <1>5 DEF Finalize, DisconnectFinalized
<1>6. CASE Operator
  <2>1. ASSUME NEW s \in Sessions, RequestOperatorDisconnect(s) PROVE OpenTicketsAreLinked'
    BY <2>1 DEF RequestOperatorDisconnect, RequestDisconnect
  <2>2. ASSUME NEW s \in Sessions, NEW c \in Callers, Invalidate(c, s)
        PROVE  OpenTicketsAreLinked'
    BY <2>2 DEF Invalidate, RequestDisconnect
  <2>3. ASSUME NEW s \in Sessions, ConsoleDisconnect(s) PROVE OpenTicketsAreLinked'
    BY <2>3 DEF ConsoleDisconnect, RequestDisconnect
  <2>4. ASSUME NEW s \in Sessions, \/ AcceptDisconnect(s) \/ TrackWorker(s)
                                   \/ WorkerGrace(s) \/ WorkerFinish(s)
        PROVE  UNCHANGED <<request, cmdTicket, drainTicket>>
    BY <2>4 DEF AcceptDisconnect, TrackWorker, WorkerGrace, WorkerFinish
  <2>5. ASSUME NEW c \in Callers, Lockout(c) \/ Reactivate(c) \/ Scan(c)
        PROVE  UNCHANGED <<request, cmdTicket, drainTicket>>
    BY <2>5 DEF Lockout, Reactivate, Scan
  <2> QED
    BY <1>6, <2>1, <2>2, <2>3, <2>4, <2>5, ConstantsAssumption DEF Operator
<1>7. CASE Drain
  <2>1. ASSUME NEW s \in Sessions, Collect(s) PROVE OpenTicketsAreLinked'
    BY <2>1 DEF Collect, RequestDisconnect
  <2>2. ASSUME NEW s \in Sessions, DrainClose(s) PROVE OpenTicketsAreLinked'
    BY <2>2 DEF DrainClose
  <2>3. CASE BeginDrain \/ DrainGrace \/ DrainVerdict \/ DrainError
    BY <2>3 DEF BeginDrain, DrainGrace, DrainVerdict, DrainError
  <2> QED
    BY <1>7, <2>1, <2>2, <2>3, Zenon DEF Drain
<1>8. CASE Exit \/ Crash
  BY <1>8 DEF Exit, Crash, Volatile
<1>9. CASE RequestShutdown \/ Load \/ UNCHANGED vars
  BY <1>9 DEF RequestShutdown, Load, vars
<1> HIDE DEF OpenTicketsAreLinked
<1>10. ASSUME NEW s \in Sessions, Thread(s) PROVE OpenTicketsAreLinked'
  BY <1>10, <1>2, <1>3, <1>4, <1>5, Zenon DEF Thread
<1> QED
  BY <1>6, <1>7, <1>8, <1>9, <1>10, Zenon DEF Next

\* InteractionHub: whoever waits on an unresolved ticket waits on a request that
\* the session's finalizer can still find, unless the ticket was dropped.
THEOREM OpenTicketsAreLinkedHolds == Spec => []OpenTicketsAreLinked
<1>1. Init => OpenTicketsAreLinked
  BY DEF Init, OpenTicketsAreLinked
<1> QED
  BY <1>1, OpenTicketsStep, StructureHolds, PTL DEF Spec

\* emergency_close_session: the worker and drain shut a transport only while they
\* still wait for the session that was asked to leave, never for whoever replaced it.
THEOREM OnlyTargetsAreCutHolds == Spec => OnlyTargetsAreCut
<1> USE DEF CutsOnlyTargets
<1>1. ASSUME OpenTicketsAreLinked, [Next]_vars PROVE CutsOnlyTargets
  <2>1. ASSUME NEW s \in Sessions, EmergencyClose(s),
               request[s] # "none" \/ drainTicket[s] = "dropped"
        PROVE  CutsOnlyTargets
    BY <2>1 DEF EmergencyClose
  <2>2. ASSUME NEW s \in Sessions, WorkerGrace(s) PROVE CutsOnlyTargets
    <3>1. CASE cmdTicket[s] = "open"
      <4>1. request[s] # "none"
        BY <1>1, <3>1 DEF OpenTicketsAreLinked, Correlated
      <4> QED
        BY <2>1, <2>2, <3>1, <4>1 DEF WorkerGrace
    <3>2. CASE cmdTicket[s] # "open"
      BY <2>2, <3>2 DEF WorkerGrace
    <3> QED
      BY <3>1, <3>2
  <2>3. ASSUME NEW s \in Sessions, DrainClose(s) PROVE CutsOnlyTargets
    <3>1. CASE s \in Unresolved
      <4>1. request[s] # "none" \/ drainTicket[s] = "dropped"
        BY <1>1, <3>1 DEF OpenTicketsAreLinked, Unresolved
      <4> QED
        BY <2>1, <2>3, <3>1, <4>1 DEF DrainClose
    <3>2. CASE s \notin Unresolved
      BY <2>3, <3>2 DEF DrainClose
    <3> QED
      BY <3>1, <3>2
  <2>4. ASSUME NEW s \in Sessions, Thread(s) PROVE UNCHANGED cut
    BY <2>4 DEF Thread, Connect, Admit, MarkOnline, EndByCaller, EndByDisconnect, EndByDispatch,
         End, Finish, Release, Finalize, Cleanup, Unwind, Abandon, DropLease
  <2>5. CASE Operator
    <3>1. (\E s \in Sessions : WorkerGrace(s)) \/ UNCHANGED cut
      BY <2>5, ConstantsAssumption DEF Operator, Lockout, Reactivate, Scan, Invalidate,
           ConsoleDisconnect, AcceptDisconnect, RequestOperatorDisconnect, TrackWorker, WorkerFinish
    <3> QED
      BY <2>2, <3>1
  <2>6. CASE RequestShutdown \/ Drain
    <3>1. (\E s \in Sessions : DrainClose(s)) \/ UNCHANGED cut
      BY <2>6 DEF RequestShutdown, Drain, BeginDrain, Collect, DrainGrace, DrainVerdict, DrainError
    <3> QED
      BY <2>3, <3>1
  <2>7. CASE Exit \/ Crash
    BY <2>7 DEF Exit, Crash, Volatile
  <2>8. CASE Load \/ UNCHANGED vars
    BY <2>8 DEF Load, vars
  <2> QED
    BY <1>1, <2>4, <2>5, <2>6, <2>7, <2>8 DEF Next
<1>2. OpenTicketsAreLinked /\ [Next]_vars => [CutsOnlyTargets]_vars
  BY <1>1
<1> QED
  BY <1>2, OpenTicketsAreLinkedHolds, PTL DEF Spec, OnlyTargetsAreCut

-----------------------------------------------------------------------------
(***************************************************************************)
(* Receipts and verdicts: a completed ticket stands for a settled session. *)
(***************************************************************************)
Settled(s) == pc[s] \in {"tail", "gone"} /\ accounting[s] = "completed"

ReceiptInv ==
    \A s \in Sessions :
        /\ cmdTicket[s] = "completed" => Settled(s)
        /\ drainTicket[s] = "completed" => Settled(s)
        /\ cmd[s] = "session-disconnected" => cmdTicket[s] = "completed"

LEMMA ReceiptStep == Structure /\ ReceiptInv /\ [Next]_vars => ReceiptInv'
<1> SUFFICES ASSUME Structure, ReceiptInv, [Next]_vars PROVE ReceiptInv'
  OBVIOUS
<1>0. /\ pc \in [Sessions -> PCs] /\ DOMAIN accounting = Sessions /\ DOMAIN cmd = Sessions
      /\ DOMAIN cmdTicket = Sessions /\ DOMAIN drainTicket = Sessions
  BY DEF Structure, TypeInv, TypeOK
<1> USE <1>0 DEF ReceiptInv, Settled, threadVars, drainVars, cmdVars, ticketVars
<1>1. ASSUME NEW s \in Sessions, SessionEnded(s), UNCHANGED <<cmd, accounting>>,
             NEW p \in PCs, pc' = [pc EXCEPT ![s] = p], pc[s] \in {"tail", "gone"} => p = "gone"
      PROVE  ReceiptInv'
  BY <1>1 DEF SessionEnded
<1>2. ASSUME NEW s \in Sessions, NEW c \in Callers, Admit(s, c) PROVE ReceiptInv'
  BY <1>1, <1>2 DEF Admit, PCs, Holding, Engine
<1>3. ASSUME NEW s \in Sessions, EndByCaller(s) \/ EndByDisconnect(s) \/ EndByDispatch(s)
      PROVE  ReceiptInv'
  BY <1>1, <1>3 DEF EndByCaller, EndByDisconnect, EndByDispatch, End, PCs, Holding, Engine
<1>4. ASSUME NEW s \in Sessions, Cleanup(s) \/ Unwind(s) PROVE ReceiptInv'
  BY <1>1, <1>4 DEF Cleanup, Unwind, Abandon, PCs, Holding, Engine
<1>5. ASSUME NEW s \in Sessions, \/ Connect(s) \/ MarkOnline(s) \/ Finish(s) \/ Release(s)
                                 \/ DropLease(s)
      PROVE  ReceiptInv'
  BY <1>5 DEF Connect, MarkOnline, Finish, Release, DropLease
<1>6. ASSUME NEW s \in Sessions, Finalize(s) PROVE ReceiptInv'
  BY <1>6 DEF Finalize, DisconnectFinalized
<1>7. CASE Operator
  <2>1. ASSUME NEW s \in Sessions, RequestOperatorDisconnect(s) PROVE ReceiptInv'
    BY <2>1 DEF RequestOperatorDisconnect
  <2>2. ASSUME NEW s \in Sessions, WorkerFinish(s) PROVE ReceiptInv'
    BY <2>2 DEF WorkerFinish, ResultOf
  <2>3. ASSUME NEW s \in Sessions, AcceptDisconnect(s) \/ TrackWorker(s) \/ WorkerGrace(s)
        PROVE  ReceiptInv'
    BY <2>3 DEF AcceptDisconnect, TrackWorker, WorkerGrace
  <2>4. ASSUME NEW s \in Sessions, NEW c \in Callers, Invalidate(c, s) PROVE ReceiptInv'
    BY <2>4 DEF Invalidate
  <2>5. ASSUME NEW s \in Sessions, ConsoleDisconnect(s) PROVE ReceiptInv'
    BY <2>5 DEF ConsoleDisconnect
  <2>6. ASSUME NEW c \in Callers, Lockout(c) \/ Reactivate(c) \/ Scan(c) PROVE ReceiptInv'
    BY <2>6 DEF Lockout, Reactivate, Scan
  <2> HIDE DEF ReceiptInv
  <2> QED
    BY <1>7, <2>1, <2>2, <2>3, <2>4, <2>5, <2>6, ConstantsAssumption, Zenon DEF Operator
<1>8. CASE Drain
  <2>1. ASSUME NEW s \in Sessions, Collect(s) PROVE ReceiptInv'
    BY <2>1 DEF Collect
  <2>2. ASSUME NEW s \in Sessions, DrainClose(s) PROVE ReceiptInv'
    BY <2>2 DEF DrainClose
  <2>3. CASE BeginDrain \/ DrainGrace \/ DrainVerdict \/ DrainError
    BY <2>3 DEF BeginDrain, DrainGrace, DrainVerdict, DrainError
  <2> QED
    BY <1>8, <2>1, <2>2, <2>3, Zenon DEF Drain
<1>9. CASE Exit \/ Crash
  BY <1>9 DEF Exit, Crash, Volatile
<1>10. CASE RequestShutdown \/ Load \/ UNCHANGED vars
  BY <1>10 DEF RequestShutdown, Load, vars
<1> HIDE DEF ReceiptInv
<1>11. ASSUME NEW s \in Sessions, Thread(s) PROVE ReceiptInv'
  BY <1>11, <1>2, <1>3, <1>4, <1>5, <1>6, Zenon DEF Thread
<1> QED
  BY <1>7, <1>8, <1>9, <1>10, <1>11, Zenon DEF Next

LEMMA ReceiptHolds == Spec => []ReceiptInv
<1>1. Init => ReceiptInv
  BY DEF Init, ReceiptInv
<1> QED
  BY <1>1, ReceiptStep, StructureHolds, PTL DEF Spec

\* The operator's session-disconnected receipt: the session settled with the
\* database and its thread passed disconnect_finalized.
THEOREM DisconnectReceiptIsTrueHolds == Spec => []DisconnectReceiptIsTrue
<1>1. ReceiptInv => DisconnectReceiptIsTrue
  BY DEF ReceiptInv, Settled, DisconnectReceiptIsTrue
<1> QED
  BY <1>1, ReceiptHolds, PTL

LEMMA DrainSeesStep ==
  Structure /\ DrainSeesEverySession /\ [Next]_vars => DrainSeesEverySession'
<1> SUFFICES ASSUME Structure, DrainSeesEverySession, [Next]_vars PROVE DrainSeesEverySession'
  OBVIOUS
<1>0. /\ pc \in [Sessions -> PCs] /\ occupant \in [Nodes -> Sessions \cup {None}]
      /\ lease \in [Sessions -> Nodes \cup {None}]
      /\ DOMAIN drainTicket = Sessions /\ NodeOwnership
  BY DEF Structure, TypeInv, TypeOK
<1> USE <1>0 DEF DrainSeesEverySession, nodeVars, threadVars, drainVars, ticketVars
<1>1. ASSUME NEW s \in Sessions, SessionEnded(s), UNCHANGED <<phase, occupant, drain, todo>>
      PROVE  DrainSeesEverySession'
  BY <1>1 DEF SessionEnded
<1>2. ASSUME NEW s \in Sessions, Connect(s) PROVE DrainSeesEverySession'
  BY <1>2 DEF Connect, Admitting
<1>3. ASSUME NEW s \in Sessions, NEW c \in Callers, Admit(s, c) PROVE DrainSeesEverySession'
  BY <1>1, <1>3 DEF Admit
<1>4. ASSUME NEW s \in Sessions, \/ EndByCaller(s) \/ EndByDisconnect(s) \/ EndByDispatch(s)
                                 \/ Cleanup(s) \/ Unwind(s)
      PROVE  DrainSeesEverySession'
  BY <1>1, <1>4 DEF EndByCaller, EndByDisconnect, EndByDispatch, End, Cleanup, Unwind, Abandon
<1>5. ASSUME NEW s \in Sessions, MarkOnline(s) \/ Finish(s) PROVE DrainSeesEverySession'
  BY <1>5 DEF MarkOnline, Finish
<1>6. ASSUME NEW s \in Sessions, Release(s) \/ DropLease(s) PROVE DrainSeesEverySession'
  BY <1>6 DEF Release, DropLease, ClearSlot
<1>7. ASSUME NEW s \in Sessions, Finalize(s) PROVE DrainSeesEverySession'
  <2>1. \A n \in Nodes : occupant[n] # s
    BY <1>7 DEF Finalize, NodeOwnership, Holding, Engine
  <2> QED
    BY <1>7, <2>1 DEF Finalize, DisconnectFinalized
<1>8. CASE Operator
  <2>1. UNCHANGED <<phase, occupant, drain, todo, drainTicket>>
    BY <1>8 DEF Operator, Lockout, Reactivate, Scan, Invalidate, ConsoleDisconnect,
         AcceptDisconnect, RequestOperatorDisconnect, TrackWorker, WorkerGrace, WorkerFinish
  <2> QED
    BY <2>1
<1>9. CASE Drain
  <2>1. CASE BeginDrain
    BY <2>1 DEF BeginDrain, Occupants
  <2>2. ASSUME NEW s \in Sessions, Collect(s) PROVE DrainSeesEverySession'
    BY <2>2 DEF Collect, Live
  <2>3. ASSUME NEW s \in Sessions, DrainClose(s) PROVE DrainSeesEverySession'
    BY <2>3 DEF DrainClose
  <2>4. CASE DrainGrace
    BY <2>4 DEF DrainGrace
  <2>5. CASE DrainVerdict \/ DrainError
    BY <2>5 DEF DrainVerdict, DrainError
  <2> QED
    BY <1>9, <2>1, <2>2, <2>3, <2>4, <2>5, Zenon DEF Drain
<1>10. CASE Exit \/ Crash \/ RequestShutdown \/ Load
  BY <1>10 DEF Exit, Crash, RequestShutdown, Load
<1>11. CASE UNCHANGED vars
  BY <1>11 DEF vars
<1> HIDE DEF DrainSeesEverySession
<1>12. ASSUME NEW s \in Sessions, Thread(s) PROVE DrainSeesEverySession'
  BY <1>12, <1>2, <1>3, <1>4, <1>5, <1>6, <1>7, Zenon DEF Thread
<1> QED
  BY <1>8, <1>9, <1>10, <1>11, <1>12, Zenon DEF Next

\* run_connection holds the shutdown lock while it takes its node: from drain's
\* snapshot on, no session is on a node that drain does not know.
THEOREM DrainSeesEverySessionHolds == Spec => []DrainSeesEverySession
<1>1. Init => DrainSeesEverySession
  BY DEF Init, DrainSeesEverySession
<1> QED
  BY <1>1, DrainSeesStep, StructureHolds, PTL DEF Spec

\* After a clean verdict nobody holds a node and no ticket of drain is open, so
\* nothing settles, connects or fails any more.
CompleteInv ==
    phase = "Complete" =>
        \A s \in Sessions : pc[s] \notin Holding /\ drainTicket[s] \in {"none", "completed"}

LEMMA CompleteStep == Structure /\ CompleteInv /\ [Next]_vars => CompleteInv'
<1> SUFFICES ASSUME Structure, CompleteInv, [Next]_vars PROVE CompleteInv'
  OBVIOUS
<1>0. /\ pc \in [Sessions -> PCs] /\ occupant \in [Nodes -> Sessions \cup {None}]
      /\ DOMAIN drainTicket = Sessions /\ NodeOwnership /\ HeldLease
  BY DEF Structure, TypeInv, TypeOK
<1> USE <1>0 DEF CompleteInv, Holding, Engine, threadVars, drainVars, ticketVars
<1>1. ASSUME NEW s \in Sessions, SessionEnded(s), UNCHANGED phase,
             \A t \in Sessions : pc[t] \notin Holding => pc'[t] \notin Holding
      PROVE  CompleteInv'
  BY <1>1 DEF SessionEnded
<1>2. ASSUME NEW s \in Sessions, Connect(s) PROVE CompleteInv'
  BY <1>2 DEF Connect, Admitting
<1>3. ASSUME NEW s \in Sessions, NEW c \in Callers, Admit(s, c) PROVE CompleteInv'
  BY <1>3 DEF Admit
<1>4. ASSUME NEW s \in Sessions, \/ EndByCaller(s) \/ EndByDisconnect(s) \/ EndByDispatch(s)
                                 \/ Unwind(s) \/ MarkOnline(s) \/ Finish(s)
      PROVE  CompleteInv'
  BY <1>4 DEF EndByCaller, EndByDisconnect, EndByDispatch, End, Unwind, Abandon, MarkOnline,
       Finish
<1>5. ASSUME NEW s \in Sessions, Cleanup(s) PROVE CompleteInv'
  BY <1>1, <1>5 DEF Cleanup, Abandon
<1>6. ASSUME NEW s \in Sessions, Release(s) \/ DropLease(s) PROVE CompleteInv'
  BY <1>6 DEF Release, DropLease
<1>7. ASSUME NEW s \in Sessions, Finalize(s) PROVE CompleteInv'
  BY <1>7 DEF Finalize, DisconnectFinalized
<1>8. CASE Operator
  <2>1. UNCHANGED <<phase, pc, drainTicket>>
    BY <1>8 DEF Operator, Lockout, Reactivate, Scan, Invalidate, ConsoleDisconnect,
         AcceptDisconnect, RequestOperatorDisconnect, TrackWorker, WorkerGrace, WorkerFinish
  <2> QED
    BY <2>1
<1>9. CASE Drain
  <2>1. CASE DrainVerdict
    BY <2>1, ConstantsAssumption DEF DrainVerdict, DrainClean, NodeOwnership, HeldLease
  <2>2. ASSUME NEW s \in Sessions, Collect(s) \/ DrainClose(s) PROVE CompleteInv'
    BY <2>2 DEF Collect, DrainClose
  <2>3. CASE BeginDrain \/ DrainGrace \/ DrainError
    BY <2>3 DEF BeginDrain, DrainGrace, DrainError
  <2> QED
    BY <1>9, <2>1, <2>2, <2>3, Zenon DEF Drain
<1>10. CASE Exit \/ Crash \/ RequestShutdown \/ Load
  BY <1>10 DEF Exit, Crash, RequestShutdown, Load
<1>11. CASE UNCHANGED vars
  BY <1>11 DEF vars
<1> HIDE DEF CompleteInv
<1>12. ASSUME NEW s \in Sessions, Thread(s) PROVE CompleteInv'
  BY <1>12, <1>2, <1>3, <1>4, <1>5, <1>6, <1>7, Zenon DEF Thread
<1> QED
  BY <1>8, <1>9, <1>10, <1>11, <1>12, Zenon DEF Next

\* drain's verdict: after a clean one no session holds a node and every session
\* drain asked to leave has settled with the database.
THEOREM CompleteIsCleanHolds == Spec => []CompleteIsClean
<1>1. Init => CompleteInv
  BY DEF Init, CompleteInv
<1>2. CompleteInv /\ ReceiptInv => CompleteIsClean
  BY DEF CompleteInv, ReceiptInv, Settled, CompleteIsClean
<1> QED
  BY <1>1, <1>2, CompleteStep, ReceiptHolds, StructureHolds, PTL DEF Spec
=============================================================================
