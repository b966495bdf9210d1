--------------------------- MODULE ArtifactCustody ---------------------------
(***************************************************************************)
(* The store of immutable packets below SYSTEM/network-artifacts and its   *)
(* rows in the database. A packet is named by its digest, so an artifact   *)
(* stands for its bytes and its file for the file of that name.            *)
(*                                                                         *)
(* QWK, FTN and QWK network jobs reserve a row before they create a file   *)
(* (preserve_artifact); CircuitNET creates the file first, inside the      *)
(* transaction that will name it (retain). Both go through                 *)
(* DiskArtifactStore. A start, before any session, removes the files of    *)
(* rows that are still pending and then requires everything to be whole.   *)
(*                                                                         *)
(* Abstracted: the byte budgets (every artifact is one file), symbolic     *)
(* links and permissions, and the two admission permits.                   *)
(***************************************************************************)
EXTENDS Naturals, FiniteSets

CONSTANTS Artifacts,     \* the packets written by journaled jobs
          Batches,       \* the packets of CircuitNET, in a format of their own
          Jobs,          \* threads that run preserve_artifact
          Links,         \* threads that run retain
          Unknown,       \* files in the directory that no row names
          Limit,         \* 10,000 files
          CircuitLimit,  \* the 20,000 files of CircuitNET
          MaxCrashes,    \* bound: crashes of the daemon
          MaxFaults      \* bound: failed writes and failed transactions

LimitsAreNumbers == {Unknown, Limit, CircuitLimit, MaxCrashes, MaxFaults} \subseteq Nat
FormatsDiffer == Artifacts \cap Batches = {}
CustodyAssumption == LimitsAreNumbers /\ FormatsDiffer /\ Jobs \cap Links = {}

VARIABLES
    phase,    \* of the daemon: "up", "down" or "recovering"
    row,      \* row[a], of network_artifacts
    file,     \* file[a], on the disk
    pc,       \* pc[w], what a thread is doing
    want,     \* want[w], the bytes it preserves
    crashes, faults

vars == <<phase, row, file, pc, want, crashes, faults>>

Writers == Jobs \cup Links
Packets == Artifacts \cup Batches

TypeOK ==
    /\ phase \in {"up", "down", "recovering"}
    /\ row \in [Packets -> {"none", "pending", "complete"}]
    /\ file \in [Packets -> {"none", "partial", "whole"}]
    /\ pc \in [Writers -> {"idle", "reserved", "present", "writing", "written"}]
    /\ want \in [Writers -> Packets]
    /\ Cardinality({c \in Links : pc[c] # "idle"}) <= 1
    /\ crashes \in 0..MaxCrashes /\ faults \in 0..MaxFaults

Init ==
    /\ phase = "up"
    /\ row = [a \in Packets |-> "none"] /\ file = [a \in Packets |-> "none"]
    /\ pc = [w \in Writers |-> "idle"]
    /\ want \in [Writers -> Packets] /\ \A w \in Writers : want[w] \in IF w \in Jobs THEN Artifacts ELSE Batches
    /\ crashes = 0 /\ faults = 0

Files == {a \in Packets : file[a] # "none"}

\* The files in the directory; with more than Limit of them every call of usage
\* fails.
Usage == Cardinality(Files) + Unknown
UsageFails == Usage > Limit

\* Mutant: the transaction takes the write lock with its first statement only.
Deferred == \E c \in Links : pc[c] = "written"

\* A CircuitNET transaction holds the database for writing from before retain
\* until it commits.
Writing == \E c \in Links : pc[c] # "idle"

(***************************************************************************)
(* preserve_artifact.                                                      *)
(***************************************************************************)
\* What the capacity check of a reservation refuses.
Full == UsageFails \/ Usage >= Limit

\* Mutant: the row is complete as soon as it is inserted.
ReserveComplete(w) ==
    /\ phase = "up" /\ pc[w] = "idle" /\ ~Writing
    /\ \E a \in Artifacts :
         /\ want' = [want EXCEPT ![w] = a]
         /\ row[a] = "complete" \/ (row[a] = "none" /\ ~Full)
         /\ row' = [row EXCEPT ![a] = "complete"]
         /\ pc' = [pc EXCEPT ![w] = IF row[a] = "none" THEN "reserved" ELSE "present"]
    /\ UNCHANGED <<phase, file, crashes, faults>>

\* The first transaction: a complete row needs no reservation, a pending one is
\* somebody else's, and a new one is committed before the file exists.
Reserve(w) ==
    /\ phase = "up" /\ pc[w] = "idle" /\ ~Writing
    /\ \E a \in Artifacts :
         /\ want' = [want EXCEPT ![w] = a]
         /\ \/ /\ row[a] = "complete"
               /\ pc' = [pc EXCEPT ![w] = "present"]
               /\ UNCHANGED row
            \/ /\ row[a] = "none" /\ ~Full
               /\ row' = [row EXCEPT ![a] = "pending"]
               /\ pc' = [pc EXCEPT ![w] = "reserved"]
    /\ UNCHANGED <<phase, file, crashes, faults>>

\* The file is created exclusively.
Create(w) ==
    /\ phase = "up" /\ pc[w] \in {"reserved", "present"}
    /\ file[want[w]] = "none"
    /\ file' = [file EXCEPT ![want[w]] = "partial"]
    /\ pc' = [pc EXCEPT ![w] = "writing"]
    /\ UNCHANGED <<phase, row, want, crashes, faults>>

\* Mutant: a file of the name is enough.
Exists(a) == file[a] # "none"

\* A file that is there is read: the same bytes are good, others are refused.
Same(a) == file[a] = "whole"

Compare(w) ==
    /\ phase = "up" /\ pc[w] \in {"reserved", "present"}
    /\ file[want[w]] # "none"
    /\ pc' = [pc EXCEPT ![w] = IF Same(want[w]) THEN "written" ELSE "idle"]
    /\ UNCHANGED <<phase, row, file, want, crashes, faults>>

\* The bytes are written and synchronized.
Write(w) ==
    /\ phase = "up" /\ pc[w] = "writing"
    /\ file' = [file EXCEPT ![want[w]] = "whole"]
    /\ pc' = [pc EXCEPT ![w] = "written"]
    /\ UNCHANGED <<phase, row, want, crashes, faults>>

\* The statement that completes the row.
Finish(w) ==
    /\ phase = "up" /\ w \in Jobs /\ pc[w] = "written" /\ ~Writing
    /\ row' = [row EXCEPT ![want[w]] = "complete"]
    /\ pc' = [pc EXCEPT ![w] = "idle"]
    /\ UNCHANGED <<phase, file, want, crashes, faults>>

(***************************************************************************)
(* retain, inside the transaction of an import, a preparation or an        *)
(* acknowledgement.                                                        *)
(***************************************************************************)
CircuitFull == UsageFails \/ Usage >= CircuitLimit

\* A link preserves one batch, and the same one again when the first attempt
\* failed: the neighbor offers the artifact it has.
Retain(c) ==
    /\ phase = "up" /\ ~Writing /\ ~CircuitFull
    /\ pc' = [pc EXCEPT ![c] = "reserved"]
    /\ UNCHANGED <<phase, row, file, want, crashes, faults>>

\* The row is inserted with the commit of the transaction.
Commit(c) ==
    /\ phase = "up" /\ c \in Links /\ pc[c] = "written"
    /\ row' = [row EXCEPT ![want[c]] = "complete"]
    /\ pc' = [pc EXCEPT ![c] = "idle"]
    /\ UNCHANGED <<phase, file, want, crashes, faults>>

\* Storage or a later statement fails. A job leaves its row pending; a CircuitNET
\* transaction is rolled back. What was written of the file stays.
Fail(w) ==
    /\ phase = "up" /\ pc[w] # "idle" /\ faults < MaxFaults
    /\ pc' = [pc EXCEPT ![w] = "idle"]
    /\ faults' = faults + 1
    /\ UNCHANGED <<phase, row, file, want, crashes>>

(***************************************************************************)
(* Crash, and recovery at the next start.                                  *)
(***************************************************************************)
Crash ==
    /\ phase # "down" /\ crashes < MaxCrashes
    /\ phase' = "down"
    /\ pc' = [w \in Writers |-> "idle"]
    /\ crashes' = crashes + 1
    /\ UNCHANGED <<row, file, want, faults>>

Stop ==
    /\ phase = "up" /\ \A w \in Writers : pc[w] = "idle"
    /\ phase' = "down"
    /\ UNCHANGED <<row, file, pc, want, crashes, faults>>

\* A start is refused while the inventory has more rows than the limit.
Start ==
    /\ phase = "down"
    /\ Cardinality({a \in Packets : row[a] # "none"}) <= Limit
    /\ phase' = "recovering"
    /\ UNCHANGED <<row, file, pc, want, crashes, faults>>

\* Mutant: whatever no complete row names is removed.
Unnamed(a) == row[a] # "complete"

\* The file of a pending row is removed before the row is forgotten.
Incomplete(a) == row[a] = "pending"

Unlink(a) ==
    /\ phase = "recovering" /\ Incomplete(a) /\ file[a] # "none"
    /\ file' = [file EXCEPT ![a] = "none"]
    /\ UNCHANGED <<phase, row, pc, want, crashes, faults>>

\* Mutant: the row is forgotten before its file is removed.
ForgetFirst(a) ==
    /\ phase = "recovering" /\ row[a] = "pending"
    /\ row' = [row EXCEPT ![a] = "none"]
    /\ UNCHANGED <<phase, file, pc, want, crashes, faults>>

Forget(a) ==
    /\ phase = "recovering" /\ row[a] = "pending" /\ file[a] = "none"
    /\ row' = [row EXCEPT ![a] = "none"]
    /\ UNCHANGED <<phase, file, pc, want, crashes, faults>>

\* validate: nothing pending, and every complete row has its whole file.
Validated ==
    /\ ~UsageFails
    /\ \A a \in Packets : row[a] # "pending" /\ (row[a] = "complete" => Same(a))

Open ==
    /\ phase = "recovering" /\ Validated
    /\ phase' = "up"
    /\ UNCHANGED <<row, file, pc, want, crashes, faults>>

\* A validation that fails ends the daemon.
Refuse ==
    /\ phase = "recovering" /\ ~Validated /\ \A a \in Packets : row[a] # "pending"
    /\ phase' = "down"
    /\ UNCHANGED <<row, file, pc, want, crashes, faults>>

Job(w) == Reserve(w) \/ Create(w) \/ Compare(w) \/ Write(w) \/ Finish(w)
Link(c) == (pc[c] = "idle" /\ Retain(c)) \/ Create(c) \/ Compare(c) \/ Write(c) \/ Commit(c)
Recovery == Start \/ Open \/ Refuse \/ \E a \in Packets : Unlink(a) \/ Forget(a)

Next ==
    \/ \E w \in Jobs : Job(w)
    \/ \E c \in Links : Link(c)
    \/ \E w \in Writers : Fail(w)
    \/ Crash \/ Stop \/ Recovery

Spec == Init /\ [][Next]_vars

\* A thread that has begun goes on, a neighbor offers its batch again, and the
\* daemon is started again after it went down.
Fairness ==
    /\ \A w \in Jobs : WF_vars(Create(w) \/ Compare(w) \/ Write(w)) /\ SF_vars(Finish(w))
    /\ \A c \in Links : SF_vars(pc[c] = "idle" /\ Retain(c)) /\ WF_vars(Create(c) \/ Compare(c) \/ Write(c) \/ Commit(c))
    /\ WF_vars(Recovery)

FairSpec == Spec /\ Fairness

(***************************************************************************)
(* Properties.                                                             *)
(***************************************************************************)
\* A complete row is the evidence of whole bytes, whatever crash or failed
\* statement came between the file and the row (DiskArtifactStore::validate).
CompleteIsWhole == \A a \in Packets : row[a] = "complete" => file[a] = "whole"

\* A file that is not whole is owned by a pending row, so that recovery can remove
\* it: ownership is journaled before the file is created, and forgotten after it
\* is removed (preserve_artifact, recover).
PartialIsJournaled == \A a \in Packets : file[a] = "partial" => row[a] = "pending"

\* Recovery removes nothing but the file of a pending row, and no writer removes
\* or shortens a file.
OnlyPendingRemoved ==
    \A a \in Packets : file[a] = "whole" /\ file'[a] # "whole" => row[a] = "pending" /\ phase = "recovering"

\* The directory never holds more files than the store accepts; with one more,
\* validate fails and the board does not start.
CapacityHeld == ~UsageFails

\* A board that is down comes up again: recovery settles every pending row and
\* then finds everything whole.
ComesUp == phase # "up" ~> phase = "up"

\* A batch that is offered again and again is retained in the end.
BatchRetained == \A c \in Links : <>(row[want[c]] = "complete")
=============================================================================
