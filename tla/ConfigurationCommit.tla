-------------------------- MODULE ConfigurationCommit --------------------------
(***************************************************************************)
(* Saving the board's configuration: ConfigurationAuthority of              *)
(* sf-bbs/configuration.rs, the command journal it shares with the other    *)
(* operator commands (sf-core/operator_control.rs) and save_atomic of       *)
(* sf-core/config.rs.                                                        *)
(*                                                                          *)
(* apply runs under one mutex, but it is a chain of separate database       *)
(* transactions and file replacements.  The process may die, and a step may *)
(* fail, between any two of them.  The file carries a link to the command   *)
(* that wrote it; recover() settles the journal from that link.              *)
(***************************************************************************)
EXTENDS Naturals

CONSTANTS
    Commands,        \* configuration.apply commands, each with its candidate
    Revoking,        \* those whose candidate takes the online grants away
    None,
    MaxGenerations,  \* bound on daemon starts
    MaxFaults,       \* bound on failing steps
    MaxEdits,        \* bound on edits of a stopped board's file
    Accidents        \* which of "power" (a loss of power) and "hand" (an edit by hand) occur

Contents == Commands \cup {"initial", "admin", "edited"}
Versions == [rev : Nat, content : Contents]
CommitAssumption ==
    /\ Revoking \subseteq Commands /\ Commands \cap {"initial", "admin", "edited"} = {}
    /\ None \notin Commands /\ None \notin [command : Commands, digest : Versions]
    /\ MaxGenerations \in Nat /\ MaxFaults \in Nat /\ MaxEdits \in Nat
    /\ Accidents \subseteq {"power", "hand"}

VARIABLES
    file,      \* the current configuration file
    durable,   \* the file a power loss would leave
    row,       \* command -> state of its journal row
    rowGen,    \* command -> generation its row was accepted in
    expected,  \* command -> the version its candidate was made from
    up,        \* who has the board open: nobody, the daemon, or a cold owner
    gen,       \* daemon generation (or the offline session's)
    published, \* the configuration in the gate's mutex
    who,       \* the command that holds the gate
    pc,        \* the next step of its apply, or of starting
    reply,     \* command -> the last reply its client got
    faults,
    edits

disk == <<file, durable>>
journal == <<row, rowGen>>
memory == <<up, gen, published, who, pc>>
client == <<expected, reply>>
vars == <<disk, journal, memory, client, faults, edits>>

Links == [command : Commands, digest : Versions] \cup {None}
File == [rev : Nat, content : Contents, grants : BOOLEAN, link : Links]
Replies == {"none", "saved", "conflict", "invalid", "denied", "replayed", "reused",
            "recovery", "error", "lost"}
\* the digest leaves the link out: configuration_version
Version(f) == [rev |-> f.rev, content |-> f.content]

TypeOK ==
    /\ file \in File /\ durable \in File
    /\ row \in [Commands -> {"none", "accepted", "rejected", "completed"}]
    /\ rowGen \in [Commands -> 0..MaxGenerations]
    /\ \A c \in Commands : expected[c] = None \/ expected[c] \in Versions
    /\ up \in {"down", "online", "offline", "admin"} /\ gen \in 0..MaxGenerations
    /\ published \in File \cup {None}
    /\ who \in Commands \cup {None}
    /\ pc \in {"idle", "finish", "reject", "load", "accept", "compare", "previous", "replace",
               "publish", "sync", "settle", "settled"}
    /\ reply \in [Commands -> Replies]
    /\ faults \in 0..MaxFaults /\ edits \in 0..MaxEdits

InitialFile == [rev |-> 0, content |-> "initial", grants |-> TRUE, link |-> None]
Init ==
    /\ file = InitialFile /\ durable = InitialFile
    /\ row = [c \in Commands |-> "none"] /\ rowGen = [c \in Commands |-> 0]
    /\ expected = [c \in Commands |-> None] /\ reply = [c \in Commands |-> "none"]
    /\ up = "down" /\ gen = 0 /\ published = None /\ who = None /\ pc = "idle"
    /\ faults = 0 /\ edits = 0

-----------------------------------------------------------------------------
(***************************************************************************)
(* recover(): the journal follows the file.                                 *)
(***************************************************************************)

\* Plausible mistake: whatever link the file carries is proof.
AnyLink(f) == f.link # None
LinkProves(f) == f.link # None /\ f.link.digest = Version(f)
LinkFails(f) == f.link # None /\ ~LinkProves(f)

\* Plausible mistake: the old link settles nothing, and the row stays open.
FinishNothing == UNCHANGED journal
\* finish_configuration_command: row and success audit in one transaction
FinishLinked ==
    /\ row' = [c \in Commands |-> IF LinkProves(file) /\ c = file.link.command /\ row[c] = "accepted"
                                  THEN "completed" ELSE row[c]]
    /\ UNCHANGED rowGen
\* Plausible mistake: an interrupted command is left for later.
RejectNone == UNCHANGED journal
\* reject_uncommitted_configuration_commands
RejectUncommitted ==
    /\ row' = [c \in Commands |-> IF row[c] = "accepted" THEN "rejected" ELSE row[c]]
    /\ UNCHANGED rowGen

-----------------------------------------------------------------------------
(***************************************************************************)
(* Opening the authority: the daemon's load, or a cold owner of the board.  *)
(***************************************************************************)

Start(mode) ==
    /\ up = "down" /\ gen < MaxGenerations /\ ~LinkFails(file)
    /\ up' = mode /\ gen' = gen + 1 /\ published' = file /\ pc' = "finish"
    /\ UNCHANGED <<disk, journal, who, client, faults, edits>>

Opening == who = None /\ pc # "idle"
Die(left) ==
    /\ file' = left /\ durable' = left
    /\ up' = "down" /\ published' = None /\ who' = None /\ pc' = "idle"
    /\ reply' = IF who = None THEN reply ELSE [reply EXCEPT ![who] = "lost"]
    /\ UNCHANGED <<journal, gen, expected, faults, edits>>
\* the process ends, by a crash or a stop; the kernel keeps the renamed file
Crash ==
    /\ up # "down"
    /\ up' = "down" /\ published' = None /\ who' = None /\ pc' = "idle"
    /\ reply' = IF who = None THEN reply ELSE [reply EXCEPT ![who] = "lost"]
    /\ UNCHANGED <<disk, journal, gen, expected, faults, edits>>
\* a rename whose directory was not synced may be undone
PowerLoss == "power" \in Accidents /\ (up # "down" \/ file # durable) /\ \E f \in {file, durable} : Die(f)
\* the kernel writes the directory back in its own time
WriteBack ==
    /\ durable # file /\ durable' = file
    /\ UNCHANGED <<file, journal, memory, client, faults, edits>>

-----------------------------------------------------------------------------
(***************************************************************************)
(* ConfigurationAuthority::apply, one transaction or file operation a step. *)
(***************************************************************************)

\* snapshot: what the operator's candidate will be compared with
Snapshot(c) ==
    /\ up \in {"online", "offline"} /\ pc = "idle" /\ expected[c] = None
    /\ expected' = [expected EXCEPT ![c] = Version(file)]
    /\ UNCHANGED <<disk, journal, memory, reply, faults, edits>>

\* the gate; a client that got no answer, or one it doubts, sends the same command again
Enter(c) ==
    /\ up \in {"online", "offline"} /\ pc = "idle" /\ expected[c] # None
    /\ reply[c] \in {"none", "lost", "error", "recovery"}
    /\ who' = c /\ pc' = "finish"
    /\ UNCHANGED <<disk, journal, up, gen, published, client, faults, edits>>

Leave(answer) ==
    /\ pc' = "idle" /\ who' = None
    /\ reply' = IF who = None THEN reply ELSE [reply EXCEPT ![who] = answer]
    /\ UNCHANGED <<up, gen, published, expected>>
Continue(next) == pc' = next /\ UNCHANGED <<up, gen, published, who, client>>

Finish ==
    /\ pc = "finish" /\ ~LinkFails(file)
    /\ FinishLinked /\ Continue("reject")
    /\ UNCHANGED <<disk, faults, edits>>
Reject ==
    /\ pc = "reject" /\ RejectUncommitted
    /\ IF who = None THEN Leave("none") ELSE Continue("load")
    /\ UNCHANGED <<disk, faults, edits>>

\* Plausible mistake: nobody looks at the stored grants.
AlwaysGranted == TRUE
Granted == up = "offline" \/ file.grants
Authorize ==
    /\ pc = "load"
    /\ IF Granted THEN Continue("accept") ELSE Leave("denied")
    /\ UNCHANGED <<disk, journal, faults, edits>>

\* accept_operator_command
Accept ==
    /\ pc = "accept"
    /\ \/ /\ row[who] = "none"
          /\ row' = [row EXCEPT ![who] = "accepted"] /\ rowGen' = [rowGen EXCEPT ![who] = gen]
          /\ Continue("compare")
       \/ /\ row[who] # "none" /\ UNCHANGED journal
          /\ Leave(IF rowGen[who] = gen THEN "replayed" ELSE "reused")
    /\ UNCHANGED <<disk, faults, edits>>

\* Plausible mistake: the candidate is saved whatever it was made from.
AnyVersion(c) == TRUE
Current(c) == expected[c] = Version(file)
\* a conflict, or a candidate that does not validate: the row is rejected
Refuse ==
    /\ pc = "compare"
    /\ row' = [row EXCEPT ![who] = "rejected"]
    /\ Leave(IF Current(who) THEN "invalid" ELSE "conflict")
    /\ UNCHANGED <<disk, rowGen, faults, edits>>
Validate ==
    /\ pc = "compare" /\ Current(who) /\ Continue("previous")
    /\ UNCHANGED <<disk, journal, faults, edits>>
\* the prior generation is copied aside; the current file is untouched
SavePrevious ==
    /\ pc = "previous" /\ Continue("replace")
    /\ UNCHANGED <<disk, journal, faults, edits>>

Written(c) ==
    [rev |-> file.rev + 1, content |-> c, grants |-> file.grants /\ c \notin Revoking,
     link |-> [command |-> c, digest |-> [rev |-> file.rev + 1, content |-> c]]]
Replace ==
    /\ pc = "replace" /\ file' = Written(who) /\ Continue("publish")
    /\ UNCHANGED <<durable, journal, faults, edits>>
\* Plausible mistake: the sessions keep the configuration the daemon started with.
KeepPublished(f) == published
\* Plausible mistake: what is published is the version, without the settings.
AnyPublished(f) == Version(f)
NextPublished(f) == f
Publish ==
    /\ pc = "publish" /\ published' = NextPublished(file) /\ pc' = "sync"
    /\ UNCHANGED <<disk, journal, up, gen, who, client, faults, edits>>
SyncParent ==
    /\ pc = "sync" /\ durable' = file /\ Continue("settle")
    /\ UNCHANGED <<file, journal, faults, edits>>
Settle ==
    /\ pc = "settle" /\ ~LinkFails(file)
    /\ FinishLinked /\ Continue("settled")
    /\ UNCHANGED <<disk, faults, edits>>
Settled ==
    /\ pc = "settled" /\ RejectUncommitted /\ Leave("saved")
    /\ UNCHANGED <<disk, faults, edits>>

\* a transaction or a file operation fails: an error before the replacement,
\* "recovery required" after it; a failing start leaves the board down
Fails ==
    /\ faults < MaxFaults /\ faults' = faults + 1
    /\ pc \in {"finish", "reject", "accept", "compare", "previous", "replace", "sync", "settle",
               "settled"}
    /\ IF Opening
       THEN /\ up' = "down" /\ published' = None /\ pc' = "idle" /\ UNCHANGED <<gen, who, client>>
       ELSE Leave(IF pc \in {"sync", "settle", "settled"} THEN "recovery" ELSE "error")
    /\ UNCHANGED <<disk, journal, edits>>

-----------------------------------------------------------------------------
(***************************************************************************)
(* A stopped board.                                                         *)
(***************************************************************************)

\* BoardAdmin::save_static, behind the board lock and a recovered journal
AdminSave ==
    /\ up = "admin" /\ pc = "idle" /\ edits < MaxEdits /\ edits' = edits + 1
    /\ file' = [rev |-> file.rev + 1, content |-> "admin", grants |-> file.grants, link |-> None]
    /\ UNCHANGED <<durable, journal, memory, client, faults>>
\* an editor changes the text and may leave the link in it
ManualEdit ==
    /\ "hand" \in Accidents /\ up = "down" /\ edits < MaxEdits /\ edits' = edits + 1
    /\ \E link \in {file.link, None} :
         file' = [rev |-> file.rev, content |-> "edited", grants |-> file.grants, link |-> link]
    /\ durable' = file'
    /\ UNCHANGED <<journal, memory, client, faults>>

Step == Finish \/ Reject \/ Authorize \/ Accept \/ Refuse \/ Validate \/ SavePrevious
        \/ Replace \/ Publish \/ SyncParent \/ Settle \/ Settled
Next ==
    \/ \E mode \in {"online", "offline", "admin"} : Start(mode)
    \/ Crash \/ PowerLoss \/ WriteBack
    \/ \E c \in Commands : Snapshot(c) \/ Enter(c)
    \/ Step \/ Fails \/ AdminSave \/ ManualEdit
Spec == Init /\ [][Next]_vars

-----------------------------------------------------------------------------
(***************************************************************************)
(* Properties.                                                              *)
(***************************************************************************)

\* A command that the journal rejects is not what the file holds: recovery
\* never refuses a save that happened (RecoveryRequired is not a rejection).
RejectedIsNotStored == \A c \in Commands : row[c] = "rejected" => file.content # c

\* A command is reported done only from a file that holds exactly what it
\* wrote: an edited file is no proof, whatever link it carries.
CompletionNeedsItsFile ==
    \A c \in Commands : row[c] # "completed" /\ row'[c] = "completed" => file.content = c

\* Whenever the gate is free, new sessions are given what is on the disk,
\* even after a failed or half-finished save.
PublishedIsStored == up \in {"online", "offline"} /\ pc = "idle" => published = file

\* A reply is never ahead of the journal: "saved" and a replay name a settled row.
RepliesAreSettled ==
    \A c \in Commands : /\ reply[c] = "saved" => row[c] = "completed"
                        /\ reply[c] \in {"replayed", "reused"} => row[c] \in {"completed", "rejected"}

\* An open row belongs to the running authority: no start leaves one behind.
OldRowsAreSettled ==
    up # "down" /\ ~Opening => \A c \in Commands : row[c] = "accepted" => rowGen[c] = gen

\* Once the stored policy has no grants, nothing is replaced online.
RevocationHolds ==
    file' # file /\ up = "online" /\ up' = "online" => file.grants

\* The authority is a register under compare-and-swap, through every crash
\* and failing step: no update is lost and no decided outcome changes.
Outcome(c) == CASE row[c] = "rejected" -> "refused"
                [] row[c] = "completed" \/ (row[c] = "accepted" /\ LinkProves(file)
                                             /\ file.link.command = c) -> "saved"
                [] OTHER -> "open"
Register == INSTANCE ConfigRegister WITH
    version <- Version(file), outcome <- [c \in Commands |-> Outcome(c)], Unknown <- None
ImplementsRegister == Register!Spec

\* What the authority promises of a save, all together: journal, file, replies and
\* published configuration tell one story, and completion and revocation hold.
SavesAreSettled ==
    /\ [](/\ TypeOK /\ RejectedIsNotStored /\ PublishedIsStored
          /\ RepliesAreSettled /\ OldRowsAreSettled)
    /\ [][CompletionNeedsItsFile /\ RevocationHolds]_vars

\* "The synced configuration commit link proves persistence": what the journal
\* reports done survives the loss of power.
DoneIsDurable ==
    \A c \in Commands : row[c] = "completed" /\ file.content = c => durable.content = c
=============================================================================
