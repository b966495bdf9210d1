---------------------------- MODULE ConfigRegister ----------------------------
(***************************************************************************)
(* What the configuration authority promises: one register, changed by     *)
(* compare-and-swap.  A command replaces the version its operator saw or   *)
(* is refused; once decided, its outcome does not change.                   *)
(***************************************************************************)
EXTENDS Naturals

CONSTANTS Commands, Unknown

VARIABLES
    version,   \* the stored version: a revision and the origin of its content
    expected,  \* command -> the version its candidate was made from
    outcome    \* command -> open, saved or refused

vars == <<version, expected, outcome>>

Init ==
    /\ version = [rev |-> 0, content |-> "initial"]
    /\ expected = [c \in Commands |-> Unknown]
    /\ outcome = [c \in Commands |-> "open"]

Prepare(c) ==
    /\ expected[c] = Unknown
    /\ expected' = [expected EXCEPT ![c] = version]
    /\ UNCHANGED <<version, outcome>>

Save(c) ==
    /\ outcome[c] = "open" /\ expected[c] = version
    /\ outcome' = [outcome EXCEPT ![c] = "saved"]
    /\ version' = [rev |-> version.rev + 1, content |-> c]
    /\ UNCHANGED expected

Refuse(C) ==
    /\ \A c \in C : outcome[c] = "open"
    /\ outcome' = [c \in Commands |-> IF c \in C THEN "refused" ELSE outcome[c]]
    /\ UNCHANGED <<version, expected>>

\* the stopped board's own editor
Edit ==
    /\ version' = [rev |-> version.rev + 1, content |-> "admin"]
    /\ UNCHANGED <<expected, outcome>>

Next ==
    \/ \E c \in Commands : Prepare(c) \/ Save(c)
    \/ \E C \in SUBSET Commands : Refuse(C)
    \/ Edit

Spec == Init /\ [][Next]_vars
=============================================================================
