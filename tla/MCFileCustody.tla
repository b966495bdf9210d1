---------------------------- MODULE MCFileCustody ----------------------------
(* An instance of FileCustody for TLC. *)
EXTENDS FileCustody

\* the scanner does not always answer the same
Unsure == [c \in Contents |-> {"clean", "bad"}]
=============================================================================
