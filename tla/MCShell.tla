------------------------------- MODULE MCShell -------------------------------
(* Instances of Shell for TLC. *)
EXTENDS Shell, LoginRefinement, TLC

SameKey == [p \in Shells |-> 1]
SameCost == [p \in Shells |-> 1]

\* AUTH_SECRET_KEY was changed between the starts of the two processes.
RotatedKey == [p \in Shells |-> IF p = CHOOSE q \in Shells : TRUE THEN 1 ELSE 2]
=============================================================================
