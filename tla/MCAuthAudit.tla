---------------------------- MODULE MCAuthAudit -----------------------------
(* Instances of AuthAudit for TLC. *)
EXTENDS AuthAudit, TLC

SameKey == [p \in Shells |-> 1]
SameCost == [p \in Shells |-> 1]
=============================================================================
