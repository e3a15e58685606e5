------------------------------- MODULE MCPgTx --------------------------------
(* Instances of PgTx for TLC. *)
EXTENDS PgTx, TLC

SameKey == [p \in Shells |-> 1]

\* AUTH_BCRYPT_COST was raised between the starts of the two processes.
RaisedCost == [p \in Shells |-> IF p = CHOOSE q \in Shells : TRUE THEN 1 ELSE 2]
=============================================================================
