--------------------------- MODULE MCAuthService ----------------------------
(* Instances of AuthService for TLC. *)
EXTENDS AuthService

\* All processes share one .env file.
SameKey == [p \in Shells |-> 1]
SameCost == [p \in Shells |-> 1]

\* AUTH_SECRET_KEY was changed and AUTH_BCRYPT_COST raised between the starts of
\* the two processes.
OneOf == CHOOSE p \in Shells : TRUE
RotatedKey == [p \in Shells |-> IF p = OneOf THEN 1 ELSE 2]
RaisedCost == [p \in Shells |-> IF p = OneOf THEN 1 ELSE 2]
=============================================================================
