------------------------------ MODULE MCStartup ------------------------------
(* Instances of Startup for TLC: an old binary with two migrations and new ones *)
(* with three.                                                                *)
EXTENDS Startup, TLC

CONSTANT Old

OldAndNew == [p \in Starters |-> IF p = Old THEN 2 ELSE 3]
=============================================================================
