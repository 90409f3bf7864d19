------------------------------ MODULE MCYatPool ------------------------------
(* Instances of YatPool for TLC.                                           *)
EXTENDS YatPool

CONSTANTS t1, t2

\* No task submits another one.
NoSpawns == [t \in Tasks |-> {}]

\* The function of t1 submits t2.
OneSpawner == [t \in Tasks |-> IF t = t1 THEN {t2} ELSE {}]
=============================================================================
