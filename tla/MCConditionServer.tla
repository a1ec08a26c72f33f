------------------------- MODULE MCConditionServer -------------------------
(* Instances of ConditionServer for TLC. *)
EXTENDS ConditionServer

CONSTANTS t1, t2, t3

MCThread  == {t1, t2, t3}
MCThread2 == {t1, t2}
=============================================================================
