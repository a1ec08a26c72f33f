--------------------------- MODULE MCSuspension ---------------------------
(* Instances of Suspension for TLC: two editors and two regions.            *)
EXTENDS Suspension
CONSTANTS e1, e2, r1, r2
MCEditor == {e1, e2}
MCRegion == {r1, r2}
=============================================================================
