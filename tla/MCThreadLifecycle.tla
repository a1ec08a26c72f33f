------------------------- MODULE MCThreadLifecycle -------------------------
(* Instances of ThreadLifecycle for TLC: one controller that starts and     *)
(* stops several threads in succession, or one that starts and one that     *)
(* stops them.                                                              *)
EXTENDS ThreadLifecycle
CONSTANTS c1, c2
First  == {c1}
Second == {c2}
=============================================================================
