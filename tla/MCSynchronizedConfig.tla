----------------------- MODULE MCSynchronizedConfig -----------------------
(* Instances of SynchronizedConfig for TLC. *)
EXTENDS SynchronizedConfig, TLC

CONSTANTS r1, r2, f1, f2, v1, v2

MCReader == {r1, r2}
MCField  == {f1, f2}
MCValue  == {v1, v2}
\* lockCount is odd: the first reader locks twice, the other one once.
MCMaxLock == r1 :> 5 @@ r2 :> 3
=============================================================================
