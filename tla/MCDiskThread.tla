--------------------------- MODULE MCDiskThread ---------------------------
(* Instances of DiskThread for TLC: two voices and two streams.             *)
EXTENDS DiskThread
CONSTANTS v1, v2, s1, s2
MCVoice == {v1, v2}
MCStream == {s1, s2}
=============================================================================
