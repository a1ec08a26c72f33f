--------------------------- MODULE MCStreamBuffer ---------------------------
(* A ring of 64 bytes with a wrap space of 24, and samples of both widths,  *)
(* mono and stereo, by the bytes of a frame.  The lengths end before the    *)
(* ring does, in the wrap space (70 to 87 bytes) and in the second round.   *)
EXTENDS StreamBuffer
MCSample(b, c, bytes) == [bytes : {b}, channels : {c}, length : {n \div (b * c) : n \in bytes}]
MCSamples == MCSample(3, 2, {6, 80, 126, 138}) \cup MCSample(2, 2, {4, 70, 128})
        \cup MCSample(3, 1, {3, 81}) \cup MCSample(2, 1, {2, 18})
=============================================================================
