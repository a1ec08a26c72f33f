------------------------ MODULE MCInstrumentChange ------------------------
(* Two channels on devices with cycles of 1 and 2, two instruments of one  *)
(* region each, which share a sample, in one file.                         *)
EXTENDS InstrumentChange, TLC
CONSTANTS c1, c2, r1, r2, s1, s2
MCChannel == {c1, c2}
MCIndex == {1, 2}
MCRegion == {r1, r2}
MCSample == {s1, s2}
MCRegionsOf == (1 :> {r1}) @@ (2 :> {r2})
MCSampleOf == (r1 :> s1) @@ (r2 :> s1)
MCCycleSize == (c1 :> 1) @@ (c2 :> 2)
MCVoice == {1, 2}

\* States after the first disorder are reached, but not followed any further: the
\* properties claim nothing of them, nor of the states that come after them.
Claimed == ~ disorder
=============================================================================
