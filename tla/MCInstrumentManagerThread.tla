--------------------- MODULE MCInstrumentManagerThread ---------------------
(* Instances of InstrumentManagerThread for TLC: two engine channels.       *)
EXTENDS InstrumentManagerThread
CONSTANTS ch1, ch2
MCChannel == {ch1, ch2}
=============================================================================
