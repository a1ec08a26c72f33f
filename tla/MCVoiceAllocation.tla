------------------------- MODULE MCVoiceAllocation -------------------------
(* Two channels share two voices and two keys; in each scenario they are   *)
(* sent notes and some of the controllers, two messages in each fragment.  *)
EXTENDS VoiceAllocation, TLC

McKeys == {0, 1}
McLayers == [k \in McKeys |-> 2 - k]
McOnOff(ks) == [type : {"on", "off"}, key : ks]
McControllers(types) == [type : types, key : {NoKey}]
McSustain == McControllers({"sustainDown", "sustainUp"})
McPedals == McSustain \cup McControllers({"sostenutoDown", "sostenutoUp", "reset", "notesOff"})
McModes == McControllers({"mono", "poly"})
McScenarios ==
    {[receives |-> <<McOnOff({1}) \cup McPedals, {}>>, mutes |-> {}],
     [receives |-> <<McOnOff({1}) \cup McSustain, {}>>, mutes |-> {1}],
     [receives |-> <<McOnOff({1}) \cup McControllers({"soundOff"}), McOnOff({1})>>, mutes |-> {1}],
     [receives |-> <<McOnOff(McKeys) \cup McModes, {}>>, mutes |-> {}],
     [receives |-> <<McOnOff(McKeys), McOnOff({1})>>, mutes |-> {}]}
McSymmetry == Permutations(Voices) \cup Permutations(Notes)
=============================================================================
