----------------------------- MODULE MCSampler -----------------------------
(* Sampler on five small instances that exercise it from different sides.  *)
EXTENDS Sampler, TLC

Instance(c, t, d, p, k, th) ==
    [channels |-> c, types |-> t, devices |-> d, ports |-> p, commands |-> k, threads |-> th,
     fails |-> th # {"midi"}]

Lifecycle == {"AddChannel", "RemoveChannel", "SetEngineType"}
Audio     == {"SetAudioOutputDevice", "CreateAudioOutputDevice", "DestroyAudioOutputDevice"}
Ports     == {"CreateMidiInputDevice", "DestroyMidiInputDevice", "AddChannelMidiInput",
              "RemoveChannelMidiInput", "SetMidiInput", "SetMidiInputChannel"}

MCScenarios == {
    \* two channels share engines on one of two devices, under audio threads
    Instance({"c1", "c2"}, {"gig"}, {"d1", "d2"}, {}, Lifecycle \cup Audio, {"audio"}),
    \* a channel changes its engine type beside another one
    Instance({"c1", "c2"}, {"gig", "sfz"}, {"d1"}, {},
             (Lifecycle \ {"RemoveChannel"}) \cup {"SetAudioOutputDevice", "CreateAudioOutputDevice",
                                                  "SetUnknownEngineType"}, {"audio", "stats"}),
    \* MIDI events and commands
    Instance({"c1"}, {"gig", "sfz"}, {"d1"}, {"p1", "p2"},
             Lifecycle \cup Ports \cup {"SetAudioOutputDevice", "CreateAudioOutputDevice"}, {"midi"}),
    \* two channels and an engine that listens to SysEx messages
    Instance({"c1", "c2"}, {"gig"}, {"d1", "d2"}, {"p1"},
             Lifecycle \cup {"SetAudioOutputDevice", "CreateAudioOutputDevice", "CreateMidiInputDevice",
                             "AddChannelMidiInput"}, {"midi"}),
    \* mute and solo
    Instance({"c1", "c2", "c3"}, {"gig", "sfz"}, {}, {},
             Lifecycle \cup {"SetChannelMute", "SetChannelSolo", "SetUnknownEngineType"}, {})}
=============================================================================
