------------------------------- MODULE Sampler -------------------------------
(***************************************************************************)
(* Sampler channels and what they are connected to.                        *)
(*                                                                         *)
(* A sampler channel has an engine channel of some engine type, an audio   *)
(* output device and MIDI input ports.  All engine channels of one type on *)
(* one device share an engine, which the device renders.  The LSCP thread  *)
(* changes these connections, one command after the other, while           *)
(*   - the audio thread of each device renders the engines of the device,  *)
(*   - the thread of each MIDI port calls the engine channels mapped to    *)
(*     the port, and, for SysEx messages, all engines,                     *)
(*   - the main thread takes statistics of all channels.                   *)
(* None of them may meet an engine or an engine channel that is gone, or   *)
(* an engine whose list of channels is just being changed.                 *)
(*                                                                         *)
(* The sets of engines and of MIDI connections are SynchronizedConfigs: a  *)
(* reader that is under way keeps what it has begun with, and the writer   *)
(* goes on only after such readers have left (module GracePeriod).  Here a *)
(* reader that has begun before the last change is marked "old", and the   *)
(* LSCP thread waits for it before its next step (Settled).                *)
(***************************************************************************)
EXTENDS Naturals, FiniteSets

CONSTANTS
    Channels,       \* numbers of sampler channels
    EngineTypes,    \* "gig", "sf2", "sfz"
    AudioDevices,   \* audio output devices
    MidiPorts,      \* MIDI input devices, of one port each
    MidiChannels,   \* MIDI channels an engine channel may listen to
    AnyChannel,     \* midi_chan_all, with which an engine channel begins
    None,           \* NULL
    Scenarios       \* what is used together in one behaviour

ASSUME SamplerAssumption ==
    /\ AnyChannel \in MidiChannels
    /\ None \notin Channels \cup EngineTypes \cup AudioDevices
                 \cup (Channels \X EngineTypes) \cup (EngineTypes \X AudioDevices)

VARIABLES
    scenario,   \* the channels, types, devices, ports, commands and threads of this behaviour
    channels,   \* mSamplerChannels
    chan,       \* per channel: type of pEngineChannel, pAudioOutputDevice, vMidiInputs, midiChannel
    ec,         \* per engine channel: pEngine (by its device), midiInputs, midiChannel, iMute, bSolo
    devices,    \* existing audio output devices
    ports,      \* existing MIDI input devices
    engines,    \* AbstractEngine::engines: by type and device
    orphans,    \* engines whose connection has failed: only the EngineFactory still knows them
    members,    \* per engine: engineChannels
    disabled,   \* engines which the LSCP thread has disabled
    rendered,   \* per audio device: Engines
    map,        \* per MIDI port: MidiChannelMap, pairs of an engine channel and a MIDI channel
    sysex,      \* SysexListeners
    listening,  \* engine channels with a MIDI listener of the LSCP server
    audio,      \* per audio device: the audio thread
    midi,       \* per MIDI port: the MIDI thread
    stats,      \* the main thread, in Sampler::fireStatistics()
    rt,         \* owner of LSCPServer::RTNotifyMutex
    op,         \* the command the LSCP thread executes
    failed,     \* history: channels whose last Connect() to a device has failed
    crashed     \* the program has called GetMidiMode() of a NULL engine

lists   == <<engines, orphans, members, disabled, rendered, sysex>>
threads == <<audio, midi, stats>>
vars    == <<scenario, channels, chan, ec, devices, ports, lists, map, listening, threads, rt, op,
             failed, crashed>>

EngineChannels == Channels \X EngineTypes
Engines        == EngineTypes \X AudioDevices

Fresh == [type |-> None, device |-> None, remembered |-> {}, midi |-> AnyChannel]
NoEngineChannel == [exists |-> FALSE, engine |-> None, inputs |-> {}, midi |-> AnyChannel,
                    mute |-> "off", solo |-> FALSE]
NoCommand == [cmd |-> "none", step |-> "", chan |-> None, type |-> None, device |-> None,
              ports |-> {}, left |-> {}, engine |-> None]
Quiet == [reading |-> FALSE, todo |-> {}, at |-> None, old |-> FALSE]
NoEvent == [kind |-> "none", todo |-> {}, at |-> None, engine |-> None, old |-> FALSE]
NoStatistics == [todo |-> {}, at |-> None, engine |-> None]

----------------------------------------------------------------------------
(* What a channel is connected to.                                         *)

HasEC(c)    == chan[c].type # None
Current(c)  == <<c, chan[c].type>>
EngineOf(x) == IF ec[x].engine = None THEN None ELSE <<x[2], ec[x].engine>>
\* SamplerChannel::GetMidiInputPorts()
Inputs(c)   == IF HasEC(c) THEN ec[Current(c)].inputs ELSE chan[c].remembered \cap ports
\* LSCPServer::HasSoloChannel()
HasSolo     == \E c \in channels : HasEC(c) /\ ec[Current(c)].solo

(* Mutant: nobody waits for the MIDI threads.                              *)
Settled_Audio == \A d \in AudioDevices : ~audio[d].old

(* SynchronizedConfig::SwitchConfig() has returned: no reader is under way *)
(* that has begun before the last change.                                  *)
Settled == (\A d \in AudioDevices : ~audio[d].old) /\ (\A p \in MidiPorts : ~midi[p].old)
Idle    == op = NoCommand /\ Settled
Can(command) == ~crashed /\ Idle /\ command \in scenario.commands

(* AudioOutputDevice::Connect() and Disconnect().                          *)
Render(d, e) == rendered' = [rendered EXCEPT ![d] = @ \cup {e}] /\ UNCHANGED audio
Unrender(d, e) ==
    /\ rendered' = [rendered EXCEPT ![d] = @ \ {e}]
    /\ audio' = [audio EXCEPT ![d].old = audio[d].reading /\ e \in rendered[d]]

(* Mutant: other connections of the engine channel stay.                   *)
Remapped_Added(p, x, P, m) == map[p] \cup (IF p \in P THEN {<<x, m>>} ELSE {})

(* MidiInputPort::Connect() and Disconnect(): engine channel x is          *)
(* connected to exactly the ports P, at MIDI channel m.                    *)
Remapped(p, x, P, m) ==
    {y \in map[p] : y[1] # x} \cup (IF p \in P THEN {<<x, m>>} ELSE {})
Remap(x, P, m) ==
    /\ map' = [p \in MidiPorts |-> Remapped(p, x, P, m)]
    /\ midi' = [p \in MidiPorts |->
           [midi[p] EXCEPT !.old = midi[p].kind = "event" /\ map[p] # Remapped(p, x, P, m)]]

(* Mutant: the LSCP server keeps the listener.                             *)
EngineToBeChanged_Kept(c) == UNCHANGED listening

(* The LSCP server takes its MIDI listener away from the engine channel.   *)
EngineToBeChanged(c) == listening' = listening \ {Current(c)}

----------------------------------------------------------------------------
(* Commands that create and destroy.                                       *)

AddChannel(c) ==
    /\ Can("AddChannel") /\ rt = "free" /\ c \in scenario.channels \ channels
    /\ channels' = channels \cup {c}
    /\ UNCHANGED <<scenario, chan, ec, devices, ports, lists, map, listening, threads, rt, op, failed,
                   crashed>>

(* Sampler::RemoveSamplerChannel(): the listeners are told, the channel is *)
(* erased, and its destructor takes the connections apart.                 *)
RemoveChannel(c) ==
    /\ Can("RemoveChannel") /\ rt = "free" /\ c \in channels
    /\ channels' = channels \ {c}
    /\ EngineToBeChanged(c)
    /\ IF HasEC(c)
       THEN /\ op' = [NoCommand EXCEPT !.cmd = "RemoveChannel", !.step = "unrender", !.chan = c]
            /\ rt' = "lscp"
            /\ UNCHANGED <<chan, failed>>
       ELSE /\ chan' = [chan EXCEPT ![c] = Fresh]
            /\ failed' = failed \ {c}
            /\ UNCHANGED <<op, rt>>
    /\ UNCHANGED <<scenario, ec, devices, ports, lists, map, threads, crashed>>

CreateAudioOutputDevice(d) ==
    /\ Can("CreateAudioOutputDevice") /\ d \in scenario.devices \ devices
    /\ devices' = devices \cup {d}
    /\ UNCHANGED <<scenario, channels, chan, ec, ports, lists, map, listening, threads, rt, op, failed,
                   crashed>>

(* Refused while a channel names the device.  Stop() waits for the audio   *)
(* thread.                                                                 *)
DestroyAudioOutputDevice(d) ==
    /\ Can("DestroyAudioOutputDevice") /\ d \in devices
    /\ \A c \in channels : chan[c].device # d
    /\ ~audio[d].reading
    /\ devices' = devices \ {d}
    /\ UNCHANGED <<scenario, channels, chan, ec, ports, lists, map, listening, threads, rt, op, failed,
                   crashed>>

CreateMidiInputDevice(p) ==
    /\ Can("CreateMidiInputDevice") /\ p \in scenario.ports \ ports
    /\ ports' = ports \cup {p}
    /\ UNCHANGED <<scenario, channels, chan, ec, devices, lists, map, listening, threads, rt, op, failed,
                   crashed>>

(* Refused while a channel is connected to it.  StopListen() waits for the *)
(* MIDI thread.                                                            *)
DestroyMidiInputDevice(p) ==
    /\ Can("DestroyMidiInputDevice") /\ p \in ports
    /\ \A c \in channels : p \notin Inputs(c)
    /\ midi[p].kind = "none"
    /\ ports' = ports \ {p}
    /\ UNCHANGED <<scenario, channels, chan, ec, devices, lists, map, listening, threads, rt, op, failed,
                   crashed>>

----------------------------------------------------------------------------
(* Commands that change an engine channel's engine type or audio device.   *)

SetEngineType(c, t) ==
    /\ Can("SetEngineType") /\ rt = "free"
    /\ c \in channels /\ t \in scenario.types \ {chan[c].type}
    /\ EngineToBeChanged(c)
    /\ ec' = [ec EXCEPT ![<<c, t>>] = [NoEngineChannel EXCEPT !.exists = TRUE]]
    /\ op' = [NoCommand EXCEPT !.cmd = "SetEngineType", !.chan = c, !.type = t,
                               !.step = IF HasEC(c) THEN "unrender" ELSE "acquire",
                               !.ports = Inputs(c)]
    /\ chan' = [chan EXCEPT ![c].midi = IF HasEC(c) THEN ec[Current(c)].midi ELSE @]
    /\ rt' = "lscp"
    /\ UNCHANGED <<scenario, channels, devices, ports, lists, map, threads, failed, crashed>>

(* The type the channel has already: SetEngineType() returns at once, the  *)
(* LSCP server goes on.                                                    *)
SetSameEngineType(c) ==
    /\ Can("SetEngineType") /\ rt = "free" /\ c \in channels /\ HasEC(c) /\ HasSolo
    /\ ec' = [ec EXCEPT ![Current(c)].mute = "solo"]
    /\ UNCHANGED <<scenario, channels, chan, devices, ports, lists, map, listening, threads, rt, op,
                   failed, crashed>>

(* An unknown type is refused after the listeners have been told.          *)
SetUnknownEngineType(c) ==
    /\ Can("SetUnknownEngineType") /\ rt = "free" /\ c \in channels
    /\ EngineToBeChanged(c)
    /\ UNCHANGED <<scenario, channels, chan, ec, devices, ports, lists, map, threads, rt, op, failed,
                   crashed>>

SetAudioOutputDevice(c, d) ==
    /\ Can("SetAudioOutputDevice") /\ rt = "free"
    /\ c \in channels /\ d \in devices \ {chan[c].device}
    /\ IF HasEC(c)
       THEN /\ op' = [NoCommand EXCEPT !.cmd = "SetAudioOutputDevice", !.chan = c,
                                       !.type = chan[c].type, !.device = d,
                                       !.step = IF chan[c].device = None THEN "destroy" ELSE "unrender"]
            /\ rt' = "lscp"
            /\ UNCHANGED chan
       ELSE /\ chan' = [chan EXCEPT ![c].device = d]
            /\ UNCHANGED <<op, rt>>
    /\ UNCHANGED <<scenario, channels, ec, devices, ports, lists, map, listening, threads, failed, crashed>>

----------------------------------------------------------------------------
(* Their steps.  The first ones take the old connection apart.             *)

Running(step) == ~crashed /\ Settled /\ op.step = step
Old  == Current(op.chan)
New  == <<op.chan, op.type>>
GoTo(step) == op' = [op EXCEPT !.step = step]

(* The device no longer renders the engine, not for its other channels     *)
(* either.                                                                 *)
UnrenderEngine ==
    /\ Running("unrender")
    /\ LET e == EngineOf(Old)  d == chan[op.chan].device IN
       /\ op' = [op EXCEPT !.engine = e,
                           !.step = IF op.cmd = "SetAudioOutputDevice" THEN "leave" ELSE "unmap"]
       /\ IF d = None \/ e = None THEN UNCHANGED <<rendered, audio>> ELSE Unrender(d, e)
    /\ UNCHANGED <<scenario, channels, chan, ec, devices, ports, engines, orphans, members, disabled,
                   sysex, map, listening, midi, stats, rt, failed, crashed>>

(* EngineChannel::DisconnectAllMidiInputPorts(): one port after the other. *)
ForgetPorts ==
    /\ Running("unmap")
    /\ op' = [op EXCEPT !.step = "unmapping", !.left = ec[Old].inputs]
    /\ ec' = [ec EXCEPT ![Old].inputs = {}]
    /\ UNCHANGED <<scenario, channels, chan, devices, ports, lists, map, listening, threads, rt, failed,
                   crashed>>

UnmapPort(p) ==
    /\ Running("unmapping") /\ p \in op.left
    /\ op' = [op EXCEPT !.left = @ \ {p}]
    /\ map' = [map EXCEPT ![p] = Remapped(p, Old, {}, None)]
    /\ midi' = [midi EXCEPT ![p].old = midi[p].kind = "event"]
    /\ UNCHANGED <<scenario, channels, chan, ec, devices, ports, lists, listening, audio, stats, rt,
                   failed, crashed>>

PortsUnmapped ==
    /\ Running("unmapping") /\ op.left = {}
    /\ GoTo("leave")
    /\ UNCHANGED <<scenario, channels, chan, ec, devices, ports, lists, map, listening, threads, rt,
                   failed, crashed>>

(* EngineChannel::DisconnectAudioOutputDevice() and FreeEngine(): the last *)
(* channel takes the engine with it, whose destructor ends by taking it    *)
(* from the SysEx listeners.                                               *)
LeaveEngine ==
    /\ Running("leave")
    /\ LET e == op.engine IN
       IF e = None THEN GoTo("destroy") /\ UNCHANGED <<ec, members, rendered, sysex, midi>>
       ELSE /\ ec' = [ec EXCEPT ![Old].engine = None]
            /\ members' = [members EXCEPT ![e] = @ \ {Old}]
            /\ IF members'[e] = {}
               THEN /\ rendered' = [rendered EXCEPT ![e[2]] = @ \ {e}]
                    /\ sysex' = sysex \ {e}
                    /\ midi' = [p \in MidiPorts |-> [midi[p] EXCEPT !.old = midi[p].kind = "sysex"]]
                    /\ GoTo("delete")
               ELSE GoTo("destroy") /\ UNCHANGED <<rendered, sysex, midi>>
    /\ UNCHANGED <<scenario, channels, chan, devices, ports, engines, orphans, disabled, map, listening,
                   audio, stats, rt, failed, crashed>>

DeleteEngine ==
    /\ Running("delete")
    /\ engines' = engines \ {op.engine}
    /\ GoTo("destroy")
    /\ UNCHANGED <<scenario, channels, chan, ec, devices, ports, orphans, members, disabled, rendered,
                   sysex, map, listening, threads, rt, failed, crashed>>

(* The engine channel is destroyed, or takes note of its new device; the   *)
(* old device renders the engine again if it still exists.                 *)
DestroyEngineChannel ==
    /\ Running("destroy")
    /\ IF op.engine \in engines THEN Render(chan[op.chan].device, op.engine)
                                ELSE UNCHANGED <<rendered, audio>>
    /\ CASE op.cmd = "SetAudioOutputDevice" ->
              /\ chan' = [chan EXCEPT ![op.chan].device = op.device]
              /\ GoTo("acquire")
              /\ UNCHANGED <<ec, rt, failed>>
         [] op.cmd = "SetEngineType" ->
              /\ chan' = [chan EXCEPT ![op.chan].type = None]
              /\ ec' = [ec EXCEPT ![Old] = NoEngineChannel]
              /\ GoTo("acquire")
              /\ UNCHANGED <<rt, failed>>
         [] op.cmd = "RemoveChannel" ->
              /\ chan' = [chan EXCEPT ![op.chan] = Fresh]
              /\ ec' = [ec EXCEPT ![Old] = NoEngineChannel]
              /\ failed' = failed \ {op.chan}
              /\ op' = NoCommand /\ rt' = "free"
    /\ UNCHANGED <<scenario, channels, devices, ports, engines, orphans, members, disabled, sysex, map,
                   listening, midi, stats, crashed>>

(* The others build the new connection.  AcquireEngine() disables an       *)
(* engine that is in use, and waits for the audio thread to leave it.      *)
NoDevice ==
    /\ Running("acquire") /\ chan[op.chan].device = None
    /\ GoTo("finish")
    /\ UNCHANGED <<scenario, channels, chan, ec, devices, ports, lists, map, listening, threads, rt,
                   failed, crashed>>

(* Mutant: the engine is not looked up before it is disabled.              *)
AcquireEngine_Unchecked ==
    /\ Running("acquire") /\ chan[op.chan].device # None
    /\ LET e == <<op.type, chan[op.chan].device>> IN
       /\ op' = [op EXCEPT !.engine = e, !.step = "await"]
       /\ disabled' = disabled \cup {e}
    /\ UNCHANGED <<scenario, channels, chan, ec, devices, ports, engines, orphans, members, rendered,
                   sysex, map, listening, threads, rt, failed, crashed>>

AcquireEngine ==
    /\ Running("acquire") /\ chan[op.chan].device # None
    /\ LET e == <<op.type, chan[op.chan].device>> IN
       /\ e \in engines
       /\ op' = [op EXCEPT !.engine = e, !.step = "await"]
       /\ disabled' = disabled \cup {e}
    /\ UNCHANGED <<scenario, channels, chan, ec, devices, ports, engines, orphans, members, rendered,
                   sysex, map, listening, threads, rt, failed, crashed>>

(* Mutant: no wait for the audio thread.                                   *)
EngineDisabled_AtOnce ==
    /\ Running("await")
    /\ GoTo("join")
    /\ UNCHANGED <<scenario, channels, chan, ec, devices, ports, lists, map, listening, threads, rt,
                   failed, crashed>>

EngineDisabled ==
    /\ Running("await") /\ \A d \in AudioDevices : audio[d].at # op.engine
    /\ GoTo("join")
    /\ UNCHANGED <<scenario, channels, chan, ec, devices, ports, lists, map, listening, threads, rt,
                   failed, crashed>>

CreateEngine ==
    /\ Running("acquire") /\ chan[op.chan].device # None
    /\ LET e == <<op.type, chan[op.chan].device>> IN
       /\ e \notin engines
       /\ engines' = engines \cup {e}
       /\ op' = [op EXCEPT !.engine = e, !.step = "join"]
    /\ UNCHANGED <<scenario, channels, chan, ec, devices, ports, orphans, members, disabled, rendered,
                   sysex, map, listening, threads, rt, failed, crashed>>

(* Engine::Connect() throws, for instance because the device cannot        *)
(* provide two audio channels.  The engine is left to the EngineFactory.   *)
CreateEngineFails ==
    /\ scenario.fails
    /\ Running("acquire") /\ chan[op.chan].device # None
    /\ LET e == <<op.type, chan[op.chan].device>> IN
       /\ e \notin engines
       /\ orphans' = orphans \cup {e}
    /\ ec' = IF op.cmd = "SetEngineType" THEN [ec EXCEPT ![New] = NoEngineChannel] ELSE ec
    /\ failed' = IF op.cmd = "SetEngineType" THEN failed ELSE failed \cup {op.chan}
    /\ op' = NoCommand /\ rt' = "free"
    /\ UNCHANGED <<scenario, channels, chan, devices, ports, engines, members, disabled, rendered, sysex,
                   map, listening, threads, crashed>>

(* Mutant: the engine is not enabled again.                                *)
JoinEngine_Disabled ==
    /\ Running("join")
    /\ ec' = [ec EXCEPT ![New].engine = op.engine[2]]
    /\ members' = [members EXCEPT ![op.engine] = @ \cup {New}]
    /\ sysex' = sysex \cup {op.engine}
    /\ GoTo("render")
    /\ UNCHANGED <<scenario, channels, chan, devices, ports, engines, orphans, disabled, rendered, map,
                   listening, threads, rt, failed, crashed>>

JoinEngine ==
    /\ Running("join")
    /\ ec' = [ec EXCEPT ![New].engine = op.engine[2]]
    /\ members' = [members EXCEPT ![op.engine] = @ \cup {New}]
    /\ disabled' = disabled \ {op.engine}
    /\ sysex' = sysex \cup {op.engine}
    /\ GoTo("render")
    /\ UNCHANGED <<scenario, channels, chan, devices, ports, engines, orphans, rendered, map, listening,
                   threads, rt, failed, crashed>>

RenderEngine ==
    /\ Running("render")
    /\ Render(chan[op.chan].device, op.engine)
    /\ GoTo("finish")
    /\ UNCHANGED <<scenario, channels, chan, ec, devices, ports, engines, orphans, members, disabled,
                   sysex, map, listening, midi, stats, rt, failed, crashed>>

FinishSetAudioOutputDevice ==
    /\ Running("finish") /\ op.cmd = "SetAudioOutputDevice"
    /\ op' = NoCommand /\ rt' = "free" /\ failed' = failed \ {op.chan}
    /\ UNCHANGED <<scenario, channels, chan, ec, devices, ports, lists, map, listening, threads, crashed>>

(* The new engine channel takes over the MIDI channel and the ports of the *)
(* old one, and is muted if another channel is solo.                       *)
FinishSetEngineType ==
    /\ Running("finish") /\ op.cmd = "SetEngineType"
    /\ chan[op.chan].midi = AnyChannel \/ ec[New].engine # None
    /\ chan' = [chan EXCEPT ![op.chan].type = op.type, ![op.chan].remembered = {}]
    /\ ec' = [ec EXCEPT ![New].midi = chan[op.chan].midi, ![New].inputs = op.ports,
                        ![New].mute = IF HasSolo THEN "solo" ELSE "off"]
    /\ Remap(New, op.ports, chan[op.chan].midi)
    /\ listening' = listening \cup {New}
    /\ failed' = failed \ {op.chan}
    /\ op' = NoCommand /\ rt' = "free"
    /\ UNCHANGED <<scenario, channels, devices, ports, lists, audio, stats, crashed>>

(* SetMidiChannel() of an engine channel that has no engine yet.           *)
FinishCrashes ==
    /\ Running("finish") /\ op.cmd = "SetEngineType"
    /\ chan[op.chan].midi # AnyChannel /\ ec[New].engine = None
    /\ crashed' = TRUE
    /\ UNCHANGED <<scenario, channels, chan, ec, devices, ports, lists, map, listening, threads, rt, op,
                   failed>>

----------------------------------------------------------------------------
(* Commands for the MIDI inputs.  Without an engine channel they are       *)
(* remembered for the next one.                                            *)

midiUnchanged == UNCHANGED <<scenario, channels, devices, ports, lists, listening, audio, stats, rt, op,
                             failed>>

(* An engine channel gets the ports P and the MIDI channel m.  If the MIDI *)
(* channel changes, it asks its engine for the MIDI mode.                  *)
Reconnect(x, P, m) ==
    IF m # ec[x].midi /\ ec[x].engine = None
    THEN crashed' = TRUE /\ UNCHANGED <<ec, map, midi>>
    ELSE /\ ec' = [ec EXCEPT ![x].inputs = P, ![x].midi = m]
         /\ Remap(x, P, m)
         /\ UNCHANGED crashed

AddChannelMidiInput(c, p) ==
    /\ Can("AddChannelMidiInput") /\ c \in channels /\ p \in ports \ Inputs(c)
    /\ IF HasEC(c)
       THEN Reconnect(Current(c), Inputs(c) \cup {p}, ec[Current(c)].midi) /\ UNCHANGED chan
       ELSE /\ chan' = [chan EXCEPT ![c].remembered = @ \cup {p}]
            /\ UNCHANGED <<ec, map, midi, crashed>>
    /\ midiUnchanged

RemoveChannelMidiInput(c, p) ==
    /\ Can("RemoveChannelMidiInput") /\ c \in channels /\ p \in Inputs(c)
    /\ IF HasEC(c)
       THEN Reconnect(Current(c), Inputs(c) \ {p}, ec[Current(c)].midi) /\ UNCHANGED chan
       ELSE /\ chan' = [chan EXCEPT ![c].remembered = @ \ {p}]
            /\ UNCHANGED <<ec, map, midi, crashed>>
    /\ midiUnchanged

SetMidiInputChannel(c, m) ==
    /\ Can("SetMidiInputChannel") /\ c \in channels
    /\ IF HasEC(c) THEN Reconnect(Current(c), Inputs(c), m) ELSE UNCHANGED <<ec, map, midi, crashed>>
    /\ chan' = IF crashed' THEN chan ELSE [chan EXCEPT ![c].midi = m]
    /\ midiUnchanged

(* The port p becomes the only one.                                        *)
SetMidiInput(c, p, m) ==
    /\ Can("SetMidiInput") /\ c \in channels /\ p \in ports
    /\ IF HasEC(c) THEN Reconnect(Current(c), {p}, m) ELSE UNCHANGED <<ec, map, midi, crashed>>
    /\ chan' = IF crashed' THEN chan
               ELSE [chan EXCEPT ![c].midi = m,
                                 ![c].remembered = IF HasEC(c) THEN @ ELSE {p}]
    /\ midiUnchanged

----------------------------------------------------------------------------
(* Mute and solo, by the LSCP server.  "solo" is the state -1: muted       *)
(* because another channel is solo.                                        *)

(* Mutant: a channel may be unmuted beside a solo channel.                 *)
SetChannelMute_Plain(c, mute) ==
    /\ Can("SetChannelMute") /\ c \in channels /\ HasEC(c)
    /\ ec' = [ec EXCEPT ![Current(c)].mute = IF mute THEN "on" ELSE "off"]
    /\ UNCHANGED <<scenario, channels, chan, devices, ports, lists, map, listening, threads, rt, op,
                   failed, crashed>>

SetChannelMute(c, mute) ==
    /\ Can("SetChannelMute") /\ c \in channels /\ HasEC(c)
    /\ ec' = [ec EXCEPT ![Current(c)].mute =
                 IF mute THEN "on" ELSE IF HasSolo /\ ~ec[Current(c)].solo THEN "solo" ELSE "off"]
    /\ UNCHANGED <<scenario, channels, chan, devices, ports, lists, map, listening, threads, rt, op,
                   failed, crashed>>

Others(x) == {Current(c) : c \in {k \in channels : HasEC(k)}} \ {x}

SetSolo(c) ==
    /\ Can("SetChannelSolo") /\ c \in channels /\ HasEC(c) /\ ~ec[Current(c)].solo
    /\ LET x == Current(c) IN
       ec' = [y \in EngineChannels |->
                CASE y = x -> [ec[x] EXCEPT !.solo = TRUE, !.mute = IF @ = "solo" THEN "off" ELSE @]
                  [] y \in Others(x) /\ ~HasSolo /\ ec[y].mute = "off" -> [ec[y] EXCEPT !.mute = "solo"]
                  [] OTHER -> ec[y]]
    /\ UNCHANGED <<scenario, channels, chan, devices, ports, lists, map, listening, threads, rt, op,
                   failed, crashed>>

UnsetSolo(c) ==
    /\ Can("SetChannelSolo") /\ c \in channels /\ HasEC(c) /\ ec[Current(c)].solo
    /\ LET x == Current(c)
           soloLeft == \E y \in Others(x) : ec[y].solo
       IN ec' = [y \in EngineChannels |->
                   CASE y = x /\ soloLeft ->
                          [ec[x] EXCEPT !.solo = FALSE, !.mute = IF @ = "off" THEN "solo" ELSE @]
                     [] y \in Others(x) \cup {x} /\ ~soloLeft ->
                          [ec[y] EXCEPT !.solo = FALSE, !.mute = IF @ = "solo" THEN "off" ELSE @]
                     [] OTHER -> ec[y]]
    /\ UNCHANGED <<scenario, channels, chan, devices, ports, lists, map, listening, threads, rt, op,
                   failed, crashed>>

----------------------------------------------------------------------------
(* The audio thread of device d: RenderAudio() of each connected engine.   *)

sampler == <<scenario, channels, chan, ec, devices, ports, lists, map, listening, op, failed, crashed>>

StartCycle(d) ==
    /\ ~crashed /\ "audio" \in scenario.threads /\ d \in devices /\ ~audio[d].reading
    /\ audio' = [audio EXCEPT ![d] = [Quiet EXCEPT !.reading = TRUE, !.todo = rendered[d]]]
    /\ UNCHANGED <<sampler, midi, stats, rt>>

(* Mutant: a disabled engine renders.                                      *)
EnterRenderAudio_Disabled(d, e) ==
    /\ audio[d].at = None /\ e \in audio[d].todo
    /\ audio' = [audio EXCEPT ![d].todo = @ \ {e}, ![d].at = e]
    /\ UNCHANGED <<sampler, midi, stats, rt>>

(* A disabled engine returns at once.                                      *)
EnterRenderAudio(d, e) ==
    /\ audio[d].at = None /\ e \in audio[d].todo
    /\ audio' = [audio EXCEPT ![d].todo = @ \ {e}, ![d].at = IF e \in disabled THEN None ELSE e]
    /\ UNCHANGED <<sampler, midi, stats, rt>>

LeaveRenderAudio(d) ==
    /\ audio[d].at # None
    /\ audio' = [audio EXCEPT ![d].at = None]
    /\ UNCHANGED <<sampler, midi, stats, rt>>

EndCycle(d) ==
    /\ audio[d].reading /\ audio[d].todo = {} /\ audio[d].at = None
    /\ audio' = [audio EXCEPT ![d] = Quiet]
    /\ UNCHANGED <<sampler, midi, stats, rt>>

----------------------------------------------------------------------------
(* The MIDI thread of port p: an event for the engine channels that listen *)
(* to a MIDI channel, or a SysEx message for all engines.                  *)

StartEvent(p, m) ==
    /\ ~crashed /\ "midi" \in scenario.threads /\ p \in ports /\ midi[p].kind = "none"
    /\ midi' = [midi EXCEPT ![p] =
           [NoEvent EXCEPT !.kind = "event",
                           !.todo = {y[1] : y \in {z \in map[p] : z[2] \in {m, AnyChannel}}}]]
    /\ UNCHANGED <<sampler, audio, stats, rt>>

StartSysex(p) ==
    /\ ~crashed /\ "midi" \in scenario.threads /\ p \in ports /\ midi[p].kind = "none"
    /\ midi' = [midi EXCEPT ![p] = [NoEvent EXCEPT !.kind = "sysex", !.todo = sysex]]
    /\ UNCHANGED <<sampler, audio, stats, rt>>

CallEngineChannel(p, x) ==
    /\ midi[p].kind = "event" /\ midi[p].at = None /\ x \in midi[p].todo
    /\ midi' = [midi EXCEPT ![p].todo = @ \ {x}, ![p].at = x, ![p].engine = EngineOf(x)]
    /\ UNCHANGED <<sampler, audio, stats, rt>>

CallEngine(p, e) ==
    /\ midi[p].kind = "sysex" /\ midi[p].at = None /\ e \in midi[p].todo
    /\ midi' = [midi EXCEPT ![p].todo = @ \ {e}, ![p].at = e, ![p].engine = e]
    /\ UNCHANGED <<sampler, audio, stats, rt>>

Return(p) ==
    /\ midi[p].at # None
    /\ midi' = [midi EXCEPT ![p].at = None, ![p].engine = None]
    /\ UNCHANGED <<sampler, audio, stats, rt>>

EndEvent(p) ==
    /\ midi[p].kind # "none" /\ midi[p].todo = {} /\ midi[p].at = None
    /\ midi' = [midi EXCEPT ![p] = NoEvent]
    /\ UNCHANGED <<sampler, audio, stats, rt>>

----------------------------------------------------------------------------
(* The main thread: Sampler::fireStatistics().                             *)

(* Mutant: the mutex is not taken.                                         *)
StartStatistics_Unlocked ==
    /\ ~crashed /\ "stats" \in scenario.threads /\ rt # "stats"
    /\ rt' = "stats"
    /\ stats' = [NoStatistics EXCEPT !.todo = channels]
    /\ UNCHANGED <<sampler, audio, midi>>

StartStatistics ==
    /\ ~crashed /\ "stats" \in scenario.threads /\ rt = "free"
    /\ rt' = "stats"
    /\ stats' = [NoStatistics EXCEPT !.todo = channels]
    /\ UNCHANGED <<sampler, audio, midi>>

ReadChannel(c) ==
    /\ rt = "stats" /\ stats.at = None /\ c \in stats.todo
    /\ stats' = IF HasEC(c) THEN [todo |-> stats.todo \ {c}, at |-> Current(c),
                                  engine |-> EngineOf(Current(c))]
                            ELSE [stats EXCEPT !.todo = @ \ {c}]
    /\ UNCHANGED <<sampler, audio, midi, rt>>

ChannelRead ==
    /\ stats.at # None
    /\ stats' = [stats EXCEPT !.at = None, !.engine = None]
    /\ UNCHANGED <<sampler, audio, midi, rt>>

EndStatistics ==
    /\ rt = "stats" /\ stats = NoStatistics
    /\ rt' = "free"
    /\ UNCHANGED <<sampler, audio, midi, stats>>

----------------------------------------------------------------------------
Init ==
    /\ scenario \in Scenarios
    /\ channels = {} /\ chan = [c \in Channels |-> Fresh]
    /\ ec = [x \in EngineChannels |-> NoEngineChannel]
    /\ devices = {} /\ ports = {}
    /\ engines = {} /\ orphans = {} /\ members = [e \in Engines |-> {}] /\ disabled = {}
    /\ rendered = [d \in AudioDevices |-> {}]
    /\ map = [p \in MidiPorts |-> {}] /\ sysex = {} /\ listening = {}
    /\ audio = [d \in AudioDevices |-> Quiet] /\ midi = [p \in MidiPorts |-> NoEvent]
    /\ stats = NoStatistics
    /\ rt = "free" /\ op = NoCommand /\ failed = {} /\ crashed = FALSE

Command ==
    \/ \E c \in Channels : \/ AddChannel(c)
                           \/ RemoveChannel(c)
                           \/ SetSameEngineType(c)
                           \/ SetUnknownEngineType(c)
                           \/ \E t \in EngineTypes : SetEngineType(c, t)
                           \/ \E d \in AudioDevices : SetAudioOutputDevice(c, d)
                           \/ \E p \in MidiPorts : \/ AddChannelMidiInput(c, p)
                                                   \/ RemoveChannelMidiInput(c, p)
                                                   \/ \E m \in MidiChannels : SetMidiInput(c, p, m)
                           \/ \E m \in MidiChannels : SetMidiInputChannel(c, m)
                           \/ \E mute \in BOOLEAN : SetChannelMute(c, mute)
                           \/ SetSolo(c)
                           \/ UnsetSolo(c)
    \/ \E d \in AudioDevices : CreateAudioOutputDevice(d) \/ DestroyAudioOutputDevice(d)
    \/ \E p \in MidiPorts : CreateMidiInputDevice(p) \/ DestroyMidiInputDevice(p)

Step ==
    \/ UnrenderEngine \/ ForgetPorts \/ (\E p \in MidiPorts : UnmapPort(p)) \/ PortsUnmapped
    \/ LeaveEngine \/ DeleteEngine \/ DestroyEngineChannel
    \/ NoDevice \/ AcquireEngine \/ EngineDisabled \/ CreateEngine \/ CreateEngineFails
    \/ JoinEngine \/ RenderEngine
    \/ FinishSetAudioOutputDevice \/ FinishSetEngineType \/ FinishCrashes

AudioStep(d) == (\E e \in Engines : EnterRenderAudio(d, e)) \/ LeaveRenderAudio(d) \/ EndCycle(d)
MidiStep(p)  == \/ \E x \in EngineChannels : CallEngineChannel(p, x)
                \/ \E e \in Engines : CallEngine(p, e)
                \/ Return(p) \/ EndEvent(p)
StatisticsStep == (\E c \in Channels : ReadChannel(c)) \/ ChannelRead \/ EndStatistics

Next ==
    \/ Command \/ Step
    \/ \E d \in AudioDevices : StartCycle(d) \/ AudioStep(d)
    \/ \E p \in MidiPorts : StartSysex(p) \/ MidiStep(p) \/ \E m \in MidiChannels : StartEvent(p, m)
    \/ StartStatistics \/ StatisticsStep

Spec == Init /\ [][Next]_vars

(* Every thread goes on with what it has begun.                            *)
FairSpec ==
    /\ Spec
    /\ WF_vars(Step)
    /\ \A d \in AudioDevices : WF_vars(AudioStep(d))
    /\ \A p \in MidiPorts : WF_vars(MidiStep(p))
    /\ WF_vars(StatisticsStep)

----------------------------------------------------------------------------
(* Properties.                                                             *)

\* The steps that take a connection apart, and those that build one
Removing == {"unrender", "unmap", "unmapping", "leave", "delete", "destroy"}
Building == {"acquire", "await", "join", "render", "finish"}

ChannelState == [type : EngineTypes \cup {None}, device : AudioDevices \cup {None},
                 remembered : SUBSET MidiPorts, midi : MidiChannels]
ECState == [exists : BOOLEAN, engine : AudioDevices \cup {None}, inputs : SUBSET MidiPorts,
            midi : MidiChannels, mute : {"off", "on", "solo"}, solo : BOOLEAN]
Operation ==
    [cmd : {"none", "RemoveChannel", "SetEngineType", "SetAudioOutputDevice"},
     step : {""} \cup Removing \cup Building, chan : Channels \cup {None},
     type : EngineTypes \cup {None}, device : AudioDevices \cup {None},
     ports : SUBSET MidiPorts, left : SUBSET MidiPorts, engine : Engines \cup {None}]
AudioState == [reading : BOOLEAN, todo : SUBSET Engines, at : Engines \cup {None}, old : BOOLEAN]
MidiState ==
    [kind : {"none", "event", "sysex"}, todo : SUBSET (EngineChannels \cup Engines),
     at : EngineChannels \cup Engines \cup {None}, engine : Engines \cup {None}, old : BOOLEAN]
StatisticsState ==
    [todo : SUBSET Channels, at : EngineChannels \cup {None}, engine : Engines \cup {None}]

(* Every variable has its type.                                            *)
TypeOK ==
    /\ scenario \in Scenarios /\ channels \subseteq Channels
    /\ chan \in [Channels -> ChannelState]
    /\ ec \in [EngineChannels -> ECState]
    /\ devices \subseteq AudioDevices /\ ports \subseteq MidiPorts
    /\ engines \subseteq Engines /\ orphans \subseteq Engines
    /\ members \in [Engines -> SUBSET EngineChannels] /\ disabled \subseteq engines
    /\ rendered \in [AudioDevices -> SUBSET Engines]
    /\ map \in [MidiPorts -> SUBSET (EngineChannels \X MidiChannels)]
    /\ sysex \subseteq Engines /\ listening \subseteq EngineChannels
    /\ audio \in [AudioDevices -> AudioState] /\ midi \in [MidiPorts -> MidiState]
    /\ stats \in StatisticsState /\ rt \in {"free", "lscp", "stats"} /\ op \in Operation
    /\ op.cmd \in {"none"} \cup scenario.commands
    /\ failed \subseteq Channels /\ crashed \in BOOLEAN

(* Between two commands the parts agree on who is connected to whom: an    *)
(* engine exists exactly as long as engine channels use it, and knows      *)
(* them; its device exists and renders it; it listens to SysEx messages;   *)
(* and a channel is connected to the device it names, unless Connect()     *)
(* failed (AcquireEngine() and FreeEngine(), SamplerChannel).              *)
ConnectionsAgree == op = NoCommand =>
    /\ \A e \in Engines :
         /\ members[e] = {x \in EngineChannels : ec[x].exists /\ EngineOf(x) = e}
         /\ e \in engines <=> members[e] # {}
         /\ e \in sysex <=> e \in engines
    /\ \A d \in AudioDevices : rendered[d] = {e \in engines : e[2] = d}
    /\ \A e \in engines : e[2] \in devices
    /\ disabled = {}
    /\ \A c \in channels : HasEC(c) /\ c \notin failed => ec[Current(c)].engine = chan[c].device

(* Between two commands an engine channel exists exactly if a sampler      *)
(* channel owns it, each MIDI port has exactly the connections the engine  *)
(* channels know of, at their MIDI channel, and no channel is connected to *)
(* a port that is gone (MidiInputPort::Connect(), SetEngineType()).        *)
PortsAgree == op = NoCommand =>
    /\ \A x \in EngineChannels : ec[x].exists <=> x[1] \in channels /\ Current(x[1]) = x
    /\ \A p \in MidiPorts :
         map[p] = {<<x, ec[x].midi>> : x \in {y \in EngineChannels : ec[y].exists /\ p \in ec[y].inputs}}
    /\ \A p \in MidiPorts \ ports : map[p] = {}

(* The audio thread is never inside an engine that is deleted, or one      *)
(* whose list of engine channels the LSCP thread is about to change: it    *)
(* was taken from the device before, or disabled.                          *)
RenderedEngineIsStable == \A d \in AudioDevices :
    audio[d].at # None =>
        /\ audio[d].at \in engines
        /\ ~(op.step \in {"leave", "join"} /\ Settled /\ audio[d].at = op.engine)

(* The MIDI thread never calls an engine channel or an engine that has     *)
(* been deleted.  Excepted is the engine of a channel that has got another *)
(* audio device since the call has begun, which nothing prevents.          *)
MidiCallsWhatExists == \A p \in MidiPorts :
    /\ midi[p].kind = "event" /\ midi[p].at # None =>
           /\ ec[midi[p].at].exists
           /\ midi[p].engine \in engines \cup {None} \/ EngineOf(midi[p].at) # midi[p].engine
    /\ midi[p].kind = "sysex" /\ midi[p].at # None => midi[p].at \in engines

(* The statistics are read only from channels, engine channels and engines *)
(* that exist: commands that remove them hold RTNotifyMutex.               *)
StatisticsReadWhatExists == rt = "stats" =>
    /\ stats.todo \subseteq channels
    /\ stats.at # None => ec[stats.at].exists /\ stats.engine \in engines \cup {None}

(* The LSCP server has no MIDI listener for an engine channel that has     *)
(* been deleted.                                                           *)
ListenersExist == \A x \in listening : ec[x].exists

(* As long as a channel is solo, all channels that are not are muted, also *)
(* those that are added or get another engine meanwhile.                   *)
SoloSilencesOthers == op = NoCommand /\ HasSolo =>
    \A c \in channels : HasEC(c) /\ ~ec[Current(c)].solo => ec[Current(c)].mute # "off"

(* Channels muted because of a solo channel are unmuted when there is no   *)
(* solo channel left (MuteNonSoloChannels()).                              *)
UnmutedWithoutSolo == op = NoCommand /\ ~HasSolo =>
    \A c \in channels : HasEC(c) => ec[Current(c)].mute # "solo"

(* Every command ends: no wait for a reader, for an engine to be disabled, *)
(* or for the statistics lasts for ever.                                   *)
CommandEnds == (op # NoCommand) ~> (op = NoCommand \/ crashed)

(* Between commands all parts agree on who is connected, listens, or is     *)
(* silenced by a solo channel.                                             *)
PartsAgree == TypeOK /\ ConnectionsAgree /\ PortsAgree /\ ListenersExist /\ SoloSilencesOthers

(* The audio, MIDI and statistics threads call only what exists, and what  *)
(* they render is not changed under them.                                  *)
CalledExists == RenderedEngineIsStable /\ MidiCallsWhatExists /\ StatisticsReadWhatExists
=============================================================================
