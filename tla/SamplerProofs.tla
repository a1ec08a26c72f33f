---------------------------- MODULE SamplerProofs ----------------------------
(***************************************************************************)
(* Proofs about Sampler for every set of channels, engine types, devices   *)
(* and ports, and every set of scenarios.                                  *)
(***************************************************************************)
EXTENDS Sampler, TLAPS

-----------------------------------------------------------------------------
(* The inductive invariant *)

\* The engines that device d should render
EnginesOn(d) == {e \in engines : e[2] = d}

\* The engine channels which the structure of port p knows
Mapped(p) == {y[1] : y \in map[p]}

\* The connections of port p that the engine channels know of
Connections(p) == {<<x, ec[x].midi>> : x \in {y \in EngineChannels : p \in ec[y].inputs}}

\* A command in several steps holds the RTNotifyMutex, and has the old engine
\* channel until it is destroyed.
CommandInv ==
  /\ op.step = "" => op = NoCommand
  /\ op.step # "" <=> rt = "lscp"
  /\ op.step # "" =>
       /\ op.chan \in Channels
       /\ \/ /\ op.cmd = "RemoveChannel" /\ op.step \in Removing
             /\ op.chan \notin channels /\ chan[op.chan].type # None
          \/ /\ op.cmd = "SetEngineType" /\ op.chan \in channels /\ op.type # None
             /\ op.step \in Removing => chan[op.chan].type \notin {None, op.type}
             /\ op.step \in Building => chan[op.chan].type = None
          \/ /\ op.cmd = "SetAudioOutputDevice" /\ op.chan \in channels
             /\ op.step \notin {"unmap", "unmapping"} /\ op.device \in devices
             /\ op.type # None /\ op.type = chan[op.chan].type

\* A channel that does not exist has nothing, and no channel has a device or a
\* port that does not exist.
ChannelsInv ==
  /\ \A c \in Channels \ channels :
       (op.cmd = "RemoveChannel" /\ op.chan = c) \/ (chan[c].type = None /\ chan[c].device = None)
  /\ \A c \in Channels : chan[c].device \in devices \cup {None}
  /\ \A x \in EngineChannels : ec[x].inputs \subseteq ports
  /\ op.ports \subseteq ports /\ op.left \subseteq ports

\* Engine channels exist for their sampler channel, and while it is given one.
ExistsInv == \A x \in EngineChannels :
  /\ ec[x].exists <=> Current(x[1]) = x \/ (op.cmd = "SetEngineType" /\ x = New)
  /\ ~ ec[x].exists => ec[x].engine = None /\ ec[x].inputs = {}

\* The engine of an engine channel is one of the channel's device.
DeviceInv == \A c \in Channels : HasEC(c) =>
  /\ ec[Current(c)].engine \in {None, chan[c].device}
  /\ c \in channels \ (failed \cup {op.chan}) => ec[Current(c)].engine = chan[c].device

\* The engine which a command has to do with
EngineInv ==
  /\ op.step \in {"unmap", "unmapping", "leave"} => op.engine = EngineOf(Old)
  /\ op.step \in {"delete", "destroy"} => ec[Old].engine = None
  /\ op.step = "delete" => op.engine # None /\ members[op.engine] = {}
  /\ op.step \in {"delete", "destroy"} /\ op.engine # None => op.engine[2] = chan[op.chan].device
  /\ op.step \in {"acquire", "await", "join"} \/ (op.step \in Removing /\ op.cmd = "SetEngineType") =>
       ec[New].engine = None
  /\ op.step \in {"await", "join", "render"} =>
       chan[op.chan].device # None /\ op.engine = <<op.type, chan[op.chan].device>>
  /\ op.step \in {"render", "finish"} => ec[New].engine = chan[op.chan].device

\* An engine knows its engine channels, and exists as long as it has one.
MembersInv == \A e \in Engines :
  /\ members[e] = {x \in EngineChannels : EngineOf(x) = e}
  /\ e \in engines <=> members[e] # {} \/ (op.step \in {"delete", "join"} /\ e = op.engine)
  /\ e \in sysex <=> members[e] # {}
  /\ e \in engines => e[2] \in devices

\* A device renders its engines, but for the one that is taken apart or built, and
\* only an engine that gets another engine channel is disabled.
RenderedInv ==
  /\ \A d \in AudioDevices :
       /\ rendered[d] \subseteq EnginesOn(d) /\ EnginesOn(d) \subseteq rendered[d] \cup {op.engine}
       /\ op.step \in Removing \ {"unrender"} => op.engine \notin rendered[d]
       /\ op.step \notin (Removing \ {"unrender"}) \cup {"join", "render"} =>
            rendered[d] = EnginesOn(d)
  /\ disabled \subseteq {op.engine}
  /\ disabled # {} => op.step \in {"await", "join"}
  /\ op.step = "await" => op.engine \in disabled

\* What the ports know is what the engine channels know, and what they have
\* forgotten but not yet taken from the port.
MapInv ==
  /\ \A p \in MidiPorts :
       map[p] = Connections(p) \cup (IF p \in op.left THEN {<<Old, ec[Old].midi>>} ELSE {})
  /\ op.left # {} => op.step = "unmapping"
  /\ op.step \in {"unmapping", "leave", "delete", "destroy"} /\ op.cmd # "SetAudioOutputDevice" =>
       ec[Old].inputs = {}

\* A new engine channel is as the constructor left it, and the LSCP server listens
\* neither to it nor to one that will be destroyed.
NewInv ==
  /\ op.cmd = "SetEngineType" => ec[New].inputs = {} /\ ~ ec[New].solo /\ New \notin listening
  /\ op.cmd \in {"SetEngineType", "RemoveChannel"} => Old \notin listening
  /\ ListenersExist

\* A channel that is not solo beside one that is, is muted.
SoloInv == HasSolo => \A c \in channels : HasEC(c) /\ ~ ec[Current(c)].solo => ec[Current(c)].mute # "off"

\* An audio thread is about to call the engines its device renders, and the one that
\* was just taken from the device.
AudioCycleInv(d) ==
  /\ ~ audio[d].reading => audio[d] = Quiet
  /\ audio[d].todo \subseteq rendered[d] \cup (IF audio[d].old THEN {op.engine} ELSE {})
  /\ audio[d].at \in {None} \cup rendered[d] \cup (IF audio[d].old THEN {op.engine} ELSE {})
  /\ audio[d].old => op.step \in {"unmap", "leave"} /\ op.engine \in engines

\* While an engine gets another engine channel, no audio thread is in it.
AudioInv ==
  /\ \A d \in AudioDevices : AudioCycleInv(d)
  /\ op.step = "join" => \A d \in AudioDevices :
       audio[d].at # op.engine /\ (op.engine \in disabled \/ op.engine \notin rendered[d])

\* A MIDI thread is about to call what its port knew when the event began.
MidiEventInv(p) ==
  /\ midi[p].kind = "none" => midi[p] = NoEvent
  /\ midi[p].kind = "event" =>
       /\ midi[p].todo \subseteq EngineChannels /\ midi[p].at \in EngineChannels \cup {None}
       /\ \A x \in EngineChannels : x \in midi[p].todo \/ x = midi[p].at =>
            ec[x].exists /\ (midi[p].old \/ x \in Mapped(p))
  /\ midi[p].kind = "sysex" =>
       /\ midi[p].todo \subseteq sysex \cup (IF midi[p].old THEN {op.engine} ELSE {})
       /\ midi[p].at \in {None} \cup sysex \cup (IF midi[p].old THEN {op.engine} ELSE {})
       /\ midi[p].old => op.step = "delete" /\ op.engine \in engines

MidiInv == \A p \in MidiPorts : MidiEventInv(p)

\* The main thread reads what cannot be removed while it holds the RTNotifyMutex.
StatisticsInv == StatisticsReadWhatExists

IInv == /\ TypeOK /\ CommandInv /\ ChannelsInv /\ ExistsInv /\ DeviceInv /\ EngineInv
        /\ MembersInv /\ RenderedInv /\ MapInv /\ NewInv /\ SoloInv
        /\ AudioInv /\ MidiInv /\ StatisticsInv
-----------------------------------------------------------------------------
(* Engine channels and engines are pairs *)

\* An engine channel is told by its sampler channel and its type, an engine by its
\* type and its device, and neither is NULL.
LEMMA Pairs ==
  /\ \A x \in EngineChannels : /\ x[1] \in Channels /\ x[2] \in EngineTypes
                               /\ x = <<x[1], x[2]>> /\ x # None
  /\ \A e \in Engines : /\ e[1] \in EngineTypes /\ e[2] \in AudioDevices
                        /\ e = <<e[1], e[2]>> /\ e # None
  /\ None \notin Channels /\ None \notin EngineTypes /\ None \notin AudioDevices
BY SamplerAssumption DEF EngineChannels, Engines

\* What a command in several steps is about
LEMMA Operating ==
  ASSUME TypeOK, CommandInv
  PROVE  /\ op.step \in Removing \cup Building => op.chan \in Channels
         /\ op.step \in Removing => Old \in EngineChannels /\ HasEC(op.chan)
         /\ op.step \in Building \/ op.cmd = "SetEngineType" =>
              New \in EngineChannels /\ op.type \in EngineTypes /\ op.chan \in channels
         /\ Old[1] = op.chan /\ New[1] = op.chan /\ Old = Current(op.chan)
         /\ New[2] = op.type /\ Old[2] = chan[op.chan].type
<1>1. op.step \notin Removing \cup Building => op.step = ""
  BY DEF TypeOK, Operation, ChannelState
<1>2. op.type \in EngineTypes \cup {None} /\ channels \subseteq Channels
      /\ \A c \in Channels : chan[c].type \in EngineTypes \cup {None}
  BY DEF TypeOK, Operation, ChannelState
<1>3. "" \notin Removing \cup Building /\ Removing \cap Building = {}
  BY DEF Removing, Building
<1>4. op.cmd = "SetEngineType" => op.step # ""
  <2>1. op.step = "" => op = NoCommand
    BY DEF CommandInv
  <2>2. NoCommand.cmd = "none"
    BY DEF NoCommand
  <2> QED
    BY <2>1, <2>2
<1> QED
  BY <1>1, <1>2, <1>3, <1>4 DEF CommandInv, Old, New, Current, HasEC, EngineChannels

\* The engine that a new engine channel joins
LEMMA Joining ==
  ASSUME TypeOK, CommandInv, EngineInv, op.step \in {"await", "join", "render"}
  PROVE  op.engine \in Engines /\ op.engine # None
BY Operating, Pairs DEF EngineInv, TypeOK, Engines, Building, ChannelState

-----------------------------------------------------------------------------
(* What a step leaves alone *)

\* The engine channels exist, and have the engine, the ports and the MIDI channel, as
\* before: at most mute and solo change.
SameLinks == \A x \in EngineChannels :
  /\ ec'[x].exists = ec[x].exists /\ ec'[x].engine = ec[x].engine
  /\ ec'[x].inputs = ec[x].inputs /\ ec'[x].midi = ec[x].midi

\* Nothing changes for engine channels that are not changed.
LEMMA Unchanged == UNCHANGED ec => SameLinks
BY DEF SameLinks

\* The conjuncts about channels and engine channels depend on these alone.
LEMMA SameChannels ==
  ASSUME ChannelsInv, SameLinks, UNCHANGED <<channels, chan, devices, ports>>,
         op'.cmd = op.cmd, op'.chan = op.chan, op'.ports = op.ports, op'.left = op.left
  PROVE  ChannelsInv'
BY DEF ChannelsInv, SameLinks

\* Which engine channels exist depends on the types of the channels and the command.
LEMMA SameExists ==
  ASSUME ExistsInv, SameLinks, chan' = chan, op'.cmd = op.cmd, op'.chan = op.chan, op'.type = op.type
  PROVE  ExistsInv'
BY DEF ExistsInv, SameLinks, Current, New

\* On which devices their engines are depends on the channels and the failures.
LEMMA SameDevice ==
  ASSUME TypeOK, DeviceInv, SameLinks, UNCHANGED <<chan, channels, failed>>, op'.chan = op.chan
  PROVE  DeviceInv'
<1>1. \A c \in Channels : HasEC(c)' <=> HasEC(c)
  BY DEF HasEC
<1>2. \A c \in Channels : HasEC(c) => Current(c)' = Current(c) /\ Current(c) \in EngineChannels
  BY Pairs DEF HasEC, Current, TypeOK, EngineChannels, ChannelState
<1>3. \A c \in Channels : HasEC(c) => ec'[Current(c)].engine = ec[Current(c)].engine
  BY <1>2 DEF SameLinks
<1> QED
  BY <1>1, <1>2, <1>3 DEF DeviceInv

\* So do those about engines
LEMMA SameEngineOf ==
  ASSUME SameLinks PROVE \A x \in EngineChannels : EngineOf(x)' = EngineOf(x)
BY DEF SameLinks, EngineOf

\* The engines depend on their lists and on whether one is being deleted or built.
LEMMA SameMembers ==
  ASSUME MembersInv, SameLinks, UNCHANGED <<members, engines, sysex>>, devices \subseteq devices',
         \/ op'.engine = op.engine /\ (op'.step \in {"delete", "join"} <=> op.step \in {"delete", "join"})
         \/ op'.step \notin {"delete", "join"} /\ op.step \notin {"delete", "join"}
  PROVE  MembersInv'
<1>1. ASSUME NEW e \in Engines
      PROVE  {x \in EngineChannels : EngineOf(x) = e}' = {x \in EngineChannels : EngineOf(x) = e}
  BY SameEngineOf
<1> QED
  BY <1>1 DEF MembersInv

\* What the devices render depends on the engines and the step of the command.
LEMMA SameRendered ==
  ASSUME RenderedInv, UNCHANGED <<rendered, engines, disabled, op>>
  PROVE  RenderedInv'
BY DEF RenderedInv, EnginesOn

\* So do those about the ports
LEMMA SameMap ==
  ASSUME MapInv, SameLinks, UNCHANGED <<map, chan, op>>, TypeOK, CommandInv
  PROVE  MapInv'
<1>1. \A p \in MidiPorts : Connections(p)' = Connections(p)
  BY DEF Connections, SameLinks
<1>2. Old' = Old
  BY DEF Old, Current
<1>3. op.step # "" /\ op.cmd # "SetAudioOutputDevice" /\ op.step \in Removing => Old \in EngineChannels
  BY DEF CommandInv, Old, Current, TypeOK, EngineChannels, Operation, ChannelState
<1>4. op.step # "" /\ op.cmd # "SetAudioOutputDevice" /\ op.step \in Removing =>
        ec'[Old].inputs = ec[Old].inputs /\ ec'[Old].midi = ec[Old].midi
  BY <1>3 DEF SameLinks
<1>5. op.left # {} => ec'[Old].midi = ec[Old].midi
  BY <1>4 DEF MapInv, CommandInv, Removing
<1>6. op.step \in {"unmapping", "leave", "delete", "destroy"} /\ op.cmd # "SetAudioOutputDevice" =>
        ec'[Old].inputs = ec[Old].inputs
  BY <1>4 DEF Removing
<1> QED
  BY <1>1, <1>2, <1>5, <1>6 DEF MapInv

\* So do those about the LSCP server
LEMMA SameSolo ==
  ASSUME SoloInv, UNCHANGED <<channels, chan, ec>>
  PROVE  SoloInv'
BY DEF SoloInv, HasSolo, HasEC, Current

\* What the LSCP server listens to depends on its listeners and the command.
LEMMA SameNew ==
  ASSUME NewInv, UNCHANGED <<listening, chan, ec>>,
         op'.cmd = op.cmd, op'.chan = op.chan, op'.type = op.type
  PROVE  NewInv'
BY DEF NewInv, New, Old, Current, ListenersExist

\* So do those about the threads
LEMMA SameAudio ==
  ASSUME AudioInv, UNCHANGED <<audio, rendered, disabled, engines, op>>
  PROVE  AudioInv'
BY DEF AudioInv, AudioCycleInv

\* So does MidiInv, on the MIDI threads, their connections and the command.
LEMMA SameMidi ==
  ASSUME MidiInv, SameLinks, UNCHANGED <<midi, map, sysex, engines, op>>
  PROVE  MidiInv'
BY DEF MidiInv, MidiEventInv, SameLinks, Mapped

\* StatisticsInv survives also when a channel is added.
LEMMA SameStatistics ==
  ASSUME StatisticsInv, SameLinks, TypeOK, UNCHANGED <<rt, stats, engines>>, channels \subseteq channels'
  PROVE  StatisticsInv'
BY DEF StatisticsInv, StatisticsReadWhatExists, SameLinks, TypeOK, StatisticsState

\* CommandInv depends on the command, the mutex, the channels and the devices.
LEMMA SameCommand ==
  ASSUME CommandInv, UNCHANGED <<rt, op, chan, channels, devices>>
  PROVE  CommandInv'
BY DEF CommandInv

\* EngineInv depends on the command, its channel and the lists of the engines.
LEMMA SameEngine ==
  ASSUME TypeOK, CommandInv, EngineInv, SameLinks, UNCHANGED <<chan, op, members>>
  PROVE  EngineInv'
<1>1. Old' = Old /\ New' = New
  BY DEF Old, New, Current
<1>2. /\ op.step \in Removing => Old \in EngineChannels
      /\ op.step \in Building \/ op.cmd = "SetEngineType" => New \in EngineChannels
  BY Operating
<1>3. op.step \in Removing => ec'[Old].engine = ec[Old].engine /\ EngineOf(Old)' = EngineOf(Old)
  BY <1>1, <1>2 DEF SameLinks, EngineOf
<1>4. op.step \in Building \/ op.cmd = "SetEngineType" => ec'[New].engine = ec[New].engine
  BY <1>2 DEF SameLinks
<1> QED
  BY <1>1, <1>3, <1>4 DEF EngineInv, Removing, Building
-----------------------------------------------------------------------------
(* The audio, MIDI and main threads *)

\* What is about the LSCP thread alone
LscpInv == /\ ChannelsInv /\ ExistsInv /\ DeviceInv /\ EngineInv /\ MembersInv
           /\ RenderedInv /\ MapInv /\ NewInv /\ SoloInv

\* The other threads change nothing of it.
LEMMA OtherThreads ==
  ASSUME IInv, UNCHANGED sampler
  PROVE  LscpInv' /\ SameLinks
<1>1. SameLinks
  BY Unchanged DEF sampler
<1>2. ChannelsInv' /\ ExistsInv' /\ DeviceInv' /\ EngineInv'
  BY <1>1, SameChannels, SameExists, SameDevice, SameEngine DEF IInv, sampler, lists
<1>3. MembersInv' /\ RenderedInv' /\ MapInv'
  BY <1>1, SameMembers, SameRendered, SameMap DEF IInv, sampler, lists
<1>4. NewInv' /\ SoloInv'
  BY SameNew, SameSolo DEF IInv, sampler
<1> QED
  BY <1>1, <1>2, <1>3, <1>4 DEF LscpInv

\* A device renders engines that exist.
LEMMA RenderedTypes ==
  ASSUME TypeOK, RenderedInv, NEW d \in AudioDevices
  PROVE  /\ rendered[d] \subseteq Engines /\ rendered[d] \subseteq engines
         /\ \A e \in rendered[d] : e # None
BY Pairs DEF TypeOK, RenderedInv, EnginesOn

\* Their own state has its type.
LEMMA ThreadTypes ==
  ASSUME TypeOK, UNCHANGED sampler, audio' \in [AudioDevices -> AudioState],
         midi' \in [MidiPorts -> MidiState], stats' \in StatisticsState,
         rt' \in {"free", "lscp", "stats"}
  PROVE  TypeOK'
BY DEF TypeOK, sampler, lists

\* A step of an audio thread
LEMMA AudioThread ==
  ASSUME IInv, NEW d \in AudioDevices, StartCycle(d) \/ AudioStep(d)
  PROVE  IInv'
<1>1. UNCHANGED <<sampler, midi, stats, rt>>
  BY DEF StartCycle, AudioStep, EnterRenderAudio, LeaveRenderAudio, EndCycle
<1>2. LscpInv' /\ SameLinks
  BY <1>1, OtherThreads
<1>3. CommandInv' /\ MidiInv' /\ StatisticsInv'
  BY <1>1, <1>2, SameCommand, SameMidi, SameStatistics DEF IInv, sampler, lists
<1>4. TypeOK /\ RenderedInv /\ AudioInv
  BY DEF IInv
<1>5. /\ rendered[d] \subseteq Engines /\ \A e \in rendered[d] : e # None
      /\ op.step = "join" => audio[d].old = FALSE
  BY <1>4, RenderedTypes DEF AudioInv, AudioCycleInv, TypeOK
<1>6. audio' \in [AudioDevices -> AudioState] /\ AudioInv'
  <2>1. rendered' = rendered /\ op' = op /\ engines' = engines /\ disabled' = disabled
    BY <1>1 DEF sampler, lists
  <2>2. audio \in [AudioDevices -> [reading : BOOLEAN, todo : SUBSET Engines,
                                    at : Engines \cup {None}, old : BOOLEAN]]
    BY <1>4 DEF TypeOK, AudioState
  <2>3. CASE StartCycle(d)
    BY <1>4, <1>5, <2>1, <2>2, <2>3 DEF StartCycle, AudioInv, AudioCycleInv, Quiet, AudioState
  <2>4. ASSUME NEW e \in Engines, EnterRenderAudio(d, e)
        PROVE  audio' \in [AudioDevices -> AudioState] /\ AudioInv'
    <3>1. audio' = [audio EXCEPT ![d] = [audio[d] EXCEPT !.todo = @ \ {e},
                                                        !.at = IF e \in disabled THEN None ELSE e]]
      BY <2>2, <2>4 DEF EnterRenderAudio
    <3>2. audio'[d].at = IF e \in disabled THEN None ELSE e
      BY <2>2, <3>1
    <3>3. audio'[d].todo = audio[d].todo \ {e} /\ audio'[d].old = audio[d].old
          /\ audio'[d].reading = audio[d].reading /\ audio[d].reading
      BY <1>4, <2>2, <2>4, <3>1 DEF AudioInv, AudioCycleInv, Quiet, EnterRenderAudio
    <3>4. audio' \in [AudioDevices -> AudioState]
          /\ \A f \in AudioDevices \ {d} : audio'[f] = audio[f]
      BY <2>2, <3>1 DEF AudioState
    <3>5. e \in audio[d].todo
      BY <2>4 DEF EnterRenderAudio
    <3>6. op.step = "join" => audio'[d].at # op.engine
      <4>1. op.step = "join" => e \in rendered[d]
        BY <1>4, <1>5, <3>5 DEF AudioInv, AudioCycleInv
      <4> QED
        BY <1>4, <3>2, <4>1, Joining DEF AudioInv, AudioCycleInv, IInv
    <3>7. ASSUME NEW f \in AudioDevices
          PROVE
            /\ ~ audio'[f].reading => audio'[f] = Quiet
            /\ audio'[f].todo \subseteq rendered[f] \cup (IF audio'[f].old THEN {op.engine} ELSE {})
            /\ audio'[f].at \in {None} \cup rendered[f] \cup (IF audio'[f].old THEN {op.engine} ELSE {})
            /\ audio'[f].old => op.step \in {"unmap", "leave"} /\ op.engine \in engines
      <4>1. CASE f = d
        BY <1>4, <3>2, <3>3, <3>5, <4>1 DEF AudioInv, AudioCycleInv
      <4>2. CASE f # d
        BY <1>4, <3>4, <4>2 DEF AudioInv, AudioCycleInv
      <4> QED
        BY <4>1, <4>2
    <3> QED
      BY <1>4, <2>1, <3>4, <3>6, <3>7 DEF AudioInv, AudioCycleInv
  <2>5. CASE LeaveRenderAudio(d)
    <3>1. op.step = "join" => op.engine # None
      BY Joining DEF IInv
    <3>2. audio' = [audio EXCEPT ![d] = [audio[d] EXCEPT !.at = None]] /\ audio[d].at # None
      BY <2>2, <2>5 DEF LeaveRenderAudio
    <3>3. /\ audio' \in [AudioDevices -> AudioState]
          /\ audio'[d].todo = audio[d].todo /\ audio'[d].old = audio[d].old
          /\ audio'[d].reading = audio[d].reading /\ audio'[d].at = None
          /\ \A f \in AudioDevices \ {d} : audio'[f] = audio[f]
      BY <2>2, <3>2 DEF AudioState
    <3>4. audio[d].reading
      BY <1>4, <3>2 DEF AudioInv, AudioCycleInv, Quiet
    <3> QED
      BY <1>4, <2>1, <3>1, <3>3, <3>4 DEF AudioInv, AudioCycleInv
  <2>6. CASE EndCycle(d)
    BY <1>4, <1>5, <2>1, <2>2, <2>6 DEF EndCycle, AudioInv, AudioCycleInv, Quiet, AudioState
  <2> QED
    BY <2>3, <2>4, <2>5, <2>6 DEF AudioStep
<1>7. TypeOK'
  BY <1>1, <1>4, <1>6, ThreadTypes DEF TypeOK
<1> QED
  BY <1>2, <1>3, <1>6, <1>7 DEF IInv, LscpInv

\* A step of a MIDI thread
LEMMA MidiThread ==
  ASSUME IInv, NEW p \in MidiPorts,
         StartSysex(p) \/ MidiStep(p) \/ \E m \in MidiChannels : StartEvent(p, m)
  PROVE  IInv'
<1>1. UNCHANGED <<sampler, audio, stats, rt>>
  BY DEF StartSysex, MidiStep, StartEvent, CallEngineChannel, CallEngine, Return, EndEvent
<1>2. LscpInv' /\ SameLinks
  BY <1>1, OtherThreads
<1>3. CommandInv' /\ AudioInv' /\ StatisticsInv'
  BY <1>1, <1>2, SameCommand, SameAudio, SameStatistics DEF IInv, sampler, lists
<1>4. TypeOK /\ MidiInv /\ MapInv /\ ExistsInv /\ CommandInv
  BY DEF IInv
<1>5. map' = map /\ ec' = ec /\ op' = op /\ engines' = engines /\ sysex' = sysex
  BY <1>1 DEF sampler, lists
<1>6. /\ midi \in [MidiPorts -> [kind : {"none", "event", "sysex"},
                                 todo : SUBSET (EngineChannels \cup Engines),
                                 at : EngineChannels \cup Engines \cup {None},
                                 engine : Engines \cup {None}, old : BOOLEAN]]
      /\ map[p] \subseteq EngineChannels \X MidiChannels /\ sysex \subseteq Engines
  BY <1>4 DEF TypeOK, MidiState
<1>7. \A x \in Mapped(p) : x \in EngineChannels /\ ec[x].exists
  <2>1. ASSUME NEW y \in map[p] PROVE y[1] \in EngineChannels /\ ec[y[1]].exists
    <3>1. y[1] \in EngineChannels
      BY <1>6
    <3>2. CASE y \in Connections(p)
      BY <1>4, <3>1, <3>2 DEF Connections, ExistsInv
    <3>3. CASE y = <<Old, ec[Old].midi>> /\ p \in op.left
      <4>1. y[1] = Old /\ op.chan \in Channels /\ op.step = "unmapping"
        BY <1>4, <3>3 DEF MapInv, CommandInv
      <4>2. Old[1] = op.chan
        BY DEF Old, Current
      <4> QED
        BY <1>4, <3>1, <4>1, <4>2 DEF ExistsInv, Old
    <3> QED
      BY <1>4, <3>2, <3>3 DEF MapInv
  <2> QED
    BY <2>1 DEF Mapped
<1>8. \A x \in EngineChannels : EngineOf(x) \in Engines \cup {None}
  BY <1>4, Pairs DEF TypeOK, EngineOf, Engines, ChannelState, ECState
<1>9. midi' \in [MidiPorts -> MidiState] /\ MidiInv'
  <2>1. CASE StartSysex(p)
    BY <1>4, <1>5, <1>6, <2>1 DEF StartSysex, MidiInv, MidiEventInv, NoEvent, Mapped, MidiState
  <2>2. ASSUME NEW m \in MidiChannels, StartEvent(p, m) PROVE midi' \in [MidiPorts -> MidiState] /\ MidiInv'
    <3>1. {y[1] : y \in {z \in map[p] : z[2] \in {m, AnyChannel}}} \subseteq Mapped(p)
      BY DEF Mapped
    <3> QED
      BY <1>4, <1>5, <1>6, <1>7, <2>2, <3>1, Pairs DEF StartEvent, MidiInv, MidiEventInv, NoEvent, Mapped, MidiState
  <2>3. ASSUME NEW x \in EngineChannels, CallEngineChannel(p, x) PROVE midi' \in [MidiPorts -> MidiState] /\ MidiInv'
    BY <1>4, <1>5, <1>6, <1>8, <2>3, Pairs DEF CallEngineChannel, MidiInv, MidiEventInv, NoEvent, Mapped, MidiState
  <2>4. ASSUME NEW e \in Engines, CallEngine(p, e) PROVE midi' \in [MidiPorts -> MidiState] /\ MidiInv'
    BY <1>4, <1>5, <1>6, <2>4, Pairs DEF CallEngine, MidiInv, MidiEventInv, NoEvent, Mapped, MidiState
  <2>5. CASE Return(p)
    <3>1. midi' = [midi EXCEPT ![p] = [midi[p] EXCEPT !.at = None, !.engine = None]] /\ midi[p].at # None
      BY <1>6, <2>5 DEF Return
    <3>2. /\ midi' \in [MidiPorts -> MidiState]
          /\ midi'[p].todo = midi[p].todo /\ midi'[p].old = midi[p].old
          /\ midi'[p].kind = midi[p].kind /\ midi'[p].at = None
          /\ \A q \in MidiPorts \ {p} : midi'[q] = midi[q]
      BY <1>6, <3>1 DEF MidiState
    <3>3. midi[p].kind # "none"
      BY <1>4, <3>1 DEF MidiInv, MidiEventInv, NoEvent
    <3> QED
      BY <1>4, <1>5, <3>2, <3>3, Pairs DEF MidiInv, MidiEventInv, Mapped
  <2>6. CASE EndEvent(p)
    BY <1>4, <1>5, <1>6, <2>6 DEF EndEvent, MidiInv, MidiEventInv, NoEvent, Mapped, MidiState
  <2> QED
    BY <2>1, <2>2, <2>3, <2>4, <2>5, <2>6 DEF MidiStep
<1>10. TypeOK'
  BY <1>1, <1>4, <1>9, ThreadTypes DEF TypeOK
<1> QED
  BY <1>2, <1>3, <1>9, <1>10 DEF IInv, LscpInv

\* A step of the main thread
LEMMA MainThread ==
  ASSUME IInv, StartStatistics \/ StatisticsStep
  PROVE  IInv'
<1>1. UNCHANGED <<sampler, audio, midi>>
  BY DEF StartStatistics, StatisticsStep, ReadChannel, ChannelRead, EndStatistics
<1>2. LscpInv' /\ SameLinks
  BY <1>1, OtherThreads
<1>3. AudioInv' /\ MidiInv'
  BY <1>1, <1>2, SameAudio, SameMidi DEF IInv, sampler, lists
<1>4. rt' = rt \/ (rt # "lscp" /\ rt' # "lscp" /\ rt' \in {"free", "stats"})
  BY DEF StartStatistics, StatisticsStep, ReadChannel, ChannelRead, EndStatistics
<1>5. CommandInv'
  BY <1>1, <1>4 DEF IInv, CommandInv, sampler
<1>6. TypeOK /\ StatisticsReadWhatExists /\ ExistsInv /\ CommandInv /\ MembersInv
  BY DEF IInv, StatisticsInv
<1>7. channels' = channels /\ ec' = ec /\ engines' = engines /\ chan' = chan
  BY <1>1 DEF sampler, lists
<1>8. /\ rt \in {"free", "lscp", "stats"} /\ channels \subseteq Channels
      /\ stats \in [todo : SUBSET Channels, at : EngineChannels \cup {None}, engine : Engines \cup {None}]
  BY <1>6 DEF TypeOK, StatisticsState
<1> DEFINE Types == stats \in StatisticsState /\ rt \in {"free", "lscp", "stats"}
<1>9. Types' /\ StatisticsReadWhatExists'
  <2>1. CASE StartStatistics
    BY <1>7, <1>8, <2>1 DEF StartStatistics, StatisticsReadWhatExists, StatisticsState, NoStatistics
  <2>2. ASSUME NEW c \in Channels, ReadChannel(c) PROVE Types' /\ StatisticsReadWhatExists'
    <3>1. CASE HasEC(c)
      <4>1. Current(c) \in EngineChannels /\ Current(c) # None /\ Current(Current(c)[1]) = Current(c)
        BY <1>6, <3>1, Pairs DEF TypeOK, HasEC, Current, EngineChannels, ChannelState
      <4>2. ec[Current(c)].exists
        BY <1>6, <4>1 DEF ExistsInv
      <4>3. EngineOf(Current(c)) \in Engines \cup {None}
        BY <1>6, <4>1, Pairs DEF TypeOK, EngineOf, Engines, ChannelState, ECState
      <4>4. EngineOf(Current(c)) \in engines \cup {None}
        BY <1>6, <4>1, <4>3 DEF MembersInv
      <4>5. stats' = [todo |-> stats.todo \ {c}, at |-> Current(c), engine |-> EngineOf(Current(c))]
        BY <2>2, <3>1 DEF ReadChannel
      <4> QED
        BY <1>6, <1>7, <1>8, <2>2, <4>1, <4>2, <4>3, <4>4, <4>5 DEF ReadChannel, StatisticsReadWhatExists, StatisticsState
    <3>2. CASE ~ HasEC(c)
      BY <1>6, <1>7, <1>8, <2>2, <3>2 DEF ReadChannel, StatisticsReadWhatExists, StatisticsState
    <3> QED
      BY <3>1, <3>2
  <2>3. CASE ChannelRead
    BY <1>6, <1>7, <1>8, <2>3 DEF ChannelRead, StatisticsReadWhatExists, StatisticsState
  <2>4. CASE EndStatistics
    BY <1>7, <1>8, <2>4 DEF EndStatistics, StatisticsReadWhatExists, StatisticsState
  <2> QED
    BY <2>1, <2>2, <2>3, <2>4 DEF StatisticsStep
<1>10. TypeOK'
  BY <1>1, <1>6, <1>9, ThreadTypes DEF TypeOK
<1> QED
  BY <1>2, <1>3, <1>5, <1>9, <1>10 DEF IInv, LscpInv, StatisticsInv

-----------------------------------------------------------------------------
(* Commands of one step: channels and devices *)

\* Between commands
LEMMA Idling ==
  ASSUME Idle
  PROVE  /\ op.cmd = "none" /\ op.step = "" /\ op.chan = None /\ op.type = None /\ op.device = None
         /\ op.ports = {} /\ op.left = {} /\ op.engine = None
         /\ \A d \in AudioDevices : ~ audio[d].old
         /\ \A p \in MidiPorts : ~ midi[p].old
BY DEF Idle, Settled, NoCommand

\* A new channel has no engine channel, no device and no port.
LEMMA AddChannelStep ==
  ASSUME IInv, NEW c \in Channels, AddChannel(c)
  PROVE  IInv'
<1>1. /\ op.cmd = "none" /\ op.step = "" /\ c \notin channels /\ channels' = channels \cup {c}
      /\ UNCHANGED <<chan, ec, devices, ports, lists, map, listening, threads, rt, op, failed>>
  BY Idling DEF AddChannel, Can
<1>2. SameLinks
  BY <1>1, Unchanged
<1>3. chan[c].type = None
  BY <1>1 DEF IInv, ChannelsInv
<1>4. TypeOK'
  BY DEF IInv, TypeOK, AddChannel, lists, threads
<1>5. CommandInv' /\ ChannelsInv'
  BY <1>1 DEF IInv, CommandInv, ChannelsInv
<1>6. ExistsInv' /\ EngineInv'
  BY <1>1, <1>2, SameExists, SameEngine DEF IInv, lists
<1>7. DeviceInv' /\ SoloInv'
  BY <1>1, <1>3 DEF IInv, DeviceInv, SoloInv, HasSolo, HasEC, Current
<1>8. MembersInv' /\ RenderedInv' /\ MapInv' /\ NewInv'
  BY <1>1, <1>2, SameMembers, SameRendered, SameMap, SameNew DEF IInv, lists
<1>9. AudioInv' /\ MidiInv' /\ StatisticsInv'
  BY <1>1, <1>2, SameAudio, SameMidi, SameStatistics DEF IInv, lists, threads
<1> QED
  BY <1>4, <1>5, <1>6, <1>7, <1>8, <1>9 DEF IInv

\* A new device renders nothing.
LEMMA CreateAudioOutputDeviceStep ==
  ASSUME IInv, NEW d \in AudioDevices, CreateAudioOutputDevice(d)
  PROVE  IInv'
<1>1. /\ op.step = "" /\ devices' = devices \cup {d}
      /\ UNCHANGED <<channels, chan, ec, ports, lists, map, listening, threads, rt, op, failed>>
  BY Idling DEF CreateAudioOutputDevice, Can
<1>2. SameLinks
  BY <1>1, Unchanged
<1>3. TypeOK'
  BY DEF IInv, TypeOK, CreateAudioOutputDevice, lists, threads
<1>4. CommandInv' /\ ChannelsInv'
  BY <1>1 DEF IInv, CommandInv, ChannelsInv
<1>5. ExistsInv' /\ EngineInv' /\ DeviceInv' /\ SoloInv'
  BY <1>1, <1>2, SameExists, SameEngine, SameDevice, SameSolo DEF IInv, lists
<1>6. MembersInv' /\ RenderedInv' /\ MapInv' /\ NewInv'
  BY <1>1, <1>2, SameMembers, SameRendered, SameMap, SameNew DEF IInv, lists
<1>7. AudioInv' /\ MidiInv' /\ StatisticsInv'
  BY <1>1, <1>2, SameAudio, SameMidi, SameStatistics DEF IInv, lists, threads
<1> QED
  BY <1>3, <1>4, <1>5, <1>6, <1>7 DEF IInv

\* No channel names the device, so no engine is on it.
LEMMA DestroyAudioOutputDeviceStep ==
  ASSUME IInv, NEW d \in AudioDevices, DestroyAudioOutputDevice(d)
  PROVE  IInv'
<1>1. /\ op.step = "" /\ op.cmd = "none" /\ devices' = devices \ {d}
      /\ \A c \in channels : chan[c].device # d
      /\ UNCHANGED <<channels, chan, ec, ports, lists, map, listening, threads, rt, op, failed>>
  BY Idling DEF DestroyAudioOutputDevice, Can
<1>2. SameLinks
  BY <1>1, Unchanged
<1>3. TypeOK'
  BY DEF IInv, TypeOK, DestroyAudioOutputDevice, lists, threads
<1>4. \A c \in Channels : chan[c].device # d
  BY <1>1, Pairs DEF IInv, ChannelsInv
<1>5. CommandInv' /\ ChannelsInv'
  BY <1>1, <1>4 DEF IInv, CommandInv, ChannelsInv
<1>6. ExistsInv' /\ EngineInv' /\ DeviceInv' /\ SoloInv'
  BY <1>1, <1>2, SameExists, SameEngine, SameDevice, SameSolo DEF IInv, lists
<1>7. \A e \in engines : e[2] # d
  <2>1. SUFFICES ASSUME NEW e \in engines, e[2] = d PROVE FALSE
    OBVIOUS
  <2>6. e \in Engines
    BY <2>1 DEF IInv, TypeOK
  <2>7. {x \in EngineChannels : EngineOf(x) = e} # {}
    BY <1>1, <2>1, <2>6 DEF IInv, MembersInv
  <2>2. PICK x \in EngineChannels : EngineOf(x) = e
    BY <2>7
  <2>3. ec[x].engine = d
    BY <2>1, <2>2, <2>6, Pairs DEF EngineOf
  <2>4. Current(x[1]) = x /\ x[1] \in Channels /\ HasEC(x[1])
    BY <1>1, <2>3, Pairs DEF IInv, ExistsInv, HasEC, Current
  <2>5. ec[x].engine \in {None, chan[x[1]].device}
    BY <2>4 DEF IInv, DeviceInv
  <2> QED
    BY <1>4, <2>3, <2>4, <2>5, Pairs
<1>8. MembersInv'
  <2>1. \A e \in Engines : {x \in EngineChannels : EngineOf(x) = e}' = {x \in EngineChannels : EngineOf(x) = e}
    BY <1>2, SameEngineOf
  <2> QED
    BY <1>1, <1>7, <2>1 DEF IInv, MembersInv, lists
<1>9. RenderedInv' /\ MapInv' /\ NewInv'
  BY <1>1, <1>2, SameRendered, SameMap, SameNew DEF IInv, lists
<1>10. AudioInv' /\ MidiInv' /\ StatisticsInv'
  BY <1>1, <1>2, SameAudio, SameMidi, SameStatistics DEF IInv, lists, threads
<1> QED
  BY <1>3, <1>5, <1>6, <1>8, <1>9, <1>10 DEF IInv

\* A new port has no connections.
LEMMA CreateMidiInputDeviceStep ==
  ASSUME IInv, NEW p \in MidiPorts, CreateMidiInputDevice(p)
  PROVE  IInv'
<1>1. /\ ports' = ports \cup {p}
      /\ UNCHANGED <<channels, chan, ec, devices, lists, map, listening, threads, rt, op, failed>>
  BY DEF CreateMidiInputDevice, Can
<1>2. SameLinks
  BY <1>1, Unchanged
<1>3. TypeOK'
  BY DEF IInv, TypeOK, CreateMidiInputDevice, lists, threads
<1>4. CommandInv' /\ ChannelsInv'
  BY <1>1 DEF IInv, CommandInv, ChannelsInv
<1>5. ExistsInv' /\ EngineInv' /\ DeviceInv' /\ SoloInv'
  BY <1>1, <1>2, SameExists, SameEngine, SameDevice, SameSolo DEF IInv, lists
<1>6. MembersInv' /\ RenderedInv' /\ MapInv' /\ NewInv'
  BY <1>1, <1>2, SameMembers, SameRendered, SameMap, SameNew DEF IInv, lists
<1>7. AudioInv' /\ MidiInv' /\ StatisticsInv'
  BY <1>1, <1>2, SameAudio, SameMidi, SameStatistics DEF IInv, lists, threads
<1> QED
  BY <1>3, <1>4, <1>5, <1>6, <1>7 DEF IInv

\* No engine channel has the port.
LEMMA DestroyMidiInputDeviceStep ==
  ASSUME IInv, NEW p \in MidiPorts, DestroyMidiInputDevice(p)
  PROVE  IInv'
<1>1. /\ op.cmd = "none" /\ op.left = {} /\ op.ports = {} /\ ports' = ports \ {p}
      /\ \A c \in channels : p \notin Inputs(c)
      /\ UNCHANGED <<channels, chan, ec, devices, lists, map, listening, threads, rt, op, failed>>
  BY Idling DEF DestroyMidiInputDevice, Can
<1>2. SameLinks
  BY <1>1, Unchanged
<1>3. TypeOK'
  BY DEF IInv, TypeOK, DestroyMidiInputDevice, lists, threads
<1>4. ASSUME NEW x \in EngineChannels PROVE p \notin ec[x].inputs
  <2>1. CASE ec[x].exists
    <3>1. Current(x[1]) = x /\ x[1] \in Channels /\ HasEC(x[1])
      BY <1>1, <2>1, Pairs DEF IInv, ExistsInv, HasEC, Current
    <3>2. x[1] \in channels
      BY <1>1, <3>1 DEF IInv, ChannelsInv, HasEC
    <3> QED
      BY <1>1, <3>1, <3>2 DEF Inputs
  <2>2. CASE ~ ec[x].exists
    BY <2>2 DEF IInv, ExistsInv
  <2> QED
    BY <2>1, <2>2
<1>5. CommandInv' /\ ChannelsInv'
  BY <1>1, <1>4 DEF IInv, CommandInv, ChannelsInv
<1>6. ExistsInv' /\ EngineInv' /\ DeviceInv' /\ SoloInv'
  BY <1>1, <1>2, SameExists, SameEngine, SameDevice, SameSolo DEF IInv, lists
<1>7. MembersInv' /\ RenderedInv' /\ MapInv' /\ NewInv'
  BY <1>1, <1>2, SameMembers, SameRendered, SameMap, SameNew DEF IInv, lists
<1>8. AudioInv' /\ MidiInv' /\ StatisticsInv'
  BY <1>1, <1>2, SameAudio, SameMidi, SameStatistics DEF IInv, lists, threads
<1> QED
  BY <1>3, <1>5, <1>6, <1>7, <1>8 DEF IInv

-----------------------------------------------------------------------------
(* Commands of one step: mute, solo and engine types that change nothing *)

\* Mute and solo concern only SoloSilencesOthers.
LEMMA SoloCommand ==
  ASSUME IInv, SameLinks, SoloInv', ec' \in [EngineChannels -> ECState], op = NoCommand,
         UNCHANGED <<scenario, channels, chan, devices, ports, lists, map, listening, threads, rt, op,
                     failed, crashed>>
  PROVE  IInv'
<1>1. TypeOK'
  BY DEF IInv, TypeOK, lists, threads
<1>2. CommandInv' /\ ChannelsInv' /\ ExistsInv' /\ EngineInv' /\ DeviceInv'
  BY SameCommand, SameChannels, SameExists, SameEngine, SameDevice DEF IInv, lists
<1>3. MembersInv' /\ RenderedInv' /\ MapInv'
  BY SameMembers, SameRendered, SameMap DEF IInv, lists
<1>4. NewInv'
  <2>1. op'.cmd = "none"
    BY DEF NoCommand
  <2>2. \A x \in listening' : ec'[x].exists
    BY DEF IInv, NewInv, ListenersExist, SameLinks, TypeOK
  <2> QED
    BY <2>1, <2>2 DEF NewInv, ListenersExist
<1>5. AudioInv' /\ MidiInv' /\ StatisticsInv'
  BY SameAudio, SameMidi, SameStatistics DEF IInv, lists, threads
<1> QED
  BY <1>1, <1>2, <1>3, <1>4, <1>5 DEF IInv

\* The engine channel of a channel
LEMMA CurrentType ==
  ASSUME TypeOK, NEW c \in Channels, HasEC(c)
  PROVE  /\ Current(c) \in EngineChannels /\ Current(c)[1] = c /\ Current(c)[2] = chan[c].type
         /\ \A k \in Channels : Current(k) = Current(c) => k = c
BY DEF TypeOK, HasEC, Current, EngineChannels, ChannelState

\* Another channel is solo if one was.
LEMMA SameHasSolo ==
  ASSUME TypeOK, UNCHANGED <<channels, chan>>, \A x \in EngineChannels : ec'[x].solo = ec[x].solo
  PROVE  HasSolo' <=> HasSolo
<1>1. \A k \in channels : HasEC(k)' = HasEC(k) /\ Current(k)' = Current(k)
  BY DEF HasEC, Current
<1>2. \A k \in channels : HasEC(k) => ec'[Current(k)].solo = ec[Current(k)].solo
  BY CurrentType DEF TypeOK
<1> QED
  BY <1>1, <1>2 DEF HasSolo

\* The engine channel is muted, since another channel is solo.
LEMMA SetSameEngineTypeStep ==
  ASSUME IInv, NEW c \in Channels, SetSameEngineType(c)
  PROVE  IInv'
<1>1. /\ HasEC(c) /\ op = NoCommand /\ ec' = [ec EXCEPT ![Current(c)].mute = "solo"]
      /\ UNCHANGED <<scenario, channels, chan, devices, ports, lists, map, listening, threads, rt, op,
                     failed, crashed>>
  BY DEF SetSameEngineType, Can, Idle
<1>2. Current(c) \in EngineChannels /\ TypeOK
  BY <1>1, CurrentType DEF IInv
<1>3. /\ SameLinks
      /\ \A x \in EngineChannels : /\ ec'[x].solo = ec[x].solo
                                   /\ ec[x].mute # "off" => ec'[x].mute # "off"
  BY <1>1, <1>2 DEF SameLinks, TypeOK
<1>4. SoloInv'
  <2>1. HasSolo' <=> HasSolo
    BY <1>1, <1>2, <1>3, SameHasSolo
  <2>2. SUFFICES ASSUME HasSolo, NEW k \in channels, HasEC(k), ~ ec'[Current(k)].solo
                 PROVE  ec'[Current(k)].mute # "off"
    BY <1>1, <2>1 DEF SoloInv, HasEC, Current
  <2>3. Current(k) \in EngineChannels
    BY <1>2, <2>2, CurrentType DEF TypeOK
  <2> QED
    BY <1>3, <2>2, <2>3 DEF IInv, SoloInv
<1> QED
  BY <1>1, <1>2, <1>3, <1>4, SoloCommand DEF TypeOK, ECState

\* A channel that is not muted by the user stays silent beside a solo channel.
LEMMA SetChannelMuteStep ==
  ASSUME IInv, NEW c \in Channels, NEW mute \in BOOLEAN, SetChannelMute(c, mute)
  PROVE  IInv'
<1> DEFINE m == IF mute THEN "on" ELSE IF HasSolo /\ ~ec[Current(c)].solo THEN "solo" ELSE "off"
<1>1. /\ HasEC(c) /\ op = NoCommand /\ ec' = [ec EXCEPT ![Current(c)].mute = m]
      /\ UNCHANGED <<scenario, channels, chan, devices, ports, lists, map, listening, threads, rt, op,
                     failed, crashed>>
  BY DEF SetChannelMute, Can, Idle
<1>2. Current(c) \in EngineChannels /\ TypeOK
  BY <1>1, CurrentType DEF IInv
<1>3. /\ SameLinks
      /\ ec'[Current(c)].mute = m /\ m \in {"off", "on", "solo"}
      /\ \A x \in EngineChannels : /\ ec'[x].solo = ec[x].solo
                                   /\ x # Current(c) => ec'[x].mute = ec[x].mute
  BY <1>1, <1>2 DEF SameLinks, TypeOK
<1>4. HasSolo' <=> HasSolo
  BY <1>1, <1>2, <1>3, SameHasSolo
<1>5. SoloInv'
  <2>1. SUFFICES ASSUME HasSolo, NEW k \in channels, HasEC(k), ~ ec[Current(k)].solo
                 PROVE  ec'[Current(k)].mute # "off"
    BY <1>1, <1>2, <1>3, <1>4, CurrentType DEF SoloInv, HasEC, Current, TypeOK
  <2>2. Current(k) \in EngineChannels /\ ec[Current(k)].mute # "off"
    BY <1>2, <2>1, CurrentType DEF IInv, SoloInv, TypeOK
  <2> QED
    BY <1>3, <2>1, <2>2
<1>6. ec' \in [EngineChannels -> ECState]
  BY <1>1, <1>2, <1>3 DEF TypeOK, ECState
<1> QED
  BY <1>1, <1>3, <1>5, <1>6, SoloCommand

\* The channel sounds again, and the others are muted.
LEMMA SetSoloStep ==
  ASSUME IInv, NEW c \in Channels, SetSolo(c)
  PROVE  IInv'
<1> DEFINE x == Current(c)
<1>1. /\ c \in channels /\ HasEC(c) /\ op = NoCommand
      /\ ec' = [y \in EngineChannels |->
                  CASE y = x -> [ec[x] EXCEPT !.solo = TRUE, !.mute = IF @ = "solo" THEN "off" ELSE @]
                    [] y \in Others(x) /\ ~HasSolo /\ ec[y].mute = "off" -> [ec[y] EXCEPT !.mute = "solo"]
                    [] OTHER -> ec[y]]
      /\ UNCHANGED <<scenario, channels, chan, devices, ports, lists, map, listening, threads, rt, op,
                     failed, crashed>>
  BY DEF SetSolo, Can, Idle
<1>2. x \in EngineChannels /\ TypeOK
  BY <1>1, CurrentType DEF IInv
<1>3. /\ ec'[x].solo /\ ec'[x].mute \in {"off", "on", "solo"}
      /\ \A y \in EngineChannels \ {x} :
           /\ ec'[y].solo = ec[y].solo
           /\ ec'[y].mute = IF y \in Others(x) /\ ~HasSolo /\ ec[y].mute = "off" THEN "solo" ELSE ec[y].mute
      /\ SameLinks
      /\ ec' \in [EngineChannels -> ECState]
  <2>1. ec \in [EngineChannels -> ECState]
    BY <1>2 DEF TypeOK
  <2>2. /\ \A y \in EngineChannels :
             ec'[y] = IF y = x
                      THEN [ec[x] EXCEPT !.solo = TRUE, !.mute = IF @ = "solo" THEN "off" ELSE @]
                      ELSE IF y \in Others(x) /\ ~HasSolo /\ ec[y].mute = "off"
                      THEN [ec[y] EXCEPT !.mute = "solo"] ELSE ec[y]
        /\ ec' = [y \in EngineChannels |-> ec'[y]]
    BY <1>1, <1>2 DEF Others
  <2>3. ec[x] \in ECState /\ ec'[x] \in ECState /\ ec'[x].solo
        /\ ec'[x].exists = ec[x].exists /\ ec'[x].engine = ec[x].engine
        /\ ec'[x].inputs = ec[x].inputs /\ ec'[x].midi = ec[x].midi
    BY <1>2, <2>1, <2>2 DEF ECState
  <2>4. ASSUME NEW y \in EngineChannels \ {x}
        PROVE  /\ ec'[y].solo = ec[y].solo /\ ec'[y] \in ECState
               /\ ec'[y].mute = IF y \in Others(x) /\ ~HasSolo /\ ec[y].mute = "off"
                                THEN "solo" ELSE ec[y].mute
               /\ ec'[y].exists = ec[y].exists /\ ec'[y].engine = ec[y].engine
               /\ ec'[y].inputs = ec[y].inputs /\ ec'[y].midi = ec[y].midi
    BY <2>1, <2>2 DEF ECState
  <2>5. SameLinks
    BY <2>3, <2>4 DEF SameLinks
  <2>6. ec' \in [EngineChannels -> ECState]
    BY <2>2, <2>3, <2>4
  <2> QED
    BY <2>3, <2>4, <2>5, <2>6 DEF ECState
<1>4. SoloInv'
  <2>1. SUFFICES ASSUME NEW k \in channels, HasEC(k), ~ ec'[Current(k)].solo
                 PROVE  ec'[Current(k)].mute # "off"
    BY <1>1 DEF SoloInv, HasEC, Current
  <2>2. Current(k) \in EngineChannels /\ Current(k) # x /\ Current(k) \in Others(x)
    BY <1>1, <1>2, <1>3, <2>1, CurrentType DEF TypeOK, Others
  <2>3. HasSolo => ec[Current(k)].mute # "off"
    BY <1>3, <2>1, <2>2 DEF IInv, SoloInv
  <2> QED
    BY <1>3, <2>2, <2>3
<1> QED
  BY <1>1, <1>3, <1>4, SoloCommand

\* The channel is muted if another one stays solo, else all others sound again.
LEMMA UnsetSoloStep ==
  ASSUME IInv, NEW c \in Channels, UnsetSolo(c)
  PROVE  IInv'
<1> DEFINE x == Current(c)
           soloLeft == \E y \in Others(x) : ec[y].solo
<1>1. /\ c \in channels /\ HasEC(c) /\ ec[x].solo /\ op = NoCommand
      /\ ec' = [y \in EngineChannels |->
                  CASE y = x /\ soloLeft ->
                         [ec[x] EXCEPT !.solo = FALSE, !.mute = IF @ = "off" THEN "solo" ELSE @]
                    [] y \in Others(x) \cup {x} /\ ~soloLeft ->
                         [ec[y] EXCEPT !.solo = FALSE, !.mute = IF @ = "solo" THEN "off" ELSE @]
                    [] OTHER -> ec[y]]
      /\ UNCHANGED <<scenario, channels, chan, devices, ports, lists, map, listening, threads, rt, op,
                     failed, crashed>>
  BY DEF UnsetSolo, Can, Idle
<1>2. x \in EngineChannels /\ TypeOK
  BY <1>1, CurrentType DEF IInv
<1>3. /\ SameLinks
      /\ ec' \in [EngineChannels -> ECState]
      /\ soloLeft => /\ ec'[x].mute # "off"
                     /\ \A y \in EngineChannels \ {x} : ec'[y] = ec[y]
      /\ ~ soloLeft => \A y \in Others(x) \cup {x} : y \in EngineChannels => ~ ec'[y].solo
  <2>1. ec \in [EngineChannels -> ECState]
    BY <1>2 DEF TypeOK
  <2>2. /\ \A y \in EngineChannels :
             ec'[y] = IF y = x /\ soloLeft
                      THEN [ec[y] EXCEPT !.solo = FALSE, !.mute = IF @ = "off" THEN "solo" ELSE @]
                      ELSE IF y \in Others(x) \cup {x} /\ ~ soloLeft
                      THEN [ec[y] EXCEPT !.solo = FALSE, !.mute = IF @ = "solo" THEN "off" ELSE @]
                      ELSE ec[y]
        /\ ec' = [y \in EngineChannels |-> ec'[y]]
    BY <1>1, <1>2
  <2>3. ASSUME NEW y \in EngineChannels
        PROVE  /\ ec'[y] \in ECState
               /\ soloLeft /\ y = x => ec'[y].mute # "off"
               /\ soloLeft /\ y # x => ec'[y] = ec[y]
               /\ ~ soloLeft /\ y \in Others(x) \cup {x} => ~ ec'[y].solo
               /\ ec'[y].exists = ec[y].exists /\ ec'[y].engine = ec[y].engine
               /\ ec'[y].inputs = ec[y].inputs /\ ec'[y].midi = ec[y].midi
    <3> HIDE DEF soloLeft, x
    <3>1. ec[y] \in ECState
      BY <2>1
    <3>2. CASE y = x /\ soloLeft
      <4>1. ec'[y] = [ec[y] EXCEPT !.solo = FALSE, !.mute = IF @ = "off" THEN "solo" ELSE @]
        BY <2>2, <3>2
      <4> QED
        BY <3>1, <3>2, <4>1 DEF ECState
    <3>3. CASE y \in Others(x) \cup {x} /\ ~ soloLeft
      <4>1. ec'[y] = [ec[y] EXCEPT !.solo = FALSE, !.mute = IF @ = "solo" THEN "off" ELSE @]
        BY <2>2, <3>3
      <4> QED
        BY <3>1, <3>3, <4>1 DEF ECState
    <3>4. CASE ~ (y = x /\ soloLeft) /\ ~ (y \in Others(x) \cup {x} /\ ~ soloLeft)
      BY <2>2, <3>1, <3>4 DEF ECState
    <3> QED
      BY <3>2, <3>3, <3>4
  <2>4. SameLinks
    BY <2>3 DEF SameLinks
  <2>5. ec' \in [EngineChannels -> ECState]
    BY <2>2, <2>3
  <2> QED
    BY <1>2, <2>3, <2>4, <2>5
<1>4. SoloInv'
  <2>1. SUFFICES ASSUME HasSolo', NEW k \in channels, HasEC(k), ~ ec'[Current(k)].solo
                 PROVE  ec'[Current(k)].mute # "off"
    BY <1>1 DEF SoloInv, HasEC, Current
  <2>2. \A i \in channels : HasEC(i) =>
          Current(i) \in EngineChannels /\ Current(i) \in Others(x) \cup {x}
    BY <1>2, CurrentType DEF TypeOK, Others
  <2>3. soloLeft
    BY <1>1, <1>3, <2>1, <2>2 DEF HasSolo, HasEC, Current
  <2>4. HasSolo
    BY <1>1 DEF HasSolo
  <2> QED
    BY <1>3, <2>1, <2>2, <2>3, <2>4 DEF IInv, SoloInv
<1> QED
  BY <1>1, <1>3, <1>4, SoloCommand

\* Only the listener of the LSCP server is gone.
LEMMA SetUnknownEngineTypeStep ==
  ASSUME IInv, NEW c \in Channels, SetUnknownEngineType(c)
  PROVE  IInv'
<1>1. /\ listening' \subseteq listening
      /\ UNCHANGED <<scenario, channels, chan, ec, devices, ports, lists, map, threads, rt, op, failed,
                     crashed>>
  BY DEF SetUnknownEngineType, Can, EngineToBeChanged
<1>2. SameLinks
  BY <1>1, Unchanged
<1>3. TypeOK'
  BY <1>1 DEF IInv, TypeOK, lists, threads
<1>4. CommandInv' /\ ChannelsInv' /\ ExistsInv' /\ EngineInv' /\ DeviceInv' /\ SoloInv'
  BY <1>1, <1>2, SameCommand, SameChannels, SameExists, SameEngine, SameDevice, SameSolo DEF IInv, lists
<1>5. MembersInv' /\ RenderedInv' /\ MapInv'
  BY <1>1, <1>2, SameMembers, SameRendered, SameMap DEF IInv, lists
<1>6. NewInv'
  BY <1>1 DEF IInv, NewInv, New, Old, Current, ListenersExist
<1>7. AudioInv' /\ MidiInv' /\ StatisticsInv'
  BY <1>1, <1>2, SameAudio, SameMidi, SameStatistics DEF IInv, lists, threads
<1> QED
  BY <1>3, <1>4, <1>5, <1>6, <1>7 DEF IInv

-----------------------------------------------------------------------------
(* Commands of one step: MIDI inputs *)

\* After MidiInputPort::Connect() and Disconnect(), a port knows the engine channel
\* exactly if it is one of the ports P.
LEMMA RemapConnections ==
  ASSUME TypeOK, NEW x \in EngineChannels, NEW P \in SUBSET MidiPorts, NEW m \in MidiChannels,
         NEW p \in MidiPorts, map[p] = Connections(p),
         ec'[x].inputs = P, ec'[x].midi = m, \A y \in EngineChannels \ {x} : ec'[y] = ec[y]
  PROVE  Remapped(p, x, P, m) = Connections(p)'
<1>1. ASSUME NEW z \in Remapped(p, x, P, m) PROVE z \in Connections(p)'
  <2>1. CASE z \in map[p] /\ z[1] # x
    <3>1. PICK y \in EngineChannels : p \in ec[y].inputs /\ z = <<y, ec[y].midi>>
      BY <2>1 DEF Connections
    <3>2. p \in ec'[y].inputs /\ z = <<y, ec'[y].midi>>
      BY <2>1, <3>1
    <3> QED
      BY <3>2 DEF Connections
  <2>2. CASE p \in P /\ z = <<x, m>>
    BY <2>2 DEF Connections
  <2> QED
    BY <1>1, <2>1, <2>2 DEF Remapped
<1>2. ASSUME NEW z \in Connections(p)' PROVE z \in Remapped(p, x, P, m)
  <2>1. PICK y \in EngineChannels : p \in ec'[y].inputs /\ z = <<y, ec'[y].midi>>
    BY <1>2 DEF Connections
  <2>2. CASE y = x
    BY <2>1, <2>2 DEF Remapped
  <2>3. CASE y # x
    <3>1. p \in ec[y].inputs /\ z = <<y, ec[y].midi>> /\ z[1] # x
      BY <2>1, <2>3
    <3>2. z \in Connections(p)
      BY <3>1 DEF Connections
    <3> QED
      BY <3>1, <3>2 DEF Remapped
  <2> QED
    BY <2>2, <2>3
<1> QED
  BY <1>1, <1>2

\* A MIDI thread that is in an event while the connections of its port change is waited
\* for: nothing that it may yet call is forgotten.
LEMMA RemapMidi ==
  ASSUME TypeOK, MidiInv, Settled, NEW x \in EngineChannels, NEW P, NEW m, Remap(x, P, m),
         \A y \in EngineChannels : ec'[y].exists = ec[y].exists, UNCHANGED sysex
  PROVE  MidiInv'
<1>1. ASSUME NEW p \in MidiPorts
      PROVE  /\ midi'[p].kind = midi[p].kind /\ midi'[p].todo = midi[p].todo
             /\ midi'[p].at = midi[p].at /\ midi'[p].engine = midi[p].engine
             /\ midi'[p].old = (midi[p].kind = "event" /\ map'[p] # map[p])
             /\ midi[p].kind = "none" => midi'[p] = NoEvent
             /\ midi[p].old = FALSE
  <2>1. midi'[p] = [midi[p] EXCEPT !.old = (midi[p].kind = "event" /\ map'[p] # map[p])]
    BY DEF Remap
  <2>2. midi[p] \in MidiState /\ midi[p].old = FALSE
    BY DEF TypeOK, MidiState, Settled
  <2>3. midi[p].kind = "none" => midi'[p] = NoEvent
    <3>1. midi[p].kind = "none" => midi[p] = NoEvent
      BY DEF MidiInv, MidiEventInv
    <3>2. midi[p].kind = "none" => midi'[p] = [NoEvent EXCEPT !.old = FALSE]
      BY <2>1, <3>1
    <3> QED
      BY <3>2 DEF NoEvent
  <2> QED
    BY <2>1, <2>2, <2>3 DEF MidiState
<1>2. ASSUME NEW p \in MidiPorts, midi[p].kind = "event",
             NEW y \in EngineChannels, y \in midi[p].todo \/ y = midi[p].at
      PROVE  ec'[y].exists /\ (midi'[p].old \/ y \in Mapped(p)')
  <2>1. ec[y].exists /\ y \in Mapped(p)
    BY <1>1, <1>2 DEF MidiInv, MidiEventInv
  <2>2. map'[p] = map[p] => Mapped(p)' = Mapped(p)
    BY DEF Mapped
  <2>3. map'[p] # map[p] => midi'[p].old
    BY <1>1, <1>2
  <2> QED
    BY <2>1, <2>2, <2>3
<1>3. ASSUME NEW p \in MidiPorts, midi[p].kind = "event"
      PROVE  midi'[p].todo \subseteq EngineChannels /\ midi'[p].at \in EngineChannels \cup {None}
  BY <1>1, <1>3 DEF MidiInv, MidiEventInv
<1>4. ASSUME NEW p \in MidiPorts, midi[p].kind = "sysex"
      PROVE  /\ midi'[p].todo \subseteq sysex' /\ midi'[p].at \in {None} \cup sysex'
             /\ midi'[p].old = FALSE
  BY <1>1, <1>4 DEF MidiInv, MidiEventInv
<1>5. ASSUME NEW p \in MidiPorts PROVE MidiEventInv(p)'
  BY <1>1, <1>2, <1>3, <1>4 DEF MidiEventInv
<1> QED
  BY <1>5 DEF MidiInv

\* A command that changes what an engine channel x, or the channel without one, has
\* to do with MIDI
LEMMA MidiCommand ==
  ASSUME IInv, Idle, midiUnchanged, chan' \in [Channels -> ChannelState], crashed' \in BOOLEAN,
         \A c \in Channels : chan'[c].type = chan[c].type /\ chan'[c].device = chan[c].device,
         \/ UNCHANGED <<ec, map, midi>>
         \/ \E x \in EngineChannels, P \in SUBSET ports, m \in MidiChannels :
              /\ ec[x].exists /\ Remap(x, P, m)
              /\ ec' = [ec EXCEPT ![x].inputs = P, ![x].midi = m]
  PROVE  IInv'
<1>1. /\ op.cmd = "none" /\ op.step = "" /\ op.left = {} /\ op.ports = {} /\ op.chan = None
      /\ UNCHANGED <<scenario, channels, devices, ports, lists, listening, audio, stats, rt, op, failed>>
  BY Idling DEF midiUnchanged
<1>2. TypeOK /\ ChannelsInv /\ ExistsInv
  BY DEF IInv
<1> DEFINE Typed == ec' \in [EngineChannels -> ECState]
           Same(y) == /\ ec'[y].exists = ec[y].exists /\ ec'[y].engine = ec[y].engine
                      /\ ec'[y].mute = ec[y].mute /\ ec'[y].solo = ec[y].solo
                      /\ ec'[y].inputs \subseteq ports
                      /\ ~ ec[y].exists => ec'[y].inputs = {}
<1>3. Typed /\ \A y \in EngineChannels : Same(y)
  <2>1. CASE UNCHANGED <<ec, map, midi>>
    BY <1>2, <2>1 DEF TypeOK, ChannelsInv, ExistsInv
  <2>2. ASSUME NEW x \in EngineChannels, NEW P \in SUBSET ports, NEW m \in MidiChannels, ec[x].exists,
               ec' = [ec EXCEPT ![x].inputs = P, ![x].midi = m]
        PROVE  Typed /\ \A y \in EngineChannels : Same(y)
    <3>1. ec \in [EngineChannels -> ECState] /\ P \subseteq MidiPorts
      BY <1>2 DEF TypeOK
    <3>2. /\ ec'[x] = [ec[x] EXCEPT !.inputs = P, !.midi = m]
          /\ \A y \in EngineChannels \ {x} : ec'[y] = ec[y]
          /\ ec' = [y \in EngineChannels |-> ec'[y]]
      BY <2>2, <3>1
    <3>3. Same(x) /\ ec'[x] \in ECState
      BY <2>2, <3>1, <3>2 DEF ECState
    <3>4. \A y \in EngineChannels \ {x} : Same(y) /\ ec'[y] \in ECState
      BY <1>2, <3>1, <3>2 DEF ChannelsInv, ExistsInv
    <3> QED
      BY <3>2, <3>3, <3>4
  <2> QED
    BY <2>1, <2>2
<1>4. \A c \in Channels : HasEC(c)' = HasEC(c) /\ Current(c)' = Current(c)
  BY DEF HasEC, Current
<1>5. \A c \in Channels : HasEC(c) => Current(c) \in EngineChannels
  BY <1>2, CurrentType
<1>6. CommandInv' /\ EngineInv'
  BY <1>1 DEF IInv, CommandInv, EngineInv
<1>7. ChannelsInv'
  BY <1>1, <1>3 DEF IInv, ChannelsInv
<1>8. ExistsInv'
  <2>1. \A y \in EngineChannels : Current(y[1])' = Current(y[1])
    BY Pairs DEF Current
  <2> QED
    BY <1>1, <1>3, <2>1 DEF IInv, ExistsInv
<1>9. DeviceInv'
  <2>1. ASSUME NEW c \in Channels, HasEC(c)
        PROVE  /\ ec'[Current(c)].engine \in {None, chan'[c].device}
               /\ c \in channels \ (failed \cup {op.chan}) => ec'[Current(c)].engine = chan'[c].device
    BY <1>3, <1>5, <2>1 DEF IInv, DeviceInv
  <2> QED
    BY <1>1, <2>1 DEF DeviceInv, HasEC, Current
<1>10. MembersInv'
  <2>1. \A y \in EngineChannels : EngineOf(y)' = EngineOf(y)
    BY <1>3 DEF EngineOf
  <2>2. \A e \in Engines : {y \in EngineChannels : EngineOf(y) = e}' = {y \in EngineChannels : EngineOf(y) = e}
    BY <2>1
  <2> QED
    BY <1>1, <2>2 DEF IInv, MembersInv, lists
<1>11. RenderedInv' /\ AudioInv'
  BY <1>1, SameRendered, SameAudio DEF IInv, lists
<1>12. NewInv'
  BY <1>1, <1>2, <1>3 DEF IInv, NewInv, ListenersExist, TypeOK
<1>13. SoloInv'
  <2>1. channels' = channels /\ channels \subseteq Channels
    BY <1>1, <1>2 DEF TypeOK
  <2>2. HasSolo' <=> HasSolo
    BY <1>3, <1>4, <1>5, <2>1 DEF HasSolo
  <2> QED
    BY <1>3, <1>4, <1>5, <2>1, <2>2 DEF IInv, SoloInv
<1>14. StatisticsInv'
  BY <1>1, <1>2, <1>3 DEF IInv, StatisticsInv, StatisticsReadWhatExists, lists, TypeOK, StatisticsState
<1> DEFINE Connected == /\ MapInv /\ MidiInv /\ midi \in [MidiPorts -> MidiState]
                        /\ map \in [MidiPorts -> SUBSET (EngineChannels \X MidiChannels)]
<1>15. Connected'
  <2>1. \A p \in MidiPorts : map[p] = Connections(p)
    BY <1>1 DEF IInv, MapInv
  <2>2. CASE UNCHANGED <<ec, map, midi>>
    <3>1. \A p \in MidiPorts : Connections(p)' = Connections(p)
      BY <2>2 DEF Connections
    <3>2. MapInv'
      BY <1>1, <2>1, <2>2, <3>1 DEF MapInv
    <3>3. MidiInv'
      BY <1>1, <2>2, SameMidi, Unchanged DEF IInv, lists
    <3> QED
      BY <1>2, <2>2, <3>2, <3>3 DEF TypeOK
  <2>3. ASSUME NEW x \in EngineChannels, NEW P \in SUBSET ports, NEW m \in MidiChannels,
               Remap(x, P, m), ec' = [ec EXCEPT ![x].inputs = P, ![x].midi = m]
        PROVE  Connected'
    <3>1. P \in SUBSET MidiPorts
      BY <1>2 DEF TypeOK
    <3>2. ASSUME NEW p \in MidiPorts PROVE map'[p] = Connections(p)'
      <4>1. map'[p] = Remapped(p, x, P, m)
        BY <2>3 DEF Remap
      <4>2. TypeOK /\ map[p] = Connections(p)
        BY <1>2, <2>1
      <4>3. ec'[x].inputs = P /\ ec'[x].midi = m /\ \A y \in EngineChannels \ {x} : ec'[y] = ec[y]
        BY <2>3, <4>2 DEF TypeOK, ECState
      <4>4. Remapped(p, x, P, m) = Connections(p)'
        BY ONLY <4>2, <4>3, <3>1, x \in EngineChannels, m \in MidiChannels, p \in MidiPorts, RemapConnections
      <4> QED
        BY <4>1, <4>4
    <3>3. MapInv'
      BY <1>1, <3>2 DEF MapInv
    <3>4. MidiInv'
      BY <1>1, <1>2, <1>3, <2>3, RemapMidi DEF IInv, Idle, lists
    <3>5. map' \in [MidiPorts -> SUBSET (EngineChannels \X MidiChannels)]
      <4>1. \A p \in MidiPorts : Connections(p)' \subseteq EngineChannels \X MidiChannels
        BY <1>3 DEF Connections, ECState
      <4> QED
        BY <2>3, <3>2, <4>1 DEF Remap
    <3>6. midi' \in [MidiPorts -> MidiState]
      <4>1. midi' = [p \in MidiPorts |->
               [midi[p] EXCEPT !.old = midi[p].kind = "event" /\ map[p] # Remapped(p, x, P, m)]]
        BY <2>3 DEF Remap
      <4>2. \A p \in MidiPorts : midi[p] \in MidiState
        BY <1>2 DEF TypeOK
      <4>3. \A p \in MidiPorts :
              [midi[p] EXCEPT !.old = midi[p].kind = "event" /\ map[p] # Remapped(p, x, P, m)] \in MidiState
        BY <4>2 DEF MidiState
      <4> QED
        BY <4>1, <4>3
    <3> QED
      BY <3>3, <3>4, <3>5, <3>6
  <2> QED
    BY <2>2, <2>3
<1>16. TypeOK'
  BY <1>1, <1>2, <1>3, <1>15 DEF TypeOK, lists
<1> QED
  BY <1>6, <1>7, <1>8, <1>9, <1>10, <1>11, <1>12, <1>13, <1>14, <1>15, <1>16 DEF IInv

\* The ports of a channel exist.
LEMMA InputsExist ==
  ASSUME IInv, NEW c \in Channels
  PROVE  Inputs(c) \subseteq ports
BY CurrentType DEF IInv, Inputs, ChannelsInv

\* Reconnect() is one of the two, or the program crashes.
LEMMA ReconnectCommand ==
  ASSUME IInv, Idle, NEW c \in Channels, HasEC(c), NEW P \in SUBSET ports, NEW m \in MidiChannels,
         Reconnect(Current(c), P, m)
  PROVE  /\ \/ UNCHANGED <<ec, map, midi>>
            \/ \E x \in EngineChannels, Q \in SUBSET ports, n \in MidiChannels :
                 /\ ec[x].exists /\ Remap(x, Q, n)
                 /\ ec' = [ec EXCEPT ![x].inputs = Q, ![x].midi = n]
         /\ crashed' \in BOOLEAN
<1>1. Current(c) \in EngineChannels /\ ec[Current(c)].exists
  BY CurrentType DEF IInv, ExistsInv
<1>2. CASE m # ec[Current(c)].midi /\ ec[Current(c)].engine = None
  BY <1>2 DEF Reconnect
<1>3. CASE ~ (m # ec[Current(c)].midi /\ ec[Current(c)].engine = None)
  <2>1. /\ Remap(Current(c), P, m)
        /\ ec' = [ec EXCEPT ![Current(c)].inputs = P, ![Current(c)].midi = m]
        /\ crashed' = crashed
    BY <1>3 DEF Reconnect
  <2> QED
    BY <1>1, <2>1 DEF IInv, TypeOK
<1> QED
  BY <1>2, <1>3

\* The engine channel is connected to one more port, or the channel remembers it.
LEMMA AddChannelMidiInputStep ==
  ASSUME IInv, NEW c \in Channels, NEW p \in MidiPorts, AddChannelMidiInput(c, p)
  PROVE  IInv'
<1>1. Idle /\ midiUnchanged /\ TypeOK /\ p \in ports
  BY DEF AddChannelMidiInput, Can, IInv
<1>2. CASE HasEC(c)
  <2>1. chan' = chan /\ Reconnect(Current(c), Inputs(c) \cup {p}, ec[Current(c)].midi)
    BY <1>2 DEF AddChannelMidiInput
  <2>2. ec[Current(c)].midi \in MidiChannels /\ Inputs(c) \cup {p} \in SUBSET ports
    BY <1>1, <1>2, CurrentType, InputsExist DEF TypeOK, ECState
  <2>3. chan' \in [Channels -> ChannelState]
    BY <1>1, <2>1 DEF TypeOK
  <2> QED
    BY <1>1, <1>2, <2>1, <2>2, <2>3, ReconnectCommand, MidiCommand
<1>3. CASE ~ HasEC(c)
  <2>1. chan' = [chan EXCEPT ![c].remembered = @ \cup {p}] /\ UNCHANGED <<ec, map, midi, crashed>>
    BY <1>3 DEF AddChannelMidiInput
  <2>2. /\ chan' \in [Channels -> ChannelState] /\ crashed' \in BOOLEAN
        /\ \A k \in Channels : chan'[k].type = chan[k].type /\ chan'[k].device = chan[k].device
    BY <1>1, <2>1 DEF TypeOK, ChannelState
  <2> QED
    BY <1>1, <2>1, <2>2, MidiCommand
<1> QED
  BY <1>2, <1>3

\* The engine channel is disconnected from one port, or the channel forgets it.
LEMMA RemoveChannelMidiInputStep ==
  ASSUME IInv, NEW c \in Channels, NEW p \in MidiPorts, RemoveChannelMidiInput(c, p)
  PROVE  IInv'
<1>1. Idle /\ midiUnchanged /\ TypeOK
  BY DEF RemoveChannelMidiInput, Can, IInv
<1>2. CASE HasEC(c)
  <2>1. chan' = chan /\ Reconnect(Current(c), Inputs(c) \ {p}, ec[Current(c)].midi)
    BY <1>2 DEF RemoveChannelMidiInput
  <2>2. ec[Current(c)].midi \in MidiChannels /\ Inputs(c) \ {p} \in SUBSET ports
    BY <1>1, <1>2, CurrentType, InputsExist DEF TypeOK, ECState
  <2>3. chan' \in [Channels -> ChannelState]
    BY <1>1, <2>1 DEF TypeOK
  <2> QED
    BY <1>1, <1>2, <2>1, <2>2, <2>3, ReconnectCommand, MidiCommand
<1>3. CASE ~ HasEC(c)
  <2>1. chan' = [chan EXCEPT ![c].remembered = @ \ {p}] /\ UNCHANGED <<ec, map, midi, crashed>>
    BY <1>3 DEF RemoveChannelMidiInput
  <2>2. /\ chan' \in [Channels -> ChannelState] /\ crashed' \in BOOLEAN
        /\ \A k \in Channels : chan'[k].type = chan[k].type /\ chan'[k].device = chan[k].device
    BY <1>1, <2>1 DEF TypeOK, ChannelState
  <2> QED
    BY <1>1, <2>1, <2>2, MidiCommand
<1> QED
  BY <1>2, <1>3

\* The ports know the engine channel by its new MIDI channel.
LEMMA SetMidiInputChannelStep ==
  ASSUME IInv, NEW c \in Channels, NEW m \in MidiChannels, SetMidiInputChannel(c, m)
  PROVE  IInv'
<1>1. Idle /\ midiUnchanged /\ TypeOK
  BY DEF SetMidiInputChannel, Can, IInv
<1>2. /\ chan' \in [Channels -> ChannelState]
      /\ \A k \in Channels : chan'[k].type = chan[k].type /\ chan'[k].device = chan[k].device
  <2>1. chan' = chan \/ chan' = [chan EXCEPT ![c].midi = m]
    BY DEF SetMidiInputChannel
  <2>2. chan \in [Channels -> ChannelState]
    BY <1>1 DEF TypeOK
  <2>3. CASE chan' = [chan EXCEPT ![c].midi = m]
    BY <2>2, <2>3 DEF ChannelState
  <2> QED
    BY <2>1, <2>2, <2>3
<1>3. CASE HasEC(c)
  <2>1. Reconnect(Current(c), Inputs(c), m) /\ Inputs(c) \in SUBSET ports
    BY <1>3, InputsExist DEF SetMidiInputChannel
  <2> QED
    BY <1>1, <1>2, <1>3, <2>1, ReconnectCommand, MidiCommand
<1>4. CASE ~ HasEC(c)
  <2>1. UNCHANGED <<ec, map, midi, crashed>> /\ crashed' \in BOOLEAN
    BY <1>1, <1>4 DEF SetMidiInputChannel, TypeOK
  <2> QED
    BY <1>1, <1>2, <2>1, MidiCommand
<1> QED
  BY <1>3, <1>4

\* The engine channel is connected to one port alone.
LEMMA SetMidiInputStep ==
  ASSUME IInv, NEW c \in Channels, NEW p \in MidiPorts, NEW m \in MidiChannels, SetMidiInput(c, p, m)
  PROVE  IInv'
<1>1. Idle /\ midiUnchanged /\ TypeOK /\ {p} \in SUBSET ports
  BY DEF SetMidiInput, Can, IInv
<1>2. /\ chan' \in [Channels -> ChannelState]
      /\ \A k \in Channels : chan'[k].type = chan[k].type /\ chan'[k].device = chan[k].device
  <2>1. chan' = chan \/ chan' = [chan EXCEPT ![c].midi = m,
                                            ![c].remembered = IF HasEC(c) THEN @ ELSE {p}]
    BY DEF SetMidiInput
  <2>2. CASE chan' = chan
    BY <1>1, <2>2 DEF TypeOK
  <2>3. CASE chan' = [chan EXCEPT ![c].midi = m, ![c].remembered = IF HasEC(c) THEN @ ELSE {p}]
    <3>1. chan \in [Channels -> ChannelState] /\ {p} \subseteq MidiPorts
      BY <1>1 DEF TypeOK
    <3> DEFINE r == IF HasEC(c) THEN chan[c].remembered ELSE {p}
    <3>4. r \subseteq MidiPorts
      BY <3>1 DEF ChannelState
    <3>2. /\ chan'[c] = [chan[c] EXCEPT !.midi = m, !.remembered = r]
          /\ \A k \in Channels \ {c} : chan'[k] = chan[k]
          /\ chan' = [k \in Channels |-> chan'[k]]
      BY <2>3, <3>1
    <3>3. chan'[c] \in ChannelState /\ chan'[c].type = chan[c].type /\ chan'[c].device = chan[c].device
      <4> HIDE DEF r
      <4> QED
        BY <3>1, <3>2, <3>4 DEF ChannelState
    <3> QED
      BY <3>1, <3>2, <3>3
  <2> QED
    BY <2>1, <2>2, <2>3
<1>3. CASE HasEC(c)
  <2>1. Reconnect(Current(c), {p}, m)
    BY <1>3 DEF SetMidiInput
  <2> QED
    BY <1>1, <1>2, <1>3, <2>1, ReconnectCommand, MidiCommand
<1>4. CASE ~ HasEC(c)
  <2>1. UNCHANGED <<ec, map, midi, crashed>> /\ crashed' \in BOOLEAN
    BY <1>1, <1>4 DEF SetMidiInput, TypeOK
  <2> QED
    BY <1>1, <1>2, <2>1, MidiCommand
<1> QED
  BY <1>3, <1>4

-----------------------------------------------------------------------------
(* Commands of several steps: their beginning *)

\* What the engines, the devices and the threads know does not change when a command
\* begins.
LEMMA Begin ==
  ASSUME IInv, Idle, op'.step \in {"unrender", "acquire", "destroy"}, op'.engine = None, rt' = "lscp",
         UNCHANGED <<devices, map, audio, midi, lists>>,
         \A x \in EngineChannels : /\ ec'[x].engine = ec[x].engine
                                   /\ ec[x].exists => ec'[x].exists
  PROVE  MembersInv' /\ RenderedInv' /\ AudioInv' /\ MidiInv' /\ StatisticsInv'
<1>1. /\ op.step = "" /\ op.engine = None
      /\ \A d \in AudioDevices : ~ audio[d].old
      /\ \A p \in MidiPorts : ~ midi[p].old
      /\ op'.step \notin {"delete", "join", "await", "render", "unmap", "leave"}
  BY Idling
<1>2. MembersInv'
  <2>1. \A x \in EngineChannels : EngineOf(x)' = EngineOf(x)
    BY DEF EngineOf
  <2>2. \A e \in Engines : {x \in EngineChannels : EngineOf(x) = e}' = {x \in EngineChannels : EngineOf(x) = e}
    BY <2>1
  <2> QED
    BY <1>1, <2>2 DEF IInv, MembersInv, lists
<1>3. RenderedInv'
  <2>1. disabled = {} /\ \A d \in AudioDevices : rendered[d] = EnginesOn(d) /\ None \notin rendered[d]
    BY <1>1, RenderedTypes DEF IInv, RenderedInv, Removing
  <2> QED
    BY <1>1, <2>1 DEF RenderedInv, EnginesOn, lists, Removing
<1>4. AudioInv'
  BY <1>1 DEF IInv, AudioInv, AudioCycleInv, lists
<1>5. MidiInv'
  BY <1>1 DEF IInv, MidiInv, MidiEventInv, Mapped, lists
<1>6. StatisticsInv'
  BY DEF StatisticsInv, StatisticsReadWhatExists
<1> QED
  BY <1>2, <1>3, <1>4, <1>5, <1>6

\* Nothing exists or ceases to exist as long as channels keep their types.
LEMMA KeptExists ==
  ASSUME ExistsInv, SameLinks, \A k \in Channels : chan'[k].type = chan[k].type,
         op.cmd # "SetEngineType", op'.cmd # "SetEngineType"
  PROVE  ExistsInv'
<1>1. \A y \in EngineChannels : Current(y[1])' = Current(y[1])
  BY Pairs DEF Current
<1> QED
  BY <1>1 DEF ExistsInv, SameLinks

\* Engine channels that a channel keeps stay on its device.
LEMMA KeptDevice ==
  ASSUME DeviceInv, channels' \ (failed' \cup {op'.chan}) \subseteq channels \ (failed \cup {op.chan}),
         NEW K \in SUBSET Channels,
         \A k \in Channels \ K : chan'[k].type = None,
         \A k \in K : chan'[k].type = chan[k].type,
         \A k \in K : HasEC(k) => /\ chan'[k].device = chan[k].device
                                  /\ ec'[Current(k)].engine = ec[Current(k)].engine
  PROVE  DeviceInv'
<1>1. \A k \in Channels : HasEC(k)' => k \in K /\ HasEC(k)
  BY DEF HasEC
<1>2. \A k \in K : Current(k)' = Current(k)
  BY DEF Current
<1>3. ASSUME NEW k \in K, HasEC(k)
      PROVE  /\ ec'[Current(k)].engine \in {None, chan'[k].device}
             /\ k \in channels' \ (failed' \cup {op'.chan}) => ec'[Current(k)].engine = chan'[k].device
  BY <1>3 DEF DeviceInv
<1>4. ASSUME NEW k \in Channels, HasEC(k)'
      PROVE  /\ ec'[Current(k)'].engine \in {None, chan'[k].device}
             /\ k \in channels' \ (failed' \cup {op'.chan}) => ec'[Current(k)'].engine = chan'[k].device
  BY <1>1, <1>2, <1>3, <1>4
<1> QED
  BY <1>4 DEF DeviceInv

\* Nor do the ports learn of it.
LEMMA BeginMap ==
  ASSUME IInv, Idle, op'.step \in {"unrender", "acquire"} \/ op'.cmd = "SetAudioOutputDevice",
         op'.left = {}, map' = map,
         \A x \in EngineChannels : /\ ec'[x].inputs = ec[x].inputs
                                   /\ ec[x].inputs # {} => ec'[x].midi = ec[x].midi
  PROVE  MapInv'
<1>1. op.left = {}
  BY Idling
<1>2. ASSUME NEW p \in MidiPorts PROVE Connections(p)' = Connections(p)
  BY DEF Connections
<1> QED
  BY <1>1, <1>2 DEF IInv, MapInv

\* The channel is taken from the sampler before its connections are taken apart.
LEMMA RemoveChannelStep ==
  ASSUME IInv, NEW c \in Channels, RemoveChannel(c)
  PROVE  IInv'
<1>1. /\ Idle /\ op.cmd = "none" /\ op.step = "" /\ op.chan = None /\ op.engine = None /\ op.left = {}
      /\ op.ports = {} /\ rt = "free" /\ c \in channels /\ channels' = channels \ {c}
      /\ listening' = listening \ {Current(c)}
      /\ UNCHANGED <<scenario, ec, devices, ports, lists, map, threads, crashed>>
  BY Idling DEF RemoveChannel, Can, EngineToBeChanged
<1>2. SameLinks
  BY <1>1, Unchanged
<1>3. TypeOK
  BY DEF IInv
<1>4. CASE HasEC(c)
  <2>1. rt' = "lscp" /\ chan' = chan /\ failed' = failed /\ "RemoveChannel" \in scenario.commands
    BY <1>4 DEF RemoveChannel, Can
  <2>2. /\ op'.cmd = "RemoveChannel" /\ op'.step = "unrender" /\ op'.chan = c /\ op'.type = None
        /\ op'.engine = None /\ op'.left = {} /\ op'.ports = {} /\ op' \in Operation
    <3>1. op' = [NoCommand EXCEPT !.cmd = "RemoveChannel", !.step = "unrender", !.chan = c]
      BY <1>4 DEF RemoveChannel
    <3> QED
      BY <3>1 DEF NoCommand, Operation, Removing
  <2>3. TypeOK'
    BY <1>1, <1>3, <2>1, <2>2 DEF TypeOK, lists, threads
  <2>4. CommandInv' /\ ChannelsInv' /\ EngineInv'
    <3>1. CommandInv'
      <4>1. /\ op'.step # "" /\ op'.step \in Removing /\ rt' = "lscp"
            /\ op'.chan \in Channels /\ op'.chan \notin channels' /\ chan'[op'.chan].type # None
        BY <1>1, <1>4, <2>1, <2>2 DEF HasEC, Removing
      <4> QED
        BY <2>2, <4>1 DEF CommandInv
    <3>2. ChannelsInv'
      BY <1>1, <2>1, <2>2 DEF IInv, ChannelsInv
    <3>3. EngineInv'
      BY <2>2 DEF EngineInv
    <3> QED
      BY <3>1, <3>2, <3>3
  <2>5. ExistsInv'
    BY <1>1, <2>1, <2>2 DEF IInv, ExistsInv, Current
  <2>6. DeviceInv'
    <3>1. channels' \ (failed' \cup {op'.chan}) \subseteq channels \ (failed \cup {op.chan})
      BY <1>1, <1>3, <2>1, <2>2, Pairs DEF TypeOK
    <3> QED
      BY <1>1, <2>1, <3>1, KeptDevice DEF IInv
  <2>7. MembersInv' /\ RenderedInv' /\ AudioInv' /\ MidiInv' /\ StatisticsInv'
    BY <1>1, <2>1, <2>2, Begin DEF threads
  <2>8. MapInv'
    BY <1>1, <2>2, BeginMap
  <2>9. NewInv'
    <3>1. Old' = Current(c)
      BY <2>1, <2>2 DEF Old, Current
    <3> QED
      BY <1>1, <2>2, <3>1 DEF IInv, NewInv, ListenersExist
  <2>10. SoloInv'
    BY <1>1, <2>1 DEF IInv, SoloInv, HasSolo, HasEC, Current
  <2> QED
    BY <2>3, <2>4, <2>5, <2>6, <2>7, <2>8, <2>9, <2>10 DEF IInv
<1>5. CASE ~ HasEC(c)
  <2>1. /\ op' = op /\ rt' = rt /\ failed' = failed \ {c} /\ chan' = [chan EXCEPT ![c] = Fresh]
    BY <1>5 DEF RemoveChannel
  <2>2. /\ \A k \in Channels : HasEC(k)' = HasEC(k) /\ chan'[k].type = chan[k].type
        /\ \A k \in Channels \ {c} : chan'[k] = chan[k]
        /\ chan'[c].type = None /\ chan'[c].device = None /\ chan' \in [Channels -> ChannelState]
    BY <1>3, <1>5, <2>1, SamplerAssumption DEF HasEC, TypeOK, Fresh, ChannelState
  <2>3. TypeOK'
    BY <1>1, <1>3, <2>1, <2>2 DEF TypeOK, lists, threads
  <2>4. CommandInv' /\ ChannelsInv' /\ EngineInv'
    <3>1. CommandInv'
      BY <1>1, <2>1 DEF IInv, CommandInv
    <3>2. ChannelsInv'
      BY <1>1, <2>1, <2>2 DEF IInv, ChannelsInv
    <3>3. EngineInv'
      BY <1>1, <2>1 DEF EngineInv
    <3> QED
      BY <3>1, <3>2, <3>3
  <2>5. ExistsInv'
    BY <1>1, <1>2, <2>1, <2>2, KeptExists DEF IInv
  <2>6. DeviceInv'
    <3>1. channels' \ (failed' \cup {op'.chan}) \subseteq channels \ (failed \cup {op.chan})
      BY <1>1, <1>3, <2>1, <2>2, Pairs DEF TypeOK
    <3>2. \A k \in Channels : /\ chan'[k].type = chan[k].type
                              /\ HasEC(k) => chan'[k].device = chan[k].device
      BY <1>5, <2>1, <2>2 DEF HasEC
    <3> QED
      BY <1>1, <3>1, <3>2, KeptDevice DEF IInv
  <2>7. MembersInv' /\ RenderedInv' /\ AudioInv' /\ MidiInv'
    BY <1>1, <1>2, <2>1, SameMembers, SameRendered, SameAudio, SameMidi DEF IInv, lists, threads
  <2>8. StatisticsInv'
    BY <1>1, <2>1 DEF StatisticsInv, StatisticsReadWhatExists
  <2>9. MapInv'
    <3>1. \A p \in MidiPorts : Connections(p)' = Connections(p)
      BY <1>1 DEF Connections
    <3> QED
      BY <1>1, <2>1, <3>1 DEF IInv, MapInv
  <2>10. NewInv'
    BY <1>1, <2>1 DEF IInv, NewInv, ListenersExist
  <2>11. SoloInv'
    <3>1. \A k \in channels' : k \in channels /\ k \in Channels
      BY <1>1, <1>3 DEF TypeOK
    <3> QED
      BY <1>1, <2>2, <3>1 DEF IInv, SoloInv, HasSolo, HasEC, Current
  <2> QED
    BY <2>3, <2>4, <2>5, <2>6, <2>7, <2>8, <2>9, <2>10, <2>11 DEF IInv
<1> QED
  BY <1>4, <1>5

\* The new engine channel exists beside the old one, and nothing knows it yet.
LEMMA SetEngineTypeStep ==
  ASSUME IInv, NEW c \in Channels, NEW t \in EngineTypes, SetEngineType(c, t)
  PROVE  IInv'
<1> DEFINE x == <<c, t>>
<1>1. /\ Idle /\ op.cmd = "none" /\ op.step = "" /\ op.chan = None
      /\ rt = "free" /\ rt' = "lscp" /\ c \in channels /\ t # chan[c].type
      /\ listening' = listening \ {Current(c)} /\ "SetEngineType" \in scenario.commands
      /\ ec' = [ec EXCEPT ![x] = [NoEngineChannel EXCEPT !.exists = TRUE]]
      /\ UNCHANGED <<scenario, channels, devices, ports, lists, map, threads, failed, crashed>>
  BY Idling DEF SetEngineType, Can, EngineToBeChanged
<1>2. TypeOK /\ x \in EngineChannels /\ x[1] = c /\ t # None /\ \A k \in Channels : Current(k) # x
  <2>1. TypeOK /\ x \in EngineChannels /\ x[1] = c /\ t # None
    BY Pairs DEF IInv, EngineChannels
  <2> QED
    BY <1>1, <2>1 DEF Current
<1>3. /\ op'.cmd = "SetEngineType" /\ op'.chan = c /\ op'.type = t /\ op'.engine = None
      /\ op'.left = {} /\ op'.ports = Inputs(c) /\ op'.step = IF HasEC(c) THEN "unrender" ELSE "acquire"
      /\ op' \in Operation
  <2>1. op' = [NoCommand EXCEPT !.cmd = "SetEngineType", !.chan = c, !.type = t,
                                !.step = IF HasEC(c) THEN "unrender" ELSE "acquire",
                                !.ports = Inputs(c)]
    BY DEF SetEngineType
  <2>2. Inputs(c) \subseteq MidiPorts
    BY <1>2, InputsExist DEF TypeOK
  <2> QED
    BY <2>1, <2>2 DEF NoCommand, Operation, Removing, Building
<1>4. /\ ~ ec[x].exists /\ ec[x].engine = None /\ ec[x].inputs = {}
  BY <1>1, <1>2 DEF IInv, ExistsInv
<1>5. /\ ec'[x].exists /\ ec'[x].engine = None /\ ec'[x].inputs = {} /\ ~ ec'[x].solo
      /\ \A y \in EngineChannels \ {x} : ec'[y] = ec[y]
      /\ ec' \in [EngineChannels -> ECState]
  BY <1>1, <1>2, SamplerAssumption DEF TypeOK, NoEngineChannel, ECState
<1>6. /\ chan' \in [Channels -> ChannelState]
      /\ \A k \in Channels : chan'[k].type = chan[k].type /\ chan'[k].device = chan[k].device
  <2>1. (IF HasEC(c) THEN ec[Current(c)].midi ELSE chan[c].midi) \in MidiChannels
    BY <1>2, CurrentType DEF TypeOK, ECState, ChannelState
  <2>2. chan' = [chan EXCEPT ![c].midi = IF HasEC(c) THEN ec[Current(c)].midi ELSE chan[c].midi]
    BY <1>2 DEF SetEngineType, TypeOK
  <2>3. c \in Channels /\ chan \in [Channels -> ChannelState] /\ chan[c] \in ChannelState
    BY <1>2 DEF TypeOK
  <2>4. /\ chan'[c] = [chan[c] EXCEPT !.midi = IF HasEC(c) THEN ec[Current(c)].midi ELSE chan[c].midi]
        /\ \A k \in Channels \ {c} : chan'[k] = chan[k]
        /\ chan' = [k \in Channels |-> chan'[k]]
    BY <2>2, <2>3
  <2>5. chan'[c] \in ChannelState /\ chan'[c].type = chan[c].type /\ chan'[c].device = chan[c].device
    BY <2>1, <2>3, <2>4 DEF ChannelState
  <2>6. \A k \in Channels : chan'[k] \in ChannelState
    BY <2>3, <2>4, <2>5
  <2> QED
    BY <2>4, <2>5, <2>6
<1>7. /\ \A k \in Channels : HasEC(k)' = HasEC(k) /\ Current(k)' = Current(k)
      /\ Old' = Current(c) /\ New' = x
  BY <1>3, <1>6 DEF HasEC, Current, Old, New
<1>8. \A k \in Channels : HasEC(k) => Current(k) \in EngineChannels \ {x}
  BY <1>2, CurrentType
<1>9. TypeOK'
  BY <1>1, <1>2, <1>3, <1>5, <1>6 DEF TypeOK, lists, threads
<1>10. CommandInv' /\ EngineInv'
  BY <1>1, <1>2, <1>3, <1>5, <1>6, <1>7 DEF IInv, CommandInv, EngineInv, HasEC, Removing, Building
<1>11. ChannelsInv'
  <2>1. Inputs(c) \subseteq ports
    BY InputsExist
  <2> QED
    BY <1>1, <1>3, <1>5, <1>6, <2>1 DEF IInv, ChannelsInv
<1>12. ExistsInv'
  <2>1. \A y \in EngineChannels : Current(y[1])' = Current(y[1])
    BY <1>7, Pairs
  <2> QED
    <3>1. ASSUME NEW y \in EngineChannels, y # x
          PROVE  /\ ec'[y].exists <=> Current(y[1])' = y
                 /\ ~ ec'[y].exists => ec'[y].engine = None /\ ec'[y].inputs = {}
      BY <1>1, <1>5, <2>1, <3>1 DEF IInv, ExistsInv
    <3> QED
      BY <1>3, <1>5, <1>7, <3>1 DEF ExistsInv
<1>13. DeviceInv'
  <2>1. channels' \ (failed' \cup {op'.chan}) \subseteq channels \ (failed \cup {op.chan})
    BY <1>1, <1>2, <1>3, Pairs DEF TypeOK
  <2>2. \A k \in Channels : HasEC(k) => ec'[Current(k)].engine = ec[Current(k)].engine
    BY <1>5, <1>8
  <2> QED
    BY <1>6, <2>1, <2>2, KeptDevice DEF IInv
<1>14. MembersInv' /\ RenderedInv' /\ AudioInv' /\ MidiInv' /\ StatisticsInv'
  BY <1>1, <1>3, <1>4, <1>5, Begin DEF threads
<1>15. MapInv'
  BY <1>1, <1>3, <1>4, <1>5, BeginMap
<1>16. NewInv'
  <2>1. x \notin listening
    BY <1>4 DEF IInv, NewInv, ListenersExist
  <2>2. listening \subseteq EngineChannels
    BY <1>2 DEF TypeOK
  <2> QED
    BY <1>1, <1>3, <1>5, <1>7, <2>1, <2>2 DEF IInv, NewInv, ListenersExist
<1>17. SoloInv'
  <2>1. channels' = channels /\ channels \subseteq Channels
    BY <1>1, <1>2 DEF TypeOK
  <2>2. \A k \in channels : HasEC(k) => ec'[Current(k)] = ec[Current(k)]
    BY <1>5, <1>8, <2>1
  <2> QED
    BY <1>7, <2>1, <2>2 DEF IInv, SoloInv, HasSolo
<1> QED
  BY <1>9, <1>10, <1>11, <1>12, <1>13, <1>14, <1>15, <1>16, <1>17 DEF IInv

\* The engine channel keeps its old device until it has left its engine.
LEMMA SetAudioOutputDeviceStep ==
  ASSUME IInv, NEW c \in Channels, NEW d \in AudioDevices, SetAudioOutputDevice(c, d)
  PROVE  IInv'
<1>1. /\ Idle /\ op.cmd = "none" /\ op.step = "" /\ op.chan = None /\ op.engine = None /\ op.left = {}
      /\ op.ports = {} /\ op.type = None /\ rt = "free" /\ c \in channels /\ d \in devices
      /\ UNCHANGED <<scenario, channels, ec, devices, ports, lists, map, listening, threads, failed, crashed>>
  BY Idling DEF SetAudioOutputDevice, Can
<1>2. SameLinks /\ TypeOK
  BY <1>1, Unchanged DEF IInv
<1>3. CASE HasEC(c)
  <2>1. rt' = "lscp" /\ chan' = chan /\ "SetAudioOutputDevice" \in scenario.commands
    BY <1>3 DEF SetAudioOutputDevice, Can
  <2>2. /\ op'.cmd = "SetAudioOutputDevice" /\ op'.chan = c /\ op'.type = chan[c].type /\ op'.device = d
        /\ op'.step = IF chan[c].device = None THEN "destroy" ELSE "unrender"
        /\ op'.engine = None /\ op'.left = {} /\ op'.ports = {} /\ op' \in Operation
    <3>1. op' = [NoCommand EXCEPT !.cmd = "SetAudioOutputDevice", !.chan = c,
                                  !.type = chan[c].type, !.device = d,
                                  !.step = IF chan[c].device = None THEN "destroy" ELSE "unrender"]
      BY <1>3 DEF SetAudioOutputDevice
    <3> QED
      <4>1. chan[c].type \in EngineTypes \cup {None}
        BY <1>2 DEF TypeOK, ChannelState
      <4> QED
        BY <3>1, <4>1 DEF NoCommand, Operation, Removing
  <2>3. TypeOK'
    BY <1>1, <1>2, <2>1, <2>2 DEF TypeOK, lists, threads
  <2>4. CommandInv'
    <3>1. op'.step \in Removing /\ op'.step \notin {"", "unmap", "unmapping"} /\ op'.type # None
      BY <1>3, <2>2 DEF HasEC, Removing
    <3>2. /\ op'.chan \in Channels /\ op'.chan \in channels' /\ op'.device \in devices'
          /\ op'.type = chan'[op'.chan].type /\ rt' = "lscp"
      BY <1>1, <2>1, <2>2
    <3> QED
      BY <2>2, <3>1, <3>2 DEF CommandInv
  <2>5. ChannelsInv'
    BY <1>1, <2>1, <2>2 DEF IInv, ChannelsInv
  <2>6. EngineInv'
    <3>1. Old' = Current(c)
      BY <2>1, <2>2 DEF Old, Current
    <3>2. op'.step = "destroy" => ec[Current(c)].engine = None
      BY <1>3, <2>2 DEF IInv, DeviceInv
    <3> QED
      BY <1>1, <2>2, <3>1, <3>2 DEF EngineInv
  <2>7. ExistsInv'
    BY <1>1, <2>1, <2>2 DEF IInv, ExistsInv, Current
  <2>8. DeviceInv'
    <3>1. channels' \ (failed' \cup {op'.chan}) \subseteq channels \ (failed \cup {op.chan})
      BY <1>1, <1>2, <2>1, <2>2, Pairs DEF TypeOK
    <3>2. \A k \in Channels : /\ chan'[k].type = chan[k].type
                              /\ HasEC(k) => chan'[k].device = chan[k].device
      BY <1>3, <2>1, <2>2 DEF HasEC
    <3> QED
      BY <1>1, <3>1, <3>2, KeptDevice DEF IInv
  <2>9. MembersInv' /\ RenderedInv' /\ AudioInv' /\ MidiInv' /\ StatisticsInv'
    BY <1>1, <2>1, <2>2, Begin DEF threads
  <2>10. MapInv'
    BY <1>1, <2>2, BeginMap
  <2>11. NewInv'
    BY <1>1, <2>1, <2>2 DEF IInv, NewInv, ListenersExist
  <2>12. SoloInv'
    BY <1>1, <2>1, SameSolo DEF IInv
  <2> QED
    BY <2>3, <2>4, <2>5, <2>6, <2>7, <2>8, <2>9, <2>10, <2>11, <2>12 DEF IInv
<1>4. CASE ~ HasEC(c)
  <2>1. op' = op /\ rt' = rt /\ chan' = [chan EXCEPT ![c].device = d]
    BY <1>4 DEF SetAudioOutputDevice
  <2>2. /\ chan' \in [Channels -> ChannelState] /\ chan'[c].device = d /\ chan[c].type = None
        /\ \A k \in Channels : chan'[k].type = chan[k].type
        /\ \A k \in Channels \ {c} : chan'[k] = chan[k]
    BY <1>2, <1>4, <2>1 DEF TypeOK, ChannelState, HasEC
  <2>3. TypeOK'
    BY <1>1, <1>2, <2>1, <2>2 DEF TypeOK, lists, threads
  <2>4. CommandInv' /\ ChannelsInv' /\ EngineInv'
    <3>1. CommandInv'
      BY <1>1, <2>1 DEF IInv, CommandInv
    <3>2. ChannelsInv'
      <4>1. \A k \in Channels : chan'[k].device \in devices \cup {None}
        BY <1>1, <2>2 DEF IInv, ChannelsInv
      <4>2. \A k \in Channels \ channels : chan'[k].type = None /\ chan'[k].device = None
        BY <1>1, <2>2 DEF IInv, ChannelsInv
      <4> QED
        BY <1>1, <2>1, <4>1, <4>2 DEF IInv, ChannelsInv
    <3>3. EngineInv'
      BY <1>1, <2>1 DEF EngineInv
    <3> QED
      BY <3>1, <3>2, <3>3
  <2>5. ExistsInv'
    BY <1>1, <1>2, <2>1, <2>2, KeptExists DEF IInv
  <2>6. DeviceInv'
    <3>1. channels' \ (failed' \cup {op'.chan}) \subseteq channels \ (failed \cup {op.chan})
      BY <1>1, <1>2, <2>1, <2>2, Pairs DEF TypeOK
    <3>2. \A k \in Channels : /\ chan'[k].type = chan[k].type
                              /\ HasEC(k) => chan'[k].device = chan[k].device
      BY <1>4, <2>1, <2>2 DEF HasEC
    <3> QED
      BY <1>1, <3>1, <3>2, KeptDevice DEF IInv
  <2>7. MembersInv' /\ RenderedInv' /\ AudioInv' /\ MidiInv'
    BY <1>1, <1>2, <2>1, SameMembers, SameRendered, SameAudio, SameMidi DEF IInv, lists, threads
  <2>8. StatisticsInv'
    BY <1>1, <2>1 DEF StatisticsInv, StatisticsReadWhatExists
  <2>9. MapInv'
    <3>1. \A p \in MidiPorts : Connections(p)' = Connections(p)
      BY <1>1 DEF Connections
    <3> QED
      BY <1>1, <2>1, <3>1 DEF IInv, MapInv
  <2>10. NewInv'
    BY <1>1, <2>1 DEF IInv, NewInv, ListenersExist
  <2>11. SoloInv'
    <3>1. channels' = channels /\ channels \subseteq Channels
      BY <1>1, <1>2 DEF TypeOK
    <3> QED
      BY <1>1, <2>2, <3>1 DEF IInv, SoloInv, HasSolo, HasEC, Current
  <2> QED
    BY <2>3, <2>4, <2>5, <2>6, <2>7, <2>8, <2>9, <2>10, <2>11 DEF IInv
<1> QED
  BY <1>3, <1>4

-----------------------------------------------------------------------------
(* Commands of several steps: taking the old connection apart *)

\* What the next step of a command is about
SameCommandOf == /\ op'.cmd = op.cmd /\ op'.chan = op.chan /\ op'.type = op.type
                 /\ op'.device = op.device /\ op'.ports = op.ports

\* GoTo() changes nothing but the step.
LEMMA GoToStep ==
  ASSUME TypeOK, NEW s \in Removing \cup Building, GoTo(s)
  PROVE  /\ SameCommandOf /\ op'.step = s /\ op'.engine = op.engine /\ op'.left = op.left
         /\ op' \in Operation
BY DEF TypeOK, Operation, GoTo, SameCommandOf

\* No thread is where it was before the last change.
LEMMA Settling ==
  ASSUME IInv, NEW s \in Removing \cup Building, Running(s)
  PROVE  /\ op.step = s /\ op.step # "" /\ rt = "lscp" /\ op.chan \in Channels
         /\ op.cmd \in {"RemoveChannel", "SetEngineType", "SetAudioOutputDevice"}
         /\ op.cmd = "RemoveChannel" => s \in Removing
         /\ \A d \in AudioDevices : ~ audio[d].old
         /\ \A p \in MidiPorts : ~ midi[p].old
<1>1. op.step # ""
  BY DEF Running, Removing, Building
<1> QED
  BY <1>1 DEF IInv, CommandInv, Running, Settled, Removing, Building

\* A command stays what it is, within one of its two parts.
LEMMA NextStep ==
  ASSUME CommandInv, SameCommandOf, op.step # "", rt' = rt, UNCHANGED <<chan, channels, devices>>,
         \/ op.step \in Removing /\ op'.step \in Removing
         \/ op.step \in Building /\ op'.step \in Building,
         op.cmd = "SetAudioOutputDevice" => op'.step \notin {"unmap", "unmapping"}
  PROVE  CommandInv'
<1>1. op'.step # "" /\ Removing \cap Building = {}
  BY DEF Removing, Building
<1> QED
  BY <1>1 DEF CommandInv, SameCommandOf

\* It does not concern what a step leaves alone.
LEMMA NextStepFrame ==
  ASSUME IInv, SameCommandOf, SameLinks, UNCHANGED <<channels, chan, devices, ports, failed>>, rt' # "stats"
  PROVE  /\ op'.left = op.left => ChannelsInv'
         /\ ExistsInv' /\ DeviceInv' /\ StatisticsInv'
         /\ ec' = ec => SoloInv' /\ (listening' = listening => NewInv')
<1>1. op'.left = op.left => ChannelsInv'
  BY SameChannels DEF IInv, SameCommandOf
<1>2. ExistsInv' /\ DeviceInv'
  BY SameExists, SameDevice DEF IInv, SameCommandOf
<1>3. StatisticsInv'
  BY DEF StatisticsInv, StatisticsReadWhatExists
<1>4. ec' = ec => SoloInv' /\ (listening' = listening => NewInv')
  BY SameSolo, SameNew DEF IInv, SameCommandOf
<1> QED
  BY <1>1, <1>2, <1>3, <1>4

\* The audio and MIDI threads do not mind which step comes next, if they are not waited
\* for, and if no engine that they may call is gone.
LEMMA NextStepThreads ==
  ASSUME IInv, op'.step # "join", UNCHANGED <<audio, midi>>,
         \A d \in AudioDevices : ~ audio[d].old,
         \A p \in MidiPorts : ~ midi[p].old
  PROVE  /\ (\A d \in AudioDevices : rendered[d] \subseteq rendered'[d]) => AudioInv'
         /\ sysex \subseteq sysex' /\ map' = map
              /\ (\A x \in EngineChannels : ec'[x].exists = ec[x].exists) => MidiInv'
<1>1. (\A d \in AudioDevices : rendered[d] \subseteq rendered'[d]) => AudioInv'
  <2>1. ASSUME NEW d \in AudioDevices, rendered[d] \subseteq rendered'[d] PROVE AudioCycleInv(d)'
    BY <2>1 DEF IInv, AudioInv, AudioCycleInv
  <2> QED
    BY <2>1 DEF AudioInv
<1>2. ASSUME sysex \subseteq sysex', map' = map, \A x \in EngineChannels : ec'[x].exists = ec[x].exists,
             NEW p \in MidiPorts
      PROVE  MidiEventInv(p)'
  <2>1. Mapped(p)' = Mapped(p)
    BY <1>2 DEF Mapped
  <2> QED
    BY <1>2, <2>1 DEF IInv, MidiInv, MidiEventInv
<1> QED
  BY <1>1, <1>2 DEF MidiInv

\* The engine of an engine channel is of its type, and on its channel's device.
LEMMA OldEngine ==
  ASSUME IInv, op.step \in Removing
  PROVE  /\ Old \in EngineChannels /\ HasEC(op.chan) /\ EngineOf(Old) \in Engines \cup {None}
         /\ EngineOf(Old) = None <=> ec[Old].engine = None
         /\ EngineOf(Old) # None => EngineOf(Old)[2] = chan[op.chan].device
         /\ op.cmd = "SetEngineType" => New \in EngineChannels /\ New # Old
<1>1. TypeOK /\ Old \in EngineChannels /\ HasEC(op.chan) /\ Old[2] \in EngineTypes /\ op.chan \in Channels
  BY Operating, Pairs DEF IInv
<1>2. ec[Old].engine \in AudioDevices \cup {None}
  BY <1>1 DEF TypeOK, ECState
<1>3. ec[Old].engine # None => EngineOf(Old) = <<Old[2], ec[Old].engine>> /\ EngineOf(Old) \in Engines
  BY <1>1, <1>2 DEF EngineOf, Engines
<1>4. ec[Old].engine = None => EngineOf(Old) = None
  BY DEF EngineOf
<1>5. ec[Old].engine \in {None, chan[op.chan].device}
  BY <1>1, Operating DEF IInv, DeviceInv
<1>6. op.cmd = "SetEngineType" => New \in EngineChannels /\ New # Old
  <2>1. op.cmd = "SetEngineType" => New[2] = op.type /\ Old[2] = chan[op.chan].type
                                    /\ op.type # chan[op.chan].type /\ New \in EngineChannels
    <3>1. op.step # ""
      BY DEF Removing
    <3> QED
      BY <3>1, Operating DEF IInv, CommandInv
  <2> QED
    BY <2>1
<1> QED
  BY <1>1, <1>3, <1>4, <1>5, <1>6, Pairs

\* The device stops rendering the engine, and the audio thread is waited for.
LEMMA UnrenderEngineStep ==
  ASSUME IInv, UnrenderEngine
  PROVE  IInv'
<1> DEFINE e == EngineOf(Old)
           d == chan[op.chan].device
<1>1. Running("unrender") /\ "unrender" \in Removing
  BY DEF UnrenderEngine, Removing
<1>2. /\ op.step = "unrender" /\ rt = "lscp" /\ op.chan \in Channels
      /\ \A i \in AudioDevices : ~ audio[i].old
      /\ \A p \in MidiPorts : ~ midi[p].old
  BY <1>1, Settling
<1>3. /\ UNCHANGED <<scenario, channels, chan, ec, devices, ports, engines, orphans, members, disabled,
                     sysex, map, listening, midi, stats, rt, failed, crashed>>
      /\ IF d = None \/ e = None THEN UNCHANGED <<rendered, audio>> ELSE Unrender(d, e)
  BY DEF UnrenderEngine
<1>4. TypeOK /\ CommandInv /\ RenderedInv /\ AudioInv
  BY DEF IInv
<1>5. e \in Engines \cup {None} /\ (e # None => e[2] = d /\ d \in AudioDevices /\ d # None)
  BY <1>1, <1>2, OldEngine, Pairs
<1>6. /\ SameCommandOf /\ op'.engine = e /\ op'.left = op.left /\ op' \in Operation
      /\ op'.step = IF op.cmd = "SetAudioOutputDevice" THEN "leave" ELSE "unmap"
  <2>1. op' = [op EXCEPT !.engine = e, !.step = IF op.cmd = "SetAudioOutputDevice" THEN "leave" ELSE "unmap"]
    BY DEF UnrenderEngine
  <2> HIDE DEF e
  <2> QED
    BY <1>4, <1>5, <2>1 DEF TypeOK, Operation, SameCommandOf, Removing
<1>7. SameLinks
  BY <1>3, Unchanged
<1>8. rendered \in [AudioDevices -> SUBSET Engines] /\ audio \in [AudioDevices -> AudioState]
  BY <1>4 DEF TypeOK
<1>9. /\ rendered' \in [AudioDevices -> SUBSET Engines] /\ audio' \in [AudioDevices -> AudioState]
      /\ \A i \in AudioDevices :
           /\ rendered'[i] = rendered[i] \ {e}
           /\ audio'[i].reading = audio[i].reading
           /\ audio'[i].todo = audio[i].todo /\ audio'[i].at = audio[i].at
           /\ audio'[i].old <=> audio[i].reading /\ e \in rendered[i]
           /\ ~ audio'[i].old => audio'[i] = audio[i]
  <2>1. \A i \in AudioDevices : e \in rendered[i] => e[2] = i /\ e # None
    BY <1>4, Pairs, RenderedTypes DEF RenderedInv, EnginesOn
  <2>2. CASE d = None \/ e = None
    <3>1. \A i \in AudioDevices : e \notin rendered[i]
      BY <1>5, <2>1, <2>2
    <3> QED
      BY <1>2, <1>3, <1>8, <2>2, <3>1
  <2>3. CASE ~ (d = None \/ e = None)
    <3>1. /\ rendered' = [rendered EXCEPT ![d] = rendered[d] \ {e}]
          /\ audio' = [audio EXCEPT ![d] = [audio[d] EXCEPT !.old = audio[d].reading /\ e \in rendered[d]]]
      BY <1>3, <1>5, <1>8, <2>3 DEF Unrender
    <3> HIDE DEF e, d
    <3>2. ASSUME NEW i \in AudioDevices, i # d
          PROVE  rendered'[i] = rendered[i] \ {e} /\ audio'[i] = audio[i] /\ e \notin rendered[i]
      BY <1>5, <1>8, <2>1, <2>3, <3>1, <3>2
    <3>3. rendered'[d] = rendered[d] \ {e} /\ audio'[d] \in AudioState /\ audio[d] \in AudioState
          /\ audio'[d] = [audio[d] EXCEPT !.old = audio[d].reading /\ e \in rendered[d]]
      BY <1>5, <1>8, <2>3, <3>1 DEF AudioState
    <3>4. /\ audio'[d].reading = audio[d].reading
          /\ audio'[d].todo = audio[d].todo /\ audio'[d].at = audio[d].at
          /\ audio'[d].old = (audio[d].reading /\ e \in rendered[d])
      BY <3>3 DEF AudioState
    <3>5. ~ audio'[d].old => audio'[d] = audio[d]
      BY <1>2, <1>5, <2>3, <3>3, <3>4 DEF AudioState
    <3> QED
      BY <1>2, <1>5, <1>8, <2>3, <3>1, <3>2, <3>3, <3>4, <3>5
  <2> QED
    BY <2>2, <2>3
<1> HIDE DEF e, d
<1>10. TypeOK'
  BY <1>3, <1>4, <1>6, <1>9 DEF TypeOK, SameCommandOf
<1>11. CommandInv'
  BY <1>1, <1>2, <1>3, <1>4, <1>6, NextStep DEF Removing
<1>12. ChannelsInv' /\ ExistsInv' /\ DeviceInv' /\ StatisticsInv' /\ SoloInv' /\ NewInv'
  BY <1>2, <1>3, <1>6, <1>7, NextStepFrame
<1>13. EngineInv'
  <2>1. EngineOf(Old)' = e /\ New' = New
    BY <1>3, <1>6 DEF e, EngineOf, Old, New, Current, SameCommandOf
  <2> QED
    BY <1>2, <1>3, <1>6, <2>1 DEF IInv, EngineInv, SameCommandOf, Removing
<1>14. MembersInv'
  BY <1>2, <1>3, <1>6, <1>7, SameMembers DEF IInv
<1>15. RenderedInv'
  <2>1. disabled = {} /\ \A i \in AudioDevices : rendered[i] = EnginesOn(i)
    BY <1>2, <1>4 DEF RenderedInv, Removing
  <2> QED
    BY <1>3, <1>6, <1>9, <2>1 DEF RenderedInv, EnginesOn, Removing
<1>16. MapInv'
  <2>1. \A p \in MidiPorts : Connections(p)' = Connections(p)
    BY <1>3 DEF Connections
  <2> QED
    BY <1>2, <1>3, <1>6, <2>1 DEF IInv, MapInv, SameCommandOf
<1>17. AudioInv'
  <2>1. ASSUME NEW i \in AudioDevices PROVE AudioCycleInv(i)'
    <3>1. rendered[i] \subseteq engines
      BY <1>4, RenderedTypes
    <3>2. CASE audio'[i].old
      BY <1>2, <1>3, <1>4, <1>6, <1>9, <3>1, <3>2 DEF AudioInv, AudioCycleInv
    <3>3. CASE ~ audio'[i].old /\ audio[i].reading
      BY <1>2, <1>3, <1>4, <1>6, <1>9, <3>3 DEF AudioInv, AudioCycleInv
    <3>4. CASE ~ audio'[i].old /\ ~ audio[i].reading
      BY <1>2, <1>3, <1>4, <1>6, <1>9, <3>4 DEF AudioInv, AudioCycleInv, Quiet
    <3> QED
      BY <3>2, <3>3, <3>4
  <2> QED
    BY <1>6, <2>1 DEF AudioInv
<1>18. MidiInv'
  BY <1>2, <1>3 DEF IInv, MidiInv, MidiEventInv, Mapped
<1> QED
  BY <1>10, <1>11, <1>12, <1>13, <1>14, <1>15, <1>16, <1>17, <1>18 DEF IInv

\* The engine channel forgets its ports, which still know it.
LEMMA ForgetPortsStep ==
  ASSUME IInv, ForgetPorts
  PROVE  IInv'
<1>1. Running("unmap") /\ "unmap" \in Removing
  BY DEF ForgetPorts, Removing
<1>2. /\ op.step = "unmap" /\ op.step # "" /\ rt = "lscp" /\ op.chan \in Channels
      /\ \A i \in AudioDevices : ~ audio[i].old
      /\ \A p \in MidiPorts : ~ midi[p].old
  BY <1>1, Settling
<1>3. /\ UNCHANGED <<scenario, channels, chan, devices, ports, lists, map, listening, threads, rt, failed,
                     crashed>>
      /\ ec' = [ec EXCEPT ![Old].inputs = {}]
  BY DEF ForgetPorts
<1>4. TypeOK /\ CommandInv /\ op.cmd # "SetAudioOutputDevice"
  BY <1>2 DEF IInv, CommandInv
<1>5. /\ Old \in EngineChannels
      /\ op.cmd = "SetEngineType" => New \in EngineChannels /\ New # Old
  BY <1>1, <1>2, OldEngine
<1>6. /\ SameCommandOf /\ op'.engine = op.engine /\ op'.left = ec[Old].inputs /\ op' \in Operation
      /\ op'.step = "unmapping"
  <2>1. op' = [op EXCEPT !.step = "unmapping", !.left = ec[Old].inputs]
    BY DEF ForgetPorts
  <2>2. ec[Old].inputs \subseteq MidiPorts
    BY <1>4, <1>5 DEF TypeOK, ECState
  <2> QED
    BY <1>4, <2>1, <2>2 DEF TypeOK, Operation, SameCommandOf, Removing
<1>7. /\ ec' \in [EngineChannels -> ECState] /\ ec'[Old].inputs = {}
      /\ \A x \in EngineChannels \ {Old} : ec'[x] = ec[x]
      /\ \A x \in EngineChannels :
           /\ ec'[x].exists = ec[x].exists /\ ec'[x].engine = ec[x].engine /\ ec'[x].midi = ec[x].midi
           /\ ec'[x].mute = ec[x].mute /\ ec'[x].solo = ec[x].solo
  BY <1>3, <1>4, <1>5 DEF TypeOK, ECState
<1>8. Old' = Old /\ New' = New
  BY <1>3, <1>6 DEF Old, New, Current, SameCommandOf
<1>9. TypeOK'
  BY <1>3, <1>4, <1>6, <1>7 DEF TypeOK, SameCommandOf, lists, threads
<1>10. CommandInv'
  BY <1>1, <1>2, <1>3, <1>4, <1>6, NextStep DEF Removing
<1>11. ChannelsInv'
  <2>1. \A x \in EngineChannels : ec'[x].inputs \subseteq ports
    BY <1>5, <1>7 DEF IInv, ChannelsInv
  <2> QED
    BY <1>3, <1>5, <1>6, <2>1 DEF IInv, ChannelsInv, SameCommandOf
<1>12. ExistsInv'
  <2>1. \A x \in EngineChannels : Current(x[1])' = Current(x[1])
    BY <1>3 DEF Current
  <2> QED
    BY <1>6, <1>7, <1>8, <2>1 DEF IInv, ExistsInv, SameCommandOf
<1>13. DeviceInv'
  <2>1. channels' \ (failed' \cup {op'.chan}) \subseteq channels \ (failed \cup {op.chan})
    BY <1>3, <1>6 DEF SameCommandOf
  <2>2. \A k \in Channels : HasEC(k) => ec'[Current(k)].engine = ec[Current(k)].engine
    BY <1>4, <1>7, CurrentType
  <2> QED
    BY <1>3, <2>1, <2>2, KeptDevice DEF IInv
<1>14. EngineInv'
  <2>1. EngineOf(Old)' = EngineOf(Old)
    BY <1>5, <1>7, <1>8 DEF EngineOf
  <2>2. op.cmd = "SetEngineType" => ec'[New].engine = None
    BY <1>1, <1>2, <1>5, <1>7 DEF IInv, EngineInv
  <2> QED
    BY <1>2, <1>3, <1>6, <1>8, <2>1, <2>2 DEF IInv, EngineInv, SameCommandOf, lists
<1>15. MembersInv'
  <2>1. \A x \in EngineChannels : EngineOf(x)' = EngineOf(x)
    BY <1>7 DEF EngineOf
  <2>2. \A i \in Engines : {x \in EngineChannels : EngineOf(x) = i}' = {x \in EngineChannels : EngineOf(x) = i}
    BY <2>1
  <2> QED
    BY <1>2, <1>3, <1>6, <2>2 DEF IInv, MembersInv, lists
<1>16. RenderedInv'
  BY <1>2, <1>3, <1>6 DEF IInv, RenderedInv, EnginesOn, lists, Removing
<1>17. MapInv'
  <2>1. ASSUME NEW p \in MidiPorts
        PROVE  map[p] = Connections(p)' \cup (IF p \in op'.left THEN {<<Old, ec'[Old].midi>>} ELSE {})
    <3>1. map[p] = Connections(p)
      BY <1>2 DEF IInv, MapInv
    <3>2. ASSUME NEW z \in Connections(p)
          PROVE  z \in Connections(p)' \/ (p \in op'.left /\ z = <<Old, ec'[Old].midi>>)
      <4>1. PICK x \in EngineChannels : p \in ec[x].inputs /\ z = <<x, ec[x].midi>>
        BY <3>2 DEF Connections
      <4>2. CASE x = Old
        BY <1>6, <1>7, <4>1, <4>2
      <4>3. CASE x # Old
        <5>1. p \in ec'[x].inputs /\ z = <<x, ec'[x].midi>>
          BY <1>7, <4>1, <4>3
        <5> QED
          BY <5>1 DEF Connections
      <4> QED
        BY <4>2, <4>3
    <3>3. ASSUME NEW z \in Connections(p)' PROVE z \in Connections(p)
      <4>1. PICK x \in EngineChannels : p \in ec'[x].inputs /\ z = <<x, ec'[x].midi>>
        BY <3>3 DEF Connections
      <4>2. p \in ec[x].inputs /\ z = <<x, ec[x].midi>>
        BY <1>7, <4>1
      <4> QED
        BY <4>2 DEF Connections
    <3>4. ASSUME p \in op'.left PROVE <<Old, ec'[Old].midi>> \in Connections(p)
      BY <1>5, <1>6, <1>7, <3>4 DEF Connections
    <3> QED
      BY <3>1, <3>2, <3>3, <3>4
  <2> QED
    BY <1>3, <1>6, <1>7, <1>8, <2>1 DEF MapInv
<1>18. NewInv'
  <2>1. \A x \in EngineChannels : ec'[x].exists = ec[x].exists
    BY <1>7
  <2>2. op.cmd = "SetEngineType" => ec'[New] = ec[New]
    BY <1>5, <1>7
  <2> QED
    BY <1>3, <1>4, <1>6, <1>8, <2>1, <2>2 DEF IInv, NewInv, ListenersExist, SameCommandOf, TypeOK
<1>19. SoloInv'
  <2>1. HasSolo' <=> HasSolo
    BY <1>3, <1>4, <1>7, SameHasSolo
  <2>2. \A k \in channels : HasEC(k) => Current(k) \in EngineChannels
    BY <1>4, CurrentType DEF TypeOK
  <2> QED
    BY <1>3, <1>7, <2>1, <2>2 DEF IInv, SoloInv, HasEC, Current
<1>20. AudioInv' /\ MidiInv'
  BY <1>2, <1>3, <1>6, <1>7, NextStepThreads DEF lists, threads
<1>21. StatisticsInv'
  BY <1>2, <1>3 DEF StatisticsInv, StatisticsReadWhatExists
<1> QED
  BY <1>9, <1>10, <1>11, <1>12, <1>13, <1>14, <1>15, <1>16, <1>17, <1>18, <1>19, <1>20, <1>21 DEF IInv

\* A port forgets the engine channel, and its MIDI thread is waited for.
LEMMA UnmapPortStep ==
  ASSUME IInv, NEW p \in MidiPorts, UnmapPort(p)
  PROVE  IInv'
<1>1. Running("unmapping") /\ "unmapping" \in Removing /\ p \in op.left
  BY DEF UnmapPort, Removing
<1>2. /\ op.step = "unmapping" /\ op.step # "" /\ rt = "lscp" /\ op.chan \in Channels
      /\ \A i \in AudioDevices : ~ audio[i].old
      /\ \A q \in MidiPorts : ~ midi[q].old
  BY <1>1, Settling
<1>3. /\ UNCHANGED <<scenario, channels, chan, ec, devices, ports, lists, listening, audio, stats, rt,
                     failed, crashed>>
      /\ map' = [map EXCEPT ![p] = Remapped(p, Old, {}, None)]
      /\ midi' = [midi EXCEPT ![p] = [midi[p] EXCEPT !.old = midi[p].kind = "event"]]
  BY DEF UnmapPort, IInv, TypeOK
<1>4. TypeOK /\ CommandInv /\ op.cmd # "SetAudioOutputDevice"
  BY <1>2 DEF IInv, CommandInv
<1>5. Old \in EngineChannels
  BY <1>1, <1>2, OldEngine
<1>6. /\ SameCommandOf /\ op'.engine = op.engine /\ op'.left = op.left \ {p} /\ op' \in Operation
      /\ op'.step = "unmapping"
  <2>1. op' = [op EXCEPT !.left = @ \ {p}]
    BY DEF UnmapPort
  <2> QED
    BY <1>2, <1>4, <2>1 DEF TypeOK, Operation, SameCommandOf
<1>7. SameLinks /\ Old' = Old
  BY <1>3, <1>6, Unchanged DEF Old, Current, SameCommandOf
<1>8. /\ map'[p] = {y \in map[p] : y[1] # Old} /\ \A q \in MidiPorts \ {p} : map'[q] = map[q]
      /\ map' \in [MidiPorts -> SUBSET (EngineChannels \X MidiChannels)]
  BY <1>3, <1>4 DEF TypeOK, Remapped
<1>9. /\ midi'[p].kind = midi[p].kind /\ midi'[p].todo = midi[p].todo /\ midi'[p].at = midi[p].at
      /\ midi'[p].old = (midi[p].kind = "event")
      /\ midi[p].kind = "none" => midi'[p] = NoEvent
      /\ \A q \in MidiPorts \ {p} : midi'[q] = midi[q]
      /\ midi' \in [MidiPorts -> MidiState]
  <2>1. midi \in [MidiPorts -> MidiState] /\ midi[p].old = FALSE /\ midi[p] \in MidiState
    BY <1>2, <1>4 DEF TypeOK, MidiState
  <2>2. midi[p].kind = "none" => midi[p] = NoEvent
    BY DEF IInv, MidiInv, MidiEventInv
  <2>3. midi'[p] = [midi[p] EXCEPT !.old = (midi[p].kind = "event")]
    BY <1>3, <2>1
  <2>4. midi[p].kind = "none" => midi'[p] = NoEvent
    <3>1. midi[p].kind = "none" => midi'[p] = [NoEvent EXCEPT !.old = FALSE]
      BY <2>2, <2>3
    <3> QED
      BY <3>1 DEF NoEvent
  <2>5. /\ midi'[p].kind = midi[p].kind /\ midi'[p].todo = midi[p].todo /\ midi'[p].at = midi[p].at
        /\ midi'[p].old = (midi[p].kind = "event") /\ midi'[p] \in MidiState
    BY <2>1, <2>3 DEF MidiState
  <2>6. \A q \in MidiPorts \ {p} : midi'[q] = midi[q]
    BY <1>3, <2>1
  <2>7. midi' \in [MidiPorts -> MidiState]
    BY <1>3, <2>1, <2>3, <2>5
  <2> QED
    BY <2>4, <2>5, <2>6, <2>7
<1>10. TypeOK'
  BY <1>3, <1>4, <1>6, <1>8, <1>9 DEF TypeOK, SameCommandOf, lists
<1>11. CommandInv'
  BY <1>1, <1>2, <1>3, <1>4, <1>6, NextStep
<1>12. ExistsInv' /\ DeviceInv' /\ StatisticsInv' /\ SoloInv' /\ NewInv'
  BY <1>2, <1>3, <1>6, <1>7, NextStepFrame
<1>13. ChannelsInv'
  BY <1>3, <1>6 DEF IInv, ChannelsInv, SameCommandOf
<1>14. EngineInv'
  <2>1. EngineOf(Old)' = EngineOf(Old) /\ New' = New
    BY <1>3, <1>6, <1>7 DEF EngineOf, New, SameCommandOf
  <2> QED
    BY <1>2, <1>3, <1>6, <1>7, <2>1 DEF IInv, EngineInv, SameCommandOf, lists
<1>15. MembersInv'
  BY <1>2, <1>3, <1>6, <1>7, SameMembers DEF IInv, lists
<1>16. RenderedInv'
  BY <1>2, <1>3, <1>6 DEF IInv, RenderedInv, EnginesOn, lists
<1>17. MapInv'
  <2>1. \A q \in MidiPorts : Connections(q)' = Connections(q)
    BY <1>3 DEF Connections
  <2>2. map'[p] = Connections(p)
    <3>1. map[p] = Connections(p) \cup {<<Old, ec[Old].midi>>} /\ ec[Old].inputs = {}
      BY <1>1, <1>2, <1>4 DEF IInv, MapInv
    <3>2. \A y \in Connections(p) : y[1] # Old
      BY <3>1 DEF Connections
    <3> QED
      BY <1>8, <3>1, <3>2
  <2> QED
    BY <1>2, <1>3, <1>4, <1>6, <1>7, <1>8, <2>1, <2>2 DEF IInv, MapInv, SameCommandOf
<1>18. AudioInv'
  BY <1>2, <1>3, <1>6 DEF IInv, AudioInv, AudioCycleInv, lists
<1>19. MidiInv'
  <2>1. MidiEventInv(p)'
    BY <1>2, <1>3, <1>9 DEF IInv, MidiInv, MidiEventInv, lists
  <2>2. ASSUME NEW q \in MidiPorts \ {p} PROVE MidiEventInv(q)'
    <3>1. Mapped(q)' = Mapped(q)
      BY <1>8 DEF Mapped
    <3> QED
      BY <1>2, <1>3, <1>9, <3>1 DEF IInv, MidiInv, MidiEventInv, lists
  <2> QED
    BY <2>1, <2>2 DEF MidiInv
<1> QED
  BY <1>10, <1>11, <1>12, <1>13, <1>14, <1>15, <1>16, <1>17, <1>18, <1>19 DEF IInv

\* All ports have forgotten the engine channel.
LEMMA PortsUnmappedStep ==
  ASSUME IInv, PortsUnmapped
  PROVE  IInv'
<1>1. Running("unmapping") /\ {"unmapping", "leave"} \subseteq Removing /\ op.left = {}
  BY DEF PortsUnmapped, Removing
<1>2. /\ op.step = "unmapping" /\ op.step # "" /\ rt = "lscp" /\ op.chan \in Channels
      /\ \A i \in AudioDevices : ~ audio[i].old
      /\ \A q \in MidiPorts : ~ midi[q].old
  BY <1>1, Settling
<1>3. UNCHANGED <<scenario, channels, chan, ec, devices, ports, lists, map, listening, threads, rt,
                  failed, crashed>>
  BY DEF PortsUnmapped
<1>4. TypeOK /\ CommandInv
  BY DEF IInv
<1>5. /\ SameCommandOf /\ op'.engine = op.engine /\ op'.left = op.left /\ op' \in Operation
      /\ op'.step = "leave"
  BY <1>1, <1>4, GoToStep DEF PortsUnmapped
<1>6. SameLinks /\ Old' = Old /\ New' = New
  BY <1>3, <1>5, Unchanged DEF Old, New, Current, SameCommandOf
<1>7. TypeOK'
  BY <1>3, <1>4, <1>5 DEF TypeOK, SameCommandOf, lists, threads
<1>8. CommandInv'
  BY <1>1, <1>2, <1>3, <1>4, <1>5, NextStep
<1>9. ChannelsInv' /\ ExistsInv' /\ DeviceInv' /\ StatisticsInv' /\ SoloInv' /\ NewInv'
  BY <1>2, <1>3, <1>5, <1>6, NextStepFrame
<1>10. EngineInv'
  <2>1. EngineOf(Old)' = EngineOf(Old)
    BY <1>3, <1>6 DEF EngineOf
  <2> QED
    BY <1>1, <1>2, <1>3, <1>5, <1>6, <2>1 DEF IInv, EngineInv, SameCommandOf, lists
<1>11. MembersInv'
  BY <1>2, <1>3, <1>5, <1>6, SameMembers DEF IInv, lists
<1>12. RenderedInv'
  BY <1>2, <1>3, <1>5 DEF IInv, RenderedInv, EnginesOn, lists, Removing
<1>13. MapInv'
  <2>1. \A q \in MidiPorts : Connections(q)' = Connections(q)
    BY <1>3 DEF Connections
  <2> QED
    BY <1>1, <1>2, <1>3, <1>5, <1>6, <2>1 DEF IInv, MapInv, SameCommandOf
<1>14. AudioInv' /\ MidiInv'
  BY <1>2, <1>3, <1>5, NextStepThreads DEF lists, threads
<1> QED
  BY <1>7, <1>8, <1>9, <1>10, <1>11, <1>12, <1>13, <1>14 DEF IInv

-----------------------------------------------------------------------------
(* The engine of an engine channel *)

\* When an engine channel gets or loses its engine, nothing else about it changes.
LEMMA EngineChanged ==
  ASSUME IInv, NEW x \in EngineChannels, NEW d \in AudioDevices \cup {None},
         ec' = [ec EXCEPT ![x].engine = d], ec[x].exists,
         x[1] = op.chan, op.chan \in Channels, d \in {None, chan[op.chan].device},
         SameCommandOf, op'.left = op.left, op.left = {}, rt' # "stats",
         UNCHANGED <<channels, chan, devices, ports, failed, listening, map>>
  PROVE  /\ ec' \in [EngineChannels -> ECState] /\ ec'[x].engine = d
         /\ \A y \in EngineChannels \ {x} : ec'[y] = ec[y] /\ EngineOf(y)' = EngineOf(y)
         /\ \A y \in EngineChannels : ec'[y].exists = ec[y].exists /\ ec'[y].inputs = ec[y].inputs
         /\ \A p \in MidiPorts : map'[p] = Connections(p)'
         /\ Old' = Old /\ New' = New
         /\ ChannelsInv' /\ ExistsInv' /\ DeviceInv' /\ NewInv' /\ SoloInv' /\ StatisticsInv'
<1>1. TypeOK /\ CommandInv
  BY DEF IInv
<1>2. /\ ec' \in [EngineChannels -> ECState] /\ ec'[x].engine = d
      /\ \A y \in EngineChannels \ {x} : ec'[y] = ec[y]
      /\ \A y \in EngineChannels :
           /\ ec'[y].exists = ec[y].exists /\ ec'[y].inputs = ec[y].inputs /\ ec'[y].midi = ec[y].midi
           /\ ec'[y].mute = ec[y].mute /\ ec'[y].solo = ec[y].solo
  BY <1>1 DEF TypeOK, ECState
<1>3. \A y \in EngineChannels \ {x} : EngineOf(y)' = EngineOf(y)
  BY <1>2 DEF EngineOf
<1>4. \A p \in MidiPorts : map'[p] = Connections(p)'
  <2>1. \A p \in MidiPorts : map[p] = Connections(p)
    BY DEF IInv, MapInv
  <2>2. \A p \in MidiPorts : Connections(p)' = Connections(p)
    BY <1>2 DEF Connections
  <2> QED
    BY <2>1, <2>2
<1>5. Old' = Old /\ New' = New
  BY DEF Old, New, Current, SameCommandOf
<1>6. ChannelsInv'
  BY <1>2 DEF IInv, ChannelsInv, SameCommandOf
<1>7. ExistsInv'
  <2>1. \A y \in EngineChannels : Current(y[1])' = Current(y[1])
    BY DEF Current
  <2> QED
    BY <1>2, <1>5, <2>1 DEF IInv, ExistsInv, SameCommandOf
<1>8. DeviceInv'
  <2>1. \A k \in Channels : HasEC(k)' = HasEC(k) /\ Current(k)' = Current(k)
    BY DEF HasEC, Current
  <2>2. ASSUME NEW k \in Channels, HasEC(k)
        PROVE  /\ ec'[Current(k)].engine \in {None, chan[k].device}
               /\ k \in channels \ (failed \cup {op.chan}) => ec'[Current(k)].engine = chan[k].device
    <3>1. Current(k) \in EngineChannels /\ Current(k)[1] = k
      BY <1>1, <2>2, CurrentType
    <3>2. CASE Current(k) = x
      BY <1>2, <3>1, <3>2
    <3>3. CASE Current(k) # x
      BY <1>2, <2>2, <3>1, <3>3 DEF IInv, DeviceInv
    <3> QED
      BY <3>2, <3>3
  <2> QED
    BY <2>1, <2>2 DEF DeviceInv, SameCommandOf
<1>9. NewInv'
  <2>1. op.cmd = "SetEngineType" => New \in EngineChannels
    BY <1>1, Operating
  <2>2. listening \subseteq EngineChannels
    BY <1>1 DEF TypeOK
  <2> QED
    BY <1>2, <1>5, <2>1, <2>2 DEF IInv, NewInv, ListenersExist, SameCommandOf
<1>10. SoloInv'
  <2>1. HasSolo' <=> HasSolo
    BY <1>1, <1>2, SameHasSolo
  <2>2. \A k \in channels : HasEC(k) => Current(k) \in EngineChannels
    BY <1>1, CurrentType DEF TypeOK
  <2> QED
    BY <1>2, <2>1, <2>2 DEF IInv, SoloInv, HasEC, Current
<1>11. StatisticsInv'
  BY DEF StatisticsInv, StatisticsReadWhatExists
<1> QED
  BY <1>2, <1>3, <1>4, <1>5, <1>6, <1>7, <1>8, <1>9, <1>10, <1>11

\* The last engine channel of an engine takes it from the SysEx listeners, and the MIDI
\* threads are waited for.
LEMMA LeaveEngineStep ==
  ASSUME IInv, LeaveEngine
  PROVE  IInv'
<1> DEFINE e == op.engine
<1>1. Running("leave") /\ {"leave", "delete", "destroy"} \subseteq Removing
  BY DEF LeaveEngine, Removing
<1>2. /\ op.step = "leave" /\ op.step # "" /\ rt = "lscp" /\ op.chan \in Channels
      /\ \A i \in AudioDevices : ~ audio[i].old
      /\ \A q \in MidiPorts : ~ midi[q].old
  BY <1>1, Settling
<1>3. UNCHANGED <<scenario, channels, chan, devices, ports, engines, orphans, disabled, map, listening,
                  audio, stats, rt, failed, crashed>>
  BY DEF LeaveEngine
<1>4. TypeOK /\ CommandInv /\ RenderedInv /\ MembersInv
  BY DEF IInv
<1>5. /\ Old \in EngineChannels /\ HasEC(op.chan) /\ e = EngineOf(Old) /\ e \in Engines \cup {None}
      /\ e = None <=> ec[Old].engine = None
      /\ e # None => e[2] = chan[op.chan].device
      /\ op.cmd = "SetEngineType" => New \in EngineChannels /\ New # Old /\ ec[New].engine = None
  BY <1>1, <1>2, OldEngine DEF IInv, EngineInv
<1>6. op.left = {} /\ disabled = {} /\ Old[1] = op.chan /\ ec[Old].exists
      /\ \A i \in AudioDevices : e \notin rendered[i]
  <2>1. op.left = {} /\ disabled = {} /\ \A i \in AudioDevices : e \notin rendered[i]
    BY <1>2, <1>4 DEF IInv, MapInv, RenderedInv, Removing
  <2>2. Old[1] = op.chan
    BY DEF Old, Current
  <2> QED
    BY <1>5, <2>1, <2>2 DEF IInv, ExistsInv, Old
<1>7. op.cmd # "SetAudioOutputDevice" => ec[Old].inputs = {}
  BY <1>2 DEF IInv, MapInv
<1>8. CASE e = None
  <2>1. /\ SameCommandOf /\ op'.engine = e /\ op'.left = op.left /\ op' \in Operation
        /\ op'.step = "destroy"
    BY <1>1, <1>4, <1>8, GoToStep DEF LeaveEngine
  <2>2. UNCHANGED <<ec, members, rendered, sysex, midi>>
    BY <1>8 DEF LeaveEngine
  <2>3. SameLinks /\ Old' = Old /\ New' = New
    BY <1>3, <2>1, <2>2, Unchanged DEF Old, New, Current, SameCommandOf
  <2>4. TypeOK'
    BY <1>3, <1>4, <2>1, <2>2 DEF TypeOK, SameCommandOf
  <2>5. CommandInv'
    BY <1>1, <1>2, <1>3, <1>4, <2>1, NextStep
  <2>6. ChannelsInv' /\ ExistsInv' /\ DeviceInv' /\ StatisticsInv' /\ SoloInv' /\ NewInv'
    BY <1>2, <1>3, <2>1, <2>2, <2>3, NextStepFrame
  <2>7. EngineInv'
    BY <1>5, <1>8, <2>1, <2>2, <2>3 DEF EngineInv, SameCommandOf
  <2>8. MembersInv'
    BY <1>2, <1>3, <1>4, <2>1, <2>2, <2>3, SameMembers
  <2>9. RenderedInv'
    BY <1>2, <1>3, <1>4, <2>1, <2>2 DEF RenderedInv, EnginesOn, Removing
  <2>10. MapInv'
    <3>1. \A q \in MidiPorts : Connections(q)' = Connections(q)
      BY <2>2 DEF Connections
    <3> QED
      BY <1>2, <1>3, <1>7, <2>1, <2>2, <2>3, <3>1 DEF IInv, MapInv, SameCommandOf
  <2>11. AudioInv' /\ MidiInv'
    BY <1>2, <1>3, <2>1, <2>2, NextStepThreads
  <2> QED
    BY <2>4, <2>5, <2>6, <2>7, <2>8, <2>9, <2>10, <2>11 DEF IInv
<1>9. CASE e # None
  <2> DEFINE last == members'[e] = {}
  <2>1. /\ ec' = [ec EXCEPT ![Old].engine = None] /\ e \in Engines
        /\ members' = [members EXCEPT ![e] = members[e] \ {Old}]
    BY <1>4, <1>5, <1>9 DEF LeaveEngine, TypeOK
  <2>2. /\ last => /\ rendered' = [rendered EXCEPT ![e[2]] = @ \ {e}] /\ sysex' = sysex \ {e}
                   /\ midi' = [p \in MidiPorts |-> [midi[p] EXCEPT !.old = midi[p].kind = "sysex"]]
                   /\ GoTo("delete")
        /\ ~ last => GoTo("destroy") /\ UNCHANGED <<rendered, sysex, midi>>
    BY <1>9 DEF LeaveEngine
  <2>3. /\ SameCommandOf /\ op'.engine = e /\ op'.left = op.left /\ op' \in Operation
        /\ op'.step = IF last THEN "delete" ELSE "destroy"
    BY <1>1, <1>4, <2>2, GoToStep
  <2>4. rendered' = rendered
    <3>1. ASSUME last, NEW i \in AudioDevices PROVE rendered'[i] = rendered[i]
      <4>1. rendered'[i] \in {rendered[i], rendered[i] \ {e}}
        BY <1>4, <2>2, <3>1 DEF TypeOK
      <4> QED
        BY <1>6, <4>1
    <3>2. last => rendered' \in [AudioDevices -> SUBSET Engines]
      BY <1>4, <2>2 DEF TypeOK
    <3> QED
      BY <1>4, <2>2, <3>1, <3>2 DEF TypeOK
  <2>5. /\ members' \in [Engines -> SUBSET EngineChannels] /\ members'[e] = members[e] \ {Old}
        /\ \A i \in Engines \ {e} : members'[i] = members[i]
    BY <1>4, <2>1 DEF TypeOK
  <2>6. /\ ec' \in [EngineChannels -> ECState] /\ ec'[Old].engine = None
        /\ \A y \in EngineChannels \ {Old} : ec'[y] = ec[y] /\ EngineOf(y)' = EngineOf(y)
        /\ \A y \in EngineChannels : ec'[y].exists = ec[y].exists /\ ec'[y].inputs = ec[y].inputs
        /\ \A p \in MidiPorts : map'[p] = Connections(p)'
        /\ Old' = Old /\ New' = New
        /\ ChannelsInv' /\ ExistsInv' /\ DeviceInv' /\ NewInv' /\ SoloInv' /\ StatisticsInv'
    BY <1>2, <1>3, <1>5, <1>6, <2>1, <2>3, EngineChanged
  <2>7. /\ \A p \in MidiPorts : /\ midi'[p].kind = midi[p].kind /\ midi'[p].todo = midi[p].todo
                                /\ midi'[p].at = midi[p].at
                                /\ midi'[p].old <=> last /\ midi[p].kind = "sysex"
                                /\ midi[p].kind = "none" => midi'[p] = NoEvent
        /\ midi' \in [MidiPorts -> MidiState]
    <3>1. ASSUME NEW p \in MidiPorts
          PROVE  midi[p] \in MidiState /\ (midi[p].kind = "none" => midi[p] = NoEvent)
      BY <1>4 DEF TypeOK, IInv, MidiInv, MidiEventInv
    <3>2. CASE ~ last
      BY <1>2, <1>4, <2>2, <3>1, <3>2 DEF TypeOK
    <3>3. CASE last
      <4>1. midi' = [p \in MidiPorts |-> [midi[p] EXCEPT !.old = (midi[p].kind = "sysex")]]
        BY <2>2, <3>3
      <4> HIDE DEF last
      <4>2. ASSUME NEW p \in MidiPorts
            PROVE  /\ midi'[p].kind = midi[p].kind /\ midi'[p].todo = midi[p].todo
                   /\ midi'[p].at = midi[p].at /\ midi'[p].old = (midi[p].kind = "sysex")
                   /\ midi'[p] \in MidiState
        BY <3>1, <4>1 DEF MidiState
      <4>3. ASSUME NEW p \in MidiPorts, midi[p].kind = "none" PROVE midi'[p] = NoEvent
        <5>1. midi'[p] = [NoEvent EXCEPT !.old = FALSE]
          BY <3>1, <4>1, <4>3
        <5> QED
          BY <5>1 DEF NoEvent
      <4> QED
        BY <3>3, <4>1, <4>2, <4>3
    <3> QED
      BY <3>2, <3>3
  <2>8. TypeOK'
    <3>1. sysex' \subseteq Engines
      BY <1>4, <2>2 DEF TypeOK
    <3> QED
      BY <1>3, <1>4, <2>3, <2>4, <2>5, <2>6, <2>7, <3>1 DEF TypeOK, SameCommandOf
  <2>9. CommandInv'
    BY <1>1, <1>2, <1>3, <1>4, <2>3, NextStep
  <2>10. EngineInv'
    BY <1>3, <1>5, <1>9, <2>3, <2>6 DEF EngineInv, SameCommandOf
  <2>11. MembersInv'
    <3>1. EngineOf(Old)' = None
      BY <2>6 DEF EngineOf
    <3>2. ASSUME NEW i \in Engines PROVE members'[i] = {x \in EngineChannels : EngineOf(x)' = i}
      <4>1. members[i] = {x \in EngineChannels : EngineOf(x) = i}
        BY <1>4 DEF MembersInv
      <4>2. members'[i] = members[i] \ {Old}
        BY <1>5, <2>5, <4>1
      <4>3. EngineOf(Old)' # i
        BY <3>1, Pairs
      <4> QED
        BY <2>6, <4>1, <4>2, <4>3
    <3>3. e \in engines /\ members[e] # {}
      BY <1>4, <1>5, <2>1 DEF MembersInv
    <3>4. ASSUME NEW i \in Engines
          PROVE  /\ i \in engines' <=> members'[i] # {} \/ (op'.step \in {"delete", "join"} /\ i = op'.engine)
                 /\ i \in sysex' <=> members'[i] # {}
                 /\ i \in engines' => i[2] \in devices'
      <4>1. CASE i = e
        BY <1>3, <1>4, <2>2, <2>3, <3>3, <4>1 DEF MembersInv
      <4>2. CASE i # e
        BY <1>2, <1>3, <1>4, <2>2, <2>3, <2>5, <4>2 DEF MembersInv
      <4> QED
        BY <4>1, <4>2
    <3> QED
      BY <3>2, <3>4 DEF MembersInv
  <2>12. RenderedInv'
    BY <1>2, <1>3, <1>4, <1>6, <2>3, <2>4 DEF RenderedInv, EnginesOn, Removing
  <2>13. MapInv'
    BY <1>3, <1>5, <1>6, <1>7, <2>3, <2>6 DEF MapInv, SameCommandOf
  <2>14. AudioInv'
    BY <1>2, <1>3, <2>3, <2>4 DEF IInv, AudioInv, AudioCycleInv
  <2>15. MidiInv'
    <3>1. e \in engines
      BY <1>4, <1>5, <2>1 DEF MembersInv
    <3>2. ASSUME NEW p \in MidiPorts PROVE MidiEventInv(p)'
      <4>1. Mapped(p)' = Mapped(p)
        BY <1>3 DEF Mapped
      <4>2. MidiEventInv(p) /\ ~ midi[p].old
        BY <1>2 DEF IInv, MidiInv
      <4>3. midi[p].kind = "sysex" =>
              /\ midi'[p].todo \subseteq sysex' \cup (IF midi'[p].old THEN {e} ELSE {})
              /\ midi'[p].at \in {None} \cup sysex' \cup (IF midi'[p].old THEN {e} ELSE {})
              /\ midi'[p].old => op'.step = "delete" /\ e \in engines'
        BY <1>3, <2>2, <2>3, <2>7, <3>1, <4>2 DEF MidiEventInv
      <4> QED
        BY <2>3, <2>6, <2>7, <4>1, <4>2, <4>3 DEF MidiEventInv
    <3> QED
      BY <3>2 DEF MidiInv
  <2> QED
    BY <2>6, <2>8, <2>9, <2>10, <2>11, <2>12, <2>13, <2>14, <2>15 DEF IInv
<1> QED
  BY <1>8, <1>9

\* No engine channel is left that the engine could have.
LEMMA DeleteEngineStep ==
  ASSUME IInv, DeleteEngine
  PROVE  IInv'
<1>1. Running("delete") /\ {"delete", "destroy"} \subseteq Removing
  BY DEF DeleteEngine, Removing
<1>2. /\ op.step = "delete" /\ op.step # "" /\ rt = "lscp" /\ op.chan \in Channels
      /\ \A i \in AudioDevices : ~ audio[i].old
      /\ \A q \in MidiPorts : ~ midi[q].old
  BY <1>1, Settling
<1>3. /\ UNCHANGED <<scenario, channels, chan, ec, devices, ports, orphans, members, disabled, rendered,
                     sysex, map, listening, threads, rt, failed, crashed>>
      /\ engines' = engines \ {op.engine}
  BY DEF DeleteEngine
<1>4. TypeOK /\ CommandInv /\ RenderedInv /\ MembersInv /\ EngineInv
  BY DEF IInv
<1>5. /\ SameCommandOf /\ op'.engine = op.engine /\ op'.left = op.left /\ op' \in Operation
      /\ op'.step = "destroy"
  BY <1>1, <1>4, GoToStep DEF DeleteEngine
<1>6. SameLinks /\ Old' = Old /\ New' = New
  BY <1>3, <1>5, Unchanged DEF Old, New, Current, SameCommandOf
<1>7. disabled = {} /\ members[op.engine] = {} /\ \A i \in AudioDevices : op.engine \notin rendered[i]
  BY <1>2, <1>4 DEF RenderedInv, EngineInv, Removing
<1>8. TypeOK'
  BY <1>3, <1>4, <1>5, <1>7 DEF TypeOK, SameCommandOf, threads
<1>9. CommandInv'
  BY <1>1, <1>2, <1>3, <1>4, <1>5, NextStep
<1>10. ChannelsInv' /\ ExistsInv' /\ DeviceInv' /\ StatisticsInv' /\ SoloInv' /\ NewInv'
  BY <1>2, <1>3, <1>5, <1>6, NextStepFrame
<1>11. EngineInv'
  BY <1>1, <1>2, <1>3, <1>4, <1>5, <1>6 DEF EngineInv, SameCommandOf
<1>12. MembersInv'
  <2>1. \A i \in Engines : {x \in EngineChannels : EngineOf(x) = i}' = {x \in EngineChannels : EngineOf(x) = i}
    BY <1>3 DEF EngineOf
  <2> QED
    BY <1>2, <1>3, <1>4, <1>5, <1>7, <2>1 DEF MembersInv
<1>13. RenderedInv'
  BY <1>2, <1>3, <1>4, <1>5, <1>7 DEF RenderedInv, EnginesOn, Removing
<1>14. MapInv'
  <2>1. \A q \in MidiPorts : Connections(q)' = Connections(q)
    BY <1>3 DEF Connections
  <2> QED
    BY <1>2, <1>3, <1>5, <1>6, <2>1 DEF IInv, MapInv, SameCommandOf
<1>15. AudioInv' /\ MidiInv'
  BY <1>2, <1>3, <1>5, NextStepThreads DEF threads
<1> QED
  BY <1>8, <1>9, <1>10, <1>11, <1>12, <1>13, <1>14, <1>15 DEF IInv

\* Nothing knows an engine channel that is destroyed.
LEMMA Destroyed ==
  ASSUME IInv, Running("destroy"), op.cmd # "SetAudioOutputDevice",
         ec' = [ec EXCEPT ![Old] = NoEngineChannel],
         chan' \in [Channels -> ChannelState], chan'[op.chan].type = None,
         \A k \in Channels \ {op.chan} : chan'[k] = chan[k],
         op'.cmd = "SetEngineType" => op.cmd = "SetEngineType" /\ New' = New,
         op.cmd = "SetEngineType" => op'.cmd = "SetEngineType",
         op'.left = {}, op'.step \in {"", "acquire"},
         channels' \ (failed' \cup {op'.chan}) \subseteq channels \ (failed \cup {op.chan}),
         UNCHANGED <<channels, map, listening, midi, sysex>>
  PROVE  /\ ec' \in [EngineChannels -> ECState]
         /\ \A y \in EngineChannels : ec'[y].engine = ec[y].engine /\ ec'[y].inputs = ec[y].inputs
         /\ \A y \in EngineChannels \ {Old} : ec'[y] = ec[y]
         /\ ExistsInv' /\ DeviceInv' /\ MapInv' /\ SoloInv' /\ MidiInv' /\ ListenersExist'
<1>1. /\ TypeOK /\ CommandInv /\ "destroy" \in Removing
      /\ op.step = "destroy" /\ op.step # "" /\ op.chan \in Channels
      /\ \A q \in MidiPorts : ~ midi[q].old
  <2>1. TypeOK /\ CommandInv /\ "destroy" \in Removing
    BY DEF IInv, Removing
  <2> QED
    BY <2>1, Settling
<1>2. /\ Old \in EngineChannels /\ HasEC(op.chan) /\ Old[1] = op.chan /\ Old = Current(op.chan)
      /\ op.cmd = "SetEngineType" => New \in EngineChannels /\ New # Old
  BY <1>1, OldEngine, Operating
<1>3. ec[Old].engine = None /\ ec[Old].inputs = {} /\ op.left = {} /\ Old \notin listening
  <2>1. op.cmd \in {"RemoveChannel", "SetEngineType"}
    BY <1>1 DEF CommandInv
  <2> QED
    BY <1>1, <2>1 DEF IInv, EngineInv, MapInv, NewInv
<1>4. /\ ec' \in [EngineChannels -> ECState]
      /\ ec'[Old] = NoEngineChannel
      /\ \A y \in EngineChannels \ {Old} : ec'[y] = ec[y]
  <2>1. NoEngineChannel \in ECState
    BY SamplerAssumption DEF NoEngineChannel, ECState
  <2> QED
    BY <1>1, <1>2, <2>1 DEF TypeOK
<1>5. /\ ~ ec'[Old].exists /\ ec'[Old].engine = None /\ ec'[Old].inputs = {}
      /\ \A y \in EngineChannels : ec'[y].engine = ec[y].engine /\ ec'[y].inputs = ec[y].inputs
  <2>1. ~ ec'[Old].exists /\ ec'[Old].engine = None /\ ec'[Old].inputs = {}
    <3>1. /\ ~ NoEngineChannel.exists /\ NoEngineChannel.engine = None
          /\ NoEngineChannel.inputs = {}
      BY DEF NoEngineChannel
    <3> QED
      BY <1>4, <3>1
  <2>2. \A y \in EngineChannels \ {Old} : ec'[y].engine = ec[y].engine /\ ec'[y].inputs = ec[y].inputs
    BY <1>4
  <2> QED
    BY <1>3, <2>1, <2>2
<1>6. /\ \A k \in Channels : HasEC(k)' <=> k # op.chan /\ HasEC(k)
      /\ \A k \in Channels \ {op.chan} : Current(k)' = Current(k)
      /\ \A k \in Channels \ {op.chan} : HasEC(k) => Current(k) \in EngineChannels \ {Old}
  <2>1. \A k \in Channels \ {op.chan} : HasEC(k) => Current(k) \in EngineChannels \ {Old}
    BY <1>1, <1>2, CurrentType
  <2> QED
    BY <2>1 DEF HasEC, Current
<1>7. ExistsInv'
  <2>1. ASSUME NEW y \in EngineChannels, y[1] = op.chan PROVE Current(y[1])' # y
    <3>1. Current(y[1])' = <<y[1], None>>
      BY <2>1 DEF Current
    <3>2. y[2] # None /\ <<y[1], None>>[2] = None
      BY Pairs
    <3> QED
      BY <3>1, <3>2
  <2>2. ASSUME NEW y \in EngineChannels, y # Old
        PROVE  Current(y[1])' = y <=> Current(y[1]) = y
    <3>1. y[1] = op.chan => Current(y[1]) # y
      BY <1>2, <2>2
    <3>2. y[1] # op.chan => Current(y[1])' = Current(y[1])
      BY <1>6, Pairs
    <3> QED
      BY <2>1, <3>1, <3>2
  <2>3. op'.cmd = "SetEngineType" <=> op.cmd = "SetEngineType"
    OBVIOUS
  <2>4. ASSUME NEW y \in EngineChannels, y # Old
        PROVE  /\ ec'[y].exists <=> Current(y[1])' = y \/ (op'.cmd = "SetEngineType" /\ y = New')
               /\ ~ ec'[y].exists => ec'[y].engine = None /\ ec'[y].inputs = {}
    BY <1>4, <2>2, <2>3, <2>4 DEF IInv, ExistsInv
  <2>5. ~ (op'.cmd = "SetEngineType" /\ Old = New')
    BY <1>2
  <2> QED
    <3>1. ASSUME NEW y \in EngineChannels
          PROVE  /\ ec'[y].exists <=> Current(y[1])' = y \/ (op'.cmd = "SetEngineType" /\ y = New')
                 /\ ~ ec'[y].exists => ec'[y].engine = None /\ ec'[y].inputs = {}
      <4>1. CASE y = Old
        BY <1>2, <1>5, <2>1, <2>5, <4>1
      <4>2. CASE y # Old
        BY <2>4, <4>2
      <4> QED
        BY <4>1, <4>2
    <3> QED
      BY <3>1 DEF ExistsInv
<1>8. DeviceInv'
  <2> DEFINE K == Channels \ {op.chan}
  <2>1. /\ K \in SUBSET Channels /\ \A k \in Channels \ K : chan'[k].type = None
        /\ \A k \in K : chan'[k].type = chan[k].type
        /\ \A k \in K : HasEC(k) => /\ chan'[k].device = chan[k].device
                                    /\ ec'[Current(k)].engine = ec[Current(k)].engine
    BY <1>4, <1>6
  <2> HIDE DEF K
  <2> QED
    BY <2>1, KeptDevice DEF IInv
<1>9. \A p \in MidiPorts : map[p] = Connections(p)
  BY <1>3 DEF IInv, MapInv
<1>10. MapInv'
  <2>1. ASSUME NEW p \in MidiPorts PROVE Connections(p)' = Connections(p)
    <3>1. \A y \in EngineChannels : p \in ec'[y].inputs <=> p \in ec[y].inputs
      BY <1>5
    <3>2. \A y \in EngineChannels : p \in ec[y].inputs => ec'[y].midi = ec[y].midi
      BY <1>3, <1>4
    <3> QED
      BY <3>1, <3>2 DEF Connections
  <2> QED
    BY <1>9, <2>1 DEF MapInv
<1>11. SoloInv'
  <2>1. channels \subseteq Channels
    BY <1>1 DEF TypeOK
  <2>2. \A k \in channels : HasEC(k)' => /\ HasEC(k) /\ Current(k)' = Current(k)
                                         /\ ec'[Current(k)] = ec[Current(k)]
    BY <1>4, <1>6, <2>1
  <2>3. HasSolo' => HasSolo
    BY <2>2 DEF HasSolo
  <2> QED
    BY <2>2, <2>3 DEF IInv, SoloInv
<1>12. MidiInv'
  <2>1. ASSUME NEW p \in MidiPorts PROVE MidiEventInv(p)'
    <3>1. Mapped(p)' = Mapped(p)
      BY DEF Mapped
    <3>2. MidiEventInv(p) /\ ~ midi[p].old
      BY <1>1 DEF IInv, MidiInv
    <3>3. Old \notin Mapped(p)
      <4>1. map[p] = Connections(p) /\ ec[Old].inputs = {}
        BY <1>3, <1>9
      <4>2. ASSUME NEW z \in Connections(p) PROVE z[1] # Old
        <5>1. PICK y \in EngineChannels : p \in ec[y].inputs /\ z = <<y, ec[y].midi>>
          BY <4>2 DEF Connections
        <5> QED
          BY <4>1, <5>1
      <4> QED
        BY <4>1, <4>2 DEF Mapped
    <3> QED
      BY <1>4, <3>1, <3>2, <3>3 DEF MidiEventInv
  <2> QED
    BY <2>1 DEF MidiInv
<1>13. ListenersExist'
  BY <1>1, <1>3, <1>4 DEF IInv, NewInv, ListenersExist, TypeOK
<1> QED
  BY <1>4, <1>5, <1>7, <1>8, <1>10, <1>11, <1>12, <1>13

\* The old device renders the engine again if it still exists.
LEMMA DestroyEngineChannelStep ==
  ASSUME IInv, DestroyEngineChannel
  PROVE  IInv'
<1>1. Running("destroy") /\ "destroy" \in Removing /\ "acquire" \in Building
  BY DEF DestroyEngineChannel, Removing, Building
<1>2. /\ op.step = "destroy" /\ op.step # "" /\ rt = "lscp" /\ op.chan \in Channels
      /\ \A i \in AudioDevices : ~ audio[i].old
      /\ \A q \in MidiPorts : ~ midi[q].old
  BY <1>1, Settling
<1>3. /\ UNCHANGED <<scenario, channels, devices, ports, engines, orphans, members, disabled, sysex, map,
                     listening, midi, stats, crashed>>
      /\ IF op.engine \in engines THEN Render(chan[op.chan].device, op.engine)
                                  ELSE UNCHANGED <<rendered, audio>>
  BY DEF DestroyEngineChannel
<1>4. TypeOK /\ CommandInv /\ RenderedInv /\ MembersInv /\ EngineInv /\ ChannelsInv
  BY DEF IInv
<1>5. /\ op.left = {} /\ disabled = {} /\ ec[Old].engine = None
      /\ \A i \in AudioDevices : op.engine \notin rendered[i]
  BY <1>2, <1>4 DEF IInv, MapInv, RenderedInv, EngineInv, Removing
<1>6. /\ Old \in EngineChannels /\ HasEC(op.chan) /\ Old[1] = op.chan
      /\ op.cmd = "SetEngineType" => New \in EngineChannels /\ New # Old /\ ec[New].engine = None
  BY <1>1, <1>2, <1>4, OldEngine, Operating DEF EngineInv
<1>7. op.engine \in engines => op.engine \in Engines /\ op.engine[2] = chan[op.chan].device
                               /\ op.engine[2] \in AudioDevices
  <2>1. op.engine \in engines => op.engine \in Engines
    BY <1>4 DEF TypeOK
  <2> QED
    BY <1>2, <1>4, <2>1, Pairs DEF EngineInv
<1>8. /\ audio' = audio /\ rendered' \in [AudioDevices -> SUBSET Engines]
      /\ \A i \in AudioDevices : rendered'[i] = EnginesOn(i) /\ rendered[i] \subseteq rendered'[i]
  <2>1. \A i \in AudioDevices : rendered[i] \subseteq EnginesOn(i) /\ EnginesOn(i) \subseteq rendered[i] \cup {op.engine}
    BY <1>4 DEF RenderedInv
  <2>2. rendered \in [AudioDevices -> SUBSET Engines]
    BY <1>4 DEF TypeOK
  <2>3. CASE op.engine \in engines
    <3>1. audio' = audio
          /\ rendered' = [rendered EXCEPT ![op.engine[2]] = rendered[op.engine[2]] \cup {op.engine}]
      BY <1>3, <1>7, <2>2, <2>3 DEF Render
    <3>2. rendered'[op.engine[2]] = EnginesOn(op.engine[2])
      BY <1>7, <2>1, <2>2, <2>3, <3>1 DEF EnginesOn
    <3>3. \A i \in AudioDevices \ {op.engine[2]} : rendered'[i] = EnginesOn(i)
      BY <1>7, <2>1, <2>2, <2>3, <3>1 DEF EnginesOn
    <3>4. rendered' \in [AudioDevices -> SUBSET Engines]
      BY <1>7, <2>2, <2>3, <3>1
    <3> QED
      BY <2>1, <3>1, <3>2, <3>3, <3>4
  <2>4. CASE op.engine \notin engines
    BY <1>3, <2>1, <2>2, <2>4 DEF EnginesOn
  <2> QED
    BY <2>3, <2>4
<1> DEFINE Rest == /\ op' \in Operation /\ op'.cmd \in {"none"} \cup scenario.commands
                   /\ failed' \subseteq Channels /\ rt' \in {"free", "lscp"}
                   /\ ec' \in [EngineChannels -> ECState] /\ chan' \in [Channels -> ChannelState]
                   /\ op'.step \in {"", "acquire"}
                   /\ \A y \in EngineChannels : ec'[y].engine = ec[y].engine
<1>9. ASSUME Rest PROVE TypeOK' /\ MembersInv' /\ RenderedInv' /\ AudioInv' /\ StatisticsInv'
  <2>1. TypeOK'
    BY <1>3, <1>4, <1>8, <1>9 DEF TypeOK
  <2>2. MembersInv'
    <3>1. \A y \in EngineChannels : EngineOf(y)' = EngineOf(y)
      BY <1>9 DEF EngineOf
    <3>2. \A i \in Engines : {y \in EngineChannels : EngineOf(y) = i}' = {y \in EngineChannels : EngineOf(y) = i}
      BY <3>1
    <3> QED
      BY <1>2, <1>3, <1>4, <1>9, <3>2 DEF MembersInv
  <2>3. RenderedInv'
    <3>1. \A i \in AudioDevices : EnginesOn(i)' = EnginesOn(i)
      BY <1>3 DEF EnginesOn
    <3>2. op'.step \notin Removing \ {"unrender"} /\ op'.step # "await"
      BY <1>9 DEF Removing
    <3> QED
      BY <1>3, <1>5, <1>8, <3>1, <3>2 DEF RenderedInv
  <2>4. AudioInv'
    BY <1>2, <1>3, <1>8, <1>9, NextStepThreads
  <2>5. StatisticsInv'
    BY <1>9 DEF StatisticsInv, StatisticsReadWhatExists
  <2> QED
    BY <2>1, <2>2, <2>3, <2>4, <2>5
<1>10. CASE op.cmd = "SetAudioOutputDevice"
  <2>1. /\ chan' = [chan EXCEPT ![op.chan].device = op.device] /\ GoTo("acquire")
        /\ UNCHANGED <<ec, rt, failed>>
    BY <1>10 DEF DestroyEngineChannel
  <2>2. /\ SameCommandOf /\ op'.engine = op.engine /\ op'.left = op.left /\ op' \in Operation
        /\ op'.step = "acquire"
    BY <1>1, <1>4, <2>1, GoToStep
  <2>3. /\ op.chan \in channels /\ op.device \in devices /\ op.type # None /\ op.type = chan[op.chan].type
    BY <1>2, <1>4, <1>10 DEF CommandInv
  <2>4. /\ chan' \in [Channels -> ChannelState] /\ chan'[op.chan].device = op.device
        /\ \A k \in Channels : chan'[k].type = chan[k].type
        /\ \A k \in Channels \ {op.chan} : chan'[k] = chan[k]
    <3>1. /\ op.chan \in Channels /\ op.device \in AudioDevices
          /\ chan \in [Channels -> ChannelState] /\ chan[op.chan] \in ChannelState
      BY <1>4, <2>3 DEF TypeOK
    <3>2. /\ chan'[op.chan] = [chan[op.chan] EXCEPT !.device = op.device]
          /\ \A k \in Channels \ {op.chan} : chan'[k] = chan[k]
          /\ chan' = [k \in Channels |-> chan'[k]]
      BY <2>1, <3>1
    <3>3. /\ chan'[op.chan] \in ChannelState /\ chan'[op.chan].device = op.device
          /\ chan'[op.chan].type = chan[op.chan].type
      BY <3>1, <3>2 DEF ChannelState
    <3>4. \A k \in Channels : chan'[k] \in ChannelState
      BY <3>1, <3>2, <3>3
    <3> QED
      BY <3>2, <3>3, <3>4
  <2>5. SameLinks /\ Rest
    BY <1>2, <1>4, <2>1, <2>2, <2>4, Unchanged DEF TypeOK, SameCommandOf
  <2>6. TypeOK' /\ MembersInv' /\ RenderedInv' /\ AudioInv' /\ StatisticsInv'
    BY <1>9, <2>5
  <2>7. \A k \in Channels : HasEC(k)' = HasEC(k) /\ Current(k)' = Current(k)
    BY <2>4 DEF HasEC, Current
  <2>8. Old' = Old /\ New' = New /\ New = Old
    BY <1>2, <2>2, <2>3, <2>4 DEF Old, New, Current, SameCommandOf
  <2>9. CommandInv'
    <3>1. op'.step # "" /\ op'.step \notin {"unmap", "unmapping"} /\ op'.cmd = "SetAudioOutputDevice"
      BY <1>10, <2>2 DEF SameCommandOf
    <3> QED
      BY <1>2, <1>3, <2>1, <2>2, <2>3, <2>4, <3>1 DEF CommandInv, SameCommandOf
  <2>10. ChannelsInv'
    BY <1>2, <1>3, <1>4, <1>10, <2>1, <2>2, <2>3, <2>4 DEF ChannelsInv, SameCommandOf
  <2>11. ExistsInv'
    BY <1>10, <2>2, <2>4, <2>5, KeptExists DEF IInv, SameCommandOf
  <2>12. DeviceInv'
    <3>1. ASSUME NEW k \in Channels, HasEC(k)
          PROVE  /\ ec[Current(k)].engine \in {None, chan'[k].device}
                 /\ k \in channels \ (failed \cup {op.chan}) => ec[Current(k)].engine = chan'[k].device
      <4>1. CASE k = op.chan
        BY <1>5, <4>1 DEF Old
      <4>2. CASE k # op.chan
        BY <2>4, <3>1, <4>2 DEF IInv, DeviceInv
      <4> QED
        BY <4>1, <4>2
    <3> QED
      BY <1>3, <2>1, <2>2, <2>7, <3>1 DEF DeviceInv, SameCommandOf
  <2>13. EngineInv'
    <3>1. op'.step \notin Removing
      BY <2>2 DEF Removing
    <3> QED
      BY <1>5, <2>1, <2>2, <2>8, <3>1 DEF EngineInv
  <2>14. MapInv'
    <3>1. \A q \in MidiPorts : Connections(q)' = Connections(q)
      BY <2>1 DEF Connections
    <3> QED
      BY <1>3, <1>5, <2>2, <3>1 DEF IInv, MapInv
  <2>15. NewInv' /\ SoloInv'
    <3>1. ListenersExist'
      BY <1>3, <2>1 DEF IInv, NewInv, ListenersExist
    <3>2. channels \subseteq Channels
      BY <1>4 DEF TypeOK
    <3>3. SoloInv'
      BY <1>3, <2>1, <2>7, <3>2 DEF IInv, SoloInv, HasSolo
    <3> QED
      BY <1>10, <2>2, <3>1, <3>3 DEF NewInv, SameCommandOf
  <2>16. MidiInv'
    BY <1>2, <1>3, <1>8, <2>1, <2>2, NextStepThreads
  <2> QED
    BY <2>6, <2>9, <2>10, <2>11, <2>12, <2>13, <2>14, <2>15, <2>16 DEF IInv
<1>11. CASE op.cmd = "SetEngineType"
  <2>1. /\ chan' = [chan EXCEPT ![op.chan].type = None] /\ GoTo("acquire")
        /\ ec' = [ec EXCEPT ![Old] = NoEngineChannel] /\ UNCHANGED <<rt, failed>>
    BY <1>11 DEF DestroyEngineChannel
  <2>2. /\ SameCommandOf /\ op'.engine = op.engine /\ op'.left = op.left /\ op' \in Operation
        /\ op'.step = "acquire"
    BY <1>1, <1>4, <2>1, GoToStep
  <2>3. op.chan \in channels /\ op.type # None
    BY <1>2, <1>4, <1>11 DEF CommandInv
  <2>4. /\ chan' \in [Channels -> ChannelState] /\ chan'[op.chan].type = None
        /\ \A k \in Channels : chan'[k].device = chan[k].device
        /\ \A k \in Channels \ {op.chan} : chan'[k] = chan[k]
    <3>1. op.chan \in Channels /\ chan \in [Channels -> ChannelState] /\ chan[op.chan] \in ChannelState
      BY <1>2, <1>4 DEF TypeOK
    <3>2. /\ chan'[op.chan] = [chan[op.chan] EXCEPT !.type = None]
          /\ \A k \in Channels \ {op.chan} : chan'[k] = chan[k]
          /\ chan' = [k \in Channels |-> chan'[k]]
      BY <2>1, <3>1
    <3>3. /\ chan'[op.chan] \in ChannelState /\ chan'[op.chan].type = None
          /\ chan'[op.chan].device = chan[op.chan].device
      BY <3>1, <3>2 DEF ChannelState
    <3>4. \A k \in Channels : chan'[k] \in ChannelState
      BY <3>1, <3>2, <3>3
    <3> QED
      BY <3>2, <3>3, <3>4
  <2>5. New' = New
    BY <2>2 DEF New, SameCommandOf
  <2>6. /\ ec' \in [EngineChannels -> ECState]
        /\ \A y \in EngineChannels : ec'[y].engine = ec[y].engine /\ ec'[y].inputs = ec[y].inputs
        /\ \A y \in EngineChannels \ {Old} : ec'[y] = ec[y]
        /\ ExistsInv' /\ DeviceInv' /\ MapInv' /\ SoloInv' /\ MidiInv' /\ ListenersExist'
    BY <1>1, <1>3, <1>5, <1>11, <2>1, <2>2, <2>4, <2>5, Destroyed DEF SameCommandOf
  <2>7. TypeOK' /\ MembersInv' /\ RenderedInv' /\ AudioInv' /\ StatisticsInv'
    <3>1. Rest
      BY <1>2, <1>4, <2>1, <2>2, <2>4, <2>6 DEF TypeOK, SameCommandOf
    <3> QED
      BY <1>9, <3>1
  <2>8. CommandInv'
    <3>1. op'.step # "" /\ op'.step \notin Removing /\ op'.cmd = "SetEngineType"
      BY <1>11, <2>2 DEF SameCommandOf, Removing
    <3> QED
      BY <1>2, <1>3, <2>1, <2>2, <2>3, <2>4, <3>1 DEF CommandInv, SameCommandOf
  <2>9. ChannelsInv'
    BY <1>2, <1>3, <1>4, <1>11, <2>1, <2>2, <2>3, <2>4, <2>6 DEF ChannelsInv, SameCommandOf
  <2>10. EngineInv'
    BY <1>6, <1>11, <2>2, <2>5, <2>6 DEF EngineInv
  <2>11. NewInv'
    <3>1. Old' \notin listening
      <4>1. (Old')[2] = None
        BY <2>2, <2>4 DEF Old, Current, SameCommandOf
      <4> QED
        BY <1>4, <4>1, Pairs DEF TypeOK
    <3>2. ec'[New].inputs = {} /\ ~ ec'[New].solo /\ New \notin listening
      BY <1>6, <1>11, <2>6 DEF IInv, NewInv
    <3> QED
      BY <1>3, <2>5, <2>6, <3>1, <3>2 DEF NewInv
  <2> QED
    BY <2>6, <2>7, <2>8, <2>9, <2>10, <2>11 DEF IInv
<1>12. CASE op.cmd = "RemoveChannel"
  <2>1. /\ chan' = [chan EXCEPT ![op.chan] = Fresh]
        /\ ec' = [ec EXCEPT ![Old] = NoEngineChannel] /\ failed' = failed \ {op.chan}
        /\ op' = NoCommand /\ rt' = "free"
    BY <1>12 DEF DestroyEngineChannel
  <2>2. /\ op'.cmd = "none" /\ op'.step = "" /\ op'.chan = None /\ op'.engine = None /\ op'.left = {}
        /\ op'.ports = {} /\ op' \in Operation
    BY <2>1 DEF NoCommand, Operation
  <2>3. op.chan \notin channels
    BY <1>2, <1>4, <1>12 DEF CommandInv
  <2>4. /\ chan' \in [Channels -> ChannelState] /\ chan'[op.chan].type = None
        /\ chan'[op.chan].device = None
        /\ \A k \in Channels \ {op.chan} : chan'[k] = chan[k]
    BY <1>2, <1>4, <2>1, SamplerAssumption DEF TypeOK, ChannelState, Fresh
  <2>5. channels' \ (failed' \cup {op'.chan}) \subseteq channels \ (failed \cup {op.chan})
    <3>1. None \notin channels
      BY <1>4, Pairs DEF TypeOK
    <3> QED
      BY <1>3, <2>1, <2>2, <2>3, <3>1
  <2>6. /\ ec' \in [EngineChannels -> ECState]
        /\ \A y \in EngineChannels : ec'[y].engine = ec[y].engine /\ ec'[y].inputs = ec[y].inputs
        /\ ExistsInv' /\ DeviceInv' /\ MapInv' /\ SoloInv' /\ MidiInv' /\ ListenersExist'
    BY <1>1, <1>3, <1>12, <2>1, <2>2, <2>4, <2>5, Destroyed
  <2>7. TypeOK' /\ MembersInv' /\ RenderedInv' /\ AudioInv' /\ StatisticsInv'
    <3>1. Rest
      BY <1>4, <2>1, <2>2, <2>4, <2>6 DEF TypeOK
    <3> QED
      BY <1>9, <3>1
  <2>8. CommandInv' /\ EngineInv' /\ NewInv'
    <3>1. op'.step \notin Removing
      BY <2>2 DEF Removing
    <3> QED
      BY <2>1, <2>2, <2>6, <3>1 DEF CommandInv, EngineInv, NewInv
  <2>9. ChannelsInv'
    <3>1. \A k \in Channels \ channels : chan'[k].type = None /\ chan'[k].device = None
      BY <1>4, <2>4 DEF ChannelsInv
    <3>2. \A k \in Channels : chan'[k].device \in devices \cup {None}
      BY <1>4, <2>4 DEF ChannelsInv
    <3> QED
      BY <1>3, <1>4, <2>2, <2>6, <3>1, <3>2 DEF ChannelsInv
  <2> QED
    BY <2>6, <2>7, <2>8, <2>9 DEF IInv
<1> QED
  BY <1>1, <1>10, <1>11, <1>12, Settling

-----------------------------------------------------------------------------
(* Commands of several steps: building the new connection *)

\* Most steps change only what the engines and the audio threads have to do with.
LEMMA BuildingFrame ==
  ASSUME IInv, op.step \in Building, op'.step \in Building, SameCommandOf, op'.left = op.left,
         UNCHANGED <<channels, chan, ec, devices, ports, map, listening, failed, rt>>
  PROVE  /\ CommandInv' /\ ChannelsInv' /\ ExistsInv' /\ DeviceInv' /\ StatisticsInv' /\ SoloInv' /\ NewInv'
         /\ MapInv'
         /\ \A i \in Engines : {y \in EngineChannels : EngineOf(y) = i}' = {y \in EngineChannels : EngineOf(y) = i}
         /\ New' = New /\ SameLinks
<1>1. /\ op.step # "" /\ op.step # "unmapping" /\ op'.step \notin {"unmap", "unmapping"} \cup Removing
      /\ Removing \cap Building = {}
  BY DEF Building, Removing
<1>2. rt = "lscp" /\ op.left = {}
  BY <1>1 DEF IInv, CommandInv, MapInv
<1>3. SameLinks
  BY Unchanged
<1>4. CommandInv'
  BY <1>1, NextStep DEF IInv
<1>5. ChannelsInv' /\ ExistsInv' /\ DeviceInv' /\ StatisticsInv' /\ SoloInv' /\ NewInv'
  BY <1>2, <1>3, NextStepFrame
<1>6. MapInv'
  <2>1. \A q \in MidiPorts : Connections(q)' = Connections(q)
    BY DEF Connections
  <2> QED
    BY <1>1, <1>2, <2>1 DEF IInv, MapInv, Removing
<1>7. \A i \in Engines : {y \in EngineChannels : EngineOf(y) = i}' = {y \in EngineChannels : EngineOf(y) = i}
  BY DEF EngineOf
<1>8. New' = New
  BY DEF New, SameCommandOf
<1> QED
  BY <1>3, <1>4, <1>5, <1>6, <1>7, <1>8

\* The device of the channel of a command, and its engine of the type it will have
LEMMA TargetEngine ==
  ASSUME IInv, op.step \in Building, chan[op.chan].device # None
  PROVE  /\ chan[op.chan].device \in AudioDevices /\ chan[op.chan].device \in devices
         /\ <<op.type, chan[op.chan].device>> \in Engines
         /\ New \in EngineChannels /\ New[2] = op.type /\ op.chan \in Channels
<1>1. op.chan \in Channels /\ op.type \in EngineTypes /\ New \in EngineChannels /\ New[2] = op.type
  BY Operating DEF IInv
<1>2. chan[op.chan].device \in devices /\ devices \subseteq AudioDevices
  BY <1>1 DEF IInv, ChannelsInv, TypeOK
<1> QED
  BY <1>1, <1>2 DEF Engines

\* Without a device there is no engine to join.
LEMMA NoDeviceStep ==
  ASSUME IInv, NoDevice
  PROVE  IInv'
<1>1. Running("acquire") /\ {"acquire", "finish"} \subseteq Building
  BY DEF NoDevice, Building
<1>2. /\ op.step = "acquire" /\ op.chan \in Channels
      /\ \A i \in AudioDevices : ~ audio[i].old
      /\ \A q \in MidiPorts : ~ midi[q].old
  BY <1>1, Settling
<1>3. /\ UNCHANGED <<scenario, channels, chan, ec, devices, ports, lists, map, listening, threads, rt,
                     failed, crashed>>
      /\ chan[op.chan].device = None
  BY DEF NoDevice
<1>4. TypeOK /\ CommandInv
  BY DEF IInv
<1>5. /\ SameCommandOf /\ op'.engine = op.engine /\ op'.left = op.left /\ op' \in Operation
      /\ op'.step = "finish"
  BY <1>1, <1>4, GoToStep DEF NoDevice
<1>6. /\ CommandInv' /\ ChannelsInv' /\ ExistsInv' /\ DeviceInv' /\ StatisticsInv' /\ SoloInv' /\ NewInv'
      /\ MapInv' /\ New' = New /\ SameLinks
  BY <1>1, <1>2, <1>3, <1>5, BuildingFrame
<1>7. TypeOK'
  BY <1>3, <1>4, <1>5 DEF TypeOK, SameCommandOf, lists, threads
<1>8. EngineInv'
  BY <1>2, <1>3, <1>5, <1>6 DEF IInv, EngineInv, SameCommandOf, Removing
<1>9. MembersInv'
  BY <1>2, <1>3, <1>5, <1>6, SameMembers DEF IInv, lists
<1>10. RenderedInv'
  BY <1>2, <1>3, <1>5 DEF IInv, RenderedInv, EnginesOn, lists, Removing
<1>11. AudioInv' /\ MidiInv'
  BY <1>2, <1>3, <1>5, NextStepThreads DEF lists, threads
<1> QED
  BY <1>6, <1>7, <1>8, <1>9, <1>10, <1>11 DEF IInv

\* The engine exists already: it is disabled before its list of engine channels changes.
LEMMA AcquireEngineStep ==
  ASSUME IInv, AcquireEngine
  PROVE  IInv'
<1> DEFINE e == <<op.type, chan[op.chan].device>>
<1>1. Running("acquire") /\ {"acquire", "await"} \subseteq Building
  BY DEF AcquireEngine, Building
<1>2. /\ op.step = "acquire" /\ op.chan \in Channels
      /\ \A i \in AudioDevices : ~ audio[i].old
      /\ \A q \in MidiPorts : ~ midi[q].old
  BY <1>1, Settling
<1>3. /\ UNCHANGED <<scenario, channels, chan, ec, devices, ports, engines, orphans, members, rendered,
                     sysex, map, listening, threads, rt, failed, crashed>>
      /\ chan[op.chan].device # None /\ e \in engines /\ disabled' = disabled \cup {e}
      /\ op' = [op EXCEPT !.engine = e, !.step = "await"]
  BY DEF AcquireEngine
<1>4. TypeOK /\ CommandInv /\ RenderedInv
  BY DEF IInv
<1>5. e \in Engines /\ New \in EngineChannels
  BY <1>1, <1>2, <1>3, TargetEngine
<1>6. /\ SameCommandOf /\ op'.engine = e /\ op'.left = op.left /\ op' \in Operation
      /\ op'.step = "await"
  <2> HIDE DEF e
  <2> QED
    BY <1>3, <1>4, <1>5 DEF TypeOK, Operation, SameCommandOf, Building
<1>7. /\ CommandInv' /\ ChannelsInv' /\ ExistsInv' /\ DeviceInv' /\ StatisticsInv' /\ SoloInv' /\ NewInv'
      /\ MapInv' /\ New' = New /\ SameLinks
  BY <1>1, <1>2, <1>3, <1>6, BuildingFrame
<1>8. disabled = {} /\ disabled' = {e} /\ \A i \in AudioDevices : rendered[i] = EnginesOn(i)
  BY <1>2, <1>3, <1>4 DEF RenderedInv, Removing
<1>9. TypeOK'
  BY <1>3, <1>4, <1>6, <1>8 DEF TypeOK, SameCommandOf, threads
<1>10. EngineInv'
  BY <1>2, <1>3, <1>6, <1>7 DEF IInv, EngineInv, SameCommandOf, Removing
<1>11. MembersInv'
  BY <1>2, <1>3, <1>6, <1>7, SameMembers DEF IInv
<1>12. RenderedInv'
  BY <1>3, <1>6, <1>8 DEF RenderedInv, EnginesOn, Removing
<1>13. AudioInv' /\ MidiInv'
  BY <1>2, <1>3, <1>6, NextStepThreads DEF threads
<1> QED
  BY <1>7, <1>9, <1>10, <1>11, <1>12, <1>13 DEF IInv

\* No audio thread is in the engine, and none will be as long as it is disabled.
LEMMA EngineDisabledStep ==
  ASSUME IInv, EngineDisabled
  PROVE  IInv'
<1>1. Running("await") /\ {"await", "join"} \subseteq Building
  BY DEF EngineDisabled, Building
<1>2. /\ op.step = "await" /\ op.chan \in Channels
      /\ \A i \in AudioDevices : ~ audio[i].old
      /\ \A q \in MidiPorts : ~ midi[q].old
  BY <1>1, Settling
<1>3. /\ UNCHANGED <<scenario, channels, chan, ec, devices, ports, lists, map, listening, threads, rt,
                     failed, crashed>>
      /\ \A i \in AudioDevices : audio[i].at # op.engine
  BY DEF EngineDisabled
<1>4. TypeOK /\ CommandInv /\ RenderedInv /\ MembersInv
  BY DEF IInv
<1>5. /\ SameCommandOf /\ op'.engine = op.engine /\ op'.left = op.left /\ op' \in Operation
      /\ op'.step = "join"
  BY <1>1, <1>4, GoToStep DEF EngineDisabled
<1>6. /\ CommandInv' /\ ChannelsInv' /\ ExistsInv' /\ DeviceInv' /\ StatisticsInv' /\ SoloInv' /\ NewInv'
      /\ MapInv' /\ New' = New /\ SameLinks
      /\ \A i \in Engines : {y \in EngineChannels : EngineOf(y) = i}' = {y \in EngineChannels : EngineOf(y) = i}
  BY <1>1, <1>2, <1>3, <1>5, BuildingFrame
<1>7. op.engine \in disabled /\ op.engine \in engines
  BY <1>2, <1>4 DEF RenderedInv, TypeOK
<1>8. TypeOK'
  BY <1>3, <1>4, <1>5 DEF TypeOK, SameCommandOf, lists, threads
<1>9. EngineInv'
  BY <1>2, <1>3, <1>5, <1>6 DEF IInv, EngineInv, SameCommandOf, Removing
<1>10. MembersInv'
  BY <1>2, <1>3, <1>4, <1>5, <1>6, <1>7 DEF MembersInv, lists
<1>11. RenderedInv'
  BY <1>2, <1>3, <1>4, <1>5 DEF RenderedInv, EnginesOn, lists, Removing
<1>12. AudioInv'
  BY <1>2, <1>3, <1>5, <1>7 DEF IInv, AudioInv, AudioCycleInv, lists, threads
<1>13. MidiInv'
  BY <1>2, <1>3 DEF IInv, MidiInv, MidiEventInv, Mapped, lists, threads
<1> QED
  BY <1>6, <1>8, <1>9, <1>10, <1>11, <1>12, <1>13 DEF IInv

\* The engine is new: its device does not render it yet.
LEMMA CreateEngineStep ==
  ASSUME IInv, CreateEngine
  PROVE  IInv'
<1> DEFINE e == <<op.type, chan[op.chan].device>>
<1>1. Running("acquire") /\ {"acquire", "join"} \subseteq Building
  BY DEF CreateEngine, Building
<1>2. /\ op.step = "acquire" /\ op.chan \in Channels
      /\ \A i \in AudioDevices : ~ audio[i].old
      /\ \A q \in MidiPorts : ~ midi[q].old
  BY <1>1, Settling
<1>3. /\ UNCHANGED <<scenario, channels, chan, ec, devices, ports, orphans, members, disabled, rendered,
                     sysex, map, listening, threads, rt, failed, crashed>>
      /\ chan[op.chan].device # None /\ e \notin engines /\ engines' = engines \cup {e}
      /\ op' = [op EXCEPT !.engine = e, !.step = "join"]
  BY DEF CreateEngine
<1>4. TypeOK /\ CommandInv /\ RenderedInv /\ MembersInv
  BY DEF IInv
<1>5. e \in Engines /\ New \in EngineChannels /\ e[2] \in devices /\ e # None
  BY <1>1, <1>2, <1>3, TargetEngine, Pairs
<1>6. /\ SameCommandOf /\ op'.engine = e /\ op'.left = op.left /\ op' \in Operation
      /\ op'.step = "join"
  <2> HIDE DEF e
  <2> QED
    BY <1>3, <1>4, <1>5 DEF TypeOK, Operation, SameCommandOf, Building
<1>7. /\ CommandInv' /\ ChannelsInv' /\ ExistsInv' /\ DeviceInv' /\ StatisticsInv' /\ SoloInv' /\ NewInv'
      /\ MapInv' /\ New' = New /\ SameLinks
      /\ \A i \in Engines : {y \in EngineChannels : EngineOf(y) = i}' = {y \in EngineChannels : EngineOf(y) = i}
  BY <1>1, <1>2, <1>3, <1>6, BuildingFrame
<1>8. disabled = {} /\ \A i \in AudioDevices : rendered[i] = EnginesOn(i)
  BY <1>2, <1>4 DEF RenderedInv, Removing
<1>9. EngineInv'
  BY <1>2, <1>3, <1>6, <1>7 DEF IInv, EngineInv, SameCommandOf, Removing
<1> HIDE DEF e
<1>10. TypeOK'
  BY <1>3, <1>4, <1>5, <1>6 DEF TypeOK, SameCommandOf, threads
<1>11. MembersInv'
  <2>1. ASSUME NEW i \in Engines
        PROVE  /\ members'[i] = members[i] /\ sysex' = sysex
               /\ i \in engines' <=> members[i] # {} \/ i = e
               /\ i \in engines' => i[2] \in devices
    BY <1>2, <1>3, <1>4, <1>5 DEF MembersInv
  <2> QED
    BY <1>3, <1>4, <1>6, <1>7, <2>1 DEF MembersInv
<1>12. RenderedInv'
  <2>1. \A i \in AudioDevices : EnginesOn(i) \subseteq EnginesOn(i)' /\ EnginesOn(i)' \subseteq EnginesOn(i) \cup {e}
    BY <1>3 DEF EnginesOn
  <2> QED
    BY <1>3, <1>6, <1>8, <2>1 DEF RenderedInv, Removing
<1>13. AudioInv'
  <2>1. ASSUME NEW i \in AudioDevices PROVE AudioCycleInv(i)' /\ audio[i].at # e /\ e \notin rendered[i]
    <3>1. AudioCycleInv(i) /\ rendered[i] \subseteq engines
      BY <1>4, RenderedTypes DEF IInv, AudioInv
    <3> QED
      BY <1>2, <1>3, <1>5, <3>1 DEF AudioCycleInv, threads
  <2> QED
    BY <1>3, <1>6, <2>1 DEF AudioInv, threads
<1>14. MidiInv'
  BY <1>2, <1>3 DEF IInv, MidiInv, MidiEventInv, Mapped, threads
<1> QED
  BY <1>7, <1>9, <1>10, <1>11, <1>12, <1>13, <1>14 DEF IInv

\* The engine gets its engine channel, and is enabled.
LEMMA JoinEngineStep ==
  ASSUME IInv, JoinEngine
  PROVE  IInv'
<1> DEFINE e == op.engine
<1>1. Running("join") /\ {"join", "render"} \subseteq Building
  BY DEF JoinEngine, Building
<1>2. /\ op.step = "join" /\ op.step # "" /\ op.chan \in Channels /\ rt = "lscp"
      /\ \A i \in AudioDevices : ~ audio[i].old
      /\ \A q \in MidiPorts : ~ midi[q].old
  BY <1>1, Settling
<1>3. /\ UNCHANGED <<scenario, channels, chan, devices, ports, engines, orphans, rendered, map, listening,
                     threads, rt, failed, crashed>>
      /\ ec' = [ec EXCEPT ![New].engine = e[2]]
      /\ disabled' = disabled \ {e} /\ sysex' = sysex \cup {e}
  BY DEF JoinEngine
<1>4. TypeOK /\ CommandInv /\ RenderedInv /\ MembersInv
  BY DEF IInv
<1>5. /\ e \in Engines /\ e = <<op.type, chan[op.chan].device>> /\ e[2] = chan[op.chan].device
      /\ e[2] \in AudioDevices /\ New \in EngineChannels /\ New[1] = op.chan /\ New[2] = op.type
      /\ ec[New].engine = None
  <2>1. ec[New].engine = None /\ chan[op.chan].device # None /\ e = <<op.type, chan[op.chan].device>>
    BY <1>2 DEF IInv, EngineInv
  <2>2. New[1] = op.chan /\ New[2] = op.type
    BY DEF New
  <2> QED
    BY <1>1, <1>2, <2>1, <2>2, TargetEngine, Pairs
<1>6. /\ SameCommandOf /\ op'.engine = e /\ op'.left = op.left /\ op' \in Operation
      /\ op'.step = "render"
  BY <1>1, <1>4, GoToStep DEF JoinEngine
<1>7. op.left = {} /\ disabled' = {} /\ ec[New].exists
  <2>1. op.left = {} /\ disabled' = {}
    BY <1>2, <1>3, <1>4 DEF IInv, MapInv, RenderedInv
  <2>2. op.cmd = "SetEngineType" \/ Current(op.chan) = New
    BY <1>1, <1>2, <1>4 DEF CommandInv, New, Current, Removing
  <2> QED
    BY <1>5, <2>1, <2>2 DEF IInv, ExistsInv
<1>8. /\ ec' \in [EngineChannels -> ECState] /\ ec'[New].engine = e[2]
      /\ \A y \in EngineChannels \ {New} : ec'[y] = ec[y] /\ EngineOf(y)' = EngineOf(y)
      /\ \A y \in EngineChannels : ec'[y].exists = ec[y].exists /\ ec'[y].inputs = ec[y].inputs
      /\ \A p \in MidiPorts : map'[p] = Connections(p)'
      /\ Old' = Old /\ New' = New
      /\ ChannelsInv' /\ ExistsInv' /\ DeviceInv' /\ NewInv' /\ SoloInv' /\ StatisticsInv'
  <2> HIDE DEF e
  <2> QED
    BY <1>2, <1>3, <1>5, <1>6, <1>7, EngineChanged
<1>9. /\ members' \in [Engines -> SUBSET EngineChannels] /\ members'[e] = members[e] \cup {New}
      /\ \A i \in Engines \ {e} : members'[i] = members[i]
  BY <1>4, <1>5 DEF JoinEngine, TypeOK
<1>10. TypeOK'
  BY <1>3, <1>4, <1>5, <1>6, <1>7, <1>8, <1>9 DEF TypeOK, SameCommandOf, threads
<1>11. CommandInv'
  BY <1>1, <1>2, <1>3, <1>4, <1>6, NextStep
<1>12. EngineInv'
  BY <1>2, <1>3, <1>5, <1>6, <1>8 DEF IInv, EngineInv, SameCommandOf, Removing
<1>13. MembersInv'
  <2>1. EngineOf(New) = None
    BY <1>5 DEF EngineOf
  <2>2. EngineOf(New)' = e
    BY <1>5, <1>8, Pairs DEF EngineOf
  <2>3. ASSUME NEW i \in Engines PROVE members'[i] = {y \in EngineChannels : EngineOf(y)' = i}
    <3>1. members[i] = {y \in EngineChannels : EngineOf(y) = i}
      BY <1>4 DEF MembersInv
    <3>2. members'[i] = members[i] \cup {y \in {New} : i = e}
      BY <1>9
    <3>3. EngineOf(New) # i
      BY <2>1, Pairs
    <3> QED
      BY <1>5, <1>8, <2>2, <3>1, <3>2, <3>3
  <2>4. ASSUME NEW i \in Engines
        PROVE  /\ i \in engines' <=> members'[i] # {}
               /\ i \in sysex' <=> members'[i] # {}
               /\ i \in engines' => i[2] \in devices'
    <3>1. CASE i = e
      BY <1>2, <1>3, <1>4, <1>9, <3>1 DEF MembersInv
    <3>2. CASE i # e
      BY <1>2, <1>3, <1>4, <1>9, <3>2 DEF MembersInv
    <3> QED
      BY <3>1, <3>2
  <2> QED
    BY <1>6, <2>3, <2>4 DEF MembersInv
<1>14. RenderedInv'
  BY <1>2, <1>3, <1>4, <1>6, <1>7 DEF RenderedInv, EnginesOn, Removing
<1>15. MapInv'
  BY <1>6, <1>7, <1>8 DEF MapInv
<1>16. AudioInv' /\ MidiInv'
  BY <1>2, <1>3, <1>6, <1>8, NextStepThreads DEF threads
<1> QED
  BY <1>8, <1>10, <1>11, <1>12, <1>13, <1>14, <1>15, <1>16 DEF IInv

\* From now on its device renders it.
LEMMA RenderEngineStep ==
  ASSUME IInv, RenderEngine
  PROVE  IInv'
<1> DEFINE e == op.engine
           d == chan[op.chan].device
<1>1. Running("render") /\ {"render", "finish"} \subseteq Building
  BY DEF RenderEngine, Building
<1>2. /\ op.step = "render" /\ op.chan \in Channels
      /\ \A i \in AudioDevices : ~ audio[i].old
      /\ \A q \in MidiPorts : ~ midi[q].old
  BY <1>1, Settling
<1>3. /\ UNCHANGED <<scenario, channels, chan, ec, devices, ports, engines, orphans, members, disabled,
                     sysex, map, listening, midi, stats, rt, failed, crashed>>
      /\ rendered' = [rendered EXCEPT ![d] = rendered[d] \cup {e}] /\ audio' = audio
  BY DEF RenderEngine, Render, IInv, TypeOK
<1>4. TypeOK /\ CommandInv /\ RenderedInv /\ MembersInv
  BY DEF IInv
<1>5. /\ SameCommandOf /\ op'.engine = e /\ op'.left = op.left /\ op' \in Operation
      /\ op'.step = "finish"
  BY <1>1, <1>4, GoToStep DEF RenderEngine
<1>6. /\ CommandInv' /\ ChannelsInv' /\ ExistsInv' /\ DeviceInv' /\ StatisticsInv' /\ SoloInv' /\ NewInv'
      /\ MapInv' /\ New' = New /\ SameLinks
  BY <1>1, <1>2, <1>3, <1>5, BuildingFrame
<1>7. d \in AudioDevices /\ e \in Engines /\ e[2] = d /\ e \in engines
  <2>1. d # None /\ e = <<op.type, d>> /\ ec[New].engine = d
    BY <1>2 DEF IInv, EngineInv
  <2>2. d \in AudioDevices /\ e \in Engines /\ New \in EngineChannels /\ New[2] = op.type
    BY <1>1, <1>2, <2>1, TargetEngine
  <2>3. EngineOf(New) = e
    BY <2>1, <2>2 DEF EngineOf
  <2> QED
    BY <1>4, <2>1, <2>2, <2>3 DEF MembersInv
<1> HIDE DEF e, d
<1>8. /\ rendered' \in [AudioDevices -> SUBSET Engines]
      /\ \A i \in AudioDevices : rendered'[i] = EnginesOn(i) /\ rendered[i] \subseteq rendered'[i]
  <2>1. \A i \in AudioDevices : rendered[i] \subseteq EnginesOn(i) /\ EnginesOn(i) \subseteq rendered[i] \cup {e}
    BY <1>4 DEF RenderedInv, e
  <2>2. rendered \in [AudioDevices -> SUBSET Engines]
    BY <1>4 DEF TypeOK
  <2>3. rendered'[d] = EnginesOn(d)
    BY <1>3, <1>7, <2>1, <2>2 DEF EnginesOn
  <2>4. \A i \in AudioDevices \ {d} : rendered'[i] = EnginesOn(i)
    BY <1>3, <1>7, <2>1, <2>2 DEF EnginesOn
  <2> QED
    BY <1>3, <1>7, <2>1, <2>2, <2>3, <2>4
<1>9. TypeOK'
  BY <1>3, <1>4, <1>5, <1>8 DEF TypeOK, SameCommandOf
<1>10. EngineInv'
  BY <1>2, <1>3, <1>5, <1>6 DEF IInv, EngineInv, SameCommandOf, Removing
<1>11. MembersInv'
  BY <1>2, <1>3, <1>4, <1>5, <1>6, SameMembers DEF e
<1>12. RenderedInv'
  <2>1. disabled = {} /\ \A i \in AudioDevices : EnginesOn(i)' = EnginesOn(i)
    BY <1>2, <1>3, <1>4 DEF RenderedInv, EnginesOn
  <2> QED
    BY <1>3, <1>5, <1>8, <2>1 DEF RenderedInv, Removing
<1>13. AudioInv' /\ MidiInv'
  BY <1>2, <1>3, <1>5, <1>8, NextStepThreads
<1> QED
  BY <1>6, <1>9, <1>10, <1>11, <1>12, <1>13 DEF IInv

-----------------------------------------------------------------------------
(* Commands of several steps: their end *)

\* Nothing is left of a command that ends without changing engines or threads.
LEMMA Ending ==
  ASSUME IInv, op.step \in {"acquire", "finish"}, op' = NoCommand, rt' = "free",
         \A i \in AudioDevices : ~ audio[i].old,
         \A y \in EngineChannels : ec'[y].engine = ec[y].engine,
         UNCHANGED <<scenario, channels, devices, ports, engines, members, disabled, rendered, sysex,
                     audio, stats>>
  PROVE  /\ CommandInv' /\ EngineInv' /\ MembersInv' /\ RenderedInv' /\ AudioInv' /\ StatisticsInv'
         /\ op'.cmd = "none" /\ op'.chan = None /\ op'.ports = {} /\ op'.left = {} /\ op'.step = ""
         /\ op' \in Operation
<1>1. /\ op'.cmd = "none" /\ op'.chan = None /\ op'.ports = {} /\ op'.left = {} /\ op'.step = ""
      /\ op' \in Operation
  BY DEF NoCommand, Operation
<1>2. CommandInv' /\ EngineInv' /\ StatisticsInv'
  <2>1. op'.step \notin Removing
    BY <1>1 DEF Removing
  <2> QED
    BY <1>1, <2>1 DEF CommandInv, EngineInv, StatisticsInv, StatisticsReadWhatExists
<1>3. MembersInv'
  <2>1. \A y \in EngineChannels : EngineOf(y)' = EngineOf(y)
    BY DEF EngineOf
  <2>2. \A i \in Engines : {y \in EngineChannels : EngineOf(y) = i}' = {y \in EngineChannels : EngineOf(y) = i}
    BY <2>1
  <2> QED
    BY <1>1, <2>2 DEF IInv, MembersInv
<1>4. RenderedInv'
  <2>1. disabled = {} /\ \A i \in AudioDevices : rendered[i] = EnginesOn(i) /\ EnginesOn(i)' = EnginesOn(i)
    BY DEF IInv, RenderedInv, Removing, EnginesOn
  <2> QED
    BY <1>1, <2>1 DEF RenderedInv, Removing
<1>5. AudioInv'
  BY <1>1 DEF IInv, AudioInv, AudioCycleInv
<1> QED
  BY <1>1, <1>2, <1>3, <1>4, <1>5

\* Without an engine, a new engine channel is destroyed again, and another one stays
\* without an engine.
LEMMA CreateEngineFailsStep ==
  ASSUME IInv, CreateEngineFails
  PROVE  IInv'
<1>1. Running("acquire") /\ "acquire" \in Building
  BY DEF CreateEngineFails, Building
<1>2. /\ op.step = "acquire" /\ op.step # "" /\ op.chan \in Channels
      /\ \A i \in AudioDevices : ~ audio[i].old
      /\ \A q \in MidiPorts : ~ midi[q].old
  BY <1>1, Settling
<1>3. /\ UNCHANGED <<scenario, channels, chan, devices, ports, engines, members, disabled, rendered, sysex,
                     map, listening, threads, crashed>>
      /\ op' = NoCommand /\ rt' = "free" /\ chan[op.chan].device # None
      /\ orphans' = orphans \cup {<<op.type, chan[op.chan].device>>}
      /\ ec' = IF op.cmd = "SetEngineType" THEN [ec EXCEPT ![New] = NoEngineChannel] ELSE ec
      /\ failed' = IF op.cmd = "SetEngineType" THEN failed ELSE failed \cup {op.chan}
  BY DEF CreateEngineFails
<1>4. TypeOK /\ CommandInv /\ ChannelsInv /\ ExistsInv
  BY DEF IInv
<1>5. <<op.type, chan[op.chan].device>> \in Engines /\ New \in EngineChannels /\ New[1] = op.chan
  BY <1>1, <1>2, <1>3, TargetEngine DEF New
<1>6. op.left = {} /\ ec[New].engine = None /\ \A p \in MidiPorts : map[p] = Connections(p)
  BY <1>2 DEF IInv, MapInv, EngineInv
<1> DEFINE Done == /\ ec' \in [EngineChannels -> ECState] /\ SoloInv' /\ MidiInv' /\ ListenersExist'
                   /\ \A y \in EngineChannels :
                        /\ ec'[y].engine = ec[y].engine /\ ec'[y].inputs = ec[y].inputs
                        /\ ec[y].inputs # {} => ec'[y].midi = ec[y].midi
                   /\ ExistsInv' /\ DeviceInv'
<1>7. \A k \in Channels : HasEC(k)' = HasEC(k) /\ Current(k)' = Current(k)
  BY <1>3 DEF HasEC, Current
<1>8. ASSUME op.cmd = "SetEngineType" PROVE Done
  <2>1. /\ ec[New].inputs = {} /\ New \notin listening /\ chan[op.chan].type = None
    <3>1. op.step \in Building
      BY <1>1, <1>2
    <3> QED
      BY <1>2, <1>4, <1>8, <3>1 DEF IInv, NewInv, CommandInv
  <2>2. /\ ec' \in [EngineChannels -> ECState] /\ ec'[New] = NoEngineChannel
        /\ \A y \in EngineChannels \ {New} : ec'[y] = ec[y]
    <3>1. NoEngineChannel \in ECState
      BY SamplerAssumption DEF NoEngineChannel, ECState
    <3> QED
      BY <1>3, <1>4, <1>5, <1>8, <3>1 DEF TypeOK
  <2>3. ~ ec'[New].exists /\ ec'[New].engine = None /\ ec'[New].inputs = {}
    <3>1. ~ NoEngineChannel.exists /\ NoEngineChannel.engine = None /\ NoEngineChannel.inputs = {}
      BY DEF NoEngineChannel
    <3> QED
      BY <2>2, <3>1
  <2>4. \A y \in EngineChannels : /\ ec'[y].engine = ec[y].engine /\ ec'[y].inputs = ec[y].inputs
                                  /\ ec[y].inputs # {} => ec'[y].midi = ec[y].midi
    BY <1>6, <2>1, <2>2, <2>3
  <2>5. \A k \in Channels : HasEC(k) => Current(k) \in EngineChannels \ {New}
    <3>1. ASSUME NEW k \in Channels, HasEC(k) PROVE Current(k) # New
      BY <1>4, <1>5, <2>1, <3>1, CurrentType DEF HasEC
    <3> QED
      BY <1>4, <3>1, CurrentType
  <2>6. ExistsInv'
    <3>1. op'.cmd # "SetEngineType"
      BY <1>3 DEF NoCommand
    <3>2. Current(op.chan) # New
      <4>1. Current(op.chan)[2] = None /\ New[2] # None
        BY <1>5, <2>1, Pairs DEF Current
      <4> QED
        BY <4>1
    <3>3. ASSUME NEW y \in EngineChannels
          PROVE  /\ ec'[y].exists <=> Current(y[1])' = y
                 /\ ~ ec'[y].exists => ec'[y].engine = None /\ ec'[y].inputs = {}
      <4>1. Current(y[1])' = Current(y[1])
        BY <1>7, Pairs
      <4>2. CASE y = New
        BY <1>5, <2>3, <3>2, <4>1, <4>2
      <4>3. CASE y # New
        BY <1>4, <2>2, <4>1, <4>3 DEF ExistsInv
      <4> QED
        BY <4>2, <4>3
    <3> QED
      BY <3>1, <3>3 DEF ExistsInv
  <2>7. DeviceInv'
    <3>1. ASSUME NEW k \in Channels, HasEC(k)
          PROVE  /\ ec'[Current(k)].engine \in {None, chan[k].device}
                 /\ k \in channels \ failed => ec'[Current(k)].engine = chan[k].device
      <4>1. k # op.chan
        BY <2>1, <3>1 DEF HasEC
      <4> QED
        BY <2>2, <2>5, <3>1, <4>1 DEF IInv, DeviceInv
    <3> QED
      BY <1>3, <1>7, <1>8, <3>1 DEF DeviceInv
  <2>8. SoloInv'
    <3>1. channels' = channels /\ channels \subseteq Channels
      BY <1>3, <1>4 DEF TypeOK
    <3>2. \A k \in channels : HasEC(k) => ec'[Current(k)] = ec[Current(k)]
      BY <2>2, <2>5, <3>1
    <3> QED
      BY <1>7, <3>1, <3>2 DEF IInv, SoloInv, HasSolo
  <2>9. MidiInv'
    <3>1. ASSUME NEW p \in MidiPorts PROVE MidiEventInv(p)'
      <4>1. Mapped(p)' = Mapped(p)
        BY <1>3 DEF Mapped
      <4>2. MidiEventInv(p) /\ ~ midi[p].old
        BY <1>2 DEF IInv, MidiInv
      <4>3. New \notin Mapped(p)
        <5>1. map[p] = Connections(p) /\ ec[New].inputs = {}
          BY <1>6, <2>1
        <5>2. ASSUME NEW z \in Connections(p) PROVE z[1] # New
          <6>1. PICK y \in EngineChannels : p \in ec[y].inputs /\ z = <<y, ec[y].midi>>
            BY <5>2 DEF Connections
          <6> QED
            BY <5>1, <6>1
        <5> QED
          BY <5>1, <5>2 DEF Mapped
      <4> QED
        BY <1>3, <2>2, <4>1, <4>2, <4>3 DEF MidiEventInv, threads
    <3> QED
      BY <3>1 DEF MidiInv
  <2>10. ListenersExist'
    BY <1>3, <1>4, <2>1, <2>2 DEF IInv, NewInv, ListenersExist, TypeOK
  <2> QED
    BY <2>2, <2>4, <2>6, <2>7, <2>8, <2>9, <2>10
<1>9. ASSUME op.cmd # "SetEngineType" PROVE Done
  <2>1. ec' = ec /\ failed' = failed \cup {op.chan} /\ op'.cmd # "SetEngineType" /\ op'.chan = None
    BY <1>3, <1>9 DEF NoCommand
  <2>2. SameLinks
    BY <2>1, Unchanged
  <2>3. ExistsInv'
    BY <1>3, <1>4, <1>9, <2>1, <2>2, KeptExists
  <2>4. DeviceInv'
    BY <1>3, <1>7, <2>1 DEF IInv, DeviceInv
  <2>5. SoloInv' /\ ListenersExist'
    BY <1>3, <2>1, SameSolo DEF IInv, NewInv, ListenersExist
  <2>6. MidiInv'
    <3>1. op'.step # "join"
      BY <1>3 DEF NoCommand
    <3> QED
      BY <1>2, <1>3, <2>1, <3>1, NextStepThreads DEF threads
  <2> QED
    BY <1>4, <2>1, <2>3, <2>4, <2>5, <2>6 DEF TypeOK
<1>10. Done
  BY <1>8, <1>9
<1>11. /\ CommandInv' /\ EngineInv' /\ MembersInv' /\ RenderedInv' /\ AudioInv' /\ StatisticsInv'
       /\ op'.cmd = "none" /\ op'.chan = None /\ op'.ports = {} /\ op'.left = {} /\ op'.step = ""
       /\ op' \in Operation
  BY <1>2, <1>3, <1>10, Ending DEF threads
<1>12. TypeOK'
  <2>1. failed' \subseteq Channels /\ orphans' \subseteq Engines
    BY <1>2, <1>3, <1>4, <1>5 DEF TypeOK
  <2> QED
    BY <1>3, <1>4, <1>10, <1>11, <2>1 DEF TypeOK, threads
<1>13. ChannelsInv'
  <2>1. op.cmd # "RemoveChannel"
    BY <1>1, <1>2, <1>4 DEF CommandInv, Removing
  <2> QED
    BY <1>3, <1>4, <1>10, <1>11, <2>1 DEF ChannelsInv
<1>14. MapInv'
  <2>1. \A p \in MidiPorts : Connections(p)' = Connections(p)
    BY <1>10 DEF Connections
  <2> QED
    BY <1>3, <1>6, <1>11, <2>1 DEF MapInv
<1>15. NewInv'
  BY <1>10, <1>11 DEF NewInv
<1> QED
  BY <1>10, <1>11, <1>12, <1>13, <1>14, <1>15 DEF IInv

\* The engine channel of a channel has got the engine of its new device.
LEMMA FinishSetAudioOutputDeviceStep ==
  ASSUME IInv, FinishSetAudioOutputDevice
  PROVE  IInv'
<1>1. Running("finish") /\ "finish" \in Building
  BY DEF FinishSetAudioOutputDevice, Building
<1>2. /\ op.step = "finish" /\ op.step # "" /\ op.chan \in Channels
      /\ \A i \in AudioDevices : ~ audio[i].old
      /\ \A q \in MidiPorts : ~ midi[q].old
  BY <1>1, Settling
<1>3. /\ UNCHANGED <<scenario, channels, chan, ec, devices, ports, lists, map, listening, threads, crashed>>
      /\ op' = NoCommand /\ rt' = "free" /\ failed' = failed \ {op.chan}
      /\ op.cmd = "SetAudioOutputDevice"
  BY DEF FinishSetAudioOutputDevice
<1>4. TypeOK /\ CommandInv /\ ChannelsInv
  BY DEF IInv
<1>5. SameLinks
  BY <1>3, Unchanged
<1>6. /\ CommandInv' /\ EngineInv' /\ MembersInv' /\ RenderedInv' /\ AudioInv' /\ StatisticsInv'
      /\ op'.cmd = "none" /\ op'.chan = None /\ op'.ports = {} /\ op'.left = {} /\ op'.step = ""
      /\ op' \in Operation
  BY <1>2, <1>3, Ending DEF lists, threads
<1>7. TypeOK'
  BY <1>3, <1>4, <1>6 DEF TypeOK, lists, threads
<1>8. ChannelsInv'
  BY <1>3, <1>4, <1>6 DEF ChannelsInv
<1>9. ExistsInv'
  BY <1>3, <1>5, <1>6, KeptExists DEF IInv
<1>10. DeviceInv'
  <2>1. ec[Current(op.chan)].engine = chan[op.chan].device
    <3>1. New = Current(op.chan)
      BY <1>2, <1>3, <1>4 DEF CommandInv, New, Current
    <3> QED
      BY <1>2, <3>1 DEF IInv, EngineInv
  <2>2. ASSUME NEW k \in Channels, HasEC(k)
        PROVE  /\ ec[Current(k)].engine \in {None, chan[k].device}
               /\ k \in channels \ failed' => ec[Current(k)].engine = chan[k].device
    <3>1. CASE k = op.chan
      BY <2>1, <3>1
    <3>2. CASE k # op.chan
      BY <1>3, <2>2, <3>2 DEF IInv, DeviceInv
    <3> QED
      BY <3>1, <3>2
  <2> QED
    BY <1>3, <1>6, <2>2 DEF DeviceInv, HasEC, Current
<1>11. MapInv'
  <2>1. \A p \in MidiPorts : Connections(p)' = Connections(p)
    BY <1>3 DEF Connections
  <2>2. op.left = {}
    BY <1>2 DEF IInv, MapInv
  <2> QED
    BY <1>3, <1>6, <2>1, <2>2 DEF IInv, MapInv
<1>12. NewInv' /\ SoloInv'
  BY <1>3, <1>6, SameSolo DEF IInv, NewInv, ListenersExist
<1>13. MidiInv'
  BY <1>2, <1>3, <1>6, NextStepThreads DEF lists, threads
<1> QED
  BY <1>6, <1>7, <1>8, <1>9, <1>10, <1>11, <1>12, <1>13 DEF IInv

\* The new engine channel takes over the ports, and is muted beside a solo channel.
LEMMA FinishSetEngineTypeStep ==
  ASSUME IInv, FinishSetEngineType
  PROVE  IInv'
<1> DEFINE m == chan[op.chan].midi
           P == op.ports
           mute == IF HasSolo THEN "solo" ELSE "off"
<1>1. Running("finish") /\ "finish" \in Building
  BY DEF FinishSetEngineType, Building
<1>2. /\ op.step = "finish" /\ op.step # "" /\ op.chan \in Channels /\ Settled
      /\ \A i \in AudioDevices : ~ audio[i].old
      /\ \A q \in MidiPorts : ~ midi[q].old
  BY <1>1, Settling DEF Running
<1>3. /\ UNCHANGED <<scenario, channels, devices, ports, lists, audio, stats, crashed>>
      /\ op.cmd = "SetEngineType" /\ op' = NoCommand /\ rt' = "free"
      /\ failed' = failed \ {op.chan} /\ listening' = listening \cup {New} /\ Remap(New, P, m)
      /\ ec' = [ec EXCEPT ![New].midi = m, ![New].inputs = P, ![New].mute = mute]
      /\ chan' = [chan EXCEPT ![op.chan].type = op.type, ![op.chan].remembered = {}]
  BY DEF FinishSetEngineType
<1>4. TypeOK /\ CommandInv /\ ChannelsInv /\ ExistsInv
  BY DEF IInv
<1>5. /\ New \in EngineChannels /\ New[1] = op.chan /\ New[2] = op.type /\ op.type \in EngineTypes
      /\ op.chan \in channels /\ chan[op.chan].type = None
      /\ P \subseteq ports /\ P \in SUBSET MidiPorts /\ m \in MidiChannels
      /\ ec[New].exists /\ ~ ec[New].solo /\ ec[New].engine = chan[op.chan].device
  <2>1. /\ New \in EngineChannels /\ op.type \in EngineTypes /\ New[1] = op.chan /\ New[2] = op.type
    BY <1>1, <1>2, <1>4, Operating
  <2>2. op.chan \in channels /\ chan[op.chan].type = None
    BY <1>1, <1>2, <1>3, <1>4 DEF CommandInv
  <2>3. P \subseteq ports /\ P \in SUBSET MidiPorts /\ m \in MidiChannels
    BY <1>2, <1>4 DEF ChannelsInv, TypeOK, ChannelState
  <2>4. ec[New].exists /\ ~ ec[New].solo /\ ec[New].engine = chan[op.chan].device
    BY <1>2, <1>3, <1>4, <2>1 DEF IInv, ExistsInv, NewInv, EngineInv
  <2> QED
    BY <2>1, <2>2, <2>3, <2>4
<1>6. /\ ec' \in [EngineChannels -> ECState]
      /\ ec'[New].inputs = P /\ ec'[New].midi = m /\ ec'[New].mute = mute
      /\ ec'[New].exists = ec[New].exists /\ ec'[New].engine = ec[New].engine
      /\ ec'[New].solo = ec[New].solo
      /\ \A y \in EngineChannels \ {New} : ec'[y] = ec[y]
  <2>1. mute \in {"off", "on", "solo"}
    OBVIOUS
  <2>2. ec \in [EngineChannels -> ECState] /\ ec[New] \in ECState
    BY <1>4, <1>5 DEF TypeOK
  <2> HIDE DEF mute, P, m
  <2>3. /\ ec'[New] = [ec[New] EXCEPT !.midi = m, !.inputs = P, !.mute = mute]
        /\ \A y \in EngineChannels \ {New} : ec'[y] = ec[y]
        /\ ec' = [y \in EngineChannels |-> ec'[y]]
    BY <1>3, <1>5, <2>2
  <2>4. /\ ec'[New].inputs = P /\ ec'[New].midi = m /\ ec'[New].mute = mute
        /\ ec'[New].exists = ec[New].exists /\ ec'[New].engine = ec[New].engine
        /\ ec'[New].solo = ec[New].solo /\ ec'[New] \in ECState
    BY <1>5, <2>1, <2>2, <2>3 DEF ECState
  <2> QED
    BY <2>2, <2>3, <2>4
<1>7. /\ chan' \in [Channels -> ChannelState] /\ chan'[op.chan].type = op.type
      /\ \A k \in Channels : chan'[k].device = chan[k].device
      /\ \A k \in Channels \ {op.chan} : chan'[k] = chan[k]
  <2>1. op.chan \in Channels /\ chan \in [Channels -> ChannelState] /\ chan[op.chan] \in ChannelState
    BY <1>2, <1>4 DEF TypeOK
  <2>2. /\ chan'[op.chan] = [chan[op.chan] EXCEPT !.type = op.type, !.remembered = {}]
        /\ \A k \in Channels \ {op.chan} : chan'[k] = chan[k]
        /\ chan' = [k \in Channels |-> chan'[k]]
    BY <1>3, <2>1
  <2>3. /\ chan'[op.chan] \in ChannelState /\ chan'[op.chan].type = op.type
        /\ chan'[op.chan].device = chan[op.chan].device
    BY <1>5, <2>1, <2>2 DEF ChannelState
  <2>4. \A k \in Channels : chan'[k] \in ChannelState
    BY <2>1, <2>2, <2>3
  <2> QED
    BY <2>2, <2>3, <2>4
<1>8. /\ \A k \in Channels : HasEC(k)' <=> HasEC(k) \/ k = op.chan
      /\ \A k \in Channels \ {op.chan} : Current(k)' = Current(k)
      /\ Current(op.chan)[2] = None
      /\ \A k \in Channels \ {op.chan} : HasEC(k) => Current(k) \in EngineChannels \ {New}
  <2>1. \A k \in Channels \ {op.chan} : HasEC(k) => Current(k) \in EngineChannels \ {New}
    BY <1>4, <1>5, CurrentType
  <2> QED
    BY <1>5, <1>7, <2>1, Pairs DEF HasEC, Current
<1>9. \A c \in Channels : c = op.chan => Current(c)' = New
  BY <1>7 DEF Current, New
<1>10. /\ CommandInv' /\ EngineInv' /\ MembersInv' /\ RenderedInv' /\ AudioInv' /\ StatisticsInv'
       /\ op'.cmd = "none" /\ op'.chan = None /\ op'.ports = {} /\ op'.left = {} /\ op'.step = ""
       /\ op' \in Operation
  BY <1>2, <1>3, <1>6, Ending DEF lists
<1> HIDE DEF m, P, mute
<1>11. ChannelsInv'
  BY <1>3, <1>4, <1>5, <1>6, <1>7, <1>10 DEF ChannelsInv
<1>12. ExistsInv'
  <2>1. ASSUME NEW y \in EngineChannels
        PROVE  /\ ec'[y].exists <=> Current(y[1])' = y
               /\ ~ ec'[y].exists => ec'[y].engine = None /\ ec'[y].inputs = {}
    <3>1. CASE y = New
      BY <1>2, <1>5, <1>6, <1>9, <3>1
    <3>2. CASE y # New /\ y[1] = op.chan
      <4>1. Current(y[1]) # y
        BY <1>8, <3>2, Pairs
      <4>2. Current(y[1])' # y
        BY <1>2, <1>9, <3>2
      <4> QED
        BY <1>4, <1>6, <3>2, <4>1, <4>2 DEF ExistsInv
    <3>3. CASE y # New /\ y[1] # op.chan
      <4>1. Current(y[1])' = Current(y[1])
        BY <1>8, <3>3, Pairs
      <4> QED
        BY <1>4, <1>6, <3>3, <4>1 DEF ExistsInv
    <3> QED
      BY <3>1, <3>2, <3>3
  <2> QED
    BY <1>10, <2>1 DEF ExistsInv
<1>13. DeviceInv'
  <2>1. ASSUME NEW k \in Channels, HasEC(k)'
        PROVE  /\ ec'[Current(k)'].engine \in {None, chan'[k].device}
               /\ k \in channels' \ (failed' \cup {op'.chan}) => ec'[Current(k)'].engine = chan'[k].device
    <3>1. CASE k = op.chan
      BY <1>2, <1>5, <1>6, <1>7, <1>9, <3>1
    <3>2. CASE k # op.chan
      <4>1. /\ HasEC(k) /\ Current(k)' = Current(k) /\ ec'[Current(k)] = ec[Current(k)]
            /\ chan'[k] = chan[k]
        BY <1>6, <1>7, <1>8, <2>1, <3>2
      <4> QED
        BY <1>3, <3>2, <4>1 DEF IInv, DeviceInv
    <3> QED
      BY <3>1, <3>2
  <2> QED
    BY <2>1 DEF DeviceInv
<1>14. \A p \in MidiPorts : map'[p] = Connections(p)'
  <2>1. ASSUME NEW p \in MidiPorts PROVE map'[p] = Connections(p)'
    <3>1. map'[p] = Remapped(p, New, P, m)
      BY <1>3 DEF Remap
    <3>2. map[p] = Connections(p)
      BY <1>2 DEF IInv, MapInv
    <3> HIDE DEF New
    <3> QED
      BY <1>4, <1>5, <1>6, <3>1, <3>2, RemapConnections
  <2> QED
    BY <2>1
<1>15. MapInv'
  BY <1>10, <1>14 DEF MapInv
<1>16. NewInv'
  BY <1>3, <1>4, <1>5, <1>6, <1>10 DEF IInv, NewInv, ListenersExist, TypeOK
<1>17. SoloInv'
  <2>1. channels' = channels /\ channels \subseteq Channels
    BY <1>3, <1>4 DEF TypeOK
  <2>2. ASSUME NEW k \in channels, HasEC(k)', k # op.chan
        PROVE  HasEC(k) /\ Current(k)' = Current(k) /\ ec'[Current(k)'] = ec[Current(k)]
    BY <1>6, <1>8, <2>1, <2>2
  <2>3. ASSUME NEW k \in channels, k = op.chan
        PROVE  ~ ec'[Current(k)'].solo /\ ec'[Current(k)'].mute = mute
    BY <1>5, <1>6, <1>9, <2>1, <2>3
  <2>4. HasSolo' => HasSolo
    BY <2>1, <2>2, <2>3 DEF HasSolo
  <2>5. HasSolo => mute # "off"
    BY DEF mute
  <2>6. ASSUME HasSolo', NEW k \in channels, HasEC(k)', ~ ec'[Current(k)'].solo
        PROVE  ec'[Current(k)'].mute # "off"
    <3>1. CASE k = op.chan
      BY <2>3, <2>4, <2>5, <2>6, <3>1
    <3>2. CASE k # op.chan
      BY <2>2, <2>4, <2>6, <3>2 DEF IInv, SoloInv
    <3> QED
      BY <3>1, <3>2
  <2> QED
    BY <2>1, <2>6 DEF SoloInv
<1>18. MidiInv'
  <2>1. \A y \in EngineChannels : ec'[y].exists = ec[y].exists
    BY <1>6
  <2> QED
    BY <1>2, <1>3, <1>4, <1>5, <2>1, RemapMidi DEF IInv, lists
<1>19. TypeOK'
  <2>1. map' \in [MidiPorts -> SUBSET (EngineChannels \X MidiChannels)]
    <3>1. \A p \in MidiPorts : Connections(p)' \subseteq EngineChannels \X MidiChannels
      BY <1>6 DEF Connections, ECState
    <3> QED
      BY <1>3, <1>14, <3>1 DEF Remap
  <2>2. midi' \in [MidiPorts -> MidiState]
    <3>1. midi' = [p \in MidiPorts |->
             [midi[p] EXCEPT !.old = midi[p].kind = "event" /\ map[p] # Remapped(p, New, P, m)]]
      BY <1>3 DEF Remap
    <3>2. \A p \in MidiPorts : midi[p] \in MidiState
      BY <1>4 DEF TypeOK
    <3>3. \A p \in MidiPorts :
            [midi[p] EXCEPT !.old = midi[p].kind = "event" /\ map[p] # Remapped(p, New, P, m)] \in MidiState
      BY <3>2 DEF MidiState
    <3> QED
      BY <3>1, <3>3
  <2> QED
    BY <1>3, <1>4, <1>5, <1>6, <1>7, <1>10, <2>1, <2>2 DEF TypeOK, lists
<1> QED
  BY <1>10, <1>11, <1>12, <1>13, <1>15, <1>16, <1>17, <1>18, <1>19 DEF IInv

\* A crash changes nothing else, and nothing changes without a step.
LEMMA NothingChanges ==
  ASSUME IInv, crashed' \in BOOLEAN,
         UNCHANGED <<scenario, channels, chan, ec, devices, ports, lists, map, listening, threads, rt, op,
                     failed>>
  PROVE  IInv'
<1>1. SameLinks
  BY Unchanged
<1>2. TypeOK'
  BY DEF IInv, TypeOK, lists, threads
<1>3. CommandInv' /\ ChannelsInv' /\ ExistsInv' /\ EngineInv' /\ DeviceInv'
  BY <1>1, SameCommand, SameChannels, SameExists, SameEngine, SameDevice DEF IInv, lists
<1>4. MembersInv' /\ RenderedInv' /\ MapInv' /\ NewInv' /\ SoloInv'
  BY <1>1, SameMembers, SameRendered, SameMap, SameNew, SameSolo DEF IInv, lists
<1>5. AudioInv' /\ MidiInv' /\ StatisticsInv'
  BY <1>1, SameAudio, SameMidi, SameStatistics DEF IInv, lists, threads
<1> QED
  BY <1>2, <1>3, <1>4, <1>5 DEF IInv

-----------------------------------------------------------------------------
(* The theorems *)

\* At the beginning there is nothing.
LEMMA InitInv == Init => IInv
<1> SUFFICES ASSUME Init PROVE IInv
  OBVIOUS
<1>1. /\ op = NoCommand /\ op.cmd = "none" /\ op.step = "" /\ op.chan = None /\ op.ports = {}
      /\ op.left = {} /\ op.engine = None /\ op \in Operation
  BY DEF Init, NoCommand, Operation
<1>2. /\ \A c \in Channels : chan[c].type = None /\ chan[c].device = None /\ ~ HasEC(c)
      /\ chan \in [Channels -> ChannelState]
  BY SamplerAssumption DEF Init, Fresh, ChannelState, HasEC
<1>3. NoEngineChannel \in ECState /\ Fresh \in ChannelState /\ Quiet \in AudioState /\ NoEvent \in MidiState
      /\ NoStatistics \in StatisticsState
  BY SamplerAssumption DEF NoEngineChannel, ECState, Fresh, ChannelState, Quiet, AudioState, NoEvent,
                           MidiState, NoStatistics, StatisticsState
<1>4. \A x \in EngineChannels : /\ ~ ec[x].exists /\ ec[x].engine = None /\ ec[x].inputs = {}
                                /\ EngineOf(x) = None
  BY DEF Init, NoEngineChannel, EngineOf
<1>5. TypeOK
  BY <1>1, <1>2, <1>3 DEF Init, TypeOK
<1>6. CommandInv /\ ChannelsInv /\ DeviceInv /\ EngineInv
  <2>1. op.step \notin Removing
    BY <1>1 DEF Removing
  <2> QED
    BY <1>1, <1>2, <1>4, <2>1 DEF Init, CommandInv, ChannelsInv, DeviceInv, EngineInv
<1>7. ExistsInv
  <2>1. \A x \in EngineChannels : Current(x[1]) # x
    <3>1. ASSUME NEW x \in EngineChannels PROVE Current(x[1]) # x
      <4>1. Current(x[1])[2] = None /\ x[2] # None
        BY <1>2, Pairs DEF Current
      <4> QED
        BY <4>1
    <3> QED
      BY <3>1
  <2> QED
    BY <1>1, <1>4, <2>1 DEF ExistsInv
<1>8. MembersInv
  <2>1. \A e \in Engines : {x \in EngineChannels : EngineOf(x) = e} = {}
    BY <1>4, Pairs
  <2> QED
    BY <1>1, <2>1 DEF Init, MembersInv
<1>9. RenderedInv
  BY <1>1 DEF Init, RenderedInv, EnginesOn, Removing
<1>10. MapInv
  <2>1. \A p \in MidiPorts : Connections(p) = {}
    BY <1>4 DEF Connections
  <2> QED
    BY <1>1, <2>1 DEF Init, MapInv
<1>11. NewInv /\ SoloInv
  BY <1>1 DEF Init, NewInv, ListenersExist, SoloInv, HasSolo
<1>12. AudioInv
  BY <1>1 DEF Init, AudioInv, AudioCycleInv, Quiet
<1>13. MidiInv
  BY DEF Init, MidiInv, MidiEventInv, NoEvent
<1>14. StatisticsInv
  BY DEF Init, StatisticsInv, StatisticsReadWhatExists
<1> QED
  BY <1>5, <1>6, <1>7, <1>8, <1>9, <1>10, <1>11, <1>12, <1>13, <1>14 DEF IInv

\* Each command of the LSCP server preserves the invariant with its first step, ...
LEMMA CommandStep == ASSUME IInv, Command PROVE IInv'
<1>1. ASSUME NEW c \in Channels,
             \/ AddChannel(c) \/ RemoveChannel(c) \/ SetSameEngineType(c) \/ SetUnknownEngineType(c)
             \/ SetSolo(c) \/ UnsetSolo(c)
      PROVE  IInv'
  BY <1>1, AddChannelStep, RemoveChannelStep, SetSameEngineTypeStep, SetUnknownEngineTypeStep,
     SetSoloStep, UnsetSoloStep
<1>2. ASSUME NEW c \in Channels, NEW t \in EngineTypes, SetEngineType(c, t) PROVE IInv'
  BY <1>2, SetEngineTypeStep
<1>3. ASSUME NEW c \in Channels, NEW d \in AudioDevices, SetAudioOutputDevice(c, d) PROVE IInv'
  BY <1>3, SetAudioOutputDeviceStep
<1>4. ASSUME NEW c \in Channels, NEW p \in MidiPorts,
             \/ AddChannelMidiInput(c, p) \/ RemoveChannelMidiInput(c, p)
             \/ \E m \in MidiChannels : SetMidiInput(c, p, m)
      PROVE  IInv'
  BY <1>4, AddChannelMidiInputStep, RemoveChannelMidiInputStep, SetMidiInputStep
<1>5. ASSUME NEW c \in Channels, NEW m \in MidiChannels, SetMidiInputChannel(c, m) PROVE IInv'
  BY <1>5, SetMidiInputChannelStep
<1>6. ASSUME NEW c \in Channels, NEW mute \in BOOLEAN, SetChannelMute(c, mute) PROVE IInv'
  BY <1>6, SetChannelMuteStep
<1>7. ASSUME NEW d \in AudioDevices, CreateAudioOutputDevice(d) \/ DestroyAudioOutputDevice(d) PROVE IInv'
  BY <1>7, CreateAudioOutputDeviceStep, DestroyAudioOutputDeviceStep
<1>8. ASSUME NEW p \in MidiPorts, CreateMidiInputDevice(p) \/ DestroyMidiInputDevice(p) PROVE IInv'
  BY <1>8, CreateMidiInputDeviceStep, DestroyMidiInputDeviceStep
<1> QED
  BY <1>1, <1>2, <1>3, <1>4, <1>5, <1>6, <1>7, <1>8 DEF Command

\* ... and so does each of its later steps.
LEMMA StepStep == ASSUME IInv, Step PROVE IInv'
<1>1. ASSUME UnrenderEngine \/ ForgetPorts \/ (\E p \in MidiPorts : UnmapPort(p)) \/ PortsUnmapped PROVE IInv'
  BY <1>1, UnrenderEngineStep, ForgetPortsStep, UnmapPortStep, PortsUnmappedStep
<1>2. ASSUME LeaveEngine \/ DeleteEngine \/ DestroyEngineChannel PROVE IInv'
  BY <1>2, LeaveEngineStep, DeleteEngineStep, DestroyEngineChannelStep
<1>3. ASSUME NoDevice \/ AcquireEngine \/ EngineDisabled \/ CreateEngine \/ CreateEngineFails PROVE IInv'
  BY <1>3, NoDeviceStep, AcquireEngineStep, EngineDisabledStep, CreateEngineStep, CreateEngineFailsStep
<1>4. ASSUME JoinEngine \/ RenderEngine \/ FinishSetAudioOutputDevice \/ FinishSetEngineType PROVE IInv'
  BY <1>4, JoinEngineStep, RenderEngineStep, FinishSetAudioOutputDeviceStep, FinishSetEngineTypeStep
<1>5. ASSUME FinishCrashes PROVE IInv'
  BY <1>5, NothingChanges DEF FinishCrashes
<1> QED
  BY <1>1, <1>2, <1>3, <1>4, <1>5 DEF Step

\* Every step of every thread preserves the invariant.
LEMMA NextInv == IInv /\ [Next]_vars => IInv'
<1> SUFFICES ASSUME IInv, [Next]_vars PROVE IInv'
  OBVIOUS
<1>1. CASE Command
  BY <1>1, CommandStep
<1>2. CASE Step
  BY <1>2, StepStep
<1>3. CASE \E d \in AudioDevices : StartCycle(d) \/ AudioStep(d)
  BY <1>3, AudioThread
<1>4. CASE \E p \in MidiPorts : StartSysex(p) \/ MidiStep(p) \/ \E m \in MidiChannels : StartEvent(p, m)
  BY <1>4, MidiThread
<1>5. CASE StartStatistics \/ StatisticsStep
  BY <1>5, MainThread
<1>6. CASE UNCHANGED vars
  BY <1>6, NothingChanges DEF vars, IInv, TypeOK
<1> QED
  BY <1>1, <1>2, <1>3, <1>4, <1>5, <1>6 DEF Next

\* The inductive invariant holds in every behaviour of the sampler.
THEOREM Invariance == Spec => []IInv
BY InitInv, NextInv, PTL DEF Spec

\* Without a command in progress the invariant is what the parts agree on.
LEMMA BetweenCommands ==
  ASSUME IInv, op = NoCommand
  PROVE  ConnectionsAgree /\ PortsAgree
<1>1. op.cmd = "none" /\ op.step = "" /\ op.chan = None /\ op.engine = None /\ op.left = {}
  BY DEF NoCommand
<1>2. TypeOK /\ ExistsInv
  BY DEF IInv
<1>3. ASSUME NEW e \in Engines
      PROVE  /\ members[e] = {x \in EngineChannels : ec[x].exists /\ EngineOf(x) = e}
             /\ e \in engines <=> members[e] # {}
             /\ e \in sysex <=> e \in engines
  <2>1. \A x \in EngineChannels : EngineOf(x) = e => ec[x].exists
    BY <1>2, Pairs DEF ExistsInv, EngineOf
  <2> QED
    BY <1>1, <2>1 DEF IInv, MembersInv
<1>4. /\ \A d \in AudioDevices : rendered[d] = {e \in engines : e[2] = d}
      /\ disabled = {}
  BY <1>1 DEF IInv, RenderedInv, EnginesOn, Removing
<1>5. \A e \in engines : e[2] \in devices
  BY <1>2 DEF IInv, MembersInv, TypeOK
<1>6. \A c \in channels : HasEC(c) /\ c \notin failed => ec[Current(c)].engine = chan[c].device
  <2>1. channels \subseteq Channels /\ None \notin channels
    BY <1>2, Pairs DEF TypeOK
  <2> QED
    BY <1>1, <2>1 DEF IInv, DeviceInv
<1>7. \A x \in EngineChannels : ec[x].exists <=> x[1] \in channels /\ Current(x[1]) = x
  <2>1. ASSUME NEW x \in EngineChannels, Current(x[1]) = x PROVE x[1] \in channels
    <3>1. x[1] \in Channels /\ chan[x[1]].type # None
      <4>1. Current(x[1])[2] = chan[x[1]].type
        BY DEF Current
      <4> QED
        BY <2>1, <4>1, Pairs
    <3> QED
      BY <1>1, <3>1 DEF IInv, ChannelsInv
  <2> QED
    BY <1>1, <1>2, <2>1 DEF ExistsInv
<1>8. ASSUME NEW p \in MidiPorts
      PROVE  map[p] = {<<x, ec[x].midi>> : x \in {y \in EngineChannels : ec[y].exists /\ p \in ec[y].inputs}}
  <2>1. map[p] = Connections(p)
    BY <1>1 DEF IInv, MapInv
  <2>2. {y \in EngineChannels : ec[y].exists /\ p \in ec[y].inputs} = {y \in EngineChannels : p \in ec[y].inputs}
    BY <1>2 DEF ExistsInv
  <2> QED
    BY <2>1, <2>2 DEF Connections
<1>9. ASSUME NEW p \in MidiPorts \ ports PROVE map[p] = {}
  BY <1>8, <1>9 DEF IInv, ChannelsInv
<1>10. ConnectionsAgree
  BY <1>3, <1>4, <1>5, <1>6 DEF ConnectionsAgree
<1>11. PortsAgree
  BY <1>7, <1>8, <1>9 DEF PortsAgree
<1> QED
  BY <1>10, <1>11

\* Between two commands all parts of the sampler agree on which engine channels exist,
\* which engines they use, and which devices and ports they are connected to; the LSCP
\* server listens only to those that exist, and a solo channel silences the others.
THEOREM Agreement == Spec => []PartsAgree
<1>1. IInv => PartsAgree
  <2> SUFFICES ASSUME IInv PROVE PartsAgree
    OBVIOUS
  <2>1. ConnectionsAgree /\ PortsAgree
    BY BetweenCommands DEF ConnectionsAgree, PortsAgree
  <2> QED
    BY <2>1 DEF PartsAgree, IInv, NewInv, SoloInv, SoloSilencesOthers
<1> QED
  BY <1>1, Invariance, PTL

\* No thread ever calls an engine or an engine channel that does not exist, and no audio
\* thread renders an engine while its list of engine channels changes.  The one exception
\* is the engine that the MIDI thread has looked up before SetAudioOutputDevice()
\* replaced it.
THEOREM Calls == Spec => []CalledExists
<1>1. ASSUME IInv, NEW d \in AudioDevices, audio[d].at # None
      PROVE  /\ audio[d].at \in engines
             /\ ~ (op.step \in {"leave", "join"} /\ Settled /\ audio[d].at = op.engine)
  <2>1. AudioCycleInv(d) /\ rendered[d] \subseteq engines
    BY <1>1, RenderedTypes DEF IInv, AudioInv
  <2>2. audio[d].at \in engines
    BY <1>1, <2>1 DEF AudioCycleInv
  <2>3. ASSUME op.step = "leave", Settled PROVE audio[d].at # op.engine
    <3>1. audio[d].at \in rendered[d] /\ op.engine \notin rendered[d]
      BY <1>1, <2>1, <2>3 DEF AudioCycleInv, Settled, IInv, RenderedInv, Removing
    <3> QED
      BY <3>1
  <2>4. op.step = "join" => audio[d].at # op.engine
    BY <1>1 DEF IInv, AudioInv
  <2> QED
    BY <2>2, <2>3, <2>4
<1>2. ASSUME IInv, NEW p \in MidiPorts
      PROVE  /\ midi[p].kind = "event" /\ midi[p].at # None =>
                  /\ ec[midi[p].at].exists
                  /\ midi[p].engine \in engines \cup {None} \/ EngineOf(midi[p].at) # midi[p].engine
             /\ midi[p].kind = "sysex" /\ midi[p].at # None => midi[p].at \in engines
  <2>1. MidiEventInv(p)
    BY <1>2 DEF IInv, MidiInv
  <2>2. ASSUME midi[p].kind = "event", midi[p].at # None
        PROVE  /\ ec[midi[p].at].exists
               /\ midi[p].engine \in engines \cup {None} \/ EngineOf(midi[p].at) # midi[p].engine
    <3>1. midi[p].at \in EngineChannels /\ ec[midi[p].at].exists
      BY <2>1, <2>2 DEF MidiEventInv
    <3>2. midi[p].engine \in Engines \cup {None}
      BY <1>2 DEF IInv, TypeOK, MidiState
    <3>3. EngineOf(midi[p].at) \in Engines => EngineOf(midi[p].at) \in engines
      BY <1>2, <3>1 DEF IInv, MembersInv
    <3> QED
      BY <3>1, <3>2, <3>3
  <2>3. ASSUME midi[p].kind = "sysex", midi[p].at # None PROVE midi[p].at \in engines
    <3>1. sysex \subseteq engines
      BY <1>2 DEF IInv, MembersInv, TypeOK
    <3> QED
      BY <2>1, <2>3, <3>1 DEF MidiEventInv
  <2> QED
    BY <2>2, <2>3
<1>3. IInv => CalledExists
  BY <1>1, <1>2 DEF CalledExists, RenderedEngineIsStable, MidiCallsWhatExists, IInv, StatisticsInv
<1> QED
  BY <1>3, Invariance, PTL
=============================================================================
