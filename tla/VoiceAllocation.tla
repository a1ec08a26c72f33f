-------------------------- MODULE VoiceAllocation --------------------------
(***************************************************************************)
(* Notes, keys and voices of an engine in the audio thread: the notes that *)
(* events of an audio fragment launch and release, the voices they are     *)
(* given, and the stealing of voices when the pool is empty.  An audio     *)
(* fragment is EngineBase::RenderAudio(): for each channel the events are  *)
(* imported and processed, then the voices render, then the stolen voices  *)
(* are replaced, then what has ended is freed.                             *)
(*                                                                         *)
(* Regions have no key group and no release trigger, there is no script,   *)
(* portamento is off, instruments and pools of events are not modelled.    *)
(* The cursors of voice stealing only skip voices that cannot be stolen,   *)
(* because none becomes stealable before the voices are rendered: a search *)
(* finds the first stealable voice of its order.  A mute takes effect      *)
(* between fragments.                                                      *)
(***************************************************************************)
EXTENDS Integers, SequencesExt, FiniteSetsExt

CONSTANTS Channels,    \* how many engine channels share the engine
          Keys,        \* MIDI keys, a set of numbers
          Layers,      \* for each key, the voices a note of it needs
          Voices,      \* the voice pool
          Notes,       \* the note pool
          NoNote,
          Scenarios,   \* what the channels are sent, and which may be muted
          MaxEvents    \* bound: messages of one fragment

Chans == 1..Channels
MaxVoices == Cardinality(Voices)
NoKey == -1
Controllers == {"sustainDown", "sustainUp", "sostenutoDown", "sostenutoUp",
                "soundOff", "reset", "notesOff", "mono", "poly"}
Message == [type : {"on", "off"}, key : Keys] \cup [type : Controllers, key : {NoKey}]

ASSUME VoiceAllocationAssumption ==
    /\ Channels \in Nat \ {0} /\ NoNote \notin Notes
    /\ IsFiniteSet(Voices) /\ Voices # {} /\ IsFiniteSet(Notes)
    /\ Keys \subseteq 0..127 /\ Layers \in [Keys -> Nat] /\ MaxEvents \in Nat
    /\ \A s \in Scenarios : s.receives \in [Chans -> SUBSET Message] /\ s.mutes \subseteq Chans

VARIABLES
    scenario,    \* one of Scenarios, which never changes
    phase,       \* where RenderAudio() is
    chan,        \* the channel whose events are imported or processed
    queue,       \* pEvents of that channel: the events left
    together,    \* whether the events of this fragment have the same FragmentPos
    imported,    \* how many messages this fragment has imported
    spawnsLeft,  \* VoiceSpawnsLeft
    launch,      \* the voices that TriggerNewVoices() has yet to launch
    stolen,      \* pVoiceStealingQueue
    lastStolen,  \* pLastStolenChannel (0: none)
    active,      \* pActiveKeys of each channel
    key,         \* pMIDIKeyInfo of each channel
    notes,       \* pActiveNotes of each key: the oldest first
    voices,      \* pActiveVoices of each note
    voice,       \* the voice pool
    pedal,       \* the pedals of each channel
    solo,        \* SoloMode and SoloKey of each channel
    muted,       \* GetMute() of each channel
    down,        \* history: the keys that the player holds down
    stuck,       \* history: the keys that were released while the channel was muted
    uncounted,   \* history: killed voices not subtracted from VoiceSpawnsLeft
    missed       \* history: voices that a lost release concerned

lists == <<active, notes, voices>>
stealing == <<spawnsLeft, stolen, lastStolen>>
fragment == <<together, imported>>
held == <<down, stuck>>
vars == <<scenario, phase, chan, queue, launch, fragment, stealing, lists, key, voice, pedal, solo,
          muted, held, uncounted, missed>>

FreeVoice == [state |-> "free", killed |-> FALSE, env |-> "on", trigger |-> 0]
NoLaunch == [key |-> NoKey, note |-> NoNote, left |-> 0, trigger |-> 0, kill |-> NoKey]
NewKey == [pressed |-> FALSE, thefts |-> 0, events |-> <<>>]

Init ==
    /\ scenario \in Scenarios
    /\ phase = "idle" /\ chan = 1 /\ queue = <<>> /\ together = FALSE /\ imported = 0
    /\ spawnsLeft = 0 /\ launch = NoLaunch /\ stolen = <<>> /\ lastStolen = 0
    /\ active = [c \in Chans |-> <<>>]
    /\ key = [c \in Chans |-> [k \in Keys |-> NewKey]]
    /\ notes = [c \in Chans |-> [k \in Keys |-> <<>>]]
    /\ voices = [n \in Notes |-> <<>>]
    /\ voice = [v \in Voices |-> FreeVoice]
    /\ pedal = [c \in Chans |-> [sustain |-> FALSE, sostenuto |-> FALSE, keys |-> {}]]
    /\ solo = [c \in Chans |-> [on |-> FALSE, key |-> NoKey]]
    /\ muted = [c \in Chans |-> FALSE]
    /\ down = [c \in Chans |-> {}] /\ stuck = {} /\ uncounted = {} /\ missed = {}

-----------------------------------------------------------------------------
\* The lists of the keyboard manager.

Active(c) == ToSet(active[c])

\* The elements of s that are in S
OnlyIn(s, S) ==
    LET kept[i \in 0..Len(s)] ==
            IF i = 0 THEN <<>>
            ELSE IF s[i] \in S THEN Append(kept[i - 1], s[i]) ELSE kept[i - 1]
    IN  kept[Len(s)]

FreeVoices == {v \in Voices : voice[v].state = "free"}
FreeNotes == Notes \ UNION {ToSet(notes[c][k]) : c \in Chans, k \in Keys}

KeyVoices(c, k) == FlattenSeq([i \in DOMAIN notes[c][k] |-> voices[notes[c][k][i]]])
ChannelVoices(c) == FlattenSeq([i \in DOMAIN active[c] |-> KeyVoices(c, active[c][i])])
VoicesOn(c, k) == ToSet(KeyVoices(c, k))

\* (Faulty variant: the key of the note does not become active.)
LaunchNewNote_Inactive(c, k, n) ==
    /\ notes' = [notes EXCEPT ![c][k] = Append(@, n)]
    /\ UNCHANGED active

(* LaunchNewNote(): a note of the pool goes to the list of its key, which  *)
(* becomes active even if no voice is ever launched for the note.          *)
LaunchNewNote(c, k, n) ==
    /\ notes' = [notes EXCEPT ![c][k] = Append(@, n)]
    /\ active' = [active EXCEPT ![c] = IF k \in Active(c) THEN @ ELSE Append(@, k)]

\* Appends an event of a type to the event lists of some keys of a channel.
WithEvents(c, ks, t) ==
    [key EXCEPT ![c] = [k \in Keys |-> IF k \in ks
        THEN [key[c][k] EXCEPT !.events = Append(@, [type |-> t, fresh |-> TRUE])]
        ELSE key[c][k]]]

(* AbstractVoice::Kill() ignores an event that is not after the event that *)
(* triggered the voice, which it remembers until it has rendered once.     *)
IsKilled(v) == voice[v].state = "play" \/ ~together
Kill(vs) == voice' = [v \in Voices |->
    [voice[v] EXCEPT !.killed = @ \/ (v \in vs /\ IsKilled(v))]]

-----------------------------------------------------------------------------
\* The start of a fragment: events are imported channel by channel.

BeginCycle ==
    /\ phase = "idle"
    /\ phase' = "import" /\ chan' = 1 /\ imported' = 0 /\ spawnsLeft' = MaxVoices
    /\ uncounted' = {v \in Voices : voice[v].killed}
    /\ UNCHANGED <<scenario, together, queue, launch, stolen, lastStolen, lists, key, voice, pedal, solo,
                   muted, held, missed>>

(* ImportEvents(): a note is launched for a note-on event, which is        *)
(* dropped if there is none.  A key is pressed and released in turn.       *)
ImportEvent(m) ==
    /\ phase = "import" /\ m \in scenario.receives[chan] /\ imported < MaxEvents
    /\ imported' = imported + 1
    /\ together' \in {together, imported > 0}
    /\ m.type = "on" => m.key \notin down[chan]
    /\ m.type = "off" => m.key \in down[chan]
    /\ down' = [down EXCEPT ![chan] = CASE m.type = "on" -> @ \cup {m.key}
                                        [] m.type = "off" -> @ \ {m.key}
                                        [] OTHER -> @]
    /\ IF m.type = "on"
       THEN IF FreeNotes = {}
            THEN UNCHANGED <<queue, active, notes>>
            ELSE \E n \in FreeNotes :
                    /\ LaunchNewNote(chan, m.key, n)
                    /\ queue' = Append(queue, [event |-> m, note |-> n])
       ELSE /\ queue' = Append(queue, [event |-> m, note |-> NoNote])
            /\ UNCHANGED <<active, notes>>
    /\ UNCHANGED <<scenario, phase, chan, launch, stealing, voices, key, voice, pedal, solo,
                   muted, stuck, uncounted, missed>>

-----------------------------------------------------------------------------
\* The events of a channel.

Next1(t) ==      \* the next event is of type t: the first one ends the import
    /\ phase \in {"import", "process"} /\ launch = NoLaunch /\ phase' = "process"
    /\ queue # <<>> /\ Head(queue).event.type = t
    /\ queue' = Tail(queue)
    /\ UNCHANGED <<scenario, chan, fragment, muted, down>>

(* ProcessNoteOn(): in solo mode the voices on the key that became active  *)
(* last are killed, and VoiceSpawnsLeft does not count them.               *)
Youngest(c) == IF active[c] = <<>> THEN {} ELSE VoicesOn(c, Last(active[c]))
SoloKilled(c) == IF solo[c].on THEN Youngest(c) ELSE {}

ProcessNoteOn(c, k) ==
    /\ Next1("on") /\ c = chan /\ k = Head(queue).event.key /\ ~muted[c]
    /\ Kill(SoloKilled(c))
    /\ uncounted' = uncounted \cup {v \in SoloKilled(c) : IsKilled(v)}
    /\ solo' = [solo EXCEPT ![c].key = IF solo[c].on THEN k ELSE @]
    /\ stuck' = stuck \ {<<c, k>>}
    /\ LET started == [key[c][k] EXCEPT !.pressed = TRUE,
                           !.events = Append(@, [type |-> "on", fresh |-> TRUE])]
           cancel == [type |-> "cancel", fresh |-> TRUE]
       IN  key' = [key EXCEPT ![c][k] =
               IF k \in Active(c) /\ ~pedal[c].sustain
               THEN [started EXCEPT !.events = Append(@, cancel)] ELSE started]
    /\ launch' = IF Layers[k] = 0 THEN NoLaunch
                 ELSE [key |-> k, note |-> Head(queue).note, left |-> Layers[k],
                       trigger |-> Len(key[c][k].events) + 1, kill |-> NoKey]
    /\ UNCHANGED <<stealing, lists, pedal, missed>>

IgnoreNoteOn ==      \* the channel is muted: the note stays without voices
    /\ Next1("on") /\ muted[chan]
    /\ UNCHANGED <<launch, stealing, lists, key, voice, pedal, solo, stuck, uncounted, missed>>

ShouldReleaseVoice(c, k) ==
    ~pedal[c].sustain /\ ~(pedal[c].sostenuto /\ k \in pedal[c].keys)

(* ProcessNoteOff(): the voices of the key are released.  In solo mode the *)
(* highest key that is still pressed (the loop leaves out key 0) gets a    *)
(* new note, and the voices of the released key are killed instead, after  *)
(* the new ones were launched.                                             *)
Pressed(c) == {k \in Keys \ {0} : key[c][k].pressed}

\* (Faulty variant: the key is still marked as pressed.)
ReleaseKey_Pressed(c, k) ==
    /\ Next1("off") /\ c = chan /\ k = Head(queue).event.key /\ ~muted[c]
    /\ key' = IF k \in Active(c) /\ ShouldReleaseVoice(c, k)
              THEN WithEvents(c, {k}, "release") ELSE key
    /\ stuck' = stuck \ {<<c, k>>}
    /\ UNCHANGED <<launch, stealing, lists, voice, pedal, solo, uncounted, missed>>

ReleaseKey(c, k) ==
    /\ Next1("off") /\ c = chan /\ k = Head(queue).event.key /\ ~muted[c]
    /\ stuck' = stuck \ {<<c, k>>}
    /\ \/ ~solo[c].on \/ solo[c].key # k \/ Pressed(c) \ {k} = {}
    /\ solo' = [solo EXCEPT ![c].key = IF solo[c].on /\ @ = k THEN NoKey ELSE @]
    /\ key' = [(IF k \in Active(c) /\ ShouldReleaseVoice(c, k)
                THEN WithEvents(c, {k}, "release") ELSE key) EXCEPT ![c][k].pressed = FALSE]
    /\ UNCHANGED <<launch, stealing, lists, voice, pedal, uncounted, missed>>

RespawnSolo(c, k) ==
    LET others == Pressed(c) \ {k}
        other == Max(others)
    IN  /\ Next1("off") /\ c = chan /\ k = Head(queue).event.key /\ ~muted[c]
        /\ solo[c].on /\ solo[c].key = k /\ others # {}
        /\ stuck' = stuck \ {<<c, k>>}
        /\ solo' = [solo EXCEPT ![c].key = other]
        /\ IF FreeNotes = {}
           THEN /\ launch' = [NoLaunch EXCEPT !.kill = k]
                /\ key' = [key EXCEPT ![c][k].pressed = FALSE]
                /\ UNCHANGED <<active, notes>>
           ELSE /\ \E n \in FreeNotes :
                      /\ LaunchNewNote(c, other, n)
                      /\ launch' = [key |-> other, note |-> n, left |-> Layers[other],
                                    trigger |-> Len(key[c][other].events) + 1, kill |-> k]
                /\ key' = [WithEvents(c, {other}, "on") EXCEPT ![c][k].pressed = FALSE]
        /\ UNCHANGED <<stealing, voices, voice, pedal, uncounted, missed>>

\* Voices that are still to replace stolen ones miss what happens to their keys.
LoseThefts(c, ks) == [i \in DOMAIN stolen |-> [stolen[i] EXCEPT !.lost =
    @ \/ (stolen[i].chan = c /\ stolen[i].key \in ks)]]

KillReleasedKey ==
    LET vs == VoicesOn(chan, launch.kill)
    IN  /\ phase = "process" /\ launch.left = 0 /\ launch.kill # NoKey
        /\ Kill(vs)
        /\ uncounted' = uncounted \cup {v \in vs : IsKilled(v)}
        /\ missed' = missed \cup {v \in vs : ~IsKilled(v)}
        /\ launch' = NoLaunch
        /\ stolen' = LoseThefts(chan, {launch.kill})
        /\ UNCHANGED <<scenario, phase, chan, queue, fragment, spawnsLeft, lastStolen, lists, key, pedal,
                       solo, muted, held>>

IgnoreNoteOff ==     \* the channel is muted: the key stays pressed
    /\ Next1("off") /\ muted[chan]
    /\ stuck' = stuck \cup {<<chan, Head(queue).event.key>>}
    /\ UNCHANGED <<launch, stealing, lists, key, voice, pedal, solo, uncounted, missed>>

-----------------------------------------------------------------------------
\* Controllers.

Released(c, ks) == {k \in ks : ~key[c][k].pressed}
ChannelSet(c) == ToSet(ChannelVoices(c))

(* A pedal goes down or up; a muted channel takes no notice beyond that.   *)
SustainDown(c) ==
    /\ Next1("sustainDown") /\ c = chan
    /\ pedal' = [pedal EXCEPT ![c].sustain = TRUE]
    /\ key' = IF pedal[c].sustain \/ muted[c] THEN key
              ELSE WithEvents(c, Released(c, Active(c)), "cancel")
    /\ UNCHANGED <<launch, stealing, lists, voice, solo, stuck, uncounted, missed>>

SustainUp(c) ==
    LET ks == {k \in Released(c, Active(c)) :
                  ~(pedal[c].sostenuto /\ k \in pedal[c].keys)}
    IN  /\ Next1("sustainUp") /\ c = chan
        /\ pedal' = [pedal EXCEPT ![c].sustain = FALSE]
        /\ key' = IF ~pedal[c].sustain \/ muted[c] THEN key ELSE WithEvents(c, ks, "release")
        /\ missed' = IF pedal[c].sustain /\ muted[c] THEN missed \cup ChannelSet(c) ELSE missed
        /\ UNCHANGED <<launch, stealing, lists, voice, solo, stuck, uncounted>>

SostenutoDown(c) ==
    /\ Next1("sostenutoDown") /\ c = chan
    /\ pedal' = [pedal EXCEPT ![c].sostenuto = TRUE,
           ![c].keys = IF pedal[c].sostenuto \/ muted[c] THEN @
                       ELSE {k \in Active(c) : key[c][k].pressed}]
    /\ UNCHANGED <<launch, stealing, lists, key, voice, solo, stuck, uncounted, missed>>

(* The event also goes to keys that are no longer active, whose lists      *)
(* nothing clears at the end of the fragment.                              *)
SostenutoUp(c) ==
    /\ Next1("sostenutoUp") /\ c = chan
    /\ pedal' = [pedal EXCEPT ![c].sostenuto = FALSE]
    /\ key' = IF ~pedal[c].sostenuto \/ muted[c] \/ pedal[c].sustain THEN key
              ELSE WithEvents(c, Released(c, pedal[c].keys), "release")
    /\ missed' = IF pedal[c].sostenuto /\ muted[c] THEN missed \cup ChannelSet(c) ELSE missed
    /\ UNCHANGED <<launch, stealing, lists, voice, solo, stuck, uncounted>>

\* (Faulty variant: the voices are not subtracted.)
KillAllVoices_Free(c) == Kill(ChannelSet(c)) /\ UNCHANGED spawnsLeft

(* KillAllVoices() subtracts the voices from VoiceSpawnsLeft: all sound    *)
(* off, and changes between mono and poly mode.                            *)
KillAllVoices(c) ==
    /\ Kill(ChannelSet(c))
    /\ spawnsLeft' = spawnsLeft - Len(ChannelVoices(c))

AllSoundOff(c) ==
    /\ Next1("soundOff") /\ c = chan
    /\ KillAllVoices(c)
    /\ UNCHANGED <<launch, stolen, lastStolen, lists, key, pedal, solo, stuck, uncounted, missed>>

SoloMode(c, t) ==
    /\ Next1(t) /\ c = chan
    /\ IF solo[c].on = (t = "mono") THEN UNCHANGED <<voice, spawnsLeft>> ELSE KillAllVoices(c)
    /\ solo' = [solo EXCEPT ![c].on = (t = "mono")]
    /\ UNCHANGED <<launch, stolen, lastStolen, lists, key, pedal, stuck, uncounted, missed>>

(* ResetControllers() raises the pedals, and releases no voice.            *)
ResetControllers(c) ==
    /\ Next1("reset") /\ c = chan
    /\ pedal' = [pedal EXCEPT ![c].sustain = FALSE, ![c].sostenuto = FALSE]
    /\ IF pedal[c].sustain \/ pedal[c].sostenuto
       THEN missed' = missed \cup ChannelSet(c) /\ stolen' = LoseThefts(c, Keys)
       ELSE UNCHANGED <<missed, stolen>>
    /\ UNCHANGED <<launch, spawnsLeft, lastStolen, lists, key, voice, solo, stuck, uncounted>>

ReleaseAllVoices(c) ==
    /\ Next1("notesOff") /\ c = chan
    /\ key' = WithEvents(c, Active(c), "release")
    /\ UNCHANGED <<launch, stealing, lists, voice, pedal, solo, stuck, uncounted, missed>>

-----------------------------------------------------------------------------
\* LaunchVoice(), InitNewVoice() and StealVoice().

Launching == phase = "process" /\ launch.left > 0
Launched(n, v, state, trigger) ==
    /\ voice' = [voice EXCEPT ![v] = [FreeVoice EXCEPT !.state = state, !.trigger = trigger]]
    /\ voices' = [voices EXCEPT ![n] = Append(@, v)]
Continue == launch' = LET l == [launch EXCEPT !.left = @ - 1]
                      IN  IF l.left = 0 /\ l.kill = NoKey THEN NoLaunch ELSE l

LaunchVoice ==
    /\ Launching
    /\ \E v \in FreeVoices : Launched(launch.note, v, "init", launch.trigger)
    /\ spawnsLeft' = spawnsLeft - 1
    /\ Continue
    /\ UNCHANGED <<scenario, phase, chan, queue, fragment, stolen, lastStolen, active, notes, key, pedal,
                   solo, muted, held, uncounted, missed>>

\* (Faulty variant: voices of this fragment may be stolen.)
IsStealable_New(v) == ~voice[v].killed
IsStealable(v) == ~voice[v].killed /\ voice[v].state = "play"

(* The channels in the order in which StealVoice() searches them: the key  *)
(* of the new note, its channel, then all channels in a circle.            *)
FirstOther == IF lastStolen = 0 THEN (chan % Channels) + 1 ELSE lastStolen
Circle == [i \in 1..Channels |-> ((FirstOther + i - 2) % Channels) + 1]
Stealable(s) == OnlyIn(s, {v \in Voices : IsStealable(v)})
Own == Stealable(KeyVoices(chan, launch.key) \o ChannelVoices(chan))
Others == FlattenSeq([i \in DOMAIN Circle |->
             [j \in DOMAIN Stealable(ChannelVoices(Circle[i])) |->
                 <<Circle[i], Stealable(ChannelVoices(Circle[i]))[j]>>]])

\* (Faulty variant: the key does not count the theft.)
Theft_NotQueued(v) ==
    /\ Kill({v})
    /\ spawnsLeft' = spawnsLeft - 1
    /\ stolen' = Append(stolen, [chan |-> chan, key |-> launch.key, note |-> launch.note,
                                 trigger |-> launch.trigger, lost |-> FALSE])
    /\ UNCHANGED key

Theft(v) ==
    /\ Kill({v})
    /\ spawnsLeft' = spawnsLeft - 1
    /\ stolen' = Append(stolen, [chan |-> chan, key |-> launch.key, note |-> launch.note,
                                 trigger |-> launch.trigger, lost |-> FALSE])
    /\ key' = [key EXCEPT ![chan][launch.key].thefts = @ + 1]

StealVoice ==
    /\ Launching /\ FreeVoices = {} /\ spawnsLeft > 0
    /\ IF Own # <<>> THEN Theft(Head(Own)) /\ UNCHANGED lastStolen
       ELSE Others # <<>> /\ Theft(Head(Others)[2]) /\ lastStolen' = Head(Others)[1]
    /\ Continue
    /\ UNCHANGED <<scenario, phase, chan, queue, fragment, lists, pedal, solo, muted, held, uncounted, missed>>

TooManyThefts ==     \* "Max. voice thefts per audio fragment reached"
    /\ Launching /\ FreeVoices = {} /\ spawnsLeft <= 0
    /\ Continue
    /\ UNCHANGED <<scenario, phase, chan, queue, fragment, stealing, lists, key, voice, pedal, solo, muted,
                   held, uncounted, missed>>

(* With no stealable voice on any channel the loop over them never ends.   *)
Searching == Launching /\ FreeVoices = {} /\ spawnsLeft > 0 /\ Own = <<>> /\ Others = <<>>
SearchOn == Searching /\ UNCHANGED vars

EndEvents ==
    /\ phase \in {"import", "process"} /\ queue = <<>> /\ launch = NoLaunch
    /\ lastStolen' = 0
    /\ IF chan = Channels THEN phase' = "render" /\ UNCHANGED chan
       ELSE phase' = "import" /\ chan' = chan + 1
    /\ UNCHANGED <<scenario, queue, launch, fragment, spawnsLeft, stolen, lists, key, voice, pedal, solo,
                   muted, held, uncounted, missed>>

-----------------------------------------------------------------------------
\* Rendering.

Transition(es) == OnlyIn(es, [type : {"cancel", "release"}, fresh : BOOLEAN])
EnvAfter(env, es) ==     \* what processTransitionEvents() does to the envelope
    IF env = "fade" \/ Transition(es) = <<>> THEN env
    ELSE IF Last(Transition(es)).type = "release" THEN "release" ELSE "on"

(* Synthesize() starts after the event that triggered the voice; a voice   *)
(* that is killed fades out and ends in this fragment, or in the next one  *)
(* if it has just started.                                                 *)
After(es, i) == SubSeq(es, i + 1, Len(es))
EventsFor(c, k, v) == After(key[c][k].events, voice[v].trigger)
Rendered(c, k, v) ==
    [state |-> "play", killed |-> FALSE, trigger |-> 0,
     env |-> IF voice[v].killed THEN "fade" ELSE EnvAfter(voice[v].env, EventsFor(c, k, v))]
MustEnd(v) == voice[v].env = "fade" \/ (voice[v].killed /\ voice[v].state = "play")
Unmuted == {c \in Chans : ~muted[c]}
Rendering == UNION {ChannelSet(c) : c \in Unmuted}
HostOf(v) == CHOOSE p \in Chans \X Keys : v \in VoicesOn(p[1], p[2])

(* RenderActiveVoices() of all channels: a muted channel does not render.  *)
(* Any voice may reach the end of its sample or of its envelope.           *)
RenderActiveVoices ==
    /\ phase = "render" /\ phase' = "stolen"
    /\ \E ended \in SUBSET Rendering :
          /\ \A v \in Rendering : MustEnd(v) => v \in ended
          /\ voice' = [v \in Voices |->
                IF v \in ended THEN FreeVoice
                ELSE IF v \in Rendering THEN Rendered(HostOf(v)[1], HostOf(v)[2], v)
                ELSE voice[v]]
          /\ voices' = [n \in Notes |-> OnlyIn(voices[n], Voices \ ended)]
          /\ missed' = missed \ ended
    /\ UNCHANGED <<scenario, chan, queue, launch, fragment, stealing, active, notes, key, pedal, solo,
                   muted, held, uncounted>>

(* RenderStolenVoices(): the event that triggers the voice is in the theft *)
(* queue, not in the list of the key, so that the voice skips all events.  *)
LostRelease(t) ==
    LET es == Transition(After(key[t.chan][t.key].events, t.trigger))
    IN  t.lost \/ (es # <<>> /\ Last(es).type = "release")
RenderStolenVoice ==
    /\ phase = "stolen" /\ stolen # <<>>
    /\ stolen' = Tail(stolen)
    /\ LET t == Head(stolen) IN
       /\ key' = [key EXCEPT ![t.chan][t.key].thefts = @ - 1]
       /\ IF FreeVoices = {}
          THEN UNCHANGED <<voice, voices, spawnsLeft, missed>>
          ELSE /\ spawnsLeft' = spawnsLeft - 1
               /\ \/ \E v \in FreeVoices :
                        /\ Launched(t.note, v, "play", 0)
                        /\ missed' = IF LostRelease(t) THEN missed \cup {v} ELSE missed
                  \/ UNCHANGED <<voice, voices, missed>>     \* it has already ended
    /\ UNCHANGED <<scenario, phase, chan, queue, launch, fragment, lastStolen, active, notes, pedal, solo,
                   muted, held, uncounted>>

\* (Faulty variant: no list of events is cleared.)
LeftOver_All(c, k) == [i \in DOMAIN key[c][k].events |->
                          [key[c][k].events[i] EXCEPT !.fresh = FALSE]]

(* PostProcess(): notes without voices and keys without notes are freed,   *)
(* and the events of the keys that were active.                            *)
LeftOver(c, k) == IF k \in Active(c) THEN <<>>
                  ELSE [i \in DOMAIN key[c][k].events |->
                           [key[c][k].events[i] EXCEPT !.fresh = FALSE]]
NotesLeft(c, k) == OnlyIn(notes[c][k], {n \in Notes : voices[n] # <<>>})
PostProcess ==
    /\ phase = "stolen" /\ stolen = <<>>
    /\ phase' = "idle" /\ chan' = 1
    /\ notes' = [c \in Chans |-> [k \in Keys |-> NotesLeft(c, k)]]
    /\ active' = [c \in Chans |-> OnlyIn(active[c], {k \in Keys : NotesLeft(c, k) # <<>>})]
    /\ key' = [c \in Chans |-> [k \in Keys |->
                  [key[c][k] EXCEPT !.events = LeftOver(c, k)]]]
    /\ imported' = 0 /\ spawnsLeft' = 0 /\ together' = FALSE /\ uncounted' = {}
    /\ UNCHANGED <<scenario, missed, queue, launch, stolen, lastStolen, voices, voice, pedal, solo, muted, held>>

SetMute(c) ==
    /\ phase = "idle" /\ c \in scenario.mutes
    /\ muted' = [muted EXCEPT ![c] = ~@]
    /\ UNCHANGED <<scenario, phase, chan, queue, launch, fragment, stealing, lists, key, voice, pedal,
                   solo, held, uncounted, missed>>

-----------------------------------------------------------------------------
ProcessNote ==
    \/ \E c \in Chans, k \in Keys : \/ ProcessNoteOn(c, k) \/ ReleaseKey(c, k)
                                    \/ RespawnSolo(c, k)
    \/ IgnoreNoteOn \/ IgnoreNoteOff \/ KillReleasedKey
ProcessControlChange == \E c \in Chans :
    \/ SustainDown(c) \/ SustainUp(c) \/ SostenutoDown(c) \/ SostenutoUp(c)
    \/ AllSoundOff(c) \/ SoloMode(c, "mono") \/ SoloMode(c, "poly")
    \/ ResetControllers(c) \/ ReleaseAllVoices(c)
Next ==
    \/ BeginCycle \/ (\E m \in Message : ImportEvent(m))
    \/ ProcessNote \/ ProcessControlChange
    \/ LaunchVoice \/ StealVoice \/ TooManyThefts \/ SearchOn \/ EndEvents
    \/ RenderActiveVoices \/ RenderStolenVoice \/ PostProcess
    \/ \E c \in Chans : SetMute(c)

Spec == Init /\ [][Next]_vars

-----------------------------------------------------------------------------
Event == [type : {"on", "cancel", "release"}, fresh : BOOLEAN]

\* The types of the variables.
TypeOK ==
    /\ scenario \in Scenarios
    /\ phase \in {"idle", "import", "process", "render", "stolen"} /\ chan \in Chans
    /\ queue \in Seq([event : Message, note : Notes \cup {NoNote}])
    /\ together \in BOOLEAN /\ imported \in 0..MaxEvents /\ spawnsLeft \in Int
    /\ launch \in [key : Keys \cup {NoKey}, note : Notes \cup {NoNote}, left : Nat, trigger : Nat,
                   kill : Keys \cup {NoKey}]
    /\ stolen \in Seq([chan : Chans, key : Keys, note : Notes, trigger : Nat, lost : BOOLEAN])
    /\ lastStolen \in 0..Channels
    /\ active \in [Chans -> Seq(Keys)]
    /\ key \in [Chans -> [Keys -> [pressed : BOOLEAN, thefts : 0..MaxVoices, events : Seq(Event)]]]
    /\ notes \in [Chans -> [Keys -> Seq(Notes)]] /\ voices \in [Notes -> Seq(Voices)]
    /\ voice \in [Voices -> [state : {"free", "init", "play"}, killed : BOOLEAN,
                             env : {"on", "release", "fade"}, trigger : Nat]]
    /\ pedal \in [Chans -> [sustain : BOOLEAN, sostenuto : BOOLEAN, keys : SUBSET Keys]]
    /\ solo \in [Chans -> [on : BOOLEAN, key : Keys \cup {NoKey}]]
    /\ muted \in [Chans -> BOOLEAN] /\ down \in [Chans -> SUBSET Keys]
    /\ stuck \subseteq Chans \X Keys
    /\ uncounted \in SUBSET Voices /\ missed \in SUBSET Voices

(* VoiceSpawnsLeft is what keeps StealVoice() from searching for ever: it  *)
(* runs out before the stealable voices do.  It fails to only if a voice   *)
(* was killed that it does not count: by solo mode, or in an earlier       *)
(* fragment while the channel of the voice was muted, so that it is still  *)
(* there.                                                                  *)
StealingEnds == Searching => uncounted # {}

(* The assertion of StealVoice(), "FATAL ERROR: voice stealing endless     *)
(* loop!": without any exception it does not hold.                         *)
NeverSearchesForEver == ~Searching

(* For every note in the theft queue a voice has died in this fragment:    *)
(* only victims on muted channels are still there.                         *)
StolenIsReplaced ==
    phase = "stolen" =>
        LET frozen == {v \in Voices : voice[v].killed} IN
        Len(stolen) <= Cardinality(FreeVoices) + Cardinality(frozen)

(* No note hangs: between fragments a voice that nothing releases or kills *)
(* has its key held by the player or by a pedal.  The exceptions are the   *)
(* voices whose release was lost, in one of the four ways that the actions *)
(* note in "missed".                                                       *)
Sounding(c, k) == {v \in VoicesOn(c, k) : voice[v].env = "on" /\ ~voice[v].killed}
HangsOnlyIfMissed ==
    phase = "idle" => \A c \in Chans, k \in Keys :
        \/ k \in down[c] \/ ~ShouldReleaseVoice(c, k)
        \/ <<c, k>> \in stuck \/ Sounding(c, k) \subseteq missed

(* The allocated voices are those that the active keys lead to, each once, *)
(* which is what voice stealing, rendering and All Sound Off iterate over. *)
VoicesReachable ==
    LET reached == FlattenSeq([c \in Chans |-> ChannelVoices(c)])
    IN  /\ ToSet(reached) = Voices \ FreeVoices
        /\ Len(reached) = Cardinality(Voices \ FreeVoices)

(* No voice acts on an event of an earlier fragment, although events that  *)
(* were sent to inactive keys stay in the lists of these keys.             *)
StaleEventsIgnored ==
    phase = "render" => \A c \in Chans, k \in Keys : \A v \in VoicesOn(c, k) :
        \A i \in DOMAIN EventsFor(c, k, v) : EventsFor(c, k, v)[i].fresh

(* Lists of keys, notes, voices and events: every voice is found through   *)
(* its note and key, and no event of an earlier fragment is acted on.      *)
ListsComplete == TypeOK /\ VoicesReachable /\ StaleEventsIgnored
=============================================================================
