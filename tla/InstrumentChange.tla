------------------------ MODULE InstrumentChange ------------------------
(***************************************************************************)
(* common/ResourceManager, engines/InstrumentManagerBase and               *)
(* engines/EngineChannelBase, with the managers of engines/gig: how the    *)
(* instrument of an engine channel is changed while its voices go on       *)
(* playing the old one.                                                    *)
(*                                                                         *)
(* Engine channels borrow instruments from the resource manager, which     *)
(* loads an instrument once and frees it when its last consumer hands it   *)
(* back.  The regions that voices still play are counted in RegionInfo:    *)
(* the file of a freed instrument is kept until the disk thread has handed *)
(* back the last one.  The audio thread lists the regions in use in the    *)
(* copy of the InstrumentChangeCmd that it has locked; the loader gets     *)
(* that list from SwitchConfig(), when the audio thread has left the copy  *)
(* (SynchronizedConfig: the switch is one step here, and the wait a step). *)
(* Each channel is on a device of its own, and all instruments are in one  *)
(* file, which may be read several times: a region is <<file, name>>.      *)
(***************************************************************************)
EXTENDS Integers, FiniteSets, FiniteSetsExt, Functions

CONSTANTS
  Channel,       \* engine channels
  Index,         \* indices of the instruments in the file
  Region,        \* dimension regions
  Sample,
  RegionsOf,     \* the regions of an instrument
  SampleOf,      \* the sample of a region
  CycleSize,     \* MaxSamplesPerCycle() of the device of a channel
  Voice,         \* numbers of the voices of the pools
  None,          \* NULL
  MaxLoads,      \* bound on the number of instruments loaded
  MaxCommands    \* bound on the resets, mode changes and unloadings; each takes the
                 \* place of a load

ASSUME InstrumentsAssumption == /\ RegionsOf \in [Index -> SUBSET Region]
                                /\ SampleOf \in [Region -> Sample]
                                /\ CycleSize \in [Channel -> Nat \ {0}]
ASSUME BoundsAssumption == /\ Voice \subseteq Nat
                           /\ MaxLoads \in Nat /\ MaxCommands \in Nat
ASSUME FiniteAssumption == IsFiniteSet(Channel) /\ Channel # {} /\ IsFiniteSet(Voice)

Mode  == {"ON_DEMAND", "ON_DEMAND_HOLD", "PERSISTENT"}
Files == 1..MaxLoads             \* every time the file is read
Instrument == Files \X Index
RegionInst == Files \X Region
SampleInst == Files \X Sample

CopyType  == [inst : Instrument \cup {None}, change : BOOLEAN,
              used : SUBSET (Voice \X RegionInst)]
VoiceType == [chan : Channel, region : RegionInst, orphan : BOOLEAN]
EntryType == [res : Instrument \cup {None}, users : SUBSET Channel, mode : Mode, size : Nat]

ASSUME NoneAssumption == /\ None \notin Channel /\ None \notin Index
                         /\ None \notin Instrument /\ None \notin VoiceType

VARIABLES
  cmd,      \* InstrumentChangeCommand: its two copies and the current one
  locked,   \* the copy that the audio thread of a channel has locked, as a set
  enabled,  \* the engine of the channel is not disabled
  played,   \* pInstrument of the channel
  voice,    \* the voices in use
  ordered,  \* DeleteRegionQueue: how often each region is in it
  entry,    \* ResourceEntries of the instruments
  gig,      \* the entry of the file, and how often it has been read
  mem,      \* files, regions and samples in memory, RegionInfo and SampleRefCount
  pc,       \* how far a channel is in LoadInstrument()
  want, got,\* the instrument it wants, and has borrowed
  todo,     \* consumers that Update() has yet to call
  entriesMutex, regionMutex,   \* their owners
  loads, commands,             \* how many there were
  upset,    \* "dropped": voices were forgotten, or their instrument was; "early": a
            \* region was handed back before it was counted; "raced": it was handed back
            \* while Destroy() was at its file
  disorder  \* was an instrument changed, reloaded or unloaded on a channel not at rest?
audio   == <<locked, enabled, played, voice, ordered>>
manager == <<entry, gig, mem>>
loader  == <<pc, want, got, todo, entriesMutex, regionMutex>>
bounds  == <<loads, commands>>
code    == <<cmd, audio, manager, loader, bounds, upset>>
vars    == <<code, disorder>>

NoEntry == [res |-> None, users |-> {}, mode |-> "ON_DEMAND", size |-> 0]
NoCmd   == [inst |-> None, change |-> FALSE, used |-> {}]

MemType(m) ==
  /\ m \in [files : SUBSET Files, regions : SUBSET RegionInst, samples : SUBSET SampleInst,
            info : {m.info}, refs : {m.refs}]
  /\ m.info \in [DOMAIN m.info -> [count : Int, kept : BOOLEAN]]
  /\ m.refs \in [DOMAIN m.refs -> Int]
  /\ DOMAIN m.info \subseteq RegionInst /\ DOMAIN m.refs \subseteq SampleInst

TypeOK ==
  /\ cmd \in [Channel -> [cur : {0, 1}, copy : [{0, 1} -> CopyType]]]
  /\ locked \in [Channel -> {{}, {0}, {1}}]
  /\ enabled \in [Channel -> BOOLEAN]
  /\ played \in [Channel -> Instrument \cup {None}]
  /\ voice \in [Voice -> {None} \cup VoiceType]
  /\ ordered \in [RegionInst -> Nat]
  /\ entry \in [Index -> EntryType]
  /\ gig \in [file : Files \cup {0}, users : SUBSET Index, made : Nat]
  /\ MemType(mem)
  /\ pc \in [Channel -> {"idle", "clear", "handback", "borrow", "update", "cleanup",
                         "updated", "change", "finish"}]
  /\ want \in [Channel -> Index \cup {None}] /\ got \in [Channel -> Instrument \cup {None}]
  /\ todo \subseteq Channel
  /\ entriesMutex \in Channel \cup {None} /\ regionMutex \in Channel \cup {None}
  /\ loads \in 0..MaxLoads /\ commands \in 0..MaxCommands
  /\ upset \subseteq {"dropped", "early", "raced"}

Init ==
  /\ cmd = [c \in Channel |-> [cur |-> 0, copy |-> [i \in {0, 1} |-> NoCmd]]]
  /\ locked = [c \in Channel |-> {}] /\ enabled = [c \in Channel |-> TRUE]
  /\ played = [c \in Channel |-> None]
  /\ voice = [v \in Voice |-> None] /\ ordered = [r \in RegionInst |-> 0]
  /\ entry = [i \in Index |-> NoEntry]
  /\ gig = [file |-> 0, users |-> {}, made |-> 0]
  /\ mem = [files |-> {}, regions |-> {}, samples |-> {}, info |-> << >>, refs |-> << >>]
  /\ pc = [c \in Channel |-> "idle"] /\ want = [c \in Channel |-> None]
  /\ got = [c \in Channel |-> None] /\ todo = {}
  /\ entriesMutex = None /\ regionMutex = None
  /\ loads = 0 /\ commands = 0 /\ upset = {} /\ disorder = FALSE

-----------------------------------------------------------------------------
(* Memory, the file and RegionInfo *)

RegionsIn(f) == {f} \X Region
SamplesIn(f) == {f} \X Sample
SampleAt(r)  == <<r[1], SampleOf[r[2]]>>

Without(m, f) == [m EXCEPT !.files = @ \ {f}, !.regions = @ \ RegionsIn(f),
                           !.samples = @ \ SamplesIn(f)]

\* (Faulty variant: regions in use do not remember the file that is kept for them.)
Walk_Forgetful(m, f) ==
  LET held == RegionsIn(f) \cap DOMAIN m.info
  IN  IF held = {} THEN Without(m, f)
      ELSE [m EXCEPT !.regions = @ \ (RegionsIn(f) \ held)]

\* The file is freed, unless regions of it are in RegionInfo, which remember it.
Walk(m, f) ==
  LET held == RegionsIn(f) \cap DOMAIN m.info
  IN  IF held = {} THEN Without(m, f)
      ELSE [m EXCEPT !.regions = @ \ (RegionsIn(f) \ held),
                     !.info = [r \in DOMAIN @ |->
                                 IF r \in held THEN [@[r] EXCEPT !.kept = TRUE] ELSE @[r]]]

\* Of a file that is kept, the samples that are not in SampleRefCount
Cleanup(m, f) == [m EXCEPT !.samples = @ \ (SamplesIn(f) \ DOMAIN m.refs)]

LastUser(g, i) == g.users = {i}
HandedBack(g, i) == IF LastUser(g, i) THEN [g EXCEPT !.users = {}, !.file = 0]
                    ELSE [g EXCEPT !.users = @ \ {i}]

\* Destroy() hands the file back, which frees it if no other instrument needs it.
DestroyedMem(m, g, i) == IF LastUser(g, i) THEN Cleanup(Walk(m, g.file), g.file) ELSE m

\* Create() borrows the file, which reads it if it is not in memory.
Opened(g, i) == IF g.file # 0 THEN [g EXCEPT !.users = @ \cup {i}]
                ELSE [file |-> g.made + 1, users |-> {i}, made |-> g.made + 1]
Loaded(m, f) == [m EXCEPT !.files = @ \cup {f},
                          !.regions = IF f \in m.files THEN @ ELSE @ \cup RegionsIn(f),
                          !.samples = IF f \in m.files THEN @ ELSE @ \cup SamplesIn(f)]

Known(info, r)    == IF r \in DOMAIN info THEN info[r] ELSE [count |-> 0, kept |-> FALSE]
InfoCount(m, r)   == Known(m.info, r).count
SampleCount(m, s) == IF s \in DOMAIN m.refs THEN m.refs[s] ELSE 0

RegionsListed(used) == {u[2] : u \in used}
ListedAs(used, r)   == {u \in used : u[2] = r}
ListedWith(used, s) == {u \in used : SampleAt(u[2]) = s}

\* (Faulty variant: a region is counted once, however many voices play it.)
Counted_Set(m, used) ==
  [m EXCEPT !.info = [r \in DOMAIN @ \cup RegionsListed(used) |->
                        [Known(m.info, r) EXCEPT !.count = IF ListedAs(used, r) # {} THEN @ + 1 ELSE @]],
            !.refs = [s \in DOMAIN @ \cup {SampleAt(r) : r \in RegionsListed(used)} |->
                        SampleCount(m, s) + Cardinality(ListedWith(used, s))]]

\* HandBackInstrument() counts the regions that the audio thread has listed.
Counted(m, used) ==
  [m EXCEPT !.info = [r \in DOMAIN @ \cup RegionsListed(used) |->
                        [Known(m.info, r) EXCEPT !.count = @ + Cardinality(ListedAs(used, r))]],
            !.refs = [s \in DOMAIN @ \cup {SampleAt(r) : r \in RegionsListed(used)} |->
                        SampleCount(m, s) + Cardinality(ListedWith(used, s))]]

\* HandBackRegion(): the last use of a region of a freed instrument frees its sample,
\* and the last sample the file.
OneLess(m, r) ==
  [m EXCEPT !.info = [q \in DOMAIN @ \cup {r} |->
                        [Known(m.info, q) EXCEPT !.count = IF q = r THEN @ - 1 ELSE @]],
            !.refs = [s \in DOMAIN @ \cup {SampleAt(r)} |->
                        SampleCount(m, s) - (IF s = SampleAt(r) THEN 1 ELSE 0)]]

Erased(m, r) == [m EXCEPT !.info = Restrict(@, DOMAIN @ \ {r})]

SampleErased(m, s) == [m EXCEPT !.refs = Restrict(@, DOMAIN @ \ {s})]

DeleteSampleIfNotUsed(m, s, kept) ==
  IF ~kept THEN m
  ELSE IF SamplesIn(s[1]) \cap m.samples \subseteq {s} THEN Without(m, s[1])
  ELSE [m EXCEPT !.samples = @ \ {s}]

RegionHandedBack(m, r) ==
  LET less == OneLess(m, r)
      s    == SampleAt(r)
      rest == Erased(less, r)
  IN  IF InfoCount(less, r) # 0 THEN less
      ELSE IF SampleCount(less, s) # 0 THEN rest
      ELSE DeleteSampleIfNotUsed(SampleErased(rest, s), s, less.info[r].kept)

-----------------------------------------------------------------------------
(* LoadInstrument() of an engine channel *)

Other(c)  == 1 - cmd[c].cur
OldCmd(c) == cmd[c].copy[Other(c)]

\* ChangeInstrument() fills the copy for update, and begins to switch ...
ChangeInstrument(c, inst) ==
  LET changed == [inst |-> inst, change |-> TRUE, used |-> OldCmd(c).used]
  IN  cmd' = [cmd EXCEPT ![c] = [cur |-> Other(c),
                                 copy |-> [@.copy EXCEPT ![Other(c)] = changed]]]
\* (Faulty variant: the switch does not wait for the audio thread.)
Switched_AtOnce(c) == TRUE

\* ... and ends when the audio thread has left the other copy.
Switched(c) == Other(c) \notin locked[c]

ClearOld(c) == cmd' = [cmd EXCEPT ![c].copy[Other(c)].used = {}]

LoadInstrument(c, i) ==
  /\ loads + commands < MaxLoads /\ pc[c] = "idle"
  /\ ChangeInstrument(c, None)
  /\ pc' = [pc EXCEPT ![c] = "clear"] /\ want' = [want EXCEPT ![c] = i]
  /\ loads' = loads + 1
  /\ UNCHANGED <<audio, manager, got, todo, entriesMutex, regionMutex, commands, upset>>

\* The regions that the audio thread has listed are counted.
HandBackInstrument(c) ==
  /\ pc[c] = "clear" /\ Switched(c)
  /\ OldCmd(c).inst # None /\ regionMutex = None
  /\ mem' = Counted(mem, OldCmd(c).used)
  /\ regionMutex' = c /\ pc' = [pc EXCEPT ![c] = "handback"]
  /\ UNCHANGED <<cmd, audio, entry, gig, want, got, todo, entriesMutex, bounds, upset>>

NothingToHandBack(c) ==
  /\ pc[c] = "clear" /\ Switched(c) /\ OldCmd(c).inst = None
  /\ ClearOld(c) /\ pc' = [pc EXCEPT ![c] = "borrow"]
  /\ UNCHANGED <<audio, manager, want, got, todo, entriesMutex, regionMutex, bounds,
                 upset>>

\* The entry of a resource, if it (still) has one
EntryOf(inst) == {i \in Index : entry[i].res = inst}
Unneeded_Now(e) == e.mode = "ON_DEMAND"     \* (faulty: others may still use it)
Unneeded(e)   == e.mode = "ON_DEMAND" /\ e.users = {}

HandBack(c) ==
  /\ pc[c] = "handback" /\ entriesMutex = None
  /\ \/ \E i \in EntryOf(OldCmd(c).inst) :
          LET e == [entry[i] EXCEPT !.users = @ \ {c}]
          IN  IF Unneeded(e)
              THEN /\ entry' = [entry EXCEPT ![i] = NoEntry]
                   /\ mem' = DestroyedMem(mem, gig, i) /\ gig' = HandedBack(gig, i)
              ELSE entry' = [entry EXCEPT ![i] = e] /\ UNCHANGED <<gig, mem>>
     \/ EntryOf(OldCmd(c).inst) = {} /\ UNCHANGED manager
  /\ ClearOld(c)
  /\ regionMutex' = None /\ pc' = [pc EXCEPT ![c] = "borrow"]
  /\ UNCHANGED <<audio, want, got, todo, entriesMutex, bounds, upset>>

\* Create() for consumers of a device whose cycles have that size
Create(i, m, g, size, users) ==
  LET opened == Opened(g, i)
  IN  /\ gig' = opened /\ mem' = Loaded(m, opened.file)
      /\ entry' = [entry EXCEPT ![i] = [@ EXCEPT !.res = <<opened.file, i>>,
                                          !.size = size, !.users = users]]

Borrowed(c, inst) == /\ got' = [got EXCEPT ![c] = inst]
                     /\ pc' = [pc EXCEPT ![c] = "change"]

BorrowNew(c) ==
  LET i == want[c]
  IN  /\ pc[c] = "borrow" /\ entriesMutex = None /\ entry[i].res = None
      /\ Create(i, mem, gig, CycleSize[c], entry[i].users \cup {c})
      /\ Borrowed(c, <<gig'.file, i>>)
      /\ UNCHANGED <<cmd, audio, want, todo, entriesMutex, regionMutex, bounds, upset>>

\* Create() throws: the file cannot be read.
BorrowFails(c) ==
  /\ pc[c] = "borrow" /\ entriesMutex = None
  /\ entry[want[c]].res = None /\ gig.file = 0
  /\ pc' = [pc EXCEPT ![c] = "idle"] /\ want' = [want EXCEPT ![c] = None]
  /\ UNCHANGED <<cmd, audio, manager, got, todo, entriesMutex, regionMutex, bounds,
                 upset>>

BorrowExisting(c) ==
  LET i == want[c] e == entry[i]
  IN  /\ pc[c] = "borrow" /\ entriesMutex = None /\ e.res # None
      /\ entry' = [entry EXCEPT ![i].users = @ \cup {c}]
      /\ IF e.size < CycleSize[c]               \* OnBorrow() calls Update()
         THEN /\ entriesMutex' = c /\ todo' = e.users \ {c}
              /\ pc' = [pc EXCEPT ![c] = "update"] /\ UNCHANGED got
         ELSE Borrowed(c, e.res) /\ UNCHANGED <<entriesMutex, todo>>
      /\ UNCHANGED <<cmd, audio, gig, mem, want, regionMutex, bounds, upset>>

\* The voices of a channel are forgotten, without VoiceFreed() and
\* OrderDeletionOfRegion().
DropVoices(c) ==
  /\ voice' = [v \in Voice |-> IF voice[v] # None /\ voice[v].chan = c
                               THEN None ELSE voice[v]]
  /\ upset' = IF voice' = voice /\ \A i \in {0, 1} : cmd[c].copy[i].used = {}
              THEN upset ELSE upset \cup {"dropped"}

\* Update() calls ResourceToBeUpdated() of another consumer, whose engine it disables.
ToBeUpdated(c, d) ==
  /\ pc[c] = "update" /\ d \in todo /\ locked[d] = {}
  /\ enabled' = [enabled EXCEPT ![d] = FALSE] /\ played' = [played EXCEPT ![d] = None]
  /\ DropVoices(d) /\ todo' = todo \ {d}
  /\ UNCHANGED <<cmd, locked, ordered, manager, pc, want, got, entriesMutex,
                 regionMutex, bounds>>

\* Destroy() looks into RegionInfo without its mutex ...
UpdateDestroys(c) ==
  LET i == want[c]
  IN  /\ pc[c] = "update" /\ todo = {}
      /\ mem' = IF LastUser(gig, i) THEN Walk(mem, gig.file) ELSE mem
      /\ pc' = [pc EXCEPT ![c] = "cleanup"]
      /\ UNCHANGED <<cmd, audio, entry, gig, want, got, todo, entriesMutex, regionMutex,
                     bounds, upset>>

\* ... and again for the samples, before the instrument is created anew.
UpdateCreates(c) ==
  LET i == want[c]
      g == HandedBack(gig, i)
      m == IF LastUser(gig, i) THEN Cleanup(mem, gig.file) ELSE mem
  IN  /\ pc[c] = "cleanup"
      /\ Create(i, m, g, CycleSize[c], entry[i].users)
      /\ todo' = entry[i].users \ {c} /\ pc' = [pc EXCEPT ![c] = "updated"]
      /\ UNCHANGED <<cmd, audio, want, got, entriesMutex, regionMutex, bounds, upset>>

\* ResourceUpdated() gives the channel the new instrument, but not to its command.
Updated(c, d) ==
  /\ pc[c] = "updated" /\ d \in todo
  /\ played' = [played EXCEPT ![d] = entry[want[c]].res]
  /\ enabled' = [enabled EXCEPT ![d] = TRUE] /\ todo' = todo \ {d}
  /\ UNCHANGED <<cmd, locked, voice, ordered, manager, pc, want, got, entriesMutex,
                 regionMutex, bounds, upset>>

UpdateEnds(c) ==
  /\ pc[c] = "updated" /\ todo = {}
  /\ entriesMutex' = None /\ Borrowed(c, entry[want[c]].res)
  /\ UNCHANGED <<cmd, audio, manager, want, todo, regionMutex, bounds, upset>>

UseInstrument(c) ==
  /\ pc[c] = "change" /\ ChangeInstrument(c, got[c])
  /\ pc' = [pc EXCEPT ![c] = "finish"]
  /\ UNCHANGED <<audio, manager, want, got, todo, entriesMutex, regionMutex, bounds,
                 upset>>

Finish(c) == /\ pc[c] = "finish" /\ Switched(c)
             /\ pc' = [pc EXCEPT ![c] = "idle"]
             /\ got' = [got EXCEPT ![c] = None] /\ want' = [want EXCEPT ![c] = None]
             /\ UNCHANGED <<cmd, audio, manager, todo, entriesMutex, regionMutex, bounds,
                            upset>>

-----------------------------------------------------------------------------
(* The audio thread of a channel's engine, and the disk thread *)

VoicesOf(c) == {v \in Voice : voice[v] # None /\ voice[v].chan = c}

Orphaned(c) == [v \in Voice |-> IF v \in VoicesOf(c)
                                THEN [voice[v] EXCEPT !.orphan = TRUE] ELSE voice[v]]

\* (Faulty variant: a cycle may begin while another is under way.)
BeginCycle_Nested(c) ==
  LET now == cmd[c].cur
  IN  /\ enabled[c] /\ locked' = [locked EXCEPT ![c] = @ \cup {now}]
      /\ cmd' = [cmd EXCEPT ![c].copy[now].used = {}]
      /\ UNCHANGED <<enabled, played, voice, ordered, manager, loader, bounds, upset>>

\* RenderAudio() begins: HandleInstrumentChanges()
BeginCycle(c) ==
  LET now == cmd[c].cur copy == cmd[c].copy[now]
  IN  /\ locked[c] = {} /\ enabled[c]
      /\ locked' = [locked EXCEPT ![c] = {now}]
      /\ cmd' = [cmd EXCEPT ![c].copy[now] =
                   [inst |-> copy.inst, change |-> FALSE, used |-> {}]]
      /\ IF copy.change
         THEN played' = [played EXCEPT ![c] = copy.inst] /\ voice' = Orphaned(c)
         ELSE UNCHANGED <<played, voice>>
      /\ UNCHANGED <<enabled, ordered, manager, loader, bounds, upset>>

\* A note on a key triggers a voice of the instrument.
LaunchVoice(c, r) ==
  LET free == {v \in Voice : voice[v] = None}
  IN  /\ locked[c] # {} /\ free # {}
      /\ played[c] # None /\ r \in RegionsOf[played[c][2]]
      /\ voice' = [voice EXCEPT ![Min(free)] =
                     [chan |-> c, region |-> <<played[c][1], r>>, orphan |-> FALSE]]
      /\ UNCHANGED <<cmd, locked, enabled, played, ordered, manager, loader, bounds,
                     upset>>

\* A voice has ended: an orphan gives back its region.
FreeVoice(v) ==
  /\ voice[v] # None /\ locked[voice[v].chan] # {}
  /\ voice' = [voice EXCEPT ![v] = None]
  /\ ordered' = IF voice[v].orphan THEN [ordered EXCEPT ![voice[v].region] = @ + 1]
                ELSE ordered
  /\ UNCHANGED <<cmd, locked, enabled, played, manager, loader, bounds, upset>>

\* (Faulty variant: orphans are listed, and counted, again.)
InUse_Orphans(c) == {<<v, voice[v].region>> : v \in VoicesOf(c)}

\* What RenderVoicesHandler lists of the voices that are still active
InUse(c) == {<<v, voice[v].region>> : v \in {w \in VoicesOf(c) : ~voice[w].orphan}}

\* The voices have been rendered: the copy is unlocked.
EndCycle(c) ==
  /\ locked[c] # {}
  /\ cmd' = [cmd EXCEPT ![c].copy = [i \in {0, 1} |->
               IF i \in locked[c] THEN [@[i] EXCEPT !.used = InUse(c)] ELSE @[i]]]
  /\ locked' = [locked EXCEPT ![c] = {}]
  /\ UNCHANGED <<enabled, played, voice, ordered, manager, loader, bounds, upset>>

\* Update() has destroyed the last instrument of the file, whose samples it will look
\* at next.
Dying == \E c \in Channel : pc[c] = "cleanup" /\ LastUser(gig, want[c])

\* The disk thread hands back a region.
HandBackRegion(r) ==
  /\ ordered[r] > 0 /\ regionMutex = None
  /\ ordered' = [ordered EXCEPT ![r] = @ - 1]
  /\ mem' = RegionHandedBack(mem, r)
  /\ upset' = upset \cup (IF r \in DOMAIN mem.info THEN {} ELSE {"early"})
                    \cup (IF Dying /\ r[1] = gig.file THEN {"raced"} ELSE {})
  /\ UNCHANGED <<cmd, locked, enabled, played, voice, entry, gig, loader, bounds>>

-----------------------------------------------------------------------------
(* Commands of other threads *)

Command == /\ commands < MaxCommands /\ loads + commands < MaxLoads
           /\ commands' = commands + 1 /\ UNCHANGED loads

\* Reset() of a channel, with the engine disabled.  (The regions in the queue are
\* handed back, as the disk thread does.)
Reset(c) ==
  /\ Command /\ locked[c] = {} /\ enabled[c]
  /\ DropVoices(c)
  /\ UNCHANGED <<cmd, locked, enabled, played, ordered, manager, loader>>

Empty(c) == cmd[c].copy[cmd[c].cur].inst = None

\* A program change of the XG mode to a silent voice: UnloadInstrument()
UnloadInstrument(c) ==
  /\ Command /\ pc[c] = "idle"
  /\ ChangeInstrument(c, None)
  /\ pc' = [pc EXCEPT ![c] = "finish"]
  /\ upset' = IF Empty(c) THEN upset ELSE upset \cup {"dropped"}
  /\ UNCHANGED <<audio, manager, want, got, todo, entriesMutex, regionMutex>>

\* SetAvailabilityMode() of an instrument
LargestCycle == Max({CycleSize[c] : c \in Channel})

SetMode(i, mode) ==
  /\ Command /\ entriesMutex = None
  /\ mode # entry[i].mode
  /\ IF Unneeded([entry[i] EXCEPT !.mode = mode])
     THEN /\ entry' = [entry EXCEPT ![i] = NoEntry]
          /\ IF entry[i].res # None
             THEN mem' = DestroyedMem(mem, gig, i) /\ gig' = HandedBack(gig, i)
             ELSE UNCHANGED <<mem, gig>>
     ELSE IF mode = "PERSISTENT" /\ entry[i].res = None
     THEN LET opened == Opened(gig, i)
          IN  /\ gig' = opened /\ mem' = Loaded(mem, opened.file)
              /\ entry' = [entry EXCEPT ![i] = [res |-> <<opened.file, i>>, users |-> {},
                                                mode |-> mode, size |-> LargestCycle]]
     ELSE entry' = [entry EXCEPT ![i].mode = mode] /\ UNCHANGED <<mem, gig>>
  /\ UNCHANGED <<cmd, audio, loader, upset>>

LoaderStep(c) ==
  \/ HandBackInstrument(c) \/ NothingToHandBack(c) \/ HandBack(c)
  \/ BorrowNew(c) \/ BorrowFails(c) \/ BorrowExisting(c)
  \/ \E d \in Channel : ToBeUpdated(c, d) \/ Updated(c, d)
  \/ UpdateDestroys(c) \/ UpdateCreates(c) \/ UpdateEnds(c)
  \/ UseInstrument(c) \/ Finish(c)

Step ==
  \/ \E c \in Channel : \/ \E i \in Index : LoadInstrument(c, i)
                        \/ LoaderStep(c)
                        \/ BeginCycle(c) \/ EndCycle(c)
                        \/ \E r \in Region : LaunchVoice(c, r)
                        \/ Reset(c) \/ UnloadInstrument(c)
  \/ \E v \in Voice : FreeVoice(v)
  \/ \E r \in RegionInst : HandBackRegion(r)
  \/ \E i \in Index, mode \in Mode : SetMode(i, mode)

\* A channel that is not being loaded or reloaded, and whose audio thread has taken
\* its instrument
AtRest(d) == pc[d] = "idle" /\ entriesMutex = None /\ ~cmd[d].copy[cmd[d].cur].change

\* The instrument of a channel is changed, reloaded for another one, or unloaded,
\* while the channel is not at rest.  Nothing in the code prevents that.
Disorder(c) ==
  \/ pc[c] = "idle" /\ pc'[c] = "clear" /\ ~AtRest(c)
  \/ /\ pc[c] = "borrow" /\ pc'[c] = "update"
     /\ \E d \in entry[want[c]].users \ {c} : ~AtRest(d)
  \/ pc[c] = "idle" /\ pc'[c] = "finish" /\ ~(AtRest(c) /\ Empty(c))

Watch == disorder' = (disorder \/ \E c \in Channel : Disorder(c))

Next == Step /\ Watch

Spec == Init /\ [][Next]_vars

-----------------------------------------------------------------------------
(* Properties *)

\* A voice plays a region and a sample that are in memory, even if its instrument
\* was changed, handed back, freed or loaded anew meanwhile; as long as the channels
\* were at rest then.
VoiceSafe == ~disorder => \A v \in Voice : voice[v] # None =>
  voice[v].region \in mem.regions /\ SampleAt(voice[v].region) \in mem.samples

\* The instrument that a channel has borrowed, and is about to give to its audio
\* thread, is in memory.
BorrowedIsAlive == \A c \in Channel : pc[c] = "change" => got[c][1] \in mem.files

\* What a channel plays within a cycle is borrowed by that channel.
PlayedIsBorrowed == \A c \in Channel : locked[c] # {} /\ played[c] # None =>
  \E i \in Index : entry[i].res = played[c] /\ c \in entry[i].users

\* A voice whose instrument is being handed back: it is an orphan, or will be one
\* in the next cycle.
Disowned(v) == LET c == voice[v].chan
               IN  voice[v].orphan \/ /\ cmd[c].copy[cmd[c].cur].change
                                      /\ pc[c] = "clear" => Switched(c)

\* Regions listed, and not yet counted
Owed    == UNION {{c} \X OldCmd(c).used : c \in {d \in Channel : pc[d] = "clear"}}
OwedAs(r) == {o \in Owed : o[2][2] = r}

\* RegionInfo counts, for each region, the voices that play it and whose instrument
\* has been handed back, and those that have ended and wait for the disk thread.
Accounted == "dropped" \notin upset => \A r \in RegionInst :
  InfoCount(mem, r) + Cardinality(OwedAs(r)) = ordered[r] +
    Cardinality({v \in Voice : voice[v] # None /\ voice[v].region = r /\ Disowned(v)})

\* A file that no instrument needs is kept for a region that is in use, and it has
\* the samples of these regions only.
KeptIsNeeded == upset = {} /\ entriesMutex = None =>
  \A f \in mem.files \ {gig.file} :
    /\ \E r \in DOMAIN mem.info : r[1] = f /\ mem.info[r].kept
    /\ \A s \in mem.samples : s[1] = f => \E r \in DOMAIN mem.info : SampleAt(r) = s

(* Manager and channels agree: what is borrowed exists, what is played is   *)
(* borrowed, what voices still play is counted, and what is kept is played; *)
(* as long as channels were at rest when their instrument was changed.      *)
ManagerSound == ~disorder => /\ TypeOK /\ BorrowedIsAlive /\ PlayedIsBorrowed
                             /\ Accounted /\ KeptIsNeeded
=============================================================================
