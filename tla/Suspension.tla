---------------------------- MODULE Suspension ----------------------------
(***************************************************************************)
(* Editing an instrument while it is played: EngineBase suspends a region  *)
(* (Suspend, Resume) or everything (SuspendAll, ResumeAll) for instrument  *)
(* editors, which gig/InstrumentResourceManager lets in.                   *)
(*                                                                         *)
(* A region is suspended by the audio thread, which is told so through     *)
(* pPendingRegionSuspension and answers with SuspensionChangeOngoing, once *)
(* the disk thread has deleted the streams of the voices it has killed.    *)
(* SuspendAll() disables the engine (see ConditionServer), kills all       *)
(* voices and waits for their streams itself; both count the notifications *)
(* of the same queue.                                                      *)
(***************************************************************************)
EXTENDS Integers, Sequences, FiniteSets, SequencesExt

CONSTANTS
  Editor,        \* threads of instrument editors
  Region,        \* regions of the instrument
  Nobody,        \* no editor, no region: NULL
  Control,       \* the thread of the LSCP server, which resets the engine
  MaxDying,      \* bound on the streams that wait for their deletion, and on those
                 \* there may be, with their notifications, when an edit begins
  MaxRaces       \* bound on the kinds of races after which an edit begins

ASSUME NamesAssumption == /\ Nobody \notin Editor \cup Region \cup {Control}
                          /\ Control \notin Editor
ASSUME RegionAssumption == IsFiniteSet(Region)
ASSUME BoundsAssumption == MaxDying \in Nat /\ MaxRaces \in Nat

VARIABLES
  pc,        \* of each editor, and of the control thread
  target,    \* the region an editor edits
  resuming,  \* editors whose request is to resume the region
  entries,   \* owner of the ResourceEntriesMutex
  engines,   \* owner of the suspendedEnginesMutex
  disabler,  \* who has set EngineDisabled
  cycle,     \* the audio thread: "out" of RenderAudio(), or where it is
  ongoing,   \* SuspensionChangeOngoing
  pSuspend, pResume, \* pPendingRegionSuspension, pPendingRegionResumption
  suspended, \* SuspendedRegions
  playing,   \* regions with a voice that has a stream
  dying,     \* deletion orders of streams: region, and whether to notify
  notified,  \* length of the disk thread's DeletionNotificationQueue
  toSuspend, \* iPendingStreamDeletions of the engine
  toKill,    \* iPendingStreamDeletions of each SuspendAll()
  races      \* history: what the edits have met that Suspend() does not expect
editors == <<pc, target, resuming, entries, engines, disabler>>
request == <<ongoing, pSuspend, pResume, suspended>>
streams == <<playing, dying, notified>>
code == <<editors, cycle, request, streams, toSuspend, toKill>>
vars == <<code, races>>

RegionEdit == {"locked", "set", "waits", "edits"}
EngineEdit == {"suspends", "disables", "kills", "counts", "edits all", "samples"}

TypeOK ==
  /\ pc \in [Editor \cup {Control} ->
               {"idle", "disables"} \cup RegionEdit \cup EngineEdit]
  /\ target \in [Editor -> Region \cup {Nobody}] /\ resuming \subseteq Editor
  /\ entries \in Editor \cup {Nobody} /\ engines \in Editor \cup {Nobody}
  /\ disabler \in Editor \cup {Control, Nobody}
  /\ cycle \in {"out", "change", "render", "count"}
  /\ ongoing \in BOOLEAN
  /\ {pSuspend, pResume} \subseteq Region \cup {Nobody}
  /\ suspended \subseteq Region /\ playing \subseteq Region
  /\ dying \in Seq([region : Region, notify : BOOLEAN])
  /\ notified \in Nat /\ toSuspend \in Nat
  /\ toKill \in [Editor -> Nat]
  /\ races \subseteq {"overlap", "change", "reset"}

Init ==
  /\ pc = [t \in Editor \cup {Control} |-> "idle"]
  /\ target = [e \in Editor |-> Nobody] /\ resuming = {}
  /\ entries = Nobody /\ engines = Nobody /\ disabler = Nobody
  /\ cycle = "out" /\ ongoing = FALSE
  /\ pSuspend = Nobody /\ pResume = Nobody /\ suspended = {}
  /\ playing = {} /\ dying = <<>> /\ notified = 0
  /\ toSuspend = 0 /\ toKill = [e \in Editor |-> 0] /\ races = {}

Go(t, from, to) == pc[t] = from /\ pc' = [pc EXCEPT ![t] = to]

\* The deletion orders of the voices of the regions rs, in any order
Orders(rs) == {q \in [1..Cardinality(rs) -> [region : rs, notify : {TRUE}]] :
                 {q[i].region : i \in DOMAIN q} = rs}

-----------------------------------------------------------------------------
(* Editing a region: OnDataStructureToBeChanged(), OnDataStructureChanged() *)

\* The bounds on edits that begin
MayEdit == Len(dying) + notified <= MaxDying /\ Cardinality(races) <= MaxRaces

\* Lock(), and the first step of Suspend()
Lock(e, r) ==
  /\ Go(e, "idle", "locked")
  /\ entries = Nobody
  /\ MayEdit
  /\ entries' = e
  /\ target' = [target EXCEPT ![e] = r]
  /\ UNCHANGED <<resuming, engines, disabler, cycle, request, streams, toSuspend,
                 toKill>>

\* The same for Resume(), after the edit
LockAgain(e) ==
  /\ Go(e, "edits", "locked")
  /\ entries = Nobody
  /\ entries' = e
  /\ resuming' = resuming \cup {e}
  /\ UNCHANGED <<target, engines, disabler, cycle, request, streams, toSuspend,
                 toKill>>

\* SuspensionChangeOngoing.Set(true)
SetOngoing(e) ==
  /\ Go(e, "locked", "set")
  /\ ongoing' = TRUE
  /\ UNCHANGED <<target, resuming, entries, engines, disabler, cycle, pSuspend,
                 pResume, suspended, streams, toSuspend, toKill>>

Request(e) ==
  /\ Go(e, "set", "waits")
  /\ IF e \in resuming THEN pResume' = target[e] /\ UNCHANGED pSuspend
                       ELSE pSuspend' = target[e] /\ UNCHANGED pResume
  /\ UNCHANGED <<target, resuming, entries, engines, disabler, cycle, ongoing,
                 suspended, streams, toSuspend, toKill>>

\* WaitAndUnlockIf(true) returns, and Unlock().
Proceed(e) ==
  /\ pc[e] = "waits"
  /\ ~ ongoing
  /\ pc' = [pc EXCEPT ![e] = IF e \in resuming THEN "idle" ELSE "edits"]
  /\ target' = [target EXCEPT ![e] = IF e \in resuming THEN Nobody ELSE @]
  /\ resuming' = resuming \ {e}
  /\ entries' = Nobody
  /\ UNCHANGED <<engines, disabler, cycle, request, streams, toSuspend, toKill>>

-----------------------------------------------------------------------------
(* Editing an instrument or a file: SuspendEnginesUsing(), ResumeAllEngines() *)

LockEngines(e) ==
  /\ Go(e, "idle", "suspends")
  /\ engines = Nobody
  /\ MayEdit
  /\ engines' = e
  /\ UNCHANGED <<target, resuming, entries, disabler, cycle, request, streams,
                 toSuspend, toKill>>

\* GetEnginesUsing() locks the resource entries for a moment; SuspendAll()
\* begins: EngineDisabled.Push(true).
Disable(e) ==
  /\ Go(e, "suspends", "disables")
  /\ entries = Nobody
  /\ disabler = Nobody
  /\ disabler' = e
  /\ UNCHANGED <<target, resuming, entries, engines, cycle, request, streams,
                 toSuspend, toKill>>

\* The voices are killed while the audio thread may still render.
KillAll_Running(e) ==
  /\ Go(e, "disables", "counts")
  /\ \E q \in Orders(playing) : dying' = dying \o q
  /\ toKill' = [toKill EXCEPT ![e] = Cardinality(playing)]
  /\ playing' = {}
  /\ UNCHANGED <<target, resuming, entries, engines, disabler, cycle, request,
                 notified, toSuspend>>

\* The audio thread is out of RenderAudio(): KillAllVoicesImmediately().
KillAll(e) ==
  /\ Go(e, "disables", "counts")
  /\ cycle = "out"
  /\ \E q \in Orders(playing) : dying' = dying \o q
  /\ toKill' = [toKill EXCEPT ![e] = Cardinality(playing)]
  /\ playing' = {}
  /\ UNCHANGED <<target, resuming, entries, engines, disabler, cycle, request,
                 notified, toSuspend>>

\* The deletions are counted whether or not there is a notification.
Count_Unasked(e) ==
  /\ pc[e] = "counts"
  /\ toKill[e] > 0
  /\ toKill' = [toKill EXCEPT ![e] = @ - 1]
  /\ notified' = notified - 1
  /\ UNCHANGED <<editors, cycle, request, playing, dying, toSuspend>>

\* AskForDeletedStream(), until all are deleted
Count(e) ==
  /\ pc[e] = "counts"
  /\ toKill[e] > 0 /\ notified > 0
  /\ toKill' = [toKill EXCEPT ![e] = @ - 1]
  /\ notified' = notified - 1
  /\ UNCHANGED <<editors, cycle, request, playing, dying, toSuspend>>

AllSuspended(e) ==
  /\ Go(e, "counts", "edits all")
  /\ toKill[e] = 0
  /\ UNCHANGED <<target, resuming, entries, engines, disabler, cycle, request,
                 streams, toSuspend, toKill>>

\* OnDataStructureChanged("gig::Sample") locks the resource entries.
LockForSample(e) ==
  /\ Go(e, "edits all", "samples")
  /\ entries = Nobody
  /\ entries' = e
  /\ UNCHANGED <<target, resuming, engines, disabler, cycle, request, streams,
                 toSuspend, toKill>>

UnlockSample(e) ==
  /\ Go(e, "samples", "edits all")
  /\ entries' = Nobody
  /\ UNCHANGED <<target, resuming, engines, disabler, cycle, request, streams,
                 toSuspend, toKill>>

ResumeAll(e) ==
  /\ Go(e, "edits all", "idle")
  /\ disabler' = Nobody
  /\ engines' = Nobody
  /\ UNCHANGED <<target, resuming, entries, cycle, request, streams, toSuspend,
                 toKill>>

-----------------------------------------------------------------------------
(* AbstractEngine::Reset(), by the control thread *)

DisableForReset ==
  /\ Go(Control, "idle", "disables")
  /\ disabler = Nobody
  /\ disabler' = Control
  /\ UNCHANGED <<target, resuming, entries, engines, cycle, request, streams,
                 toSuspend, toKill>>

\* ResetInternal() resets the voices and the disk thread with all its queues.
ResetInternal ==
  /\ playing' = {} /\ dying' = <<>> /\ notified' = 0
  /\ UNCHANGED <<target, resuming, entries, engines, request, toSuspend, toKill>>

Reset ==
  /\ Go(Control, "disables", "idle")
  /\ cycle = "out"
  /\ disabler' = Nobody
  /\ ResetInternal
  /\ UNCHANGED cycle

-----------------------------------------------------------------------------
(* The audio thread: one cycle of RenderAudio() *)

\* The audio thread answers although streams still wait for their deletion.
Answer_Early(pending) == ongoing' = FALSE

\* SuspensionChangeOngoing.Set(false), if no deletion is pending
Answer(pending) == ongoing' = (ongoing /\ pending # 0)

\* The voice dies as it does at its end, without a notification.
KillOrders_Silent(rs) == [i \in 1..Cardinality(rs) |->
                            [region |-> pSuspend, notify |-> FALSE]]

\* SuspensionVoiceHandler: KillImmediately(true) for the voices of the region
KillOrders(rs) == [i \in 1..Cardinality(rs) |->
                     [region |-> pSuspend, notify |-> TRUE]]

\* ProcessSuspensionsChanges(): a request to suspend a region
ProcessSuspension ==
  LET killed == playing \cap {pSuspend}
  IN  /\ pSuspend # Nobody
      /\ dying' = dying \o KillOrders(killed)
      /\ playing' = playing \ killed
      /\ toSuspend' = toSuspend + Cardinality(killed)
      /\ suspended' = suspended \cup {pSuspend}
      /\ pSuspend' = Nobody
      /\ Answer(toSuspend')
      /\ UNCHANGED <<pResume, notified>>

\* The region remains in the list.
Resumed_Not == suspended

Resumed == suspended \ {pResume}

\* ... and a request to resume one
ProcessResumption ==
  /\ pResume # Nobody
  /\ suspended' = Resumed
  /\ pResume' = Nobody
  /\ ongoing' = FALSE
  /\ UNCHANGED <<pSuspend, streams, toSuspend>>

NothingToProcess ==
  /\ pSuspend = Nobody /\ pResume = Nobody
  /\ UNCHANGED <<request, streams, toSuspend>>

\* The engine is not disabled. A cycle that has begun is not stopped by that.
BeginCycle ==
  /\ cycle = "out" /\ disabler = Nobody
  /\ cycle' = "change"
  /\ ProcessSuspension \/ ProcessResumption \/ NothingToProcess
  /\ UNCHANGED <<editors, toKill>>

\* ProcessSysex() resets the engine.
SysexReset ==
  /\ cycle = "change"
  /\ ResetInternal
  /\ UNCHANGED <<pc, disabler, cycle>>

\* HandleInstrumentChanges(): the new instrument has no suspended regions.
ResetSuspendedRegions ==
  /\ cycle = "change"
  /\ cycle' = "render"
  /\ suspended' = {}
  /\ pSuspend' = Nobody /\ pResume' = Nobody
  /\ toSuspend' = 0
  /\ ongoing' = FALSE
  /\ UNCHANGED <<editors, streams, toKill>>

NoInstrumentChange ==
  /\ cycle = "change"
  /\ cycle' = "render"
  /\ UNCHANGED <<editors, request, streams, toSuspend, toKill>>

RegionSuspended_Never(r) == FALSE

RegionSuspended(r) == r \in suspended

\* A note triggers a voice ...
TriggerVoice(r) ==
  /\ cycle = "render"
  /\ ~ RegionSuspended(r)
  /\ playing' = playing \cup {r}
  /\ UNCHANGED <<editors, cycle, request, dying, notified, toSuspend, toKill>>

\* ... or a voice comes to its end: nobody waits for its stream.
VoiceEnds(r) ==
  /\ cycle = "render"
  /\ r \in playing
  /\ Len(dying) < MaxDying
  /\ playing' = playing \ {r}
  /\ dying' = Append(dying, [region |-> r, notify |-> FALSE])
  /\ UNCHANGED <<editors, cycle, request, notified, toSuspend, toKill>>

\* ProcessPendingStreamDeletions()
EndCycle ==
  /\ cycle = "render"
  /\ cycle' = "out"
  /\ IF toSuspend = 0
     THEN UNCHANGED <<request, notified, toSuspend>>
     ELSE /\ toSuspend' = IF notified < toSuspend THEN toSuspend - notified ELSE 0
          /\ notified' = 0
          /\ Answer(toSuspend')
          /\ UNCHANGED <<pSuspend, pResume, suspended>>
  /\ UNCHANGED <<editors, playing, dying, toKill>>

-----------------------------------------------------------------------------
(* The disk thread. Streams that are created late are deleted late. *)

DeleteStream(i) ==
  /\ i \in DOMAIN dying
  /\ dying' = RemoveAt(dying, i)
  /\ notified' = notified + (IF dying[i].notify THEN 1 ELSE 0)
  /\ UNCHANGED <<editors, cycle, request, playing, toSuspend, toKill>>

-----------------------------------------------------------------------------

\* What an editor's thread does by itself, and must do to get on
EditorStep(e) == \/ SetOngoing(e) \/ Request(e) \/ Proceed(e)
                 \/ Disable(e) \/ KillAll(e) \/ Count(e) \/ AllSuspended(e)
                 \/ UnlockSample(e)

Edit(e) == \/ \E r \in Region : Lock(e, r)
           \/ LockAgain(e) \/ LockEngines(e) \/ LockForSample(e) \/ ResumeAll(e)

Audio == \/ BeginCycle \/ SysexReset \/ ResetSuspendedRegions \/ NoInstrumentChange
         \/ \E r \in Region : TriggerVoice(r) \/ VoiceEnds(r)
         \/ EndCycle

Step == \/ \E e \in Editor : EditorStep(e) \/ Edit(e)
        \/ DisableForReset \/ Reset
        \/ Audio
        \/ \E i \in 1..Len(dying) : DeleteStream(i)

\* Two edits are about the same region, or a region is edited while another editor
\* suspends the engine.
Overlap == \E e, f \in Editor :
  \/ e # f /\ target[e] # Nobody /\ target[e] = target[f]
  \/ pc[e] \in RegionEdit /\ pc[f] \in EngineEdit

\* The instrument is changed while a region is suspended, or asked for.
ChangeWhileEdited == cycle = "change" /\ cycle' = "render"
                     /\ <<request, toSuspend>>' # <<request, toSuspend>>

\* The engine is reset while a Suspend() waits for the deletion of streams.
ResetWhileAwaited == (Reset \/ SysexReset) /\ toSuspend # 0

\* History: nothing in the code keeps these three away, and no edit is safe from them.
Watch == races' = races \cup (IF Overlap' THEN {"overlap"} ELSE {})
                        \cup (IF ChangeWhileEdited THEN {"change"} ELSE {})
                        \cup (IF ResetWhileAwaited THEN {"reset"} ELSE {})

Next == Step /\ Watch

Spec == Init /\ [][Next]_vars

\* The audio driver calls RenderAudio() for ever and each cycle comes to its end;
\* the disk thread executes its commands in order, and tries its ghosts in every
\* turn; no thread is stopped for ever inside an operation. Resets are commands of a user,
\* far apart compared with audio cycles: one begins between them, hence SF.
FairSpec ==
  /\ Spec
  /\ SF_vars(BeginCycle /\ Watch)
  /\ WF_vars((ResetSuspendedRegions \/ NoInstrumentChange) /\ Watch)
  /\ WF_vars(EndCycle /\ Watch)
  /\ WF_vars(DeleteStream(1) /\ Watch)
  /\ WF_vars(Reset /\ Watch)
  /\ \A e \in Editor : WF_vars(EditorStep(e) /\ Watch)

-----------------------------------------------------------------------------
(* Properties *)

ToNotify == Cardinality({i \in DOMAIN dying : dying[i].notify})

\* No voice plays a region while an editor changes it, whatever is played and
\* whichever other regions are suspended and resumed meanwhile.
EditedRegionIsSilent == \A e \in Editor : pc[e] = "edits" =>
  target[e] \in suspended \ playing

\* While an instrument or a file is edited the audio thread is out of RenderAudio(),
\* and there is no voice: "the engine turned into a complete idle loop".
EditedEngineIsIdle == \A e \in Editor :
  pc[e] \in {"edits all", "samples"} => cycle = "out" /\ playing = {}

\* The streams of the voices that were killed for an edit are deleted when the
\* edit begins, although they are only counted, together with all others.
KilledStreamsAreDeleted == \A e \in Editor :
  /\ pc[e] \in {"edits all", "samples"} => ToNotify = 0
  /\ pc[e] = "edits" => [region |-> target[e], notify |-> TRUE]
                          \notin {dying[i] : i \in DOMAIN dying}

\* Suspend() and SuspendAll() take their notifications from the same queue: it never
\* holds one nobody waits for, which the next edit would take for its own, nor does
\* anyone wait for one that will not come.
NotificationsMatch ==
  /\ \A e \in Editor : toKill[e] # 0 => engines = e
  /\ notified + ToNotify = toSuspend + (IF engines = Nobody THEN 0 ELSE toKill[engines])

\* An edit begins after the deletion of the streams it has asked for, and the
\* notifications of other deletions do not disturb it. Overlapping edits take each
\* other's notifications, but all of them are still counted; a reset discards them, and
\* a change of the instrument forgets that they are awaited.
StreamsAwaited == /\ races = {} => KilledStreamsAreDeleted
                  /\ races \subseteq {"overlap"} => NotificationsMatch

\* A region stays suspended only as long as its editor edits it, or waits for its
\* resumption.
SuspendedIsEdited == suspended \subseteq {target[e] : e \in Editor}

\* Suspend(), Resume() and SuspendAll() return, unless edits overlap, lose their request
\* to a change of the instrument, or their notifications to a reset.
EveryEditProceeds == \A e \in Editor :
  pc[e] \in {"waits", "disables", "counts"} ~>
    pc[e] \in {"idle", "edits", "edits all"} \/ races # {}

\* What an editor changes between SuspendAll() and ResumeAll() is not played, whatever
\* else happens; what it changes between Suspend() and Resume() is not, and nothing else
\* stays suspended, as long as edits do not overlap and keep their request.
EditedIsQuiet == /\ TypeOK /\ EditedEngineIsIdle
                 /\ races \subseteq {"reset"} => EditedRegionIsSilent /\ SuspendedIsEdited

\* "Additionally this method will block until all voices and their disk streams
\* associated with that region are actually killed / deleted": no stream of a region
\* is left when its edit begins.
NoStreamOfEditedRegion == \A e \in Editor : pc[e] = "edits" =>
  \A i \in DOMAIN dying : dying[i].region # target[e]
=============================================================================
