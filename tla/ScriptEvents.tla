---------------------------- MODULE ScriptEvents ----------------------------
(***************************************************************************)
(* The execution instances (script events) of the real-time instrument     *)
(* script of an engine channel: how MIDI events spawn them, how they wait, *)
(* fork, stop and abort each other and end, and how the audio thread       *)
(* resumes them in each audio fragment (EngineBase::ProcessEvents()).      *)
(*                                                                         *)
(* A handler is any sequence of the statements that matter here.  Times    *)
(* are sample points from the start of the fragment; waits are in whole    *)
(* samples, rounded down.  Which free element the pool gives out makes no  *)
(* difference, so it is the one with the lowest number.  An ID of a freed  *)
(* element is one the pool does not know any more (its reincarnation       *)
(* counter, which never wraps here), so it leaves every list that has it.  *)
(* Left out: what scripts do to MIDI events, notes and variables; scripts  *)
(* that never leave a sync block.                                          *)
(*                                                                         *)
(*                                                                         *)
(* Three uses break the lists that the code relies on: a key that goes     *)
(* inactive frees script events of key 1 although their release handlers   *)
(* are suspended, a second note-off on a key recycles script events whose  *)
(* release handlers are suspended, and a polyphonic handler is spawned     *)
(* from an empty pool.  The model has these steps, but does not follow the *)
(* code further (ruined).                                                  *)
(***************************************************************************)
EXTENDS Integers, SequencesExt, FiniteSetsExt

CONSTANTS Events,       \* the pool of script events: a set of numbers
          NoEvent,
          Keys,         \* MIDI keys, by their numbers
          FragmentSize, \* sample points of an audio fragment
          MaxWait,      \* bound: whole samples of a wait()
          ForcedWait,   \* SCRIPT_VM_FORCE_SUSPENSION_MICROSECONDS in samples
          MaxForks,     \* MAX_FORK_PER_SCRIPT_HANDLER
          Scripts       \* the scripts: whether the note and release handlers use
                        \* polyphonic variables, which handlers there are, which
                        \* functions they call, and how many MIDI events they are
                        \* sent in a fragment (a bound)

ASSUME ScriptEventsAssumption ==
    /\ Events \subseteq Nat /\ IsFiniteSet(Events) /\ NoEvent \notin Events
    /\ FragmentSize \in Nat \ {0} /\ MaxWait \in Nat /\ ForcedWait \in Nat
    /\ MaxForks \in Nat \ {0}
    /\ \A s \in Scripts : /\ s.polyphonic \in BOOLEAN /\ s.handlers \subseteq {"note", "release"}
                          /\ s.polyphonic => s.handlers = {"note", "release"}
                          /\ s.calls \subseteq {"stop_wait", "abort", "fork"} /\ s.events \in Nat
    /\ Keys \subseteq 0..127

(* Handlers of controller messages are spawned like release handlers that  *)
(* have no kept script event.                                              *)
Handlers == {"note", "release"}

VARIABLES
    script,      \* one of Scripts: the one that is loaded
    phase,       \* where ProcessEvents() is, or "ruined"
    event,       \* the script events
    queue,       \* suspendedEvents: by scheduleTime, equal ones in order of insertion
    kept,        \* pKeyEvents of each key
    turn,        \* kept events that the current note-off has yet to release
    running,     \* the script event that the VM executes
    received,    \* how many MIDI events this fragment has seen
    now,         \* sample point of the last MIDI event of this fragment
    last,        \* history: when the last handler was resumed in this phase
    doomed,      \* history: who was told to end and has not yet
    stale        \* history: whose VM context was left as it was by an engine reset, or by
                 \* a key that went inactive

vars == <<script, phase, event, queue, kept, turn, running, received, now, last, doomed, stale>>

Allocated == {e \in Events : event[e].place # "pool"}
Free == Events \ Allocated
Queued == ToSet(queue)

(* A free element.  Its VM context stays as it was left: started is        *)
(* whether its stack is in the middle of a handler, aborted its flag.      *)
Freed(e) == [place |-> "pool", handler |-> "none", key |-> NoEvent, time |-> 0, forks |-> 0,
             children |-> {}, autoAbort |-> FALSE, ignoreWaits |-> FALSE, parent |-> NoEvent,
             started |-> event[e].started, aborted |-> event[e].aborted]

(* How many of the events in q are to be resumed at t or before.           *)
DueBy(q, t) == Cardinality({i \in DOMAIN q : event[q[i]].time <= t})

(* Mutant: the tree is a list to which the events are appended.            *)
Enqueue_Appended(q, es, t) == q \o es

(* Inserts the events es, whose time is t, into the tree.                  *)
Enqueue(q, es, t) == SubSeq(q, 1, DueBy(q, t)) \o es \o SubSeq(q, DueBy(q, t) + 1, Len(q))

(* Mutant: the time of a wait is rounded down.                             *)
Delay_Truncated(d) == d

(* After how many samples a handler that waits for d of them (and a bit)   *)
(* is resumed.                                                             *)
Delay(d) == d + 1

(* The list s without its element e.                                       *)
Without(s, e) == IF e \in ToSet(s) THEN RemoveAt(s, CHOOSE i \in DOMAIN s : s[i] = e) ELSE s

(* What scripts do with the rest of a fragment is unbounded in the code.   *)
TimeBound == FragmentSize + Max({MaxWait, ForcedWait}) + 1

-----------------------------------------------------------------------------
(* Audio fragments *)

StartFragment ==
    /\ phase = "idle"
    /\ phase' = "resume"
    /\ UNCHANGED <<script, event, queue, kept, turn, running, received, now, last, doomed, stale>>

Due == queue # <<>> /\ event[Head(queue)].time < FragmentSize

(* ResumeScriptEvent() of the event that popNextScheduledScriptEvent()     *)
(* takes from the queue.                                                   *)
Resume ==
    /\ phase \in {"resume", "resume again"} /\ running = NoEvent /\ Due
    /\ running' = Head(queue)
    /\ queue' = Tail(queue)
    /\ last' = event[Head(queue)].time
    /\ UNCHANGED <<script, phase, event, kept, turn, received, now, doomed, stale>>

Resumed ==
    /\ phase = "resume" /\ running = NoEvent /\ ~Due
    /\ phase' = "events"
    /\ last' = 0
    /\ UNCHANGED <<script, event, queue, kept, turn, running, received, now, doomed, stale>>

EventsDone ==
    /\ phase = "events" /\ running = NoEvent /\ turn = <<>>
    /\ phase' = "resume again"
    /\ received' = 0 /\ now' = 0
    /\ UNCHANGED <<script, event, queue, kept, turn, running, last, doomed, stale>>

(* Mutant: suspended handlers are resumed before the MIDI events only.     *)
ResumedAgain_Never == TRUE

(* What the handlers of this fragment have scheduled for it is resumed, too. *)
ResumedAgain == ~Due

EndFragment ==
    /\ phase = "resume again" /\ running = NoEvent /\ ResumedAgain
    /\ phase' = "idle"
    /\ event' = [e \in Events |->
                    IF e \in Queued THEN [event[e] EXCEPT !.time = @ - FragmentSize] ELSE event[e]]
    /\ last' = 0
    /\ UNCHANGED <<script, queue, kept, turn, running, received, now, doomed, stale>>

-----------------------------------------------------------------------------
(* MIDI events *)

(* ProcessScriptEvent() until the VM starts. The VM context is not touched. *)
Spawned(e, place, h, k, t) ==
    [Freed(e) EXCEPT !.place = place, !.handler = h, !.key = k, !.time = t]

(* The events of a note are kept for its release.                          *)
Keeps(h) == h = "note" /\ script.polyphonic

(* A MIDI event at sample point t whose handler is spawned on a new script *)
(* event; nothing is done if the pool is empty.                            *)
SpawnNew(h, k, t) ==
    /\ IF Free = {} THEN UNCHANGED <<event, running>>
       ELSE /\ running' = Min(Free)
            /\ event' = [event EXCEPT ![Min(Free)] = Spawned(Min(Free), "events", h, k, t)]
    /\ turn' = <<>>

(* A note-off recycles the script events of the key's notes, if there are. *)
RecyclesKept(h, k) == h = "release" /\ script.polyphonic /\ kept[k] # <<>>

(* The script events that it needs are in use, or there is none.           *)
Breaks(h, k) == IF RecyclesKept(h, k) THEN Queued \cap ToSet(kept[k]) # {}
                ELSE script.polyphonic /\ Free = {}

Receive ==
    /\ phase = "events" /\ running = NoEvent /\ turn = <<>> /\ received < script.events
    /\ \E h \in script.handlers, k \in Keys, t \in now..(FragmentSize - 1) :
          /\ now' = t
          /\ IF Breaks(h, k) THEN phase' = "ruined" /\ UNCHANGED <<event, running, turn>>
             ELSE IF RecyclesKept(h, k) THEN turn' = kept[k] /\ UNCHANGED <<phase, event, running>>
             ELSE SpawnNew(h, k, t) /\ UNCHANGED phase
    /\ received' = received + 1
    /\ UNCHANGED <<script, queue, kept, last, doomed, stale>>

ReleaseKept ==
    /\ turn # <<>> /\ running = NoEvent
    /\ running' = Head(turn)
    /\ turn' = Tail(turn)
    /\ event' = [event EXCEPT ![Head(turn)] =
                    Spawned(Head(turn), "kept", "release", @.key, now)]
    /\ UNCHANGED <<script, phase, queue, kept, received, now, last, doomed, stale>>

-----------------------------------------------------------------------------
(* The virtual machine *)

(* The running handler executes statements until its flags say otherwise.  *)
Executes == running # NoEvent /\ ~event[running].aborted
Calls(f) == Executes /\ f \in script.calls

Suspend(e, d) ==
    LET t == event[e].time + d IN
    /\ event' = [event EXCEPT ![e].time = t, ![e].started = TRUE]
    /\ queue' = Enqueue(queue, <<e>>, t)
    /\ running' = NoEvent

(* wait(): without effect after stop_wait(id, 1).                          *)
Wait ==
    /\ Executes /\ ~event[running].ignoreWaits
    /\ \E d \in 0..MaxWait : Suspend(running, Delay(d))
    /\ UNCHANGED <<script, phase, kept, turn, received, now, last, doomed, stale>>

(* A handler that has executed too many instructions is suspended.         *)
ForcedSuspension ==
    /\ Executes
    /\ Suspend(running, Delay(ForcedWait))
    /\ UNCHANGED <<script, phase, kept, turn, received, now, last, doomed, stale>>

(* Mutant: who is not in the queue is put there.                           *)
Hastens_Anyone(e) == e # running

(* ScheduleResumeOfScriptCallback(): only who is in the queue and not due. *)
Hastens(e) == e \in Queued /\ event[e].time > event[running].time

StopWait ==
    /\ Calls("stop_wait")
    /\ \E e \in Allocated, forever \in BOOLEAN :
          LET ignoring == event[e].ignoreWaits \/ forever
              t == event[running].time + 1
          IN IF Hastens(e)
             THEN /\ event' = [event EXCEPT ![e].ignoreWaits = ignoring, ![e].time = t]
                  /\ queue' = Enqueue(Without(queue, e), <<e>>, t)
             ELSE /\ event' = [event EXCEPT ![e].ignoreWaits = ignoring]
                  /\ UNCHANGED queue
    /\ UNCHANGED <<script, phase, kept, turn, running, received, now, last, doomed, stale>>

(* abort(): of the calling handler it is lost, because the flags are those *)
(* of the statement once that returns.                                     *)
Abort ==
    /\ Calls("abort")
    /\ \E e \in Allocated \ {running} :
          /\ event' = [event EXCEPT ![e].aborted = TRUE]
          /\ doomed' = doomed \cup {e}
    /\ UNCHANGED <<script, phase, queue, kept, turn, running, received, now, last, stale>>

(* Mutant: only the free script events are counted.                        *)
MayFork_Unlimited(e, n) == n <= Cardinality(Free)

MayFork(e, n) == event[e].forks + n <= MaxForks /\ n <= Cardinality(Free)

(* The next n free elements, by number.                                    *)
NextFree(n) == {s \in [1..n -> Free] : \A i \in 1..n : /\ \A j \in 1..(i - 1) : s[j] < s[i]
                                                      /\ \A f \in Free \ ToSet(s) : s[i] < f}

(* fork(): the children, which go on where the parent is, are due at once. *)
Fork ==
    /\ Calls("fork")
    /\ \E n \in 1..MaxForks, auto \in BOOLEAN : \E children \in NextFree(n) :
          /\ MayFork(running, n)
          /\ event' = [e \in Events |->
                IF e = running
                THEN [event[e] EXCEPT !.forks = @ + n, !.children = @ \cup ToSet(children)]
                ELSE IF e \in ToSet(children)
                THEN [event[running] EXCEPT !.place = "events", !.forks = 0, !.children = {},
                         !.autoAbort = auto, !.parent = running, !.started = TRUE]
                ELSE event[e]]
          /\ queue' = Enqueue(queue, children, event[running].time)
          /\ stale' = stale \ ToSet(children)
    /\ UNCHANGED <<script, phase, kept, turn, running, received, now, last, doomed>>

(* Mutant: the stack stays as it is when a handler is aborted.             *)
Reset_Finished(x) ==
    [x EXCEPT !.started = @ /\ x.aborted, !.aborted = FALSE, !.time = 0, !.forks = 0,
              !.children = {}, !.ignoreWaits = FALSE]

(* The context of a handler that has ended (its time is not used again).   *)
Reset(x) == [x EXCEPT !.started = FALSE, !.aborted = FALSE, !.time = 0, !.forks = 0,
                      !.children = {}, !.ignoreWaits = FALSE]

(* The children that still live and are to end with their parent e.        *)
Dependents(e) == {c \in event[e].children : event[c].autoAbort}

(* Mutant: an ID stays valid when its element is freed.                    *)
Forget_Nothing(e, events) == events

(* The events with e freed: nobody knows its ID any more.                  *)
Forget(e, events) == [x \in Events |-> [events[x] EXCEPT !.children = @ \ {e}]]

(* The running handler ends: its dependents are aborted, and its script    *)
(* event is freed or kept.                                                 *)
Finish ==
    LET e == running
        k == event[e].key
        after == [x \in Events |-> [event[x] EXCEPT !.aborted = @ \/ x \in Dependents(e),
                                                    !.parent = IF @ = e THEN NoEvent ELSE @]]
    IN /\ running' = NoEvent /\ stale' = stale \ {e}
       /\ doomed' = (doomed \cup {c \in Allocated : event[c].parent = e /\ event[c].autoAbort}) \ {e}
       /\ IF Keeps(event[e].handler)
          THEN /\ event' = [after EXCEPT ![e] = [Reset(@) EXCEPT !.place = "kept"]]
               /\ kept' = [kept EXCEPT ![k] = Append(@, e)]
          ELSE /\ event' = Forget(e, [after EXCEPT ![e] = Reset(Freed(e))])
               /\ kept' = [kept EXCEPT ![k] = Without(@, e)]
       /\ UNCHANGED <<script, phase, queue, turn, received, now, last>>

(* At its end, by exit, after an error, or by wait() of no time.           *)
End == Executes /\ Finish

(* Before its next statement, because it was told to.                      *)
EndAborted == running # NoEvent /\ event[running].aborted /\ Finish

-----------------------------------------------------------------------------
(* Between audio fragments *)

Clear(contexts) ==
    /\ event' = [e \in Events |-> [Freed(e) EXCEPT !.started = contexts[e].started,
                                                   !.aborted = contexts[e].aborted]]
    /\ queue' = <<>> /\ kept' = [k \in Keys |-> <<>>] /\ doomed' = {}
    /\ UNCHANGED <<phase, turn, running, received, now, last>>

Clean == [started |-> FALSE, aborted |-> FALSE]
IsClean(e) == ~event[e].started /\ ~event[e].aborted

(* Mutant: the key's list is emptied, but its script events are not freed. *)
FreedKey_Detached == event

(* The script events of key 1, freed.                                      *)
FreedKey ==
    [x \in Events |->
        [IF x \in ToSet(kept[1]) THEN Freed(x) ELSE event[x] EXCEPT !.children = @ \ ToSet(kept[1])]]

(* A key goes inactive, whichever it is: the index into pKeyEvents is an   *)
(* iterator that the compiler converts to bool, and so is 1.               *)
FreeKey ==
    /\ phase = "idle" /\ 1 \in Keys
    /\ phase' = IF Queued \cap ToSet(kept[1]) = {} THEN "idle" ELSE "ruined"
    /\ event' = FreedKey /\ kept' = [kept EXCEPT ![1] = <<>>]
    /\ doomed' = doomed \ ToSet(kept[1])
    /\ stale' = stale \cup {e \in ToSet(kept[1]) : ~IsClean(e)}
    /\ UNCHANGED <<script, queue, turn, running, received, now, last>>

(* resetEvents(): the VM contexts are not reset.                           *)
EngineReset ==
    /\ phase = "idle"
    /\ Clear(event)
    /\ stale' = {e \in Events : ~IsClean(e)}
    /\ UNCHANGED script

(* Another script: unload() and load(), with new VM contexts.              *)
LoadScript ==
    /\ phase = "idle"
    /\ Clear([e \in Events |-> Clean])
    /\ stale' = {}
    /\ script' \in Scripts

Init ==
    /\ script \in Scripts
    /\ phase = "idle" /\ running = NoEvent
    /\ event = [e \in Events |->
                  [place |-> "pool", handler |-> "none", key |-> NoEvent, time |-> 0, forks |-> 0,
                   children |-> {}, autoAbort |-> FALSE, ignoreWaits |-> FALSE,
                   parent |-> NoEvent, started |-> FALSE, aborted |-> FALSE]]
    /\ queue = <<>> /\ kept = [k \in Keys |-> <<>>] /\ turn = <<>>
    /\ received = 0 /\ now = 0 /\ last = 0 /\ doomed = {}
    /\ stale = {}

Engine == StartFragment \/ Resume \/ Resumed \/ EventsDone \/ EndFragment \/ ReleaseKept \/ EndAborted

Ruined == phase = "ruined" /\ UNCHANGED vars

Next ==
    \/ Engine \/ Receive
    \/ Wait \/ ForcedSuspension \/ StopWait \/ Abort \/ Fork \/ End
    \/ FreeKey \/ EngineReset \/ LoadScript
    \/ Ruined

(* The audio thread runs on, and the VM suspends a handler that does not   *)
(* come to an end.                                                         *)
Spec == Init /\ [][Next]_vars /\ WF_vars(Engine) /\ WF_vars(ForcedSuspension)

-----------------------------------------------------------------------------
(* Properties *)

ScriptEvent ==
    [place : {"pool", "events", "kept"}, handler : Handlers \cup {"none"}, key : Keys \cup {NoEvent},
     time : 0..TimeBound, forks : 0..MaxForks, children : SUBSET Events, autoAbort : BOOLEAN,
     ignoreWaits : BOOLEAN, parent : Events \cup {NoEvent}, started : BOOLEAN, aborted : BOOLEAN]

(* The variables have their types; no handler has more children than       *)
(* childHandlerID[] has room for, the zero at its end included.            *)
TypeOK ==
    /\ script \in Scripts
    /\ phase \in {"idle", "resume", "events", "resume again", "ruined"}
    /\ event \in [Events -> ScriptEvent]
    /\ queue \in Seq(Events) /\ turn \in Seq(Events) /\ kept \in [Keys -> Seq(Events)]
    /\ running \in Events \cup {NoEvent}
    /\ received \in 0..script.events /\ now \in 0..FragmentSize /\ last \in 0..FragmentSize
    /\ doomed \subseteq Events /\ stale \subseteq Events

(* No script event is lost or met twice: each one on the main list runs    *)
(* or waits in the queue, in one place of it, a kept one is kept for its   *)
(* key and waits in the queue only in the middle of its release handler,   *)
(* and what the pool gives out next is nowhere else.                       *)
NoHandlerLost ==
    /\ IsInjective(queue) /\ running \notin Queued
    /\ \A e \in Events : event[e].place = "events" <=> /\ e \in Queued \cup {running}
                                                       /\ \A k \in Keys : e \notin ToSet(kept[k])
    /\ \A k \in Keys : /\ IsInjective(kept[k])
                       /\ \A e \in ToSet(kept[k]) :
                             /\ event[e].place = "kept" /\ event[e].key = k
                             /\ e \in Queued => event[e].started /\ event[e].handler = "release"
    /\ \A e \in Events : event[e].place = "kept" => \E k \in Keys : e \in ToSet(kept[k])
    /\ \A e \in ToSet(turn) : event[e].place = "kept" /\ e \notin Queued \cup {running}

(* A handler that a MIDI event spawns starts at its beginning and not      *)
(* where an earlier handler of the same script event was suspended, unless *)
(* its VM context has been left as it was: of the ways in which handlers   *)
(* come to an end only an engine reset does that in the middle of one.     *)
FreshStart ==
    [][phase = "events" /\ running = NoEvent /\ running' \notin stale \cup {NoEvent}
          => ~event'[running'].started]_vars

(* The handlers that are aborted are those that a script has aborted or    *)
(* whose parent has ended, if they were forked to end with it: the IDs of  *)
(* children that are gone do not reach the next handler of that event.     *)
(* Only a reset, or a key that goes inactive, leaves an abortion to them.  *)
AbortedRightly == \A e \in Events \ stale : event[e].aborted <=> e \in doomed

(* Handlers are resumed in the order of their times, whatever stop_wait()  *)
(* and fork() schedule meanwhile.                                          *)
ResumedInOrder == [][last' >= last \/ phase' # phase]_vars

(* When a fragment begins, nothing is still to be resumed that was due in  *)
(* an earlier one.                                                         *)
NothingOverdue == phase = "idle" => ~(\E e \in Queued : event[e].time < 0)

(* The processing of a fragment comes to its end, whatever the handlers do *)
(* to each other, unless they fork for ever: each suspension moves a       *)
(* handler ahead in time.                                                  *)
FragmentEnds == []<>(phase = "idle") \/ []<><<Fork>>_vars \/ <>(phase = "ruined")

(* Every script event is accounted for: none lost, none aborted but those  *)
(* that were to be, none overdue, until one that is in use is ruined.      *)
HandlersAccounted ==
    TypeOK /\ (phase = "ruined" \/ (NoHandlerLost /\ AbortedRightly /\ NothingOverdue))

(* Two statements not kept.  A handler is executed "right from the start   *)
(* of the script's respective handler" (EngineBase.h:1043), but not behind *)
(* a reset; and "ScriptEvents available to be allocated from the Pool are  *)
(* currently unused / not executing" (InstrumentScriptVM.h:231), but not   *)
(* those that FreeKey() has freed.                                         *)
StartsAtTheStart ==
    [][phase = "events" /\ running = NoEvent /\ running' # NoEvent => ~event'[running'].started]_vars
PoolIsUnused == \A e \in Queued : event[e].place # "pool"
=============================================================================
