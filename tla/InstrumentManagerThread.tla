---------------------- MODULE InstrumentManagerThread ----------------------
(***************************************************************************)
(* engines/InstrumentManagerThread and engines/EngineChannelFactory: the   *)
(* thread that loads instruments in the background, its job queue, and the *)
(* postponed deletion of an engine channel for which it is loading.        *)
(*                                                                         *)
(* The control thread (LSCP server) creates and removes channels, replaces *)
(* their engine and orders loads; MIDI program changes go through a queue  *)
(* of the disk thread, which orders loads, too.  The channels share one    *)
(* engine, and thus one disk thread.  WorkerThread (common/WorkerThread)   *)
(* has the same job queue and the same loop, without the channels.         *)
(***************************************************************************)
EXTENDS Integers, Sequences

CONSTANTS
  Channel,       \* engine channels
  NoChannel,     \* the channel of a command that only changes a mode
  MaxRequests    \* bound on the number of commands

ASSUME NoChannelAssumption == NoChannel \notin Channel
ASSUME MaxRequestsAssumption == MaxRequests \in Nat

Command == [n : 1..MaxRequests, ch : Channel \cup {NoChannel}]

VARIABLES
  queue,         \* commands not yet taken by the thread
  requested,     \* number of commands ordered so far
  finished,      \* commands executed, or dropped with their channel
  jobsLeft,      \* conditionJobsLeft
  worker,        \* where the thread is in Main(), "none" if not running
  cur,           \* the command the thread took last
  cancel,        \* StopThread() has cancelled the thread
  caller, at,    \* owner of loaderMutex, and where it is
  control,       \* what the control thread is doing
  victim,        \* the channel it is removing
  life,          \* of each channel; "zombie" stands for bDestroyed
  connected,     \* channels that get MIDI events from a port
  programs,      \* channels with a program change for the disk thread
  lockedChannels, \* channels whose deletion is postponed
  stray          \* history: channels given up with something pending for them that
                 \* nobody withdraws
vars == <<queue, requested, finished, jobsLeft, worker, cur, cancel, caller,
          at, control, victim, life, connected, programs, lockedChannels, stray>>

TypeOK == /\ queue \in Seq(Command)
          /\ requested \in 0..MaxRequests
          /\ finished \subseteq 1..MaxRequests
          /\ jobsLeft \in BOOLEAN /\ cancel \in BOOLEAN
          /\ worker \in {"none", "test", "drain", "load", "idle"}
          /\ cur \in Command \cup {NoChannel}
          /\ caller \in {"nobody", "control", "disk"}
          /\ at \in {"start", "wake"}
          /\ control \in {"idle", "order", "removing", "destroy", "stopping"}
          /\ victim \in Channel \cup {NoChannel}
          /\ life \in [Channel -> {"unborn", "alive", "zombie", "deleted"}]
          /\ connected \subseteq Channel /\ programs \subseteq Channel
          /\ lockedChannels \subseteq Channel /\ stray \subseteq Channel

Init == /\ queue = <<>> /\ requested = 0 /\ finished = {}
        /\ jobsLeft = FALSE /\ cancel = FALSE
        /\ worker = "none" /\ cur = NoChannel
        /\ caller = "nobody" /\ at = "start"
        /\ control = "idle" /\ victim = NoChannel
        /\ life = [ch \in Channel |-> "unborn"]
        /\ connected = {} /\ programs = {} /\ lockedChannels = {}
        /\ stray = {}

thread == <<worker, cur, cancel>>
order  == <<caller, at>>
owned  == <<victim, life, connected, programs, lockedChannels, stray>>

CommandsFor(ch) == {i \in 1..Len(queue) : queue[i].ch = ch}

\* The queue after the loop that erases the channel's commands
WithoutCommandsFor(ch) ==
  LET kept[i \in 0..Len(queue)] ==
        IF i = 0 THEN <<>>
        ELSE IF queue[i].ch # ch THEN Append(kept[i - 1], queue[i]) ELSE kept[i - 1]
  IN kept[Len(queue)]

\* EngineChannelFactory::SetDeleteEnabled(ch, true)
EnableDelete(ch) ==
  /\ lockedChannels' = lockedChannels \ {ch}
  /\ life' = IF ch \in Channel /\ life[ch] = "zombie"
             THEN [life EXCEPT ![ch] = "deleted"] ELSE life

-----------------------------------------------------------------------------
(* Faulty variants of the code below *)

\* The caller does not wake the thread
Start_NoWake ==
  /\ caller # "nobody"
  /\ at = "start"
  /\ caller' = "nobody"
  /\ control' = IF caller = "control" THEN "idle" ELSE control
  /\ worker' = IF worker = "none" THEN "test" ELSE worker
  /\ UNCHANGED <<queue, requested, finished, jobsLeft, cur, cancel, at, owned>>

\* An exception leaves the channel locked
LoadFails_KeepsLock ==
  /\ worker = "load"
  /\ worker' = "drain"
  /\ finished' = finished \cup {cur.n}
  /\ UNCHANGED <<queue, requested, jobsLeft, cur, cancel, order, control, owned>>

\* The channel is locked only after the queue's mutex was released
Take_NoLock ==
  /\ worker = "drain"
  /\ queue # <<>>
  /\ cur' = Head(queue)
  /\ queue' = Tail(queue)
  /\ worker' = "load"
  /\ UNCHANGED <<requested, finished, jobsLeft, cancel, order, control, owned>>

\* Every command locks its channel, also the ones that have none
Take_LocksAny ==
  /\ worker = "drain"
  /\ queue # <<>>
  /\ cur' = Head(queue)
  /\ queue' = Tail(queue)
  /\ lockedChannels' = lockedChannels \cup {Head(queue).ch}
  /\ worker' = "load"
  /\ UNCHANGED <<requested, finished, jobsLeft, cancel, order, control, victim,
                 life, connected, programs, stray>>

\* Scheduled loads of the channel stay in the queue
ChannelToBeRemoved_KeepsQueue(ch) ==
  /\ control = "idle"
  /\ life[ch] = "alive"
  /\ control' = "removing"
  /\ victim' = ch
  /\ stray' = stray \cup ({ch} \cap programs)
  /\ UNCHANGED <<queue, requested, finished, jobsLeft, thread, order, life,
                 connected, programs, lockedChannels>>

\* The thread goes back to sleep after it has reset the flag
Reset_WithoutDrain ==
  /\ worker = "idle"
  /\ jobsLeft
  /\ jobsLeft' = FALSE
  /\ UNCHANGED <<queue, requested, finished, thread, order, control, owned>>

\* The deletion is postponed even if the channel is not locked
Destroy_AlwaysPostponed ==
  /\ control = "destroy"
  /\ life' = [life EXCEPT ![victim] = "zombie"]
  /\ control' = "idle"
  /\ victim' = NoChannel
  /\ UNCHANGED <<queue, requested, finished, jobsLeft, thread, order,
                 connected, programs, lockedChannels, stray>>

-----------------------------------------------------------------------------
(* Ordering a command: the control thread or the disk thread *)

\* EngineChannelFactory::Create(), and the connection to an audio device
Create(ch) ==
  /\ control = "idle"
  /\ life[ch] = "unborn"
  /\ life' = [life EXCEPT ![ch] = "alive"]
  /\ connected' = connected \cup {ch}
  /\ UNCHANGED <<queue, requested, finished, jobsLeft, thread, order, control,
                 victim, programs, lockedChannels, stray>>

Append1(ch) == /\ requested < MaxRequests
               /\ requested' = requested + 1
               /\ queue' = Append(queue, [n |-> requested + 1, ch |-> ch])

\* LoadInstrumentInBackground() or SetModeInBackground() by the control
\* thread: loaderMutex, then the queue
OrderByControl(ch) ==
  /\ control = "idle"
  /\ caller = "nobody"
  /\ ch \in Channel => life[ch] = "alive"
  /\ Append1(ch)
  /\ caller' = "control" /\ at' = "start"
  /\ control' = "order"
  /\ UNCHANGED <<finished, jobsLeft, thread, owned>>

\* A program change arrives: DiskThreadBase::OrderProgramChange(), although the
\* channel may be on its way out and still connected
SendProgramChange(ch) ==
  /\ ch \in connected
  /\ programs' = programs \cup {ch}
  /\ stray' = stray \cup ({ch} \cap {victim})
  /\ UNCHANGED <<queue, requested, finished, jobsLeft, thread, order, control,
                 victim, life, connected, lockedChannels>>

\* The disk thread executes it: LoadInstrumentInBackground().
OrderByDisk(ch) ==
  /\ caller = "nobody"
  /\ ch \in programs
  /\ programs' = programs \ {ch}
  /\ Append1(ch)
  /\ caller' = "disk" /\ at' = "start"
  /\ UNCHANGED <<finished, jobsLeft, thread, control, victim, life, connected,
                 lockedChannels, stray>>

\* StartThread()
Start ==
  /\ caller # "nobody"
  /\ at = "start"
  /\ at' = "wake"
  /\ worker' = IF worker = "none" THEN "test" ELSE worker
  /\ UNCHANGED <<queue, requested, finished, jobsLeft, cur, cancel, caller,
                 control, owned>>

\* conditionJobsLeft.Set(true)
Wake ==
  /\ caller # "nobody"
  /\ at = "wake"
  /\ jobsLeft' = TRUE
  /\ caller' = "nobody"
  /\ control' = IF caller = "control" THEN "idle" ELSE control
  /\ UNCHANGED <<queue, requested, finished, thread, at, owned>>

-----------------------------------------------------------------------------
(* Removing a channel: the control thread *)

\* Sampler::RemoveSamplerChannel() informs the thread, which drops the loads
\* scheduled for the channel, but not what its disk thread has still to order.
ChannelToBeRemoved(ch) ==
  /\ control = "idle"
  /\ life[ch] = "alive"
  /\ queue' = WithoutCommandsFor(ch)
  /\ finished' = finished \cup {queue[i].n : i \in CommandsFor(ch)}
  /\ control' = "removing"
  /\ victim' = ch
  /\ stray' = stray \cup ({ch} \cap programs)
  /\ UNCHANGED <<requested, jobsLeft, thread, order, life, connected,
                 programs, lockedChannels>>

\* SamplerChannel::SetEngineType() replaces the engine channel; nobody informs
\* the thread, which goes on to load for the old one.
SetEngineType(ch) ==
  /\ control = "idle"
  /\ life[ch] = "alive"
  /\ control' = "removing"
  /\ victim' = ch
  /\ stray' = IF CommandsFor(ch) # {} \/ ch \in programs THEN stray \cup {ch} ELSE stray
  /\ UNCHANGED <<queue, requested, finished, jobsLeft, thread, order, life,
                 connected, programs, lockedChannels>>

\* The channel is disconnected from its MIDI ports and its audio device.
Disconnect ==
  /\ control = "removing"
  /\ connected' = connected \ {victim}
  /\ control' = "destroy"
  /\ UNCHANGED <<queue, requested, finished, jobsLeft, thread, order, victim,
                 life, programs, lockedChannels, stray>>

\* EngineChannelFactory::Destroy()
Destroy ==
  /\ control = "destroy"
  /\ life' = [life EXCEPT ![victim] =
                IF victim \in lockedChannels THEN "zombie" ELSE "deleted"]
  /\ control' = "idle"
  /\ victim' = NoChannel
  /\ UNCHANGED <<queue, requested, finished, jobsLeft, thread, order,
                 connected, programs, lockedChannels, stray>>

\* StopBackgroundThread()
StopThread ==
  /\ control = "idle"
  /\ worker # "none"
  /\ control' = "stopping"
  /\ cancel' = TRUE
  /\ UNCHANGED <<queue, requested, finished, jobsLeft, worker, cur, order,
                 owned>>

-----------------------------------------------------------------------------
(* The thread *)

\* TestCancel(), or a cancellation during the wait; StopThread() returns.
Cancelled ==
  /\ worker \in {"test", "idle"}
  /\ cancel
  /\ worker' = "none"
  /\ cancel' = FALSE
  /\ control' = "idle"
  /\ UNCHANGED <<queue, requested, finished, jobsLeft, cur, order, owned>>

\* From here on the thread cannot be cancelled.
PushCancelable ==
  /\ worker = "test"
  /\ ~ cancel
  /\ worker' = "drain"
  /\ UNCHANGED <<queue, requested, finished, jobsLeft, cur, cancel, order,
                 control, owned>>

\* Takes a command, and locks its channel against deletion.
Take ==
  /\ worker = "drain"
  /\ queue # <<>>
  /\ cur' = Head(queue)
  /\ queue' = Tail(queue)
  /\ lockedChannels' = lockedChannels \cup ({Head(queue).ch} \cap Channel)
  /\ worker' = "load"
  /\ UNCHANGED <<requested, finished, jobsLeft, cancel, order, control, victim,
                 life, connected, programs, stray>>

\* PrepareLoadInstrument() and LoadInstrument(), or SetMode(), succeed.
Loaded ==
  /\ worker = "load"
  /\ worker' = "drain"
  /\ finished' = finished \cup {cur.n}
  /\ EnableDelete(cur.ch)
  /\ UNCHANGED <<queue, requested, jobsLeft, cur, cancel, order, control,
                 victim, connected, programs, stray>>

\* An exception is caught.
LoadFails ==
  /\ worker = "load"
  /\ worker' = "drain"
  /\ finished' = finished \cup {cur.n}
  /\ EnableDelete(cur.ch)
  /\ UNCHANGED <<queue, requested, jobsLeft, cur, cancel, order, control,
                 victim, connected, programs, stray>>

PopCancelable ==
  /\ worker = "drain"
  /\ queue = <<>>
  /\ worker' = "idle"
  /\ UNCHANGED <<queue, requested, finished, jobsLeft, cur, cancel, order,
                 control, owned>>

\* WaitIf(false) returns and the flag is reset, all under the condition's mutex.
Reset ==
  /\ worker = "idle"
  /\ jobsLeft
  /\ jobsLeft' = FALSE
  /\ worker' = "test"
  /\ UNCHANGED <<queue, requested, finished, cur, cancel, order, control,
                 owned>>

Main == Cancelled \/ PushCancelable \/ Take \/ Loaded \/ LoadFails
        \/ PopCancelable \/ Reset
ControlNext ==
  \/ \E ch \in Channel : Create(ch) \/ ChannelToBeRemoved(ch) \/ SetEngineType(ch)
  \/ \E ch \in Channel \cup {NoChannel} : OrderByControl(ch)
  \/ Disconnect \/ Destroy \/ StopThread
Next == \/ ControlNext
        \/ \E ch \in Channel : SendProgramChange(ch) \/ OrderByDisk(ch)
        \/ Start \/ Wake
        \/ Main

Spec == Init /\ [][Next]_vars

\* The operating system runs every thread, and a load comes to an end.
FairSpec == /\ Spec
            /\ WF_vars(Main)
            /\ WF_vars(Start \/ Wake)
            /\ WF_vars(Disconnect \/ Destroy)

-----------------------------------------------------------------------------
(* Properties *)

\* No command or program change is pending, and none is executed, for an engine
\* channel that has been deleted or is only waiting for its deletion.  Excepted are
\* the channels that the code gives up with something pending: an engine is
\* replaced before its load, or a program change arrives too late to be ordered.
NoOrphanedPointer ==
  /\ \A i \in 1..Len(queue) :
       queue[i].ch \in Channel \ stray => life[queue[i].ch] = "alive"
  /\ \A ch \in programs \ stray : life[ch] = "alive"
  /\ worker = "load" /\ cur.ch \in Channel \ stray => life[cur.ch] \in {"alive", "zombie"}

\* The thread sleeps with commands in the queue only as long as the caller
\* that put the last one there has not yet woken it.
NoMissedWakeup ==
  worker = "idle" /\ ~ jobsLeft /\ queue # <<>> => caller # "nobody"

\* A channel is locked only while the thread is loading its instrument.
NoStaleLock == \A ch \in lockedChannels : worker = "load" /\ cur.ch = ch

\* Every command is executed, unless the thread is stopped before.
EveryCommandServed == \A i \in 1..MaxRequests :
  requested >= i ~> i \in finished \/ worker = "none"

\* An engine channel whose deletion was postponed is deleted in the end, even
\* if the thread is being stopped.
ZombiesAreDeleted == \A ch \in Channel :
  life[ch] = "zombie" ~> life[ch] = "deleted"

\* No command, executed or queued, is for a channel that is gone unless it was given
\* up with the command pending, none waits while the thread sleeps, and no channel
\* stays locked against its deletion.
SafeCommands == TypeOK /\ NoOrphanedPointer /\ NoMissedWakeup /\ NoStaleLock
=============================================================================
