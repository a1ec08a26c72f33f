---------------------------- MODULE DiskThread ----------------------------
(***************************************************************************)
(* engines/common/DiskThreadBase, StreamBase, VoiceBase: the disk thread   *)
(* of an engine, its streams, and the voices that order them.              *)
(*                                                                         *)
(* A voice orders a stream when it is triggered, plays the cached part of  *)
(* its sample from RAM, then picks the stream up from the slot its order   *)
(* has reserved.  Orders to create and to delete a stream go through one   *)
(* queue each; a stream that is to be deleted before it was created is a   *)
(* ghost.  The disk thread writes the state of a stream into the reference *)
(* of the voice (pExportReference), which may meanwhile be used for the    *)
(* next stream of the same voice object.                                   *)
(***************************************************************************)
EXTENDS Integers, Sequences, FiniteSets

CONSTANTS
  Voice,         \* voice objects of the engine's voice pool
  Stream,        \* stream objects of the engine's disk thread
  Nobody,        \* no voice, no stream: NULL
  Free, Reserved,\* values of a slot that holds no stream: NULL, SLOT_RESERVED
  OtherUnused,   \* unused streams of the disk threads of other engines
  MaxOrders      \* bound on the number of streams ordered

ASSUME ValuesAssumption == /\ Nobody \notin Voice \cup Stream
                           /\ {Free, Reserved} \cap Stream = {}
                           /\ Free # Reserved
ASSUME NumbersAssumption == /\ IsFiniteSet(Stream) /\ Stream # {}
                            /\ OtherUnused \in Nat /\ MaxOrders \in Nat

MaxStreams == Cardinality(Stream)

\* A RingBuffer(n) rounds its size up to a power of two, and keeps one
\* element free.
Capacity(n) == LET fits == {i \in 1..n + 1 : 2^i >= n}
               IN  2^(CHOOSE i \in fits : \A j \in fits : i <= j) - 1

State   == {"unused", "active", "end"}
Handle  == 0..MaxOrders
OrderID == 0..MaxStreams                    \* 0 is "invalid order"
Deletion == [stream : Stream \cup {Nobody}, handle : Handle,
             order : OrderID, notify : BOOLEAN]

VARIABLES
  phase,     \* of each voice: "ram" or "disk" while it has an order or a stream of
             \* its own, or "idle"
  ref,       \* its DiskStreamRef
  stray,     \* what it was, but for its state, if the voice has read its stream to
             \* the end, and so has reset it, but still points to it
  strm,      \* state, hThis and pExportReference of each stream
  slot,      \* pCreatedStreams, but for its element 0, which is uninitialised
  creationQ, deletionQ, ghostQ,
  at,        \* the loop of Main() the disk thread is in
  pass,      \* how many ghosts it has looked at
  read,      \* the streams it has refilled in this iteration
  unused,    \* UnusedStreams
  handles,   \* counter of CreateHandle()
  orders,    \* counter of CreateOrderID()
  resetting, \* the engine is disabled, and Reset() waits for the disk thread
  pending,   \* handles whose deletion was ordered with a notification, which
             \* has not been given yet
  missed,    \* orders for which CreateStream() found no unused stream
  lost,      \* deletions for which the ghost queue had no space
  refused,   \* deletions for which the deletion queue had no space
  astray     \* has a voice reset or killed a stream it had only pointed to?
voices == <<phase, ref, stray>>
disk   == <<at, pass, read>>
ids    == <<handles, orders>>
history == <<pending, missed, lost, refused, astray>>
vars   == <<voices, strm, slot, creationQ, deletionQ, ghostQ, disk, unused,
            ids, resetting, history>>

NoRef    == [order |-> 0, handle |-> 0, state |-> "unused", stream |-> Nobody]
NoStream == [state |-> "unused", handle |-> 0, voice |-> Nobody]

Ref == [order : OrderID, handle : Handle, state : State, stream : Stream \cup {Nobody}]

TypeOK ==
  /\ phase \in [Voice -> {"idle", "ram", "disk"}]
  /\ ref \in [Voice -> Ref] /\ stray \in [Voice -> Ref]
  /\ strm \in [Stream -> [state : State, handle : Handle,
                          voice : Voice \cup {Nobody}]]
  /\ slot \in [1..MaxStreams -> Stream \cup {Free, Reserved}]
  /\ creationQ \in Seq([order : OrderID, handle : Handle, voice : Voice])
  /\ deletionQ \in Seq(Deletion) /\ ghostQ \in Seq(Deletion)
  /\ at \in {"ghosts", "create", "delete", "refill"}
  /\ pass \in Nat /\ read \subseteq Stream
  /\ unused \in 0..MaxStreams + OtherUnused
  /\ handles \in Handle /\ orders \in OrderID
  /\ resetting \in BOOLEAN
  /\ pending \cup missed \cup lost \cup refused \subseteq Handle
  /\ astray \in BOOLEAN

Init == /\ phase = [v \in Voice |-> "idle"] /\ ref = [v \in Voice |-> NoRef]
        /\ stray = [v \in Voice |-> NoRef]
        /\ strm = [s \in Stream |-> NoStream]
        /\ slot = [i \in 1..MaxStreams |-> Free]
        /\ creationQ = <<>> /\ deletionQ = <<>> /\ ghostQ = <<>>
        /\ at = "ghosts" /\ pass = 0 /\ read = {}
        /\ unused = MaxStreams + OtherUnused
        /\ handles = 0 /\ orders = 0 /\ resetting = FALSE
        /\ pending = {} /\ missed = {} /\ lost = {} /\ refused = {}
        /\ astray = FALSE

\* The k-th slot that CreateOrderID() looks at; the counter cycles 1..Streams.
Candidate(k) == ((orders + k - 1) % MaxStreams) + 1

Stray(v) == stray[v] # NoRef

\* The DiskStreamRef of a voice; the disk thread has its own pointer to the state.
RefOf(v) == IF Stray(v) THEN [stray[v] EXCEPT !.state = ref[v].state] ELSE ref[v]

\* Where a write through a pExportReference goes
WriteState(r, v, st) == IF v = Nobody THEN r ELSE [r EXCEPT ![v].state = st]

\* (Faulty variants of the three helpers below: the counter is raised for a stream
\* that is unused already; a slot whose stream is not yet there is given to another
\* order, too; a stream that has only reached its end is launched again.)
Freed_Always(s)    == 1
IsFree_Empty(i)    == slot[i] \in {Free, Reserved}
Available_Ended(s) == strm[s].state # "active"

\* By how many Kill() or Reset() of a stream raises UnusedStreams
Freed(s) == IF strm[s].state = "unused" THEN 0 ELSE 1

\* A slot for a new order, a stream for a new launch
IsFree(i)    == slot[i] = Free
Available(s) == strm[s].state = "unused"

Notify(cmd) == pending' = IF cmd.notify THEN pending \ {cmd.handle} ELSE pending

-----------------------------------------------------------------------------
(* Faulty variants of the code *)

\* The deletion of a stream that does not exist yet is ignored ...
MakeGhost_Never(cmd) == UNCHANGED <<ghostQ, lost, strm, unused, slot, pending>>

\* ... or is remembered without the request for a notification.
MakeGhost_Silent(cmd) ==
  /\ IF Len(ghostQ) < Capacity(MaxStreams)
     THEN ghostQ' = Append(ghostQ, [cmd EXCEPT !.notify = FALSE]) /\ UNCHANGED lost
     ELSE lost' = lost \cup {cmd.handle} /\ UNCHANGED ghostQ
  /\ UNCHANGED <<strm, unused, slot, pending>>

-----------------------------------------------------------------------------
(* The audio thread: voices *)

\* KillImmediately() of the voice: the deletion of its stream is ordered, the
\* result of OrderDeletionOfStream() is ignored.  The reference of a voice that has
\* read its stream to the end is unused, unless the disk thread has written into it
\* on behalf of a former stream of the voice: then the command points to a stream
\* that may be another voice's by now.
KillImmediately(v, notify) ==
  /\ phase' = [phase EXCEPT ![v] = "idle"]
  /\ ref' = [ref EXCEPT ![v] = NoRef] /\ stray' = [stray EXCEPT ![v] = NoRef]
  /\ LET r == RefOf(v) IN
       /\ IF r.state = "unused" THEN UNCHANGED <<deletionQ, refused>>
          ELSE IF Len(deletionQ) < Capacity(4 * MaxStreams)
          THEN /\ deletionQ' = Append(deletionQ, [stream |-> r.stream,
                              handle |-> r.handle, order |-> r.order, notify |-> notify])
               /\ UNCHANGED refused
          ELSE refused' = refused \cup {r.handle} /\ UNCHANGED deletionQ
       /\ pending' = IF notify /\ r.state # "unused"
                   THEN pending \cup {r.handle} ELSE pending
  /\ astray' = (astray \/ (Stray(v) /\ ref[v].state # "unused"))

\* OrderNewStream() of a voice that is triggered
Trigger(v) ==
  /\ phase[v] = "idle" /\ ~ Stray(v) /\ ~ resetting
  /\ handles < MaxOrders
  /\ Len(creationQ) < Capacity(4 * MaxStreams)
  /\ \E k \in 1..MaxStreams :
       /\ IsFree(Candidate(k))
       /\ \A j \in 1..k - 1 : ~ IsFree(Candidate(j))
       /\ orders' = Candidate(k)
       /\ slot' = [slot EXCEPT ![Candidate(k)] = Reserved]
       /\ creationQ' = Append(creationQ, [order |-> Candidate(k),
                                          handle |-> handles + 1, voice |-> v])
       /\ ref' = [ref EXCEPT ![v] = [order |-> Candidate(k), handle |-> handles + 1,
                                     state |-> "active", stream |-> Nobody]]
  /\ handles' = handles + 1
  /\ phase' = [phase EXCEPT ![v] = "ram"]
  /\ UNCHANGED <<stray, strm, deletionQ, ghostQ, disk, unused, resetting, history>>

\* The order fails, and the voice is killed.  Its reference has whatever state
\* the disk thread has last written into it.
TriggerFails(v) ==
  /\ phase[v] = "idle" /\ ~ Stray(v) /\ ~ resetting
  /\ \/ Len(creationQ) >= Capacity(4 * MaxStreams) /\ orders' = orders
     \/ /\ Len(creationQ) < Capacity(4 * MaxStreams)
        /\ \A i \in 1..MaxStreams : ~ IsFree(i)
        /\ orders' = Candidate(MaxStreams)
  /\ KillImmediately(v, FALSE)
  /\ UNCHANGED <<strm, slot, creationQ, ghostQ, disk, unused, handles, resetting,
                 missed, lost>>

\* Render(): the cached part is played back.  The voice picks its stream up ...
PickUp(v) ==
  /\ phase[v] = "ram" /\ ~ resetting
  /\ slot[ref[v].order] \in Stream
  /\ ref' = [ref EXCEPT ![v].stream = slot[ref[v].order]]
  /\ slot' = [slot EXCEPT ![ref[v].order] = Free]
  /\ phase' = [phase EXCEPT ![v] = "disk"]
  /\ UNCHANGED <<stray, strm, creationQ, deletionQ, ghostQ, disk, unused, ids, resetting,
                 history>>

\* ... or is killed: "Disk stream not available in time!"
TooLate(v) ==
  /\ phase[v] = "ram" /\ ~ resetting
  /\ slot[ref[v].order] \notin Stream
  /\ KillImmediately(v, FALSE)
  /\ UNCHANGED <<strm, slot, creationQ, ghostQ, disk, unused, ids, resetting,
                 missed, lost>>

\* IncrementReadPos(): all that was left of an ended stream is read, and the
\* audio thread itself resets the stream.  The voice keeps the pointer until it
\* ends, ...
ReadToEnd(v) ==
  /\ phase[v] = "disk" /\ ~ resetting
  /\ LET s == ref[v].stream
         written == WriteState(ref, strm[s].voice, "unused")
     IN  /\ strm[s].state = "end"
         /\ strm' = [strm EXCEPT ![s] = NoStream]
         /\ ref' = [written EXCEPT ![v] = NoRef]
  /\ phase' = [phase EXCEPT ![v] = "idle"]
  /\ stray' = [stray EXCEPT ![v] = ref[v]]
  /\ unused' = unused + 1
  /\ UNCHANGED <<slot, creationQ, deletionQ, ghostQ, disk, ids, resetting, history>>

\* ... which may be in the same Render(), or cycles later: the stream it reads to the
\* end then is one that was launched for another voice.
ReadAstray(v) ==
  /\ Stray(v) /\ ~ resetting
  /\ LET s == stray[v].stream
     IN  /\ strm[s].state = "end"
         /\ strm' = [strm EXCEPT ![s] = NoStream]
         /\ ref' = WriteState(ref, strm[s].voice, "unused")
  /\ unused' = unused + 1
  /\ astray' = TRUE
  /\ UNCHANGED <<phase, stray, slot, creationQ, deletionQ, ghostQ, disk, ids, resetting,
                 pending, missed, lost, refused>>

\* The voice ends, is stolen, or is killed by Suspend() or SuspendAll(), which
\* ask for a notification.
EndVoice(v) ==
  /\ phase[v] # "idle" \/ Stray(v)
  /\ ~ resetting
  /\ \E notify \in BOOLEAN : KillImmediately(v, notify)
  /\ UNCHANGED <<strm, slot, creationQ, ghostQ, disk, unused, ids, resetting,
                 missed, lost>>

\* ResetInternal() of the disabled engine resets the voices (bound: only while there
\* are orders left, to follow the reset) ...
ResetVoices ==
  /\ ~ resetting
  /\ handles < MaxOrders
  /\ resetting' = TRUE
  /\ phase' = [v \in Voice |-> "idle"]
  /\ ref' = [v \in Voice |-> NoRef] /\ stray' = [v \in Voice |-> NoRef]
  /\ UNCHANGED <<strm, slot, creationQ, deletionQ, ghostQ, disk, unused, ids,
                 history>>

\* ... and Reset() stops the disk thread, resets the streams and the queues,
\* and starts the thread again.
ResetDisk ==
  /\ resetting
  /\ at = "ghosts" /\ pass = 0
  /\ resetting' = FALSE
  /\ strm' = [s \in Stream |-> NoStream]
  /\ unused' = unused + Cardinality({s \in Stream : Freed(s) = 1})
  /\ slot' = [i \in 1..MaxStreams |-> Free]
  /\ creationQ' = <<>> /\ deletionQ' = <<>> /\ ghostQ' = <<>>
  /\ pending' = {}
  /\ UNCHANGED <<voices, disk, ids, missed, lost, refused, astray>>

-----------------------------------------------------------------------------
(* The disk thread: the loops of Main() *)

\* Kill() does not write into the reference of the voice.
Kill(s) == /\ strm' = [strm EXCEPT ![s] = NoStream]
           /\ unused' = unused + Freed(s)

\* One round over the ghost queue: a ghost whose stream exists is killed, the
\* others are put back.
Ghost ==
  /\ at = "ghosts"
  /\ pass < Len(ghostQ)
  /\ pass' = pass + 1
  /\ LET cmd == Head(ghostQ) IN
       \/ \E s \in Stream : /\ strm[s].handle = cmd.handle
                            /\ Kill(s)
                            /\ Notify(cmd)
                            /\ ghostQ' = Tail(ghostQ)
       \/ /\ \A s \in Stream : strm[s].handle # cmd.handle
          /\ ghostQ' = Append(Tail(ghostQ), cmd)
          /\ UNCHANGED <<strm, unused, pending>>
  /\ UNCHANGED <<voices, slot, creationQ, deletionQ, at, read, ids, resetting, missed,
                 lost, refused, astray>>

GhostsDone ==
  /\ at = "ghosts"
  /\ pass >= Len(ghostQ)
  /\ at' = "create" /\ pass' = 0
  /\ UNCHANGED <<read, voices, strm, slot, creationQ, deletionQ, ghostQ, unused, ids,
                 resetting, history>>

\* CreateStream(), LaunchStream().  Which of the unused streams is the last one
\* after qsort() makes no difference: they are all alike.
CreateStream ==
  /\ at = "create"
  /\ unused > 0 /\ creationQ # <<>>
  /\ creationQ' = Tail(creationQ)
  /\ LET cmd == Head(creationQ) IN
       \/ /\ \E s \in Stream : Available(s)
          /\ LET new == CHOOSE s \in Stream : Available(s) IN
            /\ ref' = WriteState(ref, cmd.voice, "active")
            /\ IF slot[cmd.order] = Reserved
               THEN /\ strm' = [strm EXCEPT ![new] = [state |-> "active",
                                   handle |-> cmd.handle, voice |-> cmd.voice]]
                    /\ unused' = unused - 1
                    /\ slot' = [slot EXCEPT ![cmd.order] = new]
               ELSE UNCHANGED <<strm, unused, slot>>
            /\ UNCHANGED missed
       \/ /\ \A s \in Stream : ~ Available(s)
          /\ missed' = missed \cup {cmd.handle}
          /\ UNCHANGED <<ref, strm, unused, slot>>
  /\ UNCHANGED <<phase, stray, deletionQ, ghostQ, disk, ids, resetting, pending, lost,
                 refused, astray>>

CreateDone ==
  /\ at = "create"
  /\ unused = 0 \/ creationQ = <<>>
  /\ at' = "delete"
  /\ UNCHANGED <<voices, strm, slot, creationQ, deletionQ, ghostQ, pass, read,
                 unused, ids, resetting, history>>

MakeGhost(cmd) ==
  /\ IF Len(ghostQ) < Capacity(MaxStreams)
     THEN ghostQ' = Append(ghostQ, cmd) /\ UNCHANGED lost
     ELSE lost' = lost \cup {cmd.handle} /\ UNCHANGED ghostQ
  /\ UNCHANGED <<strm, unused, slot, pending>>

\* DeleteStream().  Element 0 of pCreatedStreams is taken to be NULL.
DeleteStream ==
  /\ at = "delete"
  /\ unused < MaxStreams + OtherUnused /\ deletionQ # <<>>
  /\ deletionQ' = Tail(deletionQ)
  /\ LET cmd == Head(deletionQ) IN
       \/ /\ cmd.stream # Nobody            \* it was picked up
          /\ Kill(cmd.stream) /\ Notify(cmd)
          /\ UNCHANGED <<slot, ghostQ, lost>>
       \/ /\ cmd.stream = Nobody /\ cmd.order # 0
          /\ slot[cmd.order] \in Stream      \* it was created
          /\ Kill(slot[cmd.order]) /\ Notify(cmd)
          /\ slot' = [slot EXCEPT ![cmd.order] = Free]
          /\ UNCHANGED <<ghostQ, lost>>
       \/ /\ cmd.stream = Nobody
          /\ cmd.order # 0 => slot[cmd.order] \notin Stream
          /\ MakeGhost(cmd)
  /\ UNCHANGED <<voices, creationQ, disk, ids, resetting, missed, refused, astray>>

DeleteDone ==
  /\ at = "delete"
  /\ unused = MaxStreams + OtherUnused \/ deletionQ = <<>>
  /\ at' = "refill" /\ read' = {}
  /\ UNCHANGED <<voices, strm, slot, creationQ, deletionQ, ghostQ, pass, unused,
                 ids, resetting, history>>

\* RefillStreams(): Read() of some of the active streams, to the end or not
Refill(s) ==
  /\ at = "refill"
  /\ strm[s].state = "active" /\ s \notin read
  /\ read' = read \cup {s}
  /\ \E st \in {"active", "end"} :
       /\ strm' = [strm EXCEPT ![s].state = st]
       /\ ref' = WriteState(ref, strm[s].voice, st)
  /\ UNCHANGED <<phase, stray, slot, creationQ, deletionQ, ghostQ, at, pass, unused, ids,
                 resetting, history>>

RefillDone ==
  /\ at = "refill"
  /\ at' = "ghosts" /\ read' = {}
  /\ UNCHANGED <<voices, strm, slot, creationQ, deletionQ, ghostQ, pass, unused,
                 ids, resetting, history>>

Main == \/ Ghost \/ GhostsDone \/ CreateStream \/ CreateDone
        \/ DeleteStream \/ DeleteDone \/ RefillDone
        \/ \E s \in Stream : Refill(s)
Next == \/ \E v \in Voice : \/ Trigger(v) \/ TriggerFails(v) \/ PickUp(v)
                            \/ TooLate(v) \/ ReadToEnd(v) \/ ReadAstray(v)
                            \/ EndVoice(v)
        \/ ResetVoices \/ ResetDisk
        \/ Main

Spec == Init /\ [][Next]_vars

\* The operating system runs both threads; every voice comes to its end.
FairSpec == /\ Spec
            /\ WF_vars(Main)
            /\ WF_vars(ResetDisk)
            /\ \A v \in Voice : WF_vars(PickUp(v) \/ TooLate(v) \/ EndVoice(v))

-----------------------------------------------------------------------------
(* Properties *)

Queued(q) == {q[i] : i \in 1..Len(q)}

\* A voice that has a stream of its own has the one that was launched for it:
\* although its reference is reused, and written by the disk thread on behalf of
\* its former streams, nobody has reset the stream or launched it again.
HoldsOwnStream ==
  \A v \in Voice : ref[v].stream # Nobody =>
    LET s == ref[v].stream
    IN  strm[s].state # "unused" /\ strm[s].handle = ref[v].handle

\* DeleteStream() kills the stream a command points to without looking at the
\* handle: until then it is still the stream of the voice that gave the command.
KillsOwnStream == \A cmd \in Queued(deletionQ) :
  cmd.stream # Nobody => strm[cmd.stream].handle = cmd.handle

\* The slot of an order that waits for its stream is reserved for it alone
\* ("Slot already occupied! Please report this!").
SlotIsReserved == \A i \in 1..Len(creationQ) :
  /\ slot[creationQ[i].order] = Reserved
  /\ \A j \in 1..i - 1 : creationQ[j].order # creationQ[i].order

\* Every stream in use belongs to a voice, or there is a command that will delete
\* it, unless a queue was full when that was ordered; also when the voice died before
\* its stream was created.
NoStreamLeak == \A s \in Stream : strm[s].state # "unused" =>
  \/ \E v \in Voice : ref[v].handle = strm[s].handle
  \/ \E cmd \in Queued(deletionQ) \cup Queued(ghostQ) : cmd.handle = strm[s].handle
  \/ strm[s].handle \in lost \cup refused
  \/ resetting

\* The deletion queue never has more commands about a stream than there are slots
\* and streams, half its size: the rest of it is for the commands of order 0, which a
\* voice gives that a former stream has written to.  KillImmediately() may ignore that
\* OrderDeletionOfStream() fails if the queue is full.
DeletionQueueSuffices ==
  Cardinality({i \in 1..Len(deletionQ) : deletionQ[i].order # 0}) <= 2 * MaxStreams

\* Whoever waits for the deletion of streams, as Suspend() and SuspendAll() do, is
\* notified of each, unless the ghost queue was full, or a voice went astray.
EveryDeletionNotified == pending # {} ~> pending = {} \/ lost # {} \/ astray

\* Orders, slots, streams and voices stay matched, however late each side looks, and no
\* stream is lost, by a voice that forgets it or by a queue that is full: until a voice
\* meets another one's stream at the end of a pointer it has kept after its own was
\* reset (Stream.h:110), and resets it or orders its deletion.
StreamsSound == astray \/ (/\ TypeOK /\ HoldsOwnStream /\ KillsOwnStream
                           /\ SlotIsReserved /\ NoStreamLeak /\ DeletionQueueSuffices)

\* CreateStream() always finds an unused stream: "No unused stream found [...]
\* report if this happens, this is a bug!"
NoStreamMissed == missed = {}
=============================================================================
