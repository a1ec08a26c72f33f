--------------------------- MODULE StreamsProofs ---------------------------
(***************************************************************************)
(* Proofs about the streams that voices read from disk:                    *)
(*                                                                         *)
(*   DiskThread, for any numbers of voices, streams and orders: orders,    *)
(*   slots, streams and voices stay matched and no stream is lost          *)
(*   (StreamsSound), until a voice resets or kills a stream that it only   *)
(*   points to, after its own was reset.                                   *)
(*                                                                         *)
(*   StreamBuffer, for buffers, refills and cycles of any size and samples *)
(*   of any length: the voice plays the sample although it reads the ring  *)
(*   as a line (BufferSound), and it ends with the sample (EndsAtEnd),     *)
(*   until it has met the last Read() of the disk thread half way.         *)
(*                                                                         *)
(* The two have no variable in common, and are independent of each other.  *)
(***************************************************************************)
EXTENDS DiskThread, StreamBuffer, SequenceTheorems, FiniteSetTheorems, TLAPS

USE DEF Ref

-----------------------------------------------------------------------------
(* Life of streams: the inductive invariant *)

\* Only an idle voice has an empty reference, and it is never taken to be unused
\* while the voice is not idle.  A voice that is left with a pointer has no stream of
\* its own.  ResetInternal() leaves all voices idle.
VoiceInv ==
  /\ \A v \in Voice :
       /\ phase[v] = "idle" => ref[v].order = 0 /\ ref[v].handle = 0
       /\ phase[v] # "idle" => ref[v].order # 0 /\ ref[v].handle # 0
                               /\ ref[v].state # "unused"
       /\ ref[v].stream # Nobody <=> phase[v] = "disk"
       /\ stray[v] # NoRef => phase[v] = "idle"
  /\ resetting => \A v \in Voice : phase[v] = "idle"

\* A handle belongs to one stream at most.
StreamInv ==
  /\ \A s \in Stream : strm[s].handle = 0 <=> strm[s].state = "unused"
  /\ \A s, t \in Stream : strm[s].handle = strm[t].handle /\ s # t
                            => strm[s].handle = 0

\* The streams that voices play back and that commands point to are still those of
\* the handle.
PlayedInv == \A v \in Voice : ref[v].stream # Nobody =>
               strm[ref[v].stream].handle = ref[v].handle
PointedInv == \A cmd \in Queued(deletionQ) :
  /\ cmd.order = 0 <=> cmd.handle = 0
  /\ cmd.stream # Nobody => cmd.order # 0 /\ strm[cmd.stream].handle = cmd.handle

\* The orders that wait for their stream have slots and handles of their own.
CreationInv ==
  /\ \A cmd \in Queued(creationQ) :
       /\ cmd.order # 0 /\ cmd.handle # 0 /\ slot[cmd.order] = Reserved
       /\ \A s \in Stream : strm[s].handle # cmd.handle
  /\ \A i, j \in 1..Len(creationQ) :
       \/ i = j
       \/ /\ creationQ[i].order # creationQ[j].order
          /\ creationQ[i].handle # creationQ[j].handle

\* The disk thread writes into the reference of a voice that is not idle only on
\* behalf of the voice's own stream or of a former one, never of another voice's.
ExportInv == \A v \in Voice : ref[v].handle # 0 =>
  /\ \A s \in Stream : strm[s].handle = ref[v].handle => strm[s].voice = v
  /\ \A cmd \in Queued(creationQ) : cmd.handle = ref[v].handle => cmd.voice = v

\* Who may still look into the slot of an order: the voice that plays from RAM, or a
\* command to delete the stream of a voice that had not picked it up.
Claim(o, h) ==
  \/ \E v \in Voice : phase[v] = "ram" /\ ref[v].order = o /\ ref[v].handle = h
  \/ \E cmd \in Queued(deletionQ) :
       cmd.stream = Nobody /\ cmd.order # 0 /\ cmd.order = o /\ cmd.handle = h

\* It finds there the stream of its handle, or that there is none yet, ...
Promised(o, h) == \/ slot[o] = Reserved
                  \/ slot[o] \in Stream /\ strm[slot[o]].handle = h

\* ... and no two have claims on the same slot.
ClaimInv == \A o \in OrderID, h \in Handle : Claim(o, h) =>
  /\ Promised(o, h)
  /\ \A g \in Handle : Claim(o, g) => g = h
  /\ \A cmd \in Queued(creationQ) : cmd.order = o => cmd.handle = h

\* A handle is in one place: with its voice, in a deletion or with a ghost.
UniqueInv ==
  /\ \A v, w \in Voice : ref[v].handle = ref[w].handle /\ v # w => ref[v].handle = 0
  /\ \A i, j \in 1..Len(deletionQ) :
       deletionQ[i].handle = deletionQ[j].handle /\ i # j => deletionQ[i].handle = 0
  /\ \A v \in Voice : \A cmd \in Queued(deletionQ) \cup Queued(ghostQ) :
       ref[v].handle = cmd.handle => ref[v].handle = 0
  /\ \A cmd \in Queued(deletionQ), ghost \in Queued(ghostQ) :
       cmd.handle = ghost.handle => cmd.handle = 0

\* Handles are those that CreateHandle() has returned.
GivenInv ==
  /\ \A v \in Voice : ref[v].handle <= handles
  /\ \A s \in Stream : strm[s].handle <= handles
  /\ \A cmd \in Queued(creationQ) \cup Queued(deletionQ) \cup Queued(ghostQ) :
       cmd.handle <= handles

\* Somebody still cares about the handle
Owned(h) == \/ \E v \in Voice : ref[v].handle = h
            \/ \E cmd \in Queued(deletionQ) \cup Queued(ghostQ) : cmd.handle = h
            \/ h \in lost \cup refused
            \/ resetting

\* No stream, and no order for one, is forgotten.
OwnedInv == /\ \A s \in Stream : strm[s].handle # 0 => Owned(strm[s].handle)
            /\ \A cmd \in Queued(creationQ) : Owned(cmd.handle)

\* UnusedStreams counts this thread's unused streams and those of the others.
CountInv ==
  unused = Cardinality({s \in Stream : strm[s].state = "unused"}) + OtherUnused

IInv == /\ TypeOK /\ VoiceInv /\ StreamInv /\ PlayedInv /\ PointedInv /\ CreationInv
        /\ ExportInv /\ ClaimInv /\ UniqueInv /\ GivenInv /\ OwnedInv /\ CountInv

\* It holds until a voice resets or kills a stream that it only points to.
StreamsInv == astray \/ IInv

-----------------------------------------------------------------------------
(* Queues and numbers *)

\* What a RingBuffer holds after write() ...
LEMMA QueuedAppend ==
  ASSUME NEW T, NEW q \in Seq(T), NEW cmd \in T
  PROVE  /\ Append(q, cmd) \in Seq(T)
         /\ Queued(Append(q, cmd)) = Queued(q) \cup {cmd}
<1>1. /\ Append(q, cmd) \in Seq(T) /\ Len(Append(q, cmd)) = Len(q) + 1 /\ Len(q) \in Nat
      /\ \A i \in 1..Len(q) : Append(q, cmd)[i] = q[i]
      /\ Append(q, cmd)[Len(q) + 1] = cmd
  OBVIOUS
<1>2. 1..Len(q) + 1 = 1..Len(q) \cup {Len(q) + 1}
  BY <1>1
<1>3. Queued(Append(q, cmd)) = {Append(q, cmd)[i] : i \in 1..Len(q)} \cup {cmd}
  BY <1>1, <1>2 DEF Queued
<1>4. {Append(q, cmd)[i] : i \in 1..Len(q)} = Queued(q)
  BY <1>1 DEF Queued
<1> QED
  BY <1>1, <1>3, <1>4

\* ... and after pop().
LEMMA QueuedTail ==
  ASSUME NEW T, NEW q \in Seq(T), q # <<>>
  PROVE  /\ Head(q) \in T /\ Tail(q) \in Seq(T)
         /\ Queued(q) = Queued(Tail(q)) \cup {Head(q)}
         /\ Len(Tail(q)) \in Nat /\ Len(q) = Len(Tail(q)) + 1
         /\ Head(q) = q[1]
         /\ \A i \in 1..Len(Tail(q)) : i + 1 \in 1..Len(q) /\ Tail(q)[i] = q[i + 1]
<1>1. /\ Head(q) \in T /\ Tail(q) \in Seq(T)
      /\ Len(Tail(q)) \in Nat /\ Len(q) = Len(Tail(q)) + 1
      /\ Head(q) = q[1]
      /\ \A i \in 1..Len(Tail(q)) : i + 1 \in 1..Len(q) /\ Tail(q)[i] = q[i + 1]
  OBVIOUS
<1>2. ASSUME NEW cmd \in Queued(q) PROVE cmd \in Queued(Tail(q)) \cup {Head(q)}
  <2>1. PICK i \in 1..Len(q) : cmd = q[i]
    BY DEF Queued
  <2>2. CASE i = 1
    BY <1>1, <2>1, <2>2
  <2>3. CASE i # 1
    <3>1. i - 1 \in 1..Len(Tail(q)) /\ Tail(q)[i - 1] = cmd
      BY <1>1, <2>1, <2>3
    <3> QED
      BY <3>1 DEF Queued
  <2> QED
    BY <2>2, <2>3
<1>3. ASSUME NEW cmd \in Queued(Tail(q)) \cup {Head(q)} PROVE cmd \in Queued(q)
  <2>1. CASE cmd = Head(q)
    <3>1. 1 \in 1..Len(q)
      BY <1>1
    <3> QED
      BY <1>1, <2>1, <3>1 DEF Queued
  <2>2. CASE cmd \in Queued(Tail(q))
    <3>1. PICK i \in 1..Len(Tail(q)) : cmd = Tail(q)[i]
      BY <2>2 DEF Queued
    <3> QED
      BY <1>1, <3>1 DEF Queued
  <2> QED
    BY <1>3, <2>1, <2>2
<1> QED
  BY <1>1, <1>2, <1>3

\* A RingBuffer after init()
LEMMA QueuedEmpty == \A T : <<>> \in Seq(T) /\ Queued(<<>>) = {} /\ Len(<<>>) = 0
BY DEF Queued

\* The elements of a queue are of its type.
LEMMA QueuedType ==
  ASSUME NEW T, NEW q \in Seq(T), NEW cmd \in Queued(q) PROVE cmd \in T
BY DEF Queued

\* There is a stream, and a finite number of them.
LEMMA StreamsFinite ==
  /\ IsFiniteSet(Stream) /\ MaxStreams \in Nat \ {0}
  /\ \A T \in SUBSET Stream :
       IsFiniteSet(T) /\ Cardinality(T) \in Nat /\ Cardinality(T) <= MaxStreams
<1>1. IsFiniteSet(Stream) /\ Stream # {}
  BY NumbersAssumption
<1>2. MaxStreams \in Nat
  BY <1>1, FS_CardinalityType DEF MaxStreams
<1>3. MaxStreams # 0
  BY <1>1, FS_EmptySet DEF MaxStreams
<1>4. ASSUME NEW T \in SUBSET Stream
      PROVE  IsFiniteSet(T) /\ Cardinality(T) \in Nat /\ Cardinality(T) <= MaxStreams
  BY <1>1, FS_Subset, FS_CardinalityType DEF MaxStreams
<1> QED
  BY <1>1, <1>2, <1>3, <1>4

\* CreateOrderID() returns the index of a slot, never "invalid order".
LEMMA CandidateType ==
  ASSUME NEW k \in 1..MaxStreams, orders \in OrderID PROVE Candidate(k) \in 1..MaxStreams
<1>1. \A a \in Nat, n \in Nat \ {0} : a % n \in 0..n - 1
  OBVIOUS
<1>2. orders + k - 1 \in Nat
  BY StreamsFinite DEF OrderID
<1>3. (orders + k - 1) % MaxStreams \in 0..MaxStreams - 1
  BY <1>1, <1>2, StreamsFinite
<1> QED
  BY <1>3, StreamsFinite DEF Candidate

\* The sets that types are made of do not change.
LEMMA SameSets ==
  /\ Handle' = Handle /\ OrderID' = OrderID /\ State' = State /\ Deletion' = Deletion
  /\ MaxStreams' = MaxStreams
BY DEF Handle, OrderID, State, Deletion, MaxStreams

-----------------------------------------------------------------------------
(* What several steps have in common *)

Order == [order : OrderID, handle : Handle, voice : Voice]

\* The parts of what the type invariant says about records
LEMMA Types ==
  ASSUME TypeOK
  PROVE  /\ \A v \in Voice : /\ phase[v] \in {"idle", "ram", "disk"}
                             /\ ref[v].order \in OrderID /\ ref[v].handle \in Handle
                             /\ ref[v].state \in State
                             /\ ref[v].stream \in Stream \cup {Nobody}
         /\ \A s \in Stream : /\ strm[s].state \in State /\ strm[s].handle \in Handle
                              /\ strm[s].voice \in Voice \cup {Nobody}
         /\ creationQ \in Seq(Order) /\ deletionQ \in Seq(Deletion)
         /\ ghostQ \in Seq(Deletion)
         /\ \A cmd \in Queued(creationQ) :
              cmd.order \in OrderID /\ cmd.handle \in Handle /\ cmd.voice \in Voice
         /\ \A cmd \in Queued(deletionQ) \cup Queued(ghostQ) :
              /\ cmd.order \in OrderID /\ cmd.handle \in Handle /\ cmd.notify \in BOOLEAN
              /\ cmd.stream \in Stream \cup {Nobody}
<1>1. creationQ \in Seq(Order) /\ deletionQ \in Seq(Deletion) /\ ghostQ \in Seq(Deletion)
  BY DEF TypeOK, Order
<1>2. \A cmd \in Queued(creationQ) : cmd \in Order
  BY <1>1, QueuedType
<1>3. \A cmd \in Queued(deletionQ) \cup Queued(ghostQ) : cmd \in Deletion
  BY <1>1, QueuedType
<1>4. \A v \in Voice : /\ phase[v] \in {"idle", "ram", "disk"}
                       /\ ref[v].order \in OrderID /\ ref[v].handle \in Handle
                       /\ ref[v].state \in State
                       /\ ref[v].stream \in Stream \cup {Nobody}
  BY DEF TypeOK
<1>5. \A s \in Stream : /\ strm[s].state \in State /\ strm[s].handle \in Handle
                        /\ strm[s].voice \in Voice \cup {Nobody}
  BY DEF TypeOK
<1> QED
  BY <1>1, <1>2, <1>3, <1>4, <1>5 DEF Order, Deletion

\* Claims that nobody makes any more need no stream.
LEMMA FewerClaims ==
  ASSUME ClaimInv, \A o \in OrderID, h \in Handle : Claim(o, h)' => Claim(o, h),
         UNCHANGED <<slot, strm, creationQ>>
  PROVE  ClaimInv'
<1>1. \A o \in OrderID, h \in Handle : Promised(o, h)' <=> Promised(o, h)
  BY DEF Promised
<1>2. Queued(creationQ)' = Queued(creationQ)
  OBVIOUS
<1> QED
  BY <1>1, <1>2, SameSets DEF ClaimInv

\* The loops of Main() move on without touching what the invariant is about.
LEMMA LoopStep ==
  ASSUME IInv, UNCHANGED <<voices, strm, slot, creationQ, deletionQ, ghostQ, unused, ids,
                           resetting, history>>,
         at' \in {"ghosts", "create", "delete", "refill"}, pass' \in Nat,
         read' \subseteq Stream
  PROVE  IInv'
<1>1. TypeOK'
  BY SameSets DEF IInv, TypeOK, voices, ids, history
<1>2. VoiceInv' /\ StreamInv' /\ PlayedInv' /\ PointedInv' /\ CreationInv' /\ ExportInv'
  BY DEF IInv, VoiceInv, StreamInv, PlayedInv, PointedInv, CreationInv, ExportInv, voices
<1>3. ClaimInv'
  <2>1. \A o \in OrderID, h \in Handle : Claim(o, h)' => Claim(o, h)
    BY DEF Claim, voices
  <2> QED
    BY <2>1, FewerClaims DEF IInv
<1>4. UniqueInv' /\ GivenInv' /\ CountInv'
  BY DEF IInv, UniqueInv, GivenInv, CountInv, voices, ids
<1>5. OwnedInv'
  <2>1. \A h : Owned(h) => Owned(h)'
    BY DEF Owned, voices, history
  <2> QED
    BY <2>1 DEF IInv, OwnedInv
<1> QED
  BY <1>1, <1>2, <1>3, <1>4, <1>5 DEF IInv

\* The invariant holds when the disk thread has been created.
LEMMA InitIInv == Init => IInv
<1> SUFFICES ASSUME Init PROVE IInv
  OBVIOUS
<1> USE DEF Init, NoRef, NoStream
<1>0. /\ Queued(creationQ) = {} /\ Queued(deletionQ) = {} /\ Queued(ghostQ) = {}
      /\ Len(creationQ) = 0 /\ Len(deletionQ) = 0
  BY QueuedEmpty
<1>1. TypeOK
  <2>1. /\ phase \in [Voice -> {"idle", "ram", "disk"}]
        /\ ref \in [Voice -> [order : OrderID, handle : Handle, state : State,
                              stream : Stream \cup {Nobody}]]
        /\ stray \in [Voice -> Ref]
    BY StreamsFinite, NumbersAssumption DEF OrderID, Handle, State
  <2>2. strm \in [Stream -> [state : State, handle : Handle, voice : Voice \cup {Nobody}]]
    BY NumbersAssumption DEF Handle, State
  <2>3. slot \in [1..MaxStreams -> Stream \cup {Free, Reserved}]
    OBVIOUS
  <2>4. /\ creationQ \in Seq([order : OrderID, handle : Handle, voice : Voice])
        /\ deletionQ \in Seq(Deletion) /\ ghostQ \in Seq(Deletion)
    BY QueuedEmpty
  <2>5. unused \in 0..MaxStreams + OtherUnused /\ handles \in Handle /\ orders \in OrderID
    BY StreamsFinite, NumbersAssumption DEF OrderID, Handle
  <2>6. /\ at \in {"ghosts", "create", "delete", "refill"}
        /\ pass \in Nat /\ read \subseteq Stream
        /\ resetting \in BOOLEAN
        /\ pending \cup missed \cup lost \cup refused \subseteq Handle
        /\ astray \in BOOLEAN
    OBVIOUS
  <2> QED
    BY <2>1, <2>2, <2>3, <2>4, <2>5, <2>6 DEF TypeOK
<1>2. VoiceInv /\ StreamInv /\ PlayedInv
  BY DEF VoiceInv, StreamInv, PlayedInv
<1>3. PointedInv /\ CreationInv /\ ExportInv
  BY <1>0 DEF PointedInv, CreationInv, ExportInv
<1>4. ClaimInv
  BY <1>0 DEF ClaimInv, Claim
<1>5. UniqueInv /\ GivenInv /\ OwnedInv
  BY <1>0 DEF UniqueInv, GivenInv, OwnedInv
<1>6. CountInv
  <2>1. {s \in Stream : strm[s].state = "unused"} = Stream
    OBVIOUS
  <2> QED
    BY <2>1 DEF CountInv, MaxStreams
<1> QED
  BY <1>1, <1>2, <1>3, <1>4, <1>5, <1>6 DEF IInv

-----------------------------------------------------------------------------
(* The audio thread *)

\* KillImmediately(): the handle of the voice moves on to a deletion, and with it the
\* claim on its slot or its stream.
LEMMA KillStep ==
  ASSUME IInv, NEW v \in Voice, NEW notify \in BOOLEAN, KillImmediately(v, notify), ~ astray',
         UNCHANGED <<strm, slot, creationQ, ghostQ, disk, unused, handles, resetting,
                     missed, lost>>,
         orders' \in OrderID
  PROVE  IInv'
<1> DEFINE cmd == [stream |-> ref[v].stream, handle |-> ref[v].handle,
                   order |-> ref[v].order, notify |-> notify]
           Given == Queued(deletionQ')
<1>1. /\ \A w \in Voice : w # v => phase'[w] = phase[w] /\ ref'[w] = ref[w]
      /\ phase'[v] = "idle" /\ ref'[v] = NoRef
      /\ phase' \in [Voice -> {"idle", "ram", "disk"}]
      /\ \A w \in Voice : stray'[w] # NoRef => w # v /\ stray'[w] = stray[w]
  BY DEF KillImmediately, IInv, TypeOK
<1>2. cmd \in Deletion
  BY Types DEF IInv, Deletion
<1>3. \/ /\ deletionQ' = deletionQ
         /\ \/ refused' = refused /\ ref[v].handle = 0
            \/ refused' = refused \cup {ref[v].handle}
      \/ /\ deletionQ' = Append(deletionQ, cmd)
         /\ refused' = refused
  <2>0. RefOf(v).state = ref[v].state
    BY DEF RefOf, IInv, TypeOK
  <2>1. CASE ref[v].state = "unused"
    <3>1. phase[v] = "idle"
      BY <2>1 DEF IInv, VoiceInv
    <3>2. deletionQ' = deletionQ /\ refused' = refused
      BY <2>0, <2>1 DEF KillImmediately
    <3> QED
      BY <3>1, <3>2 DEF IInv, VoiceInv
  <2>2. CASE ref[v].state # "unused"
    <3>1. RefOf(v) = ref[v]
      BY <2>2 DEF KillImmediately, RefOf
    <3> QED
      BY <2>2, <3>1, Zenon DEF KillImmediately
  <2> QED
    BY <2>1, <2>2
<1>4. /\ deletionQ' \in Seq(Deletion)
      /\ Queued(deletionQ) \subseteq Given /\ Given \subseteq Queued(deletionQ) \cup {cmd}
  <2>0. deletionQ \in Seq(Deletion)
    BY Types DEF IInv
  <2>1. CASE deletionQ' = deletionQ
    BY <2>0, <2>1
  <2>2. CASE deletionQ' = Append(deletionQ, cmd)
    <3> HIDE DEF cmd
    <3>1. /\ Append(deletionQ, cmd) \in Seq(Deletion)
          /\ Queued(Append(deletionQ, cmd)) = Queued(deletionQ) \cup {cmd}
      BY <1>2, <2>0, QueuedAppend
    <3> QED
      BY <2>2, <3>1
  <2> QED
    BY <1>3, <2>1, <2>2
<1>5. /\ cmd.stream = ref[v].stream /\ cmd.handle = ref[v].handle
      /\ cmd.order = ref[v].order
  OBVIOUS
<1>6. /\ Queued(creationQ)' = Queued(creationQ) /\ Queued(ghostQ)' = Queued(ghostQ)
      /\ Queued(deletionQ)' = Given
  OBVIOUS
<1>7. NoRef.order = 0 /\ NoRef.handle = 0 /\ NoRef.stream = Nobody /\ NoRef.state = "unused"
  BY DEF NoRef
<1> HIDE DEF cmd, Given
<1>8. TypeOK'
  <2>1. ref' \in [Voice -> [order : OrderID, handle : Handle, state : State,
                            stream : Stream \cup {Nobody}]]
    <3>1. NoRef \in [order : OrderID, handle : Handle, state : State,
                     stream : Stream \cup {Nobody}]
      BY StreamsFinite, NumbersAssumption DEF NoRef, OrderID, Handle, State
    <3> QED
      BY <3>1 DEF IInv, TypeOK, KillImmediately
  <2>2. refused' \subseteq Handle
    BY <1>3, Types DEF IInv, TypeOK
  <2>3. pending' \subseteq Handle
    <3>1. RefOf(v).handle \in Handle
      BY DEF RefOf, IInv, TypeOK
    <3> QED
      BY <3>1 DEF IInv, TypeOK, KillImmediately
  <2>4. stray' \in [Voice -> Ref]
    <3>1. NoRef \in Ref
      BY StreamsFinite, NumbersAssumption DEF NoRef, OrderID, Handle, State
    <3> QED
      BY <3>1 DEF IInv, TypeOK, KillImmediately
  <2>5. astray' \in BOOLEAN
    <3>1. astray' = (astray \/ (Stray(v) /\ ref[v].state # "unused"))
      BY Zenon DEF KillImmediately
    <3> QED
      BY <3>1, Zenon
  <2> QED
    BY <1>1, <1>4, <2>1, <2>2, <2>3, <2>4, <2>5, SameSets DEF IInv, TypeOK, disk
<1>9. VoiceInv'
  BY <1>1, <1>7 DEF IInv, VoiceInv
<1>10. StreamInv'
  BY DEF IInv, StreamInv
<1>11. PlayedInv'
  BY <1>1, <1>7 DEF IInv, PlayedInv
<1>12. PointedInv'
  <2>1. /\ cmd.order = 0 <=> cmd.handle = 0
        /\ cmd.stream # Nobody => cmd.order # 0
    BY <1>5, Types DEF IInv, VoiceInv
  <2>2. cmd.stream # Nobody => strm[cmd.stream].handle = cmd.handle
    BY <1>5 DEF IInv, PlayedInv
  <2> QED
    BY <1>4, <1>6, <2>1, <2>2 DEF IInv, PointedInv
<1>13. CreationInv'
  BY DEF IInv, CreationInv
<1>14. ExportInv'
  BY <1>1, <1>6, <1>7 DEF IInv, ExportInv
<1>15. ClaimInv'
  <2>1. ASSUME NEW o \in OrderID, NEW h \in Handle, Claim(o, h)' PROVE Claim(o, h)
    <3>1. CASE \E w \in Voice : /\ phase'[w] = "ram" /\ ref'[w].order = o
                                /\ ref'[w].handle = h
      BY <1>1, <3>1 DEF Claim
    <3>2. CASE \E c \in Given : c.stream = Nobody /\ c.order # 0 /\ c.order = o /\ c.handle = h
      <4>1. PICK c \in Given : c.stream = Nobody /\ c.order # 0 /\ c.order = o /\ c.handle = h
        BY <3>2
      <4>2. CASE c \in Queued(deletionQ)
        BY <4>1, <4>2 DEF Claim
      <4>3. CASE c = cmd
        <5>1. ref[v].stream = Nobody /\ ref[v].order # 0
          BY <1>5, <4>1, <4>3
        <5>2. phase[v] = "ram"
          BY <5>1, Types DEF IInv, VoiceInv
        <5> QED
          BY <1>5, <4>1, <4>3, <5>2 DEF Claim
      <4> QED
        BY <1>4, <4>2, <4>3
    <3> QED
      BY <1>6, <2>1, <3>1, <3>2 DEF Claim
  <2> QED
    BY <2>1, FewerClaims DEF IInv
<1>16. UniqueInv'
  <2>1. \A u, w \in Voice : ref'[u].handle = ref'[w].handle /\ u # w => ref'[u].handle = 0
    BY <1>1, <1>7 DEF IInv, UniqueInv
  <2>2. \A i, j \in 1..Len(deletionQ') :
          deletionQ'[i].handle = deletionQ'[j].handle /\ i # j => deletionQ'[i].handle = 0
    <3>1. CASE deletionQ' = deletionQ
      BY <3>1 DEF IInv, UniqueInv
    <3>2. CASE deletionQ' = Append(deletionQ, cmd)
      <4>1. /\ Len(deletionQ) \in Nat /\ Len(deletionQ') = Len(deletionQ) + 1
            /\ \A i \in 1..Len(deletionQ) : deletionQ'[i] = deletionQ[i]
            /\ deletionQ'[Len(deletionQ) + 1] = cmd
        BY <1>2, <3>2, Types DEF IInv
      <4>2. \A i \in 1..Len(deletionQ) : deletionQ[i] \in Queued(deletionQ)
        BY DEF Queued
      <4>3. \A i \in 1..Len(deletionQ) : deletionQ[i].handle = cmd.handle => cmd.handle = 0
        BY <1>5, <4>2 DEF IInv, UniqueInv
      <4>4. \A i \in 1..Len(deletionQ') : i \in 1..Len(deletionQ) \/ i = Len(deletionQ) + 1
        BY <4>1
      <4> QED
        BY <4>1, <4>3, <4>4 DEF IInv, UniqueInv
    <3> QED
      BY <1>3, <3>1, <3>2
  <2>3. \A w \in Voice : \A c \in Given \cup Queued(ghostQ) :
          ref'[w].handle = c.handle => ref'[w].handle = 0
    BY <1>1, <1>4, <1>5, <1>7 DEF IInv, UniqueInv
  <2>4. \A c \in Given, ghost \in Queued(ghostQ) : c.handle = ghost.handle => c.handle = 0
    BY <1>4, <1>5 DEF IInv, UniqueInv
  <2> QED
    BY <1>6, <2>1, <2>2, <2>3, <2>4 DEF UniqueInv
<1>17. GivenInv'
  <2>1. handles \in Nat
    BY NumbersAssumption DEF IInv, TypeOK, Handle
  <2> QED
    BY <1>1, <1>4, <1>5, <1>6, <1>7, <2>1 DEF IInv, GivenInv
<1>18. OwnedInv'
  <2>1. ASSUME NEW h, h # 0, Owned(h) PROVE Owned(h)'
    <3>1. CASE \E w \in Voice : ref[w].handle = h
      <4>1. CASE ref[v].handle = h
        <5>1. CASE deletionQ' = Append(deletionQ, cmd)
          <6>1. cmd \in Given
            BY <1>2, <5>1, QueuedAppend, Types DEF IInv, Given
          <6> QED
            BY <1>5, <1>6, <4>1, <6>1 DEF Owned
        <5>2. CASE h \in refused'
          BY <5>2 DEF Owned
        <5> QED
          BY <1>3, <2>1, <4>1, <5>1, <5>2
      <4>2. CASE ref[v].handle # h
        BY <1>1, <3>1, <4>2 DEF Owned
      <4> QED
        BY <4>1, <4>2
    <3>2. CASE \E c \in Queued(deletionQ) \cup Queued(ghostQ) : c.handle = h
      BY <1>4, <1>6, <3>2 DEF Owned
    <3>3. CASE h \in lost \cup refused
      BY <1>3, <3>3 DEF Owned
    <3>4. CASE resetting
      BY <3>4 DEF Owned
    <3> QED
      BY <2>1, <3>1, <3>2, <3>3, <3>4 DEF Owned
  <2>2. \A c \in Queued(creationQ) : c.handle # 0
    BY DEF IInv, CreationInv
  <2> QED
    BY <1>6, <2>1, <2>2 DEF IInv, OwnedInv
<1>19. CountInv'
  BY DEF IInv, CountInv
<1> QED
  BY <1>8, <1>9, <1>10, <1>11, <1>12, <1>13, <1>14, <1>15, <1>16, <1>17, <1>18, <1>19
  DEF IInv

\* OrderNewStream(): the new order has a slot that nobody has claims on, and a handle
\* that nobody has.
LEMMA TriggerStep ==
  ASSUME IInv, NEW v \in Voice, Trigger(v) PROVE IInv'
<1>1. PICK k \in 1..MaxStreams :
        /\ slot[Candidate(k)] = Free
        /\ orders' = Candidate(k)
        /\ slot' = [slot EXCEPT ![Candidate(k)] = Reserved]
        /\ creationQ' = Append(creationQ, [order |-> Candidate(k),
                                           handle |-> handles + 1, voice |-> v])
        /\ ref' = [ref EXCEPT ![v] = [order |-> Candidate(k), handle |-> handles + 1,
                                      state |-> "active", stream |-> Nobody]]
  BY Zenon DEF Trigger, IsFree
<1>2. PICK o \in 1..MaxStreams : o = Candidate(k) /\ o \in OrderID /\ o # 0
  BY CandidateType, StreamsFinite DEF IInv, TypeOK, OrderID
<1>3. PICK h \in Handle :
        h = handles + 1 /\ h \in Nat /\ h # 0 /\ handles' = h /\ handles \in Nat
  BY NumbersAssumption DEF Trigger, IInv, TypeOK, Handle
<1> DEFINE cmd == [order |-> o, handle |-> h, voice |-> v]
<1>4. cmd \in Order /\ cmd.order = o /\ cmd.handle = h /\ cmd.voice = v
  BY <1>2, <1>3 DEF Order
<1>5. /\ phase[v] = "idle" /\ ~ resetting
      /\ phase' = [phase EXCEPT ![v] = "ram"]
      /\ ~ Stray(v)
      /\ UNCHANGED <<stray, strm, deletionQ, ghostQ, disk, unused, resetting, history>>
  BY DEF Trigger
<1>6. /\ \A w \in Voice : w # v => phase'[w] = phase[w] /\ ref'[w] = ref[w]
      /\ phase'[v] = "ram" /\ ref'[v].order = o /\ ref'[v].handle = h
      /\ ref'[v].state = "active" /\ ref'[v].stream = Nobody
  BY <1>1, <1>2, <1>3, <1>5 DEF IInv, TypeOK
<1>7. /\ slot[o] = Free /\ slot'[o] = Reserved
      /\ \A i \in 1..MaxStreams : i # o => slot'[i] = slot[i]
      /\ slot' \in [1..MaxStreams -> Stream \cup {Free, Reserved}]
  BY <1>1, <1>2 DEF IInv, TypeOK
<1> HIDE DEF cmd
<1>8. /\ creationQ' \in Seq(Order) /\ Queued(creationQ)' = Queued(creationQ) \cup {cmd}
      /\ creationQ' = Append(creationQ, cmd)
  <2>1. creationQ' = Append(creationQ, cmd)
    BY <1>1, <1>2, <1>3 DEF cmd
  <2>2. creationQ \in Seq(Order)
    BY Types DEF IInv
  <2> QED
    BY <1>4, <2>1, <2>2, QueuedAppend
<1>9. /\ Queued(deletionQ)' = Queued(deletionQ) /\ Queued(ghostQ)' = Queued(ghostQ)
      /\ strm' = strm /\ deletionQ' = deletionQ /\ ghostQ' = ghostQ
  BY <1>5
<1>10. /\ \A w \in Voice : ref[w].handle # h
       /\ \A s \in Stream : strm[s].handle # h
       /\ \A c \in Queued(creationQ) \cup Queued(deletionQ) \cup Queued(ghostQ) :
            c.handle # h /\ c.handle <= h
       /\ \A w \in Voice : ref[w].handle <= h
       /\ \A s \in Stream : strm[s].handle <= h
  BY <1>3, Types DEF IInv, GivenInv, Handle
<1>11. TypeOK'
  <2>1. ref' \in [Voice -> [order : OrderID, handle : Handle, state : State,
                            stream : Stream \cup {Nobody}]]
    <3>1. [order |-> o, handle |-> h, state |-> "active", stream |-> Nobody] \in
            [order : OrderID, handle : Handle, state : State, stream : Stream \cup {Nobody}]
      BY <1>2, <1>3 DEF State
    <3> QED
      BY <1>1, <1>2, <1>3, <3>1 DEF IInv, TypeOK
  <2>2. phase' \in [Voice -> {"idle", "ram", "disk"}]
    BY <1>5 DEF IInv, TypeOK
  <2>3. creationQ' \in Seq([order : OrderID, handle : Handle, voice : Voice])
    BY <1>8 DEF Order
  <2>4. orders' \in OrderID
    BY <1>1, <1>2
  <2> QED
    BY <1>3, <1>5, <1>7, <2>1, <2>2, <2>3, <2>4, SameSets DEF IInv, TypeOK, disk, history
<1>12. VoiceInv'
  BY <1>2, <1>3, <1>5, <1>6 DEF IInv, VoiceInv, Stray
<1>13. StreamInv'
  BY <1>9 DEF IInv, StreamInv
<1>14. PlayedInv'
  BY <1>6, <1>9 DEF IInv, PlayedInv
<1>15. PointedInv'
  BY <1>9 DEF IInv, PointedInv
<1>16. CreationInv'
  <2>1. Free # Reserved
    BY ValuesAssumption
  <2>2. \A c \in Queued(creationQ) :
          c.order # o /\ c.order # 0 /\ c.handle # 0 /\ slot'[c.order] = Reserved
    <3>1. ASSUME NEW c \in Queued(creationQ)
          PROVE  /\ c.order \in 1..MaxStreams /\ c.handle # 0
                 /\ slot[c.order] = Reserved
      BY Types, StreamsFinite DEF IInv, CreationInv, OrderID
    <3>2. \A c \in Queued(creationQ) : c.order # o
      BY <1>7, <2>1, <3>1
    <3> QED
      BY <1>7, <3>1, <3>2, StreamsFinite
  <2>3. \A c \in Queued(creationQ)' :
          /\ c.order # 0 /\ c.handle # 0 /\ slot'[c.order] = Reserved
          /\ \A s \in Stream : strm'[s].handle # c.handle
    BY <1>2, <1>3, <1>4, <1>7, <1>8, <1>9, <1>10, <2>2 DEF IInv, CreationInv
  <2>4. /\ Len(creationQ) \in Nat /\ Len(creationQ') = Len(creationQ) + 1
        /\ \A i \in 1..Len(creationQ) : creationQ'[i] = creationQ[i]
        /\ creationQ'[Len(creationQ) + 1] = cmd
    BY <1>4, <1>8, Types DEF IInv
  <2>5. \A i \in 1..Len(creationQ) : creationQ[i].order # o /\ creationQ[i].handle # h
    BY <1>10, <2>2 DEF Queued
  <2>6. \A i \in 1..Len(creationQ') : i \in 1..Len(creationQ) \/ i = Len(creationQ) + 1
    BY <2>4
  <2>7. \A i, j \in 1..Len(creationQ') :
          \/ i = j
          \/ /\ creationQ'[i].order # creationQ'[j].order
             /\ creationQ'[i].handle # creationQ'[j].handle
    BY <1>4, <2>4, <2>5, <2>6 DEF IInv, CreationInv
  <2> QED
    BY <2>3, <2>7 DEF CreationInv
<1>17. ExportInv'
  BY <1>4, <1>6, <1>8, <1>9, <1>10 DEF IInv, ExportInv
<1>18. ClaimInv'
  <2>1. ASSUME NEW p \in OrderID, NEW g \in Handle, Claim(p, g)'
        PROVE  Claim(p, g) \/ (p = o /\ g = h)
    BY <1>6, <1>9, <2>1 DEF Claim
  <2>2. \A g \in Handle : ~ Claim(o, g)
    <3>1. \A g \in Handle : ~ Promised(o, g)
      BY <1>7, ValuesAssumption DEF Promised
    <3> QED
      BY <1>2, <3>1 DEF IInv, ClaimInv
  <2>3. ASSUME NEW p \in OrderID, NEW g \in Handle, Claim(p, g) PROVE p # 0
    BY <2>3 DEF Claim, IInv, VoiceInv
  <2>4. ASSUME NEW p \in OrderID, NEW g \in Handle, Claim(p, g), Promised(p, g)
        PROVE  Promised(p, g)'
    <3>1. p # o /\ p \in 1..MaxStreams
      BY <2>2, <2>3, <2>4, StreamsFinite DEF OrderID
    <3> QED
      BY <1>7, <1>9, <2>4, <3>1 DEF Promised
  <2>5. \A g : Promised(o, g)'
    BY <1>7 DEF Promised
  <2>6. \A c \in Queued(creationQ) : c.order # o
    <3>1. \A c \in Queued(creationQ) : slot[c.order] = Reserved
      BY DEF IInv, CreationInv
    <3> QED
      BY <1>7, <3>1, ValuesAssumption
  <2>7. \A p \in OrderID, g \in Handle : Claim(p, g)' =>
          /\ Promised(p, g)'
          /\ \A f \in Handle : Claim(p, f)' => f = g
          /\ \A c \in Queued(creationQ)' : c.order = p => c.handle = g
    BY <1>4, <1>8, <2>1, <2>2, <2>4, <2>5, <2>6 DEF IInv, ClaimInv
  <2> QED
    BY <2>7, SameSets DEF ClaimInv
<1>19. UniqueInv'
  <2>1. \A u, w \in Voice : ref'[u].handle = ref'[w].handle /\ u # w => ref'[u].handle = 0
    BY <1>6, <1>10 DEF IInv, UniqueInv
  <2>2. \A u \in Voice : \A c \in Queued(deletionQ) \cup Queued(ghostQ) :
          ref'[u].handle = c.handle => ref'[u].handle = 0
    BY <1>6, <1>10 DEF IInv, UniqueInv
  <2> QED
    BY <1>9, <2>1, <2>2 DEF IInv, UniqueInv
<1>20. GivenInv'
  BY <1>3, <1>4, <1>6, <1>8, <1>9, <1>10 DEF GivenInv
<1>21. OwnedInv'
  <2>1. ASSUME NEW g, g # 0, Owned(g) PROVE Owned(g)'
    <3>1. ref[v].handle = 0
      BY <1>5 DEF IInv, VoiceInv
    <3> QED
      BY <1>5, <1>6, <1>9, <2>1, <3>1 DEF Owned, history
  <2>2. Owned(h)'
    BY <1>6 DEF Owned
  <2>3. \A c \in Queued(creationQ) : c.handle # 0
    BY DEF IInv, CreationInv
  <2> QED
    BY <1>4, <1>8, <1>9, <2>1, <2>2, <2>3 DEF IInv, OwnedInv
<1>22. CountInv'
  BY <1>5 DEF IInv, CountInv
<1> QED
  BY <1>11, <1>12, <1>13, <1>14, <1>15, <1>16, <1>17, <1>18, <1>19, <1>20, <1>21, <1>22
  DEF IInv

\* AskForCreatedStream(): the voice finds the stream of its order, and gives up its
\* claim on the slot.
LEMMA PickUpStep ==
  ASSUME IInv, NEW v \in Voice, PickUp(v) PROVE IInv'
<1> DEFINE o == ref[v].order
           s == slot[ref[v].order]
<1>1. /\ phase[v] = "ram" /\ s \in Stream
      /\ ref' = [ref EXCEPT ![v].stream = s]
      /\ slot' = [slot EXCEPT ![o] = Free]
      /\ phase' = [phase EXCEPT ![v] = "disk"]
      /\ UNCHANGED <<stray, strm, creationQ, deletionQ, ghostQ, disk, unused, ids,
                     resetting, history>>
  BY DEF PickUp
<1>2. o \in 1..MaxStreams /\ o \in OrderID /\ ref[v].handle \in Handle
      /\ ref[v].handle # 0 /\ ref[v].state # "unused"
  BY <1>1, Types, StreamsFinite DEF IInv, VoiceInv, OrderID
<1>3. Claim(o, ref[v].handle)
  BY <1>1 DEF Claim
<1>4. strm[s].handle = ref[v].handle
  BY <1>1, <1>2, <1>3, ValuesAssumption DEF IInv, ClaimInv, Promised
<1> HIDE DEF o, s
<1>5. /\ \A w \in Voice : w # v => phase'[w] = phase[w] /\ ref'[w] = ref[w]
      /\ phase'[v] = "disk" /\ ref'[v].order = ref[v].order
      /\ ref'[v].handle = ref[v].handle /\ ref'[v].state = ref[v].state
      /\ ref'[v].stream = s
  BY <1>1 DEF IInv, TypeOK
<1>6. /\ slot'[o] = Free /\ \A i \in 1..MaxStreams : i # o => slot'[i] = slot[i]
  BY <1>1, <1>2 DEF IInv, TypeOK
<1>7. /\ Queued(creationQ)' = Queued(creationQ) /\ Queued(deletionQ)' = Queued(deletionQ)
      /\ Queued(ghostQ)' = Queued(ghostQ)
      /\ strm' = strm /\ creationQ' = creationQ /\ deletionQ' = deletionQ
      /\ ghostQ' = ghostQ /\ resetting' = resetting /\ handles' = handles
  BY <1>1 DEF ids
<1>8. s # Nobody /\ s # Reserved
  BY <1>1, ValuesAssumption
<1>9. TypeOK'
  <2>1. ref' \in [Voice -> [order : OrderID, handle : Handle, state : State,
                            stream : Stream \cup {Nobody}]]
    <3>0. ref[v] \in [order : OrderID, handle : Handle, state : State,
                      stream : Stream \cup {Nobody}]
      BY DEF IInv, TypeOK
    <3>1. [ref[v] EXCEPT !.stream = s] \in
            [order : OrderID, handle : Handle, state : State, stream : Stream \cup {Nobody}]
      BY <1>1, <3>0
    <3>2. ref' = [ref EXCEPT ![v] = [ref[v] EXCEPT !.stream = s]]
      BY <1>1
    <3> QED
      BY <3>1, <3>2 DEF IInv, TypeOK
  <2>2. slot' \in [1..MaxStreams -> Stream \cup {Free, Reserved}]
    BY <1>1 DEF IInv, TypeOK
  <2>3. phase' \in [Voice -> {"idle", "ram", "disk"}]
    BY <1>1 DEF IInv, TypeOK
  <2> QED
    BY <1>1, <2>1, <2>2, <2>3, SameSets DEF IInv, TypeOK, disk, ids, history
<1>10. VoiceInv'
  BY <1>1, <1>5, <1>7, <1>8 DEF IInv, VoiceInv
<1>11. StreamInv' /\ PointedInv'
  BY <1>7 DEF IInv, StreamInv, PointedInv
<1>12. PlayedInv'
  BY <1>4, <1>5, <1>7 DEF IInv, PlayedInv
<1>13. CreationInv'
  <2>1. \A c \in Queued(creationQ) : c.order # o
    BY <1>8 DEF IInv, CreationInv, s, o
  <2>2. \A c \in Queued(creationQ) : slot'[c.order] = Reserved
    BY <1>6, <2>1, Types, StreamsFinite DEF IInv, CreationInv, OrderID
  <2> QED
    BY <1>7, <2>2 DEF IInv, CreationInv
<1>14. ExportInv'
  BY <1>5, <1>7 DEF IInv, ExportInv
<1>15. ClaimInv'
  <2>1. ASSUME NEW p \in OrderID, NEW h \in Handle, Claim(p, h)' PROVE Claim(p, h) /\ p # o
    <3>1. Claim(p, h)
      BY <1>5, <1>7, <2>1 DEF Claim
    <3>2. ASSUME p = o PROVE FALSE
      <4>1. h = ref[v].handle
        BY <1>2, <1>3, <3>1, <3>2 DEF IInv, ClaimInv
      <4>2. ~ \E w \in Voice : phase'[w] = "ram" /\ ref'[w].order = p /\ ref'[w].handle = h
        BY <1>2, <1>5, <4>1 DEF IInv, UniqueInv
      <4>3. ~ \E c \in Queued(deletionQ) : c.handle = h
        BY <1>2, <4>1 DEF IInv, UniqueInv
      <4> QED
        BY <1>7, <2>1, <4>2, <4>3 DEF Claim
    <3> QED
      BY <3>1, <3>2
  <2>2. ASSUME NEW p \in OrderID, NEW h \in Handle, Claim(p, h), p # o, Promised(p, h)
        PROVE  Promised(p, h)'
    <3>1. p # 0
      BY <2>2 DEF Claim, IInv, VoiceInv
    <3>2. p \in 1..MaxStreams
      BY <3>1, StreamsFinite DEF OrderID
    <3> QED
      BY <1>6, <1>7, <2>2, <3>2 DEF Promised
  <2>3. \A p \in OrderID, g \in Handle : Claim(p, g)' =>
          /\ Promised(p, g)'
          /\ \A f \in Handle : Claim(p, f)' => f = g
          /\ \A c \in Queued(creationQ)' : c.order = p => c.handle = g
    BY <1>7, <2>1, <2>2 DEF IInv, ClaimInv
  <2> QED
    BY <2>3, SameSets DEF ClaimInv
<1>16. UniqueInv' /\ GivenInv'
  BY <1>5, <1>7 DEF IInv, UniqueInv, GivenInv
<1>17. OwnedInv'
  <2>1. \A h : Owned(h) => Owned(h)'
    BY <1>1, <1>5, <1>7 DEF Owned, history
  <2> QED
    BY <1>7, <2>1 DEF IInv, OwnedInv
<1>18. CountInv'
  BY <1>1 DEF IInv, CountInv
<1> QED
  BY <1>9, <1>10, <1>11, <1>12, <1>13, <1>14, <1>15, <1>16, <1>17, <1>18 DEF IInv

\* Kill() or Reset() of a stream: it has no handle any more, and is counted as unused.
LEMMA KillStream ==
  ASSUME IInv, NEW s \in Stream, Kill(s)
  PROVE  /\ strm' \in [Stream -> [state : State, handle : Handle, voice : Voice \cup {Nobody}]]
         /\ \A t \in Stream : t # s => strm'[t] = strm[t]
         /\ strm'[s].handle = 0 /\ strm'[s].state = "unused"
         /\ StreamInv'
         /\ unused' \in 0..MaxStreams + OtherUnused
         /\ CountInv'
<1>1. NoStream \in [state : State, handle : Handle, voice : Voice \cup {Nobody}]
  BY NumbersAssumption DEF NoStream, State, Handle
<1>2. /\ strm' = [strm EXCEPT ![s] = NoStream]
      /\ strm \in [Stream -> [state : State, handle : Handle, voice : Voice \cup {Nobody}]]
  BY DEF Kill, IInv, TypeOK
<1>3. strm' \in [Stream -> [state : State, handle : Handle, voice : Voice \cup {Nobody}]]
  BY <1>1, <1>2
<1>4. /\ \A t \in Stream : t # s => strm'[t] = strm[t]
      /\ strm'[s].handle = 0 /\ strm'[s].state = "unused"
  BY <1>2 DEF NoStream
<1>5. StreamInv'
  BY <1>4 DEF IInv, StreamInv
<1> DEFINE U == {t \in Stream : strm[t].state = "unused"}
           V == {t \in Stream : strm'[t].state = "unused"}
<1>6. V = U \cup {s}
  BY <1>4
<1>7. U \in SUBSET Stream /\ V \in SUBSET Stream /\ (s \in U <=> strm[s].state = "unused")
  OBVIOUS
<1>8. /\ unused = Cardinality(U) + OtherUnused
      /\ unused' = unused + (IF strm[s].state = "unused" THEN 0 ELSE 1)
  BY DEF IInv, CountInv, Kill, Freed
<1> HIDE DEF U, V
<1>9. /\ IsFiniteSet(U) /\ Cardinality(U) \in Nat
      /\ Cardinality(V) \in Nat /\ Cardinality(V) <= MaxStreams
  BY <1>7, StreamsFinite
<1>10. Cardinality(V) = IF s \in U THEN Cardinality(U) ELSE Cardinality(U) + 1
  BY <1>6, <1>9, FS_AddElement
<1>11. unused' = Cardinality(V) + OtherUnused
  BY <1>7, <1>8, <1>9, <1>10, NumbersAssumption
<1>12. unused' \in 0..MaxStreams + OtherUnused
  BY <1>9, <1>11, NumbersAssumption, StreamsFinite
<1>13. CountInv'
  BY <1>11 DEF CountInv, V
<1> QED
  BY <1>3, <1>4, <1>5, <1>12, <1>13

\* IncrementReadPos(): the voice that has read its stream to the end has nothing more to
\* do with it.
LEMMA ReadToEndStep ==
  ASSUME IInv, NEW v \in Voice, ReadToEnd(v) PROVE IInv'
<1> DEFINE s == ref[v].stream
           written == WriteState(ref, strm[s].voice, "unused")
<1>1. /\ phase[v] = "disk"
      /\ strm[s].state = "end"
      /\ strm' = [strm EXCEPT ![s] = NoStream]
      /\ unused' = unused + 1
      /\ stray' = [stray EXCEPT ![v] = ref[v]]
      /\ UNCHANGED <<slot, creationQ, deletionQ, ghostQ, disk, ids, resetting, history>>
  BY DEF ReadToEnd
<1>2. /\ ref' = [written EXCEPT ![v] = NoRef]
      /\ phase' = [phase EXCEPT ![v] = "idle"]
  BY Zenon DEF ReadToEnd
<1>3. s \in Stream /\ strm[s].handle = ref[v].handle /\ ref[v].handle # 0
  BY <1>1, Types DEF IInv, VoiceInv, PlayedInv
<1>4. strm[s].voice = v
  BY <1>3 DEF IInv, ExportInv
<1>5. ref' = [ref EXCEPT ![v] = NoRef]
  <2>1. v # Nobody
    BY ValuesAssumption
  <2>2. written = [ref EXCEPT ![v].state = "unused"]
    BY <1>4, <2>1 DEF WriteState
  <2> HIDE DEF written
  <2>3. ref \in [Voice -> [order : OrderID, handle : Handle, state : State,
                           stream : Stream \cup {Nobody}]]
    BY DEF IInv, TypeOK
  <2> QED
    BY <1>2, <2>2, <2>3
<1>6. PICK t \in Stream : t = s
  BY <1>3
<1> HIDE DEF s, written
<1>7. Kill(t)
  <2>1. Freed(t) = 1
    BY <1>1, <1>6 DEF Freed
  <2> QED
    BY <1>1, <1>6, <2>1 DEF Kill
<1>8. /\ strm' \in [Stream -> [state : State, handle : Handle, voice : Voice \cup {Nobody}]]
      /\ \A r \in Stream : r # t => strm'[r] = strm[r]
      /\ strm'[t].handle = 0
      /\ StreamInv'
      /\ unused' \in 0..MaxStreams + OtherUnused
      /\ CountInv'
  BY <1>7, KillStream
<1>9. NoRef.order = 0 /\ NoRef.handle = 0 /\ NoRef.stream = Nobody /\ NoRef.state = "unused"
  BY DEF NoRef
<1>10. /\ \A w \in Voice : w # v => phase'[w] = phase[w] /\ ref'[w] = ref[w]
       /\ phase'[v] = "idle" /\ ref'[v] = NoRef
       /\ phase' \in [Voice -> {"idle", "ram", "disk"}]
  BY <1>2, <1>5 DEF IInv, TypeOK
<1>11. /\ Queued(creationQ)' = Queued(creationQ) /\ Queued(deletionQ)' = Queued(deletionQ)
       /\ Queued(ghostQ)' = Queued(ghostQ)
       /\ slot' = slot /\ creationQ' = creationQ /\ deletionQ' = deletionQ
       /\ ghostQ' = ghostQ /\ resetting' = resetting /\ handles' = handles
  BY <1>1 DEF ids
<1>12. /\ \A w \in Voice : w # v => ref[w].handle # strm[t].handle
       /\ \A c \in Queued(deletionQ) \cup Queued(ghostQ) : c.handle # strm[t].handle
       /\ \A c \in Queued(creationQ) : c.handle # strm[t].handle
       /\ \A r \in Stream : r # t => strm[r].handle # strm[t].handle
  BY <1>3, <1>6 DEF IInv, UniqueInv, CreationInv, StreamInv
<1>13. TypeOK'
  <2>1. ref' \in [Voice -> [order : OrderID, handle : Handle, state : State,
                            stream : Stream \cup {Nobody}]]
    <3>1. NoRef \in [order : OrderID, handle : Handle, state : State,
                     stream : Stream \cup {Nobody}]
      BY StreamsFinite, NumbersAssumption DEF NoRef, OrderID, Handle, State
    <3> QED
      BY <1>5, <3>1 DEF IInv, TypeOK
  <2>2. stray' \in [Voice -> Ref]
    BY <1>1 DEF IInv, TypeOK
  <2> QED
    BY <1>1, <1>8, <1>10, <2>1, <2>2, SameSets DEF IInv, TypeOK, disk, ids, history
<1>14. VoiceInv'
  <2>1. \A w \in Voice : w # v => stray'[w] = stray[w]
    BY <1>1 DEF IInv, TypeOK
  <2> QED
    BY <1>9, <1>10, <1>11, <2>1 DEF IInv, VoiceInv
<1>15. PlayedInv'
  <2>1. ASSUME NEW w \in Voice, w # v, ref[w].stream # Nobody
        PROVE  strm'[ref[w].stream].handle = ref[w].handle
    <3>1. ref[w].stream \in Stream /\ strm[ref[w].stream].handle = ref[w].handle
      BY <2>1, Types DEF IInv, PlayedInv
    <3> QED
      BY <1>8, <1>12, <2>1, <3>1
  <2> QED
    BY <1>9, <1>10, <2>1 DEF PlayedInv
<1>16. PointedInv'
  <2>1. ASSUME NEW c \in Queued(deletionQ), c.stream # Nobody
        PROVE  strm'[c.stream].handle = c.handle
    <3>1. c.stream \in Stream /\ strm[c.stream].handle = c.handle
      BY <2>1, Types DEF IInv, PointedInv
    <3> QED
      BY <1>8, <1>12, <3>1
  <2> QED
    BY <1>11, <2>1 DEF IInv, PointedInv
<1>17. CreationInv'
  BY <1>8, <1>11 DEF IInv, CreationInv
<1>18. ExportInv'
  BY <1>8, <1>9, <1>10, <1>11 DEF IInv, ExportInv
<1>19. ClaimInv'
  <2>1. \A o, h : Claim(o, h)' => Claim(o, h) /\ h # strm[t].handle
    BY <1>9, <1>10, <1>11, <1>12 DEF Claim
  <2>2. \A o, h : Promised(o, h) /\ h # strm[t].handle => Promised(o, h)'
    BY <1>8, <1>11 DEF Promised
  <2>3. \A o \in OrderID, h \in Handle : Claim(o, h)' =>
          /\ Promised(o, h)'
          /\ \A f \in Handle : Claim(o, f)' => f = h
          /\ \A c \in Queued(creationQ)' : c.order = o => c.handle = h
    BY <1>11, <2>1, <2>2 DEF IInv, ClaimInv
  <2> QED
    BY <2>3, SameSets DEF ClaimInv
<1>20. UniqueInv'
  BY <1>9, <1>10, <1>11 DEF IInv, UniqueInv
<1>21. GivenInv'
  <2>1. handles \in Nat
    BY NumbersAssumption DEF IInv, TypeOK, Handle
  <2> QED
    BY <1>8, <1>9, <1>10, <1>11, <2>1 DEF IInv, GivenInv
<1>22. OwnedInv'
  <2>1. \A h : Owned(h) /\ h # strm[t].handle => Owned(h)'
    BY <1>1, <1>3, <1>6, <1>10, <1>11 DEF Owned, history
  <2> QED
    BY <1>8, <1>11, <1>12, <2>1 DEF IInv, OwnedInv
<1> QED
  BY <1>8, <1>13, <1>14, <1>15, <1>16, <1>17, <1>18, <1>19, <1>20, <1>21, <1>22 DEF IInv

\* ResetInternal() of the disabled engine: no voice needs its stream any more.
LEMMA ResetVoicesStep == ASSUME IInv, ResetVoices PROVE IInv'
<1>1. /\ resetting' = TRUE
      /\ phase' = [v \in Voice |-> "idle"]
      /\ ref' = [v \in Voice |-> NoRef]
      /\ stray' = [v \in Voice |-> NoRef]
      /\ UNCHANGED <<strm, slot, creationQ, deletionQ, ghostQ, disk, unused, ids, history>>
  BY DEF ResetVoices
<1>2. NoRef.order = 0 /\ NoRef.handle = 0 /\ NoRef.stream = Nobody /\ NoRef.state = "unused"
  BY DEF NoRef
<1>3. \A v \in Voice : phase'[v] = "idle" /\ ref'[v] = NoRef /\ stray'[v] = NoRef
  BY <1>1
<1>4. /\ Queued(creationQ)' = Queued(creationQ) /\ Queued(deletionQ)' = Queued(deletionQ)
      /\ Queued(ghostQ)' = Queued(ghostQ)
      /\ slot' = slot /\ creationQ' = creationQ /\ deletionQ' = deletionQ
      /\ ghostQ' = ghostQ /\ handles' = handles /\ strm' = strm /\ unused' = unused
  BY <1>1 DEF ids
<1>5. TypeOK'
  <2>1. ref' \in [Voice -> [order : OrderID, handle : Handle, state : State,
                            stream : Stream \cup {Nobody}]]
    <3>1. NoRef \in [order : OrderID, handle : Handle, state : State,
                     stream : Stream \cup {Nobody}]
      BY StreamsFinite, NumbersAssumption DEF NoRef, OrderID, Handle, State
    <3> QED
      BY <1>1, <3>1
  <2>2. phase' \in [Voice -> {"idle", "ram", "disk"}] /\ stray' = ref'
    BY <1>1
  <2> QED
    BY <1>1, <2>1, <2>2, SameSets DEF IInv, TypeOK, disk, ids, history
<1>6. VoiceInv' /\ PlayedInv'
  BY <1>2, <1>3 DEF VoiceInv, PlayedInv
<1>7. StreamInv' /\ PointedInv' /\ CreationInv' /\ CountInv'
  BY <1>4 DEF IInv, StreamInv, PointedInv, CreationInv, CountInv
<1>8. ExportInv'
  BY <1>2, <1>3 DEF ExportInv
<1>9. ClaimInv'
  <2>1. \A o \in OrderID, h \in Handle : Claim(o, h)' => Claim(o, h)
    BY <1>3, <1>4 DEF Claim
  <2> QED
    BY <1>4, <2>1, FewerClaims DEF IInv
<1>10. UniqueInv'
  BY <1>2, <1>3, <1>4 DEF IInv, UniqueInv
<1>11. GivenInv'
  <2>1. handles \in Nat
    BY NumbersAssumption DEF IInv, TypeOK, Handle
  <2> QED
    BY <1>2, <1>3, <1>4, <2>1 DEF IInv, GivenInv
<1>12. OwnedInv'
  <2>1. \A h : Owned(h)'
    BY <1>1 DEF Owned
  <2> QED
    BY <2>1 DEF OwnedInv
<1> QED
  BY <1>5, <1>6, <1>7, <1>8, <1>9, <1>10, <1>11, <1>12 DEF IInv

\* Reset() while the disk thread is stopped: nothing is left of the streams and of what
\* was ordered.
LEMMA ResetDiskStep == ASSUME IInv, ResetDisk PROVE IInv'
<1>1. /\ resetting /\ resetting' = FALSE
      /\ strm' = [s \in Stream |-> NoStream]
      /\ unused' = unused + Cardinality({s \in Stream : Freed(s) = 1})
      /\ slot' = [i \in 1..MaxStreams |-> Free]
      /\ creationQ' = <<>> /\ deletionQ' = <<>> /\ ghostQ' = <<>>
      /\ pending' = {}
      /\ UNCHANGED <<voices, disk, ids, missed, lost, refused, astray>>
  BY DEF ResetDisk
<1>2. /\ Queued(creationQ)' = {} /\ Queued(deletionQ)' = {} /\ Queued(ghostQ)' = {}
      /\ Len(creationQ') = 0 /\ Len(deletionQ') = 0
  BY <1>1, QueuedEmpty
<1>3. /\ phase' = phase /\ ref' = ref /\ stray' = stray /\ handles' = handles
      /\ \A v \in Voice : phase[v] = "idle" /\ ref[v].order = 0 /\ ref[v].handle = 0
                          /\ ref[v].stream = Nobody
  BY <1>1 DEF voices, ids, IInv, VoiceInv
<1>4. \A s \in Stream : strm'[s].handle = 0 /\ strm'[s].state = "unused"
  BY <1>1 DEF NoStream
<1>5. unused' = MaxStreams + OtherUnused
  <2> DEFINE U == {s \in Stream : strm[s].state = "unused"}
             F == {s \in Stream : Freed(s) = 1}
  <2>1. U \in SUBSET Stream /\ F \in SUBSET Stream /\ U \cup F = Stream /\ U \cap F = {}
    BY DEF Freed
  <2>2. unused = Cardinality(U) + OtherUnused /\ unused' = unused + Cardinality(F)
    BY <1>1 DEF IInv, CountInv
  <2> HIDE DEF U, F
  <2>3. /\ IsFiniteSet(U) /\ IsFiniteSet(F)
        /\ Cardinality(U) \in Nat /\ Cardinality(F) \in Nat
    BY <2>1, StreamsFinite
  <2>4. Cardinality(U \cup F) = Cardinality(U) + Cardinality(F) - Cardinality(U \cap F)
    BY <2>3, FS_Union
  <2>5. Cardinality(U \cap F) = 0 /\ Cardinality(U \cup F) = MaxStreams
    BY <2>1, FS_EmptySet DEF MaxStreams
  <2> QED
    BY <2>2, <2>3, <2>4, <2>5, NumbersAssumption
<1>6. TypeOK'
  <2>1. strm' \in [Stream -> [state : State, handle : Handle, voice : Voice \cup {Nobody}]]
    <3>1. NoStream \in [state : State, handle : Handle, voice : Voice \cup {Nobody}]
      BY NumbersAssumption DEF NoStream, State, Handle
    <3> QED
      BY <1>1, <3>1
  <2>2. slot' \in [1..MaxStreams -> Stream \cup {Free, Reserved}]
    BY <1>1
  <2>3. /\ creationQ' \in Seq([order : OrderID, handle : Handle, voice : Voice])
        /\ deletionQ' \in Seq(Deletion) /\ ghostQ' \in Seq(Deletion)
    BY <1>1, QueuedEmpty
  <2>4. unused' \in 0..MaxStreams + OtherUnused
    BY <1>5, StreamsFinite, NumbersAssumption
  <2>5. pending' \cup missed' \cup lost' \cup refused' \subseteq Handle
    BY <1>1 DEF IInv, TypeOK
  <2>6. resetting' \in BOOLEAN
    BY <1>1
  <2> QED
    BY <1>1, <2>1, <2>2, <2>3, <2>4, <2>5, <2>6, SameSets
    DEF IInv, TypeOK, voices, disk, ids
<1>7. VoiceInv'
  BY <1>1, <1>3 DEF IInv, VoiceInv
<1>8. StreamInv' /\ PlayedInv' /\ ExportInv'
  BY <1>3, <1>4 DEF StreamInv, PlayedInv, ExportInv
<1>9. PointedInv' /\ CreationInv'
  BY <1>2 DEF PointedInv, CreationInv
<1>10. ClaimInv'
  <2>1. \A o, h : ~ Claim(o, h)'
    BY <1>2, <1>3 DEF Claim
  <2> QED
    BY <2>1 DEF ClaimInv
<1>11. UniqueInv'
  BY <1>2, <1>3 DEF UniqueInv
<1>12. GivenInv' /\ OwnedInv'
  <2>1. handles \in Nat
    BY NumbersAssumption DEF IInv, TypeOK, Handle
  <2> QED
    BY <1>2, <1>3, <1>4, <2>1 DEF GivenInv, OwnedInv
<1>13. CountInv'
  <2>1. {s \in Stream : strm'[s].state = "unused"} = Stream
    BY <1>4
  <2> QED
    BY <1>5, <2>1, SameSets DEF CountInv, MaxStreams
<1> QED
  BY <1>6, <1>7, <1>8, <1>9, <1>10, <1>11, <1>12, <1>13 DEF IInv

-----------------------------------------------------------------------------
(* The disk thread *)

\* A write through a pExportReference changes the state in a reference, nothing else.
LEMMA ReferenceWritten ==
  ASSUME TypeOK, NEW u \in Voice \cup {Nobody}, NEW st \in State,
         ref' = WriteState(ref, u, st)
  PROVE  /\ ref' \in [Voice -> [order : OrderID, handle : Handle, state : State,
                                stream : Stream \cup {Nobody}]]
         /\ \A v \in Voice :
              /\ ref'[v].order = ref[v].order /\ ref'[v].handle = ref[v].handle
              /\ ref'[v].stream = ref[v].stream
              /\ ref'[v].state = ref[v].state \/ ref'[v].state = st
<1>1. ref \in [Voice -> [order : OrderID, handle : Handle, state : State,
                         stream : Stream \cup {Nobody}]]
  BY DEF TypeOK
<1>2. CASE u = Nobody
  BY <1>1, <1>2 DEF WriteState
<1>3. CASE u # Nobody
  <2>1. u \in Voice /\ ref' = [ref EXCEPT ![u] = [ref[u] EXCEPT !.state = st]]
    BY <1>3 DEF WriteState
  <2>2. [ref[u] EXCEPT !.state = st] \in
          [order : OrderID, handle : Handle, state : State, stream : Stream \cup {Nobody}]
    BY <1>1, <2>1
  <2>3. ref' \in [Voice -> [order : OrderID, handle : Handle, state : State,
                            stream : Stream \cup {Nobody}]]
    BY <1>1, <2>1, <2>2
  <2>4. \A v \in Voice : v # u => ref'[v] = ref[v]
    BY <1>1, <2>1
  <2>5. /\ ref'[u].order = ref[u].order /\ ref'[u].handle = ref[u].handle
        /\ ref'[u].stream = ref[u].stream /\ ref'[u].state = st
    BY <1>1, <2>1
  <2> QED
    BY <2>1, <2>3, <2>4, <2>5
<1> QED
  BY <1>2, <1>3

\* A stream is killed by a command with its handle; nobody else has the handle, and
\* nobody looks for the stream in its slot any more.
LEMMA KillByCommandStep ==
  ASSUME IInv, NEW s \in Stream, Kill(s),
         slot' \in [1..MaxStreams -> Stream \cup {Free, Reserved}],
         \A i \in 1..MaxStreams : \/ slot'[i] = slot[i]
                                  \/ slot[i] \in Stream /\ \A h \in Handle : ~ Claim(i, h)',
         deletionQ' \in Seq(Deletion), ghostQ' \in Seq(Deletion),
         Queued(deletionQ)' \subseteq Queued(deletionQ),
         Queued(ghostQ)' \subseteq Queued(ghostQ),
         \A c \in Queued(deletionQ) \cup Queued(ghostQ) :
           \/ c \in Queued(deletionQ)' \cup Queued(ghostQ)'
           \/ c.handle = strm[s].handle,
         \A i, j \in 1..Len(deletionQ') :
           deletionQ'[i].handle = deletionQ'[j].handle /\ i # j => deletionQ'[i].handle = 0,
         \A v \in Voice : ref[v].handle = strm[s].handle => ref[v].handle = 0,
         \A c \in Queued(deletionQ)' : c.handle = strm[s].handle => c.handle = 0,
         UNCHANGED <<voices, creationQ, at, read, ids, resetting, missed, lost, refused,
                     astray>>,
         pass' \in Nat, pending' \subseteq Handle
  PROVE  IInv'
<1>1. /\ strm' \in [Stream -> [state : State, handle : Handle, voice : Voice \cup {Nobody}]]
      /\ \A t \in Stream : t # s => strm'[t] = strm[t]
      /\ strm'[s].handle = 0
      /\ StreamInv'
      /\ unused' \in 0..MaxStreams + OtherUnused
      /\ CountInv'
  BY KillStream
<1>2. /\ phase' = phase /\ ref' = ref /\ stray' = stray /\ creationQ' = creationQ
      /\ Queued(creationQ)' = Queued(creationQ)
      /\ handles' = handles /\ orders' = orders /\ resetting' = resetting
      /\ lost' = lost /\ refused' = refused /\ astray' = astray
  BY DEF voices, ids
<1>3. handles \in Nat
  BY NumbersAssumption DEF IInv, TypeOK, Handle
<1>4. TypeOK'
  <2>1. pending' \cup missed' \cup lost' \cup refused' \subseteq Handle
    BY DEF IInv, TypeOK
  <2> QED
    BY <1>1, <1>2, <2>1, SameSets DEF IInv, TypeOK
<1>5. VoiceInv'
  BY <1>2 DEF IInv, VoiceInv
<1>6. PlayedInv'
  <2>1. ASSUME NEW w \in Voice, ref[w].stream # Nobody
        PROVE  strm'[ref[w].stream].handle = ref[w].handle
    <3>1. /\ ref[w].stream \in Stream /\ strm[ref[w].stream].handle = ref[w].handle
          /\ ref[w].handle # 0
      BY <2>1, Types DEF IInv, PlayedInv, VoiceInv
    <3> QED
      BY <1>1, <3>1
  <2> QED
    BY <1>2, <2>1 DEF PlayedInv
<1>7. PointedInv'
  <2>1. ASSUME NEW c \in Queued(deletionQ)', c.stream # Nobody
        PROVE  strm'[c.stream].handle = c.handle
    <3>1. c.stream \in Stream /\ strm[c.stream].handle = c.handle /\ c.handle # 0
      BY <2>1, Types DEF IInv, PointedInv
    <3> QED
      BY <1>1, <3>1
  <2> QED
    BY <2>1 DEF IInv, PointedInv
<1>8. CreationInv'
  <2>1. \A c \in Queued(creationQ) : c.order \in 1..MaxStreams /\ slot[c.order] = Reserved
    BY Types, StreamsFinite DEF IInv, CreationInv, OrderID
  <2>2. \A c \in Queued(creationQ) : slot'[c.order] = Reserved
    BY <2>1, ValuesAssumption
  <2> QED
    BY <1>1, <1>2, <2>2 DEF IInv, CreationInv
<1>9. ExportInv'
  BY <1>1, <1>2 DEF IInv, ExportInv
<1>10. ClaimInv'
  <2>1. \A o, h : Claim(o, h)' => Claim(o, h) /\ o # 0
    BY <1>2 DEF Claim, IInv, VoiceInv
  <2>2. \A o, h : Claim(o, h)' => h # strm[s].handle
    BY <1>2 DEF Claim, IInv, VoiceInv, PointedInv
  <2>3. ASSUME NEW o \in OrderID, NEW h \in Handle, Claim(o, h)' PROVE Promised(o, h)'
    <3>1. Promised(o, h) /\ h # strm[s].handle /\ o \in 1..MaxStreams
      BY <2>1, <2>2, <2>3, StreamsFinite DEF IInv, ClaimInv, OrderID
    <3>2. slot'[o] = slot[o]
      BY <2>3, <3>1
    <3> QED
      BY <1>1, <3>1, <3>2 DEF Promised
  <2>4. \A o \in OrderID, h \in Handle : Claim(o, h)' =>
          /\ Promised(o, h)'
          /\ \A f \in Handle : Claim(o, f)' => f = h
          /\ \A c \in Queued(creationQ)' : c.order = o => c.handle = h
    BY <1>2, <2>1, <2>3 DEF IInv, ClaimInv
  <2> QED
    BY <2>4, SameSets DEF ClaimInv
<1>11. UniqueInv'
  BY <1>2 DEF IInv, UniqueInv
<1>12. GivenInv'
  <2>1. \A v \in Voice : ref'[v].handle <= handles'
    BY <1>2 DEF IInv, GivenInv
  <2>2. \A t \in Stream : strm'[t].handle <= handles'
    <3>1. 0 <= handles'
      BY <1>2, <1>3
    <3> QED
      BY <1>1, <1>2, <3>1 DEF IInv, GivenInv
  <2>3. \A c \in Queued(creationQ)' \cup Queued(deletionQ)' \cup Queued(ghostQ)' :
          c.handle <= handles'
    BY <1>2 DEF IInv, GivenInv
  <2> QED
    BY <2>1, <2>2, <2>3 DEF GivenInv
<1>13. OwnedInv'
  <2>1. \A h : Owned(h) /\ h # 0 /\ h # strm[s].handle => Owned(h)'
    BY <1>2 DEF Owned
  <2>2. \A t \in Stream : t # s /\ strm[t].handle # 0 => strm[t].handle # strm[s].handle
    BY DEF IInv, StreamInv
  <2>3. \A c \in Queued(creationQ) : c.handle # 0 /\ c.handle # strm[s].handle
    BY DEF IInv, CreationInv
  <2> QED
    BY <1>1, <1>2, <2>1, <2>2, <2>3 DEF IInv, OwnedInv
<1> QED
  BY <1>1, <1>4, <1>5, <1>6, <1>7, <1>8, <1>9, <1>10, <1>11, <1>12, <1>13 DEF IInv

\* A round over the ghost queue: a ghost is killed, or put back.
LEMMA GhostStep == ASSUME IInv, Ghost PROVE IInv'
<1>1. PICK cmd : cmd = Head(ghostQ)
  OBVIOUS
<1>2. /\ ghostQ # <<>> /\ ghostQ \in Seq(Deletion)
      /\ pass' \in Nat
      /\ UNCHANGED <<voices, slot, creationQ, deletionQ, at, read, ids, resetting, missed,
                     lost, refused, astray>>
  BY Types DEF Ghost, IInv, TypeOK
<1>3. /\ cmd \in Deletion /\ Tail(ghostQ) \in Seq(Deletion)
      /\ Queued(ghostQ) = Queued(Tail(ghostQ)) \cup {cmd}
  BY <1>1, <1>2, QueuedTail
<1>4. Queued(deletionQ)' = Queued(deletionQ) /\ deletionQ' = deletionQ
  BY <1>2
<1>5. CASE \E s \in Stream : /\ strm[s].handle = cmd.handle
                             /\ Kill(s)
                             /\ Notify(cmd)
                             /\ ghostQ' = Tail(ghostQ)
  <2>1. PICK s \in Stream : /\ strm[s].handle = cmd.handle
                            /\ Kill(s)
                            /\ Notify(cmd)
                            /\ ghostQ' = Tail(ghostQ)
    BY <1>5
  <2>2. ghostQ' \in Seq(Deletion) /\ Queued(ghostQ)' = Queued(Tail(ghostQ))
    BY <1>3, <2>1
  <2>3. pending' \subseteq Handle
    BY <2>1 DEF Notify, IInv, TypeOK
  <2>4. /\ \A v \in Voice : ref[v].handle = strm[s].handle => ref[v].handle = 0
        /\ \A c \in Queued(deletionQ) : c.handle = strm[s].handle => c.handle = 0
    BY <1>3, <2>1 DEF IInv, UniqueInv
  <2>5. \A i, j \in 1..Len(deletionQ') :
          deletionQ'[i].handle = deletionQ'[j].handle /\ i # j => deletionQ'[i].handle = 0
    BY <1>4 DEF IInv, UniqueInv
  <2>6. slot' \in [1..MaxStreams -> Stream \cup {Free, Reserved}] /\ slot' = slot
    BY <1>2 DEF IInv, TypeOK
  <2>7. deletionQ' \in Seq(Deletion)
    BY <1>4, Types DEF IInv
  <2> QED
    BY <1>2, <1>3, <1>4, <2>1, <2>2, <2>3, <2>4, <2>5, <2>6, <2>7, KillByCommandStep
<1>6. CASE /\ \A s \in Stream : strm[s].handle # cmd.handle
           /\ ghostQ' = Append(Tail(ghostQ), cmd)
           /\ UNCHANGED <<strm, unused, pending>>
  <2>1. ghostQ' \in Seq(Deletion) /\ Queued(ghostQ)' = Queued(ghostQ)
    <3>1. PICK rest : rest = Tail(ghostQ)
      OBVIOUS
    <3>2. rest \in Seq(Deletion) /\ cmd \in Deletion
      BY <1>3, <3>1
    <3>3. /\ Append(rest, cmd) \in Seq(Deletion)
          /\ Queued(Append(rest, cmd)) = Queued(rest) \cup {cmd}
      BY <3>2, QueuedAppend
    <3> QED
      BY <1>3, <1>6, <3>1, <3>3
  <2>2. /\ phase' = phase /\ ref' = ref /\ stray' = stray /\ astray' = astray
        /\ strm' = strm /\ slot' = slot
        /\ creationQ' = creationQ /\ Queued(creationQ)' = Queued(creationQ)
        /\ unused' = unused /\ handles' = handles /\ orders' = orders
        /\ resetting' = resetting /\ pending' = pending /\ missed' = missed
        /\ lost' = lost /\ refused' = refused
    BY <1>2, <1>6 DEF voices, ids
  <2>3. TypeOK'
    BY <1>2, <2>1, <2>2, SameSets DEF IInv, TypeOK
  <2>4. /\ VoiceInv' /\ StreamInv' /\ PlayedInv' /\ PointedInv' /\ CreationInv'
        /\ ExportInv' /\ CountInv'
    BY <1>4, <2>2
    DEF IInv, VoiceInv, StreamInv, PlayedInv, PointedInv, CreationInv, ExportInv, CountInv
  <2>5. ClaimInv'
    <3>1. \A o \in OrderID, h \in Handle : Claim(o, h)' => Claim(o, h)
      BY <1>4, <2>2 DEF Claim
    <3> QED
      BY <2>2, <3>1, FewerClaims DEF IInv
  <2>6. UniqueInv' /\ GivenInv'
    BY <1>4, <2>1, <2>2 DEF IInv, UniqueInv, GivenInv
  <2>7. OwnedInv'
    <3>1. \A h : Owned(h) => Owned(h)'
      BY <1>4, <2>1, <2>2 DEF Owned
    <3> QED
      BY <2>2, <3>1 DEF IInv, OwnedInv
  <2> QED
    BY <2>3, <2>4, <2>5, <2>6, <2>7 DEF IInv
<1> QED
  BY <1>1, <1>5, <1>6, Zenon DEF Ghost

\* CreateStream(): the order's slot is still reserved for it, and gets the stream that
\* the voice and the commands look for.
LEMMA CreateStreamStep == ASSUME IInv, CreateStream PROVE IInv'
<1>1. PICK cmd : cmd = Head(creationQ)
  OBVIOUS
<1>2. /\ unused > 0 /\ creationQ # <<>> /\ creationQ' = Tail(creationQ)
      /\ UNCHANGED <<phase, stray, deletionQ, ghostQ, disk, ids, resetting, pending, lost,
                     refused, astray>>
      /\ creationQ \in Seq(Order)
  BY Types DEF CreateStream, IInv
<1>3. /\ cmd \in Order /\ creationQ' \in Seq(Order)
      /\ Queued(creationQ) = Queued(creationQ)' \cup {cmd}
      /\ cmd = creationQ[1] /\ 1 \in 1..Len(creationQ)
      /\ \A i \in 1..Len(creationQ') : /\ i + 1 \in 1..Len(creationQ)
                                       /\ i + 1 # 1
                                       /\ creationQ'[i] = creationQ[i + 1]
  <2>1. /\ cmd \in Order /\ Tail(creationQ) \in Seq(Order)
        /\ Queued(creationQ) = Queued(Tail(creationQ)) \cup {cmd}
        /\ Len(Tail(creationQ)) \in Nat /\ Len(creationQ) = Len(Tail(creationQ)) + 1
        /\ cmd = creationQ[1]
        /\ \A i \in 1..Len(Tail(creationQ)) :
             i + 1 \in 1..Len(creationQ) /\ Tail(creationQ)[i] = creationQ[i + 1]
    BY <1>1, <1>2, QueuedTail
  <2>2. Queued(creationQ)' = Queued(Tail(creationQ))
    BY <1>2
  <2> QED
    BY <1>2, <2>1, <2>2
<1>4. /\ cmd.order \in 1..MaxStreams /\ cmd.order \in OrderID /\ cmd.handle \in Handle
      /\ cmd.voice \in Voice /\ cmd.order # 0 /\ cmd.handle # 0
      /\ slot[cmd.order] = Reserved
      /\ \A s \in Stream : strm[s].handle # cmd.handle
  BY <1>3, Types, StreamsFinite DEF IInv, CreationInv, OrderID
<1>5. \A c \in Queued(creationQ)' : c.order # cmd.order /\ c.handle # cmd.handle
  <2>1. ASSUME NEW c \in Queued(creationQ)'
        PROVE  c.order # cmd.order /\ c.handle # cmd.handle
    <3>1. PICK i \in 1..Len(creationQ') : c = creationQ'[i]
      BY DEF Queued
    <3>2. i + 1 \in 1..Len(creationQ) /\ i + 1 # 1 /\ c = creationQ[i + 1]
      BY <1>3, <3>1
    <3>3. /\ creationQ[i + 1].order # creationQ[1].order
          /\ creationQ[i + 1].handle # creationQ[1].handle
      BY <1>3, <3>2 DEF IInv, CreationInv
    <3> QED
      BY <1>3, <3>2, <3>3
  <2> QED
    BY <2>1
<1>6. \A i, j \in 1..Len(creationQ') :
        \/ i = j
        \/ /\ creationQ'[i].order # creationQ'[j].order
           /\ creationQ'[i].handle # creationQ'[j].handle
  <2>1. ASSUME NEW i \in 1..Len(creationQ'), NEW j \in 1..Len(creationQ'), i # j
        PROVE  /\ creationQ'[i].order # creationQ'[j].order
               /\ creationQ'[i].handle # creationQ'[j].handle
    <3>1. i + 1 # j + 1
      BY <2>1
    <3> QED
      BY <1>3, <3>1 DEF IInv, CreationInv
  <2> QED
    BY <2>1
<1>7. /\ stray' = stray /\ astray' = astray
      /\ Queued(deletionQ)' = Queued(deletionQ) /\ Queued(ghostQ)' = Queued(ghostQ)
      /\ phase' = phase /\ deletionQ' = deletionQ /\ ghostQ' = ghostQ
      /\ handles' = handles /\ orders' = orders /\ resetting' = resetting
      /\ pending' = pending /\ lost' = lost /\ refused' = refused
  BY <1>2 DEF ids
<1>8. creationQ' \in Seq([order : OrderID, handle : Handle, voice : Voice])
  BY <1>3 DEF Order
<1>9. CASE /\ \A s \in Stream : ~ Available(s)
           /\ missed' = missed \cup {cmd.handle}
           /\ UNCHANGED <<ref, strm, unused, slot>>
  <2>1. ref' = ref /\ strm' = strm /\ unused' = unused /\ slot' = slot
    BY <1>9
  <2>2. TypeOK'
    <3>1. pending' \cup missed' \cup lost' \cup refused' \subseteq Handle
      BY <1>4, <1>7, <1>9 DEF IInv, TypeOK
    <3> QED
      BY <1>2, <1>7, <1>8, <2>1, <3>1, SameSets DEF IInv, TypeOK, disk
  <2>3. VoiceInv' /\ StreamInv' /\ PlayedInv' /\ PointedInv' /\ CountInv'
    BY <1>7, <2>1 DEF IInv, VoiceInv, StreamInv, PlayedInv, PointedInv, CountInv
  <2>4. CreationInv'
    BY <1>3, <1>6, <2>1 DEF IInv, CreationInv
  <2>5. ExportInv' /\ UniqueInv' /\ GivenInv'
    BY <1>3, <1>7, <2>1 DEF IInv, ExportInv, UniqueInv, GivenInv
  <2>6. ClaimInv'
    <3>1. \A o, h : (Claim(o, h)' <=> Claim(o, h)) /\ (Promised(o, h) => Promised(o, h)')
      BY <1>7, <2>1 DEF Claim, Promised
    <3>2. \A o \in OrderID, h \in Handle : Claim(o, h)' =>
            /\ Promised(o, h)'
            /\ \A f \in Handle : Claim(o, f)' => f = h
            /\ \A c \in Queued(creationQ)' : c.order = o => c.handle = h
      BY <1>3, <3>1 DEF IInv, ClaimInv
    <3> QED
      BY <3>2, SameSets DEF ClaimInv
  <2>7. OwnedInv'
    <3>1. \A h : Owned(h) => Owned(h)'
      BY <1>7, <2>1 DEF Owned
    <3> QED
      BY <1>3, <2>1, <3>1 DEF IInv, OwnedInv
  <2> QED
    BY <2>2, <2>3, <2>4, <2>5, <2>6, <2>7 DEF IInv
<1>10. CASE \E s \in Stream : /\ Available(s)
                              /\ ref' = WriteState(ref, cmd.voice, "active")
                              /\ strm' = [strm EXCEPT ![s] = [state |-> "active",
                                             handle |-> cmd.handle, voice |-> cmd.voice]]
                              /\ unused' = unused - 1
                              /\ slot' = [slot EXCEPT ![cmd.order] = s]
                              /\ UNCHANGED missed
  <2>1. PICK s \in Stream : /\ Available(s)
                            /\ ref' = WriteState(ref, cmd.voice, "active")
                            /\ strm' = [strm EXCEPT ![s] = [state |-> "active",
                                           handle |-> cmd.handle, voice |-> cmd.voice]]
                            /\ unused' = unused - 1
                            /\ slot' = [slot EXCEPT ![cmd.order] = s]
                            /\ UNCHANGED missed
    BY <1>10
  <2>2. /\ ref' \in [Voice -> [order : OrderID, handle : Handle, state : State,
                               stream : Stream \cup {Nobody}]]
        /\ \A v \in Voice :
             /\ ref'[v].order = ref[v].order /\ ref'[v].handle = ref[v].handle
             /\ ref'[v].stream = ref[v].stream
             /\ ref'[v].state = ref[v].state \/ ref'[v].state = "active"
    <3>1. "active" \in State /\ cmd.voice \in Voice \cup {Nobody}
      BY <1>4 DEF State
    <3> QED
      BY <2>1, <3>1, ReferenceWritten DEF IInv
  <2>3. strm[s].handle = 0 /\ strm[s].state = "unused"
    BY <2>1 DEF Available, IInv, StreamInv
  <2>4. /\ \A t \in Stream : t # s => strm'[t] = strm[t]
        /\ strm'[s].handle = cmd.handle /\ strm'[s].voice = cmd.voice
        /\ strm'[s].state = "active"
    BY <2>1 DEF IInv, TypeOK
  <2>5. /\ slot'[cmd.order] = s
        /\ \A i \in 1..MaxStreams : i # cmd.order => slot'[i] = slot[i]
        /\ slot' \in [1..MaxStreams -> Stream \cup {Free, Reserved}]
    BY <1>4, <2>1 DEF IInv, TypeOK
  <2>6. unused' \in 0..MaxStreams + OtherUnused /\ CountInv'
    <3> DEFINE U == {t \in Stream : strm[t].state = "unused"}
               V == {t \in Stream : strm'[t].state = "unused"}
    <3>1. V = U \ {s} /\ s \in U /\ U \in SUBSET Stream
      BY <2>3, <2>4
    <3>2. unused = Cardinality(U) + OtherUnused
      BY DEF IInv, CountInv
    <3> HIDE DEF U, V
    <3>3. IsFiniteSet(U) /\ Cardinality(U) \in Nat /\ Cardinality(U) <= MaxStreams
      BY <3>1, StreamsFinite
    <3>4. Cardinality(V) = Cardinality(U) - 1
      BY <3>1, <3>3, FS_RemoveElement
    <3>5. unused' = Cardinality(V) + OtherUnused
      BY <2>1, <3>2, <3>3, <3>4, NumbersAssumption
    <3>6. CountInv'
      BY <3>5 DEF CountInv, V
    <3>7. unused' \in 0..MaxStreams + OtherUnused
      BY <1>2, <2>1, <3>2, <3>3, NumbersAssumption, StreamsFinite
    <3> QED
      BY <3>6, <3>7
  <2>7. TypeOK'
    <3>1. strm' \in [Stream -> [state : State, handle : Handle, voice : Voice \cup {Nobody}]]
      <4>1. [state |-> "active", handle |-> cmd.handle, voice |-> cmd.voice] \in
              [state : State, handle : Handle, voice : Voice \cup {Nobody}]
        BY <1>4 DEF State
      <4> QED
        BY <2>1, <4>1 DEF IInv, TypeOK
    <3>2. pending' \cup missed' \cup lost' \cup refused' \subseteq Handle
      BY <1>7, <2>1 DEF IInv, TypeOK
    <3> QED
      BY <1>2, <1>7, <1>8, <2>2, <2>5, <2>6, <3>1, <3>2, SameSets DEF IInv, TypeOK, disk
  <2>8. VoiceInv'
    BY <1>7, <2>2 DEF IInv, VoiceInv
  <2>9. StreamInv'
    BY <1>4, <2>3, <2>4 DEF IInv, StreamInv
  <2>10. PlayedInv'
    <3>1. ASSUME NEW v \in Voice, ref[v].stream # Nobody
          PROVE  strm'[ref[v].stream].handle = ref[v].handle
      <4>1. /\ ref[v].stream \in Stream /\ strm[ref[v].stream].handle = ref[v].handle
            /\ ref[v].handle # 0
        BY <3>1, Types DEF IInv, PlayedInv, VoiceInv
      <4> QED
        BY <2>3, <2>4, <4>1
    <3> QED
      BY <2>2, <3>1 DEF PlayedInv
  <2>11. PointedInv'
    <3>1. ASSUME NEW c \in Queued(deletionQ), c.stream # Nobody
          PROVE  strm'[c.stream].handle = c.handle
      <4>1. c.stream \in Stream /\ strm[c.stream].handle = c.handle /\ c.handle # 0
        BY <3>1, Types DEF IInv, PointedInv
      <4> QED
        BY <2>3, <2>4, <4>1
    <3> QED
      BY <1>7, <3>1 DEF IInv, PointedInv
  <2>12. CreationInv'
    <3>1. ASSUME NEW c \in Queued(creationQ)'
          PROVE  /\ c.order # 0 /\ c.handle # 0 /\ slot'[c.order] = Reserved
                 /\ \A t \in Stream : strm'[t].handle # c.handle
      <4>1. c \in Queued(creationQ) /\ c.order \in 1..MaxStreams
        BY <1>3, Types, StreamsFinite DEF IInv, CreationInv, OrderID
      <4> QED
        BY <1>5, <2>4, <2>5, <4>1 DEF IInv, CreationInv
    <3> QED
      BY <1>6, <3>1 DEF CreationInv
  <2>13. ExportInv'
    BY <1>3, <2>2, <2>4 DEF IInv, ExportInv
  <2>14. ClaimInv'
    <3>1. \A o, h : Claim(o, h)' => Claim(o, h) /\ o # 0 /\ h # 0
      BY <1>7, <2>2 DEF Claim, IInv, VoiceInv, PointedInv
    <3>2. ASSUME NEW o \in OrderID, NEW h \in Handle, Claim(o, h)' PROVE Promised(o, h)'
      <4>1. Claim(o, h) /\ o \in 1..MaxStreams /\ h # 0 /\ Promised(o, h)
        BY <3>1, <3>2, StreamsFinite DEF IInv, ClaimInv, OrderID
      <4>2. CASE o = cmd.order
        <5>1. h = cmd.handle
          BY <1>3, <4>1, <4>2 DEF IInv, ClaimInv
        <5> QED
          BY <2>4, <2>5, <4>2, <5>1 DEF Promised
      <4>3. CASE o # cmd.order
        <5>1. slot'[o] = slot[o]
          BY <2>5, <4>1, <4>3
        <5> QED
          BY <2>3, <2>4, <4>1, <5>1 DEF Promised
      <4> QED
        BY <4>2, <4>3
    <3>3. \A o \in OrderID, h \in Handle : Claim(o, h)' =>
            /\ Promised(o, h)'
            /\ \A f \in Handle : Claim(o, f)' => f = h
            /\ \A c \in Queued(creationQ)' : c.order = o => c.handle = h
      BY <1>3, <3>1, <3>2 DEF IInv, ClaimInv
    <3> QED
      BY <3>3, SameSets DEF ClaimInv
  <2>15. UniqueInv'
    BY <1>7, <2>2 DEF IInv, UniqueInv
  <2>16. GivenInv'
    BY <1>3, <1>7, <2>2, <2>4 DEF IInv, GivenInv
  <2>17. OwnedInv'
    <3>1. \A h : Owned(h) => Owned(h)'
      BY <1>7, <2>2 DEF Owned
    <3> QED
      BY <1>3, <2>4, <3>1 DEF IInv, OwnedInv
  <2> QED
    BY <2>6, <2>7, <2>8, <2>9, <2>10, <2>11, <2>12, <2>13, <2>14, <2>15, <2>16, <2>17
    DEF IInv
<1>11. \/ /\ \A s \in Stream : ~ Available(s)
          /\ missed' = missed \cup {cmd.handle}
          /\ UNCHANGED <<ref, strm, unused, slot>>
       \/ \E s \in Stream : /\ Available(s)
                            /\ ref' = WriteState(ref, cmd.voice, "active")
                            /\ strm' = [strm EXCEPT ![s] = [state |-> "active",
                                           handle |-> cmd.handle, voice |-> cmd.voice]]
                            /\ unused' = unused - 1
                            /\ slot' = [slot EXCEPT ![cmd.order] = s]
                            /\ UNCHANGED missed
  <2>1. CASE \E s \in Stream : Available(s)
    <3> DEFINE new == CHOOSE s \in Stream : Available(s)
    <3>1. new \in Stream /\ Available(new)
      BY <2>1
    <3>2. /\ ref' = WriteState(ref, cmd.voice, "active")
          /\ strm' = [strm EXCEPT ![new] = [state |-> "active",
                         handle |-> cmd.handle, voice |-> cmd.voice]]
          /\ unused' = unused - 1
          /\ slot' = [slot EXCEPT ![cmd.order] = new]
          /\ UNCHANGED missed
      BY <1>1, <1>4, <2>1, Zenon DEF CreateStream
    <3> HIDE DEF new
    <3> QED
      BY <3>1, <3>2
  <2>2. CASE \A s \in Stream : ~ Available(s)
    BY <1>1, <2>2, Zenon DEF CreateStream
  <2> QED
    BY <2>1, <2>2
<1> QED
  BY <1>9, <1>10, <1>11

\* DeleteStream(): the stream that a command points to, or that the slot of its order
\* holds, is the one of its handle; if there is none yet, a ghost takes the handle over.
LEMMA DeleteStreamStep == ASSUME IInv, DeleteStream PROVE IInv'
<1>1. PICK cmd : cmd = Head(deletionQ)
  OBVIOUS
<1>2. /\ deletionQ # <<>> /\ deletionQ' = Tail(deletionQ)
      /\ UNCHANGED <<voices, creationQ, disk, ids, resetting, missed, refused, astray>>
      /\ deletionQ \in Seq(Deletion)
  BY Types DEF DeleteStream, IInv
<1>3. /\ cmd \in Deletion /\ deletionQ' \in Seq(Deletion)
      /\ Queued(deletionQ) = Queued(deletionQ)' \cup {cmd}
      /\ cmd = deletionQ[1] /\ 1 \in 1..Len(deletionQ)
      /\ \A i \in 1..Len(deletionQ') : /\ i + 1 \in 1..Len(deletionQ)
                                       /\ i + 1 # 1
                                       /\ deletionQ'[i] = deletionQ[i + 1]
  <2>1. /\ cmd \in Deletion /\ Tail(deletionQ) \in Seq(Deletion)
        /\ Queued(deletionQ) = Queued(Tail(deletionQ)) \cup {cmd}
        /\ Len(Tail(deletionQ)) \in Nat /\ Len(deletionQ) = Len(Tail(deletionQ)) + 1
        /\ cmd = deletionQ[1]
        /\ \A i \in 1..Len(Tail(deletionQ)) :
             i + 1 \in 1..Len(deletionQ) /\ Tail(deletionQ)[i] = deletionQ[i + 1]
    BY <1>1, <1>2, QueuedTail
  <2>2. Queued(deletionQ)' = Queued(Tail(deletionQ))
    BY <1>2
  <2> QED
    BY <1>2, <2>1, <2>2
<1>4. /\ cmd.order \in OrderID /\ cmd.handle \in Handle
      /\ cmd.stream \in Stream \cup {Nobody}
  BY <1>3 DEF Deletion
<1>5. \A c \in Queued(deletionQ)' : c.handle = cmd.handle => cmd.handle = 0
  <2>1. ASSUME NEW c \in Queued(deletionQ)', c.handle = cmd.handle PROVE cmd.handle = 0
    <3>1. PICK i \in 1..Len(deletionQ') : c = deletionQ'[i]
      BY DEF Queued
    <3> QED
      BY <1>3, <2>1, <3>1 DEF IInv, UniqueInv
  <2> QED
    BY <2>1
<1>6. \A i, j \in 1..Len(deletionQ') :
        deletionQ'[i].handle = deletionQ'[j].handle /\ i # j => deletionQ'[i].handle = 0
  <2>1. ASSUME NEW i \in 1..Len(deletionQ'), NEW j \in 1..Len(deletionQ'), i # j,
               deletionQ'[i].handle = deletionQ'[j].handle
        PROVE  deletionQ'[i].handle = 0
    <3>1. i + 1 # j + 1
      BY <2>1
    <3> QED
      BY <1>3, <2>1, <3>1 DEF IInv, UniqueInv
  <2> QED
    BY <2>1
<1>7. \A v \in Voice : ref[v].handle = cmd.handle => cmd.handle = 0
  BY <1>3 DEF IInv, UniqueInv
<1>8. /\ stray' = stray /\ astray' = astray
      /\ phase' = phase /\ ref' = ref /\ creationQ' = creationQ
      /\ Queued(creationQ)' = Queued(creationQ)
      /\ at' = at /\ pass' = pass /\ read' = read
      /\ handles' = handles /\ orders' = orders /\ resetting' = resetting
      /\ missed' = missed /\ refused' = refused
  BY <1>2 DEF voices, disk, ids
<1>9. ASSUME NEW s \in Stream, strm[s].handle = cmd.handle, Kill(s), Notify(cmd),
             slot' \in [1..MaxStreams -> Stream \cup {Free, Reserved}],
             \A i \in 1..MaxStreams :
               \/ slot'[i] = slot[i]
               \/ slot[i] \in Stream /\ \A h \in Handle : ~ Claim(i, h)',
             UNCHANGED <<ghostQ, lost>>
      PROVE  IInv'
  <2>1. /\ Queued(ghostQ)' = Queued(ghostQ) /\ ghostQ' \in Seq(Deletion)
    BY <1>9, Types DEF IInv
  <2>2. pending' \subseteq Handle
    BY <1>9 DEF Notify, IInv, TypeOK
  <2>3. UNCHANGED <<voices, creationQ, at, read, ids, resetting, missed, lost, refused,
                     astray>>
    BY <1>2, <1>9 DEF disk
  <2>4. pass' \in Nat
    BY <1>8 DEF IInv, TypeOK
  <2>5. /\ \A v \in Voice : ref[v].handle = strm[s].handle => ref[v].handle = 0
        /\ \A c \in Queued(deletionQ)' : c.handle = strm[s].handle => c.handle = 0
        /\ \A c \in Queued(deletionQ) \cup Queued(ghostQ) :
             \/ c \in Queued(deletionQ)' \cup Queued(ghostQ)'
             \/ c.handle = strm[s].handle
    BY <1>3, <1>5, <1>7, <1>9, <2>1
  <2> QED
    BY <1>3, <1>6, <1>9, <2>1, <2>2, <2>3, <2>4, <2>5, KillByCommandStep
<1>10. CASE /\ cmd.stream # Nobody
            /\ Kill(cmd.stream) /\ Notify(cmd)
            /\ UNCHANGED <<slot, ghostQ, lost>>
  <2>1. PICK s \in Stream : s = cmd.stream
    BY <1>4, <1>10
  <2>2. strm[s].handle = cmd.handle
    BY <1>3, <1>10, <2>1 DEF IInv, PointedInv
  <2>3. slot' = slot /\ slot' \in [1..MaxStreams -> Stream \cup {Free, Reserved}]
    BY <1>10 DEF IInv, TypeOK
  <2> QED
    BY <1>9, <1>10, <2>1, <2>2, <2>3
<1>11. CASE /\ cmd.stream = Nobody /\ cmd.order # 0
            /\ slot[cmd.order] \in Stream
            /\ Kill(slot[cmd.order]) /\ Notify(cmd)
            /\ slot' = [slot EXCEPT ![cmd.order] = Free]
            /\ UNCHANGED <<ghostQ, lost>>
  <2>1. PICK s \in Stream : s = slot[cmd.order]
    BY <1>11
  <2>2. cmd.order \in 1..MaxStreams /\ cmd.handle # 0
    BY <1>3, <1>4, <1>11, StreamsFinite DEF IInv, PointedInv, OrderID
  <2>3. Claim(cmd.order, cmd.handle)
    BY <1>3, <1>11 DEF Claim
  <2>4. strm[s].handle = cmd.handle
    BY <1>4, <2>1, <2>3, ValuesAssumption DEF IInv, ClaimInv, Promised
  <2>5. /\ slot' \in [1..MaxStreams -> Stream \cup {Free, Reserved}]
        /\ \A i \in 1..MaxStreams : i # cmd.order => slot'[i] = slot[i]
    BY <1>11 DEF IInv, TypeOK
  <2>6. \A h \in Handle : ~ Claim(cmd.order, h)'
    <3>1. ASSUME NEW h \in Handle, Claim(cmd.order, h)' PROVE FALSE
      <4>1. cmd' = cmd
        OBVIOUS
      <4>2. Claim(cmd.order, h)
        BY <1>3, <1>8, <3>1 DEF Claim
      <4>3. h = cmd.handle
        BY <1>4, <2>3, <4>2 DEF IInv, ClaimInv
      <4> QED
        BY <1>5, <1>7, <1>8, <2>2, <3>1, <4>1, <4>3 DEF Claim
    <3> QED
      BY <3>1
  <2>7. \A i \in 1..MaxStreams :
          \/ slot'[i] = slot[i]
          \/ slot[i] \in Stream /\ \A h \in Handle : ~ Claim(i, h)'
    BY <1>11, <2>5, <2>6
  <2> QED
    BY <1>9, <1>11, <2>1, <2>4, <2>5, <2>7
<1>12. CASE /\ cmd.stream = Nobody
            /\ cmd.order # 0 => slot[cmd.order] \notin Stream
            /\ MakeGhost(cmd)
  <2>1. strm' = strm /\ unused' = unused /\ slot' = slot /\ pending' = pending
    BY <1>12 DEF MakeGhost
  <2>2. \/ /\ ghostQ' = Append(ghostQ, cmd) /\ lost' = lost
        \/ /\ ghostQ' = ghostQ /\ lost' = lost \cup {cmd.handle}
    BY <1>12, Zenon DEF MakeGhost
  <2>3. /\ ghostQ' \in Seq(Deletion)
        /\ Queued(ghostQ) \subseteq Queued(ghostQ)'
        /\ Queued(ghostQ)' \subseteq Queued(ghostQ) \cup {cmd}
        /\ cmd \in Queued(ghostQ)' \/ cmd.handle \in lost'
        /\ lost \subseteq lost' /\ lost' \subseteq lost \cup {cmd.handle}
    <3>1. ghostQ \in Seq(Deletion)
      BY Types DEF IInv
    <3>2. /\ Append(ghostQ, cmd) \in Seq(Deletion)
          /\ Queued(Append(ghostQ, cmd)) = Queued(ghostQ) \cup {cmd}
      BY <1>3, <3>1, QueuedAppend
    <3> QED
      BY <2>2, <3>1, <3>2
  <2>4. TypeOK'
    <3>1. pending' \cup missed' \cup lost' \cup refused' \subseteq Handle
      BY <1>4, <1>8, <2>1, <2>3 DEF IInv, TypeOK
    <3> QED
      BY <1>3, <1>8, <2>1, <2>3, <3>1, SameSets DEF IInv, TypeOK
  <2>5. VoiceInv' /\ StreamInv' /\ PlayedInv' /\ CreationInv' /\ ExportInv' /\ CountInv'
    BY <1>8, <2>1
    DEF IInv, VoiceInv, StreamInv, PlayedInv, CreationInv, ExportInv, CountInv
  <2>6. PointedInv'
    BY <1>3, <2>1 DEF IInv, PointedInv
  <2>7. ClaimInv'
    <3>1. \A o \in OrderID, h \in Handle : Claim(o, h)' => Claim(o, h)
      BY <1>3, <1>8 DEF Claim
    <3> QED
      BY <1>8, <2>1, <3>1, FewerClaims DEF IInv
  <2>8. UniqueInv'
    <3>1. \A v \in Voice : \A c \in Queued(deletionQ)' \cup Queued(ghostQ)' :
            ref'[v].handle = c.handle => ref'[v].handle = 0
      BY <1>3, <1>7, <1>8, <2>3 DEF IInv, UniqueInv
    <3>2. \A c \in Queued(deletionQ)', ghost \in Queued(ghostQ)' :
            c.handle = ghost.handle => c.handle = 0
      BY <1>3, <1>5, <2>3 DEF IInv, UniqueInv
    <3>3. \A u, w \in Voice : ref'[u].handle = ref'[w].handle /\ u # w => ref'[u].handle = 0
      BY <1>8 DEF IInv, UniqueInv
    <3> QED
      BY <1>6, <3>1, <3>2, <3>3 DEF UniqueInv
  <2>9. GivenInv'
    BY <1>3, <1>8, <2>1, <2>3 DEF IInv, GivenInv
  <2>10. OwnedInv'
    <3>1. \A h : Owned(h) => Owned(h)'
      BY <1>3, <1>8, <2>3 DEF Owned
    <3> QED
      BY <1>8, <2>1, <3>1 DEF IInv, OwnedInv
  <2> QED
    BY <2>4, <2>5, <2>6, <2>7, <2>8, <2>9, <2>10 DEF IInv
<1> QED
  BY <1>1, <1>10, <1>11, <1>12, Zenon DEF DeleteStream

\* RefillStreams(): a stream that has reached its end tells so in the reference of its
\* voice, and stays the same stream.
LEMMA RefillStep == ASSUME IInv, NEW s \in Stream, Refill(s) PROVE IInv'
<1>1. PICK st \in {"active", "end"} : /\ strm' = [strm EXCEPT ![s].state = st]
                                      /\ ref' = WriteState(ref, strm[s].voice, st)
  BY DEF Refill
<1>2. /\ strm[s].state = "active" /\ read' \subseteq Stream /\ st \in State
      /\ UNCHANGED <<phase, stray, slot, creationQ, deletionQ, ghostQ, at, pass, unused,
                     ids, resetting, history>>
  BY DEF Refill, IInv, TypeOK, State
<1>3. /\ ref' \in [Voice -> [order : OrderID, handle : Handle, state : State,
                             stream : Stream \cup {Nobody}]]
      /\ \A v \in Voice :
           /\ ref'[v].order = ref[v].order /\ ref'[v].handle = ref[v].handle
           /\ ref'[v].stream = ref[v].stream
           /\ ref'[v].state = ref[v].state \/ ref'[v].state = st
  BY <1>1, <1>2, Types, ReferenceWritten DEF IInv
<1>4. /\ strm' \in [Stream -> [state : State, handle : Handle, voice : Voice \cup {Nobody}]]
      /\ \A t \in Stream : t # s => strm'[t] = strm[t]
      /\ strm'[s].handle = strm[s].handle /\ strm'[s].voice = strm[s].voice
      /\ strm'[s].state = st
  <2>0. strm[s] \in [state : State, handle : Handle, voice : Voice \cup {Nobody}]
    BY <1>2 DEF IInv, TypeOK
  <2>1. [strm[s] EXCEPT !.state = st] \in
          [state : State, handle : Handle, voice : Voice \cup {Nobody}]
    BY <1>2, <2>0
  <2>2. strm' = [strm EXCEPT ![s] = [strm[s] EXCEPT !.state = st]]
    BY <1>1
  <2>3. /\ strm' \in [Stream -> [state : State, handle : Handle, voice : Voice \cup {Nobody}]]
        /\ \A t \in Stream : t # s => strm'[t] = strm[t]
    BY <2>1, <2>2 DEF IInv, TypeOK
  <2>4. /\ strm'[s].handle = strm[s].handle /\ strm'[s].voice = strm[s].voice
        /\ strm'[s].state = st
    BY <2>2 DEF IInv, TypeOK
  <2> QED
    BY <2>3, <2>4
<1>5. /\ Queued(creationQ)' = Queued(creationQ) /\ Queued(deletionQ)' = Queued(deletionQ)
      /\ Queued(ghostQ)' = Queued(ghostQ)
      /\ phase' = phase /\ slot' = slot /\ creationQ' = creationQ /\ deletionQ' = deletionQ
      /\ ghostQ' = ghostQ /\ unused' = unused /\ handles' = handles
      /\ resetting' = resetting /\ lost' = lost /\ refused' = refused
      /\ stray' = stray
  BY <1>2 DEF ids, history
<1>6. st # "unused"
  OBVIOUS
<1>7. \A t \in Stream : strm'[t].handle = strm[t].handle /\ strm'[t].voice = strm[t].voice
  BY <1>4
<1>8. TypeOK'
  BY <1>2, <1>3, <1>4, SameSets DEF IInv, TypeOK, ids, history
<1>9. VoiceInv'
  BY <1>3, <1>5, <1>6 DEF IInv, VoiceInv
<1>10. StreamInv' /\ CountInv'
  <2>1. \A t \in Stream : strm'[t].state = "unused" <=> strm[t].state = "unused"
    BY <1>2, <1>4, <1>6
  <2>2. StreamInv'
    BY <1>7, <2>1 DEF IInv, StreamInv
  <2>3. {t \in Stream : strm'[t].state = "unused"} = {t \in Stream : strm[t].state = "unused"}
    BY <2>1
  <2> QED
    BY <1>5, <2>2, <2>3 DEF IInv, CountInv
<1>11. PlayedInv'
  <2>1. \A v \in Voice : ref[v].stream # Nobody => ref[v].stream \in Stream
    BY Types DEF IInv
  <2> QED
    BY <1>3, <1>7, <2>1 DEF IInv, PlayedInv
<1>12. PointedInv'
  <2>1. \A c \in Queued(deletionQ) : c.stream # Nobody => c.stream \in Stream
    BY Types DEF IInv
  <2> QED
    BY <1>5, <1>7, <2>1 DEF IInv, PointedInv
<1>13. CreationInv' /\ ExportInv'
  BY <1>3, <1>5, <1>7 DEF IInv, CreationInv, ExportInv
<1>14. ClaimInv'
  <2>1. \A o, h : (Claim(o, h)' <=> Claim(o, h)) /\ (Promised(o, h)' <=> Promised(o, h))
    BY <1>3, <1>5, <1>7 DEF Claim, Promised
  <2>2. \A o \in OrderID, h \in Handle : Claim(o, h)' =>
          /\ Promised(o, h)'
          /\ \A f \in Handle : Claim(o, f)' => f = h
          /\ \A c \in Queued(creationQ)' : c.order = o => c.handle = h
    BY <1>5, <2>1 DEF IInv, ClaimInv
  <2> QED
    BY <2>2, SameSets DEF ClaimInv
<1>15. UniqueInv' /\ GivenInv'
  BY <1>3, <1>5, <1>7 DEF IInv, UniqueInv, GivenInv
<1>16. OwnedInv'
  <2>1. \A h : Owned(h) => Owned(h)'
    BY <1>3, <1>5 DEF Owned
  <2> QED
    BY <1>5, <1>7, <2>1 DEF IInv, OwnedInv
<1> QED
  BY <1>8, <1>9, <1>10, <1>11, <1>12, <1>13, <1>14, <1>15, <1>16 DEF IInv

-----------------------------------------------------------------------------
(* The theorems *)

\* The invariant holds at all times.
THEOREM Invariant == Spec => []StreamsInv
<1>1. ASSUME IInv, ~ astray', [Next]_vars PROVE IInv'
  <2>1. ASSUME NEW v \in Voice, Trigger(v) PROVE IInv'
    BY <1>1, <2>1, TriggerStep
  <2>2. ASSUME NEW v \in Voice, TriggerFails(v) PROVE IInv'
    <3>1. orders' \in OrderID
      <4>1. CASE orders' = orders
        BY <1>1, <4>1, SameSets DEF IInv, TypeOK
      <4>2. CASE orders' = Candidate(MaxStreams)
        <5>1. MaxStreams \in 1..MaxStreams /\ orders \in OrderID
          BY <1>1, StreamsFinite DEF IInv, TypeOK
        <5>2. Candidate(MaxStreams) \in 1..MaxStreams
          BY <5>1, CandidateType
        <5> QED
          BY <4>2, <5>2, StreamsFinite DEF OrderID
      <4> QED
        BY <2>2, <4>1, <4>2 DEF TriggerFails
    <3>2. /\ KillImmediately(v, FALSE)
          /\ UNCHANGED <<strm, slot, creationQ, ghostQ, disk, unused, handles, resetting,
                         missed, lost>>
      BY <2>2 DEF TriggerFails
    <3> QED
      BY <1>1, <3>1, <3>2, KillStep
  <2>3. ASSUME NEW v \in Voice, PickUp(v) PROVE IInv'
    BY <1>1, <2>3, PickUpStep
  <2>4. ASSUME NEW v \in Voice, TooLate(v) \/ EndVoice(v) PROVE IInv'
    <3>1. /\ \E notify \in BOOLEAN : KillImmediately(v, notify)
          /\ UNCHANGED <<strm, slot, creationQ, ghostQ, disk, unused, ids, resetting,
                         missed, lost>>
      BY <2>4 DEF TooLate, EndVoice
    <3>2. PICK notify \in BOOLEAN : KillImmediately(v, notify)
      BY <3>1
    <3>3. orders' \in OrderID /\ handles' = handles
      BY <1>1, <3>1 DEF ids, IInv, TypeOK
    <3> QED
      BY <1>1, <3>1, <3>2, <3>3, KillStep
  <2>5. ASSUME NEW v \in Voice, ReadToEnd(v) PROVE IInv'
    BY <1>1, <2>5, ReadToEndStep
  <2>14. ASSUME NEW v \in Voice, ReadAstray(v) PROVE IInv'
    BY <1>1, <2>14 DEF ReadAstray
  <2>6. CASE ResetVoices
    BY <1>1, <2>6, ResetVoicesStep
  <2>7. CASE ResetDisk
    BY <1>1, <2>7, ResetDiskStep
  <2>8. CASE Ghost
    BY <1>1, <2>8, GhostStep
  <2>9. CASE CreateStream
    BY <1>1, <2>9, CreateStreamStep
  <2>10. CASE DeleteStream
    BY <1>1, <2>10, DeleteStreamStep
  <2>11. ASSUME NEW s \in Stream, Refill(s) PROVE IInv'
    BY <1>1, <2>11, RefillStep
  <2>12. CASE GhostsDone \/ CreateDone \/ DeleteDone \/ RefillDone
    <3>1. UNCHANGED <<voices, strm, slot, creationQ, deletionQ, ghostQ, unused, ids,
                      resetting, history>>
      BY <2>12 DEF GhostsDone, CreateDone, DeleteDone, RefillDone
    <3>2. /\ at' \in {"ghosts", "create", "delete", "refill"}
          /\ pass' \in Nat /\ read' \subseteq Stream
      BY <1>1, <2>12 DEF GhostsDone, CreateDone, DeleteDone, RefillDone, IInv, TypeOK
    <3> QED
      BY <1>1, <3>1, <3>2, LoopStep
  <2>13. CASE UNCHANGED vars
    <3>1. UNCHANGED <<voices, strm, slot, creationQ, deletionQ, ghostQ, unused, ids,
                      resetting, history>>
      BY <2>13 DEF vars
    <3>2. /\ at' \in {"ghosts", "create", "delete", "refill"}
          /\ pass' \in Nat /\ read' \subseteq Stream
      BY <1>1, <2>13 DEF vars, disk, IInv, TypeOK
    <3> QED
      BY <1>1, <3>1, <3>2, LoopStep
  <2> QED
    BY <1>1, <2>1, <2>2, <2>3, <2>4, <2>5, <2>6, <2>7, <2>8, <2>9, <2>10, <2>11, <2>12,
       <2>13, <2>14 DEF Next, Main
<1>2. ASSUME astray, [Next]_vars PROVE astray'
  <2> USE DEF history, voices
  <2>1. ASSUME NEW v \in Voice, KillImmediately(v, TRUE) \/ KillImmediately(v, FALSE)
        PROVE  astray'
    BY <1>2, <2>1 DEF KillImmediately
  <2>2. ASSUME NEW v \in Voice, TriggerFails(v) \/ TooLate(v) \/ EndVoice(v) PROVE astray'
    BY <2>1, <2>2 DEF TriggerFails, TooLate, EndVoice
  <2>3. ASSUME NEW v \in Voice, Trigger(v) \/ PickUp(v) \/ ReadToEnd(v) \/ ReadAstray(v)
        PROVE  astray'
    BY <1>2, <2>3 DEF Trigger, PickUp, ReadToEnd, ReadAstray
  <2>4. CASE ResetVoices \/ ResetDisk \/ Ghost \/ GhostsDone
    BY <1>2, <2>4 DEF ResetVoices, ResetDisk, Ghost, GhostsDone
  <2>5. CASE CreateStream \/ CreateDone
    BY <1>2, <2>5 DEF CreateStream, CreateDone
  <2>6. CASE DeleteStream \/ DeleteDone \/ RefillDone
    BY <1>2, <2>6 DEF DeleteStream, DeleteDone, RefillDone
  <2>7. ASSUME NEW s \in Stream, Refill(s) PROVE astray'
    BY <1>2, <2>7 DEF Refill
  <2>8. CASE UNCHANGED vars
    BY <1>2, <2>8 DEF vars
  <2> QED
    BY <1>2, <2>2, <2>3, <2>4, <2>5, <2>6, <2>7, <2>8 DEF Next, Main
<1>3. StreamsInv /\ [Next]_vars => StreamsInv'
  BY <1>1, <1>2 DEF StreamsInv
<1>4. Init => StreamsInv
  BY InitIInv DEF StreamsInv
<1> QED
  BY <1>3, <1>4, PTL DEF Spec

\* The commands in the deletion queue that are about a stream point to different streams
\* or are for different slots.
LEMMA Suffices == IInv => DeletionQueueSuffices
<1> SUFFICES ASSUME IInv PROVE DeletionQueueSuffices
  OBVIOUS
<1> DEFINE A == {i \in 1..Len(deletionQ) : deletionQ[i].order # 0
                                             /\ deletionQ[i].stream # Nobody}
           B == {i \in 1..Len(deletionQ) : deletionQ[i].order # 0
                                             /\ deletionQ[i].stream = Nobody}
           I == {i \in 1..Len(deletionQ) : deletionQ[i].order # 0}
<1>1. \A i \in 1..Len(deletionQ) :
        /\ deletionQ[i] \in Queued(deletionQ)
        /\ deletionQ[i].stream \in Stream \cup {Nobody} /\ deletionQ[i].order \in OrderID
        /\ deletionQ[i].handle \in Handle
        /\ deletionQ[i].order # 0 => deletionQ[i].handle # 0
  <2>1. \A i \in 1..Len(deletionQ) : deletionQ[i] \in Queued(deletionQ)
    BY DEF Queued
  <2> QED
    BY <2>1, Types DEF IInv, PointedInv
<1>2. IsFiniteSet(A) /\ Cardinality(A) <= MaxStreams
  <2> DEFINE f == [i \in A |-> deletionQ[i].stream]
  <2>1. f \in [A -> Stream]
    BY <1>1
  <2>2. \A i, j \in A : f[i] = f[j] => i = j
    BY <1>1 DEF IInv, PointedInv, UniqueInv
  <2> HIDE DEF A, f
  <2>3. f \in Injection(A, Stream)
    BY <2>1, <2>2 DEF Injection, IsInjective
  <2> QED
    BY <2>3, FS_Injection, StreamsFinite DEF MaxStreams
<1>3. IsFiniteSet(B) /\ Cardinality(B) <= MaxStreams
  <2> DEFINE f == [i \in B |-> deletionQ[i].order]
  <2>1. f \in [B -> 1..MaxStreams]
    BY <1>1, StreamsFinite DEF OrderID
  <2>2. \A i, j \in B : f[i] = f[j] => i = j
    <3>1. \A i \in B : Claim(deletionQ[i].order, deletionQ[i].handle)
      BY <1>1 DEF Claim
    <3>2. \A i, j \in B : deletionQ[i].order = deletionQ[j].order
                            => deletionQ[i].handle = deletionQ[j].handle
      BY <1>1, <3>1 DEF IInv, ClaimInv
    <3> QED
      BY <1>1, <3>2 DEF IInv, UniqueInv
  <2> HIDE DEF B, f
  <2>3. f \in Injection(B, 1..MaxStreams)
    BY <2>1, <2>2 DEF Injection, IsInjective
  <2>4. IsFiniteSet(1..MaxStreams) /\ Cardinality(1..MaxStreams) = MaxStreams
    BY FS_Interval, StreamsFinite
  <2> QED
    BY <2>3, <2>4, FS_Injection
<1>4. I = A \cup B /\ A \cap B = {}
  OBVIOUS
<1> HIDE DEF A, B, I
<1>5. Cardinality(I) = Cardinality(A) + Cardinality(B) - Cardinality(A \cap B)
  BY <1>2, <1>3, <1>4, FS_Union
<1>6. Cardinality(I) <= 2 * MaxStreams
  <2>1. Cardinality(A) \in Nat /\ Cardinality(B) \in Nat /\ Cardinality(A \cap B) = 0
    BY <1>2, <1>3, <1>4, FS_CardinalityType, FS_EmptySet
  <2> QED
    BY <1>2, <1>3, <1>5, <2>1, StreamsFinite
<1> QED
  BY <1>6 DEF DeletionQueueSuffices, I

\* OrderNewStream(), CreateStream(), DeleteStream(), the ghost queue and KillImmediately():
\* however late each side looks, a voice plays and a command kills the stream of its own
\* handle, the slot of an order is its own until its stream is there, every stream in use
\* has a voice or a command that will free it, and the deletion queue has room for the
\* commands about streams.
THEOREM StreamsAreSound == Spec => []StreamsSound
<1>1. StreamsInv => StreamsSound
  <2> SUFFICES ASSUME IInv PROVE StreamsSound
    BY DEF StreamsInv, StreamsSound
  <2>1. HoldsOwnStream
    <3>1. ASSUME NEW v \in Voice, ref[v].stream # Nobody
          PROVE  /\ strm[ref[v].stream].state # "unused"
                 /\ strm[ref[v].stream].handle = ref[v].handle
      BY <3>1, Types DEF IInv, VoiceInv, StreamInv, PlayedInv
    <3> QED
      BY <3>1 DEF HoldsOwnStream
  <2>2. KillsOwnStream
    BY DEF IInv, PointedInv, KillsOwnStream
  <2>3. SlotIsReserved
    <3>1. \A i \in 1..Len(creationQ) : slot[creationQ[i].order] = Reserved
      <4>1. \A i \in 1..Len(creationQ) : creationQ[i] \in Queued(creationQ)
        BY DEF Queued
      <4> QED
        BY <4>1 DEF IInv, CreationInv
    <3>2. Len(creationQ) \in Nat
      BY Types DEF IInv
    <3>3. \A i \in 1..Len(creationQ) : \A j \in 1..i - 1 :
            creationQ[j].order # creationQ[i].order
      <4>1. \A i \in 1..Len(creationQ) : \A j \in 1..i - 1 :
              j \in 1..Len(creationQ) /\ i # j
        BY <3>2
      <4> QED
        BY <4>1 DEF IInv, CreationInv
    <3> QED
      BY <3>1, <3>3 DEF SlotIsReserved
  <2>4. NoStreamLeak
    BY DEF IInv, StreamInv, OwnedInv, Owned, NoStreamLeak
  <2>5. DeletionQueueSuffices
    BY Suffices
  <2> QED
    BY <2>1, <2>2, <2>3, <2>4, <2>5 DEF StreamsSound, IInv
<1>2. Spec => []StreamsInv
  BY Invariant
<1> QED
  BY <1>1, <1>2, PTL

-----------------------------------------------------------------------------
(* Data of a stream: the inductive invariant *)

\* Whole frames only
Whole(x) == x % FrameSize = 0

\* The number of the byte that write_ptr stands for, and of the one that would be at
\* the end of the ring
WritePos == consumed + ReadSpace
RingEnd  == consumed + size - read_ptr

\* Data moves in whole frames, and never more than fits.
FramesInv == /\ Whole(consumed) /\ Whole(ReadSpace) /\ Whole(refill)
             /\ ReadSpace + refill < size

\* What has been read of the sample is in the buffer, or has been consumed; at its end,
\* silence may follow.
StateInv ==
  /\ state = "active" => produced < SampleEnd /\ WritePos + refill = produced
                         /\ left = NoSilenceYet
  /\ state = "end" => /\ produced = SampleEnd /\ WritePos + refill >= SampleEnd
                      /\ left = NoSilenceYet => WritePos + refill = SampleEnd
  /\ state = "unused" => pc \in {"ended", "lost"}
  /\ left # NoSilenceYet \/ state = "unused" => refill = 0

\* The voice has seen what it may read; when it has taken notice of the end of the stream,
\* it sees all, knows what is left of the sample, and is provided with enough for the cycle.
PlaybackInv ==
  /\ pc \in {"ended", "lost"} => consumed >= SampleEnd /\ refill = 0 /\ state # "active"
  /\ pc \notin {"ended", "lost"} => consumed < SampleEnd
  /\ pc = "waits" => left = NoSilenceYet
  /\ pc \in {"looked", "synthesizes"} => seen * Bytes <= ReadSpace
  /\ pc = "looked" /\ left # NoSilenceYet => seen * Bytes = ReadSpace
  /\ pc = "synthesizes" /\ left # NoSilenceYet => ReadSpace >= MaxWords * Bytes
  /\ pc \notin {"ended", "lost"} /\ left # NoSilenceYet =>
       left * Bytes = SampleEnd - consumed

\* The bytes between the pointers are those of the sample ...
DataInv == \A i \in 0..ReadSpace - 1 : consumed + i < SampleEnd =>
  buf[IF read_ptr + i < size THEN read_ptr + i ELSE read_ptr + i - size] = consumed + i

\* ... and if they go beyond the end of the ring, the wrap space has them, too, as far
\* as whole frames fit into it.
WrapInv == write_ptr < read_ptr =>
  \A e \in RingEnd..RingEnd + wrap_elements : Whole(e) =>
    \A a \in RingEnd..e - 1 : a < SampleEnd => buf[size + a - RingEnd] = a

\* What has been read but not yet been published is behind write_ptr; if it reaches the
\* end of the ring, then it fills the wrap space, or is the end of the sample, and does
\* not reach the data that is yet to be read.
PendingInv == refill > 0 =>
  /\ \A i \in 0..refill - 1 : buf[write_ptr + i] = WritePos + i
  /\ write_ptr + refill <= size + wrap_elements
  /\ write_ptr + refill >= size =>
       /\ read_ptr <= write_ptr /\ wrap_elements < read_ptr
       /\ \/ WritePos + refill = SampleEnd
          \/ \A e \in RingEnd..RingEnd + wrap_elements : Whole(e) => e <= WritePos + refill

BufferInv == /\ sample \in Samples /\ BufferTypeOK /\ FramesInv /\ StateInv /\ PlaybackInv
        /\ DataInv /\ WrapInv /\ PendingInv

\* Behind a hasty voice only the types are left, and the disk thread reads no more.
AnyInv == IF hasty THEN sample \in Samples /\ BufferTypeOK /\ state # "active" ELSE BufferInv

-----------------------------------------------------------------------------
(* Data of a stream: numbers *)

\* The sizes of the ring and of the wrap space, for which RingBuffer has enough memory
LEMMA Sizes == /\ size \in Nat /\ wrap_elements \in Nat /\ wrap_elements >= 24
               /\ size > 2 * wrap_elements + 6
               /\ wrap_elements = 3 * (2 * MaxFrames + 6) /\ MaxFrames \in Nat /\ MaxFrames > 0
               /\ MaxRefill \in Nat /\ MaxRefill >= 2
<1>1. /\ MaxFrames \in Nat \ {0} /\ size \in Nat /\ size > 2 * wrap_elements + 6
      /\ MaxRefill \in Nat /\ MaxRefill >= 2
  BY SamplesAssumption, SizeAssumption
<1>2. wrap_elements = 3 * (2 * MaxFrames + 6)
  BY DEF wrap_elements, WrapWords, Interpolated
<1> HIDE DEF wrap_elements, size
<1> QED
  BY <1>1, <1>2

\* The buffer of a stream keeps its size.
LEMMA SameSize == size' = size /\ wrap_elements' = wrap_elements
BY DEF size, wrap_elements, WrapWords, Interpolated

\* & size_mask of the difference of two pointers
LEMMA Masked ==
  \A w, r \in 0..size - 1 :
    /\ (w - r + size) % size = IF r <= w THEN w - r ELSE w - r + size
    /\ (w - r + size) % size \in 0..size - 1
<1> SUFFICES ASSUME NEW w \in 0..size - 1, NEW r \in 0..size - 1
             PROVE  /\ (w - r + size) % size = IF r <= w THEN w - r ELSE w - r + size
                    /\ (w - r + size) % size \in 0..size - 1
  OBVIOUS
<1>1. \A n \in Nat \ {0} : \A x \in 0..n - 1 : x % n = x /\ (x + n) % n = x
  OBVIOUS
<1>2. size \in Nat \ {0}
  BY Sizes
<1>3. CASE r <= w
  <2>1. w - r \in 0..size - 1
    BY <1>2, <1>3
  <2> QED
    BY <1>1, <1>2, <1>3, <2>1
<1>4. CASE ~ r <= w
  <2>1. w - r + size \in 0..size - 1
    BY <1>2, <1>4
  <2> QED
    BY <1>1, <1>2, <1>4, <2>1
<1> QED
  BY <1>3, <1>4

\* & size_mask of a pointer that moves on by less than the ring, as increment_read_ptr()
\* moves it
LEMMA Advance ==
  \A r \in 0..size - 1, x \in 0..size - 1 :
    /\ (r + x) % size = IF r + x < size THEN r + x ELSE r + x - size
    /\ (r + x) % size \in 0..size - 1
<1> SUFFICES ASSUME NEW r \in 0..size - 1, NEW x \in 0..size - 1
             PROVE  /\ (r + x) % size = IF r + x < size THEN r + x ELSE r + x - size
                    /\ (r + x) % size \in 0..size - 1
  OBVIOUS
<1>1. \A n \in Nat \ {0} : \A y \in 0..n - 1 : y % n = y /\ (y + n) % n = y
  OBVIOUS
<1>2. size \in Nat \ {0}
  BY Sizes
<1>3. CASE r + x < size
  <2>1. r + x \in 0..size - 1
    BY <1>2, <1>3
  <2> QED
    BY <1>1, <1>2, <1>3, <2>1
<1>4. CASE ~ r + x < size
  <2>1. r + x - size \in 0..size - 1 /\ r + x = (r + x - size) + size
    BY <1>2, <1>4
  <2> QED
    BY <1>1, <1>2, <1>4, <2>1
<1> QED
  BY <1>3, <1>4

\* The numbers of a sample: whole frames, and the words that a cycle may need
LEMMA SampleNumbers ==
  ASSUME sample \in Samples
  PROVE  /\ Bytes \in {2, 3} /\ FrameSize \in {2, 3, 4, 6}
         /\ sample.channels \in {1, 2} /\ FrameSize = Bytes * sample.channels
         /\ SampleEnd \in Nat /\ SampleEnd > 0 /\ Whole(SampleEnd) /\ Whole(0)
         /\ \A x, y \in Int : Whole(x) /\ Whole(y) => Whole(x + y) /\ Whole(x - y)
         /\ \A n \in Nat : n * FrameSize \in Nat /\ Whole(n * FrameSize)
         /\ \A n \in 0..MaxFrames :
              /\ (n * sample.channels + Interpolated) * Bytes = n * FrameSize + 6 * Bytes
              /\ (n * sample.channels + Interpolated) * Bytes \in 0..wrap_elements
              /\ Whole((n * sample.channels + Interpolated) * Bytes)
              /\ n * FrameSize < MaxWords * Bytes
              /\ n * FrameSize < size
         /\ MaxWords \in Nat /\ MaxWords * Bytes \in Nat /\ MaxWords * Bytes <= wrap_elements
         /\ Whole(MaxWords * Bytes)
<1>1. PICK b \in {2, 3}, c \in {1, 2}, l \in Nat \ {0} :
        b = sample.bytes /\ c = sample.channels /\ l = sample.length
  BY SamplesAssumption
<1>2. Bytes = b /\ FrameSize = b * c /\ SampleEnd = l * (b * c)
      /\ MaxWords = MaxFrames * c + 6 /\ Interpolated = 6
  BY <1>1 DEF Bytes, FrameSize, SampleEnd, MaxWords, Interpolated
<1>3. MaxFrames \in Nat /\ wrap_elements = 3 * (2 * MaxFrames + 6) /\ size \in Nat
      /\ size > 2 * wrap_elements + 6
  BY Sizes
<1> HIDE DEF wrap_elements, size, MaxWords, Bytes, FrameSize, SampleEnd
<1>4. CASE b = 2 /\ c = 1
  BY <1>1, <1>2, <1>3, <1>4, Z3 DEF Whole
<1>5. CASE b = 2 /\ c = 2
  BY <1>1, <1>2, <1>3, <1>5, Z3 DEF Whole
<1>6. CASE b = 3 /\ c = 1
  BY <1>1, <1>2, <1>3, <1>6, Z3 DEF Whole
<1>7. CASE b = 3 /\ c = 2
  BY <1>1, <1>2, <1>3, <1>7, Z3 DEF Whole
<1> QED
  BY <1>4, <1>5, <1>6, <1>7

\* Words and bytes
LEMMA WordNumbers ==
  ASSUME sample \in Samples
  PROVE  /\ \A x, y \in Int : /\ x * Bytes \in Int
                              /\ x <= y <=> x * Bytes <= y * Bytes
                              /\ (x - y) * Bytes = x * Bytes - y * Bytes
         /\ \A n \in Nat : (n * sample.channels) * Bytes = n * FrameSize
                           /\ n * sample.channels \in Nat
         /\ \A x \in Nat : /\ x \div Bytes \in 0..x
                           /\ (x \div Bytes) * Bytes <= x
                           /\ Whole(x) => (x \div Bytes) * Bytes = x
<1>1. PICK b \in {2, 3}, c \in {1, 2} : b = sample.bytes /\ c = sample.channels
  BY SamplesAssumption
<1>2. Bytes = b /\ FrameSize = b * c
  BY <1>1 DEF Bytes, FrameSize
<1> HIDE DEF Bytes, FrameSize
<1>4. CASE b = 2 /\ c = 1
  BY <1>1, <1>2, <1>4, Z3 DEF Whole
<1>5. CASE b = 2 /\ c = 2
  BY <1>1, <1>2, <1>5, Z3 DEF Whole
<1>6. CASE b = 3 /\ c = 1
  BY <1>1, <1>2, <1>6, Z3 DEF Whole
<1>7. CASE b = 3 /\ c = 2
  BY <1>1, <1>2, <1>7, Z3 DEF Whole
<1> QED
  BY <1>4, <1>5, <1>6, <1>7

\* std::min() and std::max()
LEMMA MinMax ==
  \A x, y \in Int : /\ Min({x, y}) = IF x <= y THEN x ELSE y
                    /\ Max({x, y}) = IF x >= y THEN x ELSE y
<1> SUFFICES ASSUME NEW x \in Int, NEW y \in Int
             PROVE  /\ Min({x, y}) = IF x <= y THEN x ELSE y
                    /\ Max({x, y}) = IF x >= y THEN x ELSE y
  OBVIOUS
<1>1. CASE x <= y
  <2>1. x \in {x, y} /\ \A z \in {x, y} : x <= z
    BY <1>1
  <2>2. y \in {x, y} /\ \A z \in {x, y} : y >= z
    BY <1>1
  <2> QED
    BY <1>1, <2>1, <2>2 DEF Min, Max
<1>2. CASE ~ x <= y
  <2>1. y \in {x, y} /\ \A z \in {x, y} : y <= z
    BY <1>2
  <2>2. x \in {x, y} /\ \A z \in {x, y} : x >= z
    BY <1>2
  <2> QED
    BY <1>2, <2>1, <2>2 DEF Min, Max
<1> QED
  BY <1>1, <1>2

\* A stream plays one sample.
LEMMA SameSample ==
  ASSUME sample' = sample
  PROVE  /\ Bytes' = Bytes /\ FrameSize' = FrameSize /\ SampleEnd' = SampleEnd
         /\ MaxWords' = MaxWords
BY DEF Bytes, FrameSize, SampleEnd, MaxWords, Interpolated

\* What the type invariant says of the pointers
LEMMA Pointers ==
  ASSUME BufferTypeOK
  PROVE  /\ write_ptr \in 0..size - 1 /\ read_ptr \in 0..size - 1
         /\ ReadSpace = IF read_ptr <= write_ptr THEN write_ptr - read_ptr
                        ELSE write_ptr - read_ptr + size
         /\ ReadSpace \in 0..size - 1
         /\ consumed \in Nat /\ refill \in Nat /\ WritePos \in Nat /\ RingEnd \in Nat
         /\ WritePos = consumed + ReadSpace /\ RingEnd = consumed + size - read_ptr
<1>1. /\ write_ptr \in 0..size - 1 /\ read_ptr \in 0..size - 1
      /\ consumed \in Nat /\ refill \in Nat
  BY Sizes DEF BufferTypeOK
<1>2. /\ ReadSpace = IF read_ptr <= write_ptr THEN write_ptr - read_ptr
                     ELSE write_ptr - read_ptr + size
      /\ ReadSpace \in 0..size - 1
  BY <1>1, Masked DEF ReadSpace
<1>3. WritePos = consumed + ReadSpace /\ RingEnd = consumed + size - read_ptr
  BY DEF WritePos, RingEnd
<1> QED
  BY <1>1, <1>2, <1>3, Sizes

\* The invariant holds when the stream is launched.
LEMMA BufferInitInv == BufferInit => BufferInv
<1> SUFFICES ASSUME BufferInit PROVE BufferInv
  OBVIOUS
<1>1. sample \in Samples /\ SampleEnd \in Nat /\ SampleEnd > 0 /\ Whole(0)
  BY SampleNumbers DEF BufferInit
<1>2. BufferTypeOK
  <2>1. /\ buf \in [0..size + wrap_elements - 1 -> {Silence, Stale} \cup 0..SampleEnd - 1]
    BY DEF BufferInit
  <2>2. /\ {write_ptr, read_ptr} \subseteq 0..size - 1
        /\ produced \in 0..SampleEnd /\ refill \in 0..size
        /\ seen \in 0..size /\ frames \in 0..MaxFrames /\ left \in NoSilenceYet..size
        /\ consumed \in Nat
    BY <1>1, Sizes DEF BufferInit, NoSilenceYet
  <2>3. /\ state \in {"active", "end", "unused"}
        /\ pc \in {"waits", "idle", "looked", "synthesizes", "ended", "lost"}
        /\ hasty \in BOOLEAN
    BY DEF BufferInit
  <2> QED
    BY <2>1, <2>2, <2>3 DEF BufferTypeOK
<1>3. ReadSpace = 0 /\ WritePos = 0
  BY <1>2, Pointers DEF BufferInit
<1>4. FramesInv
  BY <1>1, <1>3, Sizes DEF FramesInv, BufferInit
<1>5. StateInv /\ PlaybackInv
  BY <1>1, <1>3 DEF StateInv, PlaybackInv, BufferInit
<1>6. DataInv /\ WrapInv /\ PendingInv
  BY <1>3 DEF DataInv, WrapInv, PendingInv, BufferInit
<1> QED
  BY <1>1, <1>2, <1>4, <1>5, <1>6 DEF BufferInv

-----------------------------------------------------------------------------
(* Data of a stream: the disk thread *)

\* write_space_to_end_with_wrap() leaves unread data alone.
LEMMA SpaceToEnd ==
  ASSUME BufferTypeOK
  PROVE  /\ WriteSpaceToEnd \in Nat /\ WriteSpace \in Nat
         /\ ReadSpace + WriteSpaceToEnd < size \/ WriteSpaceToEnd >= size - write_ptr
         /\ WriteSpaceToEnd >= size - write_ptr =>
              /\ read_ptr <= write_ptr /\ wrap_elements < read_ptr
              /\ WriteSpaceToEnd = size - write_ptr + wrap_elements
         /\ WriteSpace = 0 \/ WriteSpaceToEnd < 6 => ReadSpace >= wrap_elements
BY Pointers, Sizes DEF WriteSpaceToEnd, WriteSpace

\* adjust_write_space_to_avoid_boundary() and the rounding to frames: what is read next
\* fits, and it goes into the wrap space only if it fills that.
LEMMA RefillSize ==
  ASSUME BufferTypeOK, sample \in Samples
  PROVE  /\ RefillFrames \in Nat /\ RefillFrames * FrameSize \in Nat
         /\ RefillFrames * FrameSize <= WriteSpaceToEnd
         /\ write_ptr + RefillFrames * FrameSize >= size =>
              /\ WriteSpaceToEnd >= size - write_ptr
              /\ \A x \in 0..WriteSpaceToEnd : Whole(x) => x <= RefillFrames * FrameSize
         /\ RefillFrames = 0 => WriteSpace = 0 \/ WriteSpaceToEnd < 6
<1>1. PICK b \in {2, 3}, c \in {1, 2} : b = sample.bytes /\ c = sample.channels
  BY SamplesAssumption
<1>2. Bytes = b /\ FrameSize = b * c
  BY <1>1 DEF Bytes, FrameSize
<1>3. PICK cnt \in Nat : cnt = WriteSpaceToEnd
  BY SpaceToEnd
<1>4. PICK words \in Nat : words = cnt \div b
  BY <1>1
<1>5. PICK m \in Nat : m = Min({words, MaxRefill}) /\ m = (IF words <= MaxRefill THEN words ELSE MaxRefill)
  BY MinMax, Sizes
<1>6. PICK amount \in Nat :
        /\ amount = Adjusted(words * b, m * b) \div b
        /\ amount = IF write_ptr + m * b \in size..size + wrap_elements - 1 THEN words ELSE m
  <2>1. (words * b) \div b = words /\ (m * b) \div b = m
    BY <1>1
  <2> QED
    BY <2>1 DEF Adjusted
<1>7. RefillFrames = IF WriteSpace = 0 THEN 0 ELSE amount \div c
  BY <1>1, <1>2, <1>3, <1>4, <1>5, <1>6 DEF RefillFrames
<1>8. PICK w \in Nat, f \in Nat : w = write_ptr /\ f = amount \div c
  BY <1>1, Pointers, Sizes
<1>9. size \in Nat /\ wrap_elements \in Nat /\ MaxRefill \in Nat /\ MaxRefill >= 2
  BY Sizes
<1>10. cnt >= size - w => cnt = size - w + wrap_elements
  BY <1>3, <1>8, SpaceToEnd
<1> HIDE DEF RefillFrames, size, wrap_elements, Bytes, FrameSize, WriteSpace
<1>11. words * b \in Nat /\ words * b <= cnt /\ cnt < words * b + b
  <2>1. CASE b = 2
    BY <1>4, <2>1
  <2>2. CASE b = 3
    BY <1>4, <2>2
  <2> QED
    BY <2>1, <2>2
<1>12. /\ f * c \in Nat /\ f * c <= amount /\ amount < f * c + c
       /\ f * (b * c) = (f * c) * b
  <2>1. amount \in Nat /\ (c = 1 \/ c = 2) /\ (b = 2 \/ b = 3)
    OBVIOUS
  <2>2. CASE c = 1
    BY <1>8, <2>1, <2>2
  <2>3. CASE c = 2
    BY <1>8, <2>1, <2>3
  <2> QED
    BY <2>1, <2>2, <2>3
<1>13. amount <= words /\ (words >= 2 => amount >= 2) /\ (amount = words \/ amount = m) /\ m <= words
  BY <1>5, <1>6, <1>9
<1>14. \A x, y \in Nat : x * b \in Nat /\ (x <= y <=> x * b <= y * b)
  <2>1. CASE b = 2
    BY <2>1
  <2>2. CASE b = 3
    BY <2>2
  <2> QED
    BY <2>1, <2>2
<1>15. f * (b * c) \in Nat /\ f * (b * c) <= amount * b /\ amount * b <= words * b
       /\ m * b \in Nat /\ m * b <= words * b /\ amount * b \in Nat
  BY <1>12, <1>13, <1>14
<1>16. ASSUME w + f * (b * c) >= size PROVE amount = words /\ cnt >= size - w
  <2>1. cnt >= size - w
    BY <1>8, <1>9, <1>11, <1>15, <1>16
  <2>2. CASE w + m * b \in size..size + wrap_elements - 1
    BY <1>6, <1>8, <2>1, <2>2
  <2>3. CASE w + m * b \notin size..size + wrap_elements - 1
    <3>1. amount = m
      BY <1>6, <1>8, <2>3
    <3>2. w + m * b >= size + wrap_elements
      BY <1>8, <1>9, <1>15, <1>16, <2>3, <3>1
    <3>3. words * b <= m * b
      BY <1>8, <1>9, <1>10, <1>11, <1>15, <2>1, <3>2
    <3>4. words <= m
      BY <1>14, <3>3
    <3> QED
      BY <1>13, <2>1, <3>1, <3>4
  <2> QED
    BY <2>2, <2>3
<1>17. ASSUME amount = words, NEW x \in 0..cnt, x % (b * c) = 0 PROVE x <= f * (b * c)
  <2>1. cnt < (f * c + c) * b
    <3>1. words + 1 <= f * c + c /\ words + 1 \in Nat /\ f * c + c \in Nat
      BY <1>12, <1>17
    <3>2. (words + 1) * b <= (f * c + c) * b
      BY <1>14, <3>1
    <3>3. (words + 1) * b = words * b + b
      <4>1. CASE b = 2
        BY <4>1
      <4>2. CASE b = 3
        BY <4>2
      <4> QED
        BY <4>1, <4>2
    <3>4. (words + 1) * b \in Nat /\ (f * c + c) * b \in Nat
      BY <1>14, <3>1
    <3> QED
      BY <1>11, <3>2, <3>3, <3>4
  <2>2. b * c \in {2, 3, 4, 6} /\ (f * c + c) * b = f * (b * c) + b * c
    <3>1. CASE b = 2 /\ c = 1
      BY <3>1
    <3>2. CASE b = 2 /\ c = 2
      BY <3>2
    <3>3. CASE b = 3 /\ c = 1
      BY <3>3
    <3>4. CASE b = 3 /\ c = 2
      BY <3>4
    <3> QED
      BY <3>1, <3>2, <3>3, <3>4
  <2>3. PICK q \in {2, 3, 4, 6} : q = b * c
    BY <2>2
  <2>4. x % q = 0 /\ x < f * q + q /\ x \in Nat
    BY <1>17, <2>1, <2>2, <2>3
  <2>5. x <= f * q
    <3>1. CASE q = 2
      BY <2>4, <3>1
    <3>2. CASE q = 3
      BY <2>4, <3>2
    <3>3. CASE q = 4
      BY <2>4, <3>3
    <3>4. CASE q = 6
      BY <2>4, <3>4
    <3> QED
      BY <3>1, <3>2, <3>3, <3>4
  <2> QED
    BY <2>3, <2>5
<1>18. ASSUME f = 0 PROVE cnt < 6
  <2>1. amount < 2
    BY <1>12, <1>18
  <2>2. words = 0 \/ words = 1
    BY <1>13, <2>1
  <2> QED
    BY <1>4, <1>11, <2>2
<1>19. \/ RefillFrames = f
       \/ RefillFrames = 0 /\ WriteSpace = 0
  BY <1>7, <1>8
<1>20. CASE RefillFrames = f
  BY <1>2, <1>3, <1>8, <1>11, <1>15, <1>16, <1>17, <1>18, <1>20 DEF Whole
<1>21. CASE RefillFrames = 0 /\ WriteSpace = 0
  <2>1. 0 * FrameSize = 0 /\ write_ptr < size
    BY <1>2, Pointers, <1>9
  <2> QED
    BY <1>3, <1>8, <1>9, <1>21, <2>1
<1> QED
  BY <1>19, <1>20, <1>21

\* ReadAhead() up to the end of Read(): nothing that is yet to be read is overwritten.
LEMMA RefillBufferStep == ASSUME BufferInv, RefillBuffer PROVE BufferInv'
<1> DEFINE n == Min({RefillFrames * FrameSize, SampleEnd - produced})
           rs == ReadSpace
<1>1. /\ state = "active" /\ refill = 0 /\ RefillFrames > 0
      /\ buf' = Written([i \in 0..n - 1 |-> produced + i])
      /\ produced' = produced + n /\ refill' = n
      /\ state' = IF produced + n = SampleEnd THEN "end" ELSE "active"
      /\ sample' = sample /\ write_ptr' = write_ptr /\ read_ptr' = read_ptr
      /\ pc' = pc /\ seen' = seen /\ frames' = frames /\ left' = left
      /\ consumed' = consumed /\ hasty' = hasty
  BY Zenon DEF RefillBuffer, voice
<1>3. /\ BufferTypeOK /\ sample \in Samples /\ FrameSize \in {2, 3, 4, 6} /\ Bytes \in {2, 3}
      /\ SampleEnd \in Nat
      /\ RefillFrames \in Nat /\ RefillFrames * FrameSize \in Nat
  BY SampleNumbers, RefillSize DEF BufferInv
<1>4. /\ write_ptr \in 0..size - 1 /\ read_ptr \in 0..size - 1
      /\ rs = (IF read_ptr <= write_ptr THEN write_ptr - read_ptr
               ELSE write_ptr - read_ptr + size)
      /\ rs \in 0..size - 1 /\ consumed \in Nat
      /\ WritePos = consumed + rs /\ RingEnd = consumed + size - read_ptr
      /\ size \in Nat /\ wrap_elements \in Nat /\ size > wrap_elements
  BY <1>3, Pointers, Sizes
<1>5. /\ produced \in 0..SampleEnd /\ produced < SampleEnd /\ WritePos = produced
      /\ left = NoSilenceYet /\ pc \notin {"ended", "lost"}
  BY <1>1, <1>3, <1>4 DEF BufferInv, StateInv, PlaybackInv, BufferTypeOK
<1>6. /\ n \in Nat /\ n > 0 /\ n <= RefillFrames * FrameSize /\ n <= SampleEnd - produced
      /\ n = RefillFrames * FrameSize \/ produced + n = SampleEnd
  <2>1. RefillFrames * FrameSize > 0
    BY <1>1, <1>3
  <2>2. n = IF RefillFrames * FrameSize <= SampleEnd - produced
            THEN RefillFrames * FrameSize ELSE SampleEnd - produced
    BY <1>3, <1>5, MinMax
  <2> HIDE DEF n
  <2> QED
    BY <1>3, <1>5, <2>1, <2>2
<1>7. /\ rs + n < size \/ write_ptr + n >= size
      /\ write_ptr + n <= size + wrap_elements
      /\ write_ptr + n >= size =>
           /\ read_ptr <= write_ptr /\ wrap_elements < read_ptr
           /\ \/ produced + n = SampleEnd
              \/ \A x \in 0..size - write_ptr + wrap_elements : Whole(x) => x <= n
      /\ rs + n < size
  <2>1. /\ WriteSpaceToEnd \in Nat
        /\ rs + WriteSpaceToEnd < size \/ WriteSpaceToEnd >= size - write_ptr
        /\ WriteSpaceToEnd >= size - write_ptr =>
             /\ read_ptr <= write_ptr /\ wrap_elements < read_ptr
             /\ WriteSpaceToEnd = size - write_ptr + wrap_elements
    BY <1>3, SpaceToEnd
  <2>2. /\ RefillFrames * FrameSize <= WriteSpaceToEnd
        /\ write_ptr + RefillFrames * FrameSize >= size =>
             /\ WriteSpaceToEnd >= size - write_ptr
             /\ \A x \in 0..WriteSpaceToEnd : Whole(x) => x <= RefillFrames * FrameSize
    BY <1>3, RefillSize
  <2> HIDE DEF n, rs
  <2>3. PICK rf \in Nat, cnt \in Nat : rf = RefillFrames * FrameSize /\ cnt = WriteSpaceToEnd
    BY <1>3, <2>1
  <2>4. /\ write_ptr + n <= size + wrap_elements /\ rs + n < size
    BY <1>4, <1>6, <2>1, <2>2, <2>3
  <2>5. ASSUME write_ptr + n >= size
        PROVE  /\ read_ptr <= write_ptr /\ wrap_elements < read_ptr
               /\ \/ produced + n = SampleEnd
                  \/ \A x \in 0..size - write_ptr + wrap_elements : Whole(x) => x <= n
    BY <1>4, <1>6, <2>1, <2>2, <2>3, <2>5
  <2> QED
    BY <2>4, <2>5
<1>8. \A i \in 0..size + wrap_elements - 1 :
        buf'[i] = IF i - write_ptr \in 0..n - 1 THEN produced + (i - write_ptr) ELSE buf[i]
  <2> HIDE DEF n
  <2> QED
    BY <1>1, <1>3 DEF Written, BufferTypeOK
<1>9. buf' \in [0..size + wrap_elements - 1 -> {Silence, Stale} \cup 0..SampleEnd - 1]
  <2> HIDE DEF n
  <2>1. \A i \in 0..size + wrap_elements - 1 :
          buf'[i] \in {Silence, Stale} \cup 0..SampleEnd - 1
    BY <1>3, <1>4, <1>5, <1>6, <1>8 DEF BufferTypeOK
  <2>2. buf' = [i \in 0..size + wrap_elements - 1 |-> buf'[i]]
    BY <1>1, <1>3 DEF Written, BufferTypeOK
  <2> QED
    BY <2>1, <2>2
<1>10. /\ Bytes' = Bytes /\ FrameSize' = FrameSize /\ SampleEnd' = SampleEnd
       /\ MaxWords' = MaxWords /\ size' = size /\ wrap_elements' = wrap_elements
  BY <1>1, SameSample, SameSize
<1>11. ReadSpace' = rs /\ WritePos' = WritePos /\ RingEnd' = RingEnd
  BY <1>1, <1>10 DEF ReadSpace, WritePos, RingEnd
<1> HIDE DEF n, rs
<1>12. BufferTypeOK'
  <2>1. produced' \in 0..SampleEnd
    BY <1>1, <1>3, <1>5, <1>6
  <2>2. refill' \in 0..size
    BY <1>1, <1>4, <1>6, <1>7
  <2>3. state' \in {"active", "end", "unused"}
    BY <1>1
  <2> QED
    BY <1>1, <1>3, <1>9, <1>10, <2>1, <2>2, <2>3 DEF BufferTypeOK
<1>13. FramesInv'
  <2>1. Whole(n)
    <3>1. Whole(consumed) /\ Whole(rs) /\ Whole(SampleEnd)
          /\ Whole(RefillFrames * FrameSize)
      BY <1>3, SampleNumbers DEF BufferInv, FramesInv, rs
    <3>2. Whole(produced)
      <4>0. consumed \in Int /\ rs \in Int
        BY <1>4
      <4>1. Whole(consumed + rs)
        BY <1>3, <3>1, <4>0, SampleNumbers
      <4> QED
        BY <1>4, <1>5, <4>1
    <3>3. Whole(SampleEnd - produced)
      BY <1>3, <1>5, <3>1, <3>2, SampleNumbers
    <3>4. n = RefillFrames * FrameSize \/ n = SampleEnd - produced
      BY <1>3, <1>5, <1>6
    <3> QED
      BY <3>1, <3>3, <3>4
  <2>2. Whole(consumed) /\ Whole(rs)
    BY DEF BufferInv, FramesInv, rs
  <2> QED
    BY <1>1, <1>7, <1>10, <1>11, <2>1, <2>2 DEF FramesInv, Whole
<1>14. StateInv'
  <2>1. WritePos' + refill' = produced'
    BY <1>1, <1>5, <1>11
  <2>2. produced' <= SampleEnd /\ produced' \in Nat
    BY <1>1, <1>3, <1>5, <1>6
  <2> QED
    BY <1>1, <1>3, <1>5, <1>10, <2>1, <2>2 DEF StateInv
<1>15. PlaybackInv'
  BY <1>1, <1>5, <1>10, <1>11 DEF BufferInv, PlaybackInv, rs
<1>16. DataInv'
  <2>1. ASSUME NEW i \in 0..rs - 1, consumed + i < SampleEnd
        PROVE  buf'[IF read_ptr + i < size THEN read_ptr + i ELSE read_ptr + i - size]
                 = consumed + i
    <3>1. PICK p \in 0..size - 1 :
            p = IF read_ptr + i < size THEN read_ptr + i ELSE read_ptr + i - size
      <4>1. CASE read_ptr + i < size
        <5>1. read_ptr + i \in 0..size - 1
          BY <1>4, <4>1
        <5> QED
          BY <4>1, <5>1
      <4>2. CASE ~ read_ptr + i < size
        <5>1. read_ptr + i - size \in 0..size - 1
          BY <1>4, <4>2
        <5> QED
          BY <4>2, <5>1
      <4> QED
        BY <4>1, <4>2
    <3>2. p - write_ptr \notin 0..n - 1
      BY <1>4, <1>6, <1>7, <3>1
    <3>3. buf[p] = consumed + i
      BY <2>1, <3>1 DEF BufferInv, DataInv, rs
    <3> QED
      BY <1>4, <1>8, <3>1, <3>2, <3>3
  <2> QED
    BY <1>1, <1>10, <1>11, <2>1 DEF DataInv
<1>17. WrapInv'
  <2>1. ASSUME write_ptr < read_ptr, NEW e \in RingEnd..RingEnd + wrap_elements, Whole(e),
               NEW a \in RingEnd..e - 1, a < SampleEnd
        PROVE  buf'[size + a - RingEnd] = a
    <3>1. PICK x \in 0..size + wrap_elements - 1 : x = size + a - RingEnd
      BY <1>4, <2>1
    <3>2. x - write_ptr \notin 0..n - 1
      BY <1>4, <1>6, <1>7, <2>1, <3>1
    <3>3. buf[size + a - RingEnd] = a
      BY <2>1 DEF BufferInv, WrapInv
    <3> QED
      BY <1>8, <3>1, <3>2, <3>3
  <2>2. \A x : Whole(x)' <=> Whole(x)
    BY <1>10 DEF Whole
  <2> QED
    BY <1>1, <1>10, <1>11, <2>1, <2>2 DEF WrapInv
<1>18. PendingInv'
  <2>1. \A i \in 0..n - 1 : buf'[write_ptr + i] = WritePos + i
    <3>1. \A i \in 0..n - 1 : /\ write_ptr + i \in 0..size + wrap_elements - 1
                              /\ (write_ptr + i) - write_ptr = i
      BY <1>4, <1>6, <1>7
    <3> QED
      BY <1>5, <1>8, <3>1
  <2>2. ASSUME write_ptr + n >= size
        PROVE  \/ WritePos + n = SampleEnd
               \/ \A e \in RingEnd..RingEnd + wrap_elements : Whole(e) => e <= WritePos + n
    <3>1. CASE produced + n = SampleEnd
      BY <1>5, <3>1
    <3>2. CASE \A x \in 0..size - write_ptr + wrap_elements : Whole(x) => x <= n
      <4>1. ASSUME NEW e \in RingEnd..RingEnd + wrap_elements, Whole(e)
            PROVE  e <= WritePos + n
        <5>1. e - WritePos \in 0..size - write_ptr + wrap_elements /\ e \in Int
          BY <1>4, <1>7, <2>2
        <5>2. Whole(WritePos) /\ WritePos \in Int
          <6>1. Whole(consumed) /\ Whole(rs) /\ consumed \in Int /\ rs \in Int
            BY <1>4 DEF BufferInv, FramesInv, rs
          <6>2. Whole(consumed + rs) /\ consumed + rs \in Int
            BY <1>3, <6>1, SampleNumbers
          <6> QED
            BY <1>4, <6>2
        <5>3. Whole(e - WritePos)
          BY <1>3, <4>1, <5>1, <5>2, SampleNumbers
        <5>4. e - WritePos <= n
          BY <3>2, <5>1, <5>3
        <5> QED
          BY <1>6, <5>1, <5>2, <5>4
      <4> QED
        BY <4>1
    <3> QED
      BY <1>7, <2>2, <3>1, <3>2
  <2>3. \A x : Whole(x)' <=> Whole(x)
    BY <1>10 DEF Whole
  <2> QED
    BY <1>1, <1>7, <1>10, <1>11, <2>1, <2>2, <2>3 DEF PendingInv
<1> QED
  BY <1>1, <1>3, <1>12, <1>13, <1>14, <1>15, <1>16, <1>17, <1>18 DEF BufferInv

\* increment_write_ptr_with_wrap(): the voice can read on, in the ring and beyond its end.
LEMMA PublishStep == ASSUME BufferInv, Publish PROVE BufferInv'
<1> DEFINE rs == ReadSpace
           n == refill
           cross == write_ptr + refill >= size
<1>1. /\ n > 0 /\ buf' = Wrapped(n, buf) /\ write_ptr' = Advanced(n) /\ refill' = 0
      /\ sample' = sample /\ read_ptr' = read_ptr /\ state' = state
      /\ produced' = produced /\ consumed' = consumed
      /\ pc' = pc /\ seen' = seen /\ frames' = frames /\ left' = left /\ hasty' = hasty
  BY Zenon DEF Publish, voice
<1>2. BufferTypeOK /\ sample \in Samples
  BY DEF BufferInv
<1>3. /\ write_ptr \in 0..size - 1 /\ read_ptr \in 0..size - 1
      /\ rs = (IF read_ptr <= write_ptr THEN write_ptr - read_ptr
               ELSE write_ptr - read_ptr + size)
      /\ rs \in 0..size - 1 /\ consumed \in Nat /\ n \in Nat
      /\ WritePos = consumed + rs /\ RingEnd = consumed + size - read_ptr
      /\ size \in Nat /\ wrap_elements \in Nat /\ size > wrap_elements
  BY <1>2, Pointers, Sizes
<1>4. /\ rs + n < size
      /\ \A i \in 0..n - 1 : buf[write_ptr + i] = WritePos + i
      /\ write_ptr + n <= size + wrap_elements
      /\ cross => /\ read_ptr <= write_ptr /\ wrap_elements < read_ptr
                  /\ \/ WritePos + n = SampleEnd
                     \/ \A e \in RingEnd..RingEnd + wrap_elements :
                          Whole(e) => e <= WritePos + n
  BY <1>1 DEF BufferInv, FramesInv, PendingInv
<1>5. /\ Bytes' = Bytes /\ FrameSize' = FrameSize /\ SampleEnd' = SampleEnd
      /\ MaxWords' = MaxWords /\ size' = size /\ wrap_elements' = wrap_elements
      /\ \A x : Whole(x)' <=> Whole(x)
  BY <1>1, SameSample, SameSize DEF Whole
<1>6. /\ write_ptr' = IF cross THEN write_ptr + n - size ELSE write_ptr + n
      /\ write_ptr' \in 0..size - 1
      /\ cross => write_ptr' < read_ptr /\ write_ptr' <= wrap_elements
      /\ ~ cross /\ write_ptr < read_ptr => write_ptr' < read_ptr
      /\ ~ cross /\ read_ptr <= write_ptr => read_ptr <= write_ptr'
  BY <1>1, <1>3, <1>4 DEF Advanced
<1>7. \A i \in 0..size + wrap_elements - 1 :
        buf'[i] = IF cross /\ i < write_ptr' THEN buf[size + i] ELSE buf[i]
  <2>1. \A i \in 0..size + wrap_elements - 1 :
          buf'[i] = IF i < write_ptr + n - size THEN buf[size + i] ELSE buf[i]
    <3>1. /\ DOMAIN buf = 0..size + wrap_elements - 1
          /\ buf' = [i \in DOMAIN buf |-> IF i >= write_ptr + n - size THEN buf[i]
                       ELSE IF size + i \in DOMAIN buf THEN buf[size + i] ELSE Stale]
      BY <1>1, <1>2 DEF Wrapped, BufferTypeOK
    <3>2. \A i \in 0..size + wrap_elements - 1 : i < write_ptr + n - size =>
            size + i \in 0..size + wrap_elements - 1
      BY <1>3, <1>4
    <3>3. \A i \in 0..size + wrap_elements - 1 :
            i >= write_ptr + n - size <=> ~ (i < write_ptr + n - size)
      BY <1>3
    <3> HIDE DEF n
    <3> QED
      BY <3>1, <3>2, <3>3
  <2>2. \A i \in 0..size + wrap_elements - 1 :
          (i < write_ptr + n - size) <=> (cross /\ i < write_ptr')
    BY <1>3, <1>6
  <2> QED
    BY <2>1, <2>2
<1>8. buf' \in [0..size + wrap_elements - 1 -> {Silence, Stale} \cup 0..SampleEnd - 1]
  <2>1. \A i \in 0..size + wrap_elements - 1 :
          buf'[i] \in {Silence, Stale} \cup 0..SampleEnd - 1
    <3> SUFFICES ASSUME NEW i \in 0..size + wrap_elements - 1
                 PROVE  buf'[i] \in {Silence, Stale} \cup 0..SampleEnd - 1
      OBVIOUS
    <3>1. CASE cross /\ i < write_ptr'
      <4>1. size + i \in 0..size + wrap_elements - 1
        BY <1>3, <1>6, <3>1
      <4>2. buf[size + i] \in {Silence, Stale} \cup 0..SampleEnd - 1
        BY <1>2, <4>1 DEF BufferTypeOK
      <4> QED
        BY <1>7, <3>1, <4>2
    <3>2. CASE ~ (cross /\ i < write_ptr')
      <4>1. buf[i] \in {Silence, Stale} \cup 0..SampleEnd - 1
        BY <1>2 DEF BufferTypeOK
      <4> QED
        BY <1>7, <3>2, <4>1
    <3> QED
      BY <3>1, <3>2
  <2>2. buf' = [i \in 0..size + wrap_elements - 1 |-> buf'[i]]
    BY <1>1, <1>2 DEF Wrapped, BufferTypeOK
  <2> QED
    BY <2>1, <2>2
<1>9. ReadSpace' = rs + n
  <2>1. ReadSpace' = IF read_ptr <= write_ptr' THEN write_ptr' - read_ptr
                     ELSE write_ptr' - read_ptr + size
    BY <1>1, <1>3, <1>5, <1>6, Masked DEF ReadSpace
  <2> QED
    BY <1>3, <1>4, <1>6, <2>1
<1>10. WritePos' = WritePos + n /\ RingEnd' = RingEnd
  BY <1>1, <1>3, <1>5, <1>9 DEF WritePos, RingEnd
<1> HIDE DEF rs, n
<1>11. BufferTypeOK'
  <2>1. refill' \in 0..size
    BY <1>1, <1>3
  <2>2. {write_ptr', read_ptr'} \subseteq 0..size - 1
    BY <1>1, <1>3, <1>6
  <2> QED
    BY <1>1, <1>2, <1>5, <1>8, <2>1, <2>2 DEF BufferTypeOK
<1>12. FramesInv'
  <2>1. /\ Whole(consumed) /\ Whole(rs) /\ Whole(n)
        /\ rs \in Int /\ n \in Int
    BY <1>3 DEF BufferInv, FramesInv, rs, n
  <2>2. Whole(rs + n) /\ Whole(0)
    BY <1>2, <2>1, SampleNumbers
  <2>3. FramesInv' <=> /\ Whole(consumed') /\ Whole(ReadSpace') /\ Whole(refill')
                       /\ ReadSpace' + refill' < size
    BY <1>5 DEF FramesInv, Whole
  <2> QED
    BY <1>1, <1>3, <1>4, <1>9, <2>1, <2>2, <2>3
<1>13. StateInv'
  <2>1. WritePos' + refill' = WritePos + refill
    BY <1>1, <1>3, <1>10 DEF n
  <2> QED
    BY <1>1, <1>5, <2>1 DEF BufferInv, StateInv
<1>14. PlaybackInv'
  <2>1. refill # 0 /\ refill > 0
    BY <1>1 DEF n
  <2>2. left = NoSilenceYet /\ pc \notin {"ended", "lost"}
    BY <2>1 DEF BufferInv, StateInv, PlaybackInv
  <2>3. pc \in {"looked", "synthesizes"} => seen * Bytes <= rs + n
    <3>1. seen * Bytes \in Int
      BY <1>2, Sizes, WordNumbers DEF BufferTypeOK
    <3>2. pc \in {"looked", "synthesizes"} => seen * Bytes <= rs
      BY DEF BufferInv, PlaybackInv, rs
    <3> QED
      BY <1>3, <3>1, <3>2
  <2>4. consumed < SampleEnd
    BY <2>2 DEF BufferInv, PlaybackInv
  <2> QED
    BY <1>1, <1>5, <1>9, <2>2, <2>3, <2>4 DEF BufferInv, PlaybackInv
<1>15. DataInv'
  <2>0. PICK m \in Nat : m = rs + n /\ ReadSpace' = m
    BY <1>3, <1>9
  <2> SUFFICES ASSUME NEW i \in 0..m - 1, consumed + i < SampleEnd
               PROVE  buf'[IF read_ptr + i < size THEN read_ptr + i ELSE read_ptr + i - size]
                        = consumed + i
    BY <1>1, <1>5, <2>0 DEF DataInv
  <2>1. CASE i < rs
    <3>1. buf[IF read_ptr + i < size THEN read_ptr + i ELSE read_ptr + i - size] = consumed + i
      BY <1>3, <2>0, <2>1 DEF BufferInv, DataInv, rs
    <3>2. CASE read_ptr + i < size
      <4>1. PICK p \in 0..size - 1 : p = read_ptr + i
        BY <1>3, <2>0, <3>2
      <4>2. ~ (cross /\ p < write_ptr')
        BY <1>3, <2>0, <1>6, <4>1
      <4> QED
        BY <1>3, <2>0, <1>7, <3>1, <3>2, <4>1, <4>2
    <3>3. CASE ~ read_ptr + i < size
      <4>0. i \in Int /\ read_ptr + i - size \in 0..size - 1
        BY <1>3, <2>0, <2>1, <3>3
      <4>1. PICK p \in 0..size - 1 : p = read_ptr + i - size
        BY <4>0
      <4>2. ~ cross
        BY <1>3, <2>0, <1>4, <2>1, <3>3
      <4> QED
        BY <1>3, <2>0, <1>7, <3>1, <3>3, <4>1, <4>2
    <3> QED
      BY <3>2, <3>3
  <2>2. CASE ~ i < rs
    <3>0. i - rs \in 0..n - 1
      BY <1>3, <2>0, <2>2
    <3>1. PICK j \in 0..n - 1 : j = i - rs
      BY <3>0
    <3>2. buf[write_ptr + j] = consumed + i
      BY <1>3, <2>0, <1>4, <3>1
    <3>3. CASE read_ptr <= write_ptr /\ read_ptr + i < size
      <4>1. PICK p \in 0..size - 1 : p = read_ptr + i /\ p = write_ptr + j
        BY <1>3, <2>0, <3>1, <3>3
      <4>2. ~ (cross /\ p < write_ptr')
        BY <1>3, <2>0, <1>6, <4>1
      <4> QED
        BY <1>3, <2>0, <1>7, <3>2, <3>3, <4>1, <4>2
    <3>4. CASE read_ptr <= write_ptr /\ ~ read_ptr + i < size
      <4>1. PICK p \in 0..size - 1 : p = read_ptr + i - size /\ size + p = write_ptr + j
        BY <1>3, <2>0, <1>4, <3>1, <3>4
      <4>2. cross /\ p < write_ptr'
        BY <1>3, <2>0, <1>6, <3>1, <4>1
      <4> QED
        BY <1>3, <2>0, <1>7, <3>2, <3>4, <4>1, <4>2
    <3>5. CASE write_ptr < read_ptr
      <4>1. PICK p \in 0..size - 1 : p = read_ptr + i - size /\ p = write_ptr + j
        BY <1>3, <2>0, <1>4, <3>1, <3>5
      <4>2. ~ cross /\ ~ read_ptr + i < size
        BY <1>3, <2>0, <1>4, <3>1, <3>5, <4>1
      <4> QED
        BY <1>3, <2>0, <1>7, <3>2, <4>1, <4>2
    <3> QED
      BY <1>3, <2>0, <3>3, <3>4, <3>5
  <2> QED
    BY <2>1, <2>2
<1>16. WrapInv'
  <2> SUFFICES ASSUME write_ptr' < read_ptr,
                      NEW e \in RingEnd..RingEnd + wrap_elements, Whole(e),
                      NEW a \in RingEnd..e - 1, a < SampleEnd
               PROVE  buf'[size + a - RingEnd] = a
    BY <1>1, <1>5, <1>10 DEF WrapInv
  <2>1. PICK x \in 0..size + wrap_elements - 1 : x = size + a - RingEnd /\ x >= size
    BY <1>3
  <2>2. buf'[x] = buf[x]
    BY <1>3, <1>6, <1>7, <2>1
  <2>3. CASE cross
    <3>1. a < WritePos + n
      <4>1. CASE WritePos + n = SampleEnd
        BY <4>1
      <4>2. CASE \A f \in RingEnd..RingEnd + wrap_elements : Whole(f) => f <= WritePos + n
        <5>1. e <= WritePos + n
          BY <4>2
        <5> QED
          BY <1>3, <5>1
      <4> QED
        BY <1>4, <2>3, <4>1, <4>2
    <3>2. PICK j \in 0..n - 1 : j = a - WritePos /\ x = write_ptr + j
      BY <1>3, <1>4, <2>1, <2>3, <3>1
    <3>3. buf[write_ptr + j] = WritePos + j
      BY <1>4
    <3> QED
      BY <1>3, <2>1, <2>2, <3>2, <3>3
  <2>4. CASE ~ cross
    <3>1. write_ptr < read_ptr
      BY <1>3, <1>6, <2>4
    <3>2. buf[size + a - RingEnd] = a
      BY <3>1 DEF BufferInv, WrapInv
    <3> QED
      BY <2>1, <2>2, <3>2
  <2> QED
    BY <2>3, <2>4
<1>17. PendingInv'
  BY <1>1 DEF PendingInv
<1> QED
  BY <1>1, <1>2, <1>11, <1>12, <1>13, <1>14, <1>15, <1>16, <1>17 DEF BufferInv

-----------------------------------------------------------------------------
(* Data of a stream: the voice *)

\* IncrementReadPos(): the voice moves on, by what there is of the x bytes that it wants,
\* and leaves the rest of the data as it was.
LEMMA Moved ==
  ASSUME BufferInv, ~ hasty', NEW x \in Nat, Whole(x), x < size,
         IncrementReadPos(x), UNCHANGED <<sample, buf, produced, refill>>
  PROVE  /\ FramesInv' /\ DataInv' /\ WrapInv' /\ PendingInv'
         /\ {write_ptr', read_ptr'} \subseteq 0..size - 1 /\ consumed' \in Nat
         /\ \/ /\ state = "end" /\ x >= ReadSpace /\ refill = 0 /\ state' = "unused"
               /\ consumed' = consumed + ReadSpace /\ ReadSpace' = 0
            \/ /\ state = "end" => x < ReadSpace
               /\ state' = state /\ WritePos' = WritePos
               /\ x <= ReadSpace => /\ consumed' = consumed + x
                                    /\ ReadSpace' = ReadSpace - x
               /\ x > ReadSpace => /\ consumed' = WritePos /\ ReadSpace' = 0
<1>1. /\ sample' = sample /\ buf' = buf /\ refill' = refill
  OBVIOUS
<1>2. BufferTypeOK /\ sample \in Samples
  BY DEF BufferInv
<1>3. PICK rs \in 0..size - 1 : rs = ReadSpace
  BY <1>2, Pointers
<1>4. /\ write_ptr \in 0..size - 1 /\ read_ptr \in 0..size - 1
      /\ rs = (IF read_ptr <= write_ptr THEN write_ptr - read_ptr
               ELSE write_ptr - read_ptr + size)
      /\ consumed \in Nat /\ refill \in Nat
      /\ WritePos = consumed + rs /\ RingEnd = consumed + size - read_ptr
      /\ size \in Nat /\ wrap_elements \in Nat /\ size > wrap_elements
  BY <1>2, <1>3, Pointers, Sizes
<1>5. /\ SampleEnd' = SampleEnd /\ size' = size /\ wrap_elements' = wrap_elements
      /\ \A y : Whole(y)' <=> Whole(y)
  BY <1>1, SameSample, SameSize DEF Whole
<1>6. Whole(consumed) /\ Whole(rs) /\ Whole(refill) /\ rs + refill < size
  BY <1>3 DEF BufferInv, FramesInv
<1>7. Whole(consumed + rs) /\ Whole(consumed + x) /\ Whole(rs - x) /\ Whole(0)
      /\ SampleEnd \in Nat
  <2>1. consumed \in Int /\ rs \in Int /\ x \in Int
    BY <1>4
  <2> QED
    BY <1>2, <1>6, <2>1, SampleNumbers
<1>8. CASE state = "end" /\ x >= rs
  <2>1. /\ write_ptr' = 0 /\ read_ptr' = 0 /\ state' = "unused" /\ consumed' = consumed + rs
    BY <1>3, <1>8 DEF IncrementReadPos
  <2>2. refill = 0
    <3>1. state = "end" /\ x >= ReadSpace
      BY <1>3, <1>8
    <3>2. hasty' = (hasty \/ refill > 0)
      BY <3>1, Zenon DEF IncrementReadPos
    <3>3. ~ (refill > 0)
      BY <3>2, Zenon
    <3> QED
      BY <1>4, <3>3
  <2>3. ReadSpace' = 0
    BY <1>4, <1>5, <2>1, Masked DEF ReadSpace
  <2>4. FramesInv'
    <3>1. FramesInv' <=> /\ Whole(consumed') /\ Whole(ReadSpace') /\ Whole(refill')
                         /\ ReadSpace' + refill' < size
      BY <1>5 DEF FramesInv, Whole
    <3> QED
      BY <1>1, <1>4, <1>7, <2>1, <2>2, <2>3, <3>1
  <2>5. DataInv' /\ WrapInv' /\ PendingInv'
    BY <1>1, <2>1, <2>2, <2>3 DEF DataInv, WrapInv, PendingInv
  <2> QED
    BY <1>3, <1>4, <1>8, <2>1, <2>2, <2>3, <2>4, <2>5
<1>9. CASE ~ (state = "end" /\ x >= rs)
  <2>1. PICK d \in 0..rs : d = Min({x, rs}) /\ d = (IF x <= rs THEN x ELSE rs)
    <3>1. Min({x, rs}) = IF x <= rs THEN x ELSE rs
      BY <1>4, MinMax
    <3>2. Min({x, rs}) \in 0..rs
      BY <3>1
    <3> QED
      BY <3>1, <3>2
  <2>2. /\ read_ptr' = (read_ptr + d) % size /\ consumed' = consumed + d
        /\ write_ptr' = write_ptr /\ state' = state
    BY <1>3, <1>9, <2>1 DEF IncrementReadPos
  <2>3. /\ read_ptr' = IF read_ptr + d < size THEN read_ptr + d ELSE read_ptr + d - size
        /\ read_ptr' \in 0..size - 1
    <3>1. d \in 0..size - 1
      BY <1>4, <2>1
    <3> QED
      BY <1>4, <2>2, <3>1, Advance
  <2>4. ReadSpace' = rs - d
    <3>1. ReadSpace' = IF read_ptr' <= write_ptr THEN write_ptr - read_ptr'
                       ELSE write_ptr - read_ptr' + size
      BY <1>4, <1>5, <2>2, <2>3, Masked DEF ReadSpace
    <3>2. CASE read_ptr + d < size
      BY <1>4, <2>1, <2>3, <3>1, <3>2
    <3>3. CASE ~ (read_ptr + d < size)
      <4>1. read_ptr' = read_ptr + d - size /\ d <= rs /\ d \in Int
        BY <2>1, <2>3, <3>3
      <4>2. rs = write_ptr - read_ptr + size
        <5>1. d <= rs /\ write_ptr < size
          BY <1>4, <2>1
        <5>2. CASE read_ptr <= write_ptr
          BY <1>4, <2>1, <3>3, <5>1, <5>2
        <5> QED
          BY <1>4, <5>2
      <4>3. read_ptr' <= write_ptr
        BY <1>4, <4>1, <4>2
      <4> QED
        BY <1>4, <3>1, <4>1, <4>2, <4>3
    <3> QED
      BY <3>2, <3>3
  <2>5. WritePos' = WritePos /\ consumed' \in Nat
    BY <1>4, <2>1, <2>2, <2>4 DEF WritePos
  <2>6. RingEnd' = consumed + d + size - read_ptr'
    BY <1>5, <2>2 DEF RingEnd
  <2>7. /\ read_ptr <= write_ptr => read_ptr + d < size /\ read_ptr' <= write_ptr
        /\ ~ read_ptr + d < size => read_ptr' <= write_ptr
        /\ read_ptr + d < size => RingEnd' = RingEnd /\ read_ptr <= read_ptr'
    BY <1>4, <2>1, <2>3, <2>6
  <2>8. FramesInv'
    <3>1. FramesInv' <=> /\ Whole(consumed') /\ Whole(ReadSpace') /\ Whole(refill')
                         /\ ReadSpace' + refill' < size
      BY <1>5 DEF FramesInv, Whole
    <3>2. Whole(consumed + d) /\ Whole(rs - d)
      <4>1. CASE x <= rs
        BY <1>6, <1>7, <2>1, <4>1
      <4>2. CASE ~ x <= rs
        <5>1. d = rs
          BY <2>1, <4>2, Zenon
        <5>2. rs - d = 0
          BY <1>4, <5>1
        <5> QED
          BY <1>7, <5>1, <5>2
      <4> QED
        BY <4>1, <4>2
    <3>3. rs - d + refill < size
      BY <1>4, <1>6, <2>1
    <3> QED
      BY <1>1, <1>6, <2>2, <2>4, <3>1, <3>2, <3>3, Zenon
  <2>9. DataInv'
    <3>0. rs - d \in Nat
      BY <1>4, <2>1
    <3>1. PICK m \in Nat : m = rs - d /\ ReadSpace' = m
      BY <2>4, <3>0, Zenon
    <3>2. PICK r \in 0..size - 1 : r = read_ptr'
      BY <2>3
    <3>3. PICK c \in Nat : c = consumed' /\ c = consumed + d
      BY <2>2, <2>5
    <3> SUFFICES ASSUME NEW i \in 0..m - 1, c + i < SampleEnd
                 PROVE  buf[IF r + i < size THEN r + i ELSE r + i - size] = c + i
      BY <1>1, <1>5, <3>1, <3>2, <3>3 DEF DataInv
    <3>4. PICK j \in 0..rs - 1 : j = d + i
      <4>1. d + i \in 0..rs - 1
        BY <1>4, <2>1, <3>1
      <4> QED
        BY <4>1
    <3>5. consumed + j < SampleEnd /\ consumed + j = c + i
      BY <1>4, <2>1, <3>1, <3>3, <3>4
    <3>6. buf[IF read_ptr + j < size THEN read_ptr + j ELSE read_ptr + j - size] = consumed + j
      BY <1>3, <3>5 DEF BufferInv, DataInv
    <3>7. (IF read_ptr + j < size THEN read_ptr + j ELSE read_ptr + j - size)
            = IF r + i < size THEN r + i ELSE r + i - size
      BY <1>4, <2>1, <2>3, <3>1, <3>2, <3>4
    <3> QED
      BY <3>5, <3>6, <3>7
  <2>10. WrapInv'
    <3>1. CASE write_ptr' < read_ptr'
      <4>1. write_ptr < read_ptr /\ RingEnd' = RingEnd
        BY <1>4, <2>2, <2>3, <2>7, <3>1
      <4> QED
        BY <1>1, <1>5, <4>1 DEF BufferInv, WrapInv
    <3>2. CASE ~ write_ptr' < read_ptr'
      BY <3>2 DEF WrapInv
    <3> QED
      BY <3>1, <3>2
  <2>11. PendingInv'
    <3>1. CASE write_ptr + refill >= size /\ refill > 0
      <4>1. read_ptr <= write_ptr /\ wrap_elements < read_ptr
        BY <3>1 DEF BufferInv, PendingInv
      <4>2. read_ptr' <= write_ptr /\ wrap_elements < read_ptr' /\ RingEnd' = RingEnd
        BY <1>4, <2>3, <2>7, <4>1
      <4> QED
        BY <1>1, <1>5, <2>2, <2>5, <4>2 DEF BufferInv, PendingInv
    <3>2. CASE ~ (write_ptr + refill >= size /\ refill > 0)
      BY <1>1, <1>5, <2>2, <2>5, <3>2 DEF BufferInv, PendingInv
    <3> QED
      BY <3>1, <3>2
  <2>12. /\ x <= rs => consumed' = consumed + x /\ ReadSpace' = rs - x
         /\ x > rs => consumed' = WritePos /\ ReadSpace' = 0
    BY <1>4, <2>1, <2>2, <2>4
  <2> QED
    BY <1>3, <1>4, <1>9, <2>2, <2>3, <2>5, <2>8, <2>9, <2>10, <2>11, <2>12
<1> QED
  BY <1>8, <1>9

\* The same while nobody knows where the sample ends: the voice stops in front of the
\* end, or is lost there.
LEMMA MovedUnaware ==
  ASSUME BufferInv, ~ hasty', pc \in {"waits", "synthesizes"}, left = NoSilenceYet,
         NEW x \in Nat, Whole(x), x < size, IncrementReadPos(x),
         UNCHANGED <<sample, buf, produced, refill, seen, frames, left>>,
         pc' = IF state' = "unused" THEN "lost" ELSE "idle"
  PROVE  BufferInv'
<1>1. /\ sample' = sample /\ buf' = buf /\ produced' = produced /\ refill' = refill
      /\ seen' = seen /\ frames' = frames /\ left' = left
      /\ pc' = IF state' = "unused" THEN "lost" ELSE "idle"
      /\ pc \in {"waits", "synthesizes"} /\ left = NoSilenceYet
      /\ hasty' \in BOOLEAN
  BY DEF IncrementReadPos, BufferInv, BufferTypeOK
<1>2. BufferTypeOK /\ sample \in Samples
  BY DEF BufferInv
<1>3. PICK rs \in Nat : rs = ReadSpace /\ WritePos = consumed + rs
  BY <1>2, Pointers, Sizes
<1>4. /\ consumed \in Nat /\ refill \in Nat /\ SampleEnd \in Nat /\ produced \in Nat
      /\ produced <= SampleEnd
  BY <1>2, Pointers, SampleNumbers DEF BufferTypeOK
<1>5. /\ Bytes' = Bytes /\ SampleEnd' = SampleEnd /\ MaxWords' = MaxWords
      /\ size' = size /\ wrap_elements' = wrap_elements
  BY <1>1, SameSample, SameSize
<1>6. /\ FramesInv' /\ DataInv' /\ WrapInv' /\ PendingInv'
      /\ {write_ptr', read_ptr'} \subseteq 0..size - 1 /\ consumed' \in Nat
  BY <1>1, Moved
<1>7. \/ /\ state = "end" /\ refill = 0 /\ state' = "unused"
         /\ consumed' = consumed + rs
      \/ /\ state = "end" => x < rs
         /\ state' = state /\ WritePos' = WritePos
         /\ x <= rs => consumed' = consumed + x
         /\ x > rs => consumed' = WritePos
  BY <1>1, <1>3, Moved
<1>8. /\ state \in {"active", "end"}
      /\ state = "active" => produced < SampleEnd /\ WritePos + refill = produced
      /\ state = "end" => produced = SampleEnd /\ WritePos + refill = SampleEnd
  <2>1. state # "unused"
    BY <1>1 DEF BufferInv, StateInv
  <2>2. state \in {"active", "end"}
    BY <1>2, <2>1 DEF BufferTypeOK
  <2> QED
    BY <1>1, <2>2 DEF BufferInv, StateInv
<1>9. CASE state' = "unused"
  <2>1. consumed' = SampleEnd /\ refill' = 0
    BY <1>1, <1>3, <1>4, <1>7, <1>8, <1>9
  <2>2. StateInv' /\ PlaybackInv'
    BY <1>1, <1>4, <1>5, <1>9, <2>1 DEF StateInv, PlaybackInv
  <2>3. BufferTypeOK'
    <3>1. state' \in {"active", "end", "unused"}
          /\ pc' \in {"waits", "idle", "looked", "synthesizes", "ended", "lost"}
      BY <1>1, <1>9
    <3> QED
      BY <1>1, <1>2, <1>5, <1>6, <3>1 DEF BufferTypeOK
  <2> QED
    BY <1>1, <1>2, <1>6, <2>2, <2>3 DEF BufferInv
<1>10. CASE state' # "unused"
  <2>1. state' = state /\ WritePos' = WritePos /\ pc' = "idle"
    BY <1>1, <1>7, <1>10
  <2>2. consumed' < SampleEnd
    BY <1>3, <1>4, <1>7, <1>8, <1>10
  <2>3. StateInv'
    BY <1>1, <1>3, <1>4, <1>5, <1>8, <2>1 DEF StateInv
  <2>4. PlaybackInv'
    BY <1>1, <1>5, <2>1, <2>2 DEF PlaybackInv
  <2>5. BufferTypeOK'
    <3>1. state' \in {"active", "end", "unused"}
          /\ pc' \in {"waits", "idle", "looked", "synthesizes", "ended", "lost"}
      BY <1>2, <2>1 DEF BufferTypeOK
    <3> QED
      BY <1>1, <1>2, <1>5, <1>6, <3>1 DEF BufferTypeOK
  <2> QED
    BY <1>1, <1>2, <1>6, <2>3, <2>4, <2>5 DEF BufferInv
<1> QED
  BY <1>9, <1>10

\* The voice picks up the stream where it takes over from the RAM cache.
LEMMA PickUpBufferStep ==
  ASSUME BufferInv, ~ hasty', NEW n \in 0..MaxFrames, PickUpBuffer(n)
  PROVE  BufferInv'
<1>1. sample \in Samples /\ n \in Nat /\ pc = "waits"
  BY Sizes DEF BufferInv, PickUpBuffer
<1>2. PICK x \in Nat : x = n * FrameSize /\ Whole(x) /\ x < size
  BY <1>1, SampleNumbers
<1>3. left = NoSilenceYet
  BY <1>1 DEF BufferInv, PlaybackInv
<1>4. /\ IncrementReadPos(x)
      /\ UNCHANGED <<sample, buf, produced, refill, seen, frames, left>>
      /\ pc' = IF state' = "unused" THEN "lost" ELSE "idle"
  BY <1>2 DEF PickUpBuffer
<1> QED
  BY <1>1, <1>2, <1>3, <1>4, MovedUnaware

\* GetReadSpace(): what the voice has seen stays there until it moves on.
LEMMA LookStep == ASSUME BufferInv, Look PROVE BufferInv'
<1>1. /\ pc = "idle" /\ pc' = "looked" /\ seen' = ReadSpace \div Bytes
      /\ sample' = sample /\ buf' = buf /\ write_ptr' = write_ptr /\ state' = state
      /\ read_ptr' = read_ptr /\ produced' = produced /\ refill' = refill
      /\ frames' = frames /\ left' = left /\ consumed' = consumed /\ hasty' = hasty
  BY DEF Look, stream
<1>2. BufferTypeOK /\ sample \in Samples
  BY DEF BufferInv
<1>3. PICK rs \in 0..size - 1 : rs = ReadSpace
  BY <1>2, Pointers
<1>4. /\ seen' \in 0..size /\ seen' * Bytes = rs
  <2>1. Whole(rs) /\ rs \in Nat /\ size \in Nat
    BY <1>3, Sizes DEF BufferInv, FramesInv
  <2> QED
    BY <1>1, <1>2, <1>3, <2>1, WordNumbers
<1>5. /\ Bytes' = Bytes /\ SampleEnd' = SampleEnd /\ MaxWords' = MaxWords
      /\ size' = size /\ wrap_elements' = wrap_elements /\ FrameSize' = FrameSize
  BY <1>1, SameSample, SameSize
<1>6. ReadSpace' = ReadSpace /\ WritePos' = WritePos /\ RingEnd' = RingEnd
      /\ \A y : Whole(y)' <=> Whole(y)
  BY <1>1, <1>5 DEF ReadSpace, WritePos, RingEnd, Whole
<1>7. BufferTypeOK'
  <2>1. pc' \in {"waits", "idle", "looked", "synthesizes", "ended", "lost"}
    BY <1>1
  <2> QED
    BY <1>1, <1>2, <1>4, <1>5, <2>1 DEF BufferTypeOK
<1>8. FramesInv' /\ StateInv'
  BY <1>1, <1>5, <1>6 DEF BufferInv, FramesInv, StateInv
<1>9. PlaybackInv'
  <2>1. rs <= rs
    BY <1>3, Sizes
  <2> QED
    BY <1>1, <1>3, <1>4, <1>5, <1>6, <2>1 DEF BufferInv, PlaybackInv
<1>10. DataInv' /\ WrapInv' /\ PendingInv'
  BY <1>1, <1>5, <1>6 DEF BufferInv, DataInv, WrapInv, PendingInv
<1> QED
  BY <1>1, <1>2, <1>7, <1>8, <1>9, <1>10 DEF BufferInv

\* After a cycle: a voice that knows how much of the sample is left has enough data to
\* move on by all that it has played, and ends when nothing is left.
LEMMA MoveOnStep == ASSUME BufferInv, ~ hasty', MoveOn PROVE BufferInv'
<1>1. /\ sample' = sample /\ buf' = buf /\ produced' = produced /\ refill' = refill
      /\ seen' = seen /\ frames' = frames /\ pc = "synthesizes"
      /\ left' = (IF left >= 0 THEN Max({Remaining, 0}) ELSE left)
      /\ pc' = (IF left >= 0 /\ Remaining <= 0 THEN "ended"
                ELSE IF state' = "unused" THEN "lost" ELSE "idle")
      /\ IncrementReadPos(frames * FrameSize) /\ hasty' \in BOOLEAN
  BY DEF MoveOn, IncrementReadPos, BufferInv, BufferTypeOK
<1>2. BufferTypeOK /\ sample \in Samples
  BY DEF BufferInv
<1>3. PICK x \in Nat : x = frames * FrameSize /\ Whole(x) /\ x < size /\ x < MaxWords * Bytes
  <2>1. frames \in 0..MaxFrames /\ frames \in Nat
    BY <1>2, Sizes DEF BufferTypeOK
  <2> QED
    BY <1>2, <2>1, SampleNumbers
<1>4. IncrementReadPos(x)
  BY <1>1, <1>3
<1>5. CASE left = NoSilenceYet
  <2>1. /\ UNCHANGED <<sample, buf, produced, refill, seen, frames, left>>
        /\ pc' = IF state' = "unused" THEN "lost" ELSE "idle"
    BY <1>1, <1>5 DEF NoSilenceYet
  <2> QED
    BY <1>1, <1>3, <1>4, <1>5, <2>1, MovedUnaware
<1>6. CASE left # NoSilenceYet
  <2>1. PICK rs \in Nat : rs = ReadSpace /\ WritePos = consumed + rs
    BY <1>2, Pointers, Sizes
  <2>2. /\ consumed \in Nat /\ left \in 0..size /\ size \in Nat /\ SampleEnd \in Nat
        /\ MaxWords * Bytes \in Nat
    <3>1. left \in NoSilenceYet..size /\ size \in Nat
      BY <1>2, Sizes DEF BufferTypeOK
    <3>2. left \in 0..size
      BY <1>6, <3>1 DEF NoSilenceYet
    <3> QED
      BY <1>2, <3>1, <3>2, Pointers, SampleNumbers
  <2>3. /\ Bytes' = Bytes /\ SampleEnd' = SampleEnd /\ MaxWords' = MaxWords
        /\ size' = size /\ wrap_elements' = wrap_elements
    BY <1>1, SameSample, SameSize
  <2>4. /\ rs >= MaxWords * Bytes /\ left * Bytes = SampleEnd - consumed
        /\ refill = 0 /\ state = "end" /\ WritePos >= SampleEnd /\ produced = SampleEnd
    <3>1. state # "unused" /\ state # "active"
      BY <1>1, <1>6 DEF BufferInv, StateInv
    <3>2. state = "end"
      BY <1>2, <3>1 DEF BufferTypeOK
    <3>3. refill = 0
      BY <1>6 DEF BufferInv, StateInv
    <3>4. WritePos \in Nat
      BY <2>1, <2>2
    <3> QED
      BY <1>1, <1>6, <2>1, <3>2, <3>3, <3>4 DEF BufferInv, StateInv, PlaybackInv
  <2>5. x < rs
    BY <1>3, <2>2, <2>4
  <2>6. /\ FramesInv' /\ DataInv' /\ WrapInv' /\ PendingInv'
        /\ {write_ptr', read_ptr'} \subseteq 0..size - 1 /\ consumed' \in Nat
    BY <1>1, <1>3, <1>4, Moved
  <2>7. state' = "end" /\ WritePos' = WritePos /\ consumed' = consumed + x
    BY <1>1, <1>3, <1>4, <2>1, <2>4, <2>5, Moved
  <2>8. PICK played \in Nat : played = frames * sample.channels /\ played * Bytes = x
    <3>1. frames \in Nat
      BY <1>2, Sizes DEF BufferTypeOK
    <3> QED
      BY <1>2, <1>3, <3>1, WordNumbers
  <2>9. PICK more \in Int : more = Remaining /\ more <= left
    BY <2>2, <2>8 DEF Remaining
  <2>10. more * Bytes = SampleEnd - consumed'
    <3>1. left \in Int /\ played \in Int
      BY <2>2
    <3>2. more = left - played
      BY <2>8, <2>9 DEF Remaining
    <3>3. more * Bytes = left * Bytes - played * Bytes
      BY <1>2, <3>1, <3>2, WordNumbers
    <3> QED
      BY <2>2, <2>4, <2>7, <2>8, <3>3
  <2>11. more <= 0 <=> consumed' >= SampleEnd
    <3>1. Bytes \in {2, 3}
      BY <1>2, SampleNumbers
    <3>2. more * Bytes <= 0 <=> more <= 0
      <4>1. CASE Bytes = 2
        BY <4>1
      <4>2. CASE Bytes = 3
        BY <4>2
      <4> QED
        BY <3>1, <4>1, <4>2
    <3> QED
      BY <2>2, <2>6, <2>10, <3>2
  <2>12. /\ left' = IF more >= 0 THEN more ELSE 0
         /\ left' \in 0..size
    <3>1. left' = Max({more, 0}) /\ 0 \in Int
      BY <1>1, <2>2, <2>9
    <3>2. left' = IF more >= 0 THEN more ELSE 0
      BY <3>1, MinMax
    <3> QED
      BY <2>2, <2>9, <3>2
  <2>13. /\ pc' = IF more <= 0 THEN "ended" ELSE "idle"
    BY <1>1, <2>2, <2>7, <2>9
  <2>14. BufferTypeOK'
    <3>1. /\ state' \in {"active", "end", "unused"}
          /\ pc' \in {"waits", "idle", "looked", "synthesizes", "ended", "lost"}
      BY <2>7, <2>13
    <3>2. left' \in NoSilenceYet..size
      BY <2>2, <2>12 DEF NoSilenceYet
    <3> QED
      BY <1>1, <1>2, <2>3, <2>6, <3>1, <3>2 DEF BufferTypeOK
  <2>15. left' # NoSilenceYet
    BY <2>2, <2>12 DEF NoSilenceYet
  <2>16. StateInv'
    BY <1>1, <2>1, <2>2, <2>3, <2>4, <2>7, <2>15 DEF StateInv
  <2>17. PlaybackInv'
    <3>1. CASE more <= 0
      BY <1>1, <2>3, <2>4, <2>7, <2>11, <2>13, <3>1 DEF PlaybackInv
    <3>2. CASE ~ more <= 0
      <4>1. pc' = "idle" /\ consumed' < SampleEnd /\ left' = more
        BY <2>2, <2>6, <2>11, <2>12, <2>13, <3>2
      <4> QED
        BY <2>3, <2>10, <4>1 DEF PlaybackInv
    <3> QED
      BY <3>1, <3>2
  <2> QED
    BY <1>1, <1>2, <2>6, <2>14, <2>16, <2>17 DEF BufferInv
<1> QED
  BY <1>5, <1>6

\* At the end of the sample the voice adds silence: as much as the cycle may need, behind
\* what is left of the sample.
LEMMA PlayStep ==
  ASSUME BufferInv, ~ hasty', NEW n \in 0..MaxFrames, Play(n)
  PROVE  BufferInv'
<1> DEFINE missing == IF state = "end" /\ seen < MaxWords THEN (MaxWords - seen) * Bytes ELSE 0
<1>1. /\ buf' = Wrapped(missing, Written([i \in 0..missing - 1 |-> Silence]))
      /\ write_ptr' = Advanced(missing)
      /\ left' = (IF state = "end" THEN RealLeft ELSE left)
      /\ pc = "looked" /\ frames' = n /\ pc' = "synthesizes"
      /\ sample' = sample /\ read_ptr' = read_ptr /\ state' = state
      /\ produced' = produced /\ refill' = refill /\ seen' = seen /\ consumed' = consumed
      /\ hasty' = (hasty \/ (state = "end" /\ consumed + seen * Bytes < SampleEnd))
  BY DEF Play
<1>2. BufferTypeOK /\ sample \in Samples
  BY DEF BufferInv
<1>3. PICK rs \in 0..size - 1 : rs = ReadSpace
  BY <1>2, Pointers
<1>4. /\ write_ptr \in 0..size - 1 /\ read_ptr \in 0..size - 1
      /\ rs = (IF read_ptr <= write_ptr THEN write_ptr - read_ptr
               ELSE write_ptr - read_ptr + size)
      /\ consumed \in Nat /\ refill \in Nat /\ SampleEnd \in Nat
      /\ WritePos = consumed + rs /\ RingEnd = consumed + size - read_ptr
      /\ size \in Nat /\ wrap_elements \in Nat /\ size > 2 * wrap_elements
  BY <1>2, <1>3, Pointers, Sizes, SampleNumbers
<1>5. /\ state \in {"active", "end"} /\ consumed < SampleEnd
      /\ state = "active" => left = NoSilenceYet
      /\ state = "end" => /\ refill = 0 /\ seen * Bytes = rs
                          /\ produced = SampleEnd /\ WritePos >= SampleEnd
                          /\ left = NoSilenceYet => WritePos = SampleEnd
      /\ seen * Bytes <= rs
      /\ left # NoSilenceYet => left * Bytes = SampleEnd - consumed
  <2>1. state \in {"active", "end"}
    BY <1>1, <1>2 DEF BufferInv, StateInv, BufferTypeOK
  <2>2. state = "end" => refill = 0 /\ seen * Bytes = rs
    <3>1. CASE state = "end" /\ left = NoSilenceYet
      <4>1. consumed + rs + refill = SampleEnd
        BY <1>4, <3>1 DEF BufferInv, StateInv
      <4>2. PICK y \in Int : y = seen * Bytes /\ y <= rs
        <5>1. seen \in Int
          BY <1>2, <1>4 DEF BufferTypeOK
        <5>2. seen * Bytes \in Int
          BY <1>2, <5>1, WordNumbers
        <5> QED
          BY <1>1, <1>3, <5>2 DEF BufferInv, PlaybackInv
      <4>3. ~ consumed + y < SampleEnd
        BY <1>1, <3>1, <4>2
      <4> QED
        BY <1>4, <4>1, <4>2, <4>3
    <3>2. CASE left # NoSilenceYet
      BY <1>1, <1>3, <3>2 DEF BufferInv, StateInv, PlaybackInv
    <3> QED
      BY <3>1, <3>2
  <2>3. WritePos + 0 = WritePos
    BY <1>4
  <2> QED
    BY <1>1, <1>3, <2>1, <2>2, <2>3 DEF BufferInv, StateInv, PlaybackInv
<1>6. /\ seen \in Nat /\ MaxWords \in Nat /\ MaxWords * Bytes \in Nat
      /\ MaxWords * Bytes <= wrap_elements /\ Whole(MaxWords * Bytes)
  BY <1>2, SampleNumbers, Sizes DEF BufferTypeOK
<1>7. PICK s \in Nat :
        /\ s = missing
        /\ s > 0 => state = "end" /\ rs + s = MaxWords * Bytes
        /\ s = 0 /\ state = "end" => rs >= MaxWords * Bytes
  <2>1. CASE state = "end" /\ seen < MaxWords
    <3>1. MaxWords * Bytes - seen * Bytes = missing /\ seen * Bytes = rs
      BY <1>2, <1>5, <1>6, <2>1, WordNumbers
    <3>2. seen * Bytes <= MaxWords * Bytes
      BY <1>2, <1>6, <2>1, WordNumbers
    <3> HIDE DEF missing
    <3>3. missing \in Nat /\ rs + missing = MaxWords * Bytes
      BY <1>4, <1>6, <3>1, <3>2
    <3> QED
      BY <1>4, <1>6, <2>1, <3>3
  <2>2. CASE ~ (state = "end" /\ seen < MaxWords)
    <3>1. state = "end" => MaxWords * Bytes <= rs
      BY <1>2, <1>5, <1>6, <2>2, WordNumbers
    <3> QED
      BY <1>4, <1>6, <2>2, <3>1
  <2> QED
    BY <2>1, <2>2
<1> HIDE DEF missing
<1>8. /\ s > 0 => rs + s <= wrap_elements
      /\ rs + s < size /\ s <= wrap_elements
      /\ Whole(rs + s)
  <2>1. Whole(rs) /\ rs \in Nat
    BY <1>3, <1>4 DEF BufferInv, FramesInv
  <2>2. CASE s = 0
    BY <1>4, <2>1, <2>2
  <2>3. CASE s > 0
    BY <1>4, <1>6, <1>7, <2>3
  <2> QED
    BY <2>2, <2>3
<1> DEFINE cross == write_ptr + s >= size
<1>9. cross <=> write_ptr + s >= size
  OBVIOUS
<1>10. /\ write_ptr' = IF cross THEN write_ptr + s - size ELSE write_ptr + s
       /\ write_ptr' \in 0..size - 1
       /\ cross => read_ptr <= write_ptr /\ write_ptr' < read_ptr
       /\ ~ cross /\ write_ptr < read_ptr => write_ptr' < read_ptr
       /\ ~ cross /\ read_ptr <= write_ptr => read_ptr <= write_ptr'
  <2>1. write_ptr' = IF cross THEN write_ptr + s - size ELSE write_ptr + s
    BY <1>1, <1>7, <1>9 DEF Advanced
  <2> QED
    BY <1>4, <1>7, <1>8, <1>9, <2>1
<1>11. \A i \in 0..size + wrap_elements - 1 :
         buf'[i] = IF cross /\ i < write_ptr' THEN
                        IF size + i - write_ptr \in 0..s - 1 THEN Silence ELSE buf[size + i]
                   ELSE IF i - write_ptr \in 0..s - 1 THEN Silence ELSE buf[i]
  <2> SUFFICES ASSUME NEW i \in 0..size + wrap_elements - 1
               PROVE  buf'[i] = IF cross /\ i < write_ptr' THEN
                                     IF size + i - write_ptr \in 0..s - 1 THEN Silence
                                     ELSE buf[size + i]
                                ELSE IF i - write_ptr \in 0..s - 1 THEN Silence ELSE buf[i]
    OBVIOUS
  <2> DEFINE W == Written([j \in 0..s - 1 |-> Silence])
  <2>1. DOMAIN W = 0..size + wrap_elements - 1
    BY <1>2 DEF Written, BufferTypeOK
  <2>2. \A j \in 0..size + wrap_elements - 1 :
          W[j] = IF j - write_ptr \in 0..s - 1 THEN Silence ELSE buf[j]
    BY <1>2 DEF Written, BufferTypeOK
  <2> HIDE DEF W
  <2>3. buf' = [j \in DOMAIN W |-> IF j >= write_ptr + s - size THEN W[j]
                  ELSE IF size + j \in DOMAIN W THEN W[size + j] ELSE Stale]
    BY <1>1, <1>7 DEF Wrapped, W
  <2>4. buf'[i] = IF i < write_ptr + s - size THEN W[size + i] ELSE W[i]
    <3>1. i < write_ptr + s - size => size + i \in 0..size + wrap_elements - 1
      BY <1>4, <1>8
    <3>2. i >= write_ptr + s - size <=> ~ (i < write_ptr + s - size)
      BY <1>4
    <3> QED
      BY <2>1, <2>3, <3>1, <3>2
  <2>5. (i < write_ptr + s - size) <=> (cross /\ i < write_ptr')
    BY <1>4, <1>9, <1>10
  <2>6. CASE cross /\ i < write_ptr'
    <3>1. size + i \in 0..size + wrap_elements - 1
      BY <1>4, <1>8, <1>10, <2>6
    <3>2. PICK k \in 0..size + wrap_elements - 1 : k = size + i
      BY <3>1
    <3>3. buf'[i] = W[k]
      BY <2>4, <2>5, <2>6, <3>2
    <3>4. W[k] = IF k - write_ptr \in 0..s - 1 THEN Silence ELSE buf[k]
      BY <2>2
    <3>5. k - write_ptr = size + i - write_ptr
      BY <1>4, <3>2
    <3> QED
      BY <2>6, <3>2, <3>3, <3>4, <3>5
  <2>7. CASE ~ (cross /\ i < write_ptr')
    BY <2>2, <2>4, <2>5, <2>7
  <2> QED
    BY <2>6, <2>7
<1>12. buf' \in [0..size + wrap_elements - 1 -> {Silence, Stale} \cup 0..SampleEnd - 1]
  <2>1. \A i \in 0..size + wrap_elements - 1 :
          buf[i] \in {Silence, Stale} \cup 0..SampleEnd - 1
    BY <1>2 DEF BufferTypeOK
  <2>2. \A i \in 0..size + wrap_elements - 1 :
          buf'[i] \in {Silence, Stale} \cup 0..SampleEnd - 1
    <3> SUFFICES ASSUME NEW i \in 0..size + wrap_elements - 1
                 PROVE  buf'[i] \in {Silence, Stale} \cup 0..SampleEnd - 1
      OBVIOUS
    <3>1. cross /\ i < write_ptr' => size + i \in 0..size + wrap_elements - 1
      BY <1>4, <1>8, <1>9, <1>10
    <3> QED
      BY <1>11, <2>1, <3>1
  <2>3. buf' = [i \in 0..size + wrap_elements - 1 |-> buf'[i]]
    BY <1>1, <1>2 DEF Wrapped, Written, BufferTypeOK
  <2> QED
    BY <2>2, <2>3
<1>13. /\ Bytes' = Bytes /\ SampleEnd' = SampleEnd /\ MaxWords' = MaxWords
       /\ size' = size /\ wrap_elements' = wrap_elements
       /\ \A y : Whole(y)' <=> Whole(y)
  BY <1>1, SameSample, SameSize DEF Whole
<1>14. ReadSpace' = rs + s /\ WritePos' = WritePos + s /\ RingEnd' = RingEnd
  <2>1. ReadSpace' = IF read_ptr <= write_ptr' THEN write_ptr' - read_ptr
                     ELSE write_ptr' - read_ptr + size
    BY <1>1, <1>4, <1>10, <1>13, Masked DEF ReadSpace
  <2>2. ReadSpace' = rs + s
    BY <1>4, <1>8, <1>9, <1>10, <2>1
  <2> QED
    BY <1>1, <1>4, <1>13, <2>2 DEF WritePos, RingEnd
<1>15. /\ left' \in NoSilenceYet..size
       /\ state = "end" => left' # NoSilenceYet /\ left' * Bytes = SampleEnd - consumed
       /\ state = "active" => left' = NoSilenceYet
  <2>1. left \in NoSilenceYet..size /\ seen \in 0..size
    BY <1>2 DEF BufferTypeOK
  <2>2. CASE state = "active"
    BY <1>1, <1>5, <2>1, <2>2
  <2>3. CASE state = "end" /\ left = NoSilenceYet
    <3>1. left' = seen /\ seen * Bytes = SampleEnd - consumed
      BY <1>1, <1>4, <1>5, <2>3 DEF RealLeft
    <3> QED
      BY <1>4, <2>1, <2>3, <3>1 DEF NoSilenceYet
  <2>4. CASE state = "end" /\ left # NoSilenceYet
    BY <1>1, <1>5, <2>1, <2>4 DEF RealLeft
  <2> QED
    BY <1>5, <2>2, <2>3, <2>4
<1>16. BufferTypeOK'
  <2>1. /\ pc' \in {"waits", "idle", "looked", "synthesizes", "ended", "lost"}
        /\ frames' \in 0..MaxFrames
    BY <1>1
  <2>2. {write_ptr', read_ptr'} \subseteq 0..size - 1
    BY <1>1, <1>4, <1>10
  <2>3. hasty' \in BOOLEAN
    BY <1>1, <1>2 DEF BufferTypeOK
  <2> QED
    BY <1>1, <1>2, <1>12, <1>13, <1>15, <2>1, <2>2, <2>3 DEF BufferTypeOK
<1>17. FramesInv'
  <2>1. FramesInv' <=> /\ Whole(consumed') /\ Whole(ReadSpace') /\ Whole(refill')
                       /\ ReadSpace' + refill' < size
    BY <1>13 DEF FramesInv, Whole
  <2>2. Whole(consumed) /\ Whole(refill) /\ rs + refill < size
    BY <1>3 DEF BufferInv, FramesInv
  <2>3. rs + s + refill < size
    <3>1. CASE s = 0
      BY <1>4, <2>2, <3>1
    <3>2. CASE s > 0
      BY <1>4, <1>5, <1>7, <1>8, <3>2
    <3> QED
      BY <3>1, <3>2
  <2> QED
    BY <1>1, <1>8, <1>14, <2>1, <2>2, <2>3
<1>18. StateInv'
  <2>1. CASE state = "active"
    <3>1. s = 0 /\ WritePos' = WritePos
      BY <1>4, <1>7, <1>14, <2>1
    <3> QED
      BY <1>1, <1>13, <1>15, <2>1, <3>1 DEF BufferInv, StateInv
  <2>2. CASE state = "end"
    <3>1. WritePos' + refill' >= SampleEnd
      BY <1>1, <1>4, <1>5, <1>14, <2>2
    <3> QED
      BY <1>1, <1>5, <1>13, <1>15, <2>2, <3>1 DEF StateInv
  <2> QED
    BY <1>5, <2>1, <2>2
<1>19. PlaybackInv'
  <2>1. seen * Bytes <= ReadSpace'
    <3>1. seen * Bytes \in Int
      BY <1>2, <1>6, WordNumbers
    <3> QED
      BY <1>4, <1>5, <1>14, <3>1
  <2>2. left' # NoSilenceYet => ReadSpace' >= MaxWords * Bytes
    BY <1>4, <1>5, <1>6, <1>7, <1>14, <1>15
  <2>3. left' # NoSilenceYet => left' * Bytes = SampleEnd - consumed
    BY <1>5, <1>15
  <2> QED
    BY <1>1, <1>5, <1>13, <2>1, <2>2, <2>3 DEF PlaybackInv
<1>20. DataInv'
  <2>0. rs + s \in Nat
    BY <1>4
  <2>1. PICK m \in Nat : m = rs + s /\ ReadSpace' = m
    BY <1>14, <2>0, Zenon
  <2> SUFFICES ASSUME NEW i \in 0..m - 1, consumed + i < SampleEnd
               PROVE  buf'[IF read_ptr + i < size THEN read_ptr + i ELSE read_ptr + i - size]
                        = consumed + i
    BY <1>1, <1>13, <2>1 DEF DataInv
  <2>2. i \in 0..rs - 1
    <3>1. CASE s = 0
      BY <1>4, <2>1, <3>1
    <3>2. CASE s > 0
      BY <1>4, <1>5, <1>7, <2>1, <3>2
    <3> QED
      BY <3>1, <3>2
  <2>3. buf[IF read_ptr + i < size THEN read_ptr + i ELSE read_ptr + i - size] = consumed + i
    BY <1>3, <2>2 DEF BufferInv, DataInv
  <2>4. PICK p \in 0..size - 1 :
          p = IF read_ptr + i < size THEN read_ptr + i ELSE read_ptr + i - size
    <3>1. CASE read_ptr + i < size
      <4>1. read_ptr + i \in 0..size - 1
        BY <1>4, <2>2, <3>1
      <4> QED
        BY <3>1, <4>1
    <3>2. CASE ~ read_ptr + i < size
      <4>1. read_ptr + i - size \in 0..size - 1
        BY <1>4, <2>2, <3>2
      <4> QED
        BY <3>2, <4>1
    <3> QED
      BY <3>1, <3>2
  <2>5. ~ (cross /\ p < write_ptr') /\ p - write_ptr \notin 0..s - 1
    BY <1>4, <1>8, <1>9, <1>10, <2>2, <2>4
  <2>6. buf'[p] = buf[p]
    BY <1>4, <1>11, <2>4, <2>5
  <2> QED
    BY <2>3, <2>4, <2>6
<1>21. WrapInv'
  <2> SUFFICES ASSUME write_ptr' < read_ptr,
                      NEW e \in RingEnd..RingEnd + wrap_elements, Whole(e),
                      NEW a \in RingEnd..e - 1, a < SampleEnd
               PROVE  buf'[size + a - RingEnd] = a
    BY <1>1, <1>13, <1>14 DEF WrapInv
  <2>1. ~ cross /\ write_ptr < read_ptr
    <3>1. CASE cross
      <4>1. state = "end" /\ SampleEnd <= consumed + rs /\ rs = write_ptr - read_ptr
        BY <1>4, <1>5, <1>7, <1>9, <1>10, <3>1
      <4>2. FALSE
        BY <1>4, <4>1
      <4> QED
        BY <4>2
    <3>2. CASE ~ cross
      BY <1>4, <1>10, <3>2
    <3> QED
      BY <3>1, <3>2
  <2>2. PICK x \in 0..size + wrap_elements - 1 : x = size + a - RingEnd /\ x >= size
    BY <1>4
  <2>3. x - write_ptr \notin 0..s - 1
    BY <1>4, <1>9, <2>1, <2>2
  <2>4. buf'[x] = buf[x]
    BY <1>11, <2>1, <2>3
  <2>5. buf[size + a - RingEnd] = a
    BY <2>1 DEF BufferInv, WrapInv
  <2> QED
    BY <2>2, <2>4, <2>5
<1>22. PendingInv'
  <2>1. CASE s = 0
    <3>1. ~ cross /\ write_ptr' = write_ptr
      BY <1>4, <1>9, <1>10, <2>1
    <3>2. \A i \in 0..size + wrap_elements - 1 : buf'[i] = buf[i]
      BY <1>11, <2>1, <3>1
    <3>3. WritePos' = WritePos
      BY <1>4, <1>14, <2>1
    <3>4. refill > 0 => \A i \in 0..refill - 1 : buf'[write_ptr + i] = WritePos + i
      <4> SUFFICES ASSUME refill > 0, NEW i \in 0..refill - 1
                   PROVE  buf'[write_ptr + i] = WritePos + i
        OBVIOUS
      <4>1. write_ptr + refill <= size + wrap_elements
            /\ buf[write_ptr + i] = WritePos + i
        BY DEF BufferInv, PendingInv
      <4>2. write_ptr + i \in 0..size + wrap_elements - 1
        BY <1>4, <4>1
      <4> QED
        BY <3>2, <4>1, <4>2
    <3> QED
      BY <1>1, <1>13, <1>14, <3>1, <3>3, <3>4 DEF BufferInv, PendingInv
  <2>2. CASE s > 0
    BY <1>1, <1>5, <1>7, <2>2 DEF PendingInv
  <2> QED
    BY <2>1, <2>2
<1> QED
  BY <1>1, <1>2, <1>16, <1>17, <1>18, <1>19, <1>20, <1>21, <1>22 DEF BufferInv

-----------------------------------------------------------------------------
(* Data of a stream: the theorems *)

\* VoiceBase::Render(): what the voice reads behind the end of the ring is in the wrap
\* space, since a cycle needs whole frames and no more of them than fit there.
LEMMA PlaysIt == BufferInv => PlaysTheSample
<1> SUFFICES ASSUME BufferInv, pc = "synthesizes",
                    NEW i \in 0..Min({Needed, seen * Bytes}) - 1, consumed + i < SampleEnd
             PROVE  buf[read_ptr + i] = consumed + i
  BY DEF PlaysTheSample
<1>1. BufferTypeOK /\ sample \in Samples
  BY DEF BufferInv
<1>2. PICK rs \in 0..size - 1 : rs = ReadSpace
  BY <1>1, Pointers
<1>3. /\ write_ptr \in 0..size - 1 /\ read_ptr \in 0..size - 1
      /\ rs = (IF read_ptr <= write_ptr THEN write_ptr - read_ptr
               ELSE write_ptr - read_ptr + size)
      /\ consumed \in Nat /\ RingEnd = consumed + size - read_ptr
      /\ size \in Nat /\ wrap_elements \in Nat
  BY <1>1, <1>2, Pointers, Sizes
<1>4. PICK x \in 0..wrap_elements : x = Needed /\ Whole(x)
  <2>1. frames \in 0..MaxFrames
    BY <1>1 DEF BufferTypeOK
  <2> QED
    BY <1>1, <2>1, SampleNumbers DEF Needed
<1>5. PICK y \in Int : y = seen * Bytes /\ y <= rs
  <2>1. seen \in Int
    BY <1>1, Sizes DEF BufferTypeOK
  <2>2. seen * Bytes \in Int
    BY <1>1, <2>1, WordNumbers
  <2> QED
    BY <1>2, <2>2 DEF BufferInv, PlaybackInv
<1>6. i \in Nat /\ i < x /\ i < rs
  <2>1. Min({x, y}) = IF x <= y THEN x ELSE y
    BY <1>3, <1>4, <1>5, MinMax
  <2>2. i \in 0..Min({x, y}) - 1
    BY <1>4, <1>5
  <2> QED
    BY <1>3, <1>4, <1>5, <2>1, <2>2
<1>7. CASE read_ptr + i < size
  <2>1. i \in 0..ReadSpace - 1
    BY <1>2, <1>3, <1>6
  <2> QED
    BY <1>7, <2>1 DEF BufferInv, DataInv
<1>8. CASE ~ read_ptr + i < size
  <2>1. write_ptr < read_ptr
    BY <1>3, <1>6, <1>8
  <2>2. PICK e \in RingEnd..RingEnd + wrap_elements : e = consumed + x /\ Whole(e)
    <3>1. Whole(consumed) /\ consumed \in Int /\ x \in Int
      BY <1>3, <1>4 DEF BufferInv, FramesInv
    <3>2. Whole(consumed + x)
      BY <1>1, <1>4, <3>1, SampleNumbers
    <3>3. consumed + x \in RingEnd..RingEnd + wrap_elements
      BY <1>3, <1>4, <1>6, <1>8
    <3> QED
      BY <3>2, <3>3
  <2>3. PICK a \in RingEnd..e - 1 : a = consumed + i
    <3>1. consumed + i \in RingEnd..e - 1
      BY <1>3, <1>4, <1>6, <1>8, <2>2
    <3> QED
      BY <3>1
  <2>4. buf[size + a - RingEnd] = a
    BY <2>1, <2>2, <2>3 DEF BufferInv, WrapInv
  <2>5. size + a - RingEnd = read_ptr + i
    BY <1>3, <1>6, <2>3
  <2> QED
    BY <2>3, <2>4, <2>5
<1> QED
  BY <1>7, <1>8

\* The disk thread stops to refill a stream only when it holds enough for a cycle.
LEMMA EnoughInFull == BufferInv => FullIsEnough
<1> SUFFICES ASSUME BufferInv, RefillFrames = 0
             PROVE  ReadSpace >= MaxWords * Bytes
  BY DEF FullIsEnough
<1>1. BufferTypeOK /\ sample \in Samples
  BY DEF BufferInv
<1>2. WriteSpace = 0 \/ WriteSpaceToEnd < 6
  BY <1>1, RefillSize
<1>3. ReadSpace >= wrap_elements
  BY <1>1, <1>2, SpaceToEnd
<1>4. /\ MaxWords * Bytes \in Nat /\ MaxWords * Bytes <= wrap_elements
      /\ wrap_elements \in Nat /\ ReadSpace \in Int
  BY <1>1, SampleNumbers, Sizes, Pointers
<1> QED
  BY <1>3, <1>4

\* Whatever a voice has been, the types stay what they are, and a stream that has ended
\* is not active again.
LEMMA TypesStep ==
  ASSUME BufferTypeOK, sample \in Samples,
         \/ Publish \/ Look \/ MoveOn \/ Ended
         \/ \E n \in 0..MaxFrames : PickUpBuffer(n) \/ Play(n)
  PROVE  BufferTypeOK' /\ sample' \in Samples /\ (state # "active" => state' # "active")
<1>1. sample' = sample /\ produced' = produced /\ hasty' \in BOOLEAN
  BY Zenon DEF Publish, Look, MoveOn, Ended, PickUpBuffer, Play, IncrementReadPos, bufferVars, stream,
     voice, BufferTypeOK
<1>2. /\ Bytes' = Bytes /\ SampleEnd' = SampleEnd
      /\ size' = size /\ wrap_elements' = wrap_elements
  BY <1>1, SameSample, SameSize
<1>3. /\ size \in Nat /\ wrap_elements \in Nat /\ size > wrap_elements /\ MaxFrames \in Nat
      /\ write_ptr \in 0..size - 1 /\ read_ptr \in 0..size - 1 /\ ReadSpace \in 0..size - 1
      /\ consumed \in Nat /\ refill \in 0..size /\ seen \in 0..size
      /\ left \in NoSilenceYet..size /\ frames \in 0..MaxFrames
  BY Sizes, Pointers DEF BufferTypeOK
<1>products. \A n \in 0..MaxFrames : n * FrameSize \in Nat /\ n * sample.channels \in Nat
  <2>1. /\ \A n \in Nat : n * FrameSize \in Nat
        /\ \A n \in Nat : n * sample.channels \in Nat
    BY Zenon, SampleNumbers, WordNumbers
  <2>2. 0..MaxFrames \subseteq Nat
    BY <1>3
  <2> HIDE DEF FrameSize
  <2> QED
    BY <2>1, <2>2, Zenon
<1> DEFINE Item == {Silence, Stale} \cup 0..SampleEnd - 1
<1>4. ASSUME NEW n, NEW b \in [0..size + wrap_elements - 1 -> Item]
      PROVE  Wrapped(n, b) \in [0..size + wrap_elements - 1 -> Item]
  <2>1. DOMAIN b = 0..size + wrap_elements - 1 /\ Stale \in Item
    OBVIOUS
  <2> HIDE DEF Item
  <2> QED
    BY <2>1 DEF Wrapped
<1>5. ASSUME NEW n \in 0..size PROVE Advanced(n) \in 0..size - 1
  BY <1>3 DEF Advanced
<1>6. buf \in [0..size + wrap_elements - 1 -> Item]
  BY DEF BufferTypeOK
<1>7. ASSUME NEW x \in Nat, IncrementReadPos(x)
      PROVE  /\ write_ptr' \in 0..size - 1 /\ read_ptr' \in 0..size - 1 /\ consumed' \in Nat
             /\ state' \in {state, "unused"}
  <2>1. CASE state = "end" /\ x >= ReadSpace
    BY <1>3, <1>7, <2>1 DEF IncrementReadPos
  <2>2. CASE ~ (state = "end" /\ x >= ReadSpace)
    <3>1. PICK d \in 0..size - 1 : d = Min({x, ReadSpace})
      <4>1. Min({x, ReadSpace}) = IF x <= ReadSpace THEN x ELSE ReadSpace
        BY <1>3, MinMax
      <4>2. Min({x, ReadSpace}) \in 0..size - 1
        BY <1>3, <4>1
      <4> QED
        BY <4>2
    <3>2. /\ read_ptr' = (read_ptr + d) % size /\ consumed' = consumed + d
          /\ write_ptr' = write_ptr /\ state' = state
      BY <1>7, <2>2, <3>1 DEF IncrementReadPos
    <3>3. (read_ptr + d) % size \in 0..size - 1
      BY <1>3, <3>1, Advance
    <3>4. consumed + d \in Nat
      BY <1>3, <3>1
    <3> QED
      BY <1>3, <3>2, <3>3, <3>4
  <2> QED
    BY <2>1, <2>2
<1>8. CASE Publish
  <2>1. /\ buf' = Wrapped(refill, buf) /\ write_ptr' = Advanced(refill) /\ refill' = 0
        /\ read_ptr' = read_ptr /\ state' = state /\ consumed' = consumed
        /\ pc' = pc /\ seen' = seen /\ frames' = frames /\ left' = left
    BY <1>8 DEF Publish, voice
  <2>2. buf' \in [0..size + wrap_elements - 1 -> Item] /\ write_ptr' \in 0..size - 1
    BY <1>3, <1>4, <1>5, <1>6, <2>1
  <2> QED
    BY <1>1, <1>2, <1>3, <2>1, <2>2 DEF BufferTypeOK
<1>9. CASE Look
  <2>1. /\ buf' = buf /\ write_ptr' = write_ptr /\ refill' = refill
        /\ read_ptr' = read_ptr /\ state' = state /\ consumed' = consumed
        /\ pc' = "looked" /\ seen' = ReadSpace \div Bytes /\ frames' = frames /\ left' = left
    BY <1>9 DEF Look, stream
  <2>2. seen' \in 0..size
    <3>1. PICK rs \in 0..size - 1 : rs = ReadSpace
      BY <1>3
    <3>2. rs \in Nat /\ 0..rs \subseteq 0..size
      BY <1>3, <3>1
    <3>3. \A x \in Nat : x \div Bytes \in 0..x
      BY WordNumbers
    <3>4. rs \div Bytes \in 0..rs
      BY <3>2, <3>3
    <3> QED
      BY <2>1, <3>1, <3>2, <3>4
  <2> QED
    BY <1>1, <1>2, <1>3, <2>1, <2>2 DEF BufferTypeOK
<1>10. ASSUME NEW n \in 0..MaxFrames, PickUpBuffer(n)
       PROVE  BufferTypeOK' /\ (state # "active" => state' # "active")
  <2>1. /\ buf' = buf /\ refill' = refill /\ IncrementReadPos(n * FrameSize)
        /\ pc' \in {"lost", "idle"} /\ seen' = seen /\ frames' = frames /\ left' = left
    BY <1>10 DEF PickUpBuffer
  <2>2. n * FrameSize \in Nat
    BY <1>3, <1>products
  <2> QED
    BY <1>1, <1>2, <1>3, <1>7, <2>1, <2>2 DEF BufferTypeOK
<1>11. CASE MoveOn
  <2>1. /\ buf' = buf /\ refill' = refill /\ IncrementReadPos(frames * FrameSize)
        /\ pc' \in {"lost", "idle", "ended"} /\ seen' = seen /\ frames' = frames
        /\ left' = (IF left >= 0 THEN Max({Remaining, 0}) ELSE left)
    BY <1>11 DEF MoveOn
  <2>2. frames * FrameSize \in Nat
    BY <1>3, <1>products
  <2>3. left' \in NoSilenceYet..size
    <3>1. frames * sample.channels \in Nat
      BY <1>3, <1>products
    <3>2. PICK r \in Int : r = Remaining /\ r <= left
      BY <1>3, <3>1 DEF Remaining, NoSilenceYet
    <3>3. Max({r, 0}) = IF r >= 0 THEN r ELSE 0
      BY <3>2, MinMax
    <3> QED
      BY <1>3, <2>1, <3>2, <3>3 DEF NoSilenceYet
  <2> QED
    BY <1>1, <1>2, <1>3, <1>7, <2>1, <2>2, <2>3 DEF BufferTypeOK
<1>12. ASSUME NEW n \in 0..MaxFrames, Play(n)
       PROVE  BufferTypeOK' /\ (state # "active" => state' # "active")
  <2> DEFINE missing == IF state = "end" /\ seen < MaxWords THEN (MaxWords - seen) * Bytes ELSE 0
             W == Written([i \in 0..missing - 1 |-> Silence])
  <2>1. /\ buf' = Wrapped(missing, W) /\ write_ptr' = Advanced(missing)
        /\ left' = (IF state = "end" THEN RealLeft ELSE left)
        /\ frames' = n /\ pc' = "synthesizes" /\ seen' = seen
        /\ read_ptr' = read_ptr /\ state' = state /\ refill' = refill /\ consumed' = consumed
    BY <1>12 DEF Play
  <2>2. missing \in 0..size
    <3>1. /\ MaxWords \in Nat /\ MaxWords * Bytes \in Nat /\ MaxWords * Bytes <= wrap_elements
          /\ Bytes \in {2, 3}
      BY SampleNumbers
    <3>2. seen < MaxWords => (MaxWords - seen) * Bytes \in 0..size
      <4>1. CASE Bytes = 2
        BY <1>3, <3>1, <4>1
      <4>2. CASE Bytes = 3
        BY <1>3, <3>1, <4>2
      <4> QED
        BY <3>1, <4>1, <4>2
    <3> QED
      BY <1>3, <3>2
  <2>3. W \in [0..size + wrap_elements - 1 -> Item]
    <3>1. Silence \in Item
      OBVIOUS
    <3> HIDE DEF Item, missing
    <3> QED
      BY <1>6, <3>1 DEF Written
  <2> HIDE DEF missing, W
  <2>4. buf' \in [0..size + wrap_elements - 1 -> Item] /\ write_ptr' \in 0..size - 1
    BY <1>4, <1>5, <2>1, <2>2, <2>3
  <2>5. left' \in NoSilenceYet..size
    BY <1>3, <2>1 DEF RealLeft, NoSilenceYet
  <2> QED
    BY <1>1, <1>2, <1>3, <2>1, <2>4, <2>5 DEF BufferTypeOK
<1>13. CASE Ended
  BY <1>2, <1>13 DEF Ended, bufferVars, stream, voice, BufferTypeOK
<1> QED
  BY <1>1, <1>8, <1>9, <1>10, <1>11, <1>12, <1>13 DEF BufferTypeOK

\* A voice becomes hasty with the end of the stream.
LEMMA HastyAtEnd ==
  ASSUME ~ hasty, hasty', BufferTypeOK,
         MoveOn \/ (\E n \in 0..MaxFrames : PickUpBuffer(n) \/ Play(n))
  PROVE  state # "active"
BY DEF MoveOn, PickUpBuffer, Play, IncrementReadPos

\* ... and remains so.
LEMMA HastyForEver ==
  ASSUME BufferTypeOK, hasty,
         MoveOn \/ (\E n \in 0..MaxFrames : PickUpBuffer(n) \/ Play(n))
  PROVE  hasty'
BY DEF MoveOn, PickUpBuffer, Play, IncrementReadPos

\* AnyInv is an invariant: each step of the disk thread and of the voice keeps the data
\* between the pointers, and in the wrap space, in order, until the voice is hasty.
THEOREM BufferInvariant == BufferSpec => []AnyInv
<1>1. BufferInit => AnyInv
  BY BufferInitInv DEF AnyInv, BufferInit
<1>2. AnyInv /\ [BufferNext]_bufferVars => AnyInv'
  <2> SUFFICES ASSUME AnyInv, [BufferNext]_bufferVars PROVE AnyInv'
    OBVIOUS
  <2>0. BufferTypeOK /\ sample \in Samples
    BY DEF AnyInv, BufferInv
  <2>1. CASE RefillBuffer
    <3>1. state = "active" /\ hasty' = hasty
      BY <2>1 DEF RefillBuffer
    <3> QED
      BY <2>1, <3>1, RefillBufferStep DEF AnyInv
  <2>2. CASE Publish \/ Look
    <3>1. hasty' = hasty
      BY <2>2 DEF Publish, Look
    <3> QED
      BY <2>0, <2>2, <3>1, PublishStep, LookStep, TypesStep DEF AnyInv
  <2>3. CASE MoveOn
    BY <2>0, <2>3, MoveOnStep, TypesStep, HastyAtEnd, HastyForEver DEF AnyInv
  <2>4. ASSUME NEW n \in 0..MaxFrames, PickUpBuffer(n) PROVE AnyInv'
    BY <2>0, <2>4, PickUpBufferStep, TypesStep, HastyAtEnd, HastyForEver DEF AnyInv
  <2>5. ASSUME NEW n \in 0..MaxFrames, Play(n) PROVE AnyInv'
    BY <2>0, <2>5, PlayStep, TypesStep, HastyAtEnd, HastyForEver DEF AnyInv
  <2>6. CASE Ended \/ UNCHANGED bufferVars
    <3>1. UNCHANGED bufferVars
      BY <2>6 DEF Ended
    <3>2. /\ UNCHANGED <<sample, buf, write_ptr, read_ptr, state, produced, refill>>
          /\ UNCHANGED <<pc, seen, frames, left, consumed, hasty>>
      BY <3>1 DEF bufferVars, stream, voice
    <3>3. /\ Bytes' = Bytes /\ FrameSize' = FrameSize /\ SampleEnd' = SampleEnd
          /\ MaxWords' = MaxWords /\ size' = size /\ wrap_elements' = wrap_elements
      BY <3>2, SameSample, SameSize
    <3>4. ReadSpace' = ReadSpace /\ WritePos' = WritePos /\ RingEnd' = RingEnd
          /\ \A y : Whole(y)' <=> Whole(y)
      BY <3>2, <3>3 DEF ReadSpace, WritePos, RingEnd, Whole
    <3>5. BufferTypeOK' /\ (BufferInv => BufferInv')
      BY <2>0, <3>2, <3>3, <3>4 DEF BufferInv, BufferTypeOK, FramesInv, StateInv, PlaybackInv, DataInv,
         WrapInv, PendingInv
    <3> QED
      BY <3>2, <3>5 DEF AnyInv
  <2> QED
    BY <2>1, <2>2, <2>3, <2>4, <2>5, <2>6 DEF BufferNext
<1> QED
  BY <1>1, <1>2, PTL DEF BufferSpec

\* Unless the voice acts on the end of the stream before it has seen all that was read:
\* it plays the sample although it reads the ring as a line.  In any case it finds enough
\* when the disk thread has filled the buffer.
THEOREM BufferIsSound == BufferSpec => []BufferSound
<1>1. AnyInv => BufferSound
  <2>1. hasty /\ AnyInv => FullIsEnough
    BY DEF AnyInv, FullIsEnough
  <2> QED
    BY <2>1, PlaysIt, EnoughInFull DEF AnyInv, BufferSound, BufferInv
<1>2. BufferSpec => []AnyInv
  BY BufferInvariant
<1> QED
  BY <1>1, <1>2, PTL

\* RealSampleWordsLeftToRead counts what is left of the sample, and not the silence: the
\* voice ends in the cycle in which the last frame is played, unless it was hasty.
THEOREM VoiceEnds == BufferSpec => []EndsAtEnd
<1>1. AnyInv => EndsAtEnd
  BY DEF AnyInv, BufferInv, PlaybackInv, EndsAtEnd, PlaysToEnd
<1>2. BufferSpec => []AnyInv
  BY BufferInvariant
<1> QED
  BY <1>1, <1>2, PTL

=============================================================================
