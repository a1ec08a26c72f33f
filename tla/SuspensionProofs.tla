-------------------------- MODULE SuspensionProofs --------------------------
(***************************************************************************)
(* Proofs about Suspension for every set of editors and every finite set   *)
(* of regions. Edits may overlap, the instrument may change and the engine *)
(* may be reset at any time; the invariant says how much of it is left     *)
(* after each of these, as races records them.                             *)
(***************************************************************************)
EXTENDS Suspension, SequenceTheorems, FiniteSetTheorems, TLAPS

-----------------------------------------------------------------------------
(* The inductive invariant: what holds whatever the edits meet *)

\* The ResourceEntriesMutex is held around Suspend(), Resume() and the caching of
\* a sample.
EntriesInv == \A e \in Editor :
  pc[e] \in {"locked", "set", "waits", "samples"} <=> entries = e

\* The suspendedEnginesMutex is held from SuspendEnginesUsing() to ResumeAllEngines().
EnginesInv == \A e \in Editor : pc[e] \in EngineEdit <=> engines = e

\* Who has disabled the engine
DisablerInv ==
  /\ \A e \in Editor : pc[e] \in EngineEdit \ {"suspends"} <=> disabler = e
  /\ pc[Control] \in {"idle", "disables"}
  /\ pc[Control] = "disables" <=> disabler = Control

\* An editor of a region has one, and resumes it holding the mutex.
TargetInv ==
  /\ \A e \in Editor : target[e] \in Region <=> pc[e] \in RegionEdit
  /\ \A e \in resuming : pc[e] \in {"locked", "set", "waits"}

\* SuspendAll() has killed all voices, and the audio thread does not trigger any.
IdleInv == \A e \in Editor :
  pc[e] \in {"counts", "edits all", "samples"} => cycle = "out" /\ playing = {}

\* Only SuspendAll() counts.
KillInv == \A e \in Editor : toKill[e] # 0 => pc[e] = "counts"

EditorsInv == EntriesInv /\ EnginesInv /\ DisablerInv /\ TargetInv
Base == TypeOK /\ EditorsInv /\ IdleInv /\ KillInv

-----------------------------------------------------------------------------
(* What holds until edits overlap or lose their request *)

\* The audio thread is neither asked nor does it wait for streams.
NoRequest == pSuspend = Nobody /\ pResume = Nobody /\ toSuspend = 0

\* The request of the editor that waits, before and after the audio thread has
\* found it
RequestInv ==
  /\ (\A e \in Editor : pc[e] # "waits") => NoRequest
  /\ ongoing => \E e \in Editor : pc[e] \in {"set", "waits"}
  /\ \A e \in Editor :
       /\ pc[e] = "set" => ongoing
       /\ pc[e] = "waits" /\ e \notin resuming =>
            /\ pResume = Nobody
            /\ \/ pSuspend = target[e] /\ ongoing /\ toSuspend = 0
               \/ pSuspend = Nobody /\ target[e] \in suspended \ playing
                  /\ (ongoing <=> toSuspend # 0)
       /\ pc[e] = "waits" /\ e \in resuming =>
            /\ pSuspend = Nobody /\ toSuspend = 0
            /\ \/ pResume = target[e] /\ ongoing
               \/ pResume = Nobody /\ ~ ongoing /\ target[e] \notin suspended

QuietInv == ~ Overlap /\ RequestInv /\ EditedRegionIsSilent /\ SuspendedIsEdited

-----------------------------------------------------------------------------
(* What holds until an edit meets anything *)

\* The streams of the region's voices were deleted before its edit.
NoOrderInv == \A e \in Editor :
  pc[e] = "edits" => \A i \in DOMAIN dying : dying[i].notify => dying[i].region # target[e]

IInv == /\ Base
        /\ races \subseteq {"reset"} => QuietInv
        /\ races \subseteq {"overlap"} => NotificationsMatch
        /\ races = {} => NoOrderInv

-----------------------------------------------------------------------------
(* The queue of deletion orders *)

\* A deletion order, as the disk thread gets it
Order == [region : Region, notify : BOOLEAN]

\* The orders whose execution is notified
Notifying(q) == {i \in DOMAIN q : q[i].notify}

\* The number of notifications that a queue of the disk thread will yield
LEMMA NotifyingType ==
  ASSUME NEW q \in Seq(Order)
  PROVE  /\ IsFiniteSet(Notifying(q)) /\ Cardinality(Notifying(q)) \in Nat
         /\ Cardinality(Notifying(q)) = 0 => Notifying(q) = {}
<1>1. IsFiniteSet(1..Len(q))
  BY FS_Interval
<1>2. Notifying(q) \subseteq 1..Len(q)
  BY DEF Notifying
<1>3. IsFiniteSet(Notifying(q))
  BY <1>1, <1>2, FS_Subset
<1> QED
  BY <1>3, FS_CardinalityType, FS_EmptySet

\* Orders that are added at the end of the queue add their notifications.
LEMMA NotifyingConcat ==
  ASSUME NEW s \in Seq(Order), NEW t \in Seq(Order)
  PROVE  /\ s \o t \in Seq(Order)
         /\ Cardinality(Notifying(s \o t)) = Cardinality(Notifying(s)) + Cardinality(Notifying(t))
<1> DEFINE Shifted == {i + Len(s) : i \in Notifying(t)}
<1>1. /\ s \o t \in Seq(Order) /\ Len(s) \in Nat /\ Len(t) \in Nat
      /\ DOMAIN s = 1..Len(s) /\ DOMAIN t = 1..Len(t) /\ DOMAIN (s \o t) = 1..Len(s) + Len(t)
  BY LenProperties, ConcatProperties
<1>2. \A i \in 1..Len(s) + Len(t) : (s \o t)[i] = IF i <= Len(s) THEN s[i] ELSE t[i - Len(s)]
  BY ConcatProperties
<1>3. Notifying(s \o t) = Notifying(s) \cup Shifted
  <2>1. ASSUME NEW i \in Notifying(s \o t) PROVE i \in Notifying(s) \cup Shifted
    <3>1. i \in 1..Len(s) + Len(t) /\ (s \o t)[i].notify
      BY <1>1 DEF Notifying
    <3>2. CASE i <= Len(s)
      <4>1. i \in 1..Len(s) /\ s[i].notify
        BY <1>1, <1>2, <3>1, <3>2
      <4> QED
        BY <1>1, <4>1 DEF Notifying
    <3>3. CASE ~ (i <= Len(s))
      <4>1. i - Len(s) \in 1..Len(t) /\ t[i - Len(s)].notify
        BY <1>1, <1>2, <3>1, <3>3
      <4>2. i - Len(s) \in Notifying(t) /\ i = (i - Len(s)) + Len(s)
        BY <1>1, <3>1, <4>1 DEF Notifying
      <4> QED
        BY <4>2
    <3> QED
      BY <3>2, <3>3
  <2>2. ASSUME NEW i \in Notifying(s) PROVE i \in Notifying(s \o t)
    <3>1. i \in 1..Len(s) /\ s[i].notify
      BY <1>1 DEF Notifying
    <3>2. i \in 1..Len(s) + Len(t) /\ (s \o t)[i].notify
      BY <1>1, <1>2, <3>1
    <3> QED
      BY <1>1, <3>2 DEF Notifying
  <2>3. ASSUME NEW i \in Notifying(t) PROVE i + Len(s) \in Notifying(s \o t)
    <3>1. i \in 1..Len(t) /\ t[i].notify
      BY <1>1 DEF Notifying
    <3>2. /\ i + Len(s) \in 1..Len(s) + Len(t) /\ ~ (i + Len(s) <= Len(s))
          /\ (i + Len(s)) - Len(s) = i
      BY <1>1, <3>1
    <3>3. (s \o t)[i + Len(s)].notify
      BY <1>2, <3>1, <3>2
    <3> QED
      BY <1>1, <3>2, <3>3 DEF Notifying
  <2> QED
    BY <2>1, <2>2, <2>3
<1>4. IsFiniteSet(Shifted) /\ Cardinality(Shifted) = Cardinality(Notifying(t))
  <2> DEFINE f == [i \in Notifying(t) |-> i + Len(s)]
  <2>1. Notifying(t) \subseteq Nat
    BY <1>1 DEF Notifying
  <2>2. \A i, j \in Notifying(t) : f[i] = f[j] => i = j
    BY <1>1, <2>1
  <2>3. f \in Bijection(Notifying(t), Shifted)
    BY <2>2 DEF Bijection, Injection, Surjection, IsInjective
  <2>4. ExistsBijection(Notifying(t), Shifted)
    BY <2>3, Zenon DEF ExistsBijection
  <2> HIDE DEF f, Shifted
  <2> QED
    BY <2>4, FS_Bijection, NotifyingType
<1>5. Notifying(s) \cap Shifted = {}
  BY <1>1 DEF Notifying
<1> HIDE DEF Shifted
<1>6. Cardinality(Notifying(s) \cup Shifted)
        = Cardinality(Notifying(s)) + Cardinality(Shifted) - Cardinality({})
  BY <1>4, <1>5, NotifyingType, FS_Union
<1> QED
  BY <1>1, <1>3, <1>4, <1>6, FS_EmptySet, NotifyingType

\* A deletion order that is not notified changes nothing in that respect.
LEMMA NotifyingAppend ==
  ASSUME NEW q \in Seq(Order), NEW o \in Order, ~ o.notify
  PROVE  /\ Append(q, o) \in Seq(Order)
         /\ Cardinality(Notifying(Append(q, o))) = Cardinality(Notifying(q))
<1>1. DOMAIN Append(q, o) = 1..Len(q) + 1 /\ DOMAIN q = 1..Len(q) /\ Len(q) \in Nat
  OBVIOUS
<1>2. \A i \in 1..Len(q) + 1 : Append(q, o)[i] = IF i <= Len(q) THEN q[i] ELSE o
  OBVIOUS
<1>3. Notifying(Append(q, o)) = Notifying(q)
  BY <1>1, <1>2 DEF Notifying
<1> QED
  BY <1>3

\* A sequence of orders that are all notified, as KillImmediately(true) gives them
LEMMA NotifyingAll ==
  ASSUME NEW n \in Nat, NEW q \in [1..n -> Order], \A i \in 1..n : q[i].notify
  PROVE  q \in Seq(Order) /\ Cardinality(Notifying(q)) = n
<1>1. q \in Seq(Order) /\ DOMAIN q = 1..n
  BY SeqDef
<1>2. Notifying(q) = 1..n
  BY <1>1 DEF Notifying
<1> QED
  BY <1>1, <1>2, FS_Interval

\* The execution of an order takes it, and its notification, off the queue.
LEMMA NotifyingRemove ==
  ASSUME NEW q \in Seq(Order), NEW i \in 1..Len(q)
  PROVE  /\ RemoveAt(q, i) \in Seq(Order)
         /\ Cardinality(Notifying(RemoveAt(q, i))) + (IF q[i].notify THEN 1 ELSE 0)
              = Cardinality(Notifying(q))
         /\ \A j \in DOMAIN RemoveAt(q, i) : \E k \in DOMAIN q : RemoveAt(q, i)[j] = q[k]
<1> DEFINE a == SubSeq(q, 1, i - 1)  b == SubSeq(q, i + 1, Len(q))  m == <<q[i]>>
<1>1. Len(q) \in Nat /\ q[i] \in Order /\ \A j \in 1..Len(q) : q[j] \in Order
  BY ElementOfSeq
<1>2. /\ a \in Seq(Order) /\ Len(a) = i - 1
      /\ \A j \in 1..i - 1 : a[j] = q[j]
  <2>1. \A j \in 1..i - 1 : q[j] \in Order
    BY <1>1
  <2>2. i - 1 \in Int /\ (IF 1 <= i - 1 THEN i - 1 - 1 + 1 ELSE 0) = i - 1
    OBVIOUS
  <2>3. \A j \in 1..i - 1 : 1 + j - 1 = j
    OBVIOUS
  <2>4. /\ a \in Seq(Order) /\ Len(a) = IF 1 <= i - 1 THEN i - 1 - 1 + 1 ELSE 0
        /\ \A j \in 1..i - 1 - 1 + 1 : a[j] = q[1 + j - 1]
    BY <2>1, <2>2, SubSeqProperties
  <2> HIDE DEF a
  <2> QED
    BY <2>2, <2>3, <2>4
<1>3. /\ b \in Seq(Order) /\ Len(b) = Len(q) - i
      /\ \A j \in 1..Len(q) - i : b[j] = q[i + j]
  <2>1. \A j \in i + 1..Len(q) : q[j] \in Order
    BY <1>1
  <2>2. i + 1 \in Int /\ (IF i + 1 <= Len(q) THEN Len(q) - (i + 1) + 1 ELSE 0) = Len(q) - i
    BY <1>1
  <2>3. \A j \in 1..Len(q) - i : i + 1 + j - 1 = i + j
    OBVIOUS
  <2>4. /\ b \in Seq(Order) /\ Len(b) = IF i + 1 <= Len(q) THEN Len(q) - (i + 1) + 1 ELSE 0
        /\ \A j \in 1..Len(q) - (i + 1) + 1 : b[j] = q[i + 1 + j - 1]
    BY <1>1, <2>1, <2>2, SubSeqProperties
  <2>5. 1..Len(q) - (i + 1) + 1 = 1..Len(q) - i
    BY <1>1
  <2> HIDE DEF b
  <2> QED
    BY <2>2, <2>3, <2>4, <2>5
<1>4. m \in Seq(Order) /\ Len(m) = 1 /\ m[1] = q[i]
  BY <1>1
<1> HIDE DEF a, b, m
<1>5. RemoveAt(q, i) = a \o b /\ RemoveAt(q, i) \in Seq(Order)
  BY <1>2, <1>3 DEF RemoveAt, a, b
<1>6. q = (a \o m) \o b
  <2>1. /\ a \o m \in Seq(Order) /\ Len(a \o m) = i
        /\ \A j \in 1..i : (a \o m)[j] = IF j <= i - 1 THEN a[j] ELSE m[j - (i - 1)]
    <3>1. /\ a \o m \in Seq(Order) /\ Len(a \o m) = Len(a) + Len(m)
          /\ \A j \in 1..Len(a) + Len(m) :
               (a \o m)[j] = IF j <= Len(a) THEN a[j] ELSE m[j - Len(a)]
      BY <1>2, <1>4, ConcatProperties
    <3>2. Len(a) = i - 1 /\ Len(a) + Len(m) = i
      BY <1>2, <1>4
    <3> QED
      BY <3>1, <3>2
  <2>2. \A j \in 1..i : (a \o m)[j] = q[j]
    BY <1>2, <1>4, <2>1
  <2>3. /\ (a \o m) \o b \in Seq(Order) /\ Len((a \o m) \o b) = Len(q)
        /\ \A j \in 1..Len(q) : ((a \o m) \o b)[j] = IF j <= i THEN (a \o m)[j] ELSE b[j - i]
    BY <1>1, <1>3, <2>1, ConcatProperties
  <2>4. \A j \in 1..Len(q) : ((a \o m) \o b)[j] = q[j]
    BY <1>1, <1>3, <2>2, <2>3
  <2> QED
    BY <2>3, <2>4, SeqEqual
<1>7. Cardinality(Notifying(m)) = IF q[i].notify THEN 1 ELSE 0
  <2>1. DOMAIN m = {1}
    BY <1>4
  <2>2. Notifying(m) = IF q[i].notify THEN {1} ELSE {}
    BY <1>4, <2>1 DEF Notifying
  <2> QED
    BY <2>2, FS_EmptySet, FS_Singleton
<1>8. Cardinality(Notifying(q))
        = Cardinality(Notifying(a)) + Cardinality(Notifying(m)) + Cardinality(Notifying(b))
  <2>1. /\ a \o m \in Seq(Order)
        /\ Cardinality(Notifying(a \o m)) = Cardinality(Notifying(a)) + Cardinality(Notifying(m))
    BY <1>2, <1>4, NotifyingConcat
  <2>2. Cardinality(Notifying((a \o m) \o b))
          = Cardinality(Notifying(a \o m)) + Cardinality(Notifying(b))
    BY <1>3, <2>1, NotifyingConcat
  <2> QED
    BY <1>6, <2>1, <2>2
<1>9. Cardinality(Notifying(RemoveAt(q, i)))
        = Cardinality(Notifying(a)) + Cardinality(Notifying(b))
  BY <1>2, <1>3, <1>5, NotifyingConcat
<1>10. \A j \in DOMAIN RemoveAt(q, i) : \E k \in DOMAIN q : RemoveAt(q, i)[j] = q[k]
  <2>1. /\ DOMAIN RemoveAt(q, i) = 1..Len(q) - 1 /\ DOMAIN q = 1..Len(q)
        /\ \A j \in 1..Len(q) - 1 : (a \o b)[j] = IF j <= i - 1 THEN a[j] ELSE b[j - (i - 1)]
    BY <1>1, <1>2, <1>3, <1>5, ConcatProperties
  <2>2. ASSUME NEW j \in 1..Len(q) - 1 PROVE \E k \in 1..Len(q) : (a \o b)[j] = q[k]
    <3>1. CASE j <= i - 1
      BY <1>1, <1>2, <2>1, <3>1
    <3>2. CASE ~ (j <= i - 1)
      <4>1. j - (i - 1) \in 1..Len(q) - i /\ i + (j - (i - 1)) = j + 1 /\ j + 1 \in 1..Len(q)
        BY <1>1, <3>2
      <4> QED
        BY <1>3, <2>1, <3>2, <4>1
    <3> QED
      BY <3>1, <3>2
  <2> QED
    BY <1>5, <2>1, <2>2
<1> QED
  BY <1>2, <1>3, <1>4, <1>5, <1>7, <1>8, <1>9, <1>10, NotifyingType

\* The orders for the voices of the regions, or of one of them, are all notified.
LEMMA OrdersType ==
  ASSUME TypeOK
  PROVE  /\ dying \in Seq(Order) /\ Cardinality(playing) \in Nat
         /\ \A q \in Orders(playing) :
              /\ dying \o q \in Seq(Order)
              /\ Cardinality(Notifying(dying \o q))
                   = Cardinality(Notifying(dying)) + Cardinality(playing)
<1>1. dying \in Seq(Order) /\ Cardinality(playing) \in Nat
  <2>1. IsFiniteSet(playing)
    BY RegionAssumption, FS_Subset DEF TypeOK
  <2> QED
    BY <2>1, FS_CardinalityType DEF TypeOK, Order
<1>2. ASSUME NEW q \in Orders(playing)
      PROVE  q \in Seq(Order) /\ Cardinality(Notifying(q)) = Cardinality(playing)
  <2>1. q \in [1..Cardinality(playing) -> Order] /\ \A i \in 1..Cardinality(playing) : q[i].notify
    BY DEF Orders, Order, TypeOK
  <2> QED
    BY <1>1, <2>1, NotifyingAll
<1> QED
  BY <1>1, <1>2, NotifyingConcat

LEMMA KillOrdersType ==
  ASSUME TypeOK, pSuspend # Nobody, NEW killed, killed = playing \cap {pSuspend}
  PROVE  /\ Cardinality(killed) \in Nat /\ KillOrders(killed) \in Seq(Order)
         /\ \A i \in DOMAIN KillOrders(killed) : KillOrders(killed)[i].region = pSuspend
         /\ dying \o KillOrders(killed) \in Seq(Order)
         /\ Cardinality(Notifying(dying \o KillOrders(killed)))
              = Cardinality(Notifying(dying)) + Cardinality(killed)
<1>1. dying \in Seq(Order) /\ Cardinality(killed) \in Nat /\ pSuspend \in Region
  <2>1. IsFiniteSet(killed)
    BY RegionAssumption, FS_Subset DEF TypeOK
  <2> QED
    BY <2>1, FS_CardinalityType DEF TypeOK, Order
<1>2. KillOrders(killed) \in [1..Cardinality(killed) -> Order]
  BY <1>1 DEF KillOrders, Order
<1>3. \A i \in 1..Cardinality(killed) :
        KillOrders(killed)[i].notify /\ KillOrders(killed)[i].region = pSuspend
  BY DEF KillOrders
<1>4. /\ KillOrders(killed) \in Seq(Order)
      /\ Cardinality(Notifying(KillOrders(killed))) = Cardinality(killed)
  BY <1>1, <1>2, <1>3, NotifyingAll
<1>5. DOMAIN KillOrders(killed) = 1..Cardinality(killed)
  BY DEF KillOrders
<1> QED
  BY <1>1, <1>3, <1>4, <1>5, NotifyingConcat

\* What ToNotify counts
LEMMA ToNotifyType ==
  ASSUME dying \in Seq(Order)
  PROVE  ToNotify = Cardinality(Notifying(dying)) /\ ToNotify \in Nat
BY NotifyingType DEF ToNotify, Notifying

-----------------------------------------------------------------------------
(* What holds whatever the edits meet *)

\* Nothing is edited, killed or requested at first.
LEMMA InitIInv == Init => IInv
<1> SUFFICES ASSUME Init PROVE IInv
  OBVIOUS
<1> USE NamesAssumption, BoundsAssumption DEF Init
<1>1. TypeOK
  <2>1. /\ pc \in [Editor \cup {Control} -> {"idle", "disables"} \cup RegionEdit \cup EngineEdit]
        /\ target \in [Editor -> Region \cup {Nobody}] /\ resuming \subseteq Editor
        /\ entries \in Editor \cup {Nobody} /\ engines \in Editor \cup {Nobody}
        /\ disabler \in Editor \cup {Control, Nobody}
    OBVIOUS
  <2>2. /\ cycle \in {"out", "change", "render", "count"} /\ ongoing \in BOOLEAN
        /\ {pSuspend, pResume} \subseteq Region \cup {Nobody}
        /\ suspended \subseteq Region /\ playing \subseteq Region
    OBVIOUS
  <2>3. dying \in Seq([region : Region, notify : BOOLEAN])
    OBVIOUS
  <2>4. /\ notified \in Nat /\ toSuspend \in Nat /\ toKill \in [Editor -> Nat]
        /\ races \subseteq {"overlap", "change", "reset"}
    OBVIOUS
  <2> QED
    BY <2>1, <2>2, <2>3, <2>4 DEF TypeOK
<1>2. Base
  BY <1>1 DEF Base, EditorsInv, EntriesInv, EnginesInv, DisablerInv, TargetInv, IdleInv, KillInv,
              RegionEdit, EngineEdit
<1>3. QuietInv /\ NoOrderInv
  BY DEF QuietInv, Overlap, RequestInv, NoRequest, EditedRegionIsSilent, SuspendedIsEdited,
         NoOrderInv, RegionEdit, EngineEdit
<1>4. NotificationsMatch
  <2>1. {i \in DOMAIN dying : dying[i].notify} = {}
    OBVIOUS
  <2> QED
    BY <2>1, FS_EmptySet DEF NotificationsMatch, ToNotify
<1> QED
  BY <1>2, <1>3, <1>4 DEF IInv

\* The editors do not notice the other threads' steps.
LEMMA SameEditors == ASSUME EditorsInv, UNCHANGED editors PROVE EditorsInv'
BY DEF EditorsInv, EntriesInv, EnginesInv, DisablerInv, TargetInv, RegionEdit, EngineEdit, editors

\* The mutexes, and the engine that is disabled, are where the code left them; the
\* audio thread is out of RenderAudio() while all is edited.
LEMMA BaseStep ==
  ASSUME Base, Step, Watch
  PROVE  Base'
<1> USE NamesAssumption DEF Base
<1>0. races' \subseteq {"overlap", "change", "reset"}
  BY DEF TypeOK, Watch
<1>1. ASSUME NEW e \in Editor, SetOngoing(e) PROVE Base'
  <2> USE <1>1 DEF SetOngoing, Go
  <2>1. TypeOK'
    BY <1>0 DEF TypeOK, RegionEdit, EngineEdit, editors, request, streams
  <2>2. EntriesInv' /\ EnginesInv'
    BY DEF TypeOK, EditorsInv, EntriesInv, EnginesInv, EngineEdit
  <2>3. DisablerInv'
    BY DEF TypeOK, EditorsInv, DisablerInv, EngineEdit
  <2>4. TargetInv'
    BY DEF TypeOK, EditorsInv, TargetInv, RegionEdit
  <2>5. IdleInv' /\ KillInv'
    BY DEF TypeOK, EditorsInv, DisablerInv, EngineEdit, IdleInv, KillInv, editors, request, streams
  <2> QED
    BY <2>1, <2>2, <2>3, <2>4, <2>5 DEF EditorsInv
<1>2. ASSUME NEW e \in Editor, Request(e) PROVE Base'
  <2> USE <1>2 DEF Request, Go
  <2>1. TypeOK'
    <3>1. target[e] \in Region \cup {Nobody}
      BY DEF TypeOK
    <3>2. {pSuspend', pResume'} \subseteq Region \cup {Nobody}
      BY <3>1 DEF TypeOK
    <3>3. pc' \in [Editor \cup {Control} -> {"idle", "disables"} \cup RegionEdit \cup EngineEdit]
      BY DEF TypeOK, RegionEdit
    <3> QED
      BY <1>0, <3>2, <3>3 DEF TypeOK, streams
  <2>2. EntriesInv' /\ EnginesInv'
    BY DEF TypeOK, EditorsInv, EntriesInv, EnginesInv, EngineEdit
  <2>3. DisablerInv'
    BY DEF TypeOK, EditorsInv, DisablerInv, EngineEdit
  <2>4. TargetInv'
    BY DEF TypeOK, EditorsInv, TargetInv, RegionEdit
  <2>5. IdleInv' /\ KillInv'
    BY DEF TypeOK, EditorsInv, DisablerInv, EngineEdit, IdleInv, KillInv, editors, request, streams
  <2> QED
    BY <2>1, <2>2, <2>3, <2>4, <2>5 DEF EditorsInv
<1>3. ASSUME NEW e \in Editor, Proceed(e) PROVE Base'
  <2> USE <1>3 DEF Proceed
  <2>1. TypeOK'
    BY <1>0 DEF TypeOK, RegionEdit, EngineEdit, editors, request, streams
  <2>2. EntriesInv' /\ EnginesInv'
    BY DEF TypeOK, EditorsInv, EntriesInv, EnginesInv, EngineEdit
  <2>3. DisablerInv'
    BY DEF TypeOK, EditorsInv, DisablerInv, EngineEdit
  <2>4. TargetInv'
    <3>1. CASE e \in resuming
      <4>1. /\ pc' = [pc EXCEPT ![e] = "idle"] /\ target' = [target EXCEPT ![e] = Nobody]
            /\ resuming' = resuming \ {e}
        BY <3>1
      <4>2. RegionEdit' = RegionEdit /\ pc'[e] \notin RegionEdit
        BY <4>1 DEF TypeOK, RegionEdit
      <4> QED
        BY <4>1, <4>2 DEF TypeOK, EditorsInv, TargetInv
    <3>2. CASE e \notin resuming
      <4>1. pc' = [pc EXCEPT ![e] = "edits"] /\ UNCHANGED <<target, resuming>>
        BY <3>2 DEF TypeOK
      <4> QED
        BY <3>2, <4>1 DEF TypeOK, EditorsInv, TargetInv, RegionEdit
    <3> QED
      BY <3>1, <3>2
  <2>5. IdleInv' /\ KillInv'
    BY DEF TypeOK, EditorsInv, DisablerInv, EngineEdit, IdleInv, KillInv, editors, request, streams
  <2> QED
    BY <2>1, <2>2, <2>3, <2>4, <2>5 DEF EditorsInv
<1>4. ASSUME NEW e \in Editor, Disable(e) PROVE Base'
  <2> USE <1>4 DEF Disable, Go
  <2>1. TypeOK'
    BY <1>0 DEF TypeOK, RegionEdit, EngineEdit, editors, request, streams
  <2>2. EntriesInv' /\ EnginesInv'
    BY DEF TypeOK, EditorsInv, EntriesInv, EnginesInv, EngineEdit
  <2>3. DisablerInv'
    BY DEF TypeOK, EditorsInv, DisablerInv, EngineEdit
  <2>4. TargetInv'
    BY DEF TypeOK, EditorsInv, TargetInv, RegionEdit
  <2>5. IdleInv' /\ KillInv'
    BY DEF TypeOK, EditorsInv, DisablerInv, EngineEdit, IdleInv, KillInv, editors, request, streams
  <2> QED
    BY <2>1, <2>2, <2>3, <2>4, <2>5 DEF EditorsInv
<1>5. ASSUME NEW e \in Editor, KillAll(e) PROVE Base'
  <2> USE <1>5 DEF KillAll, Go
  <2>1. TypeOK'
    <3>1. dying' \in Seq([region : Region, notify : BOOLEAN]) /\ Cardinality(playing) \in Nat
      BY OrdersType DEF Order
    <3> QED
      BY <1>0, <3>1 DEF TypeOK, EngineEdit, request
  <2>2. EntriesInv' /\ EnginesInv'
    BY DEF TypeOK, EditorsInv, EntriesInv, EnginesInv, EngineEdit
  <2>3. DisablerInv'
    BY DEF TypeOK, EditorsInv, DisablerInv, EngineEdit
  <2>4. TargetInv'
    BY DEF TypeOK, EditorsInv, TargetInv, RegionEdit
  <2>5. IdleInv' /\ KillInv'
    BY DEF TypeOK, EditorsInv, DisablerInv, EngineEdit, IdleInv, KillInv, editors, request, streams
  <2> QED
    BY <2>1, <2>2, <2>3, <2>4, <2>5 DEF EditorsInv
<1>6. ASSUME NEW e \in Editor, Count(e) PROVE Base'
  <2> USE <1>6 DEF Count
  <2>1. TypeOK'
    BY <1>0 DEF TypeOK, editors, request
  <2>2. EditorsInv'
    BY SameEditors DEF EditorsInv
  <2>5. IdleInv' /\ KillInv'
    BY DEF TypeOK, EditorsInv, DisablerInv, EngineEdit, IdleInv, KillInv, editors, request, streams
  <2> QED
    BY <2>1, <2>2, <2>5 DEF EditorsInv
<1>7. ASSUME NEW e \in Editor, AllSuspended(e) PROVE Base'
  <2> USE <1>7 DEF AllSuspended, Go
  <2>1. TypeOK'
    BY <1>0 DEF TypeOK, RegionEdit, EngineEdit, editors, request, streams
  <2>2. EntriesInv' /\ EnginesInv'
    BY DEF TypeOK, EditorsInv, EntriesInv, EnginesInv, EngineEdit
  <2>3. DisablerInv'
    BY DEF TypeOK, EditorsInv, DisablerInv, EngineEdit
  <2>4. TargetInv'
    BY DEF TypeOK, EditorsInv, TargetInv, RegionEdit
  <2>5. IdleInv' /\ KillInv'
    BY DEF TypeOK, EditorsInv, DisablerInv, EngineEdit, IdleInv, KillInv, editors, request, streams
  <2> QED
    BY <2>1, <2>2, <2>3, <2>4, <2>5 DEF EditorsInv
<1>8. ASSUME NEW e \in Editor, UnlockSample(e) PROVE Base'
  <2> USE <1>8 DEF UnlockSample, Go
  <2>1. TypeOK'
    BY <1>0 DEF TypeOK, RegionEdit, EngineEdit, editors, request, streams
  <2>2. EntriesInv' /\ EnginesInv'
    BY DEF TypeOK, EditorsInv, EntriesInv, EnginesInv, EngineEdit
  <2>3. DisablerInv'
    BY DEF TypeOK, EditorsInv, DisablerInv, EngineEdit
  <2>4. TargetInv'
    BY DEF TypeOK, EditorsInv, TargetInv, RegionEdit
  <2>5. IdleInv' /\ KillInv'
    BY DEF TypeOK, EditorsInv, DisablerInv, EngineEdit, IdleInv, KillInv, editors, request, streams
  <2> QED
    BY <2>1, <2>2, <2>3, <2>4, <2>5 DEF EditorsInv
<1>9. ASSUME NEW e \in Editor, NEW r \in Region, Lock(e, r) PROVE Base'
  <2> USE <1>9 DEF Lock, Go, MayEdit
  <2>1. TypeOK'
    BY <1>0 DEF TypeOK, RegionEdit, EngineEdit, editors, request, streams
  <2>2. EntriesInv' /\ EnginesInv'
    BY DEF TypeOK, EditorsInv, EntriesInv, EnginesInv, EngineEdit
  <2>3. DisablerInv'
    BY DEF TypeOK, EditorsInv, DisablerInv, EngineEdit
  <2>4. TargetInv'
    BY DEF TypeOK, EditorsInv, TargetInv, RegionEdit
  <2>5. IdleInv' /\ KillInv'
    BY DEF TypeOK, EditorsInv, DisablerInv, EngineEdit, IdleInv, KillInv, editors, request, streams
  <2> QED
    BY <2>1, <2>2, <2>3, <2>4, <2>5 DEF EditorsInv
<1>10. ASSUME NEW e \in Editor, LockAgain(e) PROVE Base'
  <2> USE <1>10 DEF LockAgain, Go
  <2>1. TypeOK'
    BY <1>0 DEF TypeOK, RegionEdit, EngineEdit, editors, request, streams
  <2>2. EntriesInv' /\ EnginesInv'
    BY DEF TypeOK, EditorsInv, EntriesInv, EnginesInv, EngineEdit
  <2>3. DisablerInv'
    BY DEF TypeOK, EditorsInv, DisablerInv, EngineEdit
  <2>4. TargetInv'
    BY DEF TypeOK, EditorsInv, TargetInv, RegionEdit
  <2>5. IdleInv' /\ KillInv'
    BY DEF TypeOK, EditorsInv, DisablerInv, EngineEdit, IdleInv, KillInv, editors, request, streams
  <2> QED
    BY <2>1, <2>2, <2>3, <2>4, <2>5 DEF EditorsInv
<1>11. ASSUME NEW e \in Editor, LockEngines(e) PROVE Base'
  <2> USE <1>11 DEF LockEngines, Go, MayEdit
  <2>1. TypeOK'
    BY <1>0 DEF TypeOK, RegionEdit, EngineEdit, editors, request, streams
  <2>2. EntriesInv' /\ EnginesInv'
    BY DEF TypeOK, EditorsInv, EntriesInv, EnginesInv, EngineEdit
  <2>3. DisablerInv'
    BY DEF TypeOK, EditorsInv, DisablerInv, EngineEdit
  <2>4. TargetInv'
    BY DEF TypeOK, EditorsInv, TargetInv, RegionEdit
  <2>5. IdleInv' /\ KillInv'
    BY DEF TypeOK, EditorsInv, DisablerInv, EngineEdit, IdleInv, KillInv, editors, request, streams
  <2> QED
    BY <2>1, <2>2, <2>3, <2>4, <2>5 DEF EditorsInv
<1>12. ASSUME NEW e \in Editor, LockForSample(e) PROVE Base'
  <2> USE <1>12 DEF LockForSample, Go
  <2>1. TypeOK'
    BY <1>0 DEF TypeOK, RegionEdit, EngineEdit, editors, request, streams
  <2>2. EntriesInv' /\ EnginesInv'
    BY DEF TypeOK, EditorsInv, EntriesInv, EnginesInv, EngineEdit
  <2>3. DisablerInv'
    BY DEF TypeOK, EditorsInv, DisablerInv, EngineEdit
  <2>4. TargetInv'
    BY DEF TypeOK, EditorsInv, TargetInv, RegionEdit
  <2>5. IdleInv' /\ KillInv'
    BY DEF TypeOK, EditorsInv, DisablerInv, EngineEdit, IdleInv, KillInv, editors, request, streams
  <2> QED
    BY <2>1, <2>2, <2>3, <2>4, <2>5 DEF EditorsInv
<1>13. ASSUME NEW e \in Editor, ResumeAll(e) PROVE Base'
  <2> USE <1>13 DEF ResumeAll, Go
  <2>1. TypeOK'
    BY <1>0 DEF TypeOK, RegionEdit, EngineEdit, editors, request, streams
  <2>2. EntriesInv' /\ EnginesInv'
    BY DEF TypeOK, EditorsInv, EntriesInv, EnginesInv, EngineEdit
  <2>3. DisablerInv'
    BY DEF TypeOK, EditorsInv, DisablerInv, EngineEdit
  <2>4. TargetInv'
    BY DEF TypeOK, EditorsInv, TargetInv, RegionEdit
  <2>5. IdleInv' /\ KillInv'
    BY DEF TypeOK, EditorsInv, DisablerInv, EngineEdit, IdleInv, KillInv, editors, request, streams
  <2> QED
    BY <2>1, <2>2, <2>3, <2>4, <2>5 DEF EditorsInv
<1>14. ASSUME DisableForReset PROVE Base'
  <2> USE <1>14 DEF DisableForReset, Go
  <2>0. \A f \in Editor : pc'[f] = pc[f]
    BY DEF TypeOK
  <2>1. TypeOK'
    BY <1>0 DEF TypeOK, RegionEdit, EngineEdit, editors, request, streams
  <2>2. EntriesInv' /\ EnginesInv'
    BY <2>0 DEF TypeOK, EditorsInv, EntriesInv, EnginesInv, EngineEdit
  <2>3. DisablerInv'
    BY <2>0 DEF TypeOK, EditorsInv, DisablerInv, EngineEdit
  <2>4. TargetInv'
    BY <2>0 DEF TypeOK, EditorsInv, TargetInv, RegionEdit
  <2>5. IdleInv' /\ KillInv'
    BY <2>0 DEF TypeOK, EditorsInv, DisablerInv, EngineEdit, IdleInv, KillInv, editors, request, streams
  <2> QED
    BY <2>1, <2>2, <2>3, <2>4, <2>5 DEF EditorsInv
<1>15. ASSUME Reset PROVE Base'
  <2> USE <1>15 DEF Reset, Go, ResetInternal
  <2>0. \A f \in Editor : pc'[f] = pc[f]
    BY DEF TypeOK
  <2>1. TypeOK'
    BY <1>0 DEF TypeOK, editors, request
  <2>2. EntriesInv' /\ EnginesInv'
    BY <2>0 DEF TypeOK, EditorsInv, EntriesInv, EnginesInv, EngineEdit
  <2>3. DisablerInv'
    BY <2>0 DEF TypeOK, EditorsInv, DisablerInv, EngineEdit
  <2>4. TargetInv'
    BY <2>0 DEF TypeOK, EditorsInv, TargetInv, RegionEdit
  <2>5. IdleInv' /\ KillInv'
    BY <2>0 DEF TypeOK, EditorsInv, DisablerInv, EngineEdit, IdleInv, KillInv, editors, request, streams
  <2> QED
    BY <2>1, <2>2, <2>3, <2>4, <2>5 DEF EditorsInv
<1>16. ASSUME BeginCycle, ProcessSuspension PROVE Base'
  <2> USE <1>16 DEF BeginCycle, ProcessSuspension, Answer
  <2>1. TypeOK'
    <3> DEFINE killed == playing \cap {pSuspend}
    <3>1. /\ dying \o KillOrders(killed) \in Seq(Order) /\ Cardinality(killed) \in Nat
          /\ pSuspend \in Region
      BY KillOrdersType DEF TypeOK
    <3>2. /\ dying' = dying \o KillOrders(killed) /\ playing' = playing \ killed
          /\ toSuspend' = toSuspend + Cardinality(killed)
      OBVIOUS
    <3>3. /\ suspended' = suspended \cup {pSuspend} /\ pSuspend' = Nobody
          /\ UNCHANGED <<pResume, notified, editors, toKill>> /\ cycle' = "change"
          /\ ongoing' \in BOOLEAN
      BY DEF TypeOK
    <3> HIDE DEF killed, ProcessSuspension, BeginCycle
    <3>4. /\ playing' \subseteq Region /\ suspended' \subseteq Region /\ toSuspend' \in Nat
          /\ dying' \in Seq([region : Region, notify : BOOLEAN])
      BY <3>1, <3>2, <3>3 DEF TypeOK, Order
    <3> QED
      BY <1>0, <3>3, <3>4 DEF TypeOK, editors
  <2>2. EditorsInv'
    BY SameEditors DEF editors
  <2>3. IdleInv' /\ KillInv'
    <3>1. disabler = Nobody /\ \A f \in Editor : pc[f] \notin {"counts", "edits all", "samples"}
      BY DEF TypeOK, EditorsInv, DisablerInv, EngineEdit
    <3> QED
      BY <3>1 DEF IdleInv, KillInv, editors
  <2> QED
    BY <2>1, <2>2, <2>3
<1>17. ASSUME BeginCycle, ProcessResumption PROVE Base'
  <2> USE <1>17 DEF BeginCycle, ProcessResumption, Resumed
  <2>1. TypeOK'
    BY <1>0 DEF TypeOK, editors, request, streams
  <2>2. EditorsInv'
    BY SameEditors DEF editors
  <2>3. IdleInv' /\ KillInv'
    <3>1. disabler = Nobody /\ \A f \in Editor : pc[f] \notin {"counts", "edits all", "samples"}
      BY DEF TypeOK, EditorsInv, DisablerInv, EngineEdit
    <3> QED
      BY <3>1 DEF IdleInv, KillInv, editors
  <2> QED
    BY <2>1, <2>2, <2>3
<1>18. ASSUME BeginCycle, NothingToProcess PROVE Base'
  <2> USE <1>18 DEF BeginCycle, NothingToProcess
  <2>1. TypeOK'
    BY <1>0 DEF TypeOK, editors, request, streams
  <2>2. EditorsInv'
    BY SameEditors DEF editors
  <2>3. IdleInv' /\ KillInv'
    <3>1. disabler = Nobody /\ \A f \in Editor : pc[f] \notin {"counts", "edits all", "samples"}
      BY DEF TypeOK, EditorsInv, DisablerInv, EngineEdit
    <3> QED
      BY <3>1 DEF IdleInv, KillInv, editors
  <2> QED
    BY <2>1, <2>2, <2>3
<1>19. ASSUME SysexReset PROVE Base'
  <2> USE <1>19 DEF SysexReset, ResetInternal
  <2>1. TypeOK'
    BY <1>0 DEF TypeOK, editors, request, streams
  <2>2. EditorsInv'
    BY SameEditors DEF editors
  <2>3. IdleInv' /\ KillInv'
    BY DEF IdleInv, KillInv, editors, request, streams
  <2> QED
    BY <2>1, <2>2, <2>3
<1>20. ASSUME ResetSuspendedRegions PROVE Base'
  <2> USE <1>20 DEF ResetSuspendedRegions
  <2>1. TypeOK'
    BY <1>0 DEF TypeOK, editors, request, streams
  <2>2. EditorsInv'
    BY SameEditors DEF editors
  <2>3. IdleInv' /\ KillInv'
    BY DEF IdleInv, KillInv, editors, request, streams
  <2> QED
    BY <2>1, <2>2, <2>3
<1>21. ASSUME NoInstrumentChange PROVE Base'
  <2> USE <1>21 DEF NoInstrumentChange
  <2>1. TypeOK'
    BY <1>0 DEF TypeOK, editors, request, streams
  <2>2. EditorsInv'
    BY SameEditors DEF editors
  <2>3. IdleInv' /\ KillInv'
    BY DEF IdleInv, KillInv, editors, request, streams
  <2> QED
    BY <2>1, <2>2, <2>3
<1>22. ASSUME NEW r \in Region, TriggerVoice(r) PROVE Base'
  <2> USE <1>22 DEF TriggerVoice, RegionSuspended
  <2>1. TypeOK'
    BY <1>0 DEF TypeOK, editors, request, streams
  <2>2. EditorsInv'
    BY SameEditors DEF editors
  <2>3. IdleInv' /\ KillInv'
    BY DEF IdleInv, KillInv, editors, request, streams
  <2> QED
    BY <2>1, <2>2, <2>3
<1>23. ASSUME NEW r \in Region, VoiceEnds(r) PROVE Base'
  <2> USE <1>23 DEF VoiceEnds
  <2>1. TypeOK'
    <3>1. [region |-> r, notify |-> FALSE] \in [region : Region, notify : BOOLEAN]
      OBVIOUS
    <3> QED
      BY <1>0, <3>1 DEF TypeOK, editors, request
  <2>2. EditorsInv'
    BY SameEditors DEF editors
  <2>3. IdleInv' /\ KillInv'
    BY DEF IdleInv, KillInv, editors, request, streams
  <2> QED
    BY <2>1, <2>2, <2>3
<1>24. ASSUME EndCycle PROVE Base'
  <2> USE <1>24 DEF EndCycle, Answer
  <2>1. TypeOK'
    <3>1. toSuspend' \in Nat /\ notified' \in Nat /\ cycle' = "out"
      BY DEF TypeOK
    <3>4. ongoing' \in BOOLEAN
      <4>1. CASE toSuspend = 0
        BY <4>1 DEF TypeOK, request
      <4>2. CASE toSuspend # 0
        <5>1. ongoing' = (ongoing /\ toSuspend' # 0)
          BY <4>2
        <5> HIDE DEF EndCycle
        <5> QED
          BY <5>1, Zenon
      <4> QED
        BY <4>1, <4>2
    <3>2. UNCHANGED <<editors, pSuspend, pResume, suspended, playing, dying, toKill>>
      BY DEF request
    <3> HIDE DEF EndCycle
    <3> QED
      BY <1>0, <3>1, <3>2, <3>4 DEF TypeOK, editors
  <2>2. EditorsInv'
    BY SameEditors DEF editors
  <2>3. IdleInv' /\ KillInv'
    BY DEF IdleInv, KillInv, editors, request, streams
  <2> QED
    BY <2>1, <2>2, <2>3
<1>25. ASSUME NEW i \in 1..Len(dying), DeleteStream(i) PROVE Base'
  <2> USE <1>25 DEF DeleteStream
  <2>1. TypeOK'
    <3>1. dying' \in Seq(Order)
      BY NotifyingRemove DEF TypeOK, Order
    <3> QED
      BY <1>0, <3>1 DEF TypeOK, Order, editors, request
  <2>2. EditorsInv'
    BY SameEditors DEF editors
  <2>3. IdleInv' /\ KillInv'
    BY DEF IdleInv, KillInv, editors, request, streams
  <2> QED
    BY <2>1, <2>2, <2>3
<1>26. ASSUME BeginCycle PROVE Base'
  BY <1>26, <1>16, <1>17, <1>18 DEF BeginCycle
<1>27. ASSUME NEW e \in Editor, EditorStep(e) PROVE Base'
  BY <1>27, <1>1, <1>2, <1>3, <1>4, <1>5, <1>6, <1>7, <1>8 DEF EditorStep
<1>28. ASSUME NEW e \in Editor, Edit(e) PROVE Base'
  BY <1>28, <1>9, <1>10, <1>11, <1>12, <1>13 DEF Edit
<1>29. ASSUME Audio PROVE Base'
  BY <1>29, <1>26, <1>19, <1>20, <1>21, <1>22, <1>23, <1>24 DEF Audio
<1> QED
  BY <1>27, <1>28, <1>29, <1>14, <1>15, <1>25 DEF Step

-----------------------------------------------------------------------------
(* Notifications: until a reset, or a change of the instrument *)

\* While the audio thread renders, no SuspendAll() has killed the voices yet.
LEMMA Rendering ==
  ASSUME Base, cycle # "out"
  PROVE  \A f \in Editor : pc[f] \notin {"counts", "edits all", "samples"} /\ toKill[f] = 0
BY DEF Base, IdleInv, KillInv

\* Each notification that comes is counted once, by whomever, unless a reset discards it
\* or a change of the instrument forgets it.
LEMMA NotificationsStep ==
  ASSUME Base, NotificationsMatch, Step, ~ ChangeWhileEdited, ~ ResetWhileAwaited
  PROVE  NotificationsMatch'
<1> USE NamesAssumption DEF Base
<1>1. ASSUME NEW e \in Editor, SetOngoing(e) PROVE NotificationsMatch'
  BY <1>1 DEF SetOngoing, Go, TypeOK, NotificationsMatch, ToNotify, editors, request, streams
<1>2. ASSUME NEW e \in Editor, Request(e) PROVE NotificationsMatch'
  BY <1>2 DEF Request, Go, TypeOK, NotificationsMatch, ToNotify, editors, request, streams
<1>3. ASSUME NEW e \in Editor, Proceed(e) PROVE NotificationsMatch'
  BY <1>3 DEF Proceed, TypeOK, NotificationsMatch, ToNotify, editors, request, streams
<1>4. ASSUME NEW e \in Editor, Disable(e) PROVE NotificationsMatch'
  BY <1>4 DEF Disable, Go, TypeOK, NotificationsMatch, ToNotify, editors, request, streams
<1>5. ASSUME NEW e \in Editor, KillAll(e) PROVE NotificationsMatch'
  <2> USE <1>5 DEF KillAll, Go
  <2>0. engines = e /\ toKill[e] = 0
    BY DEF EditorsInv, EnginesInv, KillInv, EngineEdit
  <2>1. PICK q \in Orders(playing) : dying' = dying \o q
    OBVIOUS
  <2>2. /\ dying' \in Seq(Order) /\ dying \in Seq(Order) /\ Cardinality(playing) \in Nat
        /\ Cardinality(Notifying(dying')) = Cardinality(Notifying(dying)) + Cardinality(playing)
    BY <2>1, OrdersType
  <2>3. ToNotify = Cardinality(Notifying(dying)) /\ ToNotify' = Cardinality(Notifying(dying'))
    BY DEF ToNotify, Notifying
  <2>4. Cardinality(Notifying(dying)) \in Nat /\ notified + Cardinality(Notifying(dying)) = toSuspend
    <3>1. Cardinality(Notifying(dying)) \in Nat
      BY <2>2, NotifyingType
    <3>2. notified + Cardinality(Notifying(dying)) = toSuspend + 0
      BY <2>0, <2>3 DEF NotificationsMatch
    <3> QED
      BY <3>1, <3>2 DEF TypeOK
  <2>5. toKill'[e] = Cardinality(playing) /\ \A f \in Editor : toKill'[f] # 0 => f = e
    BY <2>0 DEF TypeOK, NotificationsMatch
  <2>6. notified' + ToNotify' = toSuspend' + toKill'[e] /\ engines' = e /\ engines' # Nobody
    BY <2>0, <2>2, <2>3, <2>4, <2>5 DEF TypeOK
  <2> QED
    BY <2>5, <2>6 DEF NotificationsMatch
<1>6. ASSUME NEW e \in Editor, Count(e) PROVE NotificationsMatch'
  <2> USE <1>6 DEF Count
  <2>1. engines = e /\ \A f \in Editor : f # e => toKill'[f] = toKill[f]
    BY DEF TypeOK, NotificationsMatch
  <2>2. ToNotify' = ToNotify /\ ToNotify \in Nat /\ engines' = engines
    BY ToNotifyType DEF TypeOK, ToNotify, Order, editors
  <2>3. notified' = notified - 1 /\ toKill'[e] = toKill[e] - 1 /\ toSuspend' = toSuspend
    BY DEF TypeOK
  <2>4. notified' + ToNotify' = toSuspend' + toKill'[e]
    <3>1. notified + ToNotify = toSuspend + toKill[e]
      BY <2>1 DEF NotificationsMatch
    <3>2. notified \in Nat /\ toSuspend \in Nat /\ toKill[e] \in Nat
      BY DEF TypeOK
    <3> QED
      BY <2>2, <2>3, <3>1, <3>2
  <2>5. \A f \in Editor : toKill'[f] # 0 => f = e
    BY <2>1 DEF NotificationsMatch
  <2> QED
    BY <2>1, <2>2, <2>4, <2>5 DEF NotificationsMatch
<1>7. ASSUME NEW e \in Editor, AllSuspended(e) PROVE NotificationsMatch'
  BY <1>7 DEF AllSuspended, Go, TypeOK, NotificationsMatch, ToNotify, editors, request, streams
<1>8. ASSUME NEW e \in Editor, UnlockSample(e) PROVE NotificationsMatch'
  BY <1>8 DEF UnlockSample, Go, TypeOK, NotificationsMatch, ToNotify, editors, request, streams
<1>9. ASSUME NEW e \in Editor, NEW r \in Region, Lock(e, r) PROVE NotificationsMatch'
  BY <1>9 DEF Lock, Go, MayEdit, TypeOK, NotificationsMatch, ToNotify, editors, request, streams
<1>10. ASSUME NEW e \in Editor, LockAgain(e) PROVE NotificationsMatch'
  BY <1>10 DEF LockAgain, Go, TypeOK, NotificationsMatch, ToNotify, editors, request, streams
<1>11. ASSUME NEW e \in Editor, LockEngines(e) PROVE NotificationsMatch'
  <2> USE <1>11 DEF LockEngines, Go, MayEdit
  <2>1. engines = Nobody /\ engines' = e /\ toKill[e] = 0
    BY DEF TypeOK, NotificationsMatch
  <2> QED
    BY <2>1 DEF TypeOK, NotificationsMatch, ToNotify, streams
<1>12. ASSUME NEW e \in Editor, LockForSample(e) PROVE NotificationsMatch'
  BY <1>12 DEF LockForSample, Go, TypeOK, NotificationsMatch, ToNotify, editors, request, streams
<1>13. ASSUME NEW e \in Editor, ResumeAll(e) PROVE NotificationsMatch'
  <2> USE <1>13 DEF ResumeAll, Go
  <2>1. engines = e /\ engines' = Nobody /\ toKill[e] = 0
    BY DEF TypeOK, EditorsInv, EnginesInv, KillInv, EngineEdit
  <2>2. \A f \in Editor : toKill[f] = 0
    BY <2>1 DEF NotificationsMatch
  <2> QED
    BY <2>1, <2>2 DEF TypeOK, NotificationsMatch, ToNotify, streams
<1>14. ASSUME DisableForReset PROVE NotificationsMatch'
  BY <1>14 DEF DisableForReset, Go, TypeOK, NotificationsMatch, ToNotify, editors, request, streams
<1>15. ASSUME Reset PROVE NotificationsMatch'
  <2> USE <1>15 DEF Reset, Go, ResetInternal
  <2>1. toSuspend = 0
    BY DEF ResetWhileAwaited
  <2>2. \A f \in Editor : toKill[f] = 0
    BY DEF TypeOK, EditorsInv, DisablerInv, KillInv, EngineEdit
  <2>3. {i \in DOMAIN dying' : dying'[i].notify} = {}
    OBVIOUS
  <2>4. ToNotify' = 0
    BY <2>3, FS_EmptySet DEF ToNotify
  <2> QED
    BY <2>1, <2>2, <2>4 DEF TypeOK, NotificationsMatch
<1>16. ASSUME BeginCycle, ProcessSuspension PROVE NotificationsMatch'
  <2> USE <1>16 DEF BeginCycle, ProcessSuspension, Answer
  <2> DEFINE killed == playing \cap {pSuspend}
  <2>1. /\ dying' = dying \o KillOrders(killed) /\ toSuspend' = toSuspend + Cardinality(killed)
        /\ notified' = notified /\ UNCHANGED <<engines, toKill>>
    BY DEF editors
  <2>2. /\ Cardinality(killed) \in Nat /\ dying' \in Seq(Order)
        /\ Cardinality(Notifying(dying')) = Cardinality(Notifying(dying)) + Cardinality(killed)
    BY <2>1, KillOrdersType
  <2> HIDE DEF killed
  <2>3. ToNotify = Cardinality(Notifying(dying)) /\ ToNotify' = Cardinality(Notifying(dying'))
    BY DEF ToNotify, Notifying
  <2>4. ToNotify \in Nat /\ notified \in Nat /\ toSuspend \in Nat
    BY ToNotifyType DEF TypeOK, Order
  <2>5. ASSUME NEW k, k \in Nat, notified + ToNotify = toSuspend + k
        PROVE  notified' + ToNotify' = toSuspend' + k
    <3> HIDE DEF BeginCycle, ProcessSuspension
    <3>1. ToNotify' = ToNotify + Cardinality(killed)
      BY <2>2, <2>3
    <3> QED
      <4>1. notified' = notified /\ toSuspend' = toSuspend + Cardinality(killed)
        BY <2>1
      <4>2. Cardinality(killed) \in Nat
        BY <2>2
      <4> QED
        BY <2>4, <2>5, <3>1, <4>1, <4>2
  <2>6. (IF engines = Nobody THEN 0 ELSE toKill[engines]) \in Nat
    BY DEF TypeOK
  <2> QED
    BY <2>1, <2>5, <2>6 DEF NotificationsMatch
<1>17. ASSUME BeginCycle, ProcessResumption PROVE NotificationsMatch'
  BY <1>17 DEF BeginCycle, ProcessResumption, Resumed, TypeOK, NotificationsMatch, ToNotify, editors, request, streams
<1>18. ASSUME BeginCycle, NothingToProcess PROVE NotificationsMatch'
  BY <1>18 DEF BeginCycle, NothingToProcess, TypeOK, NotificationsMatch, ToNotify, editors, request, streams
<1>19. ASSUME SysexReset PROVE NotificationsMatch'
  <2> USE <1>19 DEF SysexReset, ResetInternal
  <2>1. toSuspend = 0
    BY DEF ResetWhileAwaited
  <2>2. \A f \in Editor : toKill[f] = 0
    BY Rendering DEF Base
  <2>3. {i \in DOMAIN dying' : dying'[i].notify} = {}
    OBVIOUS
  <2>4. ToNotify' = 0
    BY <2>3, FS_EmptySet DEF ToNotify
  <2> QED
    BY <2>1, <2>2, <2>4 DEF TypeOK, NotificationsMatch
<1>20. ASSUME ResetSuspendedRegions PROVE NotificationsMatch'
  <2> USE <1>20 DEF ResetSuspendedRegions
  <2>1. toSuspend' = toSuspend
    BY DEF ChangeWhileEdited
  <2> QED
    BY <2>1 DEF NotificationsMatch, ToNotify, editors, streams
<1>21. ASSUME NoInstrumentChange PROVE NotificationsMatch'
  BY <1>21 DEF NoInstrumentChange, TypeOK, NotificationsMatch, ToNotify, editors, request, streams
<1>22. ASSUME NEW r \in Region, TriggerVoice(r) PROVE NotificationsMatch'
  BY <1>22 DEF TriggerVoice, RegionSuspended, TypeOK, NotificationsMatch, ToNotify, editors, request, streams
<1>23. ASSUME NEW r \in Region, VoiceEnds(r) PROVE NotificationsMatch'
  <2> USE <1>23 DEF VoiceEnds
  <2>1. Cardinality(Notifying(dying')) = Cardinality(Notifying(dying))
    <3> DEFINE o == [region |-> r, notify |-> FALSE]
    <3>1. o \in Order /\ ~ o.notify /\ dying' = Append(dying, o) /\ dying \in Seq(Order)
      BY DEF TypeOK, Order
    <3> HIDE DEF o
    <3> QED
      BY <3>1, NotifyingAppend
  <2>2. ToNotify' = ToNotify
    BY <2>1 DEF ToNotify, Notifying
  <2> QED
    BY <2>2 DEF NotificationsMatch, editors
<1>24. ASSUME EndCycle PROVE NotificationsMatch'
  <2> USE <1>24 DEF EndCycle, Answer
  <2>1. \A f \in Editor : toKill[f] = 0
    BY Rendering DEF Base
  <2>2. /\ notified \in Nat /\ toSuspend \in Nat /\ ToNotify \in Nat
        /\ notified + ToNotify = toSuspend
    <3>1. ToNotify \in Nat
      BY ToNotifyType DEF TypeOK, Order
    <3>2. notified + ToNotify = toSuspend + 0
      BY <2>1 DEF TypeOK, NotificationsMatch
    <3> QED
      BY <3>1, <3>2 DEF TypeOK
  <2>3. toSuspend' \in Nat /\ notified' \in Nat /\ notified' + ToNotify = toSuspend'
    BY <2>2
  <2>4. ToNotify' = ToNotify /\ engines' = engines /\ toKill' = toKill
    BY DEF ToNotify, editors
  <2>5. notified' + ToNotify' = toSuspend' + 0
    BY <2>3, <2>4
  <2>6. engines # Nobody => toKill[engines] = 0
    BY <2>1 DEF TypeOK
  <2> QED
    BY <2>1, <2>4, <2>5, <2>6 DEF NotificationsMatch
<1>25. ASSUME NEW i \in 1..Len(dying), DeleteStream(i) PROVE NotificationsMatch'
  <2> USE <1>25 DEF DeleteStream
  <2>1. /\ dying \in Seq(Order) /\ dying' \in Seq(Order)
        /\ Cardinality(Notifying(dying')) + (IF dying[i].notify THEN 1 ELSE 0)
             = Cardinality(Notifying(dying))
    BY NotifyingRemove DEF TypeOK, Order
  <2>2. ToNotify = Cardinality(Notifying(dying)) /\ ToNotify' = Cardinality(Notifying(dying'))
    BY DEF ToNotify, Notifying
  <2>3. ToNotify \in Nat /\ ToNotify' \in Nat
    BY <2>1, <2>2, NotifyingType
  <2>4. notified' + ToNotify' = notified + ToNotify
    BY <2>1, <2>2, <2>3 DEF TypeOK
  <2> QED
    BY <2>4 DEF NotificationsMatch, editors
<1>26. ASSUME BeginCycle PROVE NotificationsMatch'
  BY <1>26, <1>16, <1>17, <1>18 DEF BeginCycle
<1>27. ASSUME NEW e \in Editor, EditorStep(e) PROVE NotificationsMatch'
  BY <1>27, <1>1, <1>2, <1>3, <1>4, <1>5, <1>6, <1>7, <1>8 DEF EditorStep
<1>28. ASSUME NEW e \in Editor, Edit(e) PROVE NotificationsMatch'
  BY <1>28, <1>9, <1>10, <1>11, <1>12, <1>13 DEF Edit
<1>29. ASSUME Audio PROVE NotificationsMatch'
  BY <1>29, <1>26, <1>19, <1>20, <1>21, <1>22, <1>23, <1>24 DEF Audio
<1> QED
  BY <1>27, <1>28, <1>29, <1>14, <1>15, <1>25 DEF Step

-----------------------------------------------------------------------------
(* Requests: until edits overlap, or the instrument is changed *)

\* A request is the one of the editor that waits for its answer.
LEMMA Requester ==
  ASSUME Base, QuietInv, ~ NoRequest
  PROVE  \E e \in Editor : /\ pc[e] = "waits" /\ entries = e /\ target[e] \in Region
                           /\ \A f \in Editor : pc[f] \in {"set", "waits"} => f = e
                           /\ \A f \in Editor : target[f] = target[e] => f = e
<1> USE NamesAssumption DEF Base
<1>1. PICK e \in Editor : pc[e] = "waits"
  BY DEF QuietInv, RequestInv
<1>2. entries = e /\ \A f \in Editor : pc[f] \in {"set", "waits"} => f = e
  BY <1>1 DEF EditorsInv, EntriesInv
<1>3. target[e] \in Region
  BY <1>1 DEF EditorsInv, TargetInv, RegionEdit
<1>4. \A f \in Editor : target[f] = target[e] => f = e
  BY <1>3 DEF QuietInv, Overlap
<1> QED
  BY <1>1, <1>2, <1>3, <1>4

\* The audio thread's answer is about the request of the editor that waits, and what it has
\* suspended it does not play until that editor resumes it.
LEMMA QuietStep ==
  ASSUME Base, QuietInv, Step, ~ Overlap', ~ ChangeWhileEdited
  PROVE  QuietInv'
<1> USE NamesAssumption DEF Base, QuietInv
<1>1. ASSUME NEW e \in Editor, SetOngoing(e) PROVE QuietInv'
  <2> USE <1>1 DEF SetOngoing, Go
  <2>1. RequestInv'
    BY DEF TypeOK, EditorsInv, EntriesInv, RequestInv, NoRequest, editors, request, streams
  <2>2. EditedRegionIsSilent'
    BY DEF TypeOK, EditedRegionIsSilent, editors, request, streams
  <2>3. SuspendedIsEdited'
    BY DEF SuspendedIsEdited, editors, request
  <2> QED
    BY <2>1, <2>2, <2>3 DEF QuietInv
<1>2. ASSUME NEW e \in Editor, Request(e) PROVE QuietInv'
  <2> USE <1>2 DEF Request, Go
  <2>0. /\ NoRequest /\ ongoing
        /\ \A f \in Editor : pc'[f] \in {"set", "waits"} => f = e
    <3>1. \A f \in Editor : pc[f] \in {"set", "waits"} => f = e
      BY DEF EditorsInv, EntriesInv
    <3> QED
      BY <3>1 DEF TypeOK, RequestInv
  <2>1. RequestInv'
    BY <2>0 DEF TypeOK, RequestInv, NoRequest, streams
  <2>2. EditedRegionIsSilent'
    BY DEF TypeOK, EditedRegionIsSilent, streams
  <2>3. SuspendedIsEdited'
    BY DEF SuspendedIsEdited
  <2> QED
    BY <2>1, <2>2, <2>3 DEF QuietInv
<1>3. ASSUME NEW e \in Editor, Proceed(e) PROVE QuietInv'
  <2> USE <1>3 DEF Proceed
  <2>0. /\ NoRequest /\ ~ ongoing
        /\ e \in resuming => target[e] \notin suspended
        /\ e \notin resuming => target[e] \in suspended \ playing
        /\ \A f \in Editor : pc'[f] \notin {"set", "waits"} /\ (f # e => pc'[f] = pc[f])
    <3>1. \A f \in Editor : pc'[f] \notin {"set", "waits"} /\ (f # e => pc'[f] = pc[f])
      BY DEF TypeOK, EditorsInv, EntriesInv
    <3> QED
      BY <3>1 DEF TypeOK, RequestInv, NoRequest
  <2>1. RequestInv'
    BY <2>0 DEF RequestInv, NoRequest, request
  <2>2. EditedRegionIsSilent' /\ SuspendedIsEdited'
    BY <2>0 DEF TypeOK, EditedRegionIsSilent, SuspendedIsEdited, request, streams
  <2> QED
    BY <2>1, <2>2 DEF QuietInv
<1>4. ASSUME NEW e \in Editor, Disable(e) PROVE QuietInv'
  <2> USE <1>4 DEF Disable, Go
  <2>1. RequestInv'
    BY DEF TypeOK, EditorsInv, EntriesInv, RequestInv, NoRequest, editors, request, streams
  <2>2. EditedRegionIsSilent'
    BY DEF TypeOK, EditedRegionIsSilent, editors, request, streams
  <2>3. SuspendedIsEdited'
    BY DEF SuspendedIsEdited, editors, request
  <2> QED
    BY <2>1, <2>2, <2>3 DEF QuietInv
<1>5. ASSUME NEW e \in Editor, KillAll(e) PROVE QuietInv'
  <2> USE <1>5 DEF KillAll, Go
  <2>0. \A f \in Editor : pc[f] \notin RegionEdit
    BY DEF Overlap, EngineEdit
  <2>1. RequestInv'
    BY <2>0 DEF TypeOK, RequestInv, NoRequest, RegionEdit, request
  <2>2. EditedRegionIsSilent' /\ SuspendedIsEdited'
    BY <2>0 DEF TypeOK, EditedRegionIsSilent, SuspendedIsEdited, RegionEdit, request
  <2> QED
    BY <2>1, <2>2 DEF QuietInv
<1>6. ASSUME NEW e \in Editor, Count(e) PROVE QuietInv'
  <2> USE <1>6 DEF Count
  <2>1. RequestInv'
    BY DEF TypeOK, EditorsInv, EntriesInv, RequestInv, NoRequest, editors, request, streams
  <2>2. EditedRegionIsSilent'
    BY DEF TypeOK, EditedRegionIsSilent, editors, request, streams
  <2>3. SuspendedIsEdited'
    BY DEF SuspendedIsEdited, editors, request
  <2> QED
    BY <2>1, <2>2, <2>3 DEF QuietInv
<1>7. ASSUME NEW e \in Editor, AllSuspended(e) PROVE QuietInv'
  <2> USE <1>7 DEF AllSuspended, Go
  <2>1. RequestInv'
    BY DEF TypeOK, EditorsInv, EntriesInv, RequestInv, NoRequest, editors, request, streams
  <2>2. EditedRegionIsSilent'
    BY DEF TypeOK, EditedRegionIsSilent, editors, request, streams
  <2>3. SuspendedIsEdited'
    BY DEF SuspendedIsEdited, editors, request
  <2> QED
    BY <2>1, <2>2, <2>3 DEF QuietInv
<1>8. ASSUME NEW e \in Editor, UnlockSample(e) PROVE QuietInv'
  <2> USE <1>8 DEF UnlockSample, Go
  <2>1. RequestInv'
    BY DEF TypeOK, EditorsInv, EntriesInv, RequestInv, NoRequest, editors, request, streams
  <2>2. EditedRegionIsSilent'
    BY DEF TypeOK, EditedRegionIsSilent, editors, request, streams
  <2>3. SuspendedIsEdited'
    BY DEF SuspendedIsEdited, editors, request
  <2> QED
    BY <2>1, <2>2, <2>3 DEF QuietInv
<1>9. ASSUME NEW e \in Editor, NEW r \in Region, Lock(e, r) PROVE QuietInv'
  <2> USE <1>9 DEF Lock, Go, MayEdit
  <2>1. RequestInv'
    BY DEF TypeOK, EditorsInv, EntriesInv, RequestInv, NoRequest, editors, request, streams
  <2>2. EditedRegionIsSilent'
    BY DEF TypeOK, EditedRegionIsSilent, editors, request, streams
  <2>3. SuspendedIsEdited'
    BY DEF TypeOK, SuspendedIsEdited, EditorsInv, TargetInv, RegionEdit, request
  <2> QED
    BY <2>1, <2>2, <2>3 DEF QuietInv
<1>10. ASSUME NEW e \in Editor, LockAgain(e) PROVE QuietInv'
  <2> USE <1>10 DEF LockAgain, Go
  <2>1. RequestInv'
    BY DEF TypeOK, EditorsInv, EntriesInv, RequestInv, NoRequest, editors, request, streams
  <2>2. EditedRegionIsSilent'
    BY DEF TypeOK, EditedRegionIsSilent, editors, request, streams
  <2>3. SuspendedIsEdited'
    BY DEF SuspendedIsEdited, editors, request
  <2> QED
    BY <2>1, <2>2, <2>3 DEF QuietInv
<1>11. ASSUME NEW e \in Editor, LockEngines(e) PROVE QuietInv'
  <2> USE <1>11 DEF LockEngines, Go, MayEdit
  <2>1. RequestInv'
    BY DEF TypeOK, EditorsInv, EntriesInv, RequestInv, NoRequest, editors, request, streams, RegionEdit
  <2>2. EditedRegionIsSilent'
    BY DEF TypeOK, EditedRegionIsSilent, editors, request, streams
  <2>3. SuspendedIsEdited'
    BY DEF SuspendedIsEdited, editors, request
  <2> QED
    BY <2>1, <2>2, <2>3 DEF QuietInv
<1>12. ASSUME NEW e \in Editor, LockForSample(e) PROVE QuietInv'
  <2> USE <1>12 DEF LockForSample, Go
  <2>1. RequestInv'
    BY DEF TypeOK, EditorsInv, EntriesInv, RequestInv, NoRequest, editors, request, streams
  <2>2. EditedRegionIsSilent'
    BY DEF TypeOK, EditedRegionIsSilent, editors, request, streams
  <2>3. SuspendedIsEdited'
    BY DEF SuspendedIsEdited, editors, request
  <2> QED
    BY <2>1, <2>2, <2>3 DEF QuietInv
<1>13. ASSUME NEW e \in Editor, ResumeAll(e) PROVE QuietInv'
  <2> USE <1>13 DEF ResumeAll, Go
  <2>1. RequestInv'
    BY DEF TypeOK, EditorsInv, EntriesInv, RequestInv, NoRequest, editors, request, streams
  <2>2. EditedRegionIsSilent'
    BY DEF TypeOK, EditedRegionIsSilent, editors, request, streams
  <2>3. SuspendedIsEdited'
    BY DEF SuspendedIsEdited, editors, request
  <2> QED
    BY <2>1, <2>2, <2>3 DEF QuietInv
<1>14. ASSUME DisableForReset PROVE QuietInv'
  <2> USE <1>14 DEF DisableForReset, Go
  <2>0. \A f \in Editor : pc'[f] = pc[f]
    BY DEF TypeOK
  <2>1. RequestInv'
    BY <2>0 DEF RequestInv, NoRequest, request, streams
  <2>2. EditedRegionIsSilent' /\ SuspendedIsEdited'
    BY <2>0 DEF EditedRegionIsSilent, SuspendedIsEdited, request, streams
  <2> QED
    BY <2>1, <2>2 DEF QuietInv
<1>15. ASSUME Reset PROVE QuietInv'
  <2> USE <1>15 DEF Reset, Go, ResetInternal
  <2>0. \A f \in Editor : pc'[f] = pc[f]
    BY DEF TypeOK
  <2>1. RequestInv'
    BY <2>0 DEF RequestInv, NoRequest, request, streams
  <2>2. EditedRegionIsSilent' /\ SuspendedIsEdited'
    BY <2>0 DEF EditedRegionIsSilent, SuspendedIsEdited, request, streams
  <2> QED
    BY <2>1, <2>2 DEF QuietInv
<1>16. ASSUME BeginCycle, ProcessSuspension PROVE QuietInv'
  <2> USE <1>16 DEF BeginCycle, ProcessSuspension, Answer
  <2> DEFINE killed == playing \cap {pSuspend}
  <2>0. PICK e \in Editor :
          /\ pc[e] = "waits" /\ entries = e /\ target[e] \in Region
          /\ \A f \in Editor : pc[f] \in {"set", "waits"} => f = e
          /\ \A f \in Editor : target[f] = target[e] => f = e
    BY Requester DEF QuietInv, NoRequest
  <2>a. e \notin resuming /\ pSuspend = target[e] /\ ongoing /\ toSuspend = 0 /\ pResume = Nobody
    BY <2>0 DEF RequestInv
  <2>b. Cardinality(killed) \in Nat
    BY KillOrdersType
  <2>c. /\ playing' = playing \ killed
        /\ toSuspend' = Cardinality(killed) /\ suspended' = suspended \cup {pSuspend}
        /\ pSuspend' = Nobody /\ pResume' = pResume
        /\ ongoing' = (ongoing /\ toSuspend' # 0) /\ UNCHANGED editors
    <3>1. toSuspend' = toSuspend + Cardinality(killed)
      OBVIOUS
    <3> HIDE DEF killed
    <3>2. toSuspend' = Cardinality(killed)
      BY <2>a, <2>b, <3>1
    <3> USE DEF killed
    <3> QED
      BY <3>2
  <2> HIDE DEF ProcessSuspension
  <2>1. RequestInv'
    <3>1. pSuspend' = Nobody /\ pResume' = Nobody /\ (ongoing' <=> toSuspend' # 0)
          /\ pc' = pc /\ target' = target /\ resuming' = resuming
      BY <2>a, <2>c DEF editors
    <3>2. target[e] \in suspended' \ playing'
      BY <2>0, <2>a, <2>c
    <3> HIDE DEF killed
    <3> QED
      BY <2>0, <2>a, <3>1, <3>2 DEF RequestInv
  <2>2. EditedRegionIsSilent' /\ SuspendedIsEdited'
    BY <2>a, <2>c DEF EditedRegionIsSilent, SuspendedIsEdited, editors
  <2> QED
    BY <2>1, <2>2 DEF QuietInv
<1>17. ASSUME BeginCycle, ProcessResumption PROVE QuietInv'
  <2> USE <1>17 DEF BeginCycle, ProcessResumption, Resumed
  <2>0. PICK e \in Editor :
          /\ pc[e] = "waits" /\ entries = e /\ target[e] \in Region
          /\ \A f \in Editor : pc[f] \in {"set", "waits"} => f = e
          /\ \A f \in Editor : target[f] = target[e] => f = e
    BY Requester DEF QuietInv, NoRequest
  <2>a. e \in resuming /\ pResume = target[e] /\ toSuspend = 0 /\ pSuspend = Nobody
    BY <2>0 DEF RequestInv
  <2>1. RequestInv'
    BY <2>0, <2>a DEF RequestInv, editors, streams
  <2>2. EditedRegionIsSilent' /\ SuspendedIsEdited'
    BY <2>0, <2>a DEF EditedRegionIsSilent, SuspendedIsEdited, editors, streams
  <2> QED
    BY <2>1, <2>2 DEF QuietInv
<1>18. ASSUME BeginCycle, NothingToProcess PROVE QuietInv'
  <2> USE <1>18 DEF BeginCycle, NothingToProcess
  <2>1. RequestInv'
    BY DEF RequestInv, NoRequest, editors, request, streams
  <2>2. EditedRegionIsSilent' /\ SuspendedIsEdited'
    BY DEF EditedRegionIsSilent, SuspendedIsEdited, editors, request, streams
  <2> QED
    BY <2>1, <2>2 DEF QuietInv
<1>19. ASSUME SysexReset PROVE QuietInv'
  <2> USE <1>19 DEF SysexReset, ResetInternal
  <2>1. RequestInv'
    BY DEF RequestInv, NoRequest, editors, request, streams
  <2>2. EditedRegionIsSilent' /\ SuspendedIsEdited'
    BY DEF EditedRegionIsSilent, SuspendedIsEdited, editors, request, streams
  <2> QED
    BY <2>1, <2>2 DEF QuietInv
<1>20. ASSUME ResetSuspendedRegions PROVE QuietInv'
  <2> USE <1>20 DEF ResetSuspendedRegions
  <2>0. UNCHANGED <<ongoing, pSuspend, pResume, suspended, toSuspend>>
    BY DEF ChangeWhileEdited, request
  <2>1. RequestInv'
    BY <2>0 DEF RequestInv, NoRequest, editors, streams
  <2>2. EditedRegionIsSilent' /\ SuspendedIsEdited'
    BY <2>0 DEF EditedRegionIsSilent, SuspendedIsEdited, editors, streams
  <2> QED
    BY <2>1, <2>2 DEF QuietInv
<1>21. ASSUME NoInstrumentChange PROVE QuietInv'
  <2> USE <1>21 DEF NoInstrumentChange
  <2>1. RequestInv'
    BY DEF RequestInv, NoRequest, editors, request, streams
  <2>2. EditedRegionIsSilent' /\ SuspendedIsEdited'
    BY DEF EditedRegionIsSilent, SuspendedIsEdited, editors, request, streams
  <2> QED
    BY <2>1, <2>2 DEF QuietInv
<1>22. ASSUME NEW r \in Region, TriggerVoice(r) PROVE QuietInv'
  <2> USE <1>22 DEF TriggerVoice, RegionSuspended
  <2>1. RequestInv'
    BY DEF RequestInv, NoRequest, editors, request, streams
  <2>2. EditedRegionIsSilent' /\ SuspendedIsEdited'
    BY DEF EditedRegionIsSilent, SuspendedIsEdited, editors, request, streams
  <2> QED
    BY <2>1, <2>2 DEF QuietInv
<1>23. ASSUME NEW r \in Region, VoiceEnds(r) PROVE QuietInv'
  <2> USE <1>23 DEF VoiceEnds
  <2>1. RequestInv'
    BY DEF RequestInv, NoRequest, editors, request, streams
  <2>2. EditedRegionIsSilent' /\ SuspendedIsEdited'
    BY DEF EditedRegionIsSilent, SuspendedIsEdited, editors, request, streams
  <2> QED
    BY <2>1, <2>2 DEF QuietInv
<1>24. ASSUME EndCycle PROVE QuietInv'
  <2> USE <1>24 DEF EndCycle, Answer
  <2>0. /\ UNCHANGED <<editors, pSuspend, pResume, suspended, playing>>
        /\ (toSuspend = 0 => ongoing' = ongoing /\ toSuspend' = 0)
        /\ toSuspend # 0 => ongoing' = (ongoing /\ toSuspend' # 0)
    BY DEF request
  <2> HIDE DEF EndCycle
  <2>1. RequestInv'
    <3>1. CASE toSuspend = 0
      BY <2>0, <3>1 DEF RequestInv, NoRequest, editors
    <3>2. CASE toSuspend # 0
      <4>1. PICK e \in Editor : /\ pc[e] = "waits"
                                /\ \A f \in Editor : pc[f] \in {"set", "waits"} => f = e
        BY <3>2, Requester DEF QuietInv, NoRequest
      <4>2. e \notin resuming /\ pResume = Nobody /\ pSuspend = Nobody
            /\ target[e] \in suspended \ playing /\ ongoing
        BY <3>2, <4>1 DEF RequestInv
      <4> QED
        BY <2>0, <3>2, <4>1, <4>2 DEF RequestInv, NoRequest, editors
    <3> QED
      BY <3>1, <3>2
  <2>2. EditedRegionIsSilent' /\ SuspendedIsEdited'
    BY <2>0 DEF EditedRegionIsSilent, SuspendedIsEdited, editors
  <2> QED
    BY <2>1, <2>2 DEF QuietInv
<1>25. ASSUME NEW i \in 1..Len(dying), DeleteStream(i) PROVE QuietInv'
  <2> USE <1>25 DEF DeleteStream
  <2>1. RequestInv'
    BY DEF RequestInv, NoRequest, editors, request, streams
  <2>2. EditedRegionIsSilent' /\ SuspendedIsEdited'
    BY DEF EditedRegionIsSilent, SuspendedIsEdited, editors, request, streams
  <2> QED
    BY <2>1, <2>2 DEF QuietInv
<1>26. ASSUME BeginCycle PROVE QuietInv'
  BY <1>26, <1>16, <1>17, <1>18 DEF BeginCycle
<1>27. ASSUME NEW e \in Editor, EditorStep(e) PROVE QuietInv'
  BY <1>27, <1>1, <1>2, <1>3, <1>4, <1>5, <1>6, <1>7, <1>8 DEF EditorStep
<1>28. ASSUME NEW e \in Editor, Edit(e) PROVE QuietInv'
  BY <1>28, <1>9, <1>10, <1>11, <1>12, <1>13 DEF Edit
<1>29. ASSUME Audio PROVE QuietInv'
  BY <1>29, <1>26, <1>19, <1>20, <1>21, <1>22, <1>23, <1>24 DEF Audio
<1> QED
  BY <1>27, <1>28, <1>29, <1>14, <1>15, <1>25 DEF Step

-----------------------------------------------------------------------------
(* The streams of the killed voices: until anything of that *)

\* The streams of a region's voices are deleted when its edit begins, and it gets no other
\* voice that is killed.
LEMMA OrdersStep ==
  ASSUME Base, QuietInv, NotificationsMatch, NoOrderInv, Step
  PROVE  NoOrderInv'
<1> USE NamesAssumption DEF Base
<1>1. ASSUME NEW e \in Editor, SetOngoing(e) PROVE NoOrderInv'
  BY <1>1 DEF SetOngoing, Go, TypeOK, NoOrderInv, editors, request, streams
<1>2. ASSUME NEW e \in Editor, Request(e) PROVE NoOrderInv'
  BY <1>2 DEF Request, Go, TypeOK, NoOrderInv, editors, request, streams
<1>3. ASSUME NEW e \in Editor, Proceed(e) PROVE NoOrderInv'
  <2> USE <1>3 DEF Proceed
  <2>1. NoRequest
    <3>1. \A f \in Editor : f # e => pc[f] # "waits"
      BY DEF EditorsInv, EntriesInv
    <3> QED
      BY <3>1 DEF QuietInv, RequestInv, NoRequest
  <2>2. engines = Nobody
    BY DEF TypeOK, EditorsInv, EnginesInv, QuietInv, Overlap, RegionEdit
  <2>3. dying \in Seq(Order) /\ notified \in Nat /\ ToNotify = Cardinality(Notifying(dying))
    BY DEF TypeOK, ToNotify, Notifying, Order
  <2>4. notified + Cardinality(Notifying(dying)) = 0
    BY <2>1, <2>2, <2>3 DEF NotificationsMatch, NoRequest
  <2>5. Notifying(dying) = {}
    BY <2>3, <2>4, NotifyingType
  <2> QED
    BY <2>5 DEF NoOrderInv, Notifying, streams
<1>4. ASSUME NEW e \in Editor, Disable(e) PROVE NoOrderInv'
  BY <1>4 DEF Disable, Go, TypeOK, NoOrderInv, editors, request, streams
<1>5. ASSUME NEW e \in Editor, KillAll(e) PROVE NoOrderInv'
  <2> USE <1>5 DEF KillAll, Go
  <2>1. \A f \in Editor : pc[f] \notin RegionEdit
    BY DEF QuietInv, Overlap, EngineEdit
  <2> QED
    BY <2>1 DEF TypeOK, NoOrderInv, RegionEdit
<1>6. ASSUME NEW e \in Editor, Count(e) PROVE NoOrderInv'
  BY <1>6 DEF Count, TypeOK, NoOrderInv, editors, request, streams
<1>7. ASSUME NEW e \in Editor, AllSuspended(e) PROVE NoOrderInv'
  BY <1>7 DEF AllSuspended, Go, TypeOK, NoOrderInv, editors, request, streams
<1>8. ASSUME NEW e \in Editor, UnlockSample(e) PROVE NoOrderInv'
  BY <1>8 DEF UnlockSample, Go, TypeOK, NoOrderInv, editors, request, streams
<1>9. ASSUME NEW e \in Editor, NEW r \in Region, Lock(e, r) PROVE NoOrderInv'
  <2> USE <1>9 DEF Lock, Go, MayEdit
  <2> QED
    BY DEF TypeOK, NoOrderInv, request, streams
<1>10. ASSUME NEW e \in Editor, LockAgain(e) PROVE NoOrderInv'
  BY <1>10 DEF LockAgain, Go, TypeOK, NoOrderInv, editors, request, streams
<1>11. ASSUME NEW e \in Editor, LockEngines(e) PROVE NoOrderInv'
  BY <1>11 DEF LockEngines, Go, MayEdit, TypeOK, NoOrderInv, editors, request, streams
<1>12. ASSUME NEW e \in Editor, LockForSample(e) PROVE NoOrderInv'
  BY <1>12 DEF LockForSample, Go, TypeOK, NoOrderInv, editors, request, streams
<1>13. ASSUME NEW e \in Editor, ResumeAll(e) PROVE NoOrderInv'
  BY <1>13 DEF ResumeAll, Go, TypeOK, NoOrderInv, editors, request, streams
<1>14. ASSUME DisableForReset PROVE NoOrderInv'
  BY <1>14 DEF DisableForReset, Go, TypeOK, NoOrderInv, editors, request, streams
<1>15. ASSUME Reset PROVE NoOrderInv'
  <2> USE <1>15 DEF Reset, Go, ResetInternal
  <2>1. DOMAIN dying' = {}
    OBVIOUS
  <2> QED
    BY <2>1 DEF NoOrderInv
<1>16. ASSUME BeginCycle, ProcessSuspension PROVE NoOrderInv'
  <2> USE <1>16 DEF BeginCycle, ProcessSuspension, Answer
  <2> DEFINE killed == playing \cap {pSuspend}
  <2> SUFFICES ASSUME NEW f \in Editor, pc[f] = "edits", NEW i \in DOMAIN dying',
                      dying'[i].notify
               PROVE  dying'[i].region # target[f]
    BY DEF NoOrderInv, editors
  <2>1. target[f] # pSuspend
    BY Requester DEF QuietInv, NoRequest, RequestInv
  <2>2. /\ KillOrders(killed) \in Seq(Order) /\ dying \in Seq(Order)
        /\ \A j \in DOMAIN KillOrders(killed) : KillOrders(killed)[j].region = pSuspend
        /\ dying' = dying \o KillOrders(killed)
    BY KillOrdersType DEF TypeOK, Order
  <2> HIDE DEF killed, BeginCycle, ProcessSuspension
  <2>3. /\ DOMAIN dying' = 1..Len(dying) + Len(KillOrders(killed))
        /\ dying'[i] = IF i <= Len(dying) THEN dying[i] ELSE KillOrders(killed)[i - Len(dying)]
        /\ Len(dying) \in Nat /\ DOMAIN dying = 1..Len(dying)
        /\ Len(KillOrders(killed)) \in Nat
        /\ DOMAIN KillOrders(killed) = 1..Len(KillOrders(killed))
    BY <2>2, ConcatProperties, LenProperties
  <2>4. CASE i <= Len(dying)
    BY <2>3, <2>4 DEF NoOrderInv
  <2>5. CASE ~ (i <= Len(dying))
    <3>1. i - Len(dying) \in DOMAIN KillOrders(killed)
      BY <2>3, <2>5
    <3> QED
      BY <2>1, <2>2, <2>3, <2>5, <3>1
  <2> QED
    BY <2>4, <2>5
<1>17. ASSUME BeginCycle, ProcessResumption PROVE NoOrderInv'
  BY <1>17 DEF BeginCycle, ProcessResumption, Resumed, TypeOK, NoOrderInv, editors, request, streams
<1>18. ASSUME BeginCycle, NothingToProcess PROVE NoOrderInv'
  BY <1>18 DEF BeginCycle, NothingToProcess, TypeOK, NoOrderInv, editors, request, streams
<1>19. ASSUME SysexReset PROVE NoOrderInv'
  <2> USE <1>19 DEF SysexReset, ResetInternal
  <2>1. DOMAIN dying' = {}
    OBVIOUS
  <2> QED
    BY <2>1 DEF NoOrderInv
<1>20. ASSUME ResetSuspendedRegions PROVE NoOrderInv'
  BY <1>20 DEF ResetSuspendedRegions, TypeOK, NoOrderInv, editors, request, streams
<1>21. ASSUME NoInstrumentChange PROVE NoOrderInv'
  BY <1>21 DEF NoInstrumentChange, TypeOK, NoOrderInv, editors, request, streams
<1>22. ASSUME NEW r \in Region, TriggerVoice(r) PROVE NoOrderInv'
  BY <1>22 DEF TriggerVoice, RegionSuspended, TypeOK, NoOrderInv, editors, request, streams
<1>23. ASSUME NEW r \in Region, VoiceEnds(r) PROVE NoOrderInv'
  <2> USE <1>23 DEF VoiceEnds
  <2>1. dying \in Seq(Order) /\ dying' = Append(dying, [region |-> r, notify |-> FALSE])
    BY DEF TypeOK, Order
  <2>2. \A i \in DOMAIN dying' : dying'[i].notify => i \in DOMAIN dying /\ dying'[i] = dying[i]
    BY <2>1
  <2> QED
    BY <2>2 DEF NoOrderInv, editors
<1>24. ASSUME EndCycle PROVE NoOrderInv'
  BY <1>24 DEF EndCycle, Answer, TypeOK, NoOrderInv, editors, request, streams
<1>25. ASSUME NEW i \in 1..Len(dying), DeleteStream(i) PROVE NoOrderInv'
  <2> USE <1>25 DEF DeleteStream
  <2>1. \A j \in DOMAIN dying' : \E k \in DOMAIN dying : dying'[j] = dying[k]
    <3>1. dying \in Seq(Order)
      BY DEF TypeOK, Order
    <3> QED
      BY <3>1, NotifyingRemove
  <2> QED
    BY <2>1 DEF NoOrderInv, editors
<1>26. ASSUME BeginCycle PROVE NoOrderInv'
  BY <1>26, <1>16, <1>17, <1>18 DEF BeginCycle
<1>27. ASSUME NEW e \in Editor, EditorStep(e) PROVE NoOrderInv'
  BY <1>27, <1>1, <1>2, <1>3, <1>4, <1>5, <1>6, <1>7, <1>8 DEF EditorStep
<1>28. ASSUME NEW e \in Editor, Edit(e) PROVE NoOrderInv'
  BY <1>28, <1>9, <1>10, <1>11, <1>12, <1>13 DEF Edit
<1>29. ASSUME Audio PROVE NoOrderInv'
  BY <1>29, <1>26, <1>19, <1>20, <1>21, <1>22, <1>23, <1>24 DEF Audio
<1> QED
  BY <1>27, <1>28, <1>29, <1>14, <1>15, <1>25 DEF Step

-----------------------------------------------------------------------------
(* The theorems *)

\* Every step of every thread preserves the invariant.
THEOREM Invariant == Spec => []IInv
<1>1. Init => IInv
  BY InitIInv
<1>2. ASSUME IInv, Next PROVE IInv'
  <2>1. Base' /\ Step /\ Watch /\ Base
    BY <1>2, BaseStep DEF IInv, Next
  <2>2. /\ races \subseteq races'
        /\ races' \subseteq {"reset"} => ~ Overlap' /\ ~ ChangeWhileEdited
        /\ races' \subseteq {"overlap"} => ~ ChangeWhileEdited /\ ~ ResetWhileAwaited
    BY <2>1 DEF Watch
  <2>3. races' \subseteq {"reset"} => QuietInv'
    BY <1>2, <2>1, <2>2, QuietStep DEF IInv
  <2>4. races' \subseteq {"overlap"} => NotificationsMatch'
    BY <1>2, <2>1, <2>2, NotificationsStep DEF IInv
  <2>5. races' = {} => NoOrderInv'
    BY <1>2, <2>1, <2>2, OrdersStep DEF IInv
  <2> QED
    BY <2>1, <2>3, <2>4, <2>5 DEF IInv
<1>3. ASSUME IInv, UNCHANGED vars PROVE IInv'
  <2> USE <1>3 DEF IInv, vars, code
  <2>1. Base'
    <3>1. TypeOK'
      BY DEF Base, TypeOK, editors, request, streams
    <3>2. EditorsInv' /\ IdleInv' /\ KillInv'
      BY SameEditors DEF Base, IdleInv, KillInv, editors, streams
    <3> QED
      BY <3>1, <3>2 DEF Base
  <2>2. QuietInv => QuietInv'
    BY DEF QuietInv, Overlap, RequestInv, NoRequest, EditedRegionIsSilent, SuspendedIsEdited,
       RegionEdit, EngineEdit, editors, request, streams
  <2>3. (NotificationsMatch => NotificationsMatch') /\ (NoOrderInv => NoOrderInv')
    BY DEF NotificationsMatch, ToNotify, NoOrderInv, editors, streams
  <2> QED
    BY <2>1, <2>2, <2>3
<1> QED
  BY <1>1, <1>2, <1>3, PTL DEF Spec

\* What is edited between SuspendAll() and ResumeAll() is not played, whatever happens;
\* what is edited between Suspend() and Resume() is not either, and nothing else stays
\* suspended, unless two edits have overlapped or the instrument was changed meanwhile -
\* for any number of editors, of regions and of voices, with edits, resets and cycles in
\* every order.
THEOREM Quiet == Spec => []EditedIsQuiet
<1>1. IInv => EditedIsQuiet
  BY DEF IInv, Base, QuietInv, IdleInv, EditedIsQuiet, EditedEngineIsIdle
<1> QED
  BY <1>1, Invariant, PTL

\* The notifications that Suspend() and SuspendAll() take from the same queue are all
\* awaited, even if their edits overlap, unless a reset has discarded some or a change of
\* the instrument has forgotten that; without any of the three, an edit begins after the
\* deletion of the streams it has asked for.
THEOREM Awaited == Spec => []StreamsAwaited
<1>1. ASSUME IInv, races = {} PROVE KilledStreamsAreDeleted
  <2> USE <1>1 DEF IInv, Base
  <2>1. ASSUME NEW e \in Editor, pc[e] \in {"edits all", "samples"} PROVE ToNotify = 0
    <3>1. engines = e /\ toKill[e] = 0 /\ \A f \in Editor : pc[f] # "waits"
      BY <2>1 DEF EditorsInv, EnginesInv, QuietInv, Overlap, KillInv, EngineEdit, RegionEdit
    <3>2. toSuspend = 0
      BY <3>1 DEF QuietInv, RequestInv, NoRequest
    <3>3. ToNotify \in Nat /\ notified \in Nat
      BY ToNotifyType DEF TypeOK, Order
    <3>4. notified + ToNotify = 0
      BY <3>1, <3>2, NamesAssumption DEF NotificationsMatch
    <3> QED
      BY <3>3, <3>4
  <2>2. ASSUME NEW e \in Editor, pc[e] = "edits"
        PROVE  [region |-> target[e], notify |-> TRUE] \notin {dying[i] : i \in DOMAIN dying}
    BY <2>2 DEF NoOrderInv
  <2> QED
    BY <2>1, <2>2 DEF KilledStreamsAreDeleted
<1>2. IInv => StreamsAwaited
  BY <1>1 DEF IInv, StreamsAwaited
<1> QED
  BY <1>2, Invariant, PTL

=============================================================================
