--------------------------- MODULE ThreadsProofs ---------------------------
(***************************************************************************)
(* Proofs about the threads of the library and how they keep out of each   *)
(* other's way:                                                            *)
(*                                                                         *)
(*   ThreadLifecycle, for any number of threads spawned and any set of     *)
(*   controllers that stop the object, if one controller starts it.        *)
(*   StartThread() waits for the new thread on RunningCondition, and the   *)
(*   wait gives the mutex up: a second controller that calls StartThread() *)
(*   in the meantime finds the condition still false and creates a second  *)
(*   thread.  So the hypothesis is needed.                                 *)
(*                                                                         *)
(*   InstrumentManagerThread, which is such a thread, for every set of     *)
(*   engine channels and any number of commands, with its users as the     *)
(*   code lets them be: the channels that they give up with something      *)
(*   pending are a part of the state.                                      *)
(*                                                                         *)
(*   ConditionServer, which keeps the audio thread out of an engine, for   *)
(*   every set of non real time threads and every nesting depth: what      *)
(*   DisableAndLock(), Enable() and RenderAudio() guarantee together, and  *)
(*   that the condition is a single value with a grace period, which needs *)
(*   PushMutex.                                                            *)
(*                                                                         *)
(*   SynchronizedConfig, for every set of readers, members and values: its *)
(*   types, the exclusion between the non real time thread's update and    *)
(*   the readers, that a locked object is stable and is the whole of one   *)
(*   update, and that GracePeriod is implemented.                          *)
(*                                                                         *)
(* The four have no state in common, and are independent of each other.    *)
(***************************************************************************)
EXTENDS ThreadLifecycle, InstrumentManagerThread, ConditionServer, SynchronizedConfig,
        SequenceTheorems, WellFoundedInduction, TLAPS

\* The users of a Thread object start it from one place at a time.
OneStarter == \A c, d \in Starter : c = d

-----------------------------------------------------------------------------
(* Thread: the inductive invariant *)

\* Threads are created one after the other: all but the last one have ended.
HistoryInv == \A i \in Pthread : /\ i > id => os[i] = "none"
                                 /\ i < id => os[i] = "ended"
                                 /\ i = id => os[i] # "none"

\* RunningCondition is set as long as the last thread is inside of its destructor's
\* reach.
RunningInv == running <=> id \in Pthread /\ os[id] \in {"main", "exit"}

\* A thread that has not begun is what its StartThread() waits for.
StartInv ==
  /\ \A i \in Pthread : os[i] = "launch" => \E c \in Starter : pc[c] = "start_wait"
  /\ \A c \in Controller :
       /\ pc[c] \in {"start_wait", "start_woken"} =>
            c \in Starter /\ target[c] \in Pthread /\ target[c] = id
       /\ pc[c] = "start_wait" => os[id] = "launch"
       /\ pc[c] = "start_woken" => os[id] # "launch"

\* StopThread() joins the thread it found, or a later one.
StopInv == \A c \in Controller :
  /\ pc[c] \in {"stop_wait", "stop_woken"} => target[c] \in Pthread /\ target[c] <= id
  /\ pc[c] = "join" => joined[c] \in Pthread /\ target[c] <= joined[c] /\ joined[c] <= id

\* Only a thread that has left Main() is joined or detached, and an object that is
\* pending has its last thread ended.
ReleasedInv == /\ \A i \in Pthread : released[i] # 0 => HasLeft(i)
               /\ state = "PENDING_JOIN" => id \in Pthread /\ os[id] = "ended"

ThreadInv == /\ ThreadTypeOK /\ HistoryInv /\ RunningInv /\ StartInv /\ StopInv
             /\ ReleasedInv /\ NoneRunsAfterStop /\ NoThreadLeak

-----------------------------------------------------------------------------
(* Thread: lemmas *)

\* Only the thread created last can be executing anything.
LEMMA LastThread ==
  ASSUME ThreadInv, NEW i \in Pthread, os[i] \notin {"none", "ended"}
  PROVE  i = id
  BY DEF ThreadInv, ThreadTypeOK, HistoryInv, Pthread

\* A call of pthread_join() or pthread_detach() counts, and no other count changes.
LEMMA ReleaseCounts ==
  ASSUME released \in [Pthread -> 0..2], NEW i
  PROVE  /\ Release(i) \in [Pthread -> 0..2]
         /\ \A j \in Pthread : Release(i)[j] = 0 => released[j] = 0 /\ j # i
         /\ \A j \in Pthread : Release(i)[j] # 0 => released[j] # 0 \/ j = i
<1>1. Release(i) = [j \in Pthread |->
         IF j = i THEN (IF released[j] = 2 THEN 2 ELSE released[j] + 1) ELSE released[j]]
  BY DEF Release
<1>2. \A j \in Pthread : released[j] \in 0..2
  OBVIOUS
<1>3. \A n \in 0..2 : (IF n = 2 THEN 2 ELSE n + 1) \in 1..2
  OBVIOUS
<1>4. \A j \in Pthread : Release(i)[j] = 0 => released[j] = 0 /\ j # i
  BY <1>1, <1>2, <1>3
<1>5. \A j \in Pthread : j # i => Release(i)[j] = released[j]
  BY <1>1
<1>6. Release(i) \in [Pthread -> 0..2]
  BY <1>1, <1>2, <1>3
<1> QED
  BY <1>4, <1>5, <1>6

\* Whoever finds the object pending detaches its thread.
LEMMA DetachCounts ==
  ASSUME released \in [Pthread -> 0..2]
  PROVE  /\ DetachIfPendingJoin \in [Pthread -> 0..2]
         /\ \A j \in Pthread : DetachIfPendingJoin[j] = 0 =>
              released[j] = 0 /\ (state = "PENDING_JOIN" => j # id)
         /\ \A j \in Pthread : DetachIfPendingJoin[j] # 0 =>
              released[j] # 0 \/ (state = "PENDING_JOIN" /\ j = id)
  BY ReleaseCounts DEF DetachIfPendingJoin

\* Condition::PreLockedSet() wakes the controllers that wait for the new value,
\* and moves no other.
LEMMA SetWakes ==
  ASSUME ThreadTypeOK, NEW value \in BOOLEAN, PreLockedSet(value)
  PROVE  /\ running' = value
         /\ pc' \in [Controller -> {"idle", "start_wait", "start_woken",
                        "stop_wait", "stop_woken", "join", "stop_relock"}]
         /\ \A c \in Controller :
              \/ pc'[c] = pc[c] /\ (pc[c] = "start_wait" => ~ value \/ running)
              \/ pc[c] = "start_wait" /\ pc'[c] = "start_woken" /\ value /\ ~ running
              \/ pc[c] = "stop_wait" /\ pc'[c] = "stop_woken"
  BY DEF ThreadTypeOK, PreLockedSet

\* A new Thread object satisfies the invariant.
LEMMA ThreadInitInv == ThreadInit => ThreadInv
<1> SUFFICES ASSUME ThreadInit PROVE ThreadInv
  OBVIOUS
<1> USE MaxSpawnAssumption DEF ThreadInit
<1>1. ThreadTypeOK
  <2>1. id \in 0..MaxSpawn
    OBVIOUS
  <2>2. target \in [Controller -> 0..MaxSpawn] /\ joined \in [Controller -> 0..MaxSpawn]
    OBVIOUS
  <2>3. released \in [Pthread -> 0..2]
    OBVIOUS
  <2>4. running \in BOOLEAN
    OBVIOUS
  <2>5. os \in [Pthread -> {"none", "launch", "main", "exit", "self_exit", "ended"}]
    OBVIOUS
  <2> QED
    BY <2>1, <2>2, <2>3, <2>4, <2>5 DEF ThreadTypeOK
<1>2. HistoryInv /\ RunningInv /\ NoThreadLeak
  BY DEF HistoryInv, RunningInv, NoThreadLeak, Pthread
<1>3. StartInv /\ StopInv /\ ReleasedInv /\ NoneRunsAfterStop
  BY DEF StartInv, StopInv, ReleasedInv, NoneRunsAfterStop
<1> QED
  BY <1>1, <1>2, <1>3 DEF ThreadInv

-----------------------------------------------------------------------------
(* Thread: the invariant is inductive *)

\* StartThread() creates a thread only when every earlier one has ended.
LEMMA CreateThreadIInv ==
  ASSUME OneStarter, ThreadInv, NEW c \in Controller, CreateThread(c)
  PROVE  ThreadInv'
<1> USE MaxSpawnAssumption DEF ThreadInv, CreateThread
<1>1. id + 1 \in Pthread /\ id' = id + 1 /\ id \in 0..MaxSpawn
  BY DEF ThreadTypeOK, Pthread
<1>2. \A i \in Pthread : os[i] # "launch"
  BY DEF StartInv, OneStarter
<1>3. \A i \in Pthread : i <= id => os[i] = "ended"
  BY <1>1, <1>2 DEF ThreadTypeOK, HistoryInv, RunningInv, Pthread
<1>4. \A i \in Pthread : i > id + 1 => os[i] = "none"
  BY <1>1 DEF HistoryInv, Pthread
<1>5. os' = [os EXCEPT ![id + 1] = "launch"]
  OBVIOUS
<1>6. \A d \in Controller : pc[d] \notin {"start_wait", "start_woken"}
  BY DEF StartInv, OneStarter
<1>7. ThreadTypeOK'
  BY <1>1, DetachCounts DEF ThreadTypeOK
<1>8. HistoryInv' /\ RunningInv'
  BY <1>1, <1>3, <1>4, <1>5 DEF ThreadTypeOK, HistoryInv, RunningInv, Pthread
<1>9. StartInv'
  BY <1>1, <1>5, <1>6, <1>2 DEF ThreadTypeOK, StartInv
<1>10. StopInv'
  BY <1>1 DEF ThreadTypeOK, StopInv, Pthread
<1>11. NoneRunsAfterStop'
  <2> SUFFICES ASSUME NEW d \in Controller, pc'[d] = "stop_relock", NEW i \in 1..joined'[d]
               PROVE  os'[i] \in {"self_exit", "ended"}
    BY DEF NoneRunsAfterStop, HasLeft
  <2>1. pc[d] = "stop_relock" /\ joined'[d] = joined[d] /\ os[i] \in {"self_exit", "ended"}
    BY DEF ThreadTypeOK, NoneRunsAfterStop, HasLeft
  <2>2. i \in Pthread /\ os[id + 1] = "none"
    BY <2>1, <1>1 DEF ThreadTypeOK, Pthread, HistoryInv
  <2> QED
    BY <2>1, <2>2, <1>5, <1>1 DEF ThreadTypeOK
<1>12. NoThreadLeak'
  <2> SUFFICES ASSUME NEW i \in Pthread, os'[i] = "ended", released'[i] = 0 PROVE FALSE
    BY DEF NoThreadLeak
  <2>1. os[i] = "ended" /\ released[i] = 0 /\ (state = "PENDING_JOIN" => i # id)
    BY <1>1, <1>5, DetachCounts DEF ThreadTypeOK
  <2> QED
    BY <2>1 DEF NoThreadLeak
<1>13. ReleasedInv'
  <2> SUFFICES ASSUME NEW i \in Pthread, released'[i] # 0 PROVE os'[i] = "ended"
    BY DEF ReleasedInv, HasLeft
  <2>1. os[i] = "ended"
    BY <1>3, <1>4, <1>1, DetachCounts DEF ThreadTypeOK, ReleasedInv, HasLeft, HistoryInv, Pthread
  <2> QED
    BY <2>1, <1>1, <1>5 DEF ThreadTypeOK, HistoryInv, Pthread
<1> QED
  BY <1>7, <1>8, <1>9, <1>10, <1>11, <1>12, <1>13

\* The calls that only look after a thread that ended keep the invariant.
LEMMA DetachIInv ==
  ASSUME ThreadInv, NEW c \in Controller,
         \/ StartRunning(c) \/ CreateThreadFails(c) \/ StopEnded(c) \/ StopReturns(c)
  PROVE  ThreadInv'
<1> USE DEF ThreadInv, StartRunning, CreateThreadFails, StopEnded, StopReturns
<1>1. /\ UNCHANGED <<running, id, os, cancelled, target, joined>>
      /\ released' = DetachIfPendingJoin
      /\ \A d \in Controller : pc'[d] = pc[d] \/ pc'[d] = "idle"
      /\ \A d \in Controller : pc[d] = "start_wait" => pc'[d] = "start_wait"
  BY DEF ThreadTypeOK
<1>2. ThreadTypeOK'
  BY DetachCounts DEF ThreadTypeOK
<1>3. HistoryInv' /\ RunningInv'
  BY <1>1 DEF HistoryInv, RunningInv
<1>4. StartInv'
  BY <1>1 DEF StartInv, Controller
<1>5. StopInv' /\ NoneRunsAfterStop'
  BY <1>1 DEF StopInv, NoneRunsAfterStop, HasLeft
<1>6. NoThreadLeak'
  <2> SUFFICES ASSUME NEW i \in Pthread, os'[i] = "ended", released'[i] = 0 PROVE FALSE
    BY DEF NoThreadLeak
  <2>1. os[i] = "ended" /\ released[i] = 0 /\ (state = "PENDING_JOIN" => i # id)
    BY <1>1, DetachCounts DEF ThreadTypeOK
  <2> QED
    BY <2>1 DEF NoThreadLeak
<1>7. ReleasedInv'
  BY <1>1, DetachCounts DEF ThreadTypeOK, ReleasedInv, HasLeft, HistoryInv
<1> QED
  BY <1>2, <1>3, <1>4, <1>5, <1>6, <1>7

\* The rest of StartThread() and SignalStopThread()
LEMMA SignalIInv ==
  ASSUME ThreadInv, NEW c \in Controller, StartReturns(c) \/ SignalStopThread(c)
  PROVE  ThreadInv'
<1> USE DEF ThreadInv, StartReturns, SignalStopThread
<1>1. /\ UNCHANGED <<running, state, id, os, released, target, joined>>
      /\ \A d \in Controller : pc'[d] = pc[d] \/ pc'[d] = "idle"
      /\ \A d \in Controller : pc[d] = "start_wait" => pc'[d] = "start_wait"
  BY DEF ThreadTypeOK
<1>2. ThreadTypeOK'
  BY DEF ThreadTypeOK, RunningInv
<1>3. HistoryInv' /\ RunningInv' /\ NoThreadLeak'
  BY <1>1 DEF HistoryInv, RunningInv, NoThreadLeak
<1>4. StartInv'
  BY <1>1 DEF StartInv, Controller
<1>5. StopInv' /\ NoneRunsAfterStop' /\ ReleasedInv'
  BY <1>1 DEF StopInv, NoneRunsAfterStop, ReleasedInv, HasLeft
<1> QED
  BY <1>2, <1>3, <1>4, <1>5

\* StopThread() cancels, waits and joins the last thread or one that has ended.
LEMMA StopIInv ==
  ASSUME ThreadInv, NEW c \in Controller, CancelAndWait(c) \/ Join(c) \/ JoinReturns(c)
  PROVE  ThreadInv'
<1> USE DEF ThreadInv, CancelAndWait, Join, JoinReturns
<1>1. UNCHANGED <<running, state, id, os>>
  OBVIOUS
<1>2. ThreadTypeOK'
  BY ReleaseCounts DEF ThreadTypeOK, RunningInv
<1>3. HistoryInv' /\ RunningInv'
  BY <1>1 DEF HistoryInv, RunningInv
<1>4. NoThreadLeak'
  BY ReleaseCounts DEF ThreadTypeOK, NoThreadLeak
<1>5. \A d \in Controller : /\ (pc[d] = "start_wait") = (pc'[d] = "start_wait")
                            /\ pc'[d] = "start_woken" => pc[d] = "start_woken"
                            /\ pc'[d] \in {"start_wait", "start_woken"} => target'[d] = target[d]
  BY DEF ThreadTypeOK
<1>6. StartInv'
  BY <1>1, <1>5 DEF StartInv, Controller
<1>7. StopInv'
  BY DEF ThreadTypeOK, StopInv, RunningInv, Pthread
<1>8. ReleasedInv'
  <2>1. CASE JoinReturns(c)
    <3>1. joined[c] \in Pthread /\ HasLeft(joined[c])
      BY <2>1 DEF StopInv, ReleasedInv, HasLeft
    <3> QED
      BY <2>1, <3>1, ReleaseCounts DEF ThreadTypeOK, ReleasedInv, HasLeft
  <2>2. CASE CancelAndWait(c) \/ Join(c)
    BY <2>2 DEF ReleasedInv, HasLeft
  <2> QED
    BY <2>1, <2>2
<1>9. NoneRunsAfterStop'
  <2>1. CASE JoinReturns(c)
    <3>1. \A i \in 1..joined[c] : HasLeft(i)
      <4> SUFFICES ASSUME NEW i \in 1..joined[c] PROVE HasLeft(i)
        OBVIOUS
      <4>1. joined[c] \in Pthread /\ joined[c] <= id /\ id \in 0..MaxSpawn
        BY <2>1 DEF StopInv, ThreadTypeOK
      <4>2. i \in Pthread /\ (i = joined[c] \/ i < id)
        BY <4>1, MaxSpawnAssumption DEF Pthread
      <4> QED
        BY <2>1, <4>2 DEF HistoryInv, ReleasedInv, HasLeft
    <3> QED
      BY <2>1, <3>1 DEF ThreadTypeOK, NoneRunsAfterStop, HasLeft
  <2>2. CASE CancelAndWait(c) \/ Join(c)
    BY <2>2 DEF ThreadTypeOK, NoneRunsAfterStop, HasLeft
  <2> QED
    BY <2>1, <2>2
<1> QED
  BY <1>2, <1>3, <1>4, <1>6, <1>7, <1>8, <1>9

\* The thread begins: its StartThread() is woken.
LEMMA EnableDestructorIInv ==
  ASSUME ThreadInv, NEW i \in Pthread, EnableDestructor(i)
  PROVE  ThreadInv'
<1> USE DEF ThreadInv, EnableDestructor
<1>1. i = id
  BY LastThread
<1>2. /\ running' = TRUE /\ ~ running /\ os' = [os EXCEPT ![id] = "main"]
      /\ UNCHANGED <<state, id, cancelled, released, target, joined>>
  BY <1>1, SetWakes DEF RunningInv
<1>3. ThreadTypeOK'
  BY <1>1, <1>2, SetWakes DEF ThreadTypeOK
<1>4. HistoryInv' /\ RunningInv'
  BY <1>1, <1>2 DEF ThreadTypeOK, HistoryInv, RunningInv
<1>5. StartInv'
  <2>1. \A j \in Pthread : os'[j] # "launch"
    BY <1>1, <1>2, LastThread DEF ThreadTypeOK
  <2>2. \A c \in Controller : /\ pc'[c] # "start_wait"
                              /\ pc'[c] = "start_woken" => pc[c] \in {"start_wait", "start_woken"}
    BY <1>2, SetWakes
  <2>3. os'[id] # "launch"
    BY <1>1, <2>1
  <2> QED
    BY <1>2, <2>1, <2>2, <2>3 DEF StartInv
<1>6. StopInv'
  BY <1>2, SetWakes DEF StopInv
<1>7. NoneRunsAfterStop' /\ ReleasedInv'
  <2>1. \A j \in Pthread : HasLeft(j) => HasLeft(j)'
    BY <1>1, <1>2 DEF ThreadTypeOK, HasLeft
  <2>2. \A c \in Controller : \A j \in 1..joined[c] : j \in Pthread
    BY MaxSpawnAssumption DEF ThreadTypeOK, Pthread
  <2>3. \A c \in Controller : pc'[c] = "stop_relock" => pc[c] = "stop_relock"
    BY <1>2, SetWakes
  <2>4. NoneRunsAfterStop'
    BY <1>2, <2>1, <2>2, <2>3 DEF NoneRunsAfterStop
  <2>5. state # "PENDING_JOIN"
    BY <1>1 DEF ReleasedInv
  <2> QED
    BY <1>2, <2>1, <2>4, <2>5 DEF ReleasedInv
<1>8. NoThreadLeak'
  BY <1>2 DEF ThreadTypeOK, NoThreadLeak
<1> QED
  BY <1>3, <1>4, <1>5, <1>6, <1>7, <1>8

\* Main() returns, or is cancelled: the condition stays set until the destructor.
LEMMA MainEndsIInv ==
  ASSUME ThreadInv, NEW i \in Pthread, MainReturns(i) \/ ThreadCancelled(i)
  PROVE  ThreadInv'
<1> USE DEF ThreadInv, MainReturns, ThreadCancelled
<1>1. i = id
  BY LastThread
<1>2. /\ os[id] = "main" /\ os' = [os EXCEPT ![id] = "exit"]
      /\ UNCHANGED <<running, state, id, cancelled, released, pc, target, joined>>
  BY <1>1
<1>3. ThreadTypeOK'
  BY <1>2 DEF ThreadTypeOK
<1>4. HistoryInv' /\ RunningInv'
  BY <1>1, <1>2 DEF ThreadTypeOK, HistoryInv, RunningInv
<1>5. StartInv' /\ StopInv'
  BY <1>1, <1>2 DEF ThreadTypeOK, StartInv, StopInv
<1>6. NoneRunsAfterStop' /\ NoThreadLeak' /\ ReleasedInv'
  BY <1>1, <1>2 DEF ThreadTypeOK, NoneRunsAfterStop, NoThreadLeak, ReleasedInv, HasLeft, Pthread
<1> QED
  BY <1>3, <1>4, <1>5, <1>6

\* Main() stops its own object, or the destructor of the thread key runs.
LEMMA ThreadEndsIInv ==
  ASSUME ThreadInv, NEW i \in Pthread, StopSelf(i) \/ pthreadDestructor(i)
  PROVE  ThreadInv'
<1> USE DEF ThreadInv, StopSelf, pthreadDestructor
<1>1. i = id
  BY LastThread
<1>2. /\ running' = FALSE /\ UNCHANGED <<id, cancelled, target, joined>>
      /\ os[id] \in {"main", "exit", "self_exit"}
  BY <1>1, SetWakes
<1>3. \/ os' = [os EXCEPT ![id] = "self_exit"] /\ released' = Release(id) /\ os[id] = "main"
         /\ state' = "DETACHED"
      \/ os' = [os EXCEPT ![id] = "ended"] /\ released' = released /\ state' = "PENDING_JOIN"
  BY <1>1
<1>4. ThreadTypeOK'
  <2>1. released' \in [Pthread -> 0..2]
    BY <1>3, ReleaseCounts DEF ThreadTypeOK
  <2>2. os' \in [Pthread -> {"none", "launch", "main", "exit", "self_exit", "ended"}]
    BY <1>3 DEF ThreadTypeOK
  <2>3. state' \in {"NOT_RUNNING", "RUNNING", "PENDING_JOIN", "DETACHED"}
    BY <1>3
  <2>4. /\ running' \in BOOLEAN
        /\ pc' \in [Controller -> {"idle", "start_wait", "start_woken",
                        "stop_wait", "stop_woken", "join", "stop_relock"}]
    BY <1>2, SetWakes
  <2> HIDE DEF StopSelf, pthreadDestructor
  <2> QED
    BY <1>2, <2>1, <2>2, <2>3, <2>4 DEF ThreadTypeOK
<1>5. HistoryInv' /\ RunningInv'
  BY <1>1, <1>2, <1>3 DEF ThreadTypeOK, HistoryInv, RunningInv
<1>6. StartInv'
  <2>1. \A j \in Pthread : os'[j] # "launch"
    BY <1>1, <1>2, <1>3, LastThread DEF ThreadTypeOK
  <2>2. \A c \in Controller : /\ pc[c] # "start_wait" /\ pc'[c] # "start_wait"
                              /\ pc'[c] = "start_woken" => pc[c] = "start_woken"
    BY <1>2, SetWakes DEF StartInv
  <2>3. os'[id] # "launch"
    BY <1>1, <2>1
  <2> QED
    BY <1>2, <2>1, <2>2, <2>3 DEF StartInv
<1>7. StopInv'
  BY <1>2, SetWakes DEF StopInv
<1>8. NoneRunsAfterStop' /\ ReleasedInv'
  <2>1. HasLeft(id)' /\ \A j \in Pthread : HasLeft(j) => HasLeft(j)'
    BY <1>1, <1>2, <1>3 DEF ThreadTypeOK, HasLeft
  <2>2. \A c \in Controller : \A j \in 1..joined[c] : j \in Pthread
    BY MaxSpawnAssumption DEF ThreadTypeOK, Pthread
  <2>3. \A c \in Controller : pc'[c] = "stop_relock" => pc[c] = "stop_relock"
    BY <1>2, SetWakes
  <2>4. NoneRunsAfterStop'
    BY <1>2, <2>1, <2>2, <2>3 DEF NoneRunsAfterStop
  <2>5. \A j \in Pthread : released'[j] # 0 => released[j] # 0 \/ j = id
    BY <1>3, ReleaseCounts DEF ThreadTypeOK
  <2>6. state' = "PENDING_JOIN" => id' \in Pthread /\ os'[id'] = "ended"
    BY <1>1, <1>2, <1>3 DEF ThreadTypeOK
  <2> HIDE DEF StopSelf, pthreadDestructor
  <2> QED
    BY <1>2, <2>1, <2>4, <2>5, <2>6 DEF ReleasedInv
<1>9. NoThreadLeak'
  BY <1>2, <1>3, ReleaseCounts DEF ThreadTypeOK, NoThreadLeak
<1> QED
  BY <1>4, <1>5, <1>6, <1>7, <1>8, <1>9

\* The Thread object satisfies the invariant at any time, if it has one starter.
THEOREM ThreadInvariant == ASSUME OneStarter PROVE ThreadSpec => []ThreadInv
<1>1. ThreadInv /\ [ThreadNext]_threadVars => ThreadInv'
  <2> SUFFICES ASSUME ThreadInv, [ThreadNext]_threadVars PROVE ThreadInv'
    OBVIOUS
  <2>1. CASE UNCHANGED threadVars
    BY <2>1 DEF threadVars, ThreadInv, ThreadTypeOK, HistoryInv, RunningInv, StartInv, StopInv,
      ReleasedInv, NoneRunsAfterStop, HasLeft, NoThreadLeak
  <2> QED
    BY <2>1, CreateThreadIInv, DetachIInv, SignalIInv, StopIInv, EnableDestructorIInv,
       MainEndsIInv, ThreadEndsIInv DEF ThreadNext, ControllerNext, PthreadNext
<1> QED
  BY <1>1, ThreadInitInv, PTL DEF ThreadSpec

\* StartThread() returns when the thread has begun; pthread_join() of StopThread() when
\* the thread joined and every earlier one has left Main(), by its end or by stopping
\* itself; and IsRunning() tells which is the case.
THEOREM Promises == ASSUME OneStarter PROVE ThreadSpec => []PromisesKept
<1>1. ThreadInv => PromisesKept
  <2> SUFFICES ASSUME ThreadInv PROVE PromisesKept
    OBVIOUS
  <2>1. StartWaits
    BY DEF ThreadInv, StartInv, StartWaits
  <2>2. RunningIsAccurate
    BY LastThread DEF ThreadInv, ThreadTypeOK, RunningInv, RunningIsAccurate
  <2> QED
    BY <2>1, <2>2 DEF ThreadInv, PromisesKept
<1> QED
  BY <1>1, ThreadInvariant, PTL

\* A Thread object never has two threads in Main(), and each that ended is joined
\* or detached but the last, which is pending.
THEOREM Threads == ASSUME OneStarter PROVE ThreadSpec => []OneThread
<1>1. ThreadInv => OneThread
  BY LastThread DEF ThreadInv, OneThread, OneMain
<1> QED
  BY <1>1, ThreadInvariant, PTL

-----------------------------------------------------------------------------
(* The instrument manager thread: the inductive invariant *)

\* Who is where in a call
ControlInv ==
  /\ victim \in Channel <=> control \in {"removing", "destroy"}
  /\ cancel => control = "stopping"
  /\ caller = "control" => control = "order"

\* A channel that exists and that nobody is removing
Staying(ch) == life[ch] = "alive" /\ ch # victim

\* What the disk thread may be told to load, and what waits in the queue, is for
\* such a channel, or for one that was given up with just that pending.
Usable(ch) == Staying(ch) \/ ch \in stray
PendingInv ==
  /\ \A cmd \in Range(queue) : cmd.ch \in Channel => Usable(cmd.ch)
  /\ \A ch \in programs : Usable(ch)

\* MIDI events get to a channel until it is disconnected.
ConnectedInv ==
  /\ \A ch \in connected : life[ch] = "alive"
  /\ control = "destroy" => victim \notin connected

\* The channel of the load that is under way is locked against its deletion.
LoadInv ==
  worker = "load" =>
    /\ cur \in Command
    /\ cur.ch \in Channel =>
         /\ cur.ch \in lockedChannels
         /\ life[cur.ch] \in {"alive", "zombie"} \/ cur.ch \in stray

ManagerInv == /\ TypeOK /\ ControlInv /\ PendingInv /\ ConnectedInv /\ LoadInv
              /\ NoMissedWakeup /\ NoStaleLock

-----------------------------------------------------------------------------
(* The instrument manager thread: the queue of commands *)

\* The natural numbers are well ordered.  (The library states induction with an
\* operator for the property; the proofs about the queue use sets.)
LEMMA NatSetInduction ==
  ASSUME NEW S, 0 \in S, \A n \in Nat : n \in S => n + 1 \in S
  PROVE  Nat \subseteq S
<1> DEFINE LessThan == {ss \in Nat \X Nat : ss[1] < ss[2]}
<1>1. IsWellFoundedOn(LessThan, Nat)
  BY NatLessThanWellFounded, Zenon DEF OpToRel
<1>2. SUFFICES ASSUME Nat \ S # {} PROVE FALSE
  OBVIOUS
<1>3. PICK n \in Nat \ S : \A m \in Nat \ S : ~ (<<m, n>> \in LessThan)
  <2>1. Nat \ S \subseteq Nat
    OBVIOUS
  <2> HIDE DEF LessThan
  <2> QED
    BY <1>1, <1>2, <2>1, WFMin, Zenon
<1>4. \A m \in Nat \ S : ~ (m < n)
  BY <1>3
<1>5. n - 1 \in Nat
  OBVIOUS
<1> QED
  BY <1>3, <1>4, <1>5

\* The loop that erases a channel's commands leaves commands of the queue only, and
\* none of the channel.
LEMMA WithoutCommandsType ==
  ASSUME NEW T, queue \in Seq(T), NEW ch
  PROVE  WithoutCommandsFor(ch) \in
           Seq({queue[i] : i \in {j \in 1..Len(queue) : queue[j].ch # ch}})
<1> DEFINE Kept == {queue[i] : i \in {j \in 1..Len(queue) : queue[j].ch # ch}}
           Rec(g, n) == g = [i \in 0..n |->
             IF i = 0 THEN <<>>
             ELSE IF queue[i].ch # ch THEN Append(g[i - 1], queue[i]) ELSE g[i - 1]]
           Defined == {n \in Nat : \E g : Rec(g, n)}
<1>1. Len(queue) \in Nat
  OBVIOUS
<1>2. Nat \subseteq Defined
  <2>1. 0 \in Defined
    <3>1. Rec([i \in 0..0 |-> <<>>], 0)
      OBVIOUS
    <3> QED
      BY <3>1
  <2>2. ASSUME NEW n \in Nat, n \in Defined PROVE n + 1 \in Defined
    <3>1. PICK g : Rec(g, n)
      BY <2>2
    <3> DEFINE h == [i \in 0..n + 1 |->
                 IF i <= n THEN g[i]
                 ELSE IF queue[i].ch # ch THEN Append(g[i - 1], queue[i]) ELSE g[i - 1]]
    <3>2. \A i \in 0..n + 1 : i # 0 => i - 1 \in 0..n /\ h[i - 1] = g[i - 1]
      OBVIOUS
    <3>3. \A i \in 0..n + 1 :
            h[i] = IF i = 0 THEN <<>>
                   ELSE IF queue[i].ch # ch THEN Append(h[i - 1], queue[i]) ELSE h[i - 1]
      <4> SUFFICES ASSUME NEW i \in 0..n + 1
                   PROVE  h[i] = IF i = 0 THEN <<>>
                            ELSE IF queue[i].ch # ch THEN Append(h[i - 1], queue[i])
                            ELSE h[i - 1]
        OBVIOUS
      <4>1. CASE i \in 0..n
        <5>1. h[i] = g[i]
          BY <4>1
        <5>2. g[i] = IF i = 0 THEN <<>>
                     ELSE IF queue[i].ch # ch THEN Append(g[i - 1], queue[i]) ELSE g[i - 1]
          BY <3>1, <4>1
        <5> HIDE DEF h, Rec
        <5> QED
          BY <5>1, <5>2, <3>2
      <4>2. CASE i = n + 1
        <5>1. h[i] = IF queue[i].ch # ch THEN Append(g[i - 1], queue[i]) ELSE g[i - 1]
          BY <4>2
        <5> HIDE DEF h, Rec
        <5> QED
          BY <5>1, <3>2, <4>2
      <4> QED
        BY <4>1, <4>2
    <3>4. Rec(h, n + 1)
      BY <3>3
    <3> HIDE DEF h, Rec
    <3> QED
      BY <3>4
  <2> HIDE DEF Defined
  <2> QED
    BY <2>1, <2>2, NatSetInduction
<1> DEFINE kept == CHOOSE g : Rec(g, Len(queue))
<1>3. Rec(kept, Len(queue))
  <2>1. \E g : Rec(g, Len(queue))
    BY <1>1, <1>2
  <2> HIDE DEF Rec
  <2> QED
    BY <2>1, Zenon
<1>4. WithoutCommandsFor(ch) = kept[Len(queue)]
  BY Zenon DEF WithoutCommandsFor
<1> HIDE DEF kept
<1> DEFINE Typed == {n \in Nat : n <= Len(queue) => kept[n] \in Seq(Kept)}
<1>5. Nat \subseteq Typed
  <2>1. 0 \in Typed
    BY <1>1, <1>3
  <2>2. ASSUME NEW n \in Nat, n \in Typed PROVE n + 1 \in Typed
    <3> SUFFICES ASSUME n + 1 <= Len(queue) PROVE kept[n + 1] \in Seq(Kept)
      OBVIOUS
    <3>1. kept[n] \in Seq(Kept) /\ n + 1 \in 1..Len(queue)
      BY <1>1, <2>2
    <3>2. kept[n + 1] = IF queue[n + 1].ch # ch THEN Append(kept[n], queue[n + 1]) ELSE kept[n]
      <4>1. n + 1 \in 0..Len(queue) /\ n + 1 # 0 /\ (n + 1) - 1 = n
        BY <3>1
      <4>2. \A i \in 0..Len(queue) : i # 0 =>
              kept[i] = IF queue[i].ch # ch THEN Append(kept[i - 1], queue[i]) ELSE kept[i - 1]
        BY <1>3
      <4> QED
        BY <4>1, <4>2
    <3>3. queue[n + 1].ch # ch => queue[n + 1] \in Kept
      BY <3>1
    <3> HIDE DEF Kept
    <3> QED
      BY <3>1, <3>2, <3>3
  <2> HIDE DEF Typed
  <2> QED
    BY <2>1, <2>2, NatSetInduction
<1> QED
  BY <1>1, <1>4, <1>5

\* What Append1() and Take do to the commands in the queue
LEMMA QueueRange ==
  ASSUME NEW S, NEW q \in Seq(S)
  PROVE  /\ \A i \in 1..Len(q) : q[i] \in Range(q)
         /\ Range(q) \subseteq S
         /\ \A e : Range(Append(q, e)) \subseteq Range(q) \cup {e}
         /\ q # <<>> => Head(q) \in Range(q) /\ Tail(q) \in Seq(S) /\ Range(Tail(q)) \subseteq Range(q)
<1> USE DEF Range
<1>1. DOMAIN q = 1..Len(q) /\ Len(q) \in Nat
  OBVIOUS
<1>2. \A e : Range(Append(q, e)) \subseteq Range(q) \cup {e}
  <2> TAKE e
  <2>1. /\ DOMAIN Append(q, e) = 1..Len(q) + 1
        /\ \A i \in 1..Len(q) + 1 : Append(q, e)[i] = IF i <= Len(q) THEN q[i] ELSE e
    OBVIOUS
  <2> QED
    BY <1>1, <2>1
<1>3. q # <<>> => Head(q) \in Range(q) /\ Tail(q) \in Seq(S) /\ Range(Tail(q)) \subseteq Range(q)
  <2> SUFFICES ASSUME q # <<>>
               PROVE  Head(q) \in Range(q) /\ Tail(q) \in Seq(S) /\ Range(Tail(q)) \subseteq Range(q)
    OBVIOUS
  <2>1. 1 \in 1..Len(q) /\ Head(q) = q[1] /\ Tail(q) \in Seq(S)
    OBVIOUS
  <2>2. /\ DOMAIN Tail(q) = 1..Len(q) - 1
        /\ \A i \in 1..Len(q) - 1 : Tail(q)[i] = q[i + 1] /\ i + 1 \in 1..Len(q)
    OBVIOUS
  <2> QED
    BY <1>1, <2>1, <2>2
<1> QED
  BY <1>1, <1>2, <1>3

\* What ChannelToBeRemoved() does to them
LEMMA WithoutCommandsRange ==
  ASSUME NEW S, queue \in Seq(S), NEW ch
  PROVE  /\ WithoutCommandsFor(ch) \in Seq(S)
         /\ Range(WithoutCommandsFor(ch)) \subseteq {cmd \in Range(queue) : cmd.ch # ch}
         /\ queue = <<>> => WithoutCommandsFor(ch) = <<>>
<1> DEFINE Kept == {queue[i] : i \in {j \in 1..Len(queue) : queue[j].ch # ch}}
<1>1. WithoutCommandsFor(ch) \in Seq(Kept)
  BY WithoutCommandsType
<1>2. Kept \subseteq S /\ Kept \subseteq {cmd \in Range(queue) : cmd.ch # ch}
  BY QueueRange
<1>3. queue = <<>> => Kept = {}
  OBVIOUS
<1>4. Range(WithoutCommandsFor(ch)) \subseteq Kept
  BY <1>1, QueueRange
<1>5. WithoutCommandsFor(ch) \in Seq(S)
  <2> HIDE DEF Kept
  <2> QED
    BY <1>1, <1>2, SeqMonotonic
<1>6. queue = <<>> => WithoutCommandsFor(ch) = <<>>
  <2> HIDE DEF Kept
  <2> SUFFICES ASSUME Kept = {}, WithoutCommandsFor(ch) # <<>> PROVE FALSE
    BY <1>3
  <2>1. Head(WithoutCommandsFor(ch)) \in Kept
    BY <1>1
  <2> QED
    BY <2>1
<1> QED
  BY <1>2, <1>4, <1>5, <1>6

-----------------------------------------------------------------------------
(* The instrument manager thread: the invariant is inductive *)

\* At the start of the program the invariant holds.
LEMMA ManagerInitInv == Init => ManagerInv
<1> SUFFICES ASSUME Init PROVE ManagerInv
  OBVIOUS
<1> USE NoChannelAssumption, MaxRequestsAssumption DEF Init
<1>1. TypeOK
  <2>1. queue \in Seq(Command) /\ requested \in 0..MaxRequests /\ finished \subseteq 1..MaxRequests
    OBVIOUS
  <2>2. jobsLeft \in BOOLEAN /\ cancel \in BOOLEAN
    OBVIOUS
  <2>3. life \in [Channel -> {"unborn", "alive", "zombie", "deleted"}]
    OBVIOUS
  <2> QED
    BY <2>1, <2>2, <2>3 DEF TypeOK
<1>2. PendingInv
  BY DEF PendingInv, Range
<1>3. ControlInv /\ ConnectedInv /\ LoadInv /\ NoMissedWakeup /\ NoStaleLock
  BY DEF ControlInv, ConnectedInv, LoadInv, NoMissedWakeup, NoStaleLock
<1> QED
  BY <1>1, <1>2, <1>3 DEF ManagerInv

\* A new engine channel has nothing pending.
LEMMA CreateIInv ==
  ASSUME ManagerInv, NEW ch \in Channel, Create(ch)
  PROVE  ManagerInv'
<1> USE DEF ManagerInv, Create, thread, order
<1>1. TypeOK'
  BY DEF TypeOK
<1>2. \A c \in Channel : (life[c] = "alive" => life'[c] = "alive") /\ (c # ch => life'[c] = life[c])
  <2>1. life' = [life EXCEPT ![ch] = "alive"] /\ DOMAIN life = Channel
    BY DEF TypeOK
  <2> HIDE DEF ManagerInv, Create
  <2> QED
    BY <2>1
<1>3. PendingInv'
  BY <1>2 DEF TypeOK, PendingInv, Usable, Staying
<1>4. ControlInv' /\ ConnectedInv' /\ NoMissedWakeup' /\ NoStaleLock'
  BY <1>2 DEF TypeOK, ControlInv, ConnectedInv, NoMissedWakeup, NoStaleLock
<1>5. LoadInv'
  BY <1>2 DEF TypeOK, LoadInv
<1> QED
  BY <1>1, <1>3, <1>4, <1>5

\* A command that is ordered is for a channel that exists and stays for now.
LEMMA Append1Range ==
  ASSUME TypeOK, NEW ch \in Channel \cup {NoChannel}, Append1(ch)
  PROVE  /\ queue' \in Seq(Command) /\ requested' \in 0..MaxRequests
         /\ \A cmd \in Range(queue') : cmd \in Range(queue) \/ cmd.ch = ch
<1> USE MaxRequestsAssumption DEF TypeOK, Append1
<1> DEFINE new == [n |-> requested + 1, ch |-> ch]
<1>1. requested + 1 \in 1..MaxRequests /\ requested' \in 0..MaxRequests
  OBVIOUS
<1>2. new \in Command /\ new.ch = ch
  BY <1>1 DEF Command
<1>3. queue' = Append(queue, new) /\ queue \in Seq(Command)
  OBVIOUS
<1> HIDE DEF new, TypeOK, Append1
<1>4. queue' \in Seq(Command)
  BY <1>2, <1>3
<1>5. Range(queue') \subseteq Range(queue) \cup {new}
  BY <1>3, QueueRange
<1> QED
  BY <1>1, <1>2, <1>4, <1>5

\* The control thread and the disk thread order loads.
LEMMA OrderIInv ==
  ASSUME ManagerInv, NEW ch \in Channel \cup {NoChannel},
         OrderByControl(ch) \/ (ch \in Channel /\ OrderByDisk(ch))
  PROVE  ManagerInv'
<1> USE NoChannelAssumption DEF ManagerInv, OrderByControl, OrderByDisk, thread, owned
<1>1. Append1(ch)
  OBVIOUS
<1>2. TypeOK'
  BY <1>1, Append1Range DEF TypeOK
<1>3. ch \in Channel => Usable(ch)
  BY DEF ControlInv, PendingInv, Usable, Staying
<1>4. PendingInv'
  <2>1. \A cmd \in Range(queue') : cmd \in Range(queue) \/ cmd.ch = ch
    BY <1>1, Append1Range
  <2>2. UNCHANGED <<life, victim>> /\ programs' \subseteq programs
    OBVIOUS
  <2> QED
    BY <1>3, <2>1, <2>2 DEF PendingInv, Usable, Staying
<1>5. ControlInv'
  BY DEF ControlInv
<1>6. ConnectedInv' /\ LoadInv' /\ NoMissedWakeup' /\ NoStaleLock'
  BY DEF ControlInv, ConnectedInv, LoadInv, NoMissedWakeup, NoStaleLock
<1> QED
  BY <1>2, <1>4, <1>5, <1>6

\* A program change arrives for a channel that has a port: if the channel is on its
\* way out, the program change strays.
LEMMA SendProgramChangeIInv ==
  ASSUME ManagerInv, NEW ch \in Channel, SendProgramChange(ch)
  PROVE  ManagerInv'
<1> USE DEF ManagerInv, SendProgramChange, thread, order
<1>1. TypeOK'
  BY DEF TypeOK
<1>2. Usable(ch)'
  BY DEF ConnectedInv, Usable, Staying
<1>3. PendingInv'
  BY <1>2 DEF PendingInv, Usable, Staying
<1>4. ControlInv' /\ ConnectedInv' /\ LoadInv' /\ NoMissedWakeup' /\ NoStaleLock'
  BY DEF ControlInv, ConnectedInv, LoadInv, NoMissedWakeup, NoStaleLock
<1> QED
  BY <1>1, <1>3, <1>4

\* The caller starts the thread, or wakes it.
LEMMA StartWakeIInv == ManagerInv /\ (Start \/ Wake) => ManagerInv'
<1> SUFFICES ASSUME ManagerInv, Start \/ Wake PROVE ManagerInv'
  OBVIOUS
<1> USE DEF ManagerInv, Start, Wake, owned, thread
<1>1. UNCHANGED <<queue, requested, finished, cur, cancel, victim, life, connected, programs,
                  lockedChannels, stray>>
  OBVIOUS
<1>2. TypeOK'
  BY <1>1 DEF TypeOK
<1>3. ControlInv'
  BY <1>1 DEF TypeOK, ControlInv
<1>4. PendingInv'
  BY <1>1 DEF PendingInv, Usable, Staying
<1>5. ConnectedInv'
  BY <1>1 DEF TypeOK, ControlInv, ConnectedInv
<1>6. LoadInv' /\ NoStaleLock'
  BY <1>1 DEF TypeOK, LoadInv, NoStaleLock
<1>7. NoMissedWakeup'
  BY <1>1 DEF NoMissedWakeup
<1> QED
  BY <1>2, <1>3, <1>4, <1>5, <1>6, <1>7

\* The control thread begins to remove a channel: what is still pending for it strays.
LEMMA RemoveIInv ==
  ASSUME ManagerInv, NEW ch \in Channel, ChannelToBeRemoved(ch) \/ SetEngineType(ch)
  PROVE  ManagerInv'
<1> USE DEF ManagerInv, ChannelToBeRemoved, SetEngineType, thread, order
<1>1. /\ queue' \in Seq(Command)
      /\ Range(queue') \subseteq {cmd \in Range(queue) : cmd.ch # ch \/ ch \in stray'}
      /\ queue = <<>> => queue' = <<>>
  <2>1. CASE ChannelToBeRemoved(ch)
    BY <2>1, WithoutCommandsRange DEF TypeOK
  <2>2. CASE SetEngineType(ch)
    <3>1. ch \notin stray' => \A i \in 1..Len(queue) : queue[i].ch # ch
      BY <2>2 DEF CommandsFor
    <3>2. ch \notin stray' => \A cmd \in Range(queue) : cmd.ch # ch
      BY <3>1 DEF TypeOK, Range
    <3> QED
      BY <2>2, <3>2 DEF TypeOK
  <2> QED
    BY <2>1, <2>2
<1>2. TypeOK'
  <2>1. finished' \subseteq 1..MaxRequests
    <3>1. \A i \in 1..Len(queue) : queue[i] \in Command
      BY DEF TypeOK
    <3>2. \A i \in CommandsFor(ch) : queue[i].n \in 1..MaxRequests
      BY <3>1 DEF CommandsFor, Command
    <3>3. finished' = finished \/ finished' = finished \cup {queue[i].n : i \in CommandsFor(ch)}
      OBVIOUS
    <3>4. finished \subseteq 1..MaxRequests
      BY DEF TypeOK
    <3> HIDE DEF ManagerInv, ChannelToBeRemoved, SetEngineType
    <3> QED
      BY <3>2, <3>3, <3>4
  <2> QED
    BY <1>1, <2>1 DEF TypeOK
<1>3. /\ control = "idle" /\ victim \notin Channel
      /\ stray \subseteq stray' /\ (ch \in programs => ch \in stray')
  BY DEF ControlInv
<1>4. PendingInv'
  BY <1>1, <1>3 DEF PendingInv, Usable, Staying
<1>5. ControlInv' /\ ConnectedInv' /\ LoadInv' /\ NoStaleLock'
  BY <1>3 DEF ControlInv, ConnectedInv, LoadInv, NoStaleLock
<1>6. NoMissedWakeup'
  BY <1>1 DEF NoMissedWakeup
<1> QED
  BY <1>1, <1>2, <1>4, <1>5, <1>6

\* The channel is cut off from its ports, and then deleted or left to the thread.
LEMMA DestroyIInv == ManagerInv /\ (Disconnect \/ Destroy) => ManagerInv'
<1> SUFFICES ASSUME ManagerInv, Disconnect \/ Destroy PROVE ManagerInv'
  OBVIOUS
<1> USE NoChannelAssumption DEF ManagerInv, Disconnect, Destroy, thread, order
<1>1. TypeOK'
  BY DEF TypeOK
<1>2. victim \in Channel /\ \A ch \in Channel : ch # victim => life'[ch] = life[ch]
  BY DEF TypeOK, ControlInv
<1>3. PendingInv'
  <2>1. \A ch \in Channel : Usable(ch) => Usable(ch)'
    BY <1>2 DEF Usable, Staying
  <2> QED
    BY <2>1 DEF TypeOK, PendingInv
<1>4. ControlInv'
  BY <1>2 DEF ControlInv
<1>5. ConnectedInv'
  BY <1>2 DEF TypeOK, ConnectedInv
<1>6. LoadInv'
  BY <1>2 DEF TypeOK, LoadInv
<1>7. NoMissedWakeup' /\ NoStaleLock'
  BY DEF NoMissedWakeup, NoStaleLock
<1> QED
  BY <1>1, <1>3, <1>4, <1>5, <1>6, <1>7

\* StopThread() cancels the thread, which honours that outside of a load.
LEMMA CancelIInv == ManagerInv /\ (StopThread \/ Cancelled) => ManagerInv'
<1> SUFFICES ASSUME ManagerInv, StopThread \/ Cancelled PROVE ManagerInv'
  OBVIOUS
<1> USE DEF ManagerInv, StopThread, Cancelled, order, owned
<1>1. TypeOK'
  BY DEF TypeOK
<1>2. PendingInv'
  BY DEF PendingInv, Usable, Staying
<1>3. ControlInv'
  BY DEF TypeOK, ControlInv
<1>4. ConnectedInv' /\ LoadInv' /\ NoMissedWakeup' /\ NoStaleLock'
  BY DEF ConnectedInv, LoadInv, NoMissedWakeup, NoStaleLock
<1> QED
  BY <1>1, <1>2, <1>3, <1>4

\* The loop of the thread between two loads
LEMMA LoopIInv == ManagerInv /\ (PushCancelable \/ PopCancelable \/ Reset) => ManagerInv'
<1> SUFFICES ASSUME ManagerInv, PushCancelable \/ PopCancelable \/ Reset PROVE ManagerInv'
  OBVIOUS
<1> USE DEF ManagerInv, PushCancelable, PopCancelable, Reset, order, owned
<1>1. TypeOK'
  BY DEF TypeOK
<1>2. PendingInv'
  BY DEF PendingInv, Usable, Staying
<1>3. ControlInv' /\ ConnectedInv' /\ LoadInv' /\ NoMissedWakeup' /\ NoStaleLock'
  BY DEF ControlInv, ConnectedInv, LoadInv, NoMissedWakeup, NoStaleLock
<1> QED
  BY <1>1, <1>2, <1>3

\* The thread takes a command and locks its channel in one step.
LEMMA TakeIInv == ManagerInv /\ Take => ManagerInv'
<1> SUFFICES ASSUME ManagerInv, Take PROVE ManagerInv'
  OBVIOUS
<1> USE DEF ManagerInv, Take, order
<1>1. queue \in Seq(Command) /\ queue # <<>>
  BY DEF TypeOK
<1>2. /\ queue' \in Seq(Command) /\ Range(queue') \subseteq Range(queue)
      /\ cur' \in Range(queue) /\ cur' \in Command
  BY <1>1, QueueRange
<1>3. lockedChannels = {}
  BY DEF TypeOK, NoStaleLock
<1>4. lockedChannels' = {cur'.ch} \cap Channel
  BY <1>3
<1>5. TypeOK'
  BY <1>2, <1>4 DEF TypeOK
<1>6. PendingInv'
  BY <1>2 DEF PendingInv, Usable, Staying
<1>7. LoadInv'
  BY <1>2, <1>4 DEF PendingInv, Usable, Staying, LoadInv
<1>8. NoStaleLock'
  BY <1>4 DEF NoStaleLock
<1>9. ControlInv' /\ ConnectedInv' /\ NoMissedWakeup'
  BY DEF ControlInv, ConnectedInv, NoMissedWakeup
<1> QED
  BY <1>5, <1>6, <1>7, <1>8, <1>9

\* However the load ends, the channel is unlocked, and deleted if that was postponed.
LEMMA LoadedIInv == ManagerInv /\ (Loaded \/ LoadFails) => ManagerInv'
<1> SUFFICES ASSUME ManagerInv, Loaded \/ LoadFails PROVE ManagerInv'
  OBVIOUS
<1> USE DEF ManagerInv, Loaded, LoadFails, EnableDelete, order
<1>1. cur \in Command /\ cur.n \in 1..MaxRequests /\ cur.ch \in Channel \cup {NoChannel}
  BY DEF LoadInv, Command
<1>2. lockedChannels' = {}
  BY DEF TypeOK, NoStaleLock
<1>3. TypeOK'
  BY <1>1, <1>2 DEF TypeOK
<1>4. \A ch \in Channel : life[ch] = "alive" => life'[ch] = "alive"
  BY DEF TypeOK
<1>5. PendingInv'
  <2>1. \A ch \in Channel : Usable(ch) => Usable(ch)'
    BY <1>4 DEF Usable, Staying
  <2> QED
    BY <2>1 DEF TypeOK, PendingInv
<1>6. ConnectedInv'
  BY <1>4 DEF TypeOK, ConnectedInv
<1>7. ControlInv' /\ LoadInv' /\ NoMissedWakeup' /\ NoStaleLock'
  BY <1>2 DEF ControlInv, LoadInv, NoMissedWakeup, NoStaleLock
<1> QED
  BY <1>3, <1>5, <1>6, <1>7

\* Queue, thread, factory and their users satisfy the invariant at any time.
THEOREM ManagerInvariant == Spec => []ManagerInv
<1>1. ManagerInv /\ [Next]_vars => ManagerInv'
  <2> SUFFICES ASSUME ManagerInv, [Next]_vars PROVE ManagerInv'
    OBVIOUS
  <2>1. CASE UNCHANGED vars
    BY <2>1 DEF vars, ManagerInv, TypeOK, ControlInv, PendingInv, Usable, Staying, ConnectedInv, LoadInv,
      NoMissedWakeup, NoStaleLock
  <2> QED
    BY <2>1, CreateIInv, OrderIInv, SendProgramChangeIInv, StartWakeIInv, RemoveIInv,
       DestroyIInv, CancelIInv, LoopIInv, TakeIInv, LoadedIInv DEF Next, ControlNext, Main
<1> QED
  BY <1>1, ManagerInitInv, PTL DEF Spec

\* InstrumentManagerThread executes or keeps a command for an engine channel that is
\* gone only if the channel was given up with the command, or a program change,
\* pending; it never sleeps through a command, and leaves no channel locked.
THEOREM Commands == Spec => []SafeCommands
<1>1. ManagerInv => SafeCommands
  <2> SUFFICES ASSUME ManagerInv PROVE SafeCommands
    OBVIOUS
  <2>1. \A i \in 1..Len(queue) : queue[i] \in Range(queue)
    BY QueueRange DEF ManagerInv, TypeOK
  <2>2. NoOrphanedPointer
    BY <2>1 DEF ManagerInv, PendingInv, Usable, Staying, LoadInv, NoOrphanedPointer
  <2> QED
    BY <2>2 DEF ManagerInv, SafeCommands
<1> QED
  BY <1>1, ManagerInvariant, PTL

-----------------------------------------------------------------------------
(* The condition server: the inductive invariant *)

\* The thread has passed PushMutex.Lock() more often than PushMutex.Unlock().
Inside(t) == depth[t] > 0 \/ npc[t] \in {"switch", "wait", "unlock"}

\* PushMutex belongs to the thread that is inside, if any.
OwnerInv == /\ \A t \in Thread : Inside(t) => owner = t
            /\ owner \in Thread => Inside(owner)

\* DisableAndLock() has locked the mutex and not returned.
Entering(t) == npc[t] \in {"switch", "wait"} /\ arg[t]

\* The mutex is locked once for each DisableAndLock() that is not undone.
CountInv ==
  /\ owner = NoThread => count = 0
  /\ \A t \in Thread : owner = t => count = depth[t] + (IF Entering(t) THEN 1 ELSE 0)

\* Only DisableAndLock() locks, and only the outermost levels' Enable() unlocks.
CallInv ==
  \A t \in Thread :
    /\ npc[t] = "lock" => arg[t]
    /\ npc[t] \in {"lock", "switch", "wait"} /\ arg[t] => depth[t] < MaxDepth
    /\ npc[t] \in {"switch", "wait"} /\ ~ arg[t] => depth[t] > 0
    /\ npc[t] = "unlock" => ~ arg[t] /\ depth[t] > 0

\* The condition is what the owner of the mutex published last.
ConditionInv ==
  /\ \A t \in Thread : \/ npc[t] \in {"wait", "unlock"}
                       \/ npc[t] = "free" /\ depth[t] > 0
                       => Condition = arg[t]
  /\ owner = NoThread => ~ Condition

\* What RenderAudio() finds when it pops the condition now.
Current == IF Condition THEN "disabled" ELSE "render"

\* The switch waits for a RenderAudio() that popped the previous condition, and
\* nobody waits for one that has ended.
RegionInv ==
  /\ oldRegion => rpc # "out"
  /\ \A t \in Thread : npc[t] = "wait" /\ ~ oldRegion => rpc \in {"out", Current}

ServerInv == ServerTypeOK /\ OwnerInv /\ CountInv /\ CallInv /\ ConditionInv /\ RegionInv /\ QuietEngine

-----------------------------------------------------------------------------
(* The condition server: the invariant is inductive *)

\* A new ConditionServer satisfies the invariant.
LEMMA ServerInitInv == ServerInit => ServerInv
<1> SUFFICES ASSUME ServerInit PROVE ServerInv
  OBVIOUS
<1> USE NoThreadAssumption, MaxDepthAssumption DEF ServerInit
<1>1. ServerTypeOK
  <2>1. arg \in [Thread -> BOOLEAN]
    BY Zenon
  <2>2. depth \in [Thread -> 0..MaxDepth] /\ count \in 0..MaxDepth
    OBVIOUS
  <2> QED
    BY <2>1, <2>2 DEF ServerTypeOK
<1>2. OwnerInv /\ CallInv /\ CountInv
  BY DEF OwnerInv, Inside, CallInv, CountInv
<1>3. ConditionInv /\ RegionInv /\ QuietEngine
  BY DEF ConditionInv, RegionInv, QuietEngine, InCriticalSection
<1> QED
  BY <1>1, <1>2, <1>3 DEF ServerInv

\* PushMutex excludes: two threads that are inside of it are the same thread.
LEMMA InsideExcludes ==
  ASSUME OwnerInv, NEW t \in Thread, NEW u \in Thread, Inside(t), Inside(u)
  PROVE  t = u
  BY DEF OwnerInv

\* DisableAndLock() begins without any effect on the others.
LEMMA DisableAndLockIInv ==
  ASSUME ServerInv, NEW t \in Thread, DisableAndLock(t)
  PROVE  ServerInv'
<1> USE DEF ServerInv, ServerTypeOK, DisableAndLock
<1>1. ServerTypeOK'
  OBVIOUS
<1>2. \A u \in Thread : Inside(u)' = Inside(u) /\ Entering(u)' = Entering(u)
  BY DEF Inside, Entering
<1>3. OwnerInv' /\ CountInv'
  BY <1>2 DEF OwnerInv, CountInv
<1>4. CallInv' /\ ConditionInv' /\ RegionInv'
  BY DEF CallInv, ConditionInv, RegionInv, Current
<1>5. QuietEngine'
  BY DEF QuietEngine, InCriticalSection
<1> QED
  BY <1>1, <1>3, <1>4, <1>5

\* PushMutex.Lock() makes the thread the owner, or the owner's count greater.
LEMMA LockPushMutexIInv ==
  ASSUME ServerInv, NEW t \in Thread, LockPushMutex(t)
  PROVE  ServerInv'
<1> USE NoThreadAssumption, MaxDepthAssumption DEF ServerInv, ServerTypeOK, LockPushMutex
<1>1. arg[t] /\ depth[t] < MaxDepth
  BY DEF CallInv
<1>2. count = depth[t]
  <2>1. CASE owner = t
    BY <2>1 DEF CountInv, Entering
  <2>2. CASE owner = NoThread
    BY <2>2 DEF CountInv, OwnerInv, Inside
  <2> QED
    BY <2>1, <2>2
<1>3. ServerTypeOK'
  BY <1>1, <1>2
<1>4. \A u \in Thread \ {t} : ~ Inside(u) /\ ~ Inside(u)'
  BY DEF OwnerInv, Inside
<1>5. OwnerInv'
  BY <1>4 DEF OwnerInv, Inside
<1>6. CountInv'
  BY <1>1, <1>2 DEF CountInv, Entering
<1>7. CallInv' /\ ConditionInv' /\ RegionInv'
  BY DEF CallInv, ConditionInv, RegionInv, Current
<1>8. QuietEngine'
  BY DEF QuietEngine, InCriticalSection
<1> QED
  BY <1>3, <1>5, <1>6, <1>7, <1>8

\* Enable() is called by the thread inside, which keeps the mutex.
LEMMA EnableIInv ==
  ASSUME ServerInv, NEW t \in Thread, Enable(t)
  PROVE  ServerInv'
<1> USE DEF ServerInv, ServerTypeOK, Enable
<1>1. ServerTypeOK'
  OBVIOUS
<1>2. \A u \in Thread : Inside(u)' = Inside(u) /\ Entering(u)' = Entering(u)
  BY DEF Inside, Entering
<1>3. OwnerInv' /\ CountInv'
  BY <1>2 DEF OwnerInv, CountInv
<1>4. CallInv' /\ ConditionInv' /\ RegionInv'
  BY DEF CallInv, ConditionInv, RegionInv, Current
<1>5. QuietEngine'
  BY DEF QuietEngine, InCriticalSection
<1> QED
  BY <1>1, <1>3, <1>4, <1>5

\* The index store of SwitchConfig(): only the owner of the mutex publishes.
LEMMA PublishIInv ==
  ASSUME ServerInv, NEW t \in Thread, Publish(t)
  PROVE  ServerInv'
<1> USE NoThreadAssumption DEF ServerInv, ServerTypeOK, Publish
<1>1. ServerTypeOK'
  OBVIOUS
<1>2. \A u \in Thread : Inside(u)' = Inside(u) /\ Entering(u)' = Entering(u)
  BY DEF Inside, Entering
<1>3. OwnerInv' /\ CountInv' /\ CallInv'
  BY <1>2 DEF OwnerInv, CountInv, CallInv
<1>4. owner = t /\ \A u \in Thread \ {t} : ~ Inside(u) /\ ~ Inside(u)'
  BY <1>2 DEF OwnerInv, Inside
<1>5. ConditionInv'
  BY <1>4 DEF ConditionInv, Inside
<1>6. RegionInv'
  BY <1>4 DEF RegionInv, Inside, Current
<1>7. QuietEngine'
  BY <1>4 DEF QuietEngine, InCriticalSection, Inside
<1> QED
  BY <1>1, <1>3, <1>5, <1>6, <1>7

\* When SwitchConfig() returns true to DisableAndLock(), nothing is rendered.
LEMMA SwitchConfigReturnsIInv ==
  ASSUME ServerInv, NEW t \in Thread, SwitchConfigReturns(t)
  PROVE  ServerInv'
<1> USE NoThreadAssumption DEF ServerInv, ServerTypeOK, SwitchConfigReturns
<1>1. arg[t] => depth[t] < MaxDepth
  BY DEF CallInv
<1>2. ServerTypeOK'
  <2>1. arg[t] => depth[t] + 1 \in 0..MaxDepth
    BY <1>1, MaxDepthAssumption
  <2>2. depth' \in [Thread -> 0..MaxDepth]
    BY <2>1
  <2> QED
    BY <2>2
<1>3. owner = t /\ Condition = arg[t] /\ rpc \in {"out", Current}
  BY DEF OwnerInv, Inside, ConditionInv, RegionInv
<1>4. Inside(t)' /\ \A u \in Thread \ {t} : Inside(u)' = Inside(u)
  BY DEF Inside, CallInv
<1>5. OwnerInv'
  BY <1>3, <1>4 DEF OwnerInv
<1>6. CountInv'
  BY <1>3 DEF CountInv, Entering
<1>7. CallInv'
  BY DEF CallInv
<1>8. ConditionInv' /\ RegionInv'
  BY <1>3 DEF ConditionInv, RegionInv, Current
<1>9. QuietEngine'
  BY <1>3 DEF QuietEngine, InCriticalSection, Current
<1> QED
  BY <1>2, <1>5, <1>6, <1>7, <1>8, <1>9

\* PushMutex.Unlock() frees the mutex when the outermost section is left.
LEMMA UnlockPushMutexIInv ==
  ASSUME ServerInv, NEW t \in Thread, UnlockPushMutex(t)
  PROVE  ServerInv'
<1> USE NoThreadAssumption DEF ServerInv, ServerTypeOK, UnlockPushMutex
<1>1. owner = t /\ count = depth[t] /\ depth[t] > 0 /\ ~ arg[t] /\ ~ Condition
  BY DEF OwnerInv, Inside, CountInv, Entering, CallInv, ConditionInv
<1>2. ServerTypeOK'
  <2>1. depth[t] - 1 \in 0..MaxDepth /\ count - 1 \in 0..MaxDepth
    BY <1>1, MaxDepthAssumption
  <2>2. depth' \in [Thread -> 0..MaxDepth]
    BY <2>1
  <2> QED
    BY <2>1, <2>2
<1>3. \A u \in Thread \ {t} : ~ Inside(u) /\ ~ Inside(u)'
  BY <1>1 DEF OwnerInv, Inside
<1>4. Inside(t)' <=> count # 1
  BY <1>1 DEF Inside
<1>5. OwnerInv'
  BY <1>1, <1>3, <1>4 DEF OwnerInv
<1>6. CountInv'
  BY <1>1 DEF CountInv, Entering
<1>7. CallInv' /\ ConditionInv' /\ RegionInv'
  BY <1>1 DEF CallInv, ConditionInv, RegionInv, Current
<1>8. QuietEngine'
  BY <1>1 DEF QuietEngine, InCriticalSection
<1> QED
  BY <1>2, <1>5, <1>6, <1>7, <1>8

\* RenderAudio() pops the condition that is published, and leaves its region.
LEMMA RenderAudioIInv == ServerInv /\ (Pop \/ RttDone) => ServerInv'
<1> SUFFICES ASSUME ServerInv, Pop \/ RttDone PROVE ServerInv'
  OBVIOUS
<1> USE DEF ServerInv, ServerTypeOK, Pop, RttDone
<1>1. ServerTypeOK'
  OBVIOUS
<1>2. OwnerInv' /\ CountInv' /\ CallInv' /\ ConditionInv'
  BY DEF OwnerInv, Inside, CountInv, Entering, CallInv, ConditionInv
<1>3. RegionInv'
  BY DEF RegionInv, Current
<1>4. QuietEngine'
  BY DEF QuietEngine, InCriticalSection, ConditionInv
<1> QED
  BY <1>1, <1>2, <1>3, <1>4

\* The state of ConditionServer and its users satisfies the invariant at any time.
THEOREM ServerInvariant == ServerSpec => []ServerInv
<1>1. ServerInv /\ [ServerNext]_serverVars => ServerInv'
  <2> SUFFICES ASSUME ServerInv, [ServerNext]_serverVars PROVE ServerInv'
    OBVIOUS
  <2>1. CASE UNCHANGED serverVars
    BY <2>1 DEF serverVars, ServerInv, ServerTypeOK, OwnerInv, Inside, CountInv, Entering, CallInv, ConditionInv,
      RegionInv, Current, QuietEngine, InCriticalSection
  <2> QED
    BY <2>1, DisableAndLockIInv, LockPushMutexIInv, EnableIInv, PublishIInv,
       SwitchConfigReturnsIInv, UnlockPushMutexIInv, RenderAudioIInv DEF ServerNext, Nrtt
<1> QED
  BY <1>1, ServerInitInv, PTL DEF ServerSpec

\* Between DisableAndLock() and Enable() RenderAudio() touches nothing, one thread
\* is there, and afterwards the engine is enabled and PushMutex free.
THEOREM Disabling == ServerSpec => []SafeDisabling
<1>1. ServerInv => SafeDisabling
  <2> SUFFICES ASSUME ServerInv PROVE SafeDisabling
    OBVIOUS
  <2>1. OneDisabler
    BY InsideExcludes DEF ServerInv, OneDisabler, Inside
  <2>2. LeftEnabled
    BY DEF ServerInv, ServerTypeOK, LeftEnabled, OwnerInv, Inside, ConditionInv
  <2> QED
    BY <2>1, <2>2 DEF ServerInv, SafeDisabling
<1> QED
  BY <1>1, ServerInvariant, PTL

-----------------------------------------------------------------------------
(* The condition server: the refinement *)

\* The phase of the grace period that GracePeriod sees.
Phase == IF \E t \in Thread : npc[t] = "wait" THEN "switching" ELSE "ready"

\* Every step of ConditionServer is a step of GracePeriod or a stutter.
LEMMA GraceStep == ServerInv /\ [ServerNext]_serverVars => [Grace!Next]_(Grace!vars)
<1> SUFFICES ASSUME ServerInv, [ServerNext]_serverVars PROVE [Grace!Next]_(Grace!vars)
  OBVIOUS
<1> USE DEF ServerInv, ServerTypeOK
<1>1. ASSUME NEW t \in Thread, Publish(t) PROVE Grace!Next
  <2>1. \A u \in Thread : npc[u] # "wait"
    BY <1>1, InsideExcludes DEF Publish, Inside
  <2>2. npc'[t] = "wait" /\ rpc' = rpc
    BY <1>1 DEF Publish
  <2>3. CASE arg[t]
    <3>1. Grace!Publish("disabled")
      BY <1>1, <2>1, <2>2, <2>3 DEF Grace!Publish, Publish
    <3> QED
      BY <3>1 DEF Grace!Next
  <2>4. CASE ~ arg[t]
    <3>1. Grace!Publish("render")
      BY <1>1, <2>1, <2>2, <2>4 DEF Grace!Publish, Publish
    <3> QED
      BY <3>1 DEF Grace!Next
  <2> QED
    BY <2>3, <2>4
<1>2. ASSUME NEW t \in Thread, SwitchConfigReturns(t) PROVE Grace!Next
  <2>1. \A u \in Thread \ {t} : npc[u] # "wait"
    BY <1>2, InsideExcludes DEF SwitchConfigReturns, Inside
  <2>2. npc[t] = "wait" /\ (\A u \in Thread : npc'[u] # "wait") /\ UNCHANGED <<rpc, Condition>>
    BY <1>2, <2>1 DEF SwitchConfigReturns
  <2>3. rpc \in {"out", Current}
    BY <1>2 DEF SwitchConfigReturns, RegionInv
  <2>4. Grace!EndGracePeriod
    BY <2>2, <2>3 DEF Grace!EndGracePeriod, Current
  <2> QED
    BY <2>4 DEF Grace!Next
<1>3. CASE Pop
  <2>1. Grace!Lock("RTT")
    BY <1>3 DEF Pop, Grace!Lock
  <2> QED
    BY <2>1 DEF Grace!Next
<1>4. CASE RttDone
  <2>1. Grace!Unlock("RTT")
    BY <1>4 DEF RttDone, Grace!Unlock
  <2> QED
    BY <2>1 DEF Grace!Next
<1>5. ASSUME NEW t \in Thread,
             DisableAndLock(t) \/ LockPushMutex(t) \/ Enable(t) \/ UnlockPushMutex(t)
      PROVE  UNCHANGED Grace!vars
  <2>1. UNCHANGED <<Condition, rpc>> /\ \A u \in Thread : (npc'[u] = "wait") = (npc[u] = "wait")
    BY <1>5 DEF DisableAndLock, LockPushMutex, Enable, UnlockPushMutex
  <2> QED
    BY <2>1 DEF Grace!vars
<1>6. CASE UNCHANGED serverVars
  BY <1>6 DEF serverVars, Grace!vars
<1> QED
  BY <1>1, <1>2, <1>3, <1>4, <1>5, <1>6 DEF ServerNext, Nrtt

\* The condition of ConditionServer is one value that is replaced at once and
\* followed by a grace period, however many threads push.
THEOREM ServerRefinement == ServerSpec => GracePeriodSpec
<1>1. ServerInit => Grace!Init
  BY DEF ServerInit, Grace!Init
<1>2. ServerSpec => Grace!Init /\ [][Grace!Next]_(Grace!vars)
  BY <1>1, GraceStep, ServerInvariant, PTL DEF ServerSpec
<1> QED
  BY <1>2 DEF GracePeriodSpec, Grace!Spec

-----------------------------------------------------------------------------
(* SynchronizedConfig: the inductive invariant *)

\* Where the new index is: not stored, pending, or committed after all stores
\* to the object it publishes.
IndexInv ==
  /\ Writing => index # updateIndex /\ indexBuf = << >>
  /\ wpc = "fence" => \/ index # updateIndex /\ indexBuf = << updateIndex >>
                      \/ index = updateIndex /\ indexBuf = << >> /\ ConfigDrained
  /\ wpc \in {"scan", "wait"} => index = updateIndex /\ indexBuf = << >> /\ ConfigDrained

\* Only the instance that is being updated has pending stores.
ConfigBufInv == \A i \in Instance, f \in Field : configBuf[i][f] # << >> => i = updateIndex

\* The last value that a reader stored, whether committed or not.
LastLock(r) == IF lockBuf[r] = << >> THEN lock[r] ELSE lockBuf[r][Len(lockBuf[r])]

\* A reader past the fence of Lock() has its lock visible to the writer.
LockInv ==
  \A r \in Reader :
    /\ rtpc[r] # "out" => r \in readers /\ LastLock(r) = lockCount[r]
    /\ rtpc[r] \in {"load", "in"} => lockBuf[r] = << >>

\* Before the index is committed no reader is in the instance to be published.
BeforeSwitchInv ==
  index # updateIndex => \A r \in Reader : rtpc[r] = "in" => readIndex[r] # updateIndex

\* After it, a reader that is still in the other instance is on the list (or
\* will be scanned), and its lock has not changed since it was put there.
GraceInv ==
  /\ wpc = "wait" => unscanned = {}
  /\ wpc \in {"scan", "wait"} =>
       \A r \in Reader : rtpc[r] = "in" /\ readIndex[r] # updateIndex =>
          \/ r \in unscanned
          \/ r \in lockingReaders /\ prevLock[r] = lock[r]

ConfigInv == IndexInv /\ ConfigBufInv /\ LockInv /\ BeforeSwitchInv /\ GraceInv

-----------------------------------------------------------------------------
(* Types *)

\* lockCount stays odd: Lock() adds 2 to it.
LEMMA OddStep == \A n \in Odd : n + 2 \in Odd
  BY DEF Odd

\* What a reader stores is 0 or a lockCount, so 0 means unlocked.
LEMMA ZeroNotOdd == 0 \notin Odd
  BY DEF Odd

\* The stores that SynchronizedConfig puts into a queue have the right type.
LEMMA QueueType ==
  ASSUME NEW S, NEW q \in Seq(S), NEW e \in S
  PROVE  /\ Append(q, e) \in Seq(S)
         /\ q # << >> => Head(q) \in S /\ Tail(q) \in Seq(S)
  OBVIOUS

\* Committing the first store of a queue leaves its last store the last one.
LEMMA QueueLast ==
  ASSUME NEW S, NEW q \in Seq(S), q # << >>
  PROVE  IF Tail(q) = << >> THEN Head(q) = q[Len(q)] ELSE Tail(q)[Len(Tail(q))] = q[Len(q)]
  OBVIOUS

\* Every step of the two sides keeps the types of SynchronizedConfig's state.
LEMMA ConfigTypeStep == ConfigTypeOK /\ [ConfigNext]_configVars => ConfigTypeOK'
<1> SUFFICES ASSUME ConfigTypeOK, [ConfigNext]_configVars PROVE ConfigTypeOK'
  OBVIOUS
<1> USE DEF ConfigTypeOK, Instance, memory, buffers, writer, rtt
<1>1. ASSUME NEW i \in Instance, NEW f \in Field, CommitConfig(i, f) PROVE ConfigTypeOK'
  BY <1>1 DEF CommitConfig
<1>2. CASE CommitIndex
  BY <1>2 DEF CommitIndex
<1>3. ASSUME NEW r \in Reader, CommitLock(r) PROVE ConfigTypeOK'
  BY <1>3 DEF CommitLock
<1>4. ASSUME NEW r \in Reader, AddReader(r) \/ RemoveReader(r) PROVE ConfigTypeOK'
  BY <1>4 DEF AddReader, RemoveReader
<1>5. ASSUME NEW v \in Value, GetConfigForUpdate(v) PROVE ConfigTypeOK'
  BY <1>5 DEF GetConfigForUpdate
<1>6. ASSUME NEW f \in Field, WriteField(f) PROVE ConfigTypeOK'
  BY <1>6 DEF WriteField
<1>7. CASE StoreIndex
  BY <1>7 DEF StoreIndex
<1>8. CASE WriterFence \/ ScanDone \/ SwitchReturns
  BY <1>8 DEF WriterFence, ScanDone, SwitchReturns
<1>9. ASSUME NEW r \in Reader, ScanReader(r) PROVE ConfigTypeOK'
  BY <1>9 DEF ScanReader
<1>10. ASSUME NEW r \in Reader, Unlink(r) PROVE ConfigTypeOK'
  BY <1>10 DEF Unlink
<1>11. ASSUME NEW r \in Reader, LockStore(r) PROVE ConfigTypeOK'
  BY <1>11, OddStep DEF LockStore
<1>12. ASSUME NEW r \in Reader, LockFence(r) \/ LockLoad(r) PROVE ConfigTypeOK'
  BY <1>12 DEF LockFence, LockLoad
<1>13. ASSUME NEW r \in Reader, Unlock(r) PROVE ConfigTypeOK'
  BY <1>13 DEF Unlock
<1>14. CASE UNCHANGED configVars
  BY <1>14 DEF configVars
<1> QED
  BY <1>1, <1>2, <1>3, <1>4, <1>5, <1>6, <1>7, <1>8, <1>9, <1>10, <1>11, <1>12, <1>13,
     <1>14 DEF ConfigNext, Commit, Update, SwitchConfig, Lock

-----------------------------------------------------------------------------
(* The invariant is inductive *)

\* The constructor establishes the invariant.
LEMMA ConfigInitInv == ConfigInit => ConfigTypeOK /\ ConfigInv
<1> SUFFICES ASSUME ConfigInit PROVE ConfigTypeOK /\ ConfigInv
  OBVIOUS
<1>1. ConfigTypeOK
  <2>1. PICK v \in Value : config = [i \in Instance |-> [f \in Field |-> v]] /\ newValue = v
    BY DEF ConfigInit
  <2>2. 1 \in Odd
    BY DEF Odd
  <2> QED
    BY <2>1, <2>2 DEF ConfigInit, ConfigTypeOK, Instance
<1>2. ConfigInv
  BY DEF ConfigInit, ConfigInv, IndexInv, ConfigBufInv, LockInv, BeforeSwitchInv, GraceInv, Writing
<1> QED
  BY <1>1, <1>2

\* The commit of a store, in whatever order, keeps the invariant.
LEMMA CommitIInv == ConfigTypeOK /\ ConfigInv /\ Commit => ConfigInv'
<1> SUFFICES ASSUME ConfigTypeOK, ConfigInv, Commit PROVE ConfigInv'
  OBVIOUS
<1> USE DEF ConfigTypeOK, Instance, ConfigInv, rtt, writer
<1>1. ASSUME NEW i \in Instance, NEW f \in Field, CommitConfig(i, f) PROVE ConfigInv'
  <2>1. IndexInv'
    BY <1>1 DEF CommitConfig, IndexInv, Writing, ConfigDrained
  <2>2. ConfigBufInv'
    BY <1>1 DEF CommitConfig, ConfigBufInv
  <2>3. LockInv' /\ BeforeSwitchInv' /\ GraceInv'
    BY <1>1 DEF CommitConfig, LockInv, LastLock, BeforeSwitchInv, GraceInv
  <2> QED
    BY <2>1, <2>2, <2>3
<1>2. CASE CommitIndex
  <2>1. wpc = "fence" /\ indexBuf = << updateIndex >> /\ index' = updateIndex /\ indexBuf' = << >>
    BY <1>2 DEF CommitIndex, IndexInv, Writing
  <2> QED
    BY <1>2, <2>1 DEF CommitIndex, IndexInv, ConfigBufInv, LockInv, LastLock, BeforeSwitchInv,
      GraceInv, Writing, ConfigDrained
<1>3. ASSUME NEW r \in Reader, CommitLock(r) PROVE ConfigInv'
  <2> DEFINE q == lockBuf[r]
  <2>7. q \in Seq(Odd \cup {0}) /\ q # << >> /\ lock'[r] = Head(q) /\ lockBuf'[r] = Tail(q)
    BY <1>3 DEF CommitLock
  <2>8. IF Tail(q) = << >> THEN Head(q) = q[Len(q)] ELSE Tail(q)[Len(Tail(q))] = q[Len(q)]
    <3> HIDE DEF q
    <3> QED
      BY <2>7, QueueLast
  <2>1. LastLock(r)' = LastLock(r) /\ (lockBuf[r] = << >> => lockBuf'[r] = << >>)
    BY <2>7, <2>8 DEF LastLock
  <2>4. \A s \in Reader \ {r} : LastLock(s)' = LastLock(s) /\ lockBuf'[s] = lockBuf[s]
    BY <1>3 DEF CommitLock, LastLock
  <2>5. lockBuf[r] # << >>
    BY <1>3 DEF CommitLock
  <2>6. LockInv'
    BY <1>3, <2>1, <2>4, <2>5 DEF CommitLock, LockInv
  <2>2. IndexInv' /\ ConfigBufInv' /\ BeforeSwitchInv'
    BY <1>3 DEF CommitLock, IndexInv, ConfigBufInv, BeforeSwitchInv, Writing, ConfigDrained
  <2>3. GraceInv'
    BY <1>3 DEF CommitLock, LockInv, GraceInv
  <2> QED
    BY <2>6, <2>2, <2>3
<1> QED
  BY <1>1, <1>2, <1>3 DEF Commit

\* The non real time thread keeps the invariant.
LEMMA WriterIInv ==
  ASSUME ConfigTypeOK, ConfigInv,
         Update \/ SwitchConfig \/ \E r \in Reader : AddReader(r) \/ RemoveReader(r)
  PROVE  ConfigInv'
<1> USE DEF ConfigTypeOK, Instance, ConfigInv, rtt, memory, buffers, Writing
<1>1. ASSUME NEW r \in Reader, AddReader(r) \/ RemoveReader(r) PROVE ConfigInv'
  BY <1>1 DEF AddReader, RemoveReader, writer, IndexInv, ConfigBufInv, LockInv, LastLock,
    BeforeSwitchInv, GraceInv, ConfigDrained
<1>2. ASSUME NEW v \in Value, GetConfigForUpdate(v) PROVE ConfigInv'
  BY <1>2 DEF GetConfigForUpdate, IndexInv, ConfigBufInv, LockInv, LastLock, BeforeSwitchInv,
    GraceInv, ConfigDrained
<1>3. ASSUME NEW f \in Field, WriteField(f) PROVE ConfigInv'
  <2>1. IndexInv'
    BY <1>3 DEF WriteField, IndexInv, ConfigDrained
  <2>2. ConfigBufInv'
    BY <1>3 DEF WriteField, ConfigBufInv
  <2>3. LockInv' /\ BeforeSwitchInv' /\ GraceInv'
    BY <1>3 DEF WriteField, LockInv, LastLock, BeforeSwitchInv, GraceInv
  <2> QED
    BY <2>1, <2>2, <2>3
<1>4. CASE StoreIndex
  <2>1. IndexInv'
    BY <1>4 DEF StoreIndex, IndexInv
  <2> QED
    BY <1>4, <2>1 DEF StoreIndex, ConfigBufInv, LockInv, LastLock, BeforeSwitchInv, GraceInv
<1>5. CASE WriterFence
  <2>1. IndexInv'
    BY <1>5 DEF WriterFence, IndexInv, ConfigDrained
  <2> QED
    BY <1>5, <2>1 DEF WriterFence, ConfigBufInv, LockInv, LastLock, BeforeSwitchInv, GraceInv
<1>6. ASSUME NEW r \in Reader, ScanReader(r) PROVE ConfigInv'
  <2>1. IndexInv' /\ ConfigBufInv' /\ LockInv' /\ BeforeSwitchInv'
    BY <1>6 DEF ScanReader, IndexInv, ConfigBufInv, LockInv, LastLock, BeforeSwitchInv,
      ConfigDrained
  <2>2. rtpc[r] = "in" => lock[r] # 0
    BY ZeroNotOdd DEF LockInv, LastLock
  <2>3. GraceInv'
    BY <1>6, <2>2 DEF ScanReader, GraceInv
  <2> QED
    BY <2>1, <2>3
<1>7. CASE ScanDone
  BY <1>7 DEF ScanDone, IndexInv, ConfigBufInv, LockInv, LastLock, BeforeSwitchInv, GraceInv,
    ConfigDrained
<1>8. ASSUME NEW r \in Reader, Unlink(r) PROVE ConfigInv'
  BY <1>8 DEF Unlink, IndexInv, ConfigBufInv, LockInv, LastLock, BeforeSwitchInv, GraceInv,
    ConfigDrained
<1>9. CASE SwitchReturns
  <2>1. \A r \in Reader : rtpc[r] = "in" => readIndex[r] = updateIndex
    BY <1>9 DEF SwitchReturns, GraceInv
  <2>2. index' # updateIndex' /\ updateIndex' # updateIndex
    BY <1>9 DEF SwitchReturns, IndexInv
  <2> QED
    BY <1>9, <2>1, <2>2 DEF SwitchReturns, IndexInv, ConfigBufInv, LockInv, LastLock,
      BeforeSwitchInv, GraceInv, ConfigDrained
<1> QED
  BY <1>1, <1>2, <1>3, <1>4, <1>5, <1>6, <1>7, <1>8, <1>9 DEF Update, SwitchConfig

\* Lock() and Unlock() keep the invariant.
LEMMA ReaderIInv ==
  ASSUME ConfigTypeOK, ConfigInv, NEW r \in Reader, Lock(r) \/ Unlock(r)
  PROVE  ConfigInv'
<1> USE DEF ConfigTypeOK, ConfigInv, memory
<1>1. IndexInv' /\ ConfigBufInv'
  BY DEF Lock, LockStore, LockFence, LockLoad, Unlock, buffers, writer, IndexInv, ConfigBufInv,
    Writing, ConfigDrained
<1>2. CASE LockStore(r)
  <2>1. lockBuf'[r] # << >> /\ lockBuf'[r][Len(lockBuf'[r])] = lockCount'[r]
    <3>1. lockCount'[r] = lockCount[r] + 2 /\ lockBuf'[r] = Append(lockBuf[r], lockCount[r] + 2)
      BY <1>2 DEF LockStore
    <3>2. lockBuf[r] \in Seq(Odd \cup {0})
      OBVIOUS
    <3>3. lockCount[r] + 2 \in Odd \cup {0}
      BY OddStep
    <3> HIDE DEF ConfigTypeOK
    <3> QED
      BY <3>1, <3>2, <3>3
  <2>2. LockInv'
    BY <1>2, <2>1 DEF LockStore, LockInv, LastLock
  <2> QED
    BY <1>1, <1>2, <2>2 DEF LockStore, writer, BeforeSwitchInv, GraceInv
<1>3. CASE LockFence(r)
  BY <1>1, <1>3 DEF LockFence, LockInv, LastLock, BeforeSwitchInv, GraceInv, buffers, writer
<1>4. CASE LockLoad(r)
  <2>1. LockInv' /\ BeforeSwitchInv'
    BY <1>4 DEF LockLoad, LockInv, LastLock, BeforeSwitchInv, buffers, writer
  <2>2. GraceInv'
    BY <1>4 DEF LockLoad, IndexInv, GraceInv, writer
  <2> QED
    BY <1>1, <2>1, <2>2
<1>5. CASE Unlock(r)
  BY <1>1, <1>5 DEF Unlock, LockInv, LastLock, BeforeSwitchInv, GraceInv, writer
<1> QED
  BY <1>2, <1>3, <1>4, <1>5 DEF Lock

\* The state of SynchronizedConfig satisfies the inductive invariant at any time.
THEOREM ConfigInvariant == ConfigSpec => [](ConfigTypeOK /\ ConfigInv)
<1>1. ConfigTypeOK /\ ConfigInv /\ [ConfigNext]_configVars => (ConfigTypeOK /\ ConfigInv)'
  <2> SUFFICES ASSUME ConfigTypeOK, ConfigInv, [ConfigNext]_configVars PROVE ConfigTypeOK' /\ ConfigInv'
    OBVIOUS
  <2>1. ConfigTypeOK'
    BY ConfigTypeStep
  <2>2. CASE UNCHANGED configVars
    <3> USE <2>2 DEF configVars, memory, buffers, writer, rtt, ConfigInv
    <3>1. IndexInv'
      BY DEF IndexInv, Writing, ConfigDrained
    <3>3. ConfigBufInv'
      BY DEF ConfigBufInv
    <3>2. LockInv' /\ BeforeSwitchInv' /\ GraceInv'
      BY DEF LockInv, LastLock, BeforeSwitchInv, GraceInv
    <3> QED
      BY <2>1, <3>1, <3>2, <3>3
  <2> QED
    BY <2>1, <2>2, CommitIInv, WriterIInv, ReaderIInv DEF ConfigNext
<1> QED
  BY <1>1, ConfigInitInv, PTL DEF ConfigSpec

\* The types of all that SynchronizedConfig and its readers keep.
THEOREM ConfigTypes == ConfigSpec => []ConfigTypeOK
  BY ConfigInvariant, PTL

\* GetConfigForUpdate() and SwitchConfig() never hand out an instance that is
\* inside a reader's critical region.
THEOREM Exclusion == ConfigSpec => []ExclusiveUpdate
<1>1. ConfigTypeOK /\ ConfigInv => ExclusiveUpdate
  BY DEF ConfigInv, IndexInv, BeforeSwitchInv, ExclusiveUpdate
<1> QED
  BY <1>1, ConfigInvariant, PTL

\* While SynchronizedConfig's update has pending stores, the index is not switched
\* yet, so they go to the instance that no reader is in.
LEMMA PendingStores ==
  ASSUME ConfigTypeOK, ConfigInv, NEW i \in Instance, NEW f \in Field, configBuf[i][f] # << >>
  PROVE  i = updateIndex /\ index # updateIndex
  BY DEF ConfigTypeOK, ConfigInv, IndexInv, ConfigBufInv, Writing, ConfigDrained

\* A step of SynchronizedConfig changes neither what a reader holds nor which
\* instance that is.
LEMMA HeldStep ==
  ASSUME ConfigTypeOK, ConfigInv, [ConfigNext]_configVars,
         NEW r \in Reader, rtpc[r] = "in", rtpc'[r] = "in"
  PROVE  readIndex'[r] = readIndex[r] /\ config'[readIndex'[r]] = config[readIndex[r]]
<1> USE DEF ConfigTypeOK, memory, rtt
<1>1. readIndex'[r] = readIndex[r]
  BY DEF ConfigNext, Commit, CommitConfig, CommitIndex, CommitLock, AddReader, RemoveReader, Update,
    GetConfigForUpdate, WriteField, SwitchConfig, StoreIndex, WriterFence, ScanReader, ScanDone,
    Unlink, SwitchReturns, Lock, LockStore, LockFence, LockLoad, Unlock, configVars
<1>2. ASSUME NEW i \in Instance, NEW f \in Field, CommitConfig(i, f)
      PROVE  config'[readIndex[r]] = config[readIndex[r]]
  <2>1. i = updateIndex /\ index # updateIndex
    BY <1>2, PendingStores DEF CommitConfig
  <2>2. readIndex[r] # i
    BY <2>1 DEF ConfigInv, BeforeSwitchInv
  <2> QED
    BY <1>2, <2>2 DEF CommitConfig
<1>3. (\A i \in Instance, f \in Field : ~ CommitConfig(i, f)) => config' = config
  BY DEF ConfigNext, Commit, CommitIndex, CommitLock, AddReader, RemoveReader, Update,
    GetConfigForUpdate, WriteField, SwitchConfig, StoreIndex, WriterFence, ScanReader, ScanDone,
    Unlink, SwitchReturns, Lock, LockStore, LockFence, LockLoad, Unlock, configVars
<1> QED
  BY <1>1, <1>2, <1>3

\* What Lock() returned is not modified before Unlock().
THEOREM Stability == ConfigSpec => StableWhileLocked
<1>1. ConfigTypeOK /\ ConfigInv /\ [ConfigNext]_configVars =>
        [\A r \in Reader : rtpc[r] = "in" /\ rtpc'[r] = "in" =>
           config'[readIndex'[r]] = config[readIndex[r]]]_configVars
  BY HeldStep
<1> QED
  BY <1>1, ConfigInvariant, PTL DEF ConfigSpec, StableWhileLocked

-----------------------------------------------------------------------------
(* What is in the two instances *)

\* The last value that was written to a member, whether committed or not.
LastWritten(i, f) == IF configBuf[i][f] = << >> THEN config[i][f]
                                                ELSE configBuf[i][f][Len(configBuf[i][f])]

\* The members of the instance to be updated that were written in this pass over it
WrittenFields == IF wpc \in {"update", "redo"} THEN Field \ todo ELSE Field

\* The instance that is not being updated is whole, of this update or, before the
\* second pass, of the one before. In the other one this update's values are written, as
\* far as the pass has come.
DataInv ==
  /\ \A f, g \in Field : config[1 - updateIndex][f] = config[1 - updateIndex][g]
  /\ wpc \in {"idle", "redo"} => \A f \in Field : config[1 - updateIndex][f] = newValue
  /\ \A f \in WrittenFields : LastWritten(updateIndex, f) = newValue

\* The update's two passes, and the commits between them, keep the instances of
\* SynchronizedConfig whole.
LEMMA DataStep == ConfigTypeOK /\ ConfigInv /\ DataInv /\ [ConfigNext]_configVars => DataInv'
<1> SUFFICES ASSUME ConfigTypeOK, ConfigInv, DataInv, [ConfigNext]_configVars PROVE DataInv'
  OBVIOUS
<1> USE DEF memory, buffers, writer, rtt
<1>1. ASSUME NEW i \in Instance, NEW f \in Field, CommitConfig(i, f) PROVE DataInv'
  <2>1. i = updateIndex /\ configBuf[i][f] # << >>
    BY <1>1, PendingStores DEF CommitConfig
  <2>2. config'[1 - updateIndex] = config[1 - updateIndex]
    BY <1>1, <2>1 DEF CommitConfig, ConfigTypeOK, Instance
  <2>3. ASSUME NEW g \in Field
        PROVE  LastWritten(updateIndex, g)' = LastWritten(updateIndex, g)
    <3>1. CASE g = f
      <4> DEFINE q == configBuf[i][f]
      <4>1. q \in Seq(Value) /\ q # << >>
        BY <2>1 DEF ConfigTypeOK
      <4>2. config'[i][f] = Head(q) /\ configBuf'[i][f] = Tail(q)
        BY <1>1 DEF CommitConfig, ConfigTypeOK
      <4>3. IF Tail(q) = << >> THEN Head(q) = q[Len(q)] ELSE Tail(q)[Len(Tail(q))] = q[Len(q)]
        BY <4>1, QueueLast
      <4> QED
        BY <1>1, <2>1, <3>1, <4>1, <4>2, <4>3 DEF LastWritten, CommitConfig
    <3>2. CASE g # f
      <4>1. config'[i][g] = config[i][g] /\ configBuf'[i][g] = configBuf[i][g]
        BY <1>1, <3>2 DEF CommitConfig, ConfigTypeOK
      <4>2. UNCHANGED updateIndex
        BY <1>1 DEF CommitConfig
      <4> QED
        BY <2>1, <4>1, <4>2 DEF LastWritten
    <3> QED
      BY <3>1, <3>2
  <2>4. UNCHANGED <<wpc, updateIndex, newValue, todo>>
    BY <1>1 DEF CommitConfig
  <2> QED
    BY <2>2, <2>3, <2>4 DEF DataInv, WrittenFields
<1>2. ASSUME NEW v \in Value, GetConfigForUpdate(v) PROVE DataInv'
  BY <1>2 DEF GetConfigForUpdate, DataInv, WrittenFields
<1>3. ASSUME NEW f \in Field, WriteField(f) PROVE DataInv'
  <2>1. LastWritten(updateIndex, f)' = newValue
    <3> DEFINE q == configBuf[updateIndex][f]
    <3>1. q \in Seq(Value) /\ newValue \in Value
      BY DEF ConfigTypeOK
    <3>2. configBuf'[updateIndex][f] = Append(q, newValue)
      BY <1>3 DEF WriteField, ConfigTypeOK
    <3>3. Append(q, newValue) # << >> /\ Append(q, newValue)[Len(Append(q, newValue))] = newValue
      BY <3>1
    <3> QED
      BY <1>3, <3>2, <3>3 DEF LastWritten, WriteField
  <2>2. ASSUME NEW g \in Field, g # f
        PROVE  LastWritten(updateIndex, g)' = LastWritten(updateIndex, g)
    <3>1. configBuf'[updateIndex][g] = configBuf[updateIndex][g]
      BY <1>3, <2>2 DEF WriteField, ConfigTypeOK
    <3>2. UNCHANGED <<config, updateIndex>>
      BY <1>3 DEF WriteField
    <3> QED
      BY <3>1, <3>2 DEF LastWritten
  <2>3. WrittenFields' \subseteq WrittenFields \cup {f}
    BY <1>3 DEF WrittenFields, WriteField
  <2>4. WrittenFields \subseteq Field
    BY DEF WrittenFields
  <2>5. \A g \in WrittenFields' : LastWritten(updateIndex, g)' = newValue
    BY <2>1, <2>2, <2>3, <2>4 DEF DataInv
  <2>6. wpc' \in {"idle", "redo"} => wpc = "redo"
    BY <1>3 DEF WriteField
  <2>7. UNCHANGED <<config, updateIndex, newValue>>
    BY <1>3 DEF WriteField
  <2> QED
    BY <2>5, <2>6, <2>7 DEF DataInv
<1>4. CASE SwitchReturns
  <2>1. ConfigDrained /\ wpc = "wait" /\ wpc' = "redo" /\ todo' = Field
        /\ updateIndex' = 1 - updateIndex /\ UNCHANGED <<config, newValue>>
    BY <1>4 DEF SwitchReturns, ConfigInv, IndexInv
  <2>2. 1 - updateIndex' = updateIndex /\ updateIndex \in Instance
    BY <2>1 DEF ConfigTypeOK, Instance
  <2>3. \A f \in Field : config[updateIndex][f] = newValue
    BY <2>1, <2>2 DEF DataInv, WrittenFields, LastWritten, ConfigDrained
  <2> QED
    BY <2>1, <2>2, <2>3 DEF DataInv, WrittenFields
<1>5. CASE StoreIndex \/ WriterFence \/ ScanDone \/ \E r \in Reader : ScanReader(r) \/ Unlink(r)
  BY <1>5 DEF StoreIndex, WriterFence, ScanDone, ScanReader, Unlink, DataInv, WrittenFields,
    LastWritten
<1>6. CASE \/ CommitIndex
           \/ \E r \in Reader : CommitLock(r) \/ AddReader(r) \/ RemoveReader(r) \/ Lock(r) \/ Unlock(r)
           \/ UNCHANGED configVars
  <2>1. UNCHANGED <<config, configBuf, writer>>
    BY <1>6 DEF CommitIndex, CommitLock, AddReader, RemoveReader, Lock, LockStore, LockFence,
      LockLoad, Unlock, configVars
  <2> QED
    BY <2>1 DEF DataInv, WrittenFields, LastWritten
<1> QED
  BY <1>1, <1>2, <1>3, <1>4, <1>5, <1>6 DEF ConfigNext, Commit, Update, SwitchConfig

\* What Lock() hands out, and what is in SynchronizedConfig between two updates, is the
\* whole of one update: although the two instances are written member by member, twice,
\* and each store is committed at its own time.
THEOREM Wholeness == ConfigSpec => []DataIsWhole
<1>1. ConfigInit => DataInv
  BY ConfigInitInv DEF ConfigInit, DataInv, WrittenFields, LastWritten, Instance
<1>2. ConfigTypeOK /\ ConfigInv /\ DataInv => DataIsWhole
  <2> SUFFICES ASSUME ConfigTypeOK, ConfigInv, DataInv PROVE DataIsWhole
    OBVIOUS
  <2>1. Instance = {updateIndex, 1 - updateIndex}
    BY DEF ConfigTypeOK, Instance
  <2>2. ASSUME NEW r \in Reader, rtpc[r] = "in", NEW f \in Field, NEW g \in Field
        PROVE  config[readIndex[r]][f] = config[readIndex[r]][g]
    <3>1. CASE readIndex[r] = updateIndex
      <4>1. ConfigDrained /\ wpc \in {"fence", "scan", "wait"}
        BY <2>2, <3>1 DEF ConfigTypeOK, ConfigInv, IndexInv, BeforeSwitchInv, Writing
      <4>2. WrittenFields = Field
        BY <4>1 DEF WrittenFields
      <4> QED
        BY <3>1, <4>1, <4>2 DEF ConfigTypeOK, DataInv, LastWritten, ConfigDrained
    <3>2. CASE readIndex[r] # updateIndex
      BY <2>1, <3>2 DEF ConfigTypeOK, DataInv
    <3> QED
      BY <3>1, <3>2
  <2>3. ASSUME wpc = "idle", ConfigDrained PROVE config[0] = config[1]
    <3>1. \A f \in Field : config[updateIndex][f] = newValue /\ config[1 - updateIndex][f] = newValue
      BY <2>3 DEF ConfigTypeOK, DataInv, WrittenFields, LastWritten, ConfigDrained
    <3>2. config[updateIndex] \in [Field -> Value] /\ config[1 - updateIndex] \in [Field -> Value]
      BY <2>1 DEF ConfigTypeOK
    <3>3. config[updateIndex] = config[1 - updateIndex]
      BY <3>1, <3>2
    <3> QED
      BY <3>3 DEF ConfigTypeOK, Instance
  <2> QED
    BY <2>2, <2>3 DEF DataIsWhole, NoTornRead, InstancesAgree
<1> QED
  BY <1>1, <1>2, DataStep, ConfigInvariant, PTL DEF ConfigSpec

-----------------------------------------------------------------------------
(* The refinement *)

\* What the readers hold, as GracePeriod sees it.
Held == [r \in Reader |-> IF rtpc[r] = "in" THEN config[readIndex[r]] ELSE NoData]

\* An object of SynchronizedConfig is not what a reader holds outside.
LEMMA NoDataIsNoObject == NoData \notin [Field -> Value]
<1> SUFFICES ASSUME NoData \in [Field -> Value] PROVE FALSE
  OBVIOUS
<1>1. DOMAIN NoData = Field
  OBVIOUS
<1>2. DOMAIN NoData = {}
  BY DEF NoData
<1> QED
  BY <1>1, <1>2, FieldAssumption

\* The constructor establishes the initial state of GracePeriod.
LEMMA GraceInit == ConfigInit => ConfigGrace!Init
<1> SUFFICES ASSUME ConfigInit PROVE ConfigGrace!Init
  OBVIOUS
<1>1. ConfigTypeOK
  BY ConfigInitInv
<1> QED
  BY <1>1 DEF ConfigInit, ConfigTypeOK, ConfigGrace!Init, Instance

\* A step that keeps the published object and what every reader holds, and
\* neither begins nor ends a grace period, is a stutter of GracePeriod.
LEMMA GraceStutter ==
  ASSUME config'[index'] = config[index], Held' = Held,
         (index = updateIndex)' = (index = updateIndex)
  PROVE  UNCHANGED ConfigGrace!vars
  BY DEF Held, ConfigGrace!vars

\* Every step of SynchronizedConfig is a step of GracePeriod or a stutter.
LEMMA ConfigGraceStep ==
  ConfigTypeOK /\ ConfigInv /\ [ConfigNext]_configVars => [ConfigGrace!Next]_(ConfigGrace!vars)
<1> SUFFICES ASSUME ConfigTypeOK, ConfigInv, [ConfigNext]_configVars
             PROVE  [ConfigGrace!Next]_(ConfigGrace!vars)
  OBVIOUS
<1> USE DEF ConfigTypeOK, memory, rtt, writer
<1>1. ASSUME NEW i \in Instance, NEW f \in Field, CommitConfig(i, f)
      PROVE  UNCHANGED ConfigGrace!vars
  <2>1. i = updateIndex /\ index # updateIndex
    BY <1>1, PendingStores DEF CommitConfig
  <2>2. config'[index] = config[index]
    BY <1>1, <2>1 DEF CommitConfig
  <2>3. Held' = Held
    BY <1>1, HeldStep DEF CommitConfig, Held
  <2> QED
    BY <1>1, <2>2, <2>3, GraceStutter DEF CommitConfig
<1>2. CASE CommitIndex
  <2>1. index # updateIndex /\ index' = updateIndex /\ config' = config /\ Held' = Held
    BY <1>2 DEF CommitIndex, ConfigInv, IndexInv, Writing, Held
  <2>2. config[updateIndex] \in [Field -> Value]
    OBVIOUS
  <2>3. ConfigGrace!Publish(config[updateIndex])
    BY <1>2, <2>1 DEF CommitIndex, ConfigGrace!Publish, Held
  <2> QED
    BY <2>2, <2>3 DEF ConfigGrace!Next
<1>3. CASE SwitchReturns
  <2>1. \A r \in Reader : rtpc[r] = "in" => readIndex[r] = updateIndex
    BY <1>3 DEF SwitchReturns, ConfigInv, GraceInv
  <2>2. index = updateIndex /\ index' # updateIndex' /\ config' = config /\ index' = index
    BY <1>3 DEF SwitchReturns, ConfigInv, IndexInv, Instance
  <2>3. \A r \in Reader : Held[r] \in {NoData, config[index]}
    BY <2>1, <2>2 DEF Held
  <2>4. Held' = Held
    BY <1>3 DEF SwitchReturns, Held
  <2>5. ConfigGrace!EndGracePeriod
    BY <2>2, <2>3, <2>4 DEF ConfigGrace!EndGracePeriod, Held
  <2> QED
    BY <2>5 DEF ConfigGrace!Next
<1>4. ASSUME NEW r \in Reader, LockLoad(r) PROVE ConfigGrace!Next
  <2>1. Held[r] = NoData
    BY <1>4 DEF LockLoad, Held
  <2>2. Held' = [Held EXCEPT ![r] = config[index]]
    BY <1>4 DEF LockLoad, Held
  <2>3. ConfigGrace!Lock(r)
    BY <1>4, <2>1, <2>2 DEF LockLoad, ConfigGrace!Lock, Held
  <2> QED
    BY <2>3 DEF ConfigGrace!Next
<1>5. ASSUME NEW r \in Reader, Unlock(r) PROVE ConfigGrace!Next
  <2>1. Held[r] # NoData
    BY <1>5, NoDataIsNoObject DEF Unlock, Held
  <2>2. Held' = [Held EXCEPT ![r] = NoData]
    BY <1>5 DEF Unlock, Held
  <2>3. ConfigGrace!Unlock(r)
    BY <1>5, <2>1, <2>2 DEF Unlock, ConfigGrace!Unlock, Held
  <2> QED
    BY <2>3 DEF ConfigGrace!Next
<1>6. ASSUME NEW r \in Reader, CommitLock(r) \/ AddReader(r) \/ RemoveReader(r)
      PROVE  UNCHANGED ConfigGrace!vars
  BY <1>6, GraceStutter DEF CommitLock, AddReader, RemoveReader, Held
<1>7. CASE Update
  BY <1>7, GraceStutter DEF Update, GetConfigForUpdate, WriteField, Held
<1>8. CASE StoreIndex \/ WriterFence \/ ScanDone
  BY <1>8, GraceStutter DEF StoreIndex, WriterFence, ScanDone, Held
<1>9. ASSUME NEW r \in Reader, ScanReader(r) \/ Unlink(r) PROVE UNCHANGED ConfigGrace!vars
  BY <1>9, GraceStutter DEF ScanReader, Unlink, Held
<1>10. ASSUME NEW r \in Reader, LockStore(r) PROVE UNCHANGED ConfigGrace!vars
  <2>1. Held' = Held
    BY <1>10 DEF LockStore, Held
  <2> QED
    BY <1>10, <2>1, GraceStutter DEF LockStore
<1>11. ASSUME NEW r \in Reader, LockFence(r) PROVE UNCHANGED ConfigGrace!vars
  <2>1. Held' = Held
    BY <1>11 DEF LockFence, Held
  <2> QED
    BY <1>11, <2>1, GraceStutter DEF LockFence
<1>12. CASE UNCHANGED configVars
  BY <1>12, GraceStutter DEF configVars, Held
<1> QED
  BY <1>1, <1>2, <1>3, <1>4, <1>5, <1>6, <1>7, <1>8, <1>9, <1>10, <1>11, <1>12
     DEF ConfigNext, Commit, SwitchConfig, Lock

\* SynchronizedConfig implements a single value that is replaced at once and
\* followed by a grace period.
THEOREM ConfigRefinement == ConfigSpec => ConfigGracePeriodSpec
<1>1. ConfigSpec => ConfigGrace!Init /\ [][ConfigGrace!Next]_(ConfigGrace!vars)
  BY GraceInit, ConfigGraceStep, ConfigInvariant, PTL DEF ConfigSpec
<1> QED
  BY <1>1 DEF ConfigGracePeriodSpec, ConfigGrace!Spec
=============================================================================
