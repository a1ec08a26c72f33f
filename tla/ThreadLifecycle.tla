-------------------------- MODULE ThreadLifecycle --------------------------
(***************************************************************************)
(* common/Thread: one Thread object, the POSIX threads it spawns one after *)
(* the other, and the threads (controllers) that start and stop it.        *)
(*                                                                         *)
(* Everything the code does while it holds the mutex of RunningCondition   *)
(* and does not wait is one step.  pthread_cond_wait() returns after a     *)
(* broadcast only: WaitIfInternal() of common/Condition tests its condition*)
(* once, with an `if', and has nothing to set against a spurious wake-up.  *)
(* Threads are cancelled at cancellation points only                       *)
(* (CONFIG_PTHREAD_TESTCANCEL), and Main() gets to one sooner or later.    *)
(***************************************************************************)
EXTENDS Integers

CONSTANTS Starter, Stopper, \* threads calling StartThread(), StopThread()
          MaxSpawn          \* pthread_create() fails after so many threads

ASSUME MaxSpawnAssumption == MaxSpawn \in Nat \ {0}

Pthread == 1 .. MaxSpawn
Controller == Starter \cup Stopper

VARIABLES
  running,     \* value of RunningCondition
  state,       \* Thread::state
  id,          \* __thread_id, 0 as long as no thread was created
  os,          \* what each POSIX thread is doing
  cancelled,   \* threads with a pending pthread_cancel()
  released,    \* calls of pthread_join() and pthread_detach() that returned, 2 for several
  pc,          \* where each controller is in StartThread() or StopThread()
  target,      \* the thread that was created, or current, when it called
  joined       \* the thread that StopThread() joins
threadVars == <<running, state, id, os, cancelled, released, pc, target,
          joined>>

ThreadTypeOK == /\ running \in BOOLEAN
                /\ state \in {"NOT_RUNNING", "RUNNING", "PENDING_JOIN", "DETACHED"}
                /\ id \in 0..MaxSpawn
                /\ os \in [Pthread -> {"none", "launch", "main", "exit", "self_exit",
                                   "ended"}]
                /\ cancelled \subseteq Pthread
                /\ released \in [Pthread -> 0..2]
                /\ pc \in [Controller -> {"idle", "start_wait", "start_woken",
                              "stop_wait", "stop_woken", "join", "stop_relock"}]
                /\ target \in [Controller -> 0..MaxSpawn]
                /\ joined \in [Controller -> 0..MaxSpawn]

ThreadInit == /\ running = FALSE
              /\ state = "NOT_RUNNING"
              /\ id = 0
              /\ os = [i \in Pthread |-> "none"]
              /\ cancelled = {}
              /\ released = [i \in Pthread |-> 0]
              /\ pc = [c \in Controller |-> "idle"]
              /\ target = [c \in Controller |-> 0]
              /\ joined = [c \in Controller |-> 0]

\* Condition::PreLockedSet(value): broadcasts only when the value changes.
PreLockedSet(value) ==
  /\ running' = value
  /\ pc' = [c \in Controller |->
              CASE value /\ ~ running /\ pc[c] = "start_wait" -> "start_woken"
                [] ~ value /\ running /\ pc[c] = "stop_wait"  -> "stop_woken"
                [] OTHER -> pc[c]]

\* released after pthread_join(i) or pthread_detach(i)
Release(i) == [released EXCEPT ![i] = IF @ = 2 THEN 2 ELSE @ + 1]

\* released after pthread_detach(__thread_id), if the thread ended by itself
DetachIfPendingJoin ==
  IF state = "PENDING_JOIN" THEN Release(id) ELSE released

-----------------------------------------------------------------------------
(* Faulty variants of the code below *)

\* StartThread() without the wait
CreateThread_NoWait(c) ==
  /\ c \in Starter
  /\ pc[c] = "idle"
  /\ \A i \in Pthread : os[i] # "self_exit"
  /\ ~ running
  /\ id < MaxSpawn
  /\ id' = id + 1
  /\ os' = [os EXCEPT ![id + 1] = "launch"]
  /\ state' = "RUNNING"
  /\ released' = DetachIfPendingJoin
  /\ target' = [target EXCEPT ![c] = id + 1]
  /\ pc' = [pc EXCEPT ![c] = "start_woken"]
  /\ UNCHANGED <<running, cancelled, joined>>

\* StartThread() before the leak of ended threads was repaired
CreateThread_NoDetach(c) ==
  /\ c \in Starter
  /\ pc[c] = "idle"
  /\ \A i \in Pthread : os[i] # "self_exit"
  /\ ~ running
  /\ id < MaxSpawn
  /\ id' = id + 1
  /\ os' = [os EXCEPT ![id + 1] = "launch"]
  /\ state' = "RUNNING"
  /\ target' = [target EXCEPT ![c] = id + 1]
  /\ pc' = [pc EXCEPT ![c] = "start_wait"]
  /\ UNCHANGED <<running, cancelled, released, joined>>

\* A failed pthread_create() is taken for a success
CreateThreadFails_Ignored(c) ==
  /\ c \in Starter
  /\ pc[c] = "idle"
  /\ ~ running
  /\ id = MaxSpawn
  /\ id' = id + 1
  /\ state' = "RUNNING"
  /\ released' = DetachIfPendingJoin
  /\ pc' = [pc EXCEPT ![c] = "start_wait"]
  /\ UNCHANGED <<running, os, cancelled, target, joined>>

\* StopThread() forgets to cancel
CancelAndWait_NoCancel(c) ==
  /\ c \in Stopper
  /\ pc[c] = "idle"
  /\ running
  /\ target' = [target EXCEPT ![c] = id]
  /\ pc' = [pc EXCEPT ![c] = "stop_wait"]
  /\ UNCHANGED <<running, state, id, os, cancelled,
                 released, joined>>

\* StopThread() does not wait for the end of the thread
JoinReturns_NoWait(c) ==
  /\ pc[c] = "join"
  /\ released' = Release(joined[c])
  /\ pc' = [pc EXCEPT ![c] = "stop_relock"]
  /\ UNCHANGED <<running, state, id, os, cancelled,
                 target, joined>>

\* The thread ends without resetting the running condition
pthreadDestructor_NoSet(i) ==
  /\ os[i] \in {"exit", "self_exit"}
  /\ os' = [os EXCEPT ![i] = "ended"]
  /\ state' = "PENDING_JOIN"
  /\ UNCHANGED <<running, id, cancelled, released, pc, target, joined>>

\* The condition is reset as soon as the thread is about to end
ThreadCancelled_SetEarly(i) ==
  /\ os[i] = "main"
  /\ i \in cancelled
  /\ os' = [os EXCEPT ![i] = "exit"]
  /\ PreLockedSet(FALSE)
  /\ UNCHANGED <<state, id, cancelled, released, target, joined>>

-----------------------------------------------------------------------------
(* Controllers *)

\* StartThread() finds the thread running.
StartRunning(c) ==
  /\ c \in Starter
  /\ pc[c] = "idle"
  /\ running
  /\ released' = DetachIfPendingJoin
  /\ state' = IF state = "PENDING_JOIN" THEN "DETACHED" ELSE state
  /\ UNCHANGED <<running, id, os, cancelled, pc, target, joined>>

\* StartThread() and SignalStartThread() up to the wait.  A thread that has
\* stopped itself is assumed to have ended before the object is used again:
\* otherwise its destructor, still to come, would be taken for the new one's.
CreateThread(c) ==
  /\ c \in Starter
  /\ pc[c] = "idle"
  /\ \A i \in Pthread : os[i] # "self_exit"
  /\ ~ running
  /\ id < MaxSpawn
  /\ id' = id + 1
  /\ os' = [os EXCEPT ![id + 1] = "launch"]
  /\ state' = "RUNNING"
  /\ released' = DetachIfPendingJoin
  /\ target' = [target EXCEPT ![c] = id + 1]
  /\ pc' = [pc EXCEPT ![c] = "start_wait"]
  /\ UNCHANGED <<running, cancelled, joined>>

\* pthread_create() fails.  RunningCondition.Set(false) gets no lock, because
\* the caller has it, but unlocks; nothing is left to do then.
CreateThreadFails(c) ==
  /\ c \in Starter
  /\ pc[c] = "idle"
  /\ ~ running
  /\ id = MaxSpawn
  /\ state' = "RUNNING"
  /\ released' = DetachIfPendingJoin
  /\ UNCHANGED <<running, id, os, cancelled, pc, target, joined>>

\* The wait of StartThread() is over.
StartReturns(c) ==
  /\ pc[c] = "start_woken"
  /\ pc' = [pc EXCEPT ![c] = "idle"]
  /\ UNCHANGED <<running, state, id, os, cancelled, released,
                 target, joined>>

\* SignalStopThread(), called while IsRunning()
SignalStopThread(c) ==
  /\ c \in Stopper
  /\ pc[c] = "idle"
  /\ running
  /\ cancelled' = cancelled \cup {id}
  /\ UNCHANGED <<running, state, id, os, released, pc,
                 target, joined>>

\* StopThread() of a thread that is not running
StopEnded(c) ==
  /\ c \in Stopper
  /\ pc[c] = "idle"
  /\ ~ running
  /\ released' = DetachIfPendingJoin
  /\ state' = IF state = "PENDING_JOIN" THEN "DETACHED" ELSE state
  /\ UNCHANGED <<running, id, os, cancelled, pc, target, joined>>

\* StopThread() of a running thread, up to the wait
CancelAndWait(c) ==
  /\ c \in Stopper
  /\ pc[c] = "idle"
  /\ running
  /\ cancelled' = cancelled \cup {id}
  /\ target' = [target EXCEPT ![c] = id]
  /\ pc' = [pc EXCEPT ![c] = "stop_wait"]
  /\ UNCHANGED <<running, state, id, os, released, joined>>

\* PreLockedWaitAndUnlockIf() returns; pthread_join(__thread_id) reads the
\* member without the lock, so that it may be another thread's by now.
Join(c) ==
  /\ pc[c] = "stop_woken"
  /\ joined' = [joined EXCEPT ![c] = id]
  /\ pc' = [pc EXCEPT ![c] = "join"]
  /\ UNCHANGED <<running, state, id, os, cancelled, released,
                 target>>

\* pthread_join() returns at the end of the thread, or at once with an error if that
\* was joined before, or has detached itself and may still be on its way out.
JoinReturns(c) ==
  /\ pc[c] = "join"
  /\ os[joined[c]] = "ended" \/ released[joined[c]] # 0
  /\ released' = Release(joined[c])
  /\ pc' = [pc EXCEPT ![c] = "stop_relock"]
  /\ UNCHANGED <<running, state, id, os, cancelled,
                 target, joined>>

\* The end of StopThread(), with the lock again
StopReturns(c) ==
  /\ pc[c] = "stop_relock"
  /\ released' = DetachIfPendingJoin
  /\ state' = IF state = "PENDING_JOIN" THEN "DETACHED" ELSE state
  /\ pc' = [pc EXCEPT ![c] = "idle"]
  /\ UNCHANGED <<running, id, os, cancelled, target, joined>>

-----------------------------------------------------------------------------
(* The threads spawned *)

\* pthreadLauncher() up to the call of Main()
EnableDestructor(i) ==
  /\ os[i] = "launch"
  /\ os' = [os EXCEPT ![i] = "main"]
  /\ PreLockedSet(TRUE)
  /\ UNCHANGED <<state, id, cancelled, released, target, joined>>

MainReturns(i) ==
  /\ os[i] = "main"
  /\ os' = [os EXCEPT ![i] = "exit"]
  /\ UNCHANGED <<running, state, id, cancelled, released, pc,
                 target, joined>>

\* Main() reaches a cancellation point.
ThreadCancelled(i) ==
  /\ os[i] = "main"
  /\ i \in cancelled
  /\ os' = [os EXCEPT ![i] = "exit"]
  /\ UNCHANGED <<running, state, id, cancelled, released, pc,
                 target, joined>>

\* Main() calls StopThread() on its own object.
StopSelf(i) ==
  /\ os[i] = "main"
  /\ id = i
  /\ PreLockedSet(FALSE)
  /\ state' = "DETACHED"
  /\ released' = Release(id)
  /\ os' = [os EXCEPT ![i] = "self_exit"]
  /\ UNCHANGED <<id, cancelled, target, joined>>

\* The destructor of the thread specific key
pthreadDestructor(i) ==
  /\ os[i] \in {"exit", "self_exit"}
  /\ os' = [os EXCEPT ![i] = "ended"]
  /\ state' = "PENDING_JOIN"
  /\ PreLockedSet(FALSE)
  /\ UNCHANGED <<id, cancelled, released, target, joined>>

-----------------------------------------------------------------------------
ControllerNext(c) ==
  \/ StartRunning(c) \/ CreateThread(c) \/ CreateThreadFails(c)
  \/ StartReturns(c) \/ SignalStopThread(c)
  \/ StopEnded(c) \/ CancelAndWait(c) \/ Join(c) \/ JoinReturns(c)
  \/ StopReturns(c)
PthreadNext(i) ==
  \/ EnableDestructor(i) \/ MainReturns(i) \/ ThreadCancelled(i) \/ StopSelf(i)
  \/ pthreadDestructor(i)
ThreadNext == \/ \E c \in Controller : ControllerNext(c)
              \/ \E i \in Pthread : PthreadNext(i)

ThreadSpec == ThreadInit /\ [][ThreadNext]_threadVars

\* The operating system runs every thread; Main() honours a cancellation, as
\* Thread.h requires of it, but need not return otherwise.
Fairness ==
  /\ \A c \in Controller : WF_threadVars(StartReturns(c) \/ Join(c)
                                   \/ JoinReturns(c) \/ StopReturns(c))
  /\ \A i \in Pthread : WF_threadVars(EnableDestructor(i) \/ ThreadCancelled(i)
                                \/ pthreadDestructor(i)
                               )
FairThreadSpec == ThreadSpec /\ Fairness

-----------------------------------------------------------------------------
(* Properties *)

\* StartThread() returns no earlier than the new thread has started to run.
StartWaits == \A c \in Controller :
  pc[c] = "start_woken" => os[target[c]] # "launch"

\* A thread that has left Main() for good: it has ended, or has stopped itself and
\* has but its destructor to run.
HasLeft(i) == os[i] \in {"self_exit", "ended"}

\* When StopThread() has called pthread_join(), neither the thread it has joined,
\* which need not be the one it has cancelled, nor an earlier one executes the
\* object's Main() any more, although pthread_join() does not wait for a thread that
\* has stopped itself.
NoneRunsAfterStop == \A c \in Controller :
  pc[c] = "stop_relock" => \A i \in 1..joined[c] : HasLeft(i)

\* At any time at most one thread executes Main() of the object.
OneMain == \A i, j \in Pthread :
  os[i] \in {"launch", "main"} /\ os[j] \in {"launch", "main"} => i = j

\* IsRunning() tells whether a thread has begun and not yet ended.
RunningIsAccurate == running <=> \E i \in Pthread : os[i] \in {"main", "exit"}

\* Every thread that has ended is joined or detached, except the last one,
\* which the next StartThread() or StopThread() will find pending.
NoThreadLeak == \A i \in Pthread :
  os[i] = "ended" /\ released[i] = 0 => i = id /\ state = "PENDING_JOIN"

\* StartThread() returns, and so does StopThread() unless the object is
\* started again before it gets to the join.
CallsReturn == \A c \in Controller :
  pc[c] # "idle" ~> pc[c] = "idle" \/ id # target[c]

\* What StartThread() and StopThread() promise their callers when they return, and
\* what IsRunning() tells everybody.
PromisesKept == ThreadTypeOK /\ StartWaits /\ NoneRunsAfterStop /\ RunningIsAccurate

\* One POSIX thread of the object at a time, and each of them joined or detached.
OneThread == OneMain /\ NoThreadLeak

-----------------------------------------------------------------------------
(* Statements of the code's comments that the code does not keep *)

\* StopThread(): "This method will block until the thread actually stopped its
\* execution before it will return from this method."
StopWaitsForEnd == \A c \in Controller :
  pc[c] = "stop_relock" => \A i \in 1..joined[c] : os[i] = "ended"

\* The detaching at the end of StopThread() is for a thread that terminated
\* "without any thread calling StopThread() yet", not for one just joined.
DetachOnlyUnjoined == \A c \in Controller :
  pc[c] = "stop_relock" /\ state = "PENDING_JOIN" => released[id] = 0
=============================================================================
