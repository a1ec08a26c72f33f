-------------------------- MODULE ConditionServer --------------------------
(***************************************************************************)
(* common/ConditionServer: a boolean condition that non real time threads  *)
(* (NRTTs) push to one real time thread (RTT), in the use that every       *)
(* engine makes of it: DisableAndLock() and Enable() of AbstractEngine     *)
(* freeze the audio thread's RenderAudio() while the engine's data is      *)
(* modified.                                                               *)
(*                                                                         *)
(* The condition is a SynchronizedConfig.  Here SwitchConfig() is taken as *)
(* the promise that module SynchronizedConfigProofs establishes: the new   *)
(* value is published at once, and the call returns when the RTT has left  *)
(* the critical region in which it was at that moment.                     *)
(***************************************************************************)
EXTENDS Integers

CONSTANTS Thread,   \* non real time threads
          NoThread, \* owner of a free mutex
          MaxDepth  \* bound on nested DisableAndLock() calls of one thread

ASSUME NoThreadAssumption == NoThread \notin Thread
ASSUME MaxDepthAssumption == MaxDepth \in Nat \ {0}

VARIABLES
  Condition,       \* the published condition: is the engine disabled?
  oldRegion,       \* the RTT is still in the region the switch waits for
  owner, count,    \* PushMutex, which is recursive
  npc, arg,        \* where each NRTT is in Push() or PushAndUnlock()
  depth,           \* DisableAndLock() calls without their Enable()
  rpc              \* where the RTT is in RenderAudio()
serverVars == <<Condition, oldRegion, owner, count, npc, arg, depth, rpc>>

ServerTypeOK == /\ Condition \in BOOLEAN
                /\ oldRegion \in BOOLEAN
                /\ owner \in Thread \cup {NoThread}
                /\ count \in 0..MaxDepth
                /\ npc \in [Thread -> {"free", "lock", "switch", "wait", "unlock"}]
                /\ arg \in [Thread -> BOOLEAN]
                /\ depth \in [Thread -> 0..MaxDepth]
                /\ rpc \in {"out", "disabled", "render"}

ServerInit == /\ Condition = FALSE
              /\ oldRegion = FALSE
              /\ owner = NoThread /\ count = 0
              /\ npc = [t \in Thread |-> "free"]
              /\ arg = [t \in Thread |-> FALSE]
              /\ depth = [t \in Thread |-> 0]
              /\ rpc = "out"

-----------------------------------------------------------------------------
(* Faulty variants of the code below *)

\* Push() without the mutex
LockPushMutex_Missing(t) ==
  /\ npc[t] = "lock"
  /\ npc' = [npc EXCEPT ![t] = "switch"]
  /\ UNCHANGED <<Condition, oldRegion, owner, count, arg, depth, rpc>>

\* Push() does not wait for the RTT
SwitchConfigReturns_NoWait(t) ==
  /\ npc[t] = "wait"
  /\ npc' = [npc EXCEPT ![t] = IF arg[t] THEN "free" ELSE "unlock"]
  /\ depth' = [depth EXCEPT ![t] = IF arg[t] THEN @ + 1 ELSE @]
  /\ UNCHANGED <<Condition, oldRegion, owner, count, arg, rpc>>

\* PushAndUnlock() forgets to unlock
UnlockPushMutex_Missing(t) ==
  /\ npc[t] = "unlock"
  /\ depth' = [depth EXCEPT ![t] = @ - 1]
  /\ npc' = [npc EXCEPT ![t] = "free"]
  /\ UNCHANGED <<Condition, oldRegion, owner, count, arg, rpc>>

\* RenderAudio() returns from its first check without RttDone()
RttDone_NotIfDisabled ==
  /\ rpc = "render"
  /\ rpc' = "out"
  /\ oldRegion' = FALSE
  /\ UNCHANGED <<Condition, owner, count, npc, arg, depth>>

-----------------------------------------------------------------------------
(* Non real time threads *)

\* DisableAndLock() calls Push(true).
DisableAndLock(t) ==
  /\ npc[t] = "free"
  /\ depth[t] < MaxDepth
  /\ npc' = [npc EXCEPT ![t] = "lock"]
  /\ arg' = [arg EXCEPT ![t] = TRUE]
  /\ UNCHANGED <<Condition, oldRegion, owner, count, depth, rpc>>

\* PushMutex.Lock()
LockPushMutex(t) ==
  /\ npc[t] = "lock"
  /\ owner \in {t, NoThread}
  /\ owner' = t
  /\ count' = count + 1
  /\ npc' = [npc EXCEPT ![t] = "switch"]
  /\ UNCHANGED <<Condition, oldRegion, arg, depth, rpc>>

\* Enable() calls PushAndUnlock(false, ..., bAlreadyLocked = true).
Enable(t) ==
  /\ npc[t] = "free"
  /\ depth[t] > 0
  /\ npc' = [npc EXCEPT ![t] = "switch"]
  /\ arg' = [arg EXCEPT ![t] = FALSE]
  /\ UNCHANGED <<Condition, oldRegion, owner, count, depth, rpc>>

\* The update of the condition up to the index store of SwitchConfig()
Publish(t) ==
  /\ npc[t] = "switch"
  /\ Condition' = arg[t]
  /\ oldRegion' = (rpc # "out")
  /\ npc' = [npc EXCEPT ![t] = "wait"]
  /\ UNCHANGED <<owner, count, arg, depth, rpc>>

\* SwitchConfig() has waited for the RTT; Push() is done here.
SwitchConfigReturns(t) ==
  /\ npc[t] = "wait"
  /\ ~ oldRegion
  /\ npc' = [npc EXCEPT ![t] = IF arg[t] THEN "free" ELSE "unlock"]
  /\ depth' = [depth EXCEPT ![t] = IF arg[t] THEN @ + 1 ELSE @]
  /\ UNCHANGED <<Condition, oldRegion, owner, count, arg, rpc>>

\* Unlock() at the end of PushAndUnlock()
UnlockPushMutex(t) ==
  /\ npc[t] = "unlock"
  /\ count' = count - 1
  /\ owner' = IF count = 1 THEN NoThread ELSE owner
  /\ depth' = [depth EXCEPT ![t] = @ - 1]
  /\ npc' = [npc EXCEPT ![t] = "free"]
  /\ UNCHANGED <<Condition, oldRegion, arg, rpc>>

-----------------------------------------------------------------------------
(* The real time thread: one call of RenderAudio() *)

\* EngineDisabled.Pop(): a disabled engine does not touch its data.
Pop ==
  /\ rpc = "out"
  /\ rpc' = IF Condition THEN "disabled" ELSE "render"
  /\ UNCHANGED <<Condition, oldRegion, owner, count, npc, arg, depth>>

\* EngineDisabled.RttDone(), at the early return and at the end
RttDone ==
  /\ rpc # "out"
  /\ rpc' = "out"
  /\ oldRegion' = FALSE
  /\ UNCHANGED <<Condition, owner, count, npc, arg, depth>>

-----------------------------------------------------------------------------
Nrtt(t) == \/ LockPushMutex(t) \/ Publish(t) \/ SwitchConfigReturns(t)
           \/ UnlockPushMutex(t)

ServerNext == \/ \E t \in Thread : DisableAndLock(t) \/ Enable(t) \/ Nrtt(t)
              \/ Pop
              \/ RttDone

ServerSpec == ServerInit /\ [][ServerNext]_serverVars

\* Threads inside of ConditionServer proceed, a thread ends its critical
\* sections, however it nests them, and the mutex is granted to a thread that
\* keeps waiting for it.
NrttFairness == \A t \in Thread :
  /\ WF_serverVars(Nrtt(t))
  /\ \A d \in 1..MaxDepth : SF_serverVars(Enable(t) /\ depth[t] = d)
  /\ SF_serverVars(LockPushMutex(t))

\* The audio driver calls RenderAudio() until it returns.
FairServerSpec == ServerSpec /\ NrttFairness /\ WF_serverVars(RttDone)

-----------------------------------------------------------------------------
(* Properties *)

\* The thread has returned from DisableAndLock() and not called Enable() since.
InCriticalSection(t) == npc[t] = "free" /\ depth[t] > 0 /\ arg[t]

\* While a thread modifies the engine between DisableAndLock() and Enable(),
\* RenderAudio() is not past its check.
QuietEngine == \A t \in Thread : InCriticalSection(t) => rpc # "render"

\* At most one thread is between DisableAndLock() and Enable().
OneDisabler == \A t, u \in Thread : depth[t] > 0 /\ depth[u] > 0 => t = u

\* Nothing is left behind: when no thread is inside, the engine is enabled and
\* the mutex is free.
LeftEnabled == (\A t \in Thread : npc[t] = "free" /\ depth[t] = 0) =>
                  ~ Condition /\ owner = NoThread

\* Whoever calls DisableAndLock() gets its critical section.
EveryDisableReturns == \A t \in Thread : npc[t] = "lock" ~> npc[t] = "free"

\* The condition is one value with a grace period, as SynchronizedConfig
\* promises; that needs the mutex, since it allows one updating thread only.
Grace == INSTANCE GracePeriod WITH
  Reader <- {"RTT"},
  Data <- {"disabled", "render"},
  NoData <- "out",
  current <- IF Condition THEN "disabled" ELSE "render",
  held <- [r \in {"RTT"} |-> rpc],
  phase <- IF \E t \in Thread : npc[t] = "wait" THEN "switching" ELSE "ready"
GracePeriodSpec == Grace!Spec

\* DisableAndLock(), Enable() and RenderAudio() together: nothing is rendered in a
\* critical section, one thread is in one, and the engine is enabled when none is.
SafeDisabling == ServerTypeOK /\ QuietEngine /\ OneDisabler /\ LeftEnabled

-----------------------------------------------------------------------------
(* A statement of the code's comments that the code does not keep *)

\* "the thread can safely enter a critical section and has to Unlock() right
\* after it left" it: also the outer one of two nested critical sections.
OuterSectionQuiet ==
  \A t \in Thread : npc[t] = "free" /\ depth[t] > 0 => rpc # "render"
=============================================================================
