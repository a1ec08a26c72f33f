------------------------ MODULE SynchronizedConfig ------------------------
(***************************************************************************)
(* common/SynchronizedConfig.h: a configuration object in two instances,   *)
(* read without blocking by real time threads (class Reader) and updated   *)
(* by one non real time thread, which writes the instance that is not in   *)
(* use, publishes its index, waits until every reader that was inside its  *)
(* critical region has left it, and repeats the update on the other        *)
(* instance.                                                               *)
(*                                                                         *)
(* The code relies on two memory fences, so stores are not atomic here:    *)
(* a thread's store first enters a queue of pending stores (one queue for  *)
(* each location) and is committed to shared memory later.  Pending stores *)
(* to different locations commit in any order, except that a store with    *)
(* memory_order_release commits only after what its thread stored before.  *)
(* atomic_thread_fence(memory_order_seq_cst) blocks until the pending      *)
(* stores of its thread are committed.  Loads are performed in program     *)
(* order.                                                                  *)
(***************************************************************************)
EXTENDS Integers, Sequences

CONSTANTS Reader,  \* Reader objects, one real time thread each
          Field,   \* members of the configuration type T
          Value,   \* values of a member
          MaxLock  \* bound on lockCount, for each reader

ASSUME FieldAssumption == Field # {}
ASSUME MaxLockAssumption == MaxLock \in [Reader -> Nat]

VARIABLES
  config, index, lock,             \* shared memory: config[2], indexAtomic, Reader::lock
  configBuf, indexBuf, lockBuf,    \* stores not yet committed to it
  readers,                         \* registered Reader objects
  wpc, updateIndex, newValue, todo,\* the non real time thread
  unscanned, lockingReaders, prevLock,
  rtpc, lockCount, readIndex        \* the real time threads

memory     == <<config, index, lock>>
buffers    == <<configBuf, indexBuf, lockBuf>>
writer     == <<wpc, updateIndex, newValue, todo, unscanned, lockingReaders, prevLock>>
rtt        == <<rtpc, lockCount, readIndex>>
configVars == <<memory, buffers, readers, writer, rtt>>

Instance == 0..1
Odd == {n \in Nat : n % 2 = 1}   \* values of lockCount

ConfigTypeOK ==
  /\ config \in [Instance -> [Field -> Value]]
  /\ index \in Instance
  /\ lock \in [Reader -> Odd \cup {0}]
  /\ configBuf \in [Instance -> [Field -> Seq(Value)]]
  /\ indexBuf \in Seq(Instance)
  /\ lockBuf \in [Reader -> Seq(Odd \cup {0})]
  /\ readers \subseteq Reader
  /\ wpc \in {"idle", "update", "switch", "fence", "scan", "wait", "redo"}
  /\ updateIndex \in Instance
  /\ newValue \in Value
  /\ todo \subseteq Field
  /\ unscanned \subseteq Reader
  /\ lockingReaders \subseteq Reader
  /\ prevLock \in [Reader -> Odd \cup {0}]
  /\ rtpc \in [Reader -> {"out", "fence", "load", "in"}]
  /\ lockCount \in [Reader -> Odd]
  /\ readIndex \in [Reader -> Instance]

ConfigInit ==
  /\ \E v \in Value : /\ config = [i \in Instance |-> [f \in Field |-> v]]
                      /\ newValue = v
  /\ index = 0 /\ updateIndex = 1
  /\ lock = [r \in Reader |-> 0]
  /\ configBuf = [i \in Instance |-> [f \in Field |-> << >>]]
  /\ indexBuf = << >>
  /\ lockBuf = [r \in Reader |-> << >>]
  /\ readers = {}
  /\ wpc = "idle"
  /\ todo = {} /\ unscanned = {} /\ lockingReaders = {}
  /\ prevLock = [r \in Reader |-> 0]
  /\ rtpc = [r \in Reader |-> "out"]
  /\ lockCount = [r \in Reader |-> 1]
  /\ readIndex = [r \in Reader |-> 0]

-----------------------------------------------------------------------------
(* Faulty variants of the code below.  Each makes TLC find a property      *)
(* violated, and so shows that the property depends on that piece of code. *)

\* indexAtomic stored with memory_order_relaxed
CommitIndex_Relaxed ==
  /\ indexBuf # << >>
  /\ index' = Head(indexBuf)
  /\ indexBuf' = Tail(indexBuf)
  /\ UNCHANGED <<config, lock, configBuf, lockBuf, readers, writer, rtt>>

\* no fence in SwitchConfig()
WriterFence_Missing ==
  /\ wpc = "fence"
  /\ wpc' = "scan"
  /\ unscanned' = readers
  /\ lockingReaders' = {}
  /\ UNCHANGED <<memory, buffers, readers, updateIndex, newValue, todo, prevLock, rtt>>

\* the polling loop waits until the reader is unlocked
Unlink_WhenUnlocked(r) ==
  /\ wpc = "wait"
  /\ r \in lockingReaders
  /\ lock[r] = 0
  /\ lockingReaders' = lockingReaders \ {r}
  /\ UNCHANGED <<memory, buffers, readers, wpc, updateIndex, newValue, todo, unscanned,
                 prevLock, rtt>>

\* the list of locking readers is polled only once
SwitchReturns_OnePoll ==
  /\ wpc = "wait"
  /\ updateIndex' = 1 - updateIndex
  /\ wpc' = "redo"
  /\ todo' = Field
  /\ lockingReaders' = {}
  /\ UNCHANGED <<memory, buffers, readers, newValue, unscanned, prevLock, rtt>>

\* the caller does not repeat the update on the other instance
SwitchReturns_NoRedo ==
  /\ wpc = "wait"
  /\ lockingReaders = {}
  /\ updateIndex' = 1 - updateIndex
  /\ wpc' = "idle"
  /\ todo' = {}
  /\ UNCHANGED <<memory, buffers, readers, newValue, unscanned, lockingReaders, prevLock,
                 rtt>>

\* lockCount may become 0 modulo 2
LockStore_ByOne(r) ==
  /\ rtpc[r] = "out"
  /\ r \in readers
  /\ lockCount[r] + 2 <= MaxLock[r]
  /\ lockCount' = [lockCount EXCEPT ![r] = @ + 1]
  /\ lockBuf' = [lockBuf EXCEPT ![r] = Append(@, lockCount[r] + 1)]
  /\ rtpc' = [rtpc EXCEPT ![r] = "fence"]
  /\ UNCHANGED <<memory, configBuf, indexBuf, readers, writer, readIndex>>

\* no fence in Lock()
LockFence_Missing(r) ==
  /\ rtpc[r] = "fence"
  /\ rtpc' = [rtpc EXCEPT ![r] = "load"]
  /\ UNCHANGED <<memory, buffers, readers, writer, lockCount, readIndex>>

-----------------------------------------------------------------------------
(* Commit of pending stores *)

ConfigDrained == \A i \in Instance, f \in Field : configBuf[i][f] = << >>

CommitConfig(i, f) ==
  /\ configBuf[i][f] # << >>
  /\ config' = [config EXCEPT ![i][f] = Head(configBuf[i][f])]
  /\ configBuf' = [configBuf EXCEPT ![i][f] = Tail(@)]
  /\ UNCHANGED <<index, lock, indexBuf, lockBuf, readers, writer, rtt>>

\* indexAtomic is stored with memory_order_release.
CommitIndex ==
  /\ indexBuf # << >>
  /\ ConfigDrained
  /\ index' = Head(indexBuf)
  /\ indexBuf' = Tail(indexBuf)
  /\ UNCHANGED <<config, lock, configBuf, lockBuf, readers, writer, rtt>>

CommitLock(r) ==
  /\ lockBuf[r] # << >>
  /\ lock' = [lock EXCEPT ![r] = Head(lockBuf[r])]
  /\ lockBuf' = [lockBuf EXCEPT ![r] = Tail(@)]
  /\ UNCHANGED <<config, index, configBuf, indexBuf, readers, writer, rtt>>

-----------------------------------------------------------------------------
(* The non real time thread *)

\* Constructor and destructor of Reader: both run on the non real time side,
\* and the thread that owns the Reader is outside of its critical region.
AddReader(r) ==
  /\ wpc = "idle"
  /\ r \notin readers
  /\ readers' = readers \cup {r}
  /\ UNCHANGED <<memory, buffers, writer, rtt>>

RemoveReader(r) ==
  /\ wpc = "idle"
  /\ r \in readers
  /\ rtpc[r] = "out" /\ lock[r] = 0 /\ lockBuf[r] = << >>
  /\ readers' = readers \ {r}
  /\ UNCHANGED <<memory, buffers, writer, rtt>>

\* GetConfigForUpdate(): the caller decides on an update of the whole object
\* and applies it to config[updateIndex], member by member.
GetConfigForUpdate(v) ==
  /\ wpc = "idle"
  /\ wpc' = "update"
  /\ newValue' = v
  /\ todo' = Field
  /\ UNCHANGED <<memory, buffers, readers, updateIndex, unscanned, lockingReaders,
                 prevLock, rtt>>

\* One member of the instance that is being updated, first or second time.
WriteField(f) ==
  /\ wpc \in {"update", "redo"}
  /\ f \in todo
  /\ configBuf' = [configBuf EXCEPT ![updateIndex][f] = Append(@, newValue)]
  /\ todo' = todo \ {f}
  /\ wpc' = IF todo' # {} THEN wpc ELSE IF wpc = "update" THEN "switch" ELSE "idle"
  /\ UNCHANGED <<memory, indexBuf, lockBuf, readers, updateIndex, newValue, unscanned,
                 lockingReaders, prevLock, rtt>>

\* SwitchConfig(): indexAtomic.store(updateIndex, memory_order_release)
StoreIndex ==
  /\ wpc = "switch"
  /\ indexBuf' = Append(indexBuf, updateIndex)
  /\ wpc' = "fence"
  /\ UNCHANGED <<memory, configBuf, lockBuf, readers, updateIndex, newValue, todo,
                 unscanned, lockingReaders, prevLock, rtt>>

\* atomic_thread_fence(memory_order_seq_cst)
WriterFence ==
  /\ wpc = "fence"
  /\ ConfigDrained /\ indexBuf = << >>
  /\ wpc' = "scan"
  /\ unscanned' = readers
  /\ lockingReaders' = {}
  /\ UNCHANGED <<memory, buffers, readers, updateIndex, newValue, todo, prevLock, rtt>>

\* One reader of the loop that collects the locking readers.
ScanReader(r) ==
  /\ wpc = "scan"
  /\ r \in unscanned
  /\ unscanned' = unscanned \ {r}
  /\ prevLock' = [prevLock EXCEPT ![r] = lock[r]]
  /\ lockingReaders' = IF lock[r] # 0 THEN lockingReaders \cup {r} ELSE lockingReaders
  /\ UNCHANGED <<memory, buffers, readers, wpc, updateIndex, newValue, todo, rtt>>

ScanDone ==
  /\ wpc = "scan"
  /\ unscanned = {}
  /\ wpc' = "wait"
  /\ UNCHANGED <<memory, buffers, readers, updateIndex, newValue, todo, unscanned,
                 lockingReaders, prevLock, rtt>>

\* The polling loop takes a reader off the list once its lock has changed.
Unlink(r) ==
  /\ wpc = "wait"
  /\ r \in lockingReaders
  /\ lock[r] # prevLock[r]
  /\ lockingReaders' = lockingReaders \ {r}
  /\ UNCHANGED <<memory, buffers, readers, wpc, updateIndex, newValue, todo, unscanned,
                 prevLock, rtt>>

\* SwitchConfig() returns the other instance, and the caller repeats the update.
SwitchReturns ==
  /\ wpc = "wait"
  /\ lockingReaders = {}
  /\ updateIndex' = 1 - updateIndex
  /\ wpc' = "redo"
  /\ todo' = Field
  /\ UNCHANGED <<memory, buffers, readers, newValue, unscanned, lockingReaders, prevLock,
                 rtt>>

-----------------------------------------------------------------------------
(* The real time threads *)

\* Lock(): lock.store(lockCount += 2, memory_order_relaxed)
LockStore(r) ==
  /\ rtpc[r] = "out"
  /\ r \in readers
  /\ lockCount[r] + 2 <= MaxLock[r]
  /\ lockCount' = [lockCount EXCEPT ![r] = @ + 2]
  /\ lockBuf' = [lockBuf EXCEPT ![r] = Append(@, lockCount[r] + 2)]
  /\ rtpc' = [rtpc EXCEPT ![r] = "fence"]
  /\ UNCHANGED <<memory, configBuf, indexBuf, readers, writer, readIndex>>

\* Lock(): atomic_thread_fence(memory_order_seq_cst)
LockFence(r) ==
  /\ rtpc[r] = "fence"
  /\ lockBuf[r] = << >>
  /\ rtpc' = [rtpc EXCEPT ![r] = "load"]
  /\ UNCHANGED <<memory, buffers, readers, writer, lockCount, readIndex>>

\* Lock(): parent->config[parent->indexAtomic.load(memory_order_acquire)]
LockLoad(r) ==
  /\ rtpc[r] = "load"
  /\ readIndex' = [readIndex EXCEPT ![r] = index]
  /\ rtpc' = [rtpc EXCEPT ![r] = "in"]
  /\ UNCHANGED <<memory, buffers, readers, writer, lockCount>>

\* Unlock(): lock.store(0, memory_order_release)
Unlock(r) ==
  /\ rtpc[r] = "in"
  /\ lockBuf' = [lockBuf EXCEPT ![r] = Append(@, 0)]
  /\ rtpc' = [rtpc EXCEPT ![r] = "out"]
  /\ UNCHANGED <<memory, configBuf, indexBuf, readers, writer, lockCount, readIndex>>

-----------------------------------------------------------------------------
Commit == \/ \E i \in Instance, f \in Field : CommitConfig(i, f)
          \/ CommitIndex
          \/ \E r \in Reader : CommitLock(r)

SwitchConfig == \/ StoreIndex \/ WriterFence \/ ScanDone \/ SwitchReturns
                \/ \E r \in Reader : ScanReader(r) \/ Unlink(r)

Update == \/ \E v \in Value : GetConfigForUpdate(v)
          \/ \E f \in Field : WriteField(f)

Lock(r) == LockStore(r) \/ LockFence(r) \/ LockLoad(r)

ConfigNext == \/ Commit
              \/ \E r \in Reader : AddReader(r) \/ RemoveReader(r)
              \/ Update
              \/ SwitchConfig
              \/ \E r \in Reader : Lock(r) \/ Unlock(r)

ConfigSpec == ConfigInit /\ [][ConfigNext]_configVars

\* Pending stores are committed eventually, the non real time thread keeps
\* running, a real time thread gets through Lock(), and it ends the critical
\* regions for which the writer is waiting.  Critical regions that begin
\* later need not end.
ConfigFairness ==
  /\ WF_configVars(Commit)
  /\ \A r \in Reader : WF_configVars(CommitLock(r))
  /\ WF_configVars(SwitchConfig)
  /\ WF_configVars(\E f \in Field : WriteField(f))
  /\ \A r \in Reader : WF_configVars(LockFence(r) \/ LockLoad(r))
  /\ \A r \in Reader :
       WF_configVars(r \in lockingReaders /\ lock[r] = prevLock[r] /\ Unlock(r))

FairConfigSpec == ConfigSpec /\ ConfigFairness

-----------------------------------------------------------------------------
(* Properties *)

\* The writer may store to config[updateIndex].
Writing == wpc \in {"idle", "update", "switch", "redo"}

\* The object that GetConfigForUpdate() or SwitchConfig() handed to the non
\* real time thread is in no real time thread's critical region.
ExclusiveUpdate ==
  \A r \in Reader : Writing /\ rtpc[r] = "in" => readIndex[r] # updateIndex

\* Lock() never hands out a half written object: all members of what a reader
\* holds come from the same update.
NoTornRead ==
  \A r \in Reader : rtpc[r] = "in" =>
    \A f, g \in Field : config[readIndex[r]][f] = config[readIndex[r]][g]

\* "The object is safe to use (read only) until Unlock() is called": it does
\* not change while the reader is inside.
StableWhileLocked ==
  [][\A r \in Reader : rtpc[r] = "in" /\ rtpc'[r] = "in" =>
        config'[readIndex'[r]] = config[readIndex[r]]]_configVars

\* Between updates the two instances agree once the stores are committed.
InstancesAgree == wpc = "idle" /\ ConfigDrained => config[0] = config[1]

\* What readers and writer find in the configuration is one update as a whole: in
\* the instance a reader holds, and in both instances between updates.
DataIsWhole == ConfigTypeOK /\ NoTornRead /\ InstancesAgree

\* SwitchConfig() returns although readers may lock again, and may then never
\* unlock: it waits only for the critical regions it found.
SwitchTerminates == wpc = "fence" ~> wpc = "redo"

-----------------------------------------------------------------------------
(* The configuration as one value that is replaced at once *)

NoData == << >>

ConfigGrace == INSTANCE GracePeriod WITH
  Data <- [Field -> Value],
  current <- config[index],
  held <- [r \in Reader |-> IF rtpc[r] = "in" THEN config[readIndex[r]] ELSE NoData],
  phase <- IF index = updateIndex THEN "switching" ELSE "ready"

\* SynchronizedConfig implements a single value with a grace period.
ConfigGracePeriodSpec == ConfigGrace!Spec
=============================================================================
