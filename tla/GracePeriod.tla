---------------------------- MODULE GracePeriod ----------------------------
(***************************************************************************)
(* What SynchronizedConfig promises to its two sides, without instances,   *)
(* indices, lock words or memory ordering: one current value, which the    *)
(* non real time thread replaces in one step, and a grace period after the *)
(* replacement, which ends only when no real time thread is left that      *)
(* still holds an earlier value.  A value that a reader holds never        *)
(* changes under it.                                                       *)
(***************************************************************************)
CONSTANTS Reader, \* the real time threads' Reader objects
          Data,   \* the values the configuration can have
          NoData  \* what a reader holds outside of its critical region, not in Data

VARIABLES current, \* the published value
          held,    \* what each reader got from Lock()
          phase    \* "ready", or "switching" during the grace period
vars == <<current, held, phase>>

TypeOK == /\ current \in Data
          /\ held \in [Reader -> Data \cup {NoData}]
          /\ phase \in {"ready", "switching"}

Init == /\ current \in Data
        /\ held = [r \in Reader |-> NoData]
        /\ phase = "ready"

Publish(d) == /\ phase = "ready"
              /\ current' = d
              /\ phase' = "switching"
              /\ UNCHANGED held

EndGracePeriod == /\ phase = "switching"
                  /\ \A r \in Reader : held[r] \in {NoData, current}
                  /\ phase' = "ready"
                  /\ UNCHANGED <<current, held>>

Lock(r) == /\ held[r] = NoData
           /\ held' = [held EXCEPT ![r] = current]
           /\ UNCHANGED <<current, phase>>

Unlock(r) == /\ held[r] # NoData
             /\ held' = [held EXCEPT ![r] = NoData]
             /\ UNCHANGED <<current, phase>>

Next == \/ \E d \in Data : Publish(d)
        \/ EndGracePeriod
        \/ \E r \in Reader : Lock(r) \/ Unlock(r)

Spec == Init /\ [][Next]_vars
=============================================================================
