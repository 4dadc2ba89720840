---------------------------- MODULE ExposerNode ----------------------------
(***************************************************************************)
(* The exposer of Exposer.tla together with the node-side caller that      *)
(* consumes what Expose built: after Expose returned nil it calls          *)
(* GetExposed (csi_snapshot.go lines 239-299) until the hosting pod is     *)
(* found, then keeps calling PeekExposed (lines 301-323) while the data    *)
(* mover runs, and gives up on the first error either returns.  The caller *)
(* runs concurrently with CleanUp (a cancel) and with the cluster, which   *)
(* may fail the pod (kube.IsPodUnrecoverable) or evict it.                 *)
(***************************************************************************)
EXTENDS Exposer

CONSTANT MaxEvictions   \* bound on pods deleted by someone else than the exposer

ASSUME EvictionsAssumption == MaxEvictions \in Nat

\* Caller states: waiting for the pod event, inside GetExposed before and
\* after the pod Get, watching the data mover, or given up.
CallerStates == {"idle", "getPod", "waitPVC", "watching", "aborted"}

\* What the last PeekExposed saw: nothing yet, no pod (NotFound), a failed
\* Get (logged), or a pod that is not unrecoverable.
PeekResults == {"none", "notFound", "getFailed", "healthy"}

VARIABLES
    caller,     \* control point of the node-side caller
    lastPeek,   \* the branch of PeekExposed taken last
    podFailed,  \* the hosting pod is in a state IsPodUnrecoverable reports
    evictions   \* pods deleted by the cluster so far

nodeVars == <<caller, lastPeek, podFailed, evictions>>
allVars  == <<vars, nodeVars>>

NodeTypeOK ==
    /\ TypeOK
    /\ caller \in CallerStates /\ lastPeek \in PeekResults
    /\ podFailed \in BOOLEAN /\ evictions \in 0..MaxEvictions

NodeInit ==
    /\ Init
    /\ caller = "idle" /\ lastPeek = "none" /\ podFailed = FALSE /\ evictions = 0

\* WaitPVCBound's condition: the claim exists and names its volume.
PVCBound == obj["backupPVC"] /= "absent" /\ obj["backupPV"] /= "absent"

-----------------------------------------------------------------------------
(* The caller and the exposer's read operations.                          *)

\* The pod event of a successful Expose makes the caller call GetExposed.
CallGetExposed ==
    /\ caller = "idle" /\ pc = "exposed"
    /\ caller' = "getPod"
    /\ UNCHANGED <<vars, lastPeek, podFailed, evictions>>

\* Lines 252-264: Get the pod; NotFound returns nil, nil (the caller waits
\* for the next event), another error is returned.
GetExposedGetPod ==
    /\ caller = "getPod"
    /\ \/ obj["backupPod"] = "absent" /\ caller' = "idle" /\ UNCHANGED faults
       \/ Fault /\ caller' = "aborted"
       \/ obj["backupPod"] /= "absent" /\ caller' = "waitPVC" /\ UNCHANGED faults
    /\ UNCHANGED <<obj, policy, snapshot, srcReady, provisioning, pc, defers,
                   crashes, swallowed, lastPeek, podFailed, evictions>>

\* Lines 268-298: kube.WaitPVCBound polls the claim; a missing claim or a
\* failed Get is an error, the deadline passes while it is unbound, and once
\* bound the backup volume is found in the pod read before (lines 275-284
\* cannot fail for a pod createBackupPod built) and the result returned.
GetExposedWaitPVC ==
    /\ caller = "waitPVC"
    /\ \/ PVCBound /\ caller' = "watching" /\ UNCHANGED faults
       \/ obj["backupPVC"] = "absent" /\ caller' = "aborted" /\ UNCHANGED faults
       \/ obj["backupPVC"] /= "absent" /\ ~PVCBound /\ caller' = "aborted"
          /\ UNCHANGED faults
       \/ Fault /\ caller' = "aborted"
    /\ UNCHANGED <<obj, policy, snapshot, srcReady, provisioning, pc, defers,
                   crashes, swallowed, lastPeek, podFailed, evictions>>

\* Mutant: the IsPodUnrecoverable check is left out (lines 318-320).
PeekExposedNoHealthCheck ==
    /\ caller = "watching"
    /\ \/ obj["backupPod"] = "absent" /\ lastPeek' = "notFound" /\ UNCHANGED faults
       \/ Fault /\ lastPeek' = "getFailed"
       \/ obj["backupPod"] /= "absent" /\ lastPeek' = "healthy" /\ UNCHANGED faults
    /\ UNCHANGED <<obj, policy, snapshot, srcReady, provisioning, pc, defers,
                   crashes, swallowed, caller, podFailed, evictions>>

\* Lines 301-323: NotFound and a failed Get return nil; an unrecoverable
\* pod returns its message as an error and the caller gives up.
PeekExposed ==
    /\ caller = "watching"
    /\ \/ obj["backupPod"] = "absent" /\ lastPeek' = "notFound"
          /\ UNCHANGED <<faults, caller>>
       \/ Fault /\ lastPeek' = "getFailed" /\ UNCHANGED caller
       \/ obj["backupPod"] /= "absent" /\ ~podFailed /\ lastPeek' = "healthy"
          /\ UNCHANGED <<faults, caller>>
       \/ obj["backupPod"] /= "absent" /\ podFailed /\ caller' = "aborted"
          /\ UNCHANGED <<faults, lastPeek>>
    /\ UNCHANGED <<obj, policy, snapshot, srcReady, provisioning, pc, defers,
                   crashes, swallowed, podFailed, evictions>>

-----------------------------------------------------------------------------
(* The cluster acting on the hosting pod.                                  *)

\* The pod becomes unrecoverable (failed, unschedulable, image pull error).
PodFails ==
    /\ obj["backupPod"] /= "absent" /\ ~podFailed
    /\ podFailed' = TRUE
    /\ UNCHANGED <<vars, caller, lastPeek, evictions>>

\* The pod is deleted by someone else (eviction, preemption, a user).
EvictPod ==
    /\ obj["backupPod"] = "live" /\ evictions < MaxEvictions
    /\ obj' = [obj EXCEPT !["backupPod"] = "terminating"]
    /\ evictions' = evictions + 1
    /\ UNCHANGED <<policy, snapshot, srcReady, provisioning, pc, defers, faults,
                   crashes, swallowed, caller, lastPeek, podFailed>>

NodeNext ==
    \/ Next /\ UNCHANGED nodeVars
    \/ CallGetExposed \/ GetExposedGetPod \/ GetExposedWaitPVC \/ PeekExposed
    \/ PodFails \/ EvictPod

\* The caller reacts to every event and every poll returns; the cluster's
\* failures and evictions get no fairness.
NodeFairness ==
    /\ Fairness
    /\ WF_allVars(CallGetExposed) /\ WF_allVars(GetExposedGetPod)
    /\ WF_allVars(GetExposedWaitPVC) /\ WF_allVars(PeekExposed)

NodeSpec == NodeInit /\ [][NodeNext]_allVars /\ NodeFairness

-----------------------------------------------------------------------------
(* Properties.                                                             *)

\* Spec 4.3: when the hosting pod becomes unrecoverable while the caller is
\* watching it, PeekExposed eventually returns the error so that the caller
\* aborts, unless the pod is deleted first.  Failed Gets in between are
\* only logged; the faults are bounded, so the Gets succeed again and the
\* failure is then reported.
UnrecoverablePodAborts ==
    (caller = "watching" /\ podFailed /\ obj["backupPod"] /= "absent")
        ~> (caller = "aborted" \/ obj["backupPod"] = "absent")

=============================================================================
