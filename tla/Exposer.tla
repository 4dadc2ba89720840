------------------------------ MODULE Exposer ------------------------------
(***************************************************************************)
(* The CSI snapshot exposer of pkg/exposer/csi_snapshot.go, for one owner  *)
(* object (one DataUpload), together with the cluster controllers whose    *)
(* reactions its correctness depends on.                                   *)
(*                                                                         *)
(* The exposer is one goroutine: Expose runs its steps in order, unwinds   *)
(* the deferred compensations on the first error, and returns; later the   *)
(* caller runs CleanUp, which may be repeated.  The process may crash at   *)
(* any step (deferred functions then never run) and the caller's restart   *)
(* then runs CleanUp.  Every API call may fail; faults and crashes are     *)
(* bounded by MaxFaults and MaxCrashes.                                    *)
(*                                                                         *)
(* The object store holds seven objects, named as in the code:             *)
(*   vs, vsc            the source VolumeSnapshot and its content          *)
(*   backupVS,backupVSC the exposer's decoupled snapshot and its content   *)
(*   backupPVC,backupPV the intermediate claim and the volume bound to it  *)
(*   backupPod          the hosting pod                                    *)
(* Both contents point at one storage snapshot (the handle); `snapshot`    *)
(* records whether the storage snapshot still exists.                      *)
(***************************************************************************)
EXTENDS Naturals, Sequences, SequencesExt

CONSTANTS
    MaxFaults,   \* bound on failed API calls and expired waits
    MaxCrashes   \* bound on process crashes

ASSUME BoundsAssumption == MaxFaults \in Nat /\ MaxCrashes \in Nat

Objects   == {"vs", "vsc", "backupVS", "backupVSC", "backupPVC", "backupPV", "backupPod"}
Contents  == {"vsc", "backupVSC"}
Snapshots == {"vs", "backupVS"}
Status    == {"absent", "live", "terminating"}
Policies  == {"Delete", "Retain"}

\* The content a snapshot is bound to.
BoundContent(v) == IF v = "vs" THEN "vsc" ELSE "backupVSC"

\* Deferred compensations of Expose (lines 136-140, 205-209, 230-234).
Compensations == {"DeleteBackupVS", "DeleteBackupPVC", "DeleteBackupPod"}

\* Control points of Expose, of its unwinding, and of CleanUp.
ExposeSteps == {"waitVS", "getVSC", "createVS", "createVSC", "retainVSC",
                "deleteVS", "waitVSGone", "deleteVSC", "waitVSCGone",
                "createPVC", "createPod"}
UnwindSteps  == {"unwind", "unwindPVCDelete"}
CleanUpSteps == {"cuPod", "cuPVC", "cuPVCDelete", "cuPVCWait", "cuBackupVS", "cuSourceVS"}
Returned     == {"exposed", "exposeFailed", "crashed", "cleaned"}
PCs == ExposeSteps \cup UnwindSteps \cup CleanUpSteps \cup Returned

VARIABLES
    obj,          \* obj[o]: whether object o exists, and whether it is being deleted
    policy,       \* deletion policy of each content, reclaim policy of the PV
    snapshot,     \* the storage snapshot both contents refer to still exists
    srcReady,     \* the source snapshot reports ReadyToUse
    provisioning, \* the provisioner is creating a volume for backupPVC
    pc,           \* control point of the exposer goroutine
    defers,       \* compensations registered by the running Expose, in order
    faults,       \* API failures and expired waits so far
    crashes,      \* process crashes so far
    swallowed     \* a best-effort delete of the current call has failed

vars == <<obj, policy, snapshot, srcReady, provisioning, pc, defers, faults, crashes, swallowed>>

TypeOK ==
    /\ obj \in [Objects -> Status]
    /\ policy \in [Contents \cup {"backupPV"} -> Policies]
    /\ snapshot \in BOOLEAN
    /\ srcReady \in BOOLEAN
    /\ provisioning \in BOOLEAN
    /\ pc \in PCs
    /\ defers \in Seq(Compensations)
    /\ faults \in 0..MaxFaults
    /\ crashes \in 0..MaxCrashes
    /\ swallowed \in BOOLEAN

(***************************************************************************)
(* Expose is called once the source snapshot has been taken: vs and vsc    *)
(* exist, vs may not be ready yet, and the class gives vsc either deletion *)
(* policy; the PV's reclaim policy is the one of the backup storage class. *)
(***************************************************************************)
Init ==
    /\ obj = [o \in Objects |-> IF o \in {"vs", "vsc"} THEN "live" ELSE "absent"]
    /\ policy \in [Contents \cup {"backupPV"} -> Policies]
    /\ snapshot = TRUE
    /\ srcReady \in BOOLEAN
    /\ provisioning = FALSE
    /\ pc = "waitVS"
    /\ defers = <<>>
    /\ faults = 0
    /\ crashes = 0
    /\ swallowed = FALSE

-----------------------------------------------------------------------------
(* Helpers for the client calls.                                           *)

\* A Delete call: a live object starts terminating; on a missing object it
\* returns NotFound and on a terminating one it changes nothing.
Issue(o) == obj' = [obj EXCEPT ![o] = IF @ = "live" THEN "terminating" ELSE @]

\* A call that returns an error.
Fault == faults < MaxFaults /\ faults' = faults + 1

\* A best-effort call whose error is only logged.
Swallow == Fault /\ swallowed' = TRUE

\* DeletePodIfAny / DeleteVolumeSnapshotIfAny: delete, log any error.
DeleteIfAny(o) ==
    \/ Issue(o) /\ UNCHANGED <<faults, swallowed>>
    \/ Swallow /\ UNCHANGED obj

\* First half of DeletePVAndPVCIfAny: get the PVC (return if it is missing
\* or the get fails); if it is bound, set the PV's reclaim policy to Delete
\* (a failure is logged).  Continue at `next`, or at `skip` on return.
PVCGetAndReclaim(next, skip) ==
    \/ obj["backupPVC"] = "absent" /\ pc' = skip
       /\ UNCHANGED <<policy, faults, swallowed>>
    \/ Swallow /\ pc' = skip /\ UNCHANGED policy
    \/ obj["backupPVC"] /= "absent" /\ pc' = next
       /\ \/ obj["backupPV"] = "absent" /\ UNCHANGED <<policy, faults, swallowed>>
          \/ obj["backupPV"] /= "absent" /\ UNCHANGED <<faults, swallowed>>
             /\ policy' = [policy EXCEPT !["backupPV"] = "Delete"]
          \/ obj["backupPV"] /= "absent" /\ Swallow /\ UNCHANGED policy

-----------------------------------------------------------------------------
(* Expose (lines 106-237).  Each step is one action; ExposeFail is the     *)
(* error return of whichever step is running.                              *)

ExposeVars == <<snapshot, srcReady, provisioning, faults, crashes, swallowed>>

\* csi.WaitVolumeSnapshotReady returns the snapshot once it is ready.
WaitVSReady ==
    /\ pc = "waitVS" /\ srcReady
    /\ pc' = "getVSC"
    /\ UNCHANGED <<obj, policy, defers, ExposeVars>>

\* csi.GetVolumeSnapshotContentForVolumeSnapshot.
GetVSC ==
    /\ pc = "getVSC" /\ obj["vsc"] /= "absent"
    /\ pc' = "createVS"
    /\ UNCHANGED <<obj, policy, defers, ExposeVars>>

\* createBackupVS, then the deferred DeleteVolumeSnapshotIfAny is registered.
CreateBackupVS ==
    /\ pc = "createVS" /\ obj["backupVS"] = "absent"
    /\ obj' = [obj EXCEPT !["backupVS"] = "live"]
    /\ defers' = Append(defers, "DeleteBackupVS")
    /\ pc' = "createVSC"
    /\ UNCHANGED <<policy, ExposeVars>>

\* createBackupVSC: a content for the same handle, DeletionPolicy Delete.
CreateBackupVSC ==
    /\ pc = "createVSC" /\ obj["backupVSC"] = "absent"
    /\ obj' = [obj EXCEPT !["backupVSC"] = "live"]
    /\ policy' = [policy EXCEPT !["backupVSC"] = "Delete"]
    /\ pc' = "retainVSC"
    /\ UNCHANGED <<defers, ExposeVars>>

\* Mutant: the Retain patch is skipped (its result ignored).
RetainVSCSkipped ==
    /\ pc = "retainVSC"
    /\ pc' = "deleteVS"
    /\ UNCHANGED <<obj, policy, defers, ExposeVars>>

\* csi.RetainVSC: patch the source content's policy to Retain.
RetainVSC ==
    /\ pc = "retainVSC"
    /\ policy' = [policy EXCEPT !["vsc"] = "Retain"]
    /\ pc' = "deleteVS"
    /\ UNCHANGED <<obj, defers, ExposeVars>>

\* csi.EnsureDeleteVS: delete the source snapshot ...
DeleteVS ==
    /\ pc = "deleteVS" /\ Issue("vs")
    /\ pc' = "waitVSGone"
    /\ UNCHANGED <<policy, defers, ExposeVars>>

\* Mutant: EnsureDeleteVS returns after the Delete call without polling.
WaitVSGoneNoPoll ==
    /\ pc = "waitVSGone"
    /\ pc' = "deleteVSC"
    /\ UNCHANGED <<obj, policy, defers, ExposeVars>>

\* ... and poll until it is gone (a timeout is an ExposeFail).
WaitVSGone ==
    /\ pc = "waitVSGone" /\ obj["vs"] = "absent"
    /\ pc' = "deleteVSC"
    /\ UNCHANGED <<obj, policy, defers, ExposeVars>>

\* csi.EnsureDeleteVSC: delete the source content ...
DeleteVSC ==
    /\ pc = "deleteVSC" /\ Issue("vsc")
    /\ pc' = "waitVSCGone"
    /\ UNCHANGED <<policy, defers, ExposeVars>>

\* ... and poll until it is gone.
WaitVSCGone ==
    /\ pc = "waitVSCGone" /\ obj["vsc"] = "absent"
    /\ pc' = "createPVC"
    /\ UNCHANGED <<obj, policy, defers, ExposeVars>>

\* Mutant: the deferred PVC deletion is not registered.
CreateBackupPVCNoDefer ==
    /\ pc = "createPVC" /\ obj["backupPVC"] = "absent"
    /\ obj' = [obj EXCEPT !["backupPVC"] = "live"]
    /\ pc' = "createPod"
    /\ UNCHANGED <<policy, defers, ExposeVars>>

\* Volume size and backupPVC config are computed (ExposeConfig), then
\* createBackupPVC; the deferred DeletePVAndPVCIfAny is registered.
CreateBackupPVC ==
    /\ pc = "createPVC" /\ obj["backupPVC"] = "absent"
    /\ obj' = [obj EXCEPT !["backupPVC"] = "live"]
    /\ defers' = Append(defers, "DeleteBackupPVC")
    /\ pc' = "createPod"
    /\ UNCHANGED <<policy, ExposeVars>>

\* createBackupPod; the deferred DeletePodIfAny is registered and Expose
\* returns nil, so none of the deferred functions does anything.
CreateBackupPod ==
    /\ pc = "createPod" /\ obj["backupPod"] = "absent"
    /\ obj' = [obj EXCEPT !["backupPod"] = "live"]
    /\ defers' = <<>>
    /\ pc' = "exposed"
    /\ UNCHANGED <<policy, ExposeVars>>

\* The running step returns an error (API error, unsupported access mode,
\* node-agent lookup failure); the deferred compensations run.
ExposeFail ==
    /\ pc \in ExposeSteps /\ Fault
    /\ pc' = "unwind"
    /\ UNCHANGED <<obj, policy, snapshot, srcReady, provisioning, defers, crashes, swallowed>>

\* A poll loop reaches its deadline (ExposeTimeout for the readiness of vs,
\* OperationTimeout for the deletions) before its condition held.
ExposeTimeout ==
    /\ \/ pc = "waitVS" /\ ~srcReady
       \/ pc = "waitVSGone" /\ obj["vs"] /= "absent"
       \/ pc = "waitVSCGone" /\ obj["vsc"] /= "absent"
    /\ pc' = "unwind"
    /\ UNCHANGED <<obj, policy, defers, ExposeVars>>

-----------------------------------------------------------------------------
(* The deferred functions of Expose, run last-registered first.            *)

UnwindDone ==
    /\ pc = "unwind" /\ defers = <<>>
    /\ pc' = "exposeFailed"
    /\ UNCHANGED <<obj, policy, defers, ExposeVars>>

\* Line 138: DeleteVolumeSnapshotIfAny(backupVS).
UnwindBackupVS ==
    /\ pc = "unwind" /\ defers /= <<>> /\ Last(defers) = "DeleteBackupVS"
    /\ DeleteIfAny("backupVS")
    /\ defers' = Front(defers)
    /\ UNCHANGED <<pc, policy, snapshot, srcReady, provisioning, crashes>>

\* Line 207: DeletePVAndPVCIfAny(backupPVC, timeout 0) ...
UnwindBackupPVC ==
    /\ pc = "unwind" /\ defers /= <<>> /\ Last(defers) = "DeleteBackupPVC"
    /\ PVCGetAndReclaim("unwindPVCDelete", "unwind")
    /\ defers' = Front(defers)
    /\ UNCHANGED <<obj, snapshot, srcReady, provisioning, crashes>>

\* ... whose EnsureDeletePVC with timeout 0 deletes without waiting.
UnwindPVCDelete ==
    /\ pc = "unwindPVCDelete"
    /\ DeleteIfAny("backupPVC")
    /\ pc' = "unwind"
    /\ UNCHANGED <<policy, defers, snapshot, srcReady, provisioning, crashes>>

-----------------------------------------------------------------------------
(* CleanUp (lines 391-401).  Nothing is returned; errors are logged.       *)

CleanUpVars == <<policy, defers, snapshot, srcReady, provisioning, crashes>>

\* The caller runs CleanUp after Expose returned, after a crash, or again.
StartCleanUp ==
    /\ pc \in Returned
    /\ pc' = "cuPod" /\ swallowed' = FALSE
    /\ UNCHANGED <<obj, policy, defers, snapshot, srcReady, provisioning, faults, crashes>>

\* Line 396: DeletePodIfAny.
CleanUpPod ==
    /\ pc = "cuPod" /\ DeleteIfAny("backupPod")
    /\ pc' = "cuPVC"
    /\ UNCHANGED CleanUpVars

\* Line 397: DeletePVAndPVCIfAny(backupPVC, cleanUpTimeout).
CleanUpPVC ==
    /\ pc = "cuPVC"
    /\ PVCGetAndReclaim("cuPVCDelete", "cuBackupVS")
    /\ UNCHANGED <<obj, defers, snapshot, srcReady, provisioning, crashes>>

\* EnsureDeletePVC: delete; on error return.
CleanUpPVCDelete ==
    /\ pc = "cuPVCDelete"
    /\ \/ Issue("backupPVC") /\ pc' = "cuPVCWait" /\ UNCHANGED <<faults, swallowed>>
       \/ Swallow /\ pc' = "cuBackupVS" /\ UNCHANGED obj
    /\ UNCHANGED CleanUpVars

\* EnsureDeletePVC: poll until the PVC is gone or cleanUpTimeout expires.
CleanUpPVCWait ==
    /\ pc = "cuPVCWait"
    /\ \/ obj["backupPVC"] = "absent"
       \/ obj["backupPVC"] /= "absent"
    /\ pc' = "cuBackupVS"
    /\ UNCHANGED <<obj, faults, swallowed, CleanUpVars>>

\* Mutant: CleanUp forgets the exposer's own snapshot.
CleanUpBackupVSMissing ==
    /\ pc = "cuBackupVS"
    /\ pc' = "cuSourceVS"
    /\ UNCHANGED <<obj, faults, swallowed, CleanUpVars>>

\* Line 399: DeleteVolumeSnapshotIfAny(backupVS).
CleanUpBackupVS ==
    /\ pc = "cuBackupVS" /\ DeleteIfAny("backupVS")
    /\ pc' = "cuSourceVS"
    /\ UNCHANGED CleanUpVars

\* Line 400: DeleteVolumeSnapshotIfAny(vsName, sourceNamespace).
CleanUpSourceVS ==
    /\ pc = "cuSourceVS" /\ DeleteIfAny("vs")
    /\ pc' = "cleaned"
    /\ UNCHANGED CleanUpVars

\* The process dies between two calls; deferred functions do not run.
Crash ==
    /\ pc \in ExposeSteps \cup UnwindSteps \cup CleanUpSteps
    /\ crashes < MaxCrashes /\ crashes' = crashes + 1
    /\ pc' = "crashed" /\ defers' = <<>>
    /\ UNCHANGED <<obj, policy, snapshot, srcReady, provisioning, faults, swallowed>>

-----------------------------------------------------------------------------
(* The cluster's controllers: the snapshot controller, the CSI             *)
(* provisioner, PV/PVC protection and the kubelet.                         *)

EnvVars == <<pc, defers, faults, crashes, swallowed>>

\* The source snapshot becomes ReadyToUse.
SnapshotReady ==
    /\ ~srcReady /\ srcReady' = TRUE
    /\ UNCHANGED <<obj, policy, snapshot, provisioning, EnvVars>>

\* backupVS is ready once backupVSC binds it; the provisioner starts
\* creating a volume from it for the live backupPVC.
ProvisionStart ==
    /\ obj["backupPVC"] = "live" /\ obj["backupPV"] = "absent" /\ ~provisioning
    /\ obj["backupVS"] = "live" /\ obj["backupVSC"] = "live" /\ snapshot
    /\ provisioning' = TRUE
    /\ UNCHANGED <<obj, policy, snapshot, srcReady, EnvVars>>

\* The provisioner creates the PV, whatever became of the claim meanwhile.
ProvisionDone ==
    /\ provisioning /\ provisioning' = FALSE
    /\ obj' = [obj EXCEPT !["backupPV"] = "live"]
    /\ UNCHANGED <<policy, snapshot, srcReady, EnvVars>>

\* A snapshot that is the source of a claim being provisioned keeps its
\* protection finalizer.
SourceInUse(v) ==
    v = "backupVS" /\ (provisioning \/ (obj["backupPVC"] /= "absent" /\ obj["backupPV"] = "absent"))

\* A terminating snapshot is removed; a bound content with policy Delete
\* is deleted with it.
RemoveSnapshot(v) ==
    /\ obj[v] = "terminating" /\ ~SourceInUse(v)
    /\ LET c == BoundContent(v) IN
         obj' = [obj EXCEPT ![v] = "absent",
                            ![c] = IF @ = "live" /\ policy[c] = "Delete" THEN "terminating" ELSE @]
    /\ UNCHANGED <<policy, snapshot, srcReady, provisioning, EnvVars>>

\* A terminating content is removed; with policy Delete the driver deletes
\* the storage snapshot.
RemoveContent(c) ==
    /\ obj[c] = "terminating"
    /\ obj' = [obj EXCEPT ![c] = "absent"]
    /\ snapshot' = (snapshot /\ policy[c] = "Retain")
    /\ UNCHANGED <<policy, srcReady, provisioning, EnvVars>>

\* The kubelet removes a terminating pod (grace period 0).
RemovePod ==
    /\ obj["backupPod"] = "terminating"
    /\ obj' = [obj EXCEPT !["backupPod"] = "absent"]
    /\ UNCHANGED <<policy, snapshot, srcReady, provisioning, EnvVars>>

\* PVC protection: a terminating claim goes once no pod uses it.
RemovePVC ==
    /\ obj["backupPVC"] = "terminating" /\ obj["backupPod"] = "absent"
    /\ obj' = [obj EXCEPT !["backupPVC"] = "absent"]
    /\ UNCHANGED <<policy, snapshot, srcReady, provisioning, EnvVars>>

\* A released PV with reclaim policy Delete is deleted; Retain keeps it.
ReclaimPV ==
    /\ obj["backupPV"] = "live" /\ obj["backupPVC"] = "absent"
    /\ policy["backupPV"] = "Delete"
    /\ obj' = [obj EXCEPT !["backupPV"] = "absent"]
    /\ UNCHANGED <<policy, snapshot, srcReady, provisioning, EnvVars>>

-----------------------------------------------------------------------------

ExposeNext ==
    \/ WaitVSReady \/ GetVSC \/ CreateBackupVS \/ CreateBackupVSC \/ RetainVSC
    \/ DeleteVS \/ WaitVSGone \/ DeleteVSC \/ WaitVSCGone
    \/ CreateBackupPVC \/ CreateBackupPod \/ ExposeFail \/ ExposeTimeout
    \/ UnwindDone \/ UnwindBackupVS \/ UnwindBackupPVC \/ UnwindPVCDelete

CleanUpNext ==
    \/ StartCleanUp \/ CleanUpPod \/ CleanUpPVC \/ CleanUpPVCDelete
    \/ CleanUpPVCWait \/ CleanUpBackupVS \/ CleanUpSourceVS

EnvNext ==
    \/ SnapshotReady \/ ProvisionStart \/ ProvisionDone \/ RemovePod
    \/ RemovePVC \/ ReclaimPV
    \/ \E v \in Snapshots : RemoveSnapshot(v)
    \/ \E c \in Contents : RemoveContent(c)

Next == ExposeNext \/ CleanUpNext \/ Crash \/ EnvNext

(***************************************************************************)
(* Fairness.  The goroutine keeps running its steps (each one is a         *)
(* blocking call that returns), the caller eventually calls CleanUp once   *)
(* Expose has returned or the process restarted, and the controllers       *)
(* eventually act on what they watch.  Faults and crashes get none.        *)
(***************************************************************************)
Fairness ==
    /\ WF_vars(WaitVSReady) /\ WF_vars(GetVSC) /\ WF_vars(CreateBackupVS)
    /\ WF_vars(CreateBackupVSC) /\ WF_vars(RetainVSC) /\ WF_vars(DeleteVS)
    /\ WF_vars(WaitVSGone) /\ WF_vars(DeleteVSC) /\ WF_vars(WaitVSCGone)
    /\ WF_vars(CreateBackupPVC) /\ WF_vars(CreateBackupPod)
    /\ WF_vars(UnwindDone) /\ WF_vars(UnwindBackupVS) /\ WF_vars(UnwindBackupPVC)
    /\ WF_vars(UnwindPVCDelete)
    /\ WF_vars(pc \in {"exposed", "exposeFailed", "crashed"} /\ StartCleanUp)
    /\ WF_vars(CleanUpPod) /\ WF_vars(CleanUpPVC) /\ WF_vars(CleanUpPVCDelete)
    /\ WF_vars(CleanUpPVCWait) /\ WF_vars(CleanUpBackupVS) /\ WF_vars(CleanUpSourceVS)
    /\ WF_vars(SnapshotReady) /\ WF_vars(ProvisionStart) /\ WF_vars(ProvisionDone)
    /\ WF_vars(RemovePod) /\ WF_vars(RemovePVC) /\ WF_vars(ReclaimPV)
    /\ \A v \in Snapshots : WF_vars(RemoveSnapshot(v))
    /\ \A c \in Contents : WF_vars(RemoveContent(c))

Spec == Init /\ [][Next]_vars /\ Fairness

-----------------------------------------------------------------------------
(* Properties.                                                             *)

\* While Expose runs, and after it succeeded until CleanUp starts, the
\* storage snapshot exists: handing it from vs/vsc over to backupVS/backupVSC
\* (RetainVSC before EnsureDeleteVS and EnsureDeleteVSC) never lets the
\* snapshot controller or the driver delete it.
SnapshotKeptWhileExposing == pc \in ExposeSteps \cup {"exposed"} => snapshot

\* When Expose returns nil, the chain it built is complete and the source
\* snapshot and content it consumed are gone, not merely being deleted.
ExposedConsistent ==
    pc = "exposed" =>
        /\ \A o \in {"backupVS", "backupVSC", "backupPVC", "backupPod"} : obj[o] = "live"
        /\ obj["vs"] = "absent" /\ obj["vsc"] = "absent"

\* When Expose returns an error and none of its deferred deletes failed,
\* nothing it created is left live: the deferred functions undo every
\* object created before the failing step.
RollbackComplete ==
    pc = "exposeFailed" /\ ~swallowed =>
        \A o \in {"backupVS", "backupPVC", "backupPod"} : obj[o] /= "live"

\* Once a CleanUp has returned without a logged error, the hosting pod, the
\* intermediate claim, the exposer's snapshot and the source snapshot are
\* eventually all gone, whatever state Expose left them in.
CleanUpRemovesExposed ==
    (pc = "cleaned" /\ ~swallowed) ~>
        \A o \in {"vs", "backupVS", "backupPVC", "backupPod"} : obj[o] = "absent"

\* The spec (Derived Content, DeletionPolicy Retain) says the exposer's
\* content never destroys the storage snapshot: in particular it is not
\* destroyed while the source content, which refers to it, still exists.
SnapshotRetained == obj["vsc"] /= "absent" => snapshot

\* The spec says CleanUp deletes the intermediate claim and its bound volume.
CleanUpRemovesVolume ==
    (pc = "cleaned" /\ ~swallowed) ~> obj["backupPV"] = "absent"

=============================================================================
