--------------------------- MODULE ExposerProofs ---------------------------
(***************************************************************************)
(* Proofs about Exposer for every value of MaxFaults and MaxCrashes, and   *)
(* the proof that it implements the safety part of ExposerAbs.            *)
(***************************************************************************)
EXTENDS ExposerRefinement, SequenceTheorems, TLAPS

\* Removing the last compensation keeps the stack a sequence of compensations.
LEMMA FrontType ==
    ASSUME NEW S, NEW s \in Seq(S)
    PROVE  Front(s) \in Seq(S)
BY SubSeqProperties DEF Front

-----------------------------------------------------------------------------
(* Type correctness.                                                       *)

\* The helpers used by several actions keep their variables typed.
LEMMA HelpersType ==
    ASSUME TypeOK, BoundsAssumption
    PROVE  /\ \A o \in Objects : Issue(o) => obj' \in [Objects -> Status]
           /\ Fault => faults' \in 0..MaxFaults
           /\ \A o \in Objects : DeleteIfAny(o) =>
                 /\ obj' \in [Objects -> Status]
                 /\ faults' \in 0..MaxFaults /\ swallowed' \in BOOLEAN
           /\ \A n, k \in PCs : PVCGetAndReclaim(n, k) =>
                 /\ policy' \in [Contents \cup {"backupPV"} -> Policies]
                 /\ faults' \in 0..MaxFaults /\ swallowed' \in BOOLEAN /\ pc' \in PCs
<1>1. \A o \in Objects : Issue(o) => obj' \in [Objects -> Status]
  BY DEF TypeOK, Issue, Status
<1>2. Fault => faults' \in 0..MaxFaults
  BY DEF TypeOK, Fault
<1>3. \A o \in Objects : DeleteIfAny(o) =>
          /\ obj' \in [Objects -> Status]
          /\ faults' \in 0..MaxFaults /\ swallowed' \in BOOLEAN
  BY <1>1, <1>2 DEF TypeOK, DeleteIfAny, Swallow
<1>4. \A n, k \in PCs : PVCGetAndReclaim(n, k) =>
          /\ policy' \in [Contents \cup {"backupPV"} -> Policies]
          /\ faults' \in 0..MaxFaults /\ swallowed' \in BOOLEAN /\ pc' \in PCs
  BY <1>2 DEF TypeOK, PVCGetAndReclaim, Swallow, Policies
<1>. QED  BY <1>1, <1>2, <1>3, <1>4

\* The initial states are typed.
LEMMA TypeInit == Init => TypeOK
<1> SUFFICES ASSUME Init PROVE TypeOK
  OBVIOUS
<1>1. obj \in [Objects -> Status]
  BY DEF Init, Objects, Status
<1>2. pc \in PCs /\ defers \in Seq(Compensations)
  BY DEF Init, PCs, ExposeSteps
<1>3. faults \in 0..MaxFaults /\ crashes \in 0..MaxCrashes
  BY BoundsAssumption DEF Init
<1>. QED  BY <1>1, <1>2, <1>3 DEF Init, TypeOK

\* Every step keeps the variables typed.
LEMMA TypeStep == TypeOK /\ [Next]_vars => TypeOK'
<1> SUFFICES ASSUME TypeOK, [Next]_vars PROVE TypeOK'
  OBVIOUS
<1> USE BoundsAssumption, HelpersType
<1>1. CASE ExposeNext
  <2> USE DEF TypeOK, ExposeVars, PCs, ExposeSteps, UnwindSteps, Returned,
              Objects, Status, Policies, Compensations
  <2>1. CASE WaitVSReady \/ GetVSC \/ RetainVSC \/ WaitVSGone \/ WaitVSCGone
    BY <2>1 DEF WaitVSReady, GetVSC, RetainVSC, WaitVSGone, WaitVSCGone
  <2>2. CASE CreateBackupVS
    BY <2>2, AppendProperties DEF CreateBackupVS
  <2>3. CASE CreateBackupVSC
    BY <2>3 DEF CreateBackupVSC
  <2>4. CASE DeleteVS \/ DeleteVSC
    BY <2>4 DEF DeleteVS, DeleteVSC
  <2>5. CASE CreateBackupPVC
    BY <2>5, AppendProperties DEF CreateBackupPVC
  <2>6. CASE CreateBackupPod
    BY <2>6 DEF CreateBackupPod
  <2>7. CASE ExposeFail \/ ExposeTimeout \/ UnwindDone
    BY <2>7 DEF ExposeFail, ExposeTimeout, UnwindDone
  <2>8. CASE UnwindBackupVS
    BY <2>8, FrontType DEF UnwindBackupVS
  <2>9. CASE UnwindBackupPVC
    BY <2>9, FrontType DEF UnwindBackupPVC
  <2>10. CASE UnwindPVCDelete
    BY <2>10 DEF UnwindPVCDelete
  <2>. QED  BY <1>1, <2>1, <2>2, <2>3, <2>4, <2>5, <2>6, <2>7, <2>8, <2>9, <2>10
    DEF ExposeNext
<1>2. CASE CleanUpNext
  BY <1>2 DEF CleanUpNext, TypeOK, StartCleanUp, CleanUpPod, CleanUpPVC,
      CleanUpPVCDelete, CleanUpPVCWait, CleanUpBackupVS, CleanUpSourceVS,
      CleanUpVars, Issue, Swallow, PCs, CleanUpSteps, Returned, Objects
<1>3. CASE Crash
  BY <1>3 DEF Crash, TypeOK, PCs, Returned
<1>4. CASE EnvNext
  <2> USE DEF TypeOK, EnvVars, Objects, Status
  <2>1. CASE SnapshotReady \/ ProvisionStart
    BY <2>1 DEF SnapshotReady, ProvisionStart
  <2>2. CASE ProvisionDone
    BY <2>2 DEF ProvisionDone
  <2>3. CASE RemovePod \/ RemovePVC \/ ReclaimPV
    BY <2>3 DEF RemovePod, RemovePVC, ReclaimPV
  <2>4. CASE \E v \in Snapshots : RemoveSnapshot(v)
    BY <2>4 DEF RemoveSnapshot, Snapshots, BoundContent
  <2>5. CASE \E c \in Contents : RemoveContent(c)
    BY <2>5 DEF RemoveContent, Contents
  <2>. QED  BY <1>4, <2>1, <2>2, <2>3, <2>4, <2>5 DEF EnvNext
<1>5. CASE UNCHANGED vars
  BY <1>5 DEF vars, TypeOK
<1>. QED  BY <1>1, <1>2, <1>3, <1>4, <1>5 DEF Next

\* TypeOK is an invariant of the specification.
THEOREM TypeCorrect == Spec => []TypeOK
BY TypeInit, TypeStep, PTL DEF Spec

-----------------------------------------------------------------------------
(* The storage snapshot survives the handover.                             *)

\* Control points of Expose before and after RetainVSC has run.
BeforeRetain == {"waitVS", "getVSC", "createVS", "createVSC", "retainVSC"}
AfterRetain  == (ExposeSteps \ BeforeRetain) \cup {"exposed"}

\* Why nothing can delete the storage snapshot during the handover: the
\* exposer's own snapshot and content are never being deleted then;
\* before RetainVSC the source snapshot and content are untouched, and
\* after it the source content is Retain, so neither the snapshot
\* controller nor the driver deletes the handle through it.
Handover ==
    /\ pc \in ExposeSteps \cup {"exposed"} =>
          /\ snapshot
          /\ obj["backupVS"] /= "terminating"
          /\ obj["backupVSC"] /= "terminating"
    /\ pc \in BeforeRetain => obj["vs"] = "live" /\ obj["vsc"] = "live"
    /\ pc \in AfterRetain => policy["vsc"] = "Retain"

IInv == TypeOK /\ Handover

\* The strengthened invariant holds initially.
LEMMA IInvInit == Init => IInv
BY TypeInit DEF Init, IInv, Handover, BeforeRetain, AfterRetain, ExposeSteps, Objects

\* Every step keeps the handover invariant.
LEMMA HandoverStep == IInv /\ [Next]_vars => Handover'
<1> SUFFICES ASSUME IInv, [Next]_vars PROVE Handover'
  OBVIOUS
<1> USE DEF IInv, TypeOK, Handover, BeforeRetain, AfterRetain, ExposeSteps,
           Objects, Status, Contents, Policies
<1>1. CASE ExposeNext
  <2>1. CASE WaitVSReady \/ GetVSC \/ WaitVSGone \/ WaitVSCGone
    BY <2>1 DEF WaitVSReady, GetVSC, WaitVSGone, WaitVSCGone, ExposeVars
  <2>2. CASE CreateBackupVS \/ CreateBackupVSC
    BY <2>2 DEF CreateBackupVS, CreateBackupVSC, ExposeVars
  <2>3. CASE RetainVSC
    BY <2>3 DEF RetainVSC, ExposeVars
  <2>4. CASE DeleteVS \/ DeleteVSC
    BY <2>4 DEF DeleteVS, DeleteVSC, Issue, ExposeVars
  <2>5. CASE CreateBackupPVC \/ CreateBackupPod
    BY <2>5 DEF CreateBackupPVC, CreateBackupPod, ExposeVars
  <2>6. CASE ExposeFail \/ ExposeTimeout \/ UnwindDone \/ UnwindBackupVS
             \/ UnwindBackupPVC \/ UnwindPVCDelete
    \* A failing Expose only unwinds and returns.
    <3>1. pc' \notin ExposeSteps \cup {"exposed"}
      BY <2>6 DEF ExposeFail, ExposeTimeout, UnwindDone, UnwindBackupVS,
         UnwindBackupPVC, UnwindPVCDelete, PVCGetAndReclaim
    <3>. QED  BY <3>1
  <2>. QED  BY <1>1, <2>1, <2>2, <2>3, <2>4, <2>5, <2>6 DEF ExposeNext
<1>2. CASE CleanUpNext
  \* CleanUp starts only from a returned state and never reaches Expose.
  <2>1. pc' \notin ExposeSteps \cup {"exposed"}
    BY <1>2 DEF CleanUpNext, StartCleanUp, CleanUpPod, CleanUpPVC, CleanUpPVCDelete,
       CleanUpPVCWait, CleanUpBackupVS, CleanUpSourceVS, PVCGetAndReclaim
  <2>. QED  BY <2>1
<1>3. CASE Crash
  BY <1>3 DEF Crash
<1>4. CASE EnvNext
  <2>1. CASE SnapshotReady \/ ProvisionStart \/ ProvisionDone
    BY <2>1 DEF SnapshotReady, ProvisionStart, ProvisionDone, EnvVars
  <2>2. CASE RemovePod \/ RemovePVC \/ ReclaimPV
    BY <2>2 DEF RemovePod, RemovePVC, ReclaimPV, EnvVars
  <2>3. ASSUME NEW v \in Snapshots, RemoveSnapshot(v) PROVE Handover'
    BY <2>3 DEF RemoveSnapshot, Snapshots, BoundContent, SourceInUse, EnvVars
  <2>4. ASSUME NEW c \in Contents, RemoveContent(c) PROVE Handover'
    BY <2>4 DEF RemoveContent, Contents, EnvVars
  <2>. QED  BY <1>4, <2>1, <2>2, <2>3, <2>4 DEF EnvNext
<1>5. CASE UNCHANGED vars
  BY <1>5 DEF vars
<1>. QED  BY <1>1, <1>2, <1>3, <1>4, <1>5 DEF Next

\* While Expose runs, and after it returned nil until CleanUp starts, the
\* storage snapshot exists (SnapshotKeptWhileExposing: RetainVSC precedes
\* the deletion of the source snapshot and content), for every bound on
\* faults and crashes.
\* The strengthened invariant is inductive.
LEMMA IInvStep == IInv /\ [Next]_vars => IInv'
BY TypeStep, HandoverStep DEF IInv

THEOREM SnapshotKept == Spec => []SnapshotKeptWhileExposing
<1>1. IInv => SnapshotKeptWhileExposing
  BY DEF IInv, Handover, SnapshotKeptWhileExposing
<1>. QED  BY IInvInit, IInvStep, <1>1, PTL DEF Spec

-----------------------------------------------------------------------------
(* The chain Expose builds.                                                *)

\* Control points reached after each step of Expose has run.
AfterCreateVS  == {"createVSC", "retainVSC", "deleteVS", "waitVSGone", "deleteVSC",
                   "waitVSCGone", "createPVC", "createPod", "exposed"}
AfterCreateVSC == AfterCreateVS \ {"createVSC"}
AfterVSGone    == {"deleteVSC", "waitVSCGone", "createPVC", "createPod", "exposed"}
AfterVSCGone   == {"createPVC", "createPod", "exposed"}
AfterCreatePVC == {"createPod", "exposed"}

\* Why Expose's result is consistent: each object it created stays live
\* (only a rollback or CleanUp deletes them, and the controllers remove
\* only what is being deleted), and the source objects it waited for stay
\* gone (nothing recreates them).
Chain ==
    /\ pc \in AfterCreateVS  => obj["backupVS"] = "live"
    /\ pc \in AfterCreateVSC => obj["backupVSC"] = "live"
    /\ pc \in AfterVSGone    => obj["vs"] = "absent"
    /\ pc \in AfterVSCGone   => obj["vsc"] = "absent"
    /\ pc \in AfterCreatePVC => obj["backupPVC"] = "live"
    /\ pc = "exposed"        => obj["backupPod"] = "live"

CInv == TypeOK /\ Chain

\* The chain invariant holds initially.
LEMMA ChainInit == Init => CInv
BY TypeInit DEF Init, CInv, Chain, AfterCreateVS, AfterCreateVSC, AfterVSGone,
   AfterVSCGone, AfterCreatePVC

\* Every step keeps the chain invariant.
LEMMA ChainStep == CInv /\ [Next]_vars => Chain'
<1> SUFFICES ASSUME CInv, [Next]_vars PROVE Chain'
  OBVIOUS
<1> USE DEF CInv, TypeOK, Chain, AfterCreateVS, AfterCreateVSC, AfterVSGone,
           AfterVSCGone, AfterCreatePVC, Objects, Status
<1>1. CASE ExposeNext
  <2>1. CASE WaitVSReady \/ GetVSC \/ RetainVSC \/ WaitVSGone \/ WaitVSCGone
    BY <2>1 DEF WaitVSReady, GetVSC, RetainVSC, WaitVSGone, WaitVSCGone, ExposeVars
  <2>2. CASE CreateBackupVS \/ CreateBackupVSC
    BY <2>2 DEF CreateBackupVS, CreateBackupVSC, ExposeVars
  <2>3. CASE DeleteVS \/ DeleteVSC
    BY <2>3 DEF DeleteVS, DeleteVSC, Issue, ExposeVars
  <2>4. CASE CreateBackupPVC \/ CreateBackupPod
    BY <2>4 DEF CreateBackupPVC, CreateBackupPod, ExposeVars
  <2>5. CASE ExposeFail \/ ExposeTimeout \/ UnwindDone \/ UnwindBackupVS
             \/ UnwindBackupPVC \/ UnwindPVCDelete
    \* A failing Expose never returns to a step it has passed.
    <3>1. pc' \in {"unwind", "unwindPVCDelete", "exposeFailed"}
      BY <2>5 DEF ExposeFail, ExposeTimeout, UnwindDone, UnwindBackupVS,
         UnwindBackupPVC, UnwindPVCDelete, PVCGetAndReclaim
    <3>. QED  BY <3>1
  <2>. QED  BY <1>1, <2>1, <2>2, <2>3, <2>4, <2>5 DEF ExposeNext
<1>2. CASE CleanUpNext \/ Crash
  <2>1. pc' \in CleanUpSteps \cup {"crashed", "cleaned"}
    BY <1>2 DEF CleanUpNext, StartCleanUp, CleanUpPod, CleanUpPVC, CleanUpPVCDelete,
       CleanUpPVCWait, CleanUpBackupVS, CleanUpSourceVS, PVCGetAndReclaim, Crash,
       CleanUpSteps
  <2>. QED  BY <2>1 DEF CleanUpSteps
<1>3. CASE EnvNext
  \* The controllers remove only objects that are being deleted.
  <2>1. CASE SnapshotReady \/ ProvisionStart \/ ProvisionDone
    BY <2>1 DEF SnapshotReady, ProvisionStart, ProvisionDone, EnvVars
  <2>2. CASE RemovePod \/ RemovePVC \/ ReclaimPV
    BY <2>2 DEF RemovePod, RemovePVC, ReclaimPV, EnvVars
  <2>3. ASSUME NEW v \in Snapshots, RemoveSnapshot(v) PROVE Chain'
    BY <2>3 DEF RemoveSnapshot, Snapshots, BoundContent, EnvVars, Contents, Policies
  <2>4. ASSUME NEW c \in Contents, RemoveContent(c) PROVE Chain'
    BY <2>4 DEF RemoveContent, Contents, EnvVars
  <2>. QED  BY <1>3, <2>1, <2>2, <2>3, <2>4 DEF EnvNext
<1>4. CASE UNCHANGED vars
  BY <1>4 DEF vars
<1>. QED  BY <1>1, <1>2, <1>3, <1>4 DEF Next

\* When Expose returns nil, backupVS, backupVSC, backupPVC and the hosting pod
\* are live and the source snapshot and content are gone
\* (ExposedConsistent), for every bound on faults and crashes.
THEOREM Consistent == Spec => []ExposedConsistent
<1>1. CInv /\ [Next]_vars => CInv'
  BY TypeStep, ChainStep DEF CInv
<1>2. CInv => ExposedConsistent
  BY DEF CInv, Chain, ExposedConsistent, AfterCreateVS, AfterCreateVSC, AfterVSGone,
     AfterVSCGone, AfterCreatePVC
<1>. QED  BY ChainInit, <1>1, <1>2, PTL DEF Spec

-----------------------------------------------------------------------------
(* The rollback of a failed Expose.                                        *)

\* Where Expose and its unwinding stand before anything has returned.
Running == ExposeSteps \cup UnwindSteps

\* Why the deferred functions undo everything: the stack of compensations
\* matches the step Expose has reached (one for backupVS from createVSC on,
\* one more for backupPVC at createPod; the unwinding only pops it); the
\* pod is created only by the last step, which returns nil; and unless a
\* best-effort delete failed, a live backupVS still has its compensation on
\* the stack and a live backupPVC too, or is being deleted by it.
Rollback ==
    /\ pc \in {"waitVS", "getVSC", "createVS"} => defers = <<>>
    /\ pc \in AfterCreateVS \ AfterCreatePVC => defers = <<"DeleteBackupVS">>
    /\ pc = "createPod" => defers = <<"DeleteBackupVS", "DeleteBackupPVC">>
    /\ pc \in UnwindSteps =>
           defers \in {<<>>, <<"DeleteBackupVS">>, <<"DeleteBackupVS", "DeleteBackupPVC">>}
    /\ pc \in Running \cup {"exposeFailed"} => obj["backupPod"] = "absent"
    /\ pc \in Running \cup {"exposeFailed"} /\ ~swallowed =>
           /\ obj["backupVS"] = "live" => pc \in Running /\ defers /= <<>>
           /\ obj["backupPVC"] = "live" =>
                  \/ pc = "unwindPVCDelete"
                  \/ pc \in Running /\ Len(defers) = 2

RInv == TypeOK /\ Rollback

\* Pushing and popping the compensation stacks Expose can hold.
LEMMA StackFacts ==
    /\ Append(<<>>, "DeleteBackupVS") = <<"DeleteBackupVS">>
    /\ Append(<<"DeleteBackupVS">>, "DeleteBackupPVC") = <<"DeleteBackupVS", "DeleteBackupPVC">>
    /\ Last(<<"DeleteBackupVS">>) = "DeleteBackupVS"
    /\ Last(<<"DeleteBackupVS", "DeleteBackupPVC">>) = "DeleteBackupPVC"
    /\ Front(<<"DeleteBackupVS">>) = <<>>
    /\ Front(<<"DeleteBackupVS", "DeleteBackupPVC">>) = <<"DeleteBackupVS">>
<1>1. Front(<<"DeleteBackupVS">>) = <<>>
  BY DEF Front
<1>2. Front(<<"DeleteBackupVS", "DeleteBackupPVC">>) = <<"DeleteBackupVS">>
  <2> DEFINE t == <<"DeleteBackupVS", "DeleteBackupPVC">>
  <2>0. \A i \in 1 .. 1 : t[i] \in Compensations
    BY DEF Compensations
  <2>1. /\ SubSeq(t, 1, 1) \in Seq(Compensations)
        /\ Len(SubSeq(t, 1, 1)) = 1
        /\ \A i \in 1 .. 1 : SubSeq(t, 1, 1)[i] = t[1 + i - 1]
    BY <2>0, SubSeqProperties
  <2>2. <<"DeleteBackupVS">> \in Seq(Compensations)
    BY DEF Compensations
  <2>3. /\ Len(SubSeq(t, 1, 1)) = Len(<<"DeleteBackupVS">>)
        /\ \A i \in 1 .. Len(SubSeq(t, 1, 1)) :
               SubSeq(t, 1, 1)[i] = <<"DeleteBackupVS">>[i]
    BY <2>1
  <2>5. SubSeq(t, 1, 1) = <<"DeleteBackupVS">>
    BY <2>1, <2>2, <2>3, SeqEqual, Zenon
  <2>4. Len(t) - 1 = 1
    OBVIOUS
  <2>. QED  BY <2>5, <2>4 DEF Front
<1>3. Append(<<>>, "DeleteBackupVS") = <<"DeleteBackupVS">>
  OBVIOUS
<1>4. Append(<<"DeleteBackupVS">>, "DeleteBackupPVC") = <<"DeleteBackupVS", "DeleteBackupPVC">>
  <2> DEFINE a == Append(<<"DeleteBackupVS">>, "DeleteBackupPVC")
             t == <<"DeleteBackupVS", "DeleteBackupPVC">>
  <2>1. <<"DeleteBackupVS">> \in Seq(Compensations) /\ "DeleteBackupPVC" \in Compensations
    BY DEF Compensations
  <2>2. /\ a \in Seq(Compensations)
        /\ Len(a) = 2
        /\ a[1] = "DeleteBackupVS" /\ a[2] = "DeleteBackupPVC"
    BY <2>1, AppendProperties
  <2>3. t \in Seq(Compensations)
    BY DEF Compensations
  <2>4. Len(a) = Len(t) /\ \A i \in 1 .. Len(a) : a[i] = t[i]
    BY <2>2
  <2>. QED  BY <2>2, <2>3, <2>4, SeqEqual, Zenon
<1>5. Last(<<"DeleteBackupVS">>) = "DeleteBackupVS"
      /\ Last(<<"DeleteBackupVS", "DeleteBackupPVC">>) = "DeleteBackupPVC"
  BY DEF Last
<1>. QED  BY <1>1, <1>2, <1>3, <1>4, <1>5

\* The rollback invariant holds initially.
LEMMA RollbackInit == Init => RInv
BY TypeInit DEF Init, RInv, Rollback, Running, ExposeSteps, UnwindSteps,
   AfterCreateVS, AfterCreatePVC, Objects

\* Every step keeps the rollback invariant.
LEMMA RollbackStep == RInv /\ [Next]_vars => Rollback'
<1> SUFFICES ASSUME RInv, [Next]_vars PROVE Rollback'
  OBVIOUS
<1> USE DEF RInv, TypeOK, Rollback, Running, ExposeSteps, UnwindSteps, CleanUpSteps,
           AfterCreateVS, AfterCreatePVC, Objects, Status, Compensations
<1>1. CASE WaitVSReady \/ GetVSC \/ RetainVSC \/ WaitVSGone \/ WaitVSCGone
  BY <1>1 DEF WaitVSReady, GetVSC, RetainVSC, WaitVSGone, WaitVSCGone, ExposeVars
<1>2. CASE DeleteVS \/ DeleteVSC
  BY <1>2 DEF DeleteVS, DeleteVSC, Issue, ExposeVars
<1>3. CASE CreateBackupVS
  BY <1>3 DEF CreateBackupVS, ExposeVars
<1>4. CASE CreateBackupVSC
  BY <1>4 DEF CreateBackupVSC, ExposeVars
<1>12. CASE CreateBackupPVC
  <2>1. defers = <<"DeleteBackupVS">>
    BY <1>12 DEF CreateBackupPVC
  <2>2. defers' = <<"DeleteBackupVS", "DeleteBackupPVC">>
    BY <1>12, <2>1, StackFacts DEF CreateBackupPVC
  <2>3. Len(defers') = 2 /\ defers' /= <<>>
    BY <2>2
  <2>4. pc' = "createPod" /\ swallowed' = swallowed /\ obj["backupPod"] = "absent"
        /\ obj' = [obj EXCEPT !["backupPVC"] = "live"]
    BY <1>12, <2>1 DEF CreateBackupPVC, ExposeVars
  <2>. QED  BY <2>2, <2>3, <2>4
<1>13. CASE CreateBackupPod \/ StartCleanUp \/ Crash
  \* Each of these steps leaves the running Expose, and not for exposeFailed.
  BY <1>13 DEF CreateBackupPod, StartCleanUp, Crash
<1>14. CASE UnwindDone
  \* An empty stack at unwind means nothing Expose created is left live.
  <2>1. pc = "unwind" /\ defers = <<>> /\ pc' = "exposeFailed"
        /\ UNCHANGED <<obj, defers, swallowed>>
    BY <1>14 DEF UnwindDone, ExposeVars
  <2>2. ~swallowed => obj["backupVS"] /= "live" /\ obj["backupPVC"] /= "live"
    BY <2>1
  <2>. QED  BY <2>1, <2>2
<1>5. CASE ExposeFail \/ ExposeTimeout
  BY <1>5 DEF ExposeFail, ExposeTimeout, Fault, ExposeVars
<1>6. CASE UnwindBackupVS
  \* The compensation on top of the stack is backupVS's: the stack is <<VS>>.
  <2>1. defers = <<"DeleteBackupVS">> /\ defers' = <<>>
    BY <1>6, StackFacts DEF UnwindBackupVS
  <2>2. pc = "unwind" /\ pc' = "unwind" /\ (obj["backupPVC"] /= "live" \/ swallowed)
    BY <1>6, <2>1 DEF UnwindBackupVS
  <2>3. CASE Issue("backupVS") /\ UNCHANGED <<faults, swallowed>>
    BY <1>6, <2>1, <2>2, <2>3 DEF UnwindBackupVS, Issue
  <2>4. CASE Swallow /\ UNCHANGED obj
    BY <1>6, <2>1, <2>2, <2>4 DEF UnwindBackupVS, Swallow
  <2>. QED  BY <1>6, <2>3, <2>4 DEF UnwindBackupVS, DeleteIfAny
<1>7. CASE UnwindBackupPVC
  <2>1. defers = <<"DeleteBackupVS", "DeleteBackupPVC">> /\ defers' = <<"DeleteBackupVS">>
    BY <1>7, StackFacts DEF UnwindBackupPVC
  <2>2. pc = "unwind" /\ UNCHANGED obj
    BY <1>7 DEF UnwindBackupPVC
  <2>3. CASE obj["backupPVC"] = "absent" /\ pc' = "unwind" /\ UNCHANGED swallowed
    BY <2>1, <2>2, <2>3
  <2>4. CASE Swallow /\ pc' = "unwind"
    BY <2>1, <2>2, <2>4 DEF Swallow
  <2>5. CASE obj["backupPVC"] /= "absent" /\ pc' = "unwindPVCDelete"
    <3>1. swallowed' = swallowed \/ swallowed'
      BY <1>7, <2>5 DEF UnwindBackupPVC, PVCGetAndReclaim, Swallow
    <3>. QED  BY <2>1, <2>2, <2>5, <3>1
  <2>. QED  BY <1>7, <2>3, <2>4, <2>5 DEF UnwindBackupPVC, PVCGetAndReclaim
<1>8. CASE UnwindPVCDelete
  BY <1>8 DEF UnwindPVCDelete, DeleteIfAny, Issue, Swallow, Fault
<1>9. CASE CleanUpPod \/ CleanUpPVC \/ CleanUpPVCDelete \/ CleanUpPVCWait
           \/ CleanUpBackupVS \/ CleanUpSourceVS
  <2>1. pc \in CleanUpSteps /\ pc' \in CleanUpSteps \cup {"cleaned"}
    BY <1>9 DEF CleanUpPod, CleanUpPVC, CleanUpPVCDelete, CleanUpPVCWait,
       CleanUpBackupVS, CleanUpSourceVS, PVCGetAndReclaim
  <2>. QED  BY <2>1
<1>10. CASE EnvNext
  \* The controllers create only the PV and never make anything live again.
  <2>1. CASE SnapshotReady \/ ProvisionStart \/ ProvisionDone
    BY <2>1 DEF SnapshotReady, ProvisionStart, ProvisionDone, EnvVars
  <2>2. CASE RemovePod \/ RemovePVC \/ ReclaimPV
    BY <2>2 DEF RemovePod, RemovePVC, ReclaimPV, EnvVars
  <2>3. ASSUME NEW v \in Snapshots, RemoveSnapshot(v) PROVE Rollback'
    BY <2>3 DEF RemoveSnapshot, Snapshots, BoundContent, EnvVars, Contents, Policies
  <2>4. ASSUME NEW c \in Contents, RemoveContent(c) PROVE Rollback'
    BY <2>4 DEF RemoveContent, Contents, EnvVars
  <2>. QED  BY <1>10, <2>1, <2>2, <2>3, <2>4 DEF EnvNext
<1>11. CASE UNCHANGED vars
  BY <1>11 DEF vars
<1>. QED  BY <1>1, <1>2, <1>3, <1>4, <1>5, <1>6, <1>7, <1>8, <1>9, <1>10, <1>11,
             <1>12, <1>13, <1>14 DEF Next, ExposeNext, CleanUpNext

\* When Expose returns an error and none of its deferred deletes failed,
\* backupVS, backupPVC and the pod are not live (RollbackComplete), for
\* every bound on faults and crashes.
THEOREM RolledBack == Spec => []RollbackComplete
<1>1. RInv /\ [Next]_vars => RInv'
  BY TypeStep, RollbackStep DEF RInv
<1>2. RInv => RollbackComplete
  BY DEF RInv, Rollback, RollbackComplete, Running, ExposeSteps, UnwindSteps
<1>. QED  BY RollbackInit, <1>1, <1>2, PTL DEF Spec

-----------------------------------------------------------------------------
(* Refinement of the safety part of ExposerAbs.                            *)

\* A step of the cluster in a protected phase leaves the storage snapshot
\* in place, and no step ever brings a destroyed one back.
LEMMA SnapshotStep ==
    ASSUME IInv, [Next]_vars
    PROVE  /\ snapshot' => snapshot
           /\ pc \in ExposeSteps \cup {"exposed"} /\ pc' = pc => snapshot' = snapshot
<1>1. snapshot' => snapshot
  <2>1. CASE \E c \in Contents : RemoveContent(c)
    BY <2>1 DEF RemoveContent
  <2>2. CASE ~\E c \in Contents : RemoveContent(c)
    BY <2>2 DEF Next, ExposeNext, CleanUpNext, EnvNext, vars, ExposeVars, CleanUpVars,
       EnvVars, WaitVSReady, GetVSC, CreateBackupVS, CreateBackupVSC, RetainVSC,
       DeleteVS, WaitVSGone, DeleteVSC, WaitVSCGone, CreateBackupPVC, CreateBackupPod,
       ExposeFail, ExposeTimeout, UnwindDone, UnwindBackupVS, UnwindBackupPVC,
       UnwindPVCDelete, StartCleanUp, CleanUpPod, CleanUpPVC, CleanUpPVCDelete,
       CleanUpPVCWait, CleanUpBackupVS, CleanUpSourceVS, Crash, SnapshotReady,
       ProvisionStart, ProvisionDone, RemovePod, RemovePVC, ReclaimPV, RemoveSnapshot
  <2>. QED  BY <2>1, <2>2
<1>2. pc \in ExposeSteps \cup {"exposed"} /\ pc' = pc => snapshot' = snapshot
  <2> SUFFICES ASSUME pc \in ExposeSteps \cup {"exposed"}, pc' = pc
               PROVE  snapshot' = snapshot
    OBVIOUS
  <2>1. snapshot
    BY DEF IInv, Handover
  <2>2. snapshot'
    <3>1. Handover'  BY HandoverStep
    <3>. QED  BY <3>1 DEF Handover
  <2>3. snapshot \in BOOLEAN /\ snapshot' \in BOOLEAN
    BY TypeStep DEF IInv, TypeOK
  <2>. QED  BY <2>1, <2>2, <2>3
<1>. QED  BY <1>1, <1>2

\* Every step of Exposer is a step of ExposerAbs under the mapping, or
\* leaves the phase and the storage snapshot unchanged.
LEMMA RefinementStep == IInv /\ [Next]_vars => [Abs!ANext]_<<APhase, snapshot>>
<1> SUFFICES ASSUME IInv, [Next]_vars PROVE [Abs!ANext]_<<APhase, snapshot>>
  OBVIOUS
<1> DEFINE Stay == APhase' = APhase /\ snapshot' = snapshot
<1>0. snapshot' => snapshot
  BY SnapshotStep
<1>1. CASE ExposeNext
  <2> USE DEF ExposeVars, APhase, ExposeSteps, UnwindSteps, CleanUpSteps
  <2>1. CASE WaitVSReady \/ GetVSC \/ CreateBackupVS \/ CreateBackupVSC \/ RetainVSC
             \/ DeleteVS \/ WaitVSGone \/ DeleteVSC \/ WaitVSCGone \/ CreateBackupPVC
    <3>1. Stay
      BY <2>1 DEF WaitVSReady, GetVSC, CreateBackupVS, CreateBackupVSC, RetainVSC,
         DeleteVS, WaitVSGone, DeleteVSC, WaitVSCGone, CreateBackupPVC
    <3>. QED  BY <3>1
  <2>2. CASE CreateBackupPod
    <3>1. Abs!Succeed  BY <2>2 DEF CreateBackupPod, Abs!Succeed
    <3>. QED  BY <3>1 DEF Abs!ANext
  <2>3. CASE ExposeFail \/ ExposeTimeout
    <3>1. Abs!Fail  BY <2>3 DEF ExposeFail, ExposeTimeout, Abs!Fail
    <3>. QED  BY <3>1 DEF Abs!ANext
  <2>4. CASE UnwindDone
    <3>1. Abs!RolledBack  BY <2>4 DEF UnwindDone, Abs!RolledBack
    <3>. QED  BY <3>1 DEF Abs!ANext
  <2>5. CASE UnwindBackupVS \/ UnwindBackupPVC \/ UnwindPVCDelete
    <3>1. Stay
      BY <2>5 DEF UnwindBackupVS, UnwindBackupPVC, UnwindPVCDelete, PVCGetAndReclaim
    <3>. QED  BY <3>1
  <2>. QED  BY <1>1, <2>1, <2>2, <2>3, <2>4, <2>5 DEF ExposeNext
<1>2. CASE CleanUpNext
  <2> USE DEF CleanUpVars, APhase, ExposeSteps, UnwindSteps, CleanUpSteps, Returned
  <2>1. CASE StartCleanUp
    <3>1. Abs!BeginCleanUp  BY <2>1 DEF StartCleanUp, Abs!BeginCleanUp
    <3>. QED  BY <3>1 DEF Abs!ANext
  <2>2. CASE CleanUpPod \/ CleanUpPVC \/ CleanUpPVCDelete \/ CleanUpPVCWait \/ CleanUpBackupVS
    <3>1. Stay
      BY <2>2 DEF CleanUpPod, CleanUpPVC, CleanUpPVCDelete, CleanUpPVCWait,
         CleanUpBackupVS, PVCGetAndReclaim
    <3>. QED  BY <3>1
  <2>3. CASE CleanUpSourceVS
    <3>1. Abs!EndCleanUp  BY <2>3 DEF CleanUpSourceVS, Abs!EndCleanUp
    <3>. QED  BY <3>1 DEF Abs!ANext
  <2>. QED  BY <1>2, <2>1, <2>2, <2>3 DEF CleanUpNext
<1>3. CASE Crash
  <2>1. Abs!Die  BY <1>3 DEF Crash, Abs!Die, APhase, ExposeSteps, UnwindSteps, CleanUpSteps
  <2>. QED  BY <2>1 DEF Abs!ANext
<1>4. CASE EnvNext \/ UNCHANGED vars
  \* The cluster never moves the exposer: the phase stays, and the storage
  \* snapshot can only go, and only outside the protected phases.
  <2>1. pc' = pc
    BY <1>4 DEF EnvNext, EnvVars, vars, SnapshotReady, ProvisionStart, ProvisionDone,
       RemovePod, RemovePVC, ReclaimPV, RemoveSnapshot, RemoveContent
  <2>2. APhase' = APhase
    BY <2>1 DEF APhase
  <2>3. CASE snapshot' = snapshot
    BY <2>2, <2>3
  <2>4. CASE snapshot' /= snapshot
    <3>1. pc \notin ExposeSteps \cup {"exposed"}
      BY <2>1, <2>4, SnapshotStep
    <3>2. APhase \notin Abs!Protected
      BY <3>1 DEF APhase, Abs!Protected, IInv, TypeOK, PCs, Returned, ExposeSteps,
         UnwindSteps, CleanUpSteps
    <3>3. snapshot /\ ~snapshot'
      BY <1>0, <2>4, TypeStep DEF IInv, TypeOK
    <3>4. Abs!Destroy  BY <2>2, <3>2, <3>3 DEF Abs!Destroy
    <3>. QED  BY <3>4 DEF Abs!ANext
  <2>. QED  BY <2>3, <2>4
<1>. QED  BY <1>1, <1>2, <1>3, <1>4 DEF Next

\* The initial state maps to the abstract initial state.
LEMMA RefinementInit == Init => Abs!AInit
BY DEF Init, Abs!AInit, APhase, ExposeSteps, UnwindSteps, CleanUpSteps

\* Exposer implements the safety part of ExposerAbs: under the mapping of
\* the control point to a phase, Expose, its rollback, a crash and CleanUp
\* only take the abstract steps, and the storage snapshot is destroyed only
\* outside Expose and its standing result (the safety half of
\* ImplementsAbs, for every bound on faults and crashes).
THEOREM Refinement == Spec => Abs!ASafeSpec
<1>1. Spec => []IInv
  BY IInvInit, IInvStep, PTL DEF Spec
<1>2. []IInv /\ [][Next]_vars => [][Abs!ANext]_<<APhase, snapshot>>
  BY RefinementStep, PTL
<1>. QED  BY <1>1, <1>2, RefinementInit, PTL DEF Spec, Abs!ASafeSpec, Abs!avars

=============================================================================
