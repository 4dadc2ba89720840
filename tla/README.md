# Formal models of the CSI snapshot exposer

This directory holds TLA+ models of the CSI snapshot exposer in
`src/pkg/exposer/csi_snapshot.go`, of the DeleteBackupRequest helpers in
`src/unnamed/part_000`, and of the fake DeleteBackupRequests client in
`src/pkg/generated/.../fake/fake_deletebackuprequest.go`. It contains TLC
configurations that check the models on small instances, and TLAPS proofs that
hold for every instance.

## 1. The system

The exposer turns a ready CSI VolumeSnapshot (`vs`, bound to content `vsc`)
into a pod that can read its data. `Expose` (lines 106-237) runs these steps in
order:

1. wait for `vs` to be ready;
2. get `vsc`;
3. create `backupVS`;
4. create `backupVSC`, which has the same storage handle and DeletionPolicy
   Delete;
5. patch `vsc` to Retain;
6. delete `vs`, then `vsc`, each with a poll until it is gone;
7. create `backupPVC` from `backupVS`;
8. create `backupPod`.

Three `defer`s compensate a failure. They delete `backupVS` (line 138),
`backupPVC` with its PV (line 207), and `backupPod` (line 232).

`CleanUp` (lines 391-401) deletes the pod, then the PVC and PV, then
`backupVS`, then the source `vs`. It does not return an error.
`GetExposed` (lines 239-299) and `PeekExposed` (lines 301-323) are called on
the node, after Expose, by the data mover. GetExposed finds the pod and waits
for the claim to be bound. PeekExposed is then polled to learn whether the pod
has become unrecoverable. `DiagnoseExpose` only builds a text report.

The exposer's outcome is decided together with other Kubernetes actors:

- the snapshot controller, which removes snapshots and contents and, for
  Delete contents, the storage snapshot;
- the external provisioner, which creates the PV of `backupPVC`;
- the kubelet;
- PVC protection;
- the PV reclaimer.

Inventory:

| Part | State | Operations | Hard behaviours |
|---|---|---|---|
| Expose | control point, deferred stack, objects | 11 forward steps, failure, timeout, 3 compensations | partial failure, best-effort rollback, poll timeouts, crash |
| CleanUp | control point | pod, PVC (get, patch, delete, wait), backupVS, vs | idempotence, stale PVC read, timeout |
| Claim and pod construction | none (pure) | VolumeSizeOf, BackupPVCConfig lookup, volume mode, OS branch | read-only override, relabel skip |
| Controllers (environment) | object status, policies, storage snapshot, provisioning | remove snapshot or content, provision, reclaim | run concurrently with Expose and CleanUp |
| GetExposed, PeekExposed | caller's control point | pod Get, claim wait, health probe | race with CleanUp, eviction, swallowed errors |
| DeleteBackupRequest helpers and clients | stored requests, last outcome | Create (fake and API server), Delete, List | label and selector agreement, label length, selector parse, unnamed objects in the fake |

## 2. Modules

- **Exposer.tla** models Expose, CleanUp, a crash and the controllers as one
  state machine.
  - `obj` maps each object to absent, live or terminating. A delete
    (`Issue`) only marks the object terminating. The controllers later remove
    it, with the finalizers the code meets: a claim-source snapshot waits for
    its claim, and a PVC waits for its pod.
  - `policy` holds the deletion or reclaim policy of `vsc`, `backupVSC` and
    the PV. `snapshot` says whether the storage snapshot still exists.
  - `pc` is the next step of the program. `defers` is the stack of registered
    compensations.
  - Every error return is `ExposeFail`, and it uses up one of `MaxFaults`.
    Poll timeouts are `ExposeTimeout` and `CleanUpPVCWait` and use up none.
    `Crash` (at most `MaxCrashes`) drops the deferred functions.
  - `swallowed` records an error that a best-effort delete only logged.
  - Steps reached through `kube.*` and `csi.*` helpers outside `src/` are
    modelled from the spec and marked `spec_modelled`: `DeleteIfAny`,
    `PVCGetAndReclaim` and `Issue`. So are the environment actions.
- **ExposeConfig.tla** models, as pure operators, the claim and the pod that
  Expose builds from its parameters: `VolumeSizeOf`, `BackupPVCSettings`,
  `GetVolumeModeByAccessMode`, `BackupPVC` and `BackupPod`. Initial states
  range over every parameter set.
- **ExposerNode.tla** extends Exposer with the node-side caller.
  - `caller` is the caller's control point: idle, inside GetExposed before
    or after its pod Get, watching, or aborted.
  - `GetExposedGetPod` is lines 252-264: NotFound returns nil, and another
    error is returned.
  - `GetExposedWaitPVC` is lines 268-298: a bound claim returns the result;
    a missing claim, a failed Get or the deadline is an error.
  - `PeekExposed` is lines 301-323: NotFound and a failed Get return nil, and
    an unrecoverable pod returns an error.
  - The cluster may fail the pod (`PodFails`, what `kube.IsPodUnrecoverable`
    reports) or evict it (`EvictPod`, at most `MaxEvictions` times).
  - All of Exposer's actions run concurrently, CleanUp included.
- **ExposerAbs.tla** is the abstract exposer a caller relies on. `phase` is
  exposing, rollingBack, exposed, failed, crashed, cleaning or cleaned.
  `snapshot` may only be destroyed outside exposing and exposed, and never
  comes back. Its fairness says every Expose, rollback and CleanUp returns.
- **ExposerRefinement.tla** maps Exposer onto it. `APhase` sends each control
  point to its phase (Expose steps to exposing, unwinding to rollingBack, and
  so on). `snapshot` maps to itself, and `ImplementsAbs` is `Abs!ASpec`.
- **DeleteRequests.tla** models `NewDeleteBackupRequest`,
  `NewDeleteBackupRequestListOptions`, and the fake client's Create, Delete
  and List over a set of stored requests. `status` is the outcome of the last
  call: ok, an error, or a panic of the fake, after which no call follows.
  - Each backup name has a length.
  - The fake's object tracker stores an object under its Name. The helper
    sets only GenerateName, so every request the fake stores is unnamed
    (`EmptyName`), and a second Create returns AlreadyExists.
  - `ServerCreate` is the API server's Create. It generates a fresh name and
    rejects a label value longer than 63 characters; the fake does not.
  - `List` parses the selector first (`ValidSelector`, labels.Parse). The
    helper's selector for a name longer than 63 characters does not parse:
    the fake panics in `NewListAction` (line 52), and a server answers with
    an error. A parsed selector filters the stored items by their labels.
  - The client is chosen once per run from `Clients`.
- **ExposerProofs.tla** holds the TLAPS proofs about Exposer.
- **ExposerNodeProofs.tla**, **ExposeConfigProofs.tla** and
  **DeleteRequestsProofs.tla** hold the proofs about the other components.
- **MC\*.tla / \*.cfg** give the constants for TLC.

## 3. Runs

| Run | Expect | Shows |
|---|---|---|
| expose_safety (`MCExposer.cfg`) | pass | Checks four properties with 2 faults and 1 crash (11,817 states). `SnapshotKeptWhileExposing`: the storage snapshot exists while Expose runs and after it succeeds. `ExposedConsistent`: on success the chain exists and the sources are gone. `RollbackComplete`: after a failure with no swallowed error, nothing Expose created is live. `CleanUpRemovesExposed`: after a clean CleanUp, the pod, PVC, backupVS and vs are eventually gone. |
| snapshot_retained | violation | A failure between createBackupVSC and the end of RetainVSC. The rollback deletes backupVS. Its Delete content then destroys the storage snapshot that `vs` and `vsc` still point to. The spec says the derived content is Retain; the code (line 456) uses Delete. |
| volume_race | violation | With no faults at all, CleanUp reads the PVC before the provisioner binds it. The PV's reclaim policy is then never patched, and with a Retain class the PV survives. |
| expose_config | pass | Checks two properties for all 24,336 parameter sets. `ReadOnlyOverride`: a read-only mapping makes the claim ReadOnlyMany and the mount read-only. `RelabelSkipOnlyReadOnly`: the relabel skip applies only to a read-only Linux pod. |
| delete_requests | pass | `ListFindsRequestsOfBackup`: listing with the helper's options succeeds and returns exactly the requests of that backup when its name (63 characters) is a valid label value, and fails when it is not (64 characters: the fake panics, the server errors). Both clients, three Create calls (355 states). Deadlock is not checked, because a panic ends the program. |
| long_backup_name | violation | With the API server, a Create for a backup with a 64-character name is rejected. So that backup gets no deletion request (part_000 line 32). The fake client used by tests accepts it. |
| node_reads | pass | Checks `UnrecoverablePodAborts` with one fault, one crash and one eviction (64,124 states). When the watched pod becomes unrecoverable, the caller eventually aborts, unless the pod is removed first. The faults are bounded, so this shows that the health check is reached once Gets succeed again, not that Gets do. |
| refinement | pass | `ImplementsAbs`: with two faults and one crash, Exposer implements ExposerAbs, liveness included (11,817 states). |

Each property of a passing run has a mutant in `PROJECT.json`: a plausible bug
in the mapped code, which TLC finds.

Bounds:

- Two faults let both a forward step and a compensation fail in one run.
- One crash is enough, because a crash ends Expose. Any further crash only
  repeats CleanUp's start.
- Each object exists once, since names are fixed by the owner. So one owner
  covers every interleaving with the controllers.

Fairness is weak fairness on every program step and environment action.
Failures, timeouts and crashes get none. The code has no blocking wait that
could starve, and the controllers reconcile forever. In ExposerNode the
caller's reactions (GetExposed on the pod event, and each PeekExposed poll)
are also weakly fair, since the data mover polls on a timer. Pod failures and
evictions get no fairness.

One eviction lets the pod disappear while the caller is inside GetExposed or
watching. A second one would only repeat the same NotFound.

Two things the model reaches but deliberately states no property about:

- After RetainVSC, a failed or timed-out EnsureDeleteVS/EnsureDeleteVSC
  unwinds Expose with the source content left Retain, and CleanUp deletes
  only the snapshots (lines 399-400). The spec (section 4.1 step 7, section 9)
  accepts this orphaned content.
- PeekExposed returns nil when the pod is NotFound (lines 309-311), as the
  spec (section 4.3) prescribes; a caller that learns of a deleted pod some
  other way is outside this repository.

## 4. Proofs

`ExposerProofs.tla` proves the following for every `MaxFaults, MaxCrashes ∈ Nat`:

- `TypeCorrect`: `Spec => []TypeOK`.
- `SnapshotKept`: `Spec => []SnapshotKeptWhileExposing`.
- `Consistent`: `Spec => []ExposedConsistent`.
- `RolledBack`: `Spec => []RollbackComplete`.
- `Refinement`: `Spec => Abs!ASafeSpec`. Exposer implements the safety part
  of the abstract exposer.

`SnapshotKeptWhileExposing` alone is not inductive. A controller step could
destroy the snapshot unless we know that, during Expose:

- `backupVS` and `backupVSC` are never terminating;
- before RetainVSC, `vs` and `vsc` are live;
- after RetainVSC, `vsc` is Retain.

The strengthening `Handover` states these facts, and `IInv == TypeOK /\ Handover`
was checked with TLC before it was proved. The proof has three parts:

- `IInvInit` shows that Init implies IInv.
- `HandoverStep` has one case per action group.
- The invariant implies the property.

The theorem then follows by PTL.

`Consistent` rests on `Chain`. For each step Expose has passed, the object
that step created is live, or the object it waited for is absent. This holds
because the controllers remove only terminating objects, nothing recreates
`vs` or `vsc`, and only a rollback or CleanUp deletes what Expose made.

`RolledBack` rests on `Rollback`, which says:

- the stack of deferred compensations matches the step reached
  (`<<>>`, `<<DeleteBackupVS>>`, or both entries at createPod);
- the pod is absent until Expose returns nil;
- unless a best-effort delete failed, a live backupVS has its compensation
  still on the stack, and a live backupPVC has its compensation still on the
  stack or is being deleted by it.

`StackFacts` gives Append, Front and Last on these stacks. It is proved from
`SubSeqProperties`, `AppendProperties` and `SeqEqual`.

`Refinement` uses `IInv`. `RefinementStep` maps each action group to an
abstract action or a stutter. Controller steps outside the protected phases
map to `Destroy` when they delete the storage snapshot. `SnapshotStep` shows
that they never delete it inside those phases.

Each invariant was checked with TLC before it was proved.

`ExposerNodeProofs.tla` proves `NodeRefinement`: `NodeSpec => Abs!ASafeSpec`,
for every `MaxEvictions` as well. The proof reuses `IInv` and
`RefinementStep`.

- The caller's steps and `PodFails` change none of Exposer's variables except
  `faults`. A failed Get uses up the shared fault budget, which stays within
  `MaxFaults`.
- `EvictPod` changes only the pod, which `Handover` does not mention.

So each such step keeps `IInv` and leaves `APhase` and `snapshot` as they
are. `ExposedConsistent` does not hold in the composition, since an eviction
makes the pod terminating while `pc = "exposed"`. It is stated and proved for
Exposer alone.

`ExposeConfigProofs.tla` proves `ReadOnlyHolds` and `RelabelSkipHolds` for
every set of storage classes, access modes, sizes and node OSes allowed by
`ConfigAssumption`. One lemma states what each builder returns:

- `SettingsFacts` for `BackupPVCSettings`;
- `ClaimAndPodFacts` for `BackupPVC` and `BackupPod`.

The properties follow from these lemmas and `TypeOK`. The state only changes
the node OS, so no strengthening is needed.

`DeleteRequestsProofs.tla` proves `ListFinds`, the action property
`ListFindsRequestsOfBackup`, for any backups, label key, name lengths, bound
and client. It
rests on `LabelsAgree`: every stored request's backup-name label equals its
spec's backup name. This holds because both clients store only what
`NewDeleteBackupRequest` built. The step proof splits on each action:

- a Create, even a failed one, changes the call count;
- a Delete changes the store;
- a List with the empty selector sets a query of another shape;
- so only a List with the helper's options for `n` matches the antecedent.
  `OptionsValid` says that this selector parses exactly when the name fits
  a label value, and `OptionsMatch` that it then matches exactly the
  requests of `n`.

The empty selector `ListOptions{}` is modelled as a record of its own shape,
`[everything |-> TRUE]`. It is not a key=value pair with an empty key,
because the SMT backend of tlapm 1.4.5 cannot handle an obligation that
contains the empty string.

Only TLC checks the following:

- `CleanUpRemovesExposed`, `UnrecoverablePodAborts` and the fairness part of
  `ImplementsAbs`, because liveness and ENABLED are beyond TLAPS;
- the violated properties, which hold for no instance.

## 5. Not modelled

- DiagnoseExpose. It only builds a text report and changes no state.
- The node-agent pod template, affinity, resources, security context and
  tolerations, and the command line. Only the pod fields the properties
  compare are kept.
- The requested size of the claim (`VolumeSizeOf`) is modelled, but no
  property is stated about it: it is a single fallback guard (line 171).
- Validation of anything but the label value's length: every backup name
  the helpers see is taken to be a valid object name.
- The fake client's Get, Update, Patch, Watch and DeleteCollection, which only
  forward to the object tracker.
- The Makefile.

Plan for later work:

- proofs about ExposerNode's safety (the caller never watches a pod that
  Expose did not create);
- the fake client's Update and Patch, which could change a request's label
  without its spec.
