---------------------------- MODULE ExposeConfig ----------------------------
(***************************************************************************)
(* The pure part of Expose: how the exposer turns its parameters into the  *)
(* intermediate claim and the hosting pod (csi_snapshot.go lines 170-199,  *)
(* 403-412, 465-522, 524-690), and how GetExposed reads the node OS back   *)
(* from the pod (lines 288-291).  Only the fields whose values depend on   *)
(* the parameters are kept; names, labels and command lines are fixed by   *)
(* the owner and left out.                                                 *)
(*                                                                         *)
(* The state is one set of parameters; Init ranges over all of them, so a *)
(* run checks the claim and pod built from every parameter set.  A step   *)
(* re-exposes the same snapshot for a node of another OS.                 *)
(***************************************************************************)
EXTENDS Naturals

CONSTANTS
    StorageClasses,  \* storage class names
    AccessModes,     \* values of CSISnapshotExposeParam.AccessMode
    Sizes,           \* quantities; 0 is the zero quantity
    NodeOSes,        \* values of CSISnapshotExposeParam.NodeOS
    NoSize           \* a nil RestoreSize

ASSUME ConfigAssumption ==
    /\ 0 \in Sizes /\ NoSize \notin Sizes
    /\ {"filesystem", "block"} \subseteq AccessModes
    /\ {"linux", "windows"} \subseteq NodeOSes
    /\ "" \notin StorageClasses

\* One entry of the BackupPVCConfig map (nodeagent.BackupPVC).
BackupPVCEntries ==
    [storageClass : StorageClasses \cup {""}, readOnly : BOOLEAN, spcNoRelabeling : BOOLEAN]

\* BackupPVCConfig: a map from source storage class to an entry.
BackupPVCConfigs == UNION {[D -> BackupPVCEntries] : D \in SUBSET StorageClasses}

\* The fields of CSISnapshotExposeParam that the claim and pod depend on,
\* with the RestoreSize the ready snapshot reports.
Params ==
    [storageClass : StorageClasses, accessMode : AccessModes,
     backupPVCConfig : BackupPVCConfigs, volumeSize : Sizes \ {0},
     restoreSize : Sizes \cup {NoSize}, nodeOS : NodeOSes]

VARIABLE param

Init == param \in Params
Next == \E os \in NodeOSes : param' = [param EXCEPT !.nodeOS = os]
Spec == Init /\ [][Next]_param

TypeOK == param \in Params

-----------------------------------------------------------------------------
(* The code.                                                               *)

\* Lines 170-176: the snapshot's restore size unless nil or zero.
VolumeSizeOf(p) ==
    IF p.restoreSize /= NoSize /\ p.restoreSize /= 0 THEN p.restoreSize ELSE p.volumeSize

\* Mutant: spcNoRelabeling honoured for a read-write claim.
BackupPVCSettingsNoReadOnlyCheck(p) ==
    LET cfg    == p.backupPVCConfig
        exists == p.storageClass \in DOMAIN cfg
        value  == cfg[p.storageClass]
    IN [storageClass    |-> IF exists /\ value.storageClass /= ""
                            THEN value.storageClass ELSE p.storageClass,
        readOnly        |-> exists /\ value.readOnly,
        spcNoRelabeling |-> exists /\ value.spcNoRelabeling]

\* Lines 178-197: storage class, read-only flag and SELinux relabel skip of
\* the backup PVC, from the mapping of the source storage class if any.
BackupPVCSettings(p) ==
    LET cfg    == p.backupPVCConfig
        exists == p.storageClass \in DOMAIN cfg
        value  == cfg[p.storageClass]
    IN [storageClass    |-> IF exists /\ value.storageClass /= ""
                            THEN value.storageClass ELSE p.storageClass,
        readOnly        |-> exists /\ value.readOnly,
        spcNoRelabeling |-> exists /\ value.spcNoRelabeling /\ value.readOnly]

\* Lines 403-412: "" stands for the error of an unsupported access mode.
GetVolumeModeByAccessMode(accessMode) ==
    CASE accessMode = "filesystem" -> "Filesystem"
      [] accessMode = "block"      -> "Block"
      [] OTHER                     -> ""

\* Lines 468-471: createBackupPVC returns an error for an unsupported mode.
CreatesPVC(p) == GetVolumeModeByAccessMode(p.accessMode) /= ""

\* Lines 465-522: the claim createBackupPVC creates.
BackupPVC(p) ==
    LET s == BackupPVCSettings(p)
        volumeMode == GetVolumeModeByAccessMode(p.accessMode)
    IN [accessMode   |-> IF s.readOnly THEN "ReadOnlyMany" ELSE "ReadWriteOnce",
        storageClass |-> s.storageClass,
        volumeMode   |-> volumeMode,
        request      |-> VolumeSizeOf(p)]

\* Mutant: the claim volume is not marked read-only in the pod (lines 560-562 lost).
BackupPodWritableMount(p) ==
    LET s       == BackupPVCSettings(p)
        windows == p.nodeOS = "windows"
    IN [volumeReadOnly |-> FALSE,
        volumeMode     |-> BackupPVC(p).volumeMode,
        nodeOSLabel    |-> IF windows THEN "windows" ELSE "linux",
        seLinuxType    |-> IF ~windows /\ s.spcNoRelabeling THEN "spc_t" ELSE ""]

\* Lines 524-690: the pod createBackupPod builds for a created claim.
BackupPod(p) ==
    LET s       == BackupPVCSettings(p)
        windows == p.nodeOS = "windows"
    IN [volumeReadOnly |-> s.readOnly,
        volumeMode     |-> BackupPVC(p).volumeMode,
        nodeOSLabel    |-> IF windows THEN "windows" ELSE "linux",
        seLinuxType    |-> IF ~windows /\ s.spcNoRelabeling THEN "spc_t" ELSE ""]

\* Lines 288-291: GetExposed reports the node OS label of the pod.
ExposedNodeOS(pod) == pod.nodeOSLabel

-----------------------------------------------------------------------------
(* Properties, for the current parameters.                                 *)

PVC == BackupPVC(param)
Pod == BackupPod(param)
Mapping == param.backupPVCConfig[param.storageClass]
Mapped  == param.storageClass \in DOMAIN param.backupPVCConfig

\* Spec: a read-only mapping for the source class makes the claim
\* ReadOnlyMany and the pod mounts it read-only; otherwise both are writable.
ReadOnlyOverride ==
    CreatesPVC(param) =>
        /\ (PVC.accessMode = "ReadOnlyMany") = (Mapped /\ Mapping.readOnly)
        /\ Pod.volumeReadOnly = (PVC.accessMode = "ReadOnlyMany")

\* Spec: the pod skips SELinux relabeling (type spc_t) exactly when the
\* mapping asks for it, the claim is read-only and the pod runs on Linux;
\* the skip is never applied to a writable volume.
RelabelSkipOnlyReadOnly ==
    CreatesPVC(param) =>
        (Pod.seLinuxType = "spc_t") =
            /\ Mapped /\ Mapping.spcNoRelabeling
            /\ PVC.accessMode = "ReadOnlyMany" /\ Pod.volumeReadOnly
            /\ param.nodeOS /= "windows"

=============================================================================
