------------------------- MODULE ExposeConfigProofs -------------------------
(***************************************************************************)
(* Proofs that the claim and pod Expose builds follow the spec for every   *)
(* parameter set, whatever the storage classes, sizes, access modes and    *)
(* node OSes: one lemma per builder of csi_snapshot.go, then the two       *)
(* invariants the expose_config run checks on a small instance.            *)
(***************************************************************************)
EXTENDS ExposeConfig, TLAPS

\* The parameters stay well formed: re-exposing for another node OS only
\* changes the OS.
THEOREM TypeCorrect == Spec => []TypeOK
<1>1. Init => TypeOK
  BY DEF Init, TypeOK
<1>2. TypeOK /\ [Next]_param => TypeOK'
  BY DEF TypeOK, Next, Params
<1>. QED  BY <1>1, <1>2, PTL DEF Spec

\* BackupPVCSettings (lines 178-197) is read-only exactly for a read-only
\* mapping of the source class, and skips relabeling only when read-only.
LEMMA SettingsFacts ==
    ASSUME NEW p \in Params
    PROVE  LET s == BackupPVCSettings(p)
               m == p.storageClass \in DOMAIN p.backupPVCConfig
               v == p.backupPVCConfig[p.storageClass]
           IN  /\ s.readOnly = (m /\ v.readOnly)
               /\ s.spcNoRelabeling = (m /\ v.spcNoRelabeling /\ v.readOnly)
BY DEF BackupPVCSettings

\* The claim is ReadOnlyMany exactly when the settings are read-only, and
\* the pod mounts its volume read-only exactly then (lines 465-690).
LEMMA ClaimAndPodFacts ==
    ASSUME NEW p \in Params
    PROVE  /\ (BackupPVC(p).accessMode = "ReadOnlyMany") = BackupPVCSettings(p).readOnly
           /\ BackupPod(p).volumeReadOnly = BackupPVCSettings(p).readOnly
           /\ (BackupPod(p).seLinuxType = "spc_t")
                = (p.nodeOS /= "windows" /\ BackupPVCSettings(p).spcNoRelabeling)
<1> DEFINE s == BackupPVCSettings(p)
<1>1. s.readOnly \in BOOLEAN /\ s.spcNoRelabeling \in BOOLEAN
  BY DEF BackupPVCSettings
<1>2. (BackupPVC(p).accessMode = "ReadOnlyMany") = s.readOnly
  BY <1>1 DEF BackupPVC
<1>3. BackupPod(p).volumeReadOnly = s.readOnly
  BY DEF BackupPod
<1>4. (BackupPod(p).seLinuxType = "spc_t") = (p.nodeOS /= "windows" /\ s.spcNoRelabeling)
  BY <1>1 DEF BackupPod
<1>. QED  BY <1>2, <1>3, <1>4

\* The two invariants hold in every parameter set.
LEMMA ConfigCorrect == TypeOK => ReadOnlyOverride /\ RelabelSkipOnlyReadOnly
<1> SUFFICES ASSUME TypeOK PROVE ReadOnlyOverride /\ RelabelSkipOnlyReadOnly
  OBVIOUS
<1>1. param \in Params
  BY DEF TypeOK
<1>2. ReadOnlyOverride
  BY <1>1, SettingsFacts, ClaimAndPodFacts DEF ReadOnlyOverride, PVC, Pod, Mapped, Mapping
<1>3. RelabelSkipOnlyReadOnly
  BY <1>1, SettingsFacts, ClaimAndPodFacts DEF RelabelSkipOnlyReadOnly, PVC, Pod, Mapped, Mapping
<1>. QED  BY <1>2, <1>3

\* For every parameter set, a read-only mapping of the source class makes
\* the claim ReadOnlyMany and the pod's mount read-only, and nothing else
\* does (ReadOnlyOverride, lines 178-197 and 465-690).
THEOREM ReadOnlyHolds == Spec => []ReadOnlyOverride
BY TypeCorrect, ConfigCorrect, PTL

\* For every parameter set, the pod skips SELinux relabeling exactly when
\* the mapping asks for it, the mount is read-only and the node is not
\* Windows: never for a writable volume (RelabelSkipOnlyReadOnly).
THEOREM RelabelSkipHolds == Spec => []RelabelSkipOnlyReadOnly
BY TypeCorrect, ConfigCorrect, PTL

=============================================================================
