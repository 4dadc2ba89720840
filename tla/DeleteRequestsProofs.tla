------------------------ MODULE DeleteRequestsProofs ------------------------
(***************************************************************************)
(* Proof that the helper's list options find exactly the requests of a     *)
(* backup whose name is a valid label value, and fail for any other, for   *)
(* any set of backups, any label key and any number of requests, with the  *)
(* fake client or the API server.                                          *)
(***************************************************************************)
EXTENDS DeleteRequests, TLAPS

\* Every stored request carries its backup's name in the backup-name label,
\* as NewDeleteBackupRequest wrote it: no client stores anything else.
LabelsAgree == \A r \in store : r.labels[BackupNameLabel] = r.backupName

LInv == TypeOK /\ LabelsAgree

\* The facts about the constants that the proofs use.
LEMMA ConstantFacts == MaxRequests \in Nat /\ NameLength \in [Backups -> Nat]
BY RequestsAssumption

\* The requests the clients store have the shape the store holds.
LEMMA NewRequestType ==
    ASSUME NEW n \in Backups, NEW i \in 0..MaxRequests
    PROVE  /\ Named(NewDeleteBackupRequest(n), i) \in Requests
           /\ Named(NewDeleteBackupRequest(n), i).labels[BackupNameLabel] = n
           /\ Named(NewDeleteBackupRequest(n), i).backupName = n
BY DEF NewDeleteBackupRequest, Named, Requests

LEMMA LInvInit == Init => LInv
<1> SUFFICES ASSUME Init PROVE LInv
  OBVIOUS
<1>1. nextId \in 0..MaxRequests
  BY ConstantFacts DEF Init
<1>2. store \subseteq Requests /\ result \subseteq Requests /\ LabelsAgree
  BY DEF Init, LabelsAgree
<1>3. query \in Selectors
  BY DEF Init, Selectors
<1>4. status \in Outcomes /\ lastCreate \in Backups \cup {"none"} /\ client \in Clients
  BY DEF Init, Outcomes
<1>. QED  BY <1>1, <1>2, <1>3, <1>4 DEF LInv, TypeOK

LEMMA LInvStep == LInv /\ [Next]_vars => LInv'
<1> SUFFICES ASSUME LInv, [Next]_vars PROVE LInv'
  OBVIOUS
<1> USE ConstantFacts DEF LInv, TypeOK, LabelsAgree, Outcomes
<1>1. ASSUME NEW n \in Backups, Create(n) PROVE LInv'
  <2>1. nextId + 1 \in 0..MaxRequests /\ EmptyName \in 0..MaxRequests
    BY <1>1 DEF Create, EmptyName
  <2>. QED  BY <1>1, <2>1, NewRequestType DEF Create
<1>2. ASSUME NEW n \in Backups, ServerCreate(n) PROVE LInv'
  <2>1. nextId + 1 \in 0..MaxRequests
    BY <1>2 DEF ServerCreate
  <2>. QED  BY <1>2, <2>1, NewRequestType DEF ServerCreate
<1>3. ASSUME NEW r \in store, Delete(r) PROVE LInv'
  BY <1>3 DEF Delete
<1>4. ASSUME NEW sel \in Selectors, List(sel) PROVE LInv'
  BY <1>4 DEF List
<1>5. CASE UNCHANGED vars
  BY <1>5 DEF vars
<1>6. \A n \in Backups : NewDeleteBackupRequestListOptions(n) \in Selectors
  BY DEF NewDeleteBackupRequestListOptions, Selectors
<1>7. NoSelector \in Selectors
  BY DEF Selectors
<1>. QED  BY <1>1, <1>2, <1>3, <1>4, <1>5, <1>6, <1>7 DEF Next

\* The helper's selector for backup n parses exactly when n is a valid
\* label value.
LEMMA OptionsValid ==
    ASSUME NEW n \in Backups
    PROVE  ValidSelector(NewDeleteBackupRequestListOptions(n))
               <=> NameLength[n] <= LabelValueMax
BY DEF ValidSelector, ValidLabelValue, NewDeleteBackupRequestListOptions, NoSelector

\* The helper's selector for backup n matches exactly the stored requests
\* of backup n, given that labels agree with the spec.
LEMMA OptionsMatch ==
    ASSUME LInv, NEW n \in Backups
    PROVE  {r \in store : Matches(NewDeleteBackupRequestListOptions(n), r.labels)}
               = {r \in store : r.backupName = n}
BY DEF LInv, TypeOK, LabelsAgree, Requests, Matches,
   NewDeleteBackupRequestListOptions, NoSelector

\* The helper's label, the helper's selector and the client's filter agree:
\* a List with the helper's options for backup n succeeds and returns
\* exactly the stored requests whose spec names n when n is a valid label
\* value, and does not succeed otherwise, whichever client stored them
\* (ListFindsRequestsOfBackup).
THEOREM ListFinds == Spec => ListFindsRequestsOfBackup
<1>1. LInv /\ [Next]_vars =>
        [\A n \in Backups :
           (query' = NewDeleteBackupRequestListOptions(n) /\ UNCHANGED <<store, nextId>>) =>
               IF NameLength[n] <= LabelValueMax
               THEN status' = "ok" /\ result' = {r \in store : r.backupName = n}
               ELSE status' /= "ok"]_vars
  <2> SUFFICES ASSUME LInv, Next, NEW n \in Backups,
                      query' = NewDeleteBackupRequestListOptions(n),
                      UNCHANGED <<store, nextId>>
               PROVE  IF NameLength[n] <= LabelValueMax
                      THEN status' = "ok" /\ result' = {r \in store : r.backupName = n}
                      ELSE status' /= "ok"
    BY DEF vars
  <2> USE ConstantFacts DEF LInv, TypeOK
  <2>1. ASSUME NEW m \in Backups, Create(m) \/ ServerCreate(m) PROVE FALSE
    \* Every Create, even one that fails, counts a call.
    BY <2>1 DEF Create, ServerCreate
  <2>2. ASSUME NEW r \in store, Delete(r) PROVE FALSE
    BY <2>2 DEF Delete
  <2>3. ASSUME NEW m \in Backups, List(NewDeleteBackupRequestListOptions(m))
        PROVE  IF NameLength[n] <= LabelValueMax
               THEN status' = "ok" /\ result' = {r \in store : r.backupName = n}
               ELSE status' /= "ok"
    <3>1. m = n
      BY <2>3 DEF List, NewDeleteBackupRequestListOptions
    <3>2. CASE NameLength[n] <= LabelValueMax
      BY <2>3, <3>1, <3>2, OptionsValid, OptionsMatch DEF List
    <3>3. CASE ~(NameLength[n] <= LabelValueMax)
      BY <2>3, <3>1, <3>3, OptionsValid DEF List
    <3>. QED  BY <3>2, <3>3
  <2>4. ASSUME List(NoSelector) PROVE FALSE
    \* The empty selector is no key=value selector.
    BY <2>4 DEF List, NoSelector, NewDeleteBackupRequestListOptions
  <2>. QED  BY <2>1, <2>2, <2>3, <2>4 DEF Next
<1>. QED  BY <1>1, LInvInit, LInvStep, PTL DEF Spec, ListFindsRequestsOfBackup

=============================================================================
