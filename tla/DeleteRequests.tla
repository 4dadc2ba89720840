--------------------------- MODULE DeleteRequests ---------------------------
(***************************************************************************)
(* DeleteBackupRequests as the Ark backup helpers build them (part_000     *)
(* lines 26-47) and as the generated fake client stores and lists them     *)
(* (fake_deletebackuprequest.go lines 50-127).  A request carries the      *)
(* backup name twice: in its spec and in the backup-name label; the list   *)
(* options select on the label only.  A label set and a selector are       *)
(* functions and records instead of strings: the lister parses "%s=%s"    *)
(* back into the key and value it was formatted from, and the parse fails  *)
(* when the value is not a valid label value.  A backup name is a model    *)
(* value with a length: object names may be 253 characters long, a label   *)
(* value only 63.  Requests are created either through the fake client,    *)
(* whose object tracker stores an object under its Name and ignores        *)
(* GenerateName, or through the API server, which generates a name and     *)
(* validates the labels.                                                   *)
(***************************************************************************)
EXTENDS Naturals

CONSTANTS
    Backups,         \* backup names
    BackupNameLabel, \* v1.BackupNameLabel
    MaxRequests,     \* bound on the Create calls of a run
    NameLength,      \* the length of each backup name
    Clients          \* "fake": the generated fake; "apiserver": a real server

ASSUME RequestsAssumption ==
    /\ MaxRequests \in Nat
    /\ NameLength \in [Backups -> 1..253]
    /\ Clients \subseteq {"fake", "apiserver"} /\ Clients /= {}

\* validation.LabelValueMaxLength, enforced by the API server.
LabelValueMax == 63

\* A list query: either options built by NewDeleteBackupRequestListOptions,
\* a key=value pair, or ListOptions{} whose label selector is empty and
\* selects everything.
NoSelector == [everything |-> TRUE]
Selectors  == [key : {BackupNameLabel}, value : Backups] \cup {NoSelector}

\* ObjectMeta.Name as NewDeleteBackupRequest leaves it: empty.  Names the
\* API server generates are 1..MaxRequests.
EmptyName == 0

\* The fields of a stored request: its name, labels and spec.
Requests ==
    [name : 0..MaxRequests, labels : [{BackupNameLabel} -> Backups],
     backupName : Backups]

\* What the last call returned: no error, an error, or a panic of the fake
\* (which ends the program).
Outcomes == {"ok", "error", "panic"}

VARIABLES
    store,   \* the stored requests
    nextId,  \* Create calls so far; the server's generated names
    query,   \* the selector of the last List call
    result,  \* the items the last List call returned
    status,  \* the outcome of the last call
    lastCreate, \* the backup named by the last Create call
    client      \* the client the program was given, one for the whole run

vars == <<store, nextId, query, result, status, lastCreate, client>>

TypeOK ==
    /\ store \subseteq Requests
    /\ nextId \in 0..MaxRequests
    /\ query \in Selectors
    /\ result \subseteq Requests
    /\ status \in Outcomes
    /\ lastCreate \in Backups \cup {"none"}
    /\ client \in Clients

Init ==
    /\ store = {} /\ nextId = 0
    /\ query = NoSelector /\ result = {} /\ status = "ok" /\ lastCreate = "none"
    /\ client \in Clients

-----------------------------------------------------------------------------
(* The helpers.                                                            *)

\* Lines 26-39: GenerateName name + "-", no Name, label
\* BackupNameLabel=name and Spec.BackupName = name.
NewDeleteBackupRequest(name) ==
    [labels |-> [k \in {BackupNameLabel} |-> name], backupName |-> name]

\* Lines 41-47: the selector "BackupNameLabel=name", as the lister parses it.
NewDeleteBackupRequestListOptions(name) == [key |-> BackupNameLabel, value |-> name]

\* validation.IsValidLabelValue, as far as the length goes: every name the
\* helpers see is a valid object name, so only the length can be wrong.
ValidLabelValue(v) == NameLength[v] <= LabelValueMax

\* labels.Parse succeeds on the empty selector and on key=value with a
\* valid value.
ValidSelector(sel) == sel = NoSelector \/ ValidLabelValue(sel.value)

\* labels.Selector.Matches for an equality selector; the empty selector is
\* labels.Everything().
Matches(sel, labels) ==
    \/ sel = NoSelector
    \/ sel.key \in DOMAIN labels /\ labels[sel.key] = sel.value

\* The request as stored under the name nm.
Named(req, nm) == [name |-> nm, labels |-> req.labels, backupName |-> req.backupName]

-----------------------------------------------------------------------------
(* The clients.  A panic of the fake ends the program: no call follows.    *)

Running == status /= "panic"

\* Create (lines 79-88) through the fake: the object tracker adds the
\* object under its Name, which is empty, and returns AlreadyExists when
\* an object of that name is stored.
Create(name) ==
    /\ Running /\ nextId < MaxRequests
    /\ nextId' = nextId + 1 /\ lastCreate' = name
    /\ IF \E r \in store : r.name = EmptyName
       THEN store' = store /\ status' = "error"
       ELSE store' = store \cup {Named(NewDeleteBackupRequest(name), EmptyName)}
            /\ status' = "ok"
    /\ UNCHANGED <<query, result, client>>

\* The API server's Create: it generates a fresh name from GenerateName; a
\* label value that is not valid fails validation and nothing is stored.
ServerCreate(name) ==
    /\ Running /\ nextId < MaxRequests
    /\ nextId' = nextId + 1 /\ lastCreate' = name
    /\ LET req == NewDeleteBackupRequest(name) IN
         IF \A k \in DOMAIN req.labels : ValidLabelValue(req.labels[k])
         THEN store' = store \cup {Named(req, nextId + 1)} /\ status' = "ok"
         ELSE store' = store /\ status' = "error"
    /\ UNCHANGED <<query, result, client>>

\* Delete (lines 113-118) of a request by name.
Delete(r) ==
    /\ Running /\ r \in store
    /\ store' = store \ {r} /\ status' = "ok"
    /\ UNCHANGED <<nextId, query, result, lastCreate, client>>

\* Mutant: the fake returns the tracker's items unfiltered.
ListUnfiltered(sel) ==
    /\ Running
    /\ query' = sel
    /\ IF ValidSelector(sel)
       THEN result' = store /\ status' = "ok"
       ELSE result' = {} /\ status' = IF client = "fake" THEN "panic" ELSE "error"
    /\ UNCHANGED <<store, nextId, lastCreate, client>>

\* List (lines 50-69): NewListAction (line 52) parses the selector and
\* panics when it is not valid (a server answers with an error); otherwise
\* the tracker returns every item of the namespace and the fake keeps those
\* whose labels the selector matches.
List(sel) ==
    /\ Running
    /\ query' = sel
    /\ IF ValidSelector(sel)
       THEN result' = {r \in store : Matches(sel, r.labels)} /\ status' = "ok"
       ELSE result' = {} /\ status' = IF client = "fake" THEN "panic" ELSE "error"
    /\ UNCHANGED <<store, nextId, lastCreate, client>>

Next ==
    \/ client = "fake" /\ \E n \in Backups : Create(n)
    \/ client = "apiserver" /\ \E n \in Backups : ServerCreate(n)
    \/ \E r \in store : Delete(r)
    \/ \E n \in Backups : List(NewDeleteBackupRequestListOptions(n))
    \/ List(NoSelector)

Spec == Init /\ [][Next]_vars

-----------------------------------------------------------------------------
(* Properties.                                                             *)

\* A List call with the options NewDeleteBackupRequestListOptions(n)
\* succeeds and returns exactly the stored requests whose spec names backup
\* n when n is a valid label value (the label the helper writes, the
\* selector the helper builds and the client's filter agree: the deletion
\* controller finds the earlier requests of a backup this way), whatever
\* other backups' requests are stored and whichever client stored them;
\* and it does not succeed for a longer name, so that no caller takes an
\* empty answer for "no requests".  (A List is the step that changes
\* neither the store nor the count of Create calls.)
ListFindsRequestsOfBackup ==
    [][\A n \in Backups :
         (query' = NewDeleteBackupRequestListOptions(n) /\ UNCHANGED <<store, nextId>>) =>
             IF NameLength[n] <= LabelValueMax
             THEN status' = "ok" /\ result' = {r \in store : r.backupName = n}
             ELSE status' /= "ok"]_vars

\* NewDeleteBackupRequest "creates a DeleteBackupRequest for the backup
\* identified by name": every Create of such a request stores one that the
\* helper's list options then find, whatever the backup's name.
CreateIsListed ==
    [][\A n \in Backups :
         (nextId' = nextId + 1 /\ lastCreate' = n) =>
             \E r \in store' : r.backupName = n
                 /\ Matches(NewDeleteBackupRequestListOptions(n), r.labels)]_vars

=============================================================================
