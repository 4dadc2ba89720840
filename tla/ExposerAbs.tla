----------------------------- MODULE ExposerAbs -----------------------------
(***************************************************************************)
(* What the exposer promises its caller, with the object store left out:   *)
(* Expose either succeeds or fails after rolling back, or the process      *)
(* dies; CleanUp may then run any number of times; every call returns.     *)
(* The storage snapshot behind the source snapshot is never destroyed      *)
(* while Expose runs or while its result stands, and a destroyed storage   *)
(* snapshot never comes back.                                              *)
(***************************************************************************)

VARIABLES
    phase,     \* where the caller's use of the exposer stands
    snapshot   \* the storage snapshot still exists

avars == <<phase, snapshot>>

Phases == {"exposing", "rollingBack", "exposed", "failed", "crashed",
           "cleaning", "cleaned"}

\* The phases in which the storage snapshot is protected.
Protected == {"exposing", "exposed"}

ATypeOK == phase \in Phases /\ snapshot \in BOOLEAN

AInit == phase = "exposing" /\ snapshot = TRUE

Succeed    == phase = "exposing" /\ phase' = "exposed" /\ UNCHANGED snapshot
Fail       == phase = "exposing" /\ phase' = "rollingBack" /\ UNCHANGED snapshot
RolledBack == phase = "rollingBack" /\ phase' = "failed" /\ UNCHANGED snapshot
Die        == phase \in {"exposing", "rollingBack", "cleaning"}
                  /\ phase' = "crashed" /\ UNCHANGED snapshot
BeginCleanUp == phase \in {"exposed", "failed", "crashed", "cleaned"}
                  /\ phase' = "cleaning" /\ UNCHANGED snapshot
EndCleanUp == phase = "cleaning" /\ phase' = "cleaned" /\ UNCHANGED snapshot
Destroy    == phase \notin Protected /\ snapshot /\ ~snapshot' /\ UNCHANGED phase

ANext ==
    \/ Succeed \/ Fail \/ RolledBack \/ Die \/ BeginCleanUp \/ EndCleanUp \/ Destroy

\* Every Expose, rollback and CleanUp returns.
AFairness ==
    /\ WF_avars(Succeed \/ Fail)
    /\ WF_avars(RolledBack)
    /\ WF_avars(EndCleanUp)

ASafeSpec == AInit /\ [][ANext]_avars
ASpec     == ASafeSpec /\ AFairness

=============================================================================
