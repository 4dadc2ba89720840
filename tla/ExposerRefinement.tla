------------------------- MODULE ExposerRefinement -------------------------
(***************************************************************************)
(* Exposer implements ExposerAbs.  The refinement mapping reads the        *)
(* abstract phase off the exposer's control point; the storage snapshot    *)
(* maps to itself.                                                         *)
(***************************************************************************)
EXTENDS Exposer

\* The abstract phase of each control point of Expose and CleanUp.
APhase ==
    CASE pc \in ExposeSteps  -> "exposing"
      [] pc \in UnwindSteps  -> "rollingBack"
      [] pc = "exposed"      -> "exposed"
      [] pc = "exposeFailed" -> "failed"
      [] pc = "crashed"      -> "crashed"
      [] pc \in CleanUpSteps -> "cleaning"
      [] pc = "cleaned"      -> "cleaned"

Abs == INSTANCE ExposerAbs WITH phase <- APhase, snapshot <- snapshot

\* Expose, its rollback and CleanUp move through the abstract phases in the
\* promised order, every call returns, and the storage snapshot is destroyed
\* only outside Expose and its successful result (ExposerAbs).
ImplementsAbs == Abs!ASpec

=============================================================================
