------------------------ MODULE MCExposerRefinement ------------------------
(* ExposerRefinement for TLC, with the bounds of MCExposer.                *)
EXTENDS ExposerRefinement

MCRefMaxFaults  == 2
MCRefMaxCrashes == 1

=============================================================================
