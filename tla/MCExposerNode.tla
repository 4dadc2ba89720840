--------------------------- MODULE MCExposerNode ---------------------------
(* Model-checking instances of ExposerNode.                                *)
EXTENDS ExposerNode

\* One failed call and one crash; one pod deleted by the cluster.
MCNodeMaxFaults  == 1
MCNodeMaxCrashes == 1
MCMaxEvictions   == 1

=============================================================================
