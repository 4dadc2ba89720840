----------------------------- MODULE MCExposer -----------------------------
(* Model-checking instances of Exposer.                                    *)
EXTENDS Exposer

\* Two faults let a forward step and a compensation fail in one run; one
\* crash lets the process die at any step.
MCMaxFaults  == 2
MCMaxCrashes == 1

\* No failed call and no crash: only the interleaving with the controllers.
MCNoFaults  == 0
MCNoCrashes == 0

\* The source snapshot's class has deletionPolicy Delete (the usual class),
\* so the source content is Retain only if the exposer made it so.
MCInitDeleteClass == Init /\ policy["vsc"] = "Delete"
MCSpecDeleteClass == MCInitDeleteClass /\ [][Next]_vars /\ Fairness

=============================================================================
