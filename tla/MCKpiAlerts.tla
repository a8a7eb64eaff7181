---------------------------- MODULE MCKpiAlerts ----------------------------
(* Instances of KpiAlerts for TLC.  The messages are interchangeable.      *)
EXTENDS KpiAlerts, TLC

Symmetry == Permutations(Messages)
=============================================================================
