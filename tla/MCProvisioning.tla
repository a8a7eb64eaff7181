--------------------------- MODULE MCProvisioning ---------------------------
(* Instances of Provisioning for TLC.  The calls are interchangeable.      *)
EXTENDS Provisioning, TLC

Symmetry == Permutations(Calls)
=============================================================================
