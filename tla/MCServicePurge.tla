--------------------------- MODULE MCServicePurge ---------------------------
(* Symmetry for the checks of ServicePurge: the deletes are alike. *)
EXTENDS ServicePurge, TLC

Symmetric == Permutations(Deleters)
=============================================================================
