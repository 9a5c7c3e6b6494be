----------------------------- MODULE MCCutover -----------------------------
(* Model values and symmetry for the checks of Cutover. *)
EXTENDS Cutover, FiniteSets, TLC

Symmetric == Permutations(Containers) \cup Permutations(EphPorts)
=============================================================================
