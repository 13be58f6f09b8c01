------------------------------ MODULE MCArtifacts ------------------------------
(* Artifacts with tools that may be exchanged. *)
EXTENDS Artifacts, TLC

Symmetry == Permutations(Tools)
=============================================================================
