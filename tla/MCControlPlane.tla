--------------------------- MODULE MCControlPlane ---------------------------
(* Instances of ControlPlane for TLC. *)
EXTENDS ControlPlane, TLC

Symmetry == Permutations(Txn) \union Permutations(Repository) \union Permutations(Run)
=============================================================================
