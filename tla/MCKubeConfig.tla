---------------------------- MODULE MCKubeConfig ----------------------------
(* Instances of KubeConfig for TLC. *)
EXTENDS KubeConfig, TLC

CONSTANTS g1, g2, g3, c1, c2

Three == {g1, g2, g3}
Contexts == {c1, c2}
Apart == {}
Symmetry == Permutations(Proc) \cup Permutations(Context)
=============================================================================
