--------------------------- MODULE MCSecretPlane ---------------------------
(* Instances of SecretPlane for TLC.                                       *)
EXTENDS SecretPlane, TLC

CONSTANTS c1, c2, l1

TwoCallers == {c1, c2}
OneLease == {l1}
Symmetry == Permutations(Callers)
=============================================================================
