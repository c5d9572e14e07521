---------------------------- MODULE MCOrganism -----------------------------
(* Instances of Organism for TLC.                                          *)
EXTENDS Organism, TLC

CONSTANTS r1, r2, e1, e2, generator, steward

TwoRuntimes == {r1, r2}
TwoEvents == {e1, e2}
TwoPrincipals == {generator, steward}
(* One proposal extends the other.                                         *)
TwoProposals == {[action |-> 1], [action |-> 1, scope |-> 1]}
Symmetry == Permutations(Runtimes) \cup Permutations(Events)
                \cup Permutations(Principals)
=============================================================================
