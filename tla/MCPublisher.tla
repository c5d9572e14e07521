---------------------------- MODULE MCPublisher ----------------------------
(* Instances of Publisher and of Ceremony for TLC.                         *)
EXTENDS Ceremony, TLC

CONSTANTS p1, a1, a2

OneCommandAtATime == {p1}
TwoAuthorities == {a1, a2}
OneAuthority == {a1}
AuthoritySymmetry == Permutations(TwoAuthorities)
EveryWay == {"typed", "sealed", "signed"}
OnlyTyped == {"typed"}
=============================================================================
