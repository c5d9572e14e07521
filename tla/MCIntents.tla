----------------------------- MODULE MCIntents -----------------------------
(* Instances of Intents for TLC.                                           *)
EXTENDS Intents, TLC

CONSTANTS h1, h2, a, b

TwoHandlers == {h1, h2}
Both == {a, b}
Delegate == {b}
Symmetry == Permutations(Handlers)
=============================================================================
