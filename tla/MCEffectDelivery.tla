-------------------------- MODULE MCEffectDelivery --------------------------
(* Instances of EffectDelivery for TLC: a push (plain mutation), an         *)
(* integration (prepared, rejectable by an operator) and a provider wait.   *)
EXTENDS EffectRefinement, TLC

CONSTANTS push, integrate, wait, w1, w2, l1, l2, l3, l4, l5, l6

LeaseSymmetry == Permutations(Leases)
Symmetry == Permutations(Leases) \cup Permutations(Workers)
=============================================================================
