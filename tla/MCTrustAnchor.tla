---------------------------- MODULE MCTrustAnchor ----------------------------
(* TrustAnchor for TLC. *)
EXTENDS TrustAnchor, TLC

Symmetry == Permutations(Capsules) \cup Permutations(Calls) \cup Permutations(Batches)

==============================================================================
