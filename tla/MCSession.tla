----------------------------- MODULE MCSession -----------------------------
(* Symmetry of the instances of RuntimeSession. *)
EXTENDS RuntimeSession, TLC

Symmetry == Permutations(Acp) \cup Permutations(Resolver)

=============================================================================
