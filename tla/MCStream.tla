------------------------------ MODULE MCStream ------------------------------
(* Values for the constants of TaskEventStream. *)
EXTENDS TaskEventStream, TLC

OneDirectory == [t \in Task |-> CHOOSE d \in Dir : TRUE]

WatchOne == [s \in Stream |-> CHOOSE t \in Task : TRUE]

Symmetry == Permutations(Writer)

=============================================================================
