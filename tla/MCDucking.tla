----------------------------- MODULE MCDucking ------------------------------
(* Instances of Ducking with interchangeable streams.                       *)
EXTENDS Ducking, TLC

Symmetry == Permutations(Nodes)
=============================================================================
