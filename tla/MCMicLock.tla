----------------------------- MODULE MCMicLock ------------------------------
(* Instances of MicLock with interchangeable processes.                     *)
EXTENDS MicLock, TLC

Symmetry == Permutations(Instances)
=============================================================================
