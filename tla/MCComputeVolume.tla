-------------------------- MODULE MCComputeVolume --------------------------
(* Instances of ComputeVolume for TLC.                                       *)
EXTENDS ComputeVolume, TLC

CONSTANTS i1, i2, r1, r2, r3

RequestSymmetry == Permutations(Requests)

RootDisks == [i \in {i1, i2} |-> IF i = i1 THEN "root1" ELSE "root2"]
============================================================================
