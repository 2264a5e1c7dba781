------------------------- MODULE MCServiceInstance -------------------------
(* Instances of ServiceInstance for TLC.                                   *)
EXTENDS ServiceInstance, TLC

CONSTANTS i1, i2, r1, r2, r3

RequestSymmetry == Permutations(Requests)
============================================================================
