-------------------------- MODULE MCAccountDelete --------------------------
(* Instances of AccountDelete for TLC: a vpc, the subnet linked under it, and *)
(* an image, each with a name of its own.                                    *)
EXTENDS AccountDelete, TLC

CONSTANTS r1, r2

RequestSymmetry == Permutations(Requests)

Tree == [s \in {"vpc", "subnet", "image"} |-> IF s = "subnet" THEN "vpc" ELSE "nothing"]
OwnNames == [s \in {"vpc", "subnet", "image"} |-> s]
============================================================================
