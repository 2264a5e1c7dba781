---------------------------- MODULE MCFileSystem ----------------------------
(* Instances of FileSystem for TLC.                                          *)
EXTENDS FileSystem, TLC

CONSTANTS r1, r2, r3

FirstShares == [f \in Existing |-> CASE f = "copy" -> 1 [] f = "old" -> 2 [] OTHER -> 3]

RequestSymmetry == Permutations(Requests)
=============================================================================
