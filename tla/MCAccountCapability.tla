------------------------ MODULE MCAccountCapability ------------------------
(* Instances of AccountCapability for TLC: a network (vpc), the subnet that  *)
(* requires it, and a compute service; two capabilities share the vpc.       *)
EXTENDS AccountCapability, TLC

CONSTANTS r1, r2, r3

RequestSymmetry == Permutations(Requests)

\* base brings compute and vpc, network brings vpc and subnet.
OverlapContent == [c \in {"base", "network"} |->
  IF c = "base" THEN {"compute", "vpc"} ELSE {"vpc", "subnet"}]
VpcRequires == [s \in {"compute", "vpc", "subnet"} |->
  CASE s = "compute" -> "nothing" [] s = "vpc" -> "compute" [] s = "subnet" -> "vpc"]
Untyped == [c \in {"base", "network"} |-> "blank"]

\* subnets brings a subnet and relies on another capability for its vpc; lab is
\* for accounts of another type.
OpenContent == [c \in {"base", "subnets", "lab"} |->
  CASE c = "base" -> {"compute", "vpc"} [] c = "subnets" -> {"compute", "subnet"}
    [] c = "lab" -> {"vpc"}]
FlatRequires == [s \in {"compute", "vpc", "subnet"} |->
  CASE s = "compute" -> "nothing" [] s = "vpc" -> "nothing" [] s = "subnet" -> "vpc"]
PublicAndPrivate == [c \in {"base", "subnets", "lab"} |->
  CASE c = "base" -> "public" [] c = "subnets" -> "blank" [] c = "lab" -> "private"]
============================================================================
