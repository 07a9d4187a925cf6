------------------------ MODULE MCContainerPublish ------------------------
(* Instances of ContainerPublish for TLC: attempts p1 to p3 of one entry.    *)
EXTENDS ContainerPublish, TLC

CONSTANTS p1, p2, p3, c1, c2, c3

(* The platform names containers, the entry's attempts only compare them. *)
ContainerSymmetry == Permutations(Containers)
=============================================================================
