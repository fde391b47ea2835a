---------------------------- MODULE MCTraversal ----------------------------
(* Instances of Traversal: four keys in one chunk of four nodes.  Each      *)
(* bucket is home to two keys.                                              *)
EXTENDS Traversal, TLC

CONSTANTS k1, k2, k3, k4

MCKeys == {k1, k2, k3, k4}

MCHome == [k \in MCKeys |-> IF k \in {k2, k4} THEN 1 ELSE 0]

(* Keys of one bucket may be exchanged. *)
MCSymmetry ==
  {p @@ q : p \in Permutations({k1, k3}), q \in Permutations({k2, k4})}
=============================================================================
