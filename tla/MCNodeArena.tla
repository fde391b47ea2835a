---------------------------- MODULE MCNodeArena ----------------------------
(* Instances of NodeArena: three keys, chunks of two nodes.  Without leaks  *)
(* three elements and one value under construction take four slots.         *)
EXTENDS NodeArena, TLC

CONSTANTS k1, k2, k3

MCKeys == {k1, k2, k3}

MCTwoKeys == {k1, k2}

MCSymmetry2 == Permutations(MCTwoKeys)
=============================================================================
