---------------------------- MODULE MCRobinHood ----------------------------
(***************************************************************************)
(* Instances of RobinHood for TLC.  With eight buckets and HashSpace 2048  *)
(* a hash is home * 256 + fingerprint; a table of four buckets sees homes  *)
(* 2h and 2h + 1 as one, a table of two only the top bit of the home.      *)
(***************************************************************************)
EXTENDS RobinHood, TLC

CONSTANTS k1, k2, k3, k4

MCKeys4 == {k1, k2, k3, k4}

(* Sound where no temporal property is checked: run RobinHoodOverfull. *)
Symmetry4 == Permutations(MCKeys4)

MCBucketCounts == {2, 4, 8}

(* Two keys may collide in full, two may share a home but not a            *)
(* fingerprint, and the run of buckets wraps around the end of the array.  *)
MCHashes == {7 * 256 + 1, 7 * 256 + 2, 1}
=============================================================================
