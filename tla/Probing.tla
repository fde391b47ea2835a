------------------------------ MODULE Probing ------------------------------
(***************************************************************************)
(* Where detail::hash_table looks for a key: its home bucket, the buckets  *)
(* after it, and the distance-and-fingerprint word a probe carries along.  *)
(* "count" is bucket_count_, from which the code derives bucket_shift_.    *)
(***************************************************************************)
EXTENDS LoadPolicy

CONSTANT HashSpace  \* the number of hash values: 2^64 in the code

ASSUME HashSpaceAssumption ==
  /\ HashSpace \in Nat
  /\ \A n \in BucketCounts :
       HashSpace >= n /\ HashSpace = n * (HashSpace \div n)

Hash == 0 .. HashSpace - 1

(* A distance occupies the bits above the 8-bit fingerprint. *)
kDistInc == 256

dist_and_fingerprint_from_hash(h) == kDistInc + (h % kDistInc)

(* hash >> bucket_shift_; bucket(key) is 0 in a table without buckets. *)
home_from_hash(h, count) ==
  IF count = 0 THEN 0 ELSE h \div (HashSpace \div count)

(* The mask of the code wraps around because count is a power of two. *)
next_bucket(i, count) == IF i + 1 < count THEN i + 1 ELSE 0

-----------------------------------------------------------------------------
(* Vocabulary of the properties and proofs. *)

Index(count) == 0 .. count - 1

(* The turns a loop takes from bucket i to bucket j. *)
Steps(i, j, count) == IF j >= i THEN j - i ELSE j - i + count

(* What a probe for hash h carries when it reaches bucket i. *)
DafAt(h, i, count) ==
  dist_and_fingerprint_from_hash(h)
    + kDistInc * Steps(home_from_hash(h, count), i, count)

(* The most a probe carries that visits each bucket at most once. *)
MaxDaf(count) == kDistInc * count + (kDistInc - 1)

(* The buckets a probe for hash h visits before bucket i. *)
Passed(h, i, count) ==
  LET home == home_from_hash(h, count)
  IN  {j \in Index(count) : Steps(home, j, count) < Steps(home, i, count)}
=============================================================================
