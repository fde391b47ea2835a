----------------------------- MODULE LoadPolicy -----------------------------
(***************************************************************************)
(* The sizing arithmetic of detail::hash_table: how many elements a bucket *)
(* array may hold, and how many buckets a number of elements asks for.     *)
(*                                                                         *)
(* max_load_factor_ is a float in the code.  Here it is a whole number of  *)
(* hundredths: 0.8f is 80, 1.0f is 100.  bucket counts are powers of two,  *)
(* for which the float product of compute_load_capacity is exact.          *)
(***************************************************************************)
EXTENDS Integers

CONSTANTS
  kInitialBucketCount,  \* smallest bucket array ever allocated (8 in the code)
  BucketCounts          \* the bucket counts an instance may reach: powers of two

ASSUME BucketCountsAssumption ==
  /\ BucketCounts \subseteq Nat
  /\ kInitialBucketCount \in BucketCounts
  /\ kInitialBucketCount >= 2
  /\ \A n \in BucketCounts : n >= kInitialBucketCount

(* Mutant: no bucket is kept empty. *)
CapacityWithoutReserve(count, factor) ==
  (count * factor) \div 100

(* The capacity threshold of a bucket array.  The last slot is never given *)
(* away: open addressing needs one empty bucket.                           *)
compute_load_capacity(count, factor) ==
  LET capacity == (count * factor) \div 100
  IN  IF factor < 100 /\ capacity < count THEN capacity ELSE count - 1

(* The bound of an instance: some bucket array is large enough.            *)
Allocatable(value) == \E n \in BucketCounts : n >= value

(* kInitialBucketCount is the least bucket count, so one minimum covers    *)
(* both the early return of the code and std::bit_ceil.                    *)
round_up_to_power_of_two(value) ==
  CHOOSE n \in BucketCounts :
    n >= value /\ \A m \in BucketCounts : m >= value => n <= m

(* What bucket_count_for_elements rounds up, and the function itself.      *)
buckets_needed(element_count, factor) ==
  (element_count * 100) \div factor + 1

bucket_count_for_elements(element_count, factor) ==
  IF element_count = 0
  THEN 0
  ELSE round_up_to_power_of_two(buckets_needed(element_count, factor))

(* The bucket count rehash(requested) settles on before rounding up.       *)
rehash_target(requested, size, factor) ==
  LET minimum_for_size == bucket_count_for_elements(size, factor)
  IN  IF requested < minimum_for_size THEN minimum_for_size ELSE requested
=============================================================================
