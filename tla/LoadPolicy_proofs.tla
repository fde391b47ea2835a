------------------------- MODULE LoadPolicy_proofs -------------------------
(***************************************************************************)
(* Facts about the sizing arithmetic, for every element count and every    *)
(* load factor up to 1.0.                                                  *)
(***************************************************************************)
EXTENDS LoadPolicy, TLAPS, WellFoundedInduction

(* A bucket array always leaves a bucket free: compute_load_capacity never *)
(* hands out all of them, whatever the load factor.                        *)
LEMMA CapacityBelowCount ==
  ASSUME NEW count \in Nat \ {0}, NEW factor \in Nat
  PROVE  /\ compute_load_capacity(count, factor) \in Nat
         /\ compute_load_capacity(count, factor) < count
<1>1. (count * factor) \div 100 \in Nat
  <2>1. count * factor \in Nat
    BY SMT
  <2> QED
    BY <2>1, SMT
<1> QED
  BY <1>1 DEF compute_load_capacity

(* Up to a load factor of 1.0 bucket_count_for_elements asks for more      *)
(* buckets than there are elements.                                        *)
LEMMA NeededExceedsSize ==
  ASSUME NEW size \in Nat, NEW factor \in 1 .. 100
  PROVE  /\ buckets_needed(size, factor) \in Nat
         /\ buckets_needed(size, factor) > size
<1>1. (size * 100) \div factor \in Nat /\ (size * 100) \div factor >= size
  BY Z3
<1> QED
  BY <1>1 DEF buckets_needed

(* round_up_to_power_of_two returns a bucket count, and a large enough one.*)
LEMMA RoundUpIsLargeEnough ==
  ASSUME NEW value \in Nat, Allocatable(value)
  PROVE  /\ round_up_to_power_of_two(value) \in BucketCounts
         /\ round_up_to_power_of_two(value) >= value
<1> DEFINE Fits == {n \in BucketCounts : n >= value}
           Less == OpToRel(<, Nat)
<1>1. Fits # {} /\ Fits \subseteq Nat
  BY BucketCountsAssumption DEF Allocatable
<1>2. PICK n \in Fits : \A m \in Fits : <<m, n>> \notin Less
  BY <1>1, WFMin, NatLessThanWellFounded
<1>3. \A m \in Nat : m < n => <<m, n>> \in Less
  BY <1>1, <1>2 DEF OpToRel
<1> HIDE DEF Less
<1>4. \A m \in BucketCounts : m >= value => n <= m
  <2> SUFFICES ASSUME NEW m \in BucketCounts, m >= value
               PROVE  n <= m
    OBVIOUS
  <2>1. m \in Fits /\ m \in Nat /\ n \in Nat
    BY <1>1
  <2>2. ~ (m < n)
    BY <1>2, <1>3, <2>1
  <2> QED
    BY <2>1, <2>2
<1> QED
  BY <1>2, <1>4 DEF round_up_to_power_of_two

(* ... so does bucket_count_for_elements. *)
LEMMA CountForElements ==
  ASSUME NEW size \in Nat, NEW factor \in 1 .. 100,
         Allocatable(buckets_needed(size, factor))
  PROVE  /\ bucket_count_for_elements(size, factor) \in Nat
         /\ size # 0 => bucket_count_for_elements(size, factor) > size
<1>1. buckets_needed(size, factor) \in Nat
  BY NeededExceedsSize
<1>2. /\ round_up_to_power_of_two(buckets_needed(size, factor)) \in Nat
      /\ round_up_to_power_of_two(buckets_needed(size, factor)) > size
  <2>1. buckets_needed(size, factor) > size
    BY NeededExceedsSize
  <2>2. /\ round_up_to_power_of_two(buckets_needed(size, factor)) \in Nat
        /\ round_up_to_power_of_two(buckets_needed(size, factor))
             >= buckets_needed(size, factor)
    BY <1>1, RoundUpIsLargeEnough, BucketCountsAssumption
  <2> QED
    BY <1>1, <2>1, <2>2
<1> QED
  BY <1>2 DEF bucket_count_for_elements

(* rehash(n) and reserve(n) leave a free bucket behind. *)
LEMMA RehashTargetExceedsSize ==
  ASSUME NEW size \in Nat, NEW factor \in 1 .. 100, NEW requested \in Nat,
         Allocatable(buckets_needed(size, factor)),
         rehash_target(requested, size, factor) # 0
  PROVE  /\ rehash_target(requested, size, factor) \in Nat
         /\ rehash_target(requested, size, factor) > size
<1>1. /\ bucket_count_for_elements(size, factor) \in Nat
      /\ size # 0 => bucket_count_for_elements(size, factor) > size
  BY CountForElements
<1> QED
  BY <1>1 DEF rehash_target
(* Buckets that are enough for m elements have a threshold of m or more. *)
LEMMA ThresholdSuffices ==
  ASSUME NEW m \in Nat, NEW factor \in 1 .. 100, NEW count \in Nat \ {0},
         count >= buckets_needed(m, factor)
  PROVE  compute_load_capacity(count, factor) >= m
<1> DEFINE q == (m * 100) \div factor
           c == (count * factor) \div 100
<1>1. q \in Nat /\ m * 100 < (q + 1) * factor
  BY Z3
<1>2. count >= q + 1 /\ q >= m
  <2>1. q >= m
    BY Z3
  <2> QED
    BY <2>1 DEF buckets_needed
<1>3. m * 100 < count * factor
  <2> HIDE DEF q
  <2>1. (q + 1) * factor <= count * factor
    BY <1>1, <1>2, Z3
  <2> QED
    BY <1>1, <2>1, Z3
<1>4. c >= m
  <2>1. count * factor \in Nat
    BY Z3
  <2> DEFINE w == count * factor
  <2>2. w \in Nat /\ m * 100 < w
    BY <1>3, <2>1
  <2> HIDE DEF w
  <2>3. w \div 100 >= m
    BY <2>2, Z3
  <2> QED
    BY <2>3 DEF w
<1>5. count - 1 >= m
  <2> HIDE DEF q
  <2> QED
    BY <1>1, <1>2
<1> QED
  BY <1>4, <1>5 DEF compute_load_capacity
=============================================================================
