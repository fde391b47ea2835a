-------------------------- MODULE RobinHood_proofs --------------------------
(***************************************************************************)
(* IInv is an invariant of RobinHood for every set of keys, every hash     *)
(* function and every set of bucket counts, as long as max_load_factor is  *)
(* never set above 1.0; what it implies follows.                           *)
(***************************************************************************)
EXTENDS RobinHood, Probing_proofs, FiniteSetTheorems

(* The hypothesis of the theorems: see EmptyBucketRemains for what happens *)
(* without it.                                                             *)
LoadFactorAtMostOne == MaxLoadFactors \subseteq 0 .. 100

-----------------------------------------------------------------------------
(* Facts about one state. *)

LEMMA StateFacts ==
  ASSUME TypeOK, bucket_count # 0
  PROVE  /\ bucket_count \in BucketCounts
         /\ bucket_count \in Nat
         /\ bucket_count >= 2
         /\ \A k \in Key : hash[k] \in Hash
         /\ DOMAIN buckets = Index(bucket_count)
         /\ \A i \in Index(bucket_count) :
              /\ buckets[i].daf \in Nat
              /\ buckets[i].node \in Key \union {NoKey}
              /\ buckets[i] = [daf |-> buckets[i].daf, node |-> buckets[i].node]
BY BucketCountsAssumption, HashAssumption DEF TypeOK

LEMMA LiveIsFinite ==
  ASSUME TypeOK
  PROVE  IsFiniteSet(live) /\ Cardinality(live) \in Nat
BY KeyAssumption, FS_Subset, FS_CardinalityType DEF TypeOK

(* Fewer elements than buckets, each in one bucket: one bucket is empty.   *)
LEMMA SomeBucketEmpty ==
  ASSUME IInv, bucket_count # 0, pc # "shift"
  PROVE  \E e \in Index(bucket_count) : buckets[e].daf = 0
<1> SUFFICES ASSUME \A i \in Index(bucket_count) : buckets[i].daf # 0
             PROVE  FALSE
  OBVIOUS
<1> DEFINE node == [i \in Index(bucket_count) |-> buckets[i].node]
<1>1. \A i \in Index(bucket_count) : Occupied(i)
  BY DEF Occupied, Vacated
<1>2. node \in [Index(bucket_count) -> live]
  BY <1>1 DEF IInv, Placed
<1>3. IsFiniteSet(live) /\ Cardinality(live) < bucket_count
  BY LiveIsFinite DEF IInv, Room
<1>4. IsFiniteSet(Index(bucket_count))
      /\ Cardinality(Index(bucket_count)) = bucket_count
  <2>1. bucket_count \in Nat /\ bucket_count >= 2
    BY StateFacts DEF IInv
  <2> QED
    BY <2>1, FS_Interval DEF Index
<1>5. \E i, j \in Index(bucket_count) : i # j /\ node[i] = node[j]
  <2> HIDE DEF node
  <2> QED
    BY <1>2, <1>3, <1>4, FS_PigeonHole
<1> QED
  BY <1>1, <1>5 DEF IInv, Unique

(* A loop that has only met occupied buckets has not come round.           *)
LEMMA NoWrap ==
  ASSUME IInv, bucket_count # 0, pc # "shift",
         NEW h \in Hash, NEW b \in Index(bucket_count),
         buckets[b].daf # 0,
         \A j \in Passed(h, b, bucket_count) : buckets[j].daf # 0
  PROVE  next_bucket(b, bucket_count) # home_from_hash(h, bucket_count)
<1>1. bucket_count \in BucketCounts
  BY StateFacts DEF IInv
<1> QED
  BY <1>1, PassedNext, SomeBucketEmpty

(* The resident of an occupied bucket can move one bucket on. *)
LEMMA ResidentMoves ==
  ASSUME IInv, bucket_count # 0, pc # "shift",
         NEW b \in Index(bucket_count), buckets[b].daf # 0
  PROVE  LET h    == hash[buckets[b].node]
             next == next_bucket(b, bucket_count)
         IN  /\ h \in Hash
             /\ buckets[b].node \in live
             /\ buckets[b].daf = DafAt(h, b, bucket_count)
             /\ \A j \in Passed(h, b, bucket_count) :
                  buckets[j].daf >= DafAt(h, j, bucket_count)
             /\ next \in Index(bucket_count)
             /\ next # home_from_hash(h, bucket_count)
             /\ DafAt(h, next, bucket_count) = buckets[b].daf + kDistInc
             /\ Passed(h, next, bucket_count)
                  = Passed(h, b, bucket_count) \union {b}
<1> DEFINE h    == hash[buckets[b].node]
           next == next_bucket(b, bucket_count)
<1>1. Occupied(b)
  BY DEF Occupied, Vacated
<1>2. /\ bucket_count \in BucketCounts
      /\ bucket_count \in Nat \ {0}
      /\ \A i \in Index(bucket_count) : buckets[i].daf \in Nat
  BY StateFacts DEF IInv
<1>3. /\ h \in Hash
      /\ buckets[b].node \in live
      /\ buckets[b].daf = DafAt(h, b, bucket_count)
      /\ \A j \in Passed(h, b, bucket_count) :
           buckets[j].daf >= DafAt(h, j, bucket_count)
  BY <1>1, StateFacts DEF IInv, TypeOK, Placed, RobinHoodOrder
<1> HIDE DEF h
<1>4. \A j \in Passed(h, b, bucket_count) : buckets[j].daf # 0
  BY <1>2, <1>3, DafFacts, PassedFacts DEF kDistInc
<1>5. next # home_from_hash(h, bucket_count)
  BY <1>3, <1>4, NoWrap
<1>6. /\ next \in Index(bucket_count)
      /\ DafAt(h, next, bucket_count) = buckets[b].daf + kDistInc
      /\ Passed(h, next, bucket_count) = Passed(h, b, bucket_count) \union {b}
  BY <1>2, <1>3, <1>5, NextIsABucket, DafFacts, PassedNext
<1> QED
  BY <1>3, <1>5, <1>6 DEF h

(* The same for the key a probe carries, past a bucket that is not empty. *)
LEMMA CarriedMoves ==
  ASSUME IInv, bucket_count # 0,
         pc \in {"find", "probe", "place", "replace"},
         buckets[bucket_index].daf # 0
  PROVE  LET h    == hash[carried]
             next == next_bucket(bucket_index, bucket_count)
         IN  /\ next \in Index(bucket_count)
             /\ DafAt(h, next, bucket_count) = daf + kDistInc
             /\ Passed(h, next, bucket_count)
                  = Passed(h, bucket_index, bucket_count) \union {bucket_index}
<1> DEFINE h    == hash[carried]
           next == next_bucket(bucket_index, bucket_count)
<1>1. /\ bucket_count \in BucketCounts
      /\ bucket_count \in Nat \ {0}
      /\ \A i \in Index(bucket_count) : buckets[i].daf \in Nat
      /\ carried \in Key
      /\ h \in Hash
      /\ bucket_index \in Index(bucket_count)
  BY StateFacts DEF IInv, ControlOK, TypeOK
<1>2. /\ daf = DafAt(h, bucket_index, bucket_count)
      /\ \A j \in Passed(h, bucket_index, bucket_count) :
           buckets[j].daf >= DafAt(h, j, bucket_count)
  BY DEF IInv, ProbeOrder
<1> HIDE DEF h
<1>3. \A j \in Passed(h, bucket_index, bucket_count) : buckets[j].daf # 0
  BY <1>1, <1>2, DafFacts, PassedFacts DEF kDistInc
<1>4. next # home_from_hash(h, bucket_count)
  BY <1>1, <1>3, NoWrap
<1> QED
  BY <1>1, <1>2, <1>4, NextIsABucket, DafFacts, PassedNext DEF h

-----------------------------------------------------------------------------
(* The steps preserve the invariant, action by action. *)

LEMMA EmptyBucketsType ==
  ASSUME NEW n
  PROVE  /\ EmptyBuckets(n) \in
              [Index(n) -> [daf : Nat, node : Key \union {NoKey}]]
         /\ \A i \in Index(n) : EmptyBuckets(n)[i].daf = 0
BY DEF EmptyBuckets, EmptyBucket

LEMMA InitEstablishesIInv ==
  ASSUME Init
  PROVE  IInv
<1>1. Index(bucket_count) = {}
  BY DEF Init, Index
<1>2. TypeOK
  <2>1. buckets \in [Index(bucket_count) -> [daf : Nat, node : Key \union {NoKey}]]
    BY EmptyBucketsType DEF Init
  <2>2. result \in BOOLEAN
    BY Zenon DEF Init
  <2> QED
    BY <2>1, <2>2 DEF Init, TypeOK, kDefaultMaxLoadFactor, PcValues
<1>3. ControlOK
  BY DEF Init, ControlOK, kDefaultMaxLoadFactor
<1> QED
  BY <1>1, <1>2, <1>3 DEF Init, IInv, Room, Placed, Unique, Complete,
     RobinHoodOrder, ProbeOrder, HoleOK

(* Actions that touch neither the buckets, the elements nor a hole. *)
LEMMA TableUntouched ==
  ASSUME IInv, UNCHANGED <<hash, buckets, bucket_count, live>>,
         pc # "shift", pc' # "shift", Unplaced' = Unplaced
  PROVE  Placed' /\ Unique' /\ Complete' /\ RobinHoodOrder' /\ HoleOK'
<1>1. \A i : Occupied(i)' <=> Occupied(i)
  BY DEF Occupied, Vacated
<1>2. Placed'
  BY <1>1 DEF IInv, Placed
<1>3. Unique'
  BY <1>1 DEF IInv, Unique
<1>4. Complete'
  BY <1>1 DEF IInv, Complete
<1>5. RobinHoodOrder'
  BY <1>1 DEF IInv, RobinHoodOrder
<1> QED
  BY <1>2, <1>3, <1>4, <1>5 DEF HoleOK

LEMMA StartProbeFacts ==
  ASSUME IInv, UNCHANGED <<hash, bucket_count>>,
         NEW k \in Key, StartProbe(k)
  PROVE  /\ carried' = k
         /\ daf' \in Nat
         /\ bucket_index' \in Nat
         /\ bucket_count # 0 =>
              /\ bucket_index' \in Index(bucket_count)
              /\ daf' = DafAt(hash[k], bucket_index', bucket_count)
              /\ Passed(hash[k], bucket_index', bucket_count) = {}
<1>1. hash[k] \in Hash
  BY HashAssumption DEF IInv, TypeOK
<1>2. daf' \in Nat
  BY <1>1, FingerprintType DEF StartProbe, kDistInc
<1>3. bucket_count # 0 =>
        /\ bucket_count \in BucketCounts
        /\ bucket_index' = home_from_hash(hash[k], bucket_count)
        /\ bucket_index' \in Index(bucket_count)
        /\ bucket_index' \in Nat
  BY <1>1, HomeIsABucket, StateFacts DEF IInv, StartProbe, Index
<1>4. bucket_count = 0 => bucket_index' = 0
  BY DEF StartProbe, home_from_hash
<1> QED
  BY <1>1, <1>2, <1>3, <1>4, DafFacts, PassedFacts DEF StartProbe

LEMMA CallInv ==
  ASSUME IInv, NEW o \in {"lookup", "insert", "erase"}, NEW k \in Key,
         Call(o, k)
  PROVE  IInv'
<1> USE DEF Call, table
<1>1. /\ carried' = k
      /\ daf' \in Nat
      /\ bucket_index' \in Nat
      /\ bucket_count # 0 =>
           /\ bucket_index' \in Index(bucket_count)
           /\ daf' = DafAt(hash[k], bucket_index', bucket_count)
           /\ Passed(hash[k], bucket_index', bucket_count) = {}
  BY StartProbeFacts
<1>2. TypeOK'
  BY <1>1 DEF IInv, TypeOK, PcValues
<1>3. ControlOK'
  BY <1>1 DEF IInv, ControlOK
<1>4. Room'
  BY DEF IInv, Room
<1>5. Placed' /\ Unique' /\ Complete' /\ RobinHoodOrder' /\ HoleOK'
  BY TableUntouched DEF Unplaced
<1>6. ProbeOrder'
  BY <1>1 DEF ProbeOrder
<1> QED
  BY <1>2, <1>3, <1>4, <1>5, <1>6 DEF IInv

(* A probe for an element that is in the index has not gone past it, and   *)
(* is not given up before it.                                              *)
LEMMA MissMeansAbsent ==
  ASSUME IInv, pc = "find",
         bucket_count # 0 => daf > buckets[bucket_index].daf
  PROVE  key \notin live
<1> SUFFICES ASSUME key \in live
             PROVE  FALSE
  OBVIOUS
<1> DEFINE h == hash[key]
<1>1. bucket_count # 0
  BY DEF IInv, Room
<1>2. /\ bucket_count \in BucketCounts
      /\ bucket_index \in Index(bucket_count)
      /\ h \in Hash
      /\ carried = key
      /\ \A i \in Index(bucket_count) : buckets[i].daf \in Nat
  BY <1>1, StateFacts DEF IInv, ControlOK
<1>3. PICK i \in Index(bucket_count) : Occupied(i) /\ buckets[i].node = key
  BY DEF IInv, Complete, Unplaced
<1>4. /\ buckets[i].daf = DafAt(h, i, bucket_count)
      /\ \A j \in Passed(h, i, bucket_count) :
           buckets[j].daf >= DafAt(h, j, bucket_count)
  BY <1>3 DEF IInv, Placed, RobinHoodOrder
<1>5. /\ daf = DafAt(h, bucket_index, bucket_count)
      /\ \A j \in Passed(h, bucket_index, bucket_count) :
           buckets[j].node # key
  BY <1>1, <1>2 DEF IInv, ProbeOrder
<1>6. daf > buckets[bucket_index].daf
  BY <1>1
<1> HIDE DEF h
<1>7. \A j \in Index(bucket_count) : DafAt(h, j, bucket_count) \in Nat
  BY <1>2, DafFacts
<1>8. CASE i = bucket_index
  BY <1>2, <1>4, <1>5, <1>6, <1>7, <1>8
<1>9. CASE i \in Passed(h, bucket_index, bucket_count)
  BY <1>3, <1>5, <1>9
<1>10. CASE bucket_index \in Passed(h, i, bucket_count)
  BY <1>2, <1>4, <1>5, <1>6, <1>7, <1>10
<1> QED
  BY <1>2, <1>8, <1>9, <1>10, PassedFacts

LEMMA FindMissInv ==
  ASSUME IInv, FindMiss
  PROVE  IInv'
<1> USE DEF FindMiss, OutProbed, Answer, Return, ForgetLocals, table, locals
<1>1. key \notin live
  BY MissMeansAbsent
<1>2. TypeOK'
  <2>1. result' \in BOOLEAN
    BY Zenon DEF IInv, TypeOK
  <2> QED
    BY <2>1 DEF IInv, TypeOK, PcValues
<1>3. ControlOK'
  BY <1>1, StateFacts DEF IInv, ControlOK, Index
<1>4. Room'
  BY DEF IInv, Room
<1>5. Placed' /\ Unique' /\ Complete' /\ RobinHoodOrder' /\ HoleOK'
  BY TableUntouched DEF Unplaced
<1>6. ProbeOrder'
  BY DEF ProbeOrder
<1> QED
  BY <1>2, <1>3, <1>4, <1>5, <1>6 DEF IInv

LEMMA FindNextInv ==
  ASSUME IInv, FindNext
  PROVE  IInv'
<1> USE DEF FindNext, OutProbed, Advance, table
<1> DEFINE h    == hash[carried]
           next == next_bucket(bucket_index, bucket_count)
<1>1. /\ bucket_count \in BucketCounts
      /\ bucket_index \in Index(bucket_count)
      /\ \A i \in Index(bucket_count) : buckets[i].daf \in Nat
      /\ h \in Hash
      /\ carried \in Key
      /\ daf \in Nat
  BY StateFacts DEF IInv, ControlOK, TypeOK
<1>2. /\ daf = DafAt(h, bucket_index, bucket_count)
      /\ \A j \in Passed(h, bucket_index, bucket_count) :
           /\ buckets[j].daf >= DafAt(h, j, bucket_count)
           /\ buckets[j].node # carried
  BY DEF IInv, ProbeOrder
<1>3. daf # 0
  BY <1>1, <1>2, DafFacts DEF kDistInc
<1>4. buckets[bucket_index].daf # 0
  BY <1>1, <1>3
<1>5. buckets[bucket_index].node # carried
  <2>1. Occupied(bucket_index)
    BY <1>4 DEF Occupied, Vacated
  <2> QED
    BY <2>1, <1>1, <1>2 DEF IInv, Placed, AtKey
<1>6. /\ next \in Index(bucket_count)
      /\ DafAt(h, next, bucket_count) = daf + kDistInc
      /\ Passed(h, next, bucket_count)
           = Passed(h, bucket_index, bucket_count) \union {bucket_index}
  BY <1>4, CarriedMoves
<1>7. TypeOK'
  BY <1>1, <1>6 DEF IInv, TypeOK, PcValues, kDistInc, Index
<1>8. ControlOK'
  BY <1>6 DEF IInv, ControlOK
<1>9. Room'
  BY DEF IInv, Room
<1>10. Placed' /\ Unique' /\ Complete' /\ RobinHoodOrder' /\ HoleOK'
  BY TableUntouched DEF Unplaced
<1>11. ProbeOrder'
  BY <1>1, <1>2, <1>5, <1>6 DEF ProbeOrder
<1> QED
  BY <1>7, <1>8, <1>9, <1>10, <1>11 DEF IInv

LEMMA FindHitInv ==
  ASSUME IInv, FindHit
  PROVE  IInv'
<1> USE DEF FindHit, Answer, Return, ForgetLocals, table, locals
<1>1. /\ bucket_count \in BucketCounts
      /\ bucket_count >= 2
      /\ bucket_index \in Index(bucket_count)
      /\ \A i \in Index(bucket_count) : buckets[i].daf \in Nat
      /\ carried = key
      /\ key \in Key
      /\ hash[key] \in Hash
  BY StateFacts DEF IInv, ControlOK
<1>2. daf # 0 /\ daf \in Nat
  BY <1>1, DafFacts DEF IInv, TypeOK, ProbeOrder, kDistInc
<1>3. Occupied(bucket_index) /\ buckets[bucket_index].node = key
  BY <1>1, <1>2 DEF AtKey, Occupied, Vacated
<1>4. key \in live
  BY <1>1, <1>3 DEF IInv, Placed
<1>5. TypeOK'
  <2>1. result' \in BOOLEAN
    BY Zenon DEF IInv, TypeOK
  <2> QED
    BY <2>1 DEF IInv, TypeOK, PcValues
<1>6. ControlOK'
  BY <1>1, <1>4, StateFacts DEF IInv, ControlOK, Index
<1>7. Room'
  BY DEF IInv, Room
<1>8. CASE op # "erase"
  BY <1>5, <1>6, <1>7, <1>8, TableUntouched DEF IInv, Unplaced, ProbeOrder
<1>9. CASE op = "erase"
  <2> USE <1>9
  <2>1. \A i \in Index(bucket_count) :
          Occupied(i)' <=> Occupied(i) /\ i # bucket_index
    BY DEF Occupied, Vacated
  <2>2. Placed' /\ RobinHoodOrder'
    BY <2>1 DEF IInv, Placed, RobinHoodOrder
  <2>3. Unique'
    BY <1>1, <1>3, <2>1 DEF IInv, Unique, Unplaced
  <2>4. Complete'
    BY <1>1, <1>3, <2>1 DEF IInv, Complete, Unplaced
  <2>5. daf <= MaxDaf(bucket_count)
    BY <1>1, DafFacts DEF IInv, ProbeOrder
  <2>6. HoleOK' /\ ProbeOrder'
    BY <1>1, <1>2, <2>5 DEF AtKey, HoleOK, ProbeOrder
  <2> QED
    BY <1>5, <1>6, <1>7, <2>2, <2>3, <2>4, <2>6 DEF IInv
<1> QED
  BY <1>8, <1>9

(* A fresh bucket array that is larger than the number of elements, and by *)
(* two when an insertion is under way.                                     *)
LEMMA RehashToInv ==
  ASSUME IInv, NEW n \in BucketCounts, rehash_to(n), pc # "shift",
         Cardinality(live) < n,
         \/ op' = "rehash" /\ key' = key
         \/ /\ op' = "insert" /\ key' = key
            /\ key \in Key /\ key \notin live
            /\ Cardinality(live) + 1 < n
  PROVE  IInv'
<1> USE DEF rehash_to, ForgetLocals
<1>1. n \in Nat /\ n >= 2
  BY BucketCountsAssumption
<1>2. \A i \in Index(n) : buckets'[i].daf = 0
  BY EmptyBucketsType
<1>3. \A i \in Index(bucket_count') : ~Occupied(i)'
  BY <1>2 DEF Occupied
<1>4. max_load_capacity' \in Nat /\ max_load_capacity' < n
  BY <1>1, CapacityBelowCount DEF IInv, TypeOK
<1>5. TypeOK'
  <2>1. buckets' \in [Index(n) -> [daf : Nat, node : Key \union {NoKey}]]
    BY EmptyBucketsType
  <2> QED
    BY <1>4, <2>1 DEF IInv, TypeOK, PcValues
<1>6. ControlOK'
  BY <1>1 DEF IInv, ControlOK, Index
<1>7. Room'
  BY <1>1, <1>4 DEF IInv, Room
<1>8. Placed' /\ Unique' /\ RobinHoodOrder'
  BY <1>3 DEF Placed, Unique, RobinHoodOrder
<1>9. Complete'
  BY DEF Complete, Unplaced
<1>10. ProbeOrder' /\ HoleOK'
  BY DEF ProbeOrder, HoleOK
<1> QED
  BY <1>5, <1>6, <1>7, <1>8, <1>9, <1>10 DEF IInv

LEMMA ReserveGrowInv ==
  ASSUME IInv, ReserveGrow
  PROVE  IInv'
<1> USE DEF ReserveGrow
<1>1. pc = "reserve" /\ op' = "insert" /\ key' = key
      /\ key \in Key /\ key \notin live
  BY DEF IInv, ControlOK
<1>2. IsFiniteSet(live) /\ Cardinality(live) \in Nat
  BY LiveIsFinite DEF IInv
<1>3. CASE bucket_count = 0
  <2>1. Cardinality(live) = 0
    BY <1>3, FS_EmptySet DEF IInv, Room
  <2>2. kInitialBucketCount \in BucketCounts /\ kInitialBucketCount >= 2
    BY BucketCountsAssumption
  <2>3. rehash_to(kInitialBucketCount)
    BY <1>3
  <2> QED
    BY <1>1, <2>1, <2>2, <2>3, RehashToInv, BucketCountsAssumption
<1>4. CASE bucket_count # 0
  <2>1. bucket_count \in Nat /\ bucket_count >= 2
        /\ Cardinality(live) < bucket_count
    BY <1>4, StateFacts DEF IInv, Room
  <2>2. bucket_count * 2 \in BucketCounts /\ rehash_to(bucket_count * 2)
    BY <1>4
  <2>3. Cardinality(live) + 1 < bucket_count * 2
    BY <1>2, <2>1
  <2> HIDE DEF ReserveGrow
  <2> QED
    BY <1>1, <1>2, <2>2, <2>3, <2>1, RehashToInv
<1> QED
  BY <1>3, <1>4

LEMMA RehashInv ==
  ASSUME IInv, NEW requested \in Nat, Rehash(requested)
  PROVE  IInv'
<1> DEFINE size   == Cardinality(live)
           target == rehash_target(requested, size, max_load_factor)
           n      == round_up_to_power_of_two(target)
<1>1. /\ pc = "idle" /\ op' = "rehash" /\ key' = key
      /\ Allocatable(buckets_needed(size, max_load_factor))
      /\ target # 0 /\ Allocatable(target) /\ rehash_to(n)
  BY DEF Rehash
<1>2. size \in Nat /\ max_load_factor \in 1 .. 100
  BY LiveIsFinite DEF IInv, TypeOK, ControlOK
<1>3. target \in Nat /\ target > size
  BY <1>1, <1>2, RehashTargetExceedsSize
<1>4. n \in BucketCounts /\ n >= target
  BY <1>1, <1>3, RoundUpIsLargeEnough
<1>5. n \in Nat
  BY <1>4, BucketCountsAssumption
<1> HIDE DEF n, target, size
<1>6. size < n
  BY <1>2, <1>3, <1>4, <1>5
<1> USE DEF size
<1> QED
  BY <1>1, <1>4, <1>6, RehashToInv

LEMMA ReserveInv ==
  ASSUME IInv, NEW element_count \in Nat, Reserve(element_count)
  PROVE  IInv'
<1>1. max_load_factor \in 1 .. 100
  BY DEF IInv, TypeOK, ControlOK
<1>2. /\ Allocatable(buckets_needed(element_count, max_load_factor))
      /\ Rehash(bucket_count_for_elements(element_count, max_load_factor))
  BY DEF Reserve
<1>3. bucket_count_for_elements(element_count, max_load_factor) \in Nat
  BY <1>1, <1>2, CountForElements
<1> QED
  BY <1>2, <1>3, RehashInv

LEMMA RehashToNothingInv ==
  ASSUME IInv, RehashToNothing
  PROVE  IInv'
<1> USE DEF RehashToNothing, locals
<1>1. Index(bucket_count') = {}
  BY DEF Index
<1>2. TypeOK'
  <2>1. buckets' \in
          [Index(bucket_count') -> [daf : Nat, node : Key \union {NoKey}]]
    BY EmptyBucketsType
  <2> QED
    BY <2>1 DEF IInv, TypeOK
<1>3. ControlOK' /\ Room'
  BY DEF IInv, ControlOK, Room
<1> QED
  BY <1>1, <1>2, <1>3 DEF IInv, Placed, Unique, Complete, RobinHoodOrder,
     ProbeOrder, HoleOK

LEMMA SetMaxLoadFactorInv ==
  ASSUME IInv, LoadFactorAtMostOne, NEW z \in MaxLoadFactors,
         SetMaxLoadFactor(z)
  PROVE  IInv'
<1> USE DEF SetMaxLoadFactor, locals
<1>1. max_load_factor' \in 1 .. 100
  BY DEF LoadFactorAtMostOne, kDefaultMaxLoadFactor
<1>2. /\ max_load_capacity' \in Nat
      /\ bucket_count # 0 => max_load_capacity' < bucket_count
      /\ bucket_count = 0 => max_load_capacity' = max_load_capacity
  <2>1. CASE bucket_count = 0
    BY <2>1 DEF IInv, TypeOK
  <2>2. CASE bucket_count # 0
    <3>1. bucket_count \in Nat \ {0} /\ max_load_factor' \in Nat
      BY <1>1, <2>2, StateFacts DEF IInv
    <3>2. max_load_capacity'
            = compute_load_capacity(bucket_count, max_load_factor')
      BY <2>2
    <3> QED
      BY <2>2, <3>1, <3>2, CapacityBelowCount
  <2> QED
    BY <2>1, <2>2
<1>3. TypeOK' /\ ControlOK'
  BY <1>1, <1>2 DEF IInv, TypeOK, ControlOK
<1>4. Room'
  BY <1>2 DEF IInv, Room
<1>5. Placed' /\ Unique' /\ Complete' /\ RobinHoodOrder' /\ HoleOK'
  BY TableUntouched DEF Unplaced
<1> QED
  BY <1>3, <1>4, <1>5 DEF IInv, ProbeOrder

LEMMA ClearInv ==
  ASSUME IInv, Clear
  PROVE  IInv'
<1> USE DEF Clear, locals
<1>1. /\ buckets' \in
           [Index(bucket_count) -> [daf : Nat, node : Key \union {NoKey}]]
      /\ \A i \in Index(bucket_count) : buckets'[i].daf = 0
  BY EmptyBucketsType
<1>2. \A i \in Index(bucket_count') : ~Occupied(i)'
  BY <1>1 DEF Occupied
<1>3. TypeOK' /\ ControlOK'
  BY <1>1 DEF IInv, TypeOK, ControlOK
<1>4. Room'
  BY StateFacts, FS_EmptySet DEF IInv, Room
<1> QED
  BY <1>2, <1>3, <1>4 DEF IInv, Placed, Unique, Complete, RobinHoodOrder,
     ProbeOrder, HoleOK

LEMMA RehashNextInv ==
  ASSUME IInv, RehashNext
  PROVE  IInv'
<1> USE DEF RehashNext, table
<1>1. PICK k \in todo : todo' = todo \ {k} /\ StartProbe(k)
  OBVIOUS
<1>2. k \in Key /\ k \in live /\ bucket_count # 0
  BY DEF IInv, TypeOK, ControlOK
<1>3. /\ carried' = k
      /\ daf' \in Nat
      /\ bucket_index' \in Nat
      /\ bucket_index' \in Index(bucket_count)
      /\ daf' = DafAt(hash[k], bucket_index', bucket_count)
      /\ Passed(hash[k], bucket_index', bucket_count) = {}
  BY <1>1, <1>2, StartProbeFacts
<1>4. TypeOK'
  BY <1>1, <1>2, <1>3 DEF IInv, TypeOK, PcValues
<1>5. ControlOK'
  BY <1>1, <1>2, <1>3 DEF IInv, ControlOK
<1>6. Room'
  BY DEF IInv, Room
<1>7. Unplaced' = Unplaced
  BY <1>1, <1>3 DEF Unplaced
<1>8. Placed' /\ Unique' /\ Complete' /\ RobinHoodOrder' /\ HoleOK'
  BY <1>7, TableUntouched
<1>9. ProbeOrder'
  BY <1>3 DEF ProbeOrder
<1> QED
  BY <1>4, <1>5, <1>6, <1>8, <1>9 DEF IInv

(* The element is linked first and placed in the index afterwards. *)
LEMMA LinkAndProbeInv ==
  ASSUME IInv, LinkAndProbe, pc \in {"rehash", "reserve"},
         pc = "rehash" => todo = {},
         bucket_count # 0, op = "insert", key \in Key, key \notin live,
         Cardinality(live) + 1 < bucket_count
  PROVE  IInv'
<1> USE DEF LinkAndProbe, table
<1>1. /\ carried' = key
      /\ daf' \in Nat
      /\ bucket_index' \in Nat
      /\ bucket_index' \in Index(bucket_count)
      /\ daf' = DafAt(hash[key], bucket_index', bucket_count)
      /\ Passed(hash[key], bucket_index', bucket_count) = {}
  BY StartProbeFacts
<1>2. todo = {}
  BY DEF IInv, ControlOK
<1>3. TypeOK'
  BY <1>1, <1>2 DEF IInv, TypeOK, PcValues
<1>4. ControlOK'
  BY <1>1, <1>2 DEF IInv, ControlOK
<1>5. Room'
  <2>1. Cardinality(live') = Cardinality(live) + 1
    BY LiveIsFinite, FS_AddElement DEF IInv
  <2> QED
    BY <2>1 DEF IInv, Room
<1>6. \A i : Occupied(i)' <=> Occupied(i)
  BY DEF Occupied, Vacated
<1>7. Unplaced = {} /\ Unplaced' = {key}
  BY <1>1, <1>2 DEF Unplaced
<1>8. Placed' /\ RobinHoodOrder'
  BY <1>6 DEF IInv, Placed, RobinHoodOrder
<1>9. Unique' /\ Complete'
  BY <1>6, <1>7 DEF IInv, Placed, Unique, Complete
<1>10. ProbeOrder' /\ HoleOK'
  BY <1>1 DEF ProbeOrder, HoleOK
<1> QED
  BY <1>3, <1>4, <1>5, <1>8, <1>9, <1>10 DEF IInv

LEMMA ReserveRoomInv ==
  ASSUME IInv, ReserveRoom
  PROVE  IInv'
<1>1. /\ pc = "reserve" /\ bucket_count # 0 /\ ~MustGrow /\ LinkAndProbe
      /\ op = "insert" /\ key \in Key /\ key \notin live
  BY DEF ReserveRoom, IInv, ControlOK
<1>2. /\ bucket_count \in Nat
      /\ max_load_capacity \in Nat
      /\ max_load_capacity < bucket_count
      /\ Cardinality(live) \in Nat
  BY <1>1, StateFacts, LiveIsFinite DEF IInv, TypeOK, Room
<1>3. Cardinality(live) + 1 < bucket_count
  BY <1>1, <1>2 DEF MustGrow
<1> QED
  BY <1>1, <1>3, LinkAndProbeInv

LEMMA RehashDoneInv ==
  ASSUME IInv, RehashDone
  PROVE  IInv'
<1>1. pc = "rehash" /\ todo = {} /\ bucket_count # 0
  BY DEF RehashDone, IInv, ControlOK
<1>2. CASE op = "insert" /\ LinkAndProbe
  <2>1. /\ key \in Key /\ key \notin live
        /\ Cardinality(live) + 1 < bucket_count
    BY <1>1, <1>2 DEF IInv, ControlOK, Room
  <2> QED
    BY <1>1, <1>2, <2>1, LinkAndProbeInv
<1>3. CASE /\ op = "rehash"
           /\ Return
           /\ UNCHANGED <<hash, table, live, todo, result>>
  <2> USE <1>1, <1>3 DEF Return, ForgetLocals, table
  <2>1. TypeOK'
    BY DEF IInv, TypeOK, PcValues
  <2>2. ControlOK'
    BY StateFacts DEF IInv, ControlOK, Index
  <2>3. Room'
    BY DEF IInv, Room
  <2>4. Placed' /\ Unique' /\ Complete' /\ RobinHoodOrder' /\ HoleOK'
    BY TableUntouched DEF Unplaced
  <2> QED
    BY <2>1, <2>2, <2>3, <2>4 DEF IInv, ProbeOrder
<1> QED
  BY <1>2, <1>3 DEF RehashDone

LEMMA ProbeNextInv ==
  ASSUME IInv, ProbeNext
  PROVE  IInv'
<1> USE DEF ProbeNext, Advance, table
<1> DEFINE h    == hash[carried]
           next == next_bucket(bucket_index, bucket_count)
<1>1. /\ bucket_count # 0
      /\ bucket_count \in BucketCounts
      /\ bucket_index \in Index(bucket_count)
      /\ \A i \in Index(bucket_count) : buckets[i].daf \in Nat
      /\ h \in Hash
      /\ daf \in Nat
  BY StateFacts DEF IInv, ControlOK, TypeOK
<1>2. buckets[bucket_index].daf # 0
  BY <1>1
<1>3. /\ next \in Index(bucket_count)
      /\ DafAt(h, next, bucket_count) = daf + kDistInc
      /\ Passed(h, next, bucket_count)
           = Passed(h, bucket_index, bucket_count) \union {bucket_index}
  BY <1>1, <1>2, CarriedMoves
<1>4. TypeOK'
  BY <1>1, <1>3 DEF IInv, TypeOK, kDistInc, Index
<1>5. ControlOK'
  BY <1>3 DEF IInv, ControlOK
<1>6. Room'
  BY DEF IInv, Room
<1>7. Placed' /\ Unique' /\ Complete' /\ RobinHoodOrder' /\ HoleOK'
  BY TableUntouched DEF Unplaced
<1>8. ProbeOrder'
  <2>1. daf = DafAt(h, bucket_index, bucket_count)
        /\ \A j \in Passed(h, bucket_index, bucket_count) :
             buckets[j].daf >= DafAt(h, j, bucket_count)
    BY <1>1 DEF IInv, ProbeOrder
  <2> QED
    BY <1>1, <1>3, <2>1 DEF ProbeOrder
<1> QED
  BY <1>4, <1>5, <1>6, <1>7, <1>8 DEF IInv

LEMMA ProbeStopInv ==
  ASSUME IInv, ProbeStop
  PROVE  IInv'
<1> USE DEF ProbeStop, table, locals
<1>1. TypeOK' /\ ControlOK'
  BY DEF IInv, TypeOK, ControlOK, PcValues
<1>2. Room'
  BY DEF IInv, Room
<1>3. Placed' /\ Unique' /\ Complete' /\ RobinHoodOrder' /\ HoleOK'
  BY TableUntouched DEF Unplaced
<1>4. ProbeOrder'
  BY DEF IInv, ProbeOrder
<1> QED
  BY <1>1, <1>2, <1>3, <1>4 DEF IInv

(* The carried element takes the bucket, the resident is carried on. *)
LEMMA PlaceSwapInv ==
  ASSUME IInv, PlaceSwap
  PROVE  IInv'
<1> USE DEF PlaceSwap, Placing
<1> DEFINE b    == bucket_index
           r    == buckets[b].node
           next == next_bucket(b, bucket_count)
<1>1. /\ bucket_count # 0 /\ bucket_count \in BucketCounts
      /\ b \in Index(bucket_count)
      /\ DOMAIN buckets = Index(bucket_count)
      /\ \A i \in Index(bucket_count) : buckets[i].daf \in Nat
      /\ \A i \in Index(bucket_count) : Occupied(i) <=> buckets[i].daf # 0
      /\ Occupied(b)
      /\ carried \in live /\ carried \in Key /\ hash[carried] \in Hash
      /\ daf \in Nat /\ daf # 0
  BY StateFacts DEF IInv, TypeOK, ControlOK, Occupied, Vacated
<1>2. /\ daf = DafAt(hash[carried], b, bucket_count)
      /\ \A j \in Passed(hash[carried], b, bucket_count) :
           buckets[j].daf >= DafAt(hash[carried], j, bucket_count)
  BY <1>1 DEF IInv, ProbeOrder
<1>3. /\ hash[r] \in Hash
      /\ r \in live
      /\ buckets[b].daf = DafAt(hash[r], b, bucket_count)
      /\ \A j \in Passed(hash[r], b, bucket_count) :
           buckets[j].daf >= DafAt(hash[r], j, bucket_count)
      /\ next \in Index(bucket_count)
      /\ DafAt(hash[r], next, bucket_count) = buckets[b].daf + kDistInc
      /\ Passed(hash[r], next, bucket_count)
           = Passed(hash[r], b, bucket_count) \union {b}
  BY <1>1, ResidentMoves
<1>4. carried \in Unplaced /\ r \notin Unplaced /\ r # carried
  BY <1>1 DEF IInv, Unique, Unplaced
<1>5. Unplaced' = (Unplaced \ {carried}) \union {r}
  BY <1>4 DEF Unplaced, IInv, ControlOK
<1>6. /\ \A i \in Index(bucket_count) : i # b => buckets'[i] = buckets[i]
      /\ buckets'[b].daf = daf
      /\ buckets'[b].node = carried
      /\ buckets' \in
           [Index(bucket_count) -> [daf : Nat, node : Key \union {NoKey}]]
  BY <1>1 DEF IInv, TypeOK
<1>7. \A i \in Index(bucket_count) : Occupied(i)' <=> Occupied(i)
  BY <1>1, <1>6 DEF Occupied, Vacated
<1>8. \A k \in Key, i \in Index(bucket_count) :
        DafAt(hash[k], i, bucket_count) \in Nat
        /\ Passed(hash[k], i, bucket_count) \subseteq Index(bucket_count)
        /\ i \notin Passed(hash[k], i, bucket_count)
  BY <1>1, StateFacts, DafFacts, PassedFacts DEF IInv
<1>9. TypeOK'
  BY <1>1, <1>3, <1>6 DEF IInv, TypeOK, kDistInc, Index
<1>10. ControlOK'
  BY <1>1, <1>3, <1>4 DEF IInv, ControlOK, Unplaced, TypeOK
<1>11. Room'
  BY DEF IInv, Room
<1>12. Placed'
  BY <1>1, <1>2, <1>6, <1>7 DEF IInv, Placed
<1>13. Unique'
  <2>1. \A i, j \in Index(bucket_count) :
          Occupied(i) /\ Occupied(j) /\ buckets'[i].node = buckets'[j].node
            => i = j
    BY <1>1, <1>4, <1>6 DEF IInv, Unique
  <2>2. \A i \in Index(bucket_count) :
          Occupied(i) => buckets'[i].node \notin Unplaced'
    BY <1>1, <1>4, <1>5, <1>6 DEF IInv, Unique
  <2> QED
    BY <1>7, <2>1, <2>2 DEF Unique
<1>14. Complete'
  <2> SUFFICES ASSUME NEW k \in live \ Unplaced'
               PROVE  \E i \in Index(bucket_count) :
                        Occupied(i) /\ buckets'[i].node = k
    BY <1>7 DEF Complete
  <2>1. CASE k = carried
    BY <1>1, <1>6, <2>1
  <2>2. CASE k # carried
    <3>1. k \in live \ Unplaced /\ k # r
      BY <1>5, <2>2
    <3>2. PICK i \in Index(bucket_count) : Occupied(i) /\ buckets[i].node = k
      BY <3>1 DEF IInv, Complete
    <3> QED
      BY <3>1, <3>2, <1>6
  <2> QED
    BY <2>1, <2>2
<1>15. \A j \in Index(bucket_count) : buckets'[j].daf >= buckets[j].daf
  BY <1>1, <1>6
<1>16. \A j \in Index(bucket_count) : buckets'[j].daf \in Nat
  BY <1>6
<1>17. RobinHoodOrder'
  <2> SUFFICES ASSUME NEW i \in Index(bucket_count), Occupied(i),
                      NEW j \in Passed(hash[buckets'[i].node], i, bucket_count)
               PROVE  buckets'[j].daf
                        >= DafAt(hash[buckets'[i].node], j, bucket_count)
    BY <1>7 DEF RobinHoodOrder
  <2>1. CASE i = b
    BY <2>1, <1>1, <1>2, <1>6, <1>8
  <2>2. CASE i # b
    <3>1. buckets[i].node \in Key /\ buckets'[i].node = buckets[i].node
      BY <2>2, <1>6 DEF IInv, TypeOK, Placed
    <3>2. buckets[j].daf >= DafAt(hash[buckets[i].node], j, bucket_count)
      BY <3>1 DEF IInv, RobinHoodOrder
    <3>3. j \in Index(bucket_count)
      BY <3>1, <1>8
    <3> QED
      BY <3>1, <3>2, <3>3, <1>1, <1>8, <1>15, <1>16
  <2> QED
    BY <2>1, <2>2
<1>18. ProbeOrder'
  <2>1. r \in Key
    BY <1>3 DEF IInv, TypeOK
  <2>2. \A j \in Passed(hash[r], next, bucket_count) :
          buckets'[j].daf >= DafAt(hash[r], j, bucket_count)
    BY <2>1, <1>1, <1>3, <1>8, <1>15, <1>16
  <2> QED
    BY <2>2, <1>3 DEF ProbeOrder
<1> QED
  BY <1>9, <1>10, <1>11, <1>12, <1>13, <1>14, <1>17, <1>18 DEF IInv, HoleOK

LEMMA PlaceNextInv ==
  ASSUME IInv, PlaceNext
  PROVE  IInv'
<1> USE DEF PlaceNext, Placing, Advance, table
<1> DEFINE h    == hash[carried]
           next == next_bucket(bucket_index, bucket_count)
<1>1. /\ bucket_count # 0
      /\ bucket_count \in BucketCounts
      /\ bucket_index \in Index(bucket_count)
      /\ \A i \in Index(bucket_count) : buckets[i].daf \in Nat
      /\ daf \in Nat
  BY StateFacts DEF IInv, ControlOK, TypeOK
<1>2. /\ next \in Index(bucket_count)
      /\ DafAt(h, next, bucket_count) = daf + kDistInc
      /\ Passed(h, next, bucket_count)
           = Passed(h, bucket_index, bucket_count) \union {bucket_index}
  BY <1>1, CarriedMoves
<1>3. TypeOK'
  BY <1>1, <1>2 DEF IInv, TypeOK, kDistInc, Index
<1>4. ControlOK'
  BY <1>2 DEF IInv, ControlOK
<1>5. Room'
  BY DEF IInv, Room
<1>6. Placed' /\ Unique' /\ Complete' /\ RobinHoodOrder' /\ HoleOK'
  BY TableUntouched DEF Unplaced
<1>7. ProbeOrder'
  <2>1. daf = DafAt(h, bucket_index, bucket_count)
        /\ \A j \in Passed(h, bucket_index, bucket_count) :
             buckets[j].daf >= DafAt(h, j, bucket_count)
    BY <1>1 DEF IInv, ProbeOrder
  <2> QED
    BY <1>1, <1>2, <2>1 DEF ProbeOrder
<1> QED
  BY <1>3, <1>4, <1>5, <1>6, <1>7 DEF IInv

LEMMA PlaceDoneInv ==
  ASSUME IInv, PlaceDone
  PROVE  IInv'
<1> USE DEF PlaceDone, Placing
<1> DEFINE b == bucket_index
<1>1. /\ bucket_count # 0 /\ bucket_count \in BucketCounts
      /\ b \in Index(bucket_count)
      /\ DOMAIN buckets = Index(bucket_count)
      /\ \A i \in Index(bucket_count) : buckets[i].daf \in Nat
      /\ \A i \in Index(bucket_count) : Occupied(i) <=> buckets[i].daf # 0
      /\ ~Occupied(b)
      /\ carried \in live /\ carried \in Key /\ hash[carried] \in Hash
      /\ daf \in Nat
      /\ pc' \in {"idle", "rehash"}
  BY StateFacts DEF IInv, TypeOK, ControlOK, Occupied, Vacated, Answer, Return
<1>2. /\ daf = DafAt(hash[carried], b, bucket_count)
      /\ \A j \in Passed(hash[carried], b, bucket_count) :
           buckets[j].daf >= DafAt(hash[carried], j, bucket_count)
  BY <1>1 DEF IInv, ProbeOrder
<1>3. daf # 0
  BY <1>1, <1>2, DafFacts DEF kDistInc
<1>4. /\ carried \in Unplaced
      /\ Unplaced' = Unplaced \ {carried}
  BY DEF Unplaced, IInv, ControlOK, Answer, Return
<1>5. /\ \A i \in Index(bucket_count) : i # b => buckets'[i] = buckets[i]
      /\ buckets'[b].daf = daf
      /\ buckets'[b].node = carried
      /\ buckets' \in
           [Index(bucket_count) -> [daf : Nat, node : Key \union {NoKey}]]
  BY <1>1 DEF IInv, TypeOK
<1>6. \A i \in Index(bucket_count) : Occupied(i)' <=> Occupied(i) \/ i = b
  BY <1>1, <1>3, <1>5 DEF Occupied, Vacated
<1>7. \A k \in Key, i \in Index(bucket_count) :
        DafAt(hash[k], i, bucket_count) \in Nat
        /\ Passed(hash[k], i, bucket_count) \subseteq Index(bucket_count)
        /\ i \notin Passed(hash[k], i, bucket_count)
  BY <1>1, StateFacts, DafFacts, PassedFacts DEF IInv
<1>8. TypeOK'
  <2>1. result' \in BOOLEAN
    <3>1. result' \in {result, TRUE}
      BY Zenon DEF Answer
    <3> QED
      BY <3>1, Zenon DEF IInv, TypeOK
  <2> QED
    BY <1>1, <1>5, <2>1 DEF IInv, TypeOK, PcValues, Answer, Return, ForgetLocals
<1>9. ControlOK'
  BY <1>1, StateFacts DEF IInv, ControlOK, Answer, Return, ForgetLocals, Index
<1>10. Room'
  BY DEF IInv, Room, Answer, Return
<1>11. Placed'
  BY <1>1, <1>2, <1>5, <1>6 DEF IInv, Placed
<1>12. Unique'
  <2>1. \A i, j \in Index(bucket_count) :
          /\ Occupied(i) \/ i = b
          /\ Occupied(j) \/ j = b
          /\ buckets'[i].node = buckets'[j].node
          => i = j
    BY <1>1, <1>4, <1>5 DEF IInv, Unique
  <2>2. \A i \in Index(bucket_count) :
          Occupied(i) \/ i = b => buckets'[i].node \notin Unplaced'
    BY <1>1, <1>4, <1>5 DEF IInv, Unique
  <2> QED
    BY <1>1, <1>6, <2>1, <2>2 DEF Unique
<1>13. Complete'
  <2> SUFFICES ASSUME NEW k \in live \ Unplaced'
               PROVE  \E i \in Index(bucket_count) :
                        (Occupied(i) \/ i = b) /\ buckets'[i].node = k
    BY <1>6 DEF Complete
  <2>1. CASE k = carried
    BY <1>1, <1>5, <2>1
  <2>2. CASE k # carried
    <3>1. k \in live \ Unplaced
      BY <1>4, <2>2
    <3>2. PICK i \in Index(bucket_count) : Occupied(i) /\ buckets[i].node = k
      BY <3>1 DEF IInv, Complete
    <3> QED
      BY <3>2, <1>1, <1>5
  <2> QED
    BY <2>1, <2>2
<1>14. RobinHoodOrder'
  <2>1. \A j \in Index(bucket_count) :
          buckets'[j].daf >= buckets[j].daf /\ buckets'[j].daf \in Nat
    BY <1>1, <1>5
  <2> SUFFICES ASSUME NEW i \in Index(bucket_count), Occupied(i) \/ i = b,
                      NEW j \in Passed(hash[buckets'[i].node], i, bucket_count)
               PROVE  buckets'[j].daf
                        >= DafAt(hash[buckets'[i].node], j, bucket_count)
    BY <1>6 DEF RobinHoodOrder
  <2>2. CASE i = b
    BY <2>2, <1>1, <1>2, <1>5, <1>7
  <2>3. CASE i # b
    <3>1. buckets[i].node \in Key /\ buckets'[i].node = buckets[i].node
      BY <2>3, <1>5 DEF IInv, TypeOK, Placed
    <3>2. buckets[j].daf >= DafAt(hash[buckets[i].node], j, bucket_count)
      BY <2>3, <3>1 DEF IInv, RobinHoodOrder
    <3>3. j \in Index(bucket_count)
      BY <3>1, <1>7
    <3> QED
      BY <3>1, <3>2, <3>3, <1>1, <1>7, <2>1
  <2> QED
    BY <2>2, <2>3
<1>15. ProbeOrder' /\ HoleOK'
  BY <1>1 DEF ProbeOrder, HoleOK
<1> QED
  BY <1>8, <1>9, <1>10, <1>11, <1>12, <1>13, <1>14, <1>15 DEF IInv

(* Pulling a follower back by one: it stays in order because it was not at *)
(* home, and so does what comes after it.                                  *)
LEMMA ShiftNextInv ==
  ASSUME IInv, ShiftNext
  PROVE  IInv'
<1> USE DEF ShiftNext, Displaced
<1> DEFINE b  == bucket_index
           nb == next_bucket(b, bucket_count)
           f  == buckets[nb].node
<1>1. /\ pc = "shift" /\ bucket_count # 0 /\ bucket_count \in BucketCounts
      /\ bucket_count \in Nat /\ bucket_count >= 2
      /\ b \in Index(bucket_count)
      /\ DOMAIN buckets = Index(bucket_count)
      /\ \A i \in Index(bucket_count) : buckets[i].daf \in Nat
      /\ buckets[nb].daf >= 2 * kDistInc
  BY StateFacts DEF IInv, ControlOK
<1>2. nb \in Index(bucket_count) /\ nb # b
  BY <1>1 DEF next_bucket, Index
<1>3. Occupied(nb)
  BY <1>1, <1>2 DEF Occupied, Vacated, kDistInc
<1>4. /\ f \in live /\ f \in Key /\ hash[f] \in Hash
      /\ buckets[nb].daf = DafAt(hash[f], nb, bucket_count)
      /\ \A j \in Passed(hash[f], nb, bucket_count) :
           buckets[j].daf >= DafAt(hash[f], j, bucket_count)
  BY <1>1, <1>2, <1>3, StateFacts DEF IInv, TypeOK, Placed, RobinHoodOrder
<1>5. nb # home_from_hash(hash[f], bucket_count)
  BY <1>1, <1>2, <1>4, DafFacts
<1>6. /\ DafAt(hash[f], nb, bucket_count)
           = DafAt(hash[f], b, bucket_count) + kDistInc
      /\ Passed(hash[f], nb, bucket_count)
           = Passed(hash[f], b, bucket_count) \union {b}
  BY <1>1, <1>4, <1>5, DafFacts, PassedNext
<1>7. \A k \in Key, i \in Index(bucket_count) :
        /\ DafAt(hash[k], i, bucket_count) \in Nat
        /\ DafAt(hash[k], i, bucket_count) >= kDistInc
        /\ Passed(hash[k], i, bucket_count) \subseteq Index(bucket_count)
        /\ i \notin Passed(hash[k], i, bucket_count)
  BY <1>1, StateFacts, DafFacts, PassedFacts DEF IInv
<1>8. /\ \A i \in Index(bucket_count) : i # b => buckets'[i] = buckets[i]
      /\ buckets'[b].daf = DafAt(hash[f], b, bucket_count)
      /\ buckets'[b].daf = buckets[nb].daf - kDistInc
      /\ buckets'[b].node = f
      /\ buckets' \in
           [Index(bucket_count) -> [daf : Nat, node : Key \union {NoKey}]]
  <2>1. buckets[nb].daf - kDistInc = DafAt(hash[f], b, bucket_count)
    BY <1>1, <1>2, <1>4, <1>6, <1>7 DEF kDistInc
  <2>2. buckets' = [buckets EXCEPT ![b] =
                      [daf |-> DafAt(hash[f], b, bucket_count), node |-> f]]
    BY <2>1
  <2>3. DafAt(hash[f], b, bucket_count) \in Nat
    BY <1>1, <1>4, <1>7
  <2> HIDE DEF ShiftNext, Displaced
  <2> QED
    BY <1>1, <1>2, <1>4, <2>1, <2>2, <2>3 DEF IInv, TypeOK
<1>9. \A i \in Index(bucket_count) :
        /\ Occupied(i) <=> buckets[i].daf # 0 /\ i # b
        /\ Occupied(i)' <=> i # nb /\ (i = b \/ Occupied(i))
  <2>1. buckets'[b].daf # 0
    BY <1>1, <1>4, <1>7, <1>8 DEF kDistInc
  <2> QED
    BY <1>1, <1>2, <1>8, <2>1 DEF Occupied, Vacated
<1>10. TypeOK'
  BY <1>2, <1>8 DEF IInv, TypeOK, Index
<1>11. ControlOK' /\ Room'
  BY <1>1, <1>2 DEF IInv, ControlOK, Room
<1>12. Placed'
  BY <1>2, <1>4, <1>8, <1>9 DEF IInv, Placed
<1>13. Unplaced = {} /\ Unplaced' = {}
  BY <1>1 DEF Unplaced
<1>14. Unique'
  <2>1. \A i, j \in Index(bucket_count) :
          Occupied(i)' /\ Occupied(j)' /\ buckets'[i].node = buckets'[j].node
            => i = j
    BY <1>2, <1>3, <1>8, <1>9 DEF IInv, Unique
  <2>2. \A i \in Index(bucket_count) : Occupied(i)' => buckets'[i].node # key
    BY <1>1, <1>2, <1>3, <1>8, <1>9 DEF IInv, Unique
  <2> QED
    BY <1>13, <2>1, <2>2 DEF Unique
<1>15. Complete'
  <2> SUFFICES ASSUME NEW k \in live, k # key
               PROVE  \E i \in Index(bucket_count) :
                        Occupied(i)' /\ buckets'[i].node = k
    BY <1>1, <1>13 DEF Complete
  <2>1. PICK i \in Index(bucket_count) : Occupied(i) /\ buckets[i].node = k
    BY <1>1, <1>13 DEF IInv, Complete
  <2>2. CASE i = nb
    BY <2>1, <2>2, <1>1, <1>2, <1>8, <1>9
  <2>3. CASE i # nb
    BY <2>1, <2>3, <1>8, <1>9
  <2> QED
    BY <2>2, <2>3
<1>16. RobinHoodOrder'
  <2> SUFFICES ASSUME NEW i \in Index(bucket_count), Occupied(i)',
                      NEW j \in Passed(hash[buckets'[i].node], i, bucket_count)
               PROVE  buckets'[j].daf
                        >= DafAt(hash[buckets'[i].node], j, bucket_count)
    BY DEF RobinHoodOrder
  <2>1. CASE i = b
    <3>1. j # b /\ j \in Index(bucket_count)
      BY <2>1, <1>1, <1>4, <1>7, <1>8
    <3>2. j \in Passed(hash[f], nb, bucket_count)
      BY <2>1, <1>6, <1>8
    <3> QED
      BY <2>1, <3>1, <3>2, <1>4, <1>8
  <2>2. CASE i # b
    <3> DEFINE k == buckets[i].node
    <3>1. /\ Occupied(i) /\ i # nb
          /\ k \in Key /\ hash[k] \in Hash /\ buckets'[i].node = k
          /\ \A l \in Passed(hash[k], i, bucket_count) :
               buckets[l].daf >= DafAt(hash[k], l, bucket_count)
      BY <2>2, <1>1, <1>8, <1>9, StateFacts
         DEF IInv, TypeOK, Placed, RobinHoodOrder
    <3>2. j \in Index(bucket_count) /\ j \in Passed(hash[k], i, bucket_count)
      BY <3>1, <1>7
    <3> HIDE DEF k
    <3>3. CASE j # b
      BY <3>1, <3>2, <3>3, <1>8
    <3>4. CASE j = b
      <4>1. /\ nb # home_from_hash(hash[k], bucket_count)
            /\ nb \in Passed(hash[k], i, bucket_count)
        BY <3>1, <3>2, <3>4, <1>1, PassedNext
      <4>2. DafAt(hash[k], nb, bucket_count)
              = DafAt(hash[k], b, bucket_count) + kDistInc
        BY <3>1, <4>1, <1>1, DafFacts
      <4>3. buckets[nb].daf >= DafAt(hash[k], b, bucket_count) + kDistInc
        BY <3>1, <4>1, <4>2
      <4>4. DafAt(hash[k], b, bucket_count) \in Nat
        BY <3>1, <1>1, <1>7
      <4> QED
        BY <3>1, <3>4, <4>3, <4>4, <1>1, <1>2, <1>8 DEF kDistInc
    <3> QED
      BY <3>3, <3>4
  <2> QED
    BY <2>1, <2>2
<1>17. ProbeOrder'
  BY <1>1 DEF ProbeOrder
<1>18. HoleOK'
  <2>1. buckets'[nb].daf # 0
    BY <1>1, <1>2, <1>8 DEF kDistInc
  <2>2. buckets'[nb].daf <= MaxDaf(bucket_count)
    BY <1>1, <1>2, <1>4, <1>8, DafFacts
  <2> QED
    BY <2>1, <2>2 DEF HoleOK
<1> QED
  BY <1>10, <1>11, <1>12, <1>14, <1>15, <1>16, <1>17, <1>18 DEF IInv

(* The hole closes in front of an element that is at home, or of an empty  *)
(* bucket: nobody's probe runs through it.                                 *)
LEMMA ShiftDoneInv ==
  ASSUME IInv, ShiftDone
  PROVE  IInv'
<1> USE DEF ShiftDone, Displaced, Answer, Return, ForgetLocals
<1> DEFINE b  == bucket_index
           nb == next_bucket(b, bucket_count)
<1>1. /\ pc = "shift" /\ bucket_count # 0 /\ bucket_count \in BucketCounts
      /\ bucket_count \in Nat /\ bucket_count >= 2
      /\ b \in Index(bucket_count)
      /\ DOMAIN buckets = Index(bucket_count)
      /\ \A i \in Index(bucket_count) : buckets[i].daf \in Nat
      /\ ~ (buckets[nb].daf >= 2 * kDistInc)
      /\ key \in live
  BY StateFacts DEF IInv, ControlOK
<1>2. nb \in Index(bucket_count) /\ nb # b
  BY <1>1 DEF next_bucket, Index
<1>3. /\ \A i \in Index(bucket_count) : i # b => buckets'[i] = buckets[i]
      /\ buckets'[b].daf = 0
      /\ buckets' \in
           [Index(bucket_count) -> [daf : Nat, node : Key \union {NoKey}]]
  BY <1>1 DEF IInv, TypeOK, EmptyBucket
<1>4. \A i \in Index(bucket_count) : Occupied(i)' <=> Occupied(i)
  BY <1>1, <1>3 DEF Occupied, Vacated
<1>5. \A i \in Index(bucket_count) : Occupied(i) =>
        /\ i # b
        /\ buckets[i].node \in live
        /\ buckets[i].node \in Key
        /\ hash[buckets[i].node] \in Hash
        /\ buckets[i].node # key
  BY <1>1, StateFacts DEF Occupied, Vacated, IInv, TypeOK, Placed, Unique
<1>6. TypeOK'
  <2>1. result' \in BOOLEAN
    BY Zenon
  <2>2. todo = {}
    BY <1>1 DEF IInv, ControlOK
  <2> QED
    BY <1>3, <2>1, <2>2 DEF IInv, TypeOK, PcValues
<1>7. ControlOK'
  BY <1>1 DEF IInv, ControlOK, Index
<1>8. Room'
  <2>1. /\ Cardinality(live) \in Nat
        /\ Cardinality(live') = Cardinality(live) - 1
    BY <1>1, LiveIsFinite, FS_RemoveElement DEF IInv
  <2> QED
    BY <1>1, <2>1 DEF IInv, Room
<1>9. Placed'
  BY <1>3, <1>4, <1>5 DEF IInv, Placed
<1>10. Unplaced = {} /\ Unplaced' = {}
  BY <1>1 DEF Unplaced
<1>11. Unique'
  BY <1>3, <1>4, <1>5, <1>10 DEF IInv, Unique
<1>12. Complete'
  BY <1>3, <1>4, <1>5, <1>10 DEF IInv, Complete
<1>13. RobinHoodOrder'
  <2> SUFFICES ASSUME NEW i \in Index(bucket_count), Occupied(i),
                      NEW j \in Passed(hash[buckets'[i].node], i, bucket_count)
               PROVE  buckets'[j].daf
                        >= DafAt(hash[buckets'[i].node], j, bucket_count)
    BY <1>4 DEF RobinHoodOrder
  <2> DEFINE k == buckets[i].node
  <2>1. /\ k \in Key /\ hash[k] \in Hash /\ buckets'[i].node = k /\ i # b
        /\ buckets[i].daf = DafAt(hash[k], i, bucket_count)
        /\ \A l \in Passed(hash[k], i, bucket_count) :
             buckets[l].daf >= DafAt(hash[k], l, bucket_count)
    BY <1>3, <1>5 DEF IInv, Placed, RobinHoodOrder
  <2> HIDE DEF k
  <2>2. j \in Passed(hash[k], i, bucket_count) /\ j \in Index(bucket_count)
    BY <2>1, <1>1, PassedFacts
  <2>3. CASE j # b
    BY <2>1, <2>2, <2>3, <1>3
  <2>4. CASE j = b
    <3>1. /\ nb # home_from_hash(hash[k], bucket_count)
          /\ nb = i \/ nb \in Passed(hash[k], i, bucket_count)
      BY <2>1, <2>2, <2>4, <1>1, PassedNext
    <3>2. /\ DafAt(hash[k], nb, bucket_count) \in Nat
          /\ DafAt(hash[k], nb, bucket_count) >= 2 * kDistInc
      BY <2>1, <3>1, <1>1, <1>2, DafFacts
    <3>3. buckets[nb].daf >= DafAt(hash[k], nb, bucket_count)
      BY <2>1, <3>1, <3>2
    <3> QED
      BY <3>2, <3>3, <1>1, <1>2 DEF kDistInc
  <2> QED
    BY <2>3, <2>4
<1>14. ProbeOrder' /\ HoleOK'
  BY DEF ProbeOrder, HoleOK
<1> QED
  BY <1>6, <1>7, <1>8, <1>9, <1>11, <1>12, <1>13, <1>14 DEF IInv

LEMMA StutterInv ==
  ASSUME IInv, UNCHANGED vars
  PROVE  IInv'
<1> USE DEF vars, table, locals
<1>1. Unplaced' = Unplaced
  BY DEF Unplaced
<1>2. \A i : Occupied(i)' <=> Occupied(i)
  BY DEF Occupied, Vacated
<1>3. TypeOK'
  BY DEF IInv, TypeOK
<1>4. ControlOK' /\ Room'
  BY DEF IInv, ControlOK, Room
<1>5. Placed' /\ Unique' /\ Complete' /\ RobinHoodOrder'
  BY <1>1, <1>2 DEF IInv, Placed, Unique, Complete, RobinHoodOrder
<1>6. ProbeOrder' /\ HoleOK'
  BY DEF IInv, ProbeOrder, HoleOK
<1> QED
  BY <1>3, <1>4, <1>5, <1>6 DEF IInv

LEMMA TurnInv ==
  ASSUME IInv, Turn
  PROVE  IInv'
BY FindHitInv, FindMissInv, FindNextInv, ReserveGrowInv, ReserveRoomInv,
   RehashNextInv, RehashDoneInv, ProbeNextInv, ProbeStopInv, PlaceSwapInv,
   PlaceNextInv, PlaceDoneInv, ShiftNextInv, ShiftDoneInv DEF Turn

LEMMA StartInv ==
  ASSUME IInv, LoadFactorAtMostOne, Start
  PROVE  IInv'
<1>1. CASE \E o \in {"lookup", "insert", "erase"}, k \in Key : Call(o, k)
  BY <1>1, CallInv
<1>2. CASE \E n \in Requests : Rehash(n) \/ Reserve(n)
  BY <1>2, RehashInv, ReserveInv, ArgumentAssumption
<1>3. CASE RehashToNothing
  BY <1>3, RehashToNothingInv
<1>4. CASE \E z \in MaxLoadFactors : SetMaxLoadFactor(z)
  BY <1>4, SetMaxLoadFactorInv
<1>5. CASE Clear
  BY <1>5, ClearInv
<1> QED
  BY <1>1, <1>2, <1>3, <1>4, <1>5 DEF Start

-----------------------------------------------------------------------------
(* The theorems. *)

(* The inductive invariant holds in every reachable state. *)
THEOREM IndexInvariant ==
  ASSUME LoadFactorAtMostOne
  PROVE  Spec => []IInv
<1>1. Init => IInv
  BY InitEstablishesIInv
<1>2. IInv /\ [Next]_vars => IInv'
  BY TurnInv, StartInv, StutterInv DEF Next
<1> QED
  BY <1>1, <1>2, PTL DEF Spec

(* Every variable of the index keeps its type. *)
THEOREM TypeCorrect ==
  ASSUME LoadFactorAtMostOne
  PROVE  Spec => []TypeOK
<1>1. IInv => TypeOK
  BY DEF IInv
<1> QED
  BY <1>1, IndexInvariant, PTL

(* The documented promise of one empty bucket is kept as long as           *)
(* max_load_factor does not exceed 1.0.                                    *)
THEOREM EmptyBucketAlwaysRemains ==
  ASSUME LoadFactorAtMostOne
  PROVE  Spec => []EmptyBucketRemains
<1>1. IInv => EmptyBucketRemains
  BY SomeBucketEmpty DEF EmptyBucketRemains
<1> QED
  BY <1>1, IndexInvariant, PTL

(* Between calls every element of the table can be found by its key. *)
THEOREM LiveKeysStayFindable ==
  ASSUME LoadFactorAtMostOne
  PROVE  Spec => []EveryLiveKeyFindable
<1>1. IInv => EveryLiveKeyFindable
  <2> SUFFICES ASSUME IInv, pc = "idle", NEW k \in live
               PROVE  \E i \in Index(bucket_count) :
                        /\ buckets[i] = [daf  |-> DafAt(hash[k], i, bucket_count),
                                         node |-> k]
                        /\ \A j \in Passed(hash[k], i, bucket_count) :
                             buckets[j].daf >= DafAt(hash[k], j, bucket_count)
    BY DEF EveryLiveKeyFindable
  <2>1. PICK i \in Index(bucket_count) : Occupied(i) /\ buckets[i].node = k
    BY DEF IInv, Complete, Unplaced
  <2>2. /\ buckets[i].daf = DafAt(hash[k], i, bucket_count)
        /\ \A j \in Passed(hash[k], i, bucket_count) :
             buckets[j].daf >= DafAt(hash[k], j, bucket_count)
    BY <2>1 DEF IInv, Placed, RobinHoodOrder
  <2>3. bucket_count # 0
    BY DEF IInv, Room
  <2>4. buckets[i] = [daf |-> buckets[i].daf, node |-> buckets[i].node]
    BY <2>3, StateFacts DEF IInv
  <2> QED
    BY <2>1, <2>2, <2>4
<1> QED
  BY <1>1, IndexInvariant, PTL

(* No probe goes further than one turn around the bucket array. *)
THEOREM ProbesAreBounded ==
  ASSUME LoadFactorAtMostOne
  PROVE  Spec => []ProbeDistanceBounded
<1>1. IInv => ProbeDistanceBounded
  <2> SUFFICES ASSUME IInv
               PROVE  ProbeDistanceBounded
    OBVIOUS
  <2>1. \A i \in Index(bucket_count) : buckets[i].daf <= MaxDaf(bucket_count)
    <3> TAKE i \in Index(bucket_count)
    <3>1. bucket_count # 0
      BY DEF IInv, TypeOK, Index
    <3>2. CASE Vacated(i)
      BY <3>2 DEF IInv, HoleOK, Vacated
    <3>3. CASE Occupied(i)
      <4>1. /\ bucket_count \in BucketCounts
            /\ hash[buckets[i].node] \in Hash
            /\ buckets[i].daf = DafAt(hash[buckets[i].node], i, bucket_count)
        BY <3>1, <3>3, StateFacts DEF IInv, TypeOK, Placed
      <4> QED
        BY <4>1, DafFacts
    <3>4. CASE buckets[i].daf = 0
      BY <3>1, <3>4, StateFacts DEF IInv, MaxDaf, kDistInc
    <3> QED
      BY <3>2, <3>3, <3>4 DEF Occupied
  <2>2. bucket_count # 0 => daf <= MaxDaf(bucket_count)
    <3>1. CASE pc \in {"find", "probe", "place", "replace"} /\ bucket_count # 0
      <4>1. /\ bucket_count \in BucketCounts
            /\ bucket_index \in Index(bucket_count)
            /\ hash[carried] \in Hash
            /\ daf = DafAt(hash[carried], bucket_index, bucket_count)
        BY <3>1, StateFacts DEF IInv, TypeOK, ControlOK, ProbeOrder
      <4> QED
        BY <4>1, DafFacts
    <3>2. CASE pc \notin {"find", "probe", "place", "replace"}
      <4>1. daf = 0 /\ bucket_count \in Nat
        BY <3>2, BucketCountsAssumption DEF IInv, TypeOK, ControlOK
      <4> QED
        BY <4>1 DEF MaxDaf, kDistInc
    <3> QED
      BY <3>1, <3>2
  <2> QED
    BY <2>1, <2>2 DEF ProbeDistanceBounded
<1> QED
  BY <1>1, IndexInvariant, PTL

-----------------------------------------------------------------------------
(* The refinement: each turn of a loop is a step of KeySet or a stutter. *)

LEMMA InitRefines ==
  ASSUME Init
  PROVE  Abstract!Init
BY DEF Init, Abstract!Init, Contents

LEMMA FindRefines ==
  ASSUME IInv, FindHit \/ FindMiss \/ FindNext
  PROVE  [Abstract!Next]_Abstract!vars
<1> USE DEF Answer, Return, Contents, table, locals
<1>1. pc = "find" /\ live' = live /\ pc' \notin {"probe", "place"}
  BY DEF FindHit, FindMiss, FindNext
<1>2. CASE FindNext
  BY <1>2 DEF FindNext, Abstract!vars
<1>3. CASE FindHit
  <2> USE <1>3 DEF FindHit
  <2>1. key \in live
    <3>1. /\ bucket_index \in Index(bucket_count)
          /\ bucket_count \in BucketCounts
          /\ carried = key
          /\ hash[key] \in Hash
          /\ daf = DafAt(hash[key], bucket_index, bucket_count)
      BY StateFacts DEF IInv, ControlOK, ProbeOrder
    <3>2. daf # 0
      BY <3>1, DafFacts DEF kDistInc
    <3> QED
      BY <1>1, <3>1, <3>2 DEF AtKey, IInv, Placed, Occupied, Vacated
  <2>2. CASE op = "erase"
    BY <1>1, <2>2 DEF Abstract!vars
  <2>3. CASE op = "lookup"
    <3>1. result' = TRUE
      BY <2>3, Zenon
    <3>2. result' = (key \in Contents)
      BY <1>1, <2>1, <3>1
    <3>3. Abstract!Lookup
      BY <1>1, <2>3, <3>2 DEF Abstract!Lookup, Abstract!Return
    <3> QED
      BY <3>3 DEF Abstract!Next
  <2>4. CASE op = "insert"
    <3>1. result' = FALSE
      BY <2>4, Zenon
    <3>2. result' = (key \notin Contents)
      BY <1>1, <2>1, <3>1
    <3>3. Abstract!Insert
      BY <1>1, <2>1, <2>4, <3>2 DEF Abstract!Insert, Abstract!Return
    <3> QED
      BY <3>3 DEF Abstract!Next
  <2> QED
    BY <1>1, <2>2, <2>3, <2>4 DEF IInv, ControlOK
<1>4. CASE FindMiss
  <2> USE <1>4 DEF FindMiss, OutProbed
  <2>1. key \notin live
    BY MissMeansAbsent
  <2>2. CASE op = "insert"
    BY <1>1, <2>2 DEF Abstract!vars
  <2>3. CASE op # "insert"
    <3>1. result' = FALSE
      BY <2>3, Zenon
    <3>2. result' = (key \in Contents)
      <4>1. key \notin Contents
        BY <1>1, <2>1
      <4> HIDE DEF Contents, FindMiss, OutProbed
      <4>2. result' \in BOOLEAN
        BY <3>1, Zenon
      <4>3. result' <=> key \in Contents
        BY <3>1, <4>1
      <4> QED
        BY <4>2, <4>3
    <3>3. Abstract!Lookup \/ Abstract!Erase
      BY <1>1, <2>1, <2>3, <3>2
         DEF Abstract!Lookup, Abstract!Erase, Abstract!Return, IInv, ControlOK
    <3> QED
      BY <3>3 DEF Abstract!Next
  <2> QED
    BY <2>2, <2>3
<1> QED
  BY <1>2, <1>3, <1>4

LEMMA PlacingRefines ==
  ASSUME IInv, PlaceSwap \/ PlaceNext \/ PlaceDone
  PROVE  [Abstract!Next]_Abstract!vars
<1> USE DEF Contents, Placing, Advance, table
<1>1. CASE PlaceSwap \/ PlaceNext
  BY <1>1 DEF PlaceSwap, PlaceNext, Abstract!vars
<1>2. CASE PlaceDone
  <2> USE <1>2 DEF PlaceDone, Answer, Return
  <2>1. CASE pc = "replace"
    BY <2>1 DEF Abstract!vars
  <2>2. CASE pc = "place"
    <3>1. op = "insert" /\ key \in live /\ live' = live /\ pc' = "idle"
      BY <2>2 DEF IInv, ControlOK
    <3>2. result' = TRUE
      BY <2>2, Zenon
    <3>3. key \notin Contents
      BY <2>2
    <3>4. result' = (key \notin Contents)
      BY <3>2, <3>3
    <3>5. Contents' = Contents \union {key}
      BY <2>2, <3>1
    <3>6. Abstract!Insert
      BY <2>2, <3>1, <3>4, <3>5 DEF Abstract!Insert, Abstract!Return
    <3> QED
      BY <3>6 DEF Abstract!Next
  <2> QED
    BY <2>1, <2>2
<1> QED
  BY <1>1, <1>2

LEMMA LinkAndProbeRefines ==
  ASSUME LinkAndProbe, pc \in {"rehash", "reserve"}, key \notin live
  PROVE  UNCHANGED Abstract!vars
BY DEF LinkAndProbe, Contents, Abstract!vars

LEMMA TurnRefines ==
  ASSUME IInv, Turn
  PROVE  [Abstract!Next]_Abstract!vars
<1> USE DEF Contents, table, locals
<1>1. CASE FindHit \/ FindMiss \/ FindNext
  BY <1>1, FindRefines
<1>2. CASE PlaceSwap \/ PlaceNext \/ PlaceDone
  BY <1>2, PlacingRefines
<1>3. CASE ReserveGrow
  <2>1. pc = "reserve" /\ op = "insert"
    BY <1>3 DEF ReserveGrow, IInv, ControlOK
  <2>2. live' = live /\ pc' = "rehash" /\ UNCHANGED <<op, key, result>>
    BY <1>3, <2>1 DEF ReserveGrow, rehash_to
  <2> QED
    BY <2>1, <2>2 DEF Abstract!vars
<1>4. CASE ReserveRoom
  BY <1>4, LinkAndProbeRefines DEF ReserveRoom, IInv, ControlOK
<1>5. CASE RehashNext
  BY <1>5 DEF RehashNext, Abstract!vars
<1>6. CASE RehashDone
  <2>1. pc = "rehash"
    BY <1>6 DEF RehashDone
  <2>2. CASE op = "insert" /\ LinkAndProbe
    BY <2>1, <2>2, LinkAndProbeRefines DEF IInv, ControlOK
  <2>3. CASE /\ op = "rehash"
             /\ Return
             /\ UNCHANGED <<hash, table, live, todo, result>>
    <3>1. Abstract!Rehash
      BY <2>1, <2>3 DEF Return, Abstract!Rehash, Abstract!Return
    <3> QED
      BY <3>1 DEF Abstract!Next
  <2> QED
    BY <1>6, <2>2, <2>3 DEF RehashDone
<1>7. CASE ProbeNext \/ ProbeStop
  BY <1>7 DEF ProbeNext, ProbeStop, Abstract!vars
<1>8. CASE ShiftNext
  BY <1>8 DEF ShiftNext, Abstract!vars
<1>9. CASE ShiftDone
  <2>1. /\ pc = "shift" /\ op = "erase" /\ key \in live
        /\ pc' = "idle" /\ live' = live \ {key} /\ op' = "none" /\ key' = NoKey
    BY <1>9 DEF ShiftDone, Answer, Return, IInv, ControlOK
  <2>2. result' = TRUE
    BY <1>9, Zenon DEF ShiftDone, Answer
  <2>3. result' = (key \in Contents)
    BY <2>1, <2>2
  <2>4. Abstract!Erase
    BY <2>1, <2>3 DEF Abstract!Erase, Abstract!Return
  <2> QED
    BY <2>4 DEF Abstract!Next
<1> QED
  BY <1>1, <1>2, <1>3, <1>4, <1>5, <1>6, <1>7, <1>8, <1>9 DEF Turn

LEMMA RehashRefines ==
  ASSUME IInv, NEW requested, Rehash(requested)
  PROVE  Abstract!Call("rehash", NoKey)
<1>1. pc = "idle" /\ op = "none" /\ key = NoKey
  BY DEF Rehash, IInv, ControlOK
<1>2. /\ op' = "rehash" /\ key' = key /\ pc' = "rehash"
      /\ live' = live /\ result' = result
  BY DEF Rehash, rehash_to
<1> QED
  BY <1>1, <1>2 DEF Abstract!Call, Contents

LEMMA StartRefines ==
  ASSUME IInv, Start
  PROVE  [Abstract!Next]_Abstract!vars
<1> USE DEF Contents, locals, table
<1>1. ASSUME NEW o \in {"lookup", "insert", "erase"}, NEW k \in Key, Call(o, k)
      PROVE  Abstract!Next
  <2>1. Abstract!Call(o, k)
    BY <1>1 DEF Call, Abstract!Call, IInv, ControlOK
  <2> QED
    BY <2>1 DEF Abstract!Next
<1>2. ASSUME NEW n \in Requests, Rehash(n) \/ Reserve(n)
      PROVE  Abstract!Next
  BY <1>2, RehashRefines DEF Reserve, Abstract!Next
<1>3. CASE RehashToNothing
  BY <1>3 DEF RehashToNothing, Abstract!vars
<1>4. ASSUME NEW z \in MaxLoadFactors, SetMaxLoadFactor(z)
      PROVE  UNCHANGED Abstract!vars
  BY <1>4 DEF SetMaxLoadFactor, Abstract!vars
<1>5. CASE Clear
  <2>1. Abstract!Clear
    BY <1>5 DEF Clear, Abstract!Clear, IInv, ControlOK
  <2> QED
    BY <2>1 DEF Abstract!Next
<1> QED
  BY <1>1, <1>2, <1>3, <1>4, <1>5 DEF Start

(* The index is a set of keys: lookups, insertions and erasures answer as  *)
(* membership does, and growing or rehashing loses and duplicates nothing. *)
THEOREM IndexImplementsKeySet ==
  ASSUME LoadFactorAtMostOne
  PROVE  Spec => ImplementsKeySet
<1>1. Init => Abstract!Init
  BY InitRefines
<1>2. IInv /\ [Next]_vars => [Abstract!Next]_Abstract!vars
  <2>1. ASSUME UNCHANGED vars
        PROVE  UNCHANGED Abstract!vars
    BY <2>1 DEF vars, Abstract!vars, Contents
  <2> QED
    BY <2>1, TurnRefines, StartRefines DEF Next
<1> QED
  BY <1>1, <1>2, IndexInvariant, PTL DEF Spec, ImplementsKeySet, Abstract!Spec
=============================================================================
