--------------------------- MODULE Probing_proofs ---------------------------
(***************************************************************************)
(* Facts about the probe order, for every bucket count and every hash.     *)
(***************************************************************************)
EXTENDS Probing, LoadPolicy_proofs

LEMMA DivisionBound ==
  ASSUME NEW h \in Nat, NEW n \in Nat \ {0}, NEW m \in Nat \ {0}, h < n * m
  PROVE  h \div m \in 0 .. n - 1
BY Z3

(* The shift of the code selects one of the buckets. *)
LEMMA HomeIsABucket ==
  ASSUME NEW n \in BucketCounts, NEW h \in Hash
  PROVE  home_from_hash(h, n) \in Index(n)
<1> DEFINE m == HashSpace \div n
<1>1. n \in Nat \ {0} /\ HashSpace \in Nat /\ HashSpace >= n
  BY BucketCountsAssumption, HashSpaceAssumption
<1>2. m \in Nat \ {0} /\ HashSpace = n * m
  <2>1. HashSpace = n * m
    BY HashSpaceAssumption
  <2>2. m \in Nat
    BY <1>1, Z3
  <2>3. m # 0
    BY <1>1, <2>1
  <2> QED
    BY <2>1, <2>2, <2>3
<1>3. h \in Nat /\ h < n * m
  BY <1>1, <1>2 DEF Hash
<1>4. h \div m \in 0 .. n - 1
  BY <1>1, <1>2, <1>3, DivisionBound
<1> QED
  BY <1>1, <1>4 DEF home_from_hash, Index

LEMMA NextIsABucket ==
  ASSUME NEW n \in Nat \ {0}, NEW i \in Index(n)
  PROVE  next_bucket(i, n) \in Index(n)
BY DEF next_bucket, Index

(* The order in which a probe visits the buckets of an array of n. *)
LEMMA StepsFacts ==
  ASSUME NEW n \in Nat \ {0}, NEW home \in Index(n)
  PROVE  /\ \A i \in Index(n) : Steps(home, i, n) \in Index(n)
         /\ Steps(home, home, n) = 0
         /\ \A i, j \in Index(n) :
              Steps(home, i, n) = Steps(home, j, n) => i = j
         /\ \A i \in Index(n) : next_bucket(i, n) # home =>
              Steps(home, next_bucket(i, n), n) = Steps(home, i, n) + 1
         /\ \A i \in Index(n) : next_bucket(i, n) = home =>
              Steps(home, i, n) = n - 1
BY DEF Index, Steps, next_bucket

LEMMA FingerprintType ==
  ASSUME NEW h \in Hash
  PROVE  dist_and_fingerprint_from_hash(h) \in kDistInc .. 2 * kDistInc - 1
<1>1. h \in Nat
  BY HashSpaceAssumption DEF Hash
<1>2. h % 256 \in 0 .. 255
  BY <1>1, SMT
<1> QED
  BY <1>2 DEF dist_and_fingerprint_from_hash, kDistInc

(* What a probe carries: 256 more at each bucket, no less than 256, less   *)
(* than 512 at the home bucket and only there.                             *)
LEMMA DafFacts ==
  ASSUME NEW n \in BucketCounts, NEW h \in Hash
  PROVE  /\ DafAt(h, home_from_hash(h, n), n)
              = dist_and_fingerprint_from_hash(h)
         /\ \A i \in Index(n) :
              /\ DafAt(h, i, n) \in Nat
              /\ DafAt(h, i, n) >= kDistInc
              /\ DafAt(h, i, n) <= MaxDaf(n)
              /\ DafAt(h, i, n) >= 2 * kDistInc <=> i # home_from_hash(h, n)
         /\ \A i \in Index(n) : next_bucket(i, n) # home_from_hash(h, n) =>
              DafAt(h, next_bucket(i, n), n) = DafAt(h, i, n) + kDistInc
<1> DEFINE home == home_from_hash(h, n)
           fp   == dist_and_fingerprint_from_hash(h)
<1>1. n \in Nat \ {0}
  BY BucketCountsAssumption
<1>2. home \in Index(n)
  BY HomeIsABucket
<1>3. fp \in 256 .. 511
  BY FingerprintType DEF kDistInc
<1>4. \A i \in Index(n) :
        /\ Steps(home, i, n) \in 0 .. n - 1
        /\ Steps(home, i, n) = 0 <=> i = home
  <2>1. /\ Steps(home, home, n) = 0
        /\ \A i \in Index(n) : Steps(home, i, n) \in Index(n)
        /\ \A i, j \in Index(n) :
             Steps(home, i, n) = Steps(home, j, n) => i = j
    BY <1>1, <1>2, StepsFacts
  <2> HIDE DEF home
  <2>2. \A i \in Index(n) : Steps(home, i, n) = 0 <=> i = home
    BY <1>2, <2>1
  <2> QED
    BY <2>1, <2>2 DEF Index
<1>5. \A i \in Index(n) :
        /\ next_bucket(i, n) \in Index(n)
        /\ next_bucket(i, n) # home =>
             Steps(home, next_bucket(i, n), n) = Steps(home, i, n) + 1
  BY <1>1, <1>2, StepsFacts, NextIsABucket
<1>6. \A i \in Index(n) : DafAt(h, i, n) = fp + 256 * Steps(home, i, n)
  BY DEF DafAt, kDistInc
<1> HIDE DEF home, fp
<1>7. DafAt(h, home, n) = fp
  BY <1>2, <1>3, <1>4, <1>6
<1>8. \A i \in Index(n) :
        /\ DafAt(h, i, n) \in Nat
        /\ DafAt(h, i, n) >= 256
        /\ DafAt(h, i, n) <= 256 * n + 255
        /\ DafAt(h, i, n) >= 512 <=> i # home
  <2> TAKE i \in Index(n)
  <2> DEFINE s == Steps(home, i, n)
  <2>1. s \in 0 .. n - 1 /\ (s = 0 <=> i = home) /\ DafAt(h, i, n) = fp + 256 * s
    BY <1>4, <1>6
  <2> HIDE DEF s
  <2> QED
    BY <1>1, <1>3, <2>1
<1>9. \A i \in Index(n) : next_bucket(i, n) # home =>
        DafAt(h, next_bucket(i, n), n) = DafAt(h, i, n) + 256
  <2> TAKE i \in Index(n)
  <2> HAVE next_bucket(i, n) # home
  <2>1. Steps(home, i, n) \in Nat
    BY <1>1, <1>4
  <2> QED
    BY <2>1, <1>3, <1>5, <1>6
<1> QED
  BY <1>7, <1>8, <1>9 DEF home, fp, MaxDaf, kDistInc

(* Which buckets a probe has passed when it reaches a bucket. *)
LEMMA PassedFacts ==
  ASSUME NEW n \in BucketCounts, NEW h \in Hash
  PROVE  /\ Passed(h, home_from_hash(h, n), n) = {}
         /\ \A i \in Index(n) :
              Passed(h, i, n) \subseteq Index(n) /\ i \notin Passed(h, i, n)
         /\ \A i, j \in Index(n) :
              i = j \/ i \in Passed(h, j, n) \/ j \in Passed(h, i, n)
<1> DEFINE home == home_from_hash(h, n)
<1>1. n \in Nat \ {0}
  BY BucketCountsAssumption
<1>2. home \in Index(n)
  BY HomeIsABucket
<1>3. /\ \A i \in Index(n) : Steps(home, i, n) \in 0 .. n - 1
      /\ Steps(home, home, n) = 0
      /\ \A i, j \in Index(n) : Steps(home, i, n) = Steps(home, j, n) => i = j
  BY <1>1, <1>2, StepsFacts DEF Index
<1>4. \A i : Passed(h, i, n) =
        {j \in Index(n) : Steps(home, j, n) < Steps(home, i, n)}
  BY DEF Passed
<1> HIDE DEF home
<1>5. Passed(h, home, n) = {}
  BY <1>1, <1>2, <1>3, <1>4
<1>6. \A i, j \in Index(n) :
        i = j \/ i \in Passed(h, j, n) \/ j \in Passed(h, i, n)
  BY <1>1, <1>3, <1>4
<1>7. \A i \in Index(n) :
        Passed(h, i, n) \subseteq Index(n) /\ i \notin Passed(h, i, n)
  BY <1>1, <1>3, <1>4
<1> QED
  BY <1>5, <1>6, <1>7 DEF home

(* One turn further a probe has passed one bucket more.  When the next     *)
(* bucket is home again it has passed them all.                            *)
LEMMA PassedNext ==
  ASSUME NEW n \in BucketCounts, NEW h \in Hash, NEW i \in Index(n)
  PROVE  /\ next_bucket(i, n) # home_from_hash(h, n) =>
              Passed(h, next_bucket(i, n), n) = Passed(h, i, n) \union {i}
         /\ next_bucket(i, n) = home_from_hash(h, n) =>
              Index(n) = Passed(h, i, n) \union {i}
         /\ \A k \in Index(n) : i \in Passed(h, k, n) =>
              /\ next_bucket(i, n) # home_from_hash(h, n)
              /\ next_bucket(i, n) = k \/ next_bucket(i, n) \in Passed(h, k, n)
<1> DEFINE home == home_from_hash(h, n)
           next == next_bucket(i, n)
<1>1. n \in Nat \ {0}
  BY BucketCountsAssumption
<1>2. home \in Index(n)
  BY HomeIsABucket
<1>3. /\ \A j \in Index(n) : Steps(home, j, n) \in 0 .. n - 1
      /\ \A j, k \in Index(n) : Steps(home, j, n) = Steps(home, k, n) => j = k
      /\ next # home => Steps(home, next, n) = Steps(home, i, n) + 1
      /\ next = home => Steps(home, i, n) = n - 1
      /\ next \in Index(n)
  BY <1>1, <1>2, StepsFacts, NextIsABucket DEF Index
<1>4. \A j : Passed(h, j, n) =
        {k \in Index(n) : Steps(home, k, n) < Steps(home, j, n)}
  BY DEF Passed
<1> HIDE DEF home, next
<1>5. next # home => Passed(h, next, n) = Passed(h, i, n) \union {i}
  BY <1>1, <1>3, <1>4
<1>6. next = home => Index(n) = Passed(h, i, n) \union {i}
  BY <1>1, <1>3, <1>4
<1>7. \A k \in Index(n) : i \in Passed(h, k, n) =>
        /\ next # home
        /\ next = k \/ next \in Passed(h, k, n)
  BY <1>1, <1>3, <1>4
<1> QED
  BY <1>5, <1>6, <1>7 DEF home, next
=============================================================================
