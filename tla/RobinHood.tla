------------------------------ MODULE RobinHood ------------------------------
(***************************************************************************)
(* The index table of detail::hash_table: open addressing with Robin Hood  *)
(* displacement and backward-shift deletion, one action per turn of each   *)
(* loop of the code.  The container is single threaded, so only one call   *)
(* is in progress; pc says in which loop it is.                            *)
(*                                                                         *)
(* Abstractions.  A bucket names the key of the element it points to in    *)
(* place of the node index (an element has one node, see NodeArena).  A    *)
(* hash is a number below HashSpace, where the code has 2^64; its low 8    *)
(* bits are the fingerprint as in the code, its high bits the home bucket. *)
(* The order in which rehash_to visits iteration_ is left open.            *)
(***************************************************************************)
EXTENDS Probing, FiniteSets

CONSTANTS
  Key,             \* keys the caller may use
  NoKey,           \* not a key: an empty bucket, an argument that is absent
  Hashes,          \* the hash values the keys of an instance may have
  MaxLoadFactors,  \* the values max_load_factor(z) is called with, hundredths;
                   \* 0 stands for every value that is not positive
  Requests         \* the arguments rehash(n) and reserve(n) are called with

ASSUME KeyAssumption == IsFiniteSet(Key) /\ NoKey \notin Key

ASSUME HashAssumption == Hashes \subseteq Hash

ASSUME ArgumentAssumption ==
  /\ MaxLoadFactors \subseteq Nat
  /\ Requests \subseteq Nat

VARIABLES
  hash,               \* mixed_hash of each key: fixed for the table's life
  buckets,            \* 0 .. bucket_count - 1 -> [daf, node]
  bucket_count,
  max_load_capacity,
  max_load_factor,
  live,               \* keys of the elements in iteration_
  pc,                 \* the loop the call in progress is in, "idle" if none
  op,                 \* the call in progress
  key,                \* its argument
  carried,            \* the key a loop probes for or carries
  daf,                \* the local dist_and_fingerprint
  bucket_index,       \* the local bucket_index
  todo,               \* elements rehash_to has still to place
  result              \* what the last lookup, insert or erase answered

table  == <<buckets, bucket_count, max_load_capacity, max_load_factor>>
locals == <<carried, daf, bucket_index>>
vars   == <<hash, table, live, pc, op, key, locals, todo, result>>

-----------------------------------------------------------------------------
kDefaultMaxLoadFactor == 80

EmptyBucket == [daf |-> 0, node |-> NoKey]

(* allocate_buckets and clear() zero the whole array. *)
EmptyBuckets(count) == [i \in Index(count) |-> EmptyBucket]

Init ==
  /\ hash \in [Key -> Hashes]
  /\ buckets = EmptyBuckets(0)
  /\ bucket_count = 0
  /\ max_load_capacity = 0
  /\ max_load_factor = kDefaultMaxLoadFactor
  /\ live = {}
  /\ pc = "idle"
  /\ op = "none"
  /\ key = NoKey
  /\ carried = NoKey
  /\ daf = 0
  /\ bucket_index = 0
  /\ todo = {}
  /\ result = FALSE

StartProbe(k) ==
  /\ carried' = k
  /\ daf' = dist_and_fingerprint_from_hash(hash[k])
  /\ bucket_index' = home_from_hash(hash[k], bucket_count)

Advance ==
  /\ daf' = daf + kDistInc
  /\ bucket_index' = next_bucket(bucket_index, bucket_count)

ForgetLocals == carried' = NoKey /\ daf' = 0 /\ bucket_index' = 0

Return ==
  /\ pc' = "idle"
  /\ op' = "none"
  /\ key' = NoKey
  /\ ForgetLocals

Answer(r) == Return /\ result' = r

-----------------------------------------------------------------------------
(* find_bucket, the first loop of every lookup, insertion and erasure. *)

Call(o, k) ==
  /\ pc = "idle"
  /\ pc' = "find"
  /\ op' = o
  /\ key' = k
  /\ StartProbe(k)
  /\ UNCHANGED <<hash, table, live, todo, result>>

AtKey ==
  /\ daf = buckets[bucket_index].daf
  /\ carried = buckets[bucket_index].node

(* Mutant: a tie of distance and fingerprint already ends the search. *)
OutProbedOnTie == daf >= buckets[bucket_index].daf /\ ~AtKey

(* "Out-probed the resident: not present." *)
OutProbed == daf > buckets[bucket_index].daf

(* The loop stops on the key... *)
FindHit ==
  /\ pc = "find"
  /\ bucket_count # 0
  /\ AtKey
  /\ \/ /\ op = "erase"
        /\ pc' = "shift"
        /\ carried' = NoKey
        /\ daf' = 0
        /\ UNCHANGED <<op, key, bucket_index, result>>
     \/ /\ op # "erase"
        /\ Answer(op = "lookup")
  /\ UNCHANGED <<hash, table, live, todo>>

(* ... or on a resident closer to its home than the key would be here. *)
FindMiss ==
  /\ pc = "find"
  /\ bucket_count # 0 => OutProbed
  /\ \/ /\ op = "insert"
        /\ pc' = "reserve"
        /\ ForgetLocals
        /\ UNCHANGED <<op, key, result>>
     \/ /\ op # "insert"
        /\ Answer(FALSE)
  /\ UNCHANGED <<hash, table, live, todo>>

FindNext ==
  /\ pc = "find"
  /\ bucket_count # 0
  /\ ~AtKey
  /\ ~OutProbed
  /\ Advance
  /\ UNCHANGED <<hash, table, live, pc, op, key, carried, todo, result>>

-----------------------------------------------------------------------------
(* rehash_to: a fresh bucket array, then every live element placed again. *)

rehash_to(new_bucket_count) ==
  /\ buckets' = EmptyBuckets(new_bucket_count)
  /\ bucket_count' = new_bucket_count
  /\ max_load_capacity' =
       compute_load_capacity(new_bucket_count, max_load_factor)
  /\ todo' = live
  /\ pc' = "rehash"
  /\ ForgetLocals
  /\ UNCHANGED <<hash, max_load_factor, live, result>>

RehashNext ==
  /\ pc = "rehash"
  /\ \E k \in todo : todo' = todo \ {k} /\ StartProbe(k)
  /\ pc' = "replace"
  /\ UNCHANGED <<hash, table, live, op, key, result>>

(* link_into_iteration, then insert_known_absent. *)
LinkAndProbe ==
  /\ live' = live \union {key}
  /\ StartProbe(key)
  /\ pc' = "probe"
  /\ UNCHANGED <<hash, table, op, key, todo, result>>

RehashDone ==
  /\ pc = "rehash"
  /\ todo = {}
  /\ \/ op = "insert" /\ LinkAndProbe
     \/ op = "rehash" /\ Return /\ UNCHANGED <<hash, table, live, todo, result>>

-----------------------------------------------------------------------------
(* Insertion: reserve_for_one_more, probe_start, place_and_shift_up. *)

MustGrow == Cardinality(live) + 1 > max_load_capacity

(* The first insertion allocates; a full table doubles, once. *)
ReserveGrow ==
  /\ pc = "reserve"
  /\ \/ bucket_count = 0 /\ rehash_to(kInitialBucketCount)
     \/ /\ bucket_count # 0
        /\ MustGrow
        /\ bucket_count * 2 \in BucketCounts
        /\ rehash_to(bucket_count * 2)
  /\ UNCHANGED <<op, key>>

ReserveRoom ==
  /\ pc = "reserve"
  /\ bucket_count # 0
  /\ ~MustGrow
  /\ LinkAndProbe

ProbeNext ==
  /\ pc = "probe"
  /\ daf < buckets[bucket_index].daf
  /\ Advance
  /\ UNCHANGED <<hash, table, live, pc, op, key, carried, todo, result>>

ProbeStop ==
  /\ pc = "probe"
  /\ daf >= buckets[bucket_index].daf
  /\ pc' = "place"
  /\ UNCHANGED <<hash, table, live, op, key, locals, todo, result>>

Placing == pc \in {"place", "replace"}

(* The carried element takes the bucket of a richer resident... *)
PlaceSwap ==
  /\ Placing
  /\ buckets[bucket_index].daf # 0
  /\ daf > buckets[bucket_index].daf
  /\ buckets' =
       [buckets EXCEPT ![bucket_index] = [daf |-> daf, node |-> carried]]
  /\ carried' = buckets[bucket_index].node
  /\ daf' = buckets[bucket_index].daf + kDistInc
  /\ bucket_index' = next_bucket(bucket_index, bucket_count)
  /\ UNCHANGED <<hash, bucket_count, max_load_capacity, max_load_factor,
                 live, pc, op, key, todo, result>>

(* ... passes a poorer one... *)
PlaceNext ==
  /\ Placing
  /\ buckets[bucket_index].daf # 0
  /\ daf <= buckets[bucket_index].daf
  /\ Advance
  /\ UNCHANGED <<hash, table, live, pc, op, key, carried, todo, result>>

(* ... and settles in the first empty bucket. *)
PlaceDone ==
  /\ Placing
  /\ buckets[bucket_index].daf = 0
  /\ buckets' =
       [buckets EXCEPT ![bucket_index] = [daf |-> daf, node |-> carried]]
  /\ \/ pc = "place" /\ Answer(TRUE)
     \/ /\ pc = "replace"
        /\ pc' = "rehash"
        /\ ForgetLocals
        /\ UNCHANGED <<op, key, result>>
  /\ UNCHANGED <<hash, bucket_count, max_load_capacity, max_load_factor,
                 live, todo>>

-----------------------------------------------------------------------------
(* Erasure: erase_bucket pulls the displaced followers one slot back. *)

(* Mutant: an occupant in its home bucket is pulled back too. *)
DisplacedEvenAtHome(bucket) == bucket.daf >= kDistInc

(* Only an element that is not at home moves back. *)
Displaced(bucket) == bucket.daf >= 2 * kDistInc

(* Mutant: the loop moves an occupant without advancing. *)
ShiftNextInPlace ==
  LET next == buckets[next_bucket(bucket_index, bucket_count)]
  IN  /\ pc = "shift"
      /\ Displaced(next)
      /\ buckets' = [buckets EXCEPT ![bucket_index] =
                       [daf |-> next.daf - kDistInc, node |-> next.node]]
      /\ UNCHANGED <<hash, bucket_count, max_load_capacity, max_load_factor,
                     live, pc, op, key, locals, todo, result>>

ShiftNext ==
  LET next == buckets[next_bucket(bucket_index, bucket_count)]
  IN  /\ pc = "shift"
      /\ Displaced(next)
      /\ buckets' = [buckets EXCEPT ![bucket_index] =
                       [daf |-> next.daf - kDistInc, node |-> next.node]]
      /\ bucket_index' = next_bucket(bucket_index, bucket_count)
      /\ UNCHANGED <<hash, bucket_count, max_load_capacity, max_load_factor,
                     live, pc, op, key, carried, daf, todo, result>>

(* The rest of erase_located takes the element out of iteration_. *)
ShiftDone ==
  /\ pc = "shift"
  /\ ~Displaced(buckets[next_bucket(bucket_index, bucket_count)])
  /\ buckets' = [buckets EXCEPT ![bucket_index] = EmptyBucket]
  /\ live' = live \ {key}
  /\ Answer(TRUE)
  /\ UNCHANGED <<hash, bucket_count, max_load_capacity, max_load_factor, todo>>

-----------------------------------------------------------------------------
(* The hash policy and clear(). *)

Rehash(requested) ==
  LET size   == Cardinality(live)
      target == rehash_target(requested, size, max_load_factor)
  IN  /\ pc = "idle"
      /\ Allocatable(buckets_needed(size, max_load_factor))
      /\ target # 0
      /\ Allocatable(target)
      /\ rehash_to(round_up_to_power_of_two(target))
      /\ op' = "rehash"
      /\ UNCHANGED key

(* Mutant: the freed array keeps its bucket count. *)
RehashToNothingKeepsCount ==
  /\ pc = "idle"
  /\ live = {}
  /\ bucket_count # 0
  /\ buckets' = EmptyBuckets(0)
  /\ UNCHANGED <<hash, bucket_count, max_load_capacity, max_load_factor, live,
                 pc, op, key, locals, todo, result>>

(* rehash(0) gives the bucket array of an empty table back. *)
RehashToNothing ==
  /\ pc = "idle"
  /\ live = {}
  /\ bucket_count # 0
  /\ buckets' = EmptyBuckets(0)
  /\ bucket_count' = 0
  /\ max_load_capacity' = 0
  /\ UNCHANGED <<hash, max_load_factor, live, pc, op, key, locals, todo, result>>

Reserve(element_count) ==
  /\ Allocatable(buckets_needed(element_count, max_load_factor))
  /\ Rehash(bucket_count_for_elements(element_count, max_load_factor))

SetMaxLoadFactor(z) ==
  /\ pc = "idle"
  /\ max_load_factor' = IF z > 0 THEN z ELSE kDefaultMaxLoadFactor
  /\ max_load_capacity' =
       IF bucket_count = 0
       THEN max_load_capacity
       ELSE compute_load_capacity(bucket_count, max_load_factor')
  /\ UNCHANGED <<hash, buckets, bucket_count, live, pc, op, key, locals, todo,
                 result>>

(* Mutant: the buckets are not zeroed. *)
ClearKeepsBuckets ==
  /\ pc = "idle"
  /\ live' = {}
  /\ UNCHANGED <<hash, table, pc, op, key, locals, todo, result>>

Clear ==
  /\ pc = "idle"
  /\ buckets' = EmptyBuckets(bucket_count)
  /\ live' = {}
  /\ UNCHANGED <<hash, bucket_count, max_load_capacity, max_load_factor, pc, op,
                 key, locals, todo, result>>

-----------------------------------------------------------------------------
(* A turn of the loop in progress, and the calls that may start. *)

Turn ==
  \/ FindHit    \/ FindMiss    \/ FindNext
  \/ ReserveGrow \/ ReserveRoom
  \/ RehashNext \/ RehashDone
  \/ ProbeNext  \/ ProbeStop
  \/ PlaceSwap  \/ PlaceNext   \/ PlaceDone
  \/ ShiftNext  \/ ShiftDone

Start ==
  \/ \E o \in {"lookup", "insert", "erase"}, k \in Key : Call(o, k)
  \/ \E n \in Requests : Rehash(n) \/ Reserve(n)
  \/ RehashToNothing
  \/ \E z \in MaxLoadFactors : SetMaxLoadFactor(z)
  \/ Clear

Next == Turn \/ Start

Spec == Init /\ [][Next]_vars

(* The calling thread keeps running the loop it is in. *)
FairSpec == Spec /\ WF_vars(Turn)

-----------------------------------------------------------------------------
(* Vocabulary of the properties. *)

(* erase_bucket is about to overwrite the bucket it stands on. *)
Vacated(i) == pc = "shift" /\ i = bucket_index

Occupied(i) == buckets[i].daf # 0 /\ ~Vacated(i)

PcValues == {"idle", "find", "reserve", "rehash", "replace", "probe", "place",
             "shift"}

(* The elements that are linked into iteration_ and not yet in the index.  *)
Unplaced ==
  CASE pc = "rehash"             -> todo
    [] pc = "replace"            -> todo \union {carried}
    [] pc \in {"probe", "place"} -> {carried}
    [] OTHER                     -> {}

-----------------------------------------------------------------------------
(* Every variable keeps its type, and the locals name real buckets and     *)
(* keys exactly while a loop uses them.                                    *)
TypeOK ==
  /\ hash \in [Key -> Hashes]
  /\ bucket_count \in BucketCounts \union {0}
  /\ buckets \in [Index(bucket_count) -> [daf : Nat, node : Key \union {NoKey}]]
  /\ max_load_capacity \in Nat
  /\ max_load_factor \in Nat \ {0}
  /\ live \subseteq Key
  /\ todo \subseteq live
  /\ pc \in PcValues
  /\ op \in {"none", "lookup", "insert", "erase", "rehash"}
  /\ key \in Key \union {NoKey}
  /\ carried \in Key \union {NoKey}
  /\ daf \in Nat
  /\ bucket_index \in Nat
  /\ result \in BOOLEAN

(* Between two calls a probe for any element reaches its bucket: every     *)
(* bucket on the way holds an element at least as far from home, so        *)
(* find_bucket does not give up before (hash_table.hpp, "out-probed the    *)
(* resident: not present").                                                *)
EveryLiveKeyFindable ==
  pc = "idle" =>
    \A k \in live : \E i \in Index(bucket_count) :
      /\ buckets[i] = [daf |-> DafAt(hash[k], i, bucket_count), node |-> k]
      /\ \A j \in Passed(hash[k], i, bucket_count) :
           buckets[j].daf >= DafAt(hash[k], j, bucket_count)

(* No loop comes round to the bucket it started from, so the distance half *)
(* of dist_and_fingerprint stays within bucket_count.                      *)
ProbeDistanceBounded ==
  /\ \A i \in Index(bucket_count) : buckets[i].daf <= MaxDaf(bucket_count)
  /\ bucket_count # 0 => daf <= MaxDaf(bucket_count)

(* "The table still guarantees at least one empty bucket"                  *)
(* (docs/COMPATIBILITY.md): what makes every loop above stop.              *)
EmptyBucketRemains ==
  pc = "idle" /\ bucket_count # 0 =>
    \E i \in Index(bucket_count) : buckets[i].daf = 0

(* A call in progress returns. *)
CallsReturn == pc # "idle" ~> pc = "idle"

(* The index implements a set of keys.  An insertion takes effect when the *)
(* element reaches its bucket, an erasure when the element is unlinked.    *)
Contents == IF pc \in {"probe", "place"} THEN live \ {key} ELSE live

Abstract == INSTANCE KeySet WITH contents <- Contents

ImplementsKeySet == Abstract!Spec

-----------------------------------------------------------------------------
(* The inductive invariant, in parts. *)

(* Which locals go with which loop. *)
ControlOK ==
  /\ max_load_factor <= 100
  /\ pc = "idle" => op = "none" /\ key = NoKey
  /\ pc \in {"find", "reserve", "probe", "place", "shift"} => key \in Key
  /\ pc \notin {"find", "probe", "place", "replace"} => daf = 0
  /\ pc = "find" => op \in {"lookup", "insert", "erase"} /\ carried = key
  /\ pc = "reserve" => op = "insert" /\ key \notin live
  /\ pc \in {"rehash", "replace"} =>
       \/ op = "rehash"
       \/ op = "insert" /\ key \in Key /\ key \notin live
  /\ pc = "probe" => carried = key
  /\ pc \in {"probe", "place"} => op = "insert" /\ key \in live
  /\ pc \notin {"rehash", "replace"} => todo = {}
  /\ pc = "replace" => carried \notin todo
  /\ pc \in {"replace", "place"} => carried \in live
  /\ pc = "shift" => op = "erase" /\ key \in live
  /\ pc \notin {"idle", "find", "reserve"} => bucket_count # 0
  /\ bucket_count # 0 => bucket_index \in Index(bucket_count)

(* There is always an empty bucket to find. *)
Room ==
  /\ bucket_count = 0 => live = {} /\ max_load_capacity = 0
  /\ bucket_count # 0 =>
       Cardinality(live) < bucket_count /\ max_load_capacity < bucket_count
  /\ pc \in {"rehash", "replace"} /\ op = "insert" =>
       Cardinality(live) + 1 < bucket_count

(* A resident's dist_and_fingerprint says how far from home it sits. *)
Placed ==
  \A i \in Index(bucket_count) : Occupied(i) =>
    /\ buckets[i].node \in live
    /\ buckets[i].daf = DafAt(hash[buckets[i].node], i, bucket_count)

(* No element sits in two buckets, nor in a bucket while it is unplaced. *)
Unique ==
  /\ \A i, j \in Index(bucket_count) :
       Occupied(i) /\ Occupied(j) /\ buckets[i].node = buckets[j].node => i = j
  /\ \A i \in Index(bucket_count) : Occupied(i) =>
       /\ buckets[i].node \notin Unplaced
       /\ pc = "shift" => buckets[i].node # key

(* Every other element sits in one. *)
Complete ==
  \A k \in live \ Unplaced :
    \/ pc = "shift" /\ k = key
    \/ \E i \in Index(bucket_count) : Occupied(i) /\ buckets[i].node = k

(* The Robin Hood order: the buckets between a resident and its home hold  *)
(* elements at least as far from theirs.                                   *)
RobinHoodOrder ==
  \A i \in Index(bucket_count) : Occupied(i) =>
    \A j \in Passed(hash[buckets[i].node], i, bucket_count) :
      buckets[j].daf >= DafAt(hash[buckets[i].node], j, bucket_count)

(* The same for the key a loop carries, up to the bucket it has reached. *)
ProbeOrder ==
  pc \in {"find", "probe", "place", "replace"} /\ bucket_count # 0 =>
    /\ daf = DafAt(hash[carried], bucket_index, bucket_count)
    /\ \A j \in Passed(hash[carried], bucket_index, bucket_count) :
         /\ buckets[j].daf >= DafAt(hash[carried], j, bucket_count)
         /\ pc = "find" => buckets[j].node # carried

(* The hole erase_bucket moves along is an element's old bucket. *)
HoleOK ==
  pc = "shift" =>
    /\ buckets[bucket_index].daf # 0
    /\ buckets[bucket_index].daf <= MaxDaf(bucket_count)

IInv ==
  /\ TypeOK
  /\ ControlOK
  /\ Room
  /\ Placed
  /\ Unique
  /\ Complete
  /\ RobinHoodOrder
  /\ ProbeOrder
  /\ HoleOK
=============================================================================
