----------------------------- MODULE Traversal -----------------------------
(***************************************************************************)
(* What a caller does with iterators of detail::hash_table while the       *)
(* container changes: a loop from begin() to end() that erases as it goes  *)
(* (erase_if), an iterator kept across other calls, the erasure of a range *)
(* and the scan of one bucket with local iterators.                        *)
(*                                                                         *)
(* A global iterator is a node, and kNullIndex for end(); a local iterator *)
(* is a position of iteration_.  Storage, aux words and iteration_ are     *)
(* those of NodeArena, in which nothing throws here.  The caller has one   *)
(* use of iterators at a time; in the others the same steps would          *)
(* interleave.                                                             *)
(***************************************************************************)
EXTENDS NodeStorage

CONSTANTS
  MaxCapacity,     \* as in NodeArena
  Buckets,         \* home buckets
  Home,            \* the home bucket of each key, until the next rehash
  EraseElsewhere   \* a loop may also erase elements it does not stand on

ASSUME TraversalAssumption ==
  /\ MaxCapacity \in Nat
  /\ 0 \in Buckets
  /\ Home \in [Key -> Buckets]
  /\ EraseElsewhere \in BOOLEAN

VARIABLES
  arena, bucket_array, handles, chunk_leaked, outcome,  \* as in NodeArena
  use,        \* "none", "loop", "hold", "range", "scan" or "keep"
  node,       \* node_index_ of the global iterator
  position,   \* position_ of the local iterator
  bucket,     \* its home_bucket_
  doomed,     \* the keys the loop's predicate is true of, or of the range
  todo,       \* the nodes erase(first, last) has listed and not yet erased
  start,      \* the keys the use began with (auxiliary)
  visited     \* the elements passed and kept (auxiliary)

unused    == <<handles, chunk_leaked>>
container == <<arena, bucket_array, unused, outcome>>
iterators == <<use, node, position, bucket, doomed, todo, start, visited>>
vars      == <<container, iterators>>

Arena == INSTANCE NodeArena
           WITH Throws <- {}, HandleThrows <- {}, HintInserts <- FALSE

iteration == arena.iteration
KeyOf(n) == arena.value[n]
Elements == Linked(arena)
Contents == {KeyOf(n) : n \in Elements}

-----------------------------------------------------------------------------
(* Iterators. *)

at_position(a, p) ==
  IF p < Len(a.iteration) THEN a.iteration[p + 1] ELSE kNullIndex

begin == at_position(arena, 0)

(* operator++: one after the node's own position. *)
increment(n) == at_position(arena, arena.aux[n] + 1)

(* Mutant: what followed the element before it was erased. *)
FollowedBefore(n) == at_position(arena, arena.aux[n] + 1)

(* The result of erase(iterator): the element that took the position. *)
after_erase(n) ==
  at_position(erase_located(arena, n), arena.aux[n])

(* Mutant: the position itself is never looked at. *)
AdvancePastFirst(n, p) ==
  CHOOSE q \in p .. Len(iteration) :
    /\ q = Len(iteration) \/ (q > p /\ Home[KeyOf(iteration[q + 1])] = n)
    /\ \A r \in p + 1 .. q - 1 : Home[KeyOf(iteration[r + 1])] # n

(* The first position from p on whose element has its home in bucket n. *)
advance_to_match(n, p) ==
  CHOOSE q \in p .. Len(iteration) :
    /\ q = Len(iteration) \/ Home[KeyOf(iteration[q + 1])] = n
    /\ \A r \in p .. q - 1 : Home[KeyOf(iteration[r + 1])] # n

-----------------------------------------------------------------------------
NotInUse ==
  /\ use = "none"
  /\ node = kNullIndex
  /\ position = 0
  /\ bucket = 0
  /\ doomed = {}
  /\ todo = << >>
  /\ start = {}
  /\ visited = {}

Init == Arena!Init /\ NotInUse

StopUse ==
  /\ use' = "none"
  /\ node' = kNullIndex
  /\ position' = 0
  /\ bucket' = 0
  /\ doomed' = {}
  /\ todo' = << >>
  /\ start' = {}
  /\ visited' = {}

(* erase_if(container, predicate), or a loop of the caller's: from begin() *)
(* to end(), going on with erase's result where the predicate holds.       *)
BeginLoop(keys) ==
  /\ use = "none"
  /\ use' = "loop"
  /\ node' = begin
  /\ doomed' = keys
  /\ start' = Contents
  /\ UNCHANGED <<container, position, bucket, todo, visited>>

InLoop == use = "loop" /\ node # kNullIndex

LoopNext ==
  /\ InLoop
  /\ KeyOf(node) \notin doomed
  /\ node' = increment(node)
  /\ visited' = visited \union {node}
  /\ UNCHANGED <<container, use, position, bucket, doomed, todo, start>>

(* Mutant: the loop does not take the iterator erase returns. *)
LoopEraseKeepsIterator ==
  /\ InLoop
  /\ KeyOf(node) \in doomed
  /\ Arena!Returns("yes", erase_located(arena, node))
  /\ UNCHANGED <<bucket_array, unused, iterators>>

LoopErase ==
  /\ InLoop
  /\ KeyOf(node) \in doomed
  /\ Arena!Returns("yes", erase_located(arena, node))
  /\ node' = after_erase(node)
  /\ UNCHANGED <<bucket_array, unused, use, position, bucket, doomed, todo,
                 start, visited>>

EndLoop ==
  /\ use = "loop"
  /\ node = kNullIndex
  /\ StopUse
  /\ UNCHANGED container

(* The caller keeps what find returned. *)
Hold(n) ==
  /\ use = "none"
  /\ use' = "hold"
  /\ node' = n
  /\ start' = {KeyOf(n)}
  /\ UNCHANGED <<container, position, bucket, doomed, todo, visited>>

EndHold == use = "hold" /\ StopUse /\ UNCHANGED container

(* erase(first, last) of count elements from a position on: the nodes are  *)
(* listed first, then erased one by one.                                   *)
BeginEraseRange(from, count) ==
  /\ use = "none"
  /\ use' = "range"
  /\ todo' = SubSeq(iteration, from + 1, from + count)
  /\ node' = at_position(arena, from + count)
  /\ start' = Contents
  /\ doomed' = {KeyOf(iteration[p]) : p \in from + 1 .. from + count}
  /\ UNCHANGED <<container, position, bucket, visited>>

(* Mutant: the loop goes on with the element that took the position. *)
EraseRangeInPlace ==
  /\ use = "range"
  /\ todo # << >>
  /\ Arena!Returns("yes", erase_located(arena, Head(todo)))
  /\ todo' = IF Len(todo) = 1 THEN << >>
             ELSE <<after_erase(Head(todo))>> \o SubSeq(todo, 3, Len(todo))
  /\ UNCHANGED <<bucket_array, unused, use, node, position, bucket, doomed,
                 start, visited>>

EraseRangeNext ==
  /\ use = "range"
  /\ todo # << >>
  /\ Arena!Returns("yes", erase_located(arena, Head(todo)))
  /\ todo' = Tail(todo)
  /\ UNCHANGED <<bucket_array, unused, use, node, position, bucket, doomed,
                 start, visited>>

(* The caller keeps the returned last, unless it is end(). *)
EndEraseRange ==
  /\ use = "range"
  /\ todo = << >>
  /\ IF node = kNullIndex
     THEN StopUse
     ELSE /\ use' = "hold"
          /\ start' = {KeyOf(node)}
          /\ doomed' = {}
          /\ UNCHANGED <<node, position, bucket, todo, visited>>
  /\ UNCHANGED container

(* begin(n), then ++ up to end(n). *)
BeginScan(n) ==
  /\ use = "none"
  /\ use' = "scan"
  /\ bucket' = n
  /\ position' = advance_to_match(n, 0)
  /\ UNCHANGED <<container, node, doomed, todo, start, visited>>

InScan == use = "scan" /\ position < Len(iteration)

ScanNext ==
  /\ InScan
  /\ visited' = visited \union {iteration[position + 1]}
  /\ position' = advance_to_match(bucket, position + 1)
  /\ UNCHANGED <<container, use, node, bucket, doomed, todo, start>>

EndScan ==
  /\ use = "scan"
  /\ position = Len(iteration)
  /\ StopUse
  /\ UNCHANGED container

(* The caller keeps a local iterator to the element at position p. *)
Keep(p) ==
  /\ use = "none"
  /\ use' = "keep"
  /\ bucket' = Home[KeyOf(iteration[p + 1])]
  /\ position' = p
  /\ start' = {KeyOf(iteration[p + 1])}
  /\ UNCHANGED <<container, node, doomed, todo, visited>>

EndKeep == use = "keep" /\ StopUse /\ UNCHANGED container

-----------------------------------------------------------------------------
(* Other calls while the caller has an iterator.  An insertion leaves      *)
(* every iterator to an element valid; a rehash gives keys new homes and   *)
(* so ends a scan; an erasure spares the element the caller stands on.     *)
Insert(k) ==
  /\ use \in {"none", "hold", "keep"} \/ InLoop \/ InScan
  /\ Arena!Emplace(k)
  /\ UNCHANGED iterators

Erase(k) ==
  /\ \/ use = "none"
     \/ use \in {"hold", "keep"} /\ k \notin start
     \/ EraseElsewhere /\ InLoop /\ k # KeyOf(node)
  /\ Arena!Erase(k)
  /\ visited' = visited \intersect Linked(arena')
  /\ UNCHANGED <<use, node, position, bucket, doomed, todo, start>>

Rehash ==
  /\ use \in {"none", "hold", "loop"}
  /\ Arena!Rehash
  /\ UNCHANGED iterators

Clear == use = "none" /\ Arena!Clear /\ UNCHANGED iterators

Next ==
  \/ \E keys \in SUBSET Key : BeginLoop(keys)
  \/ LoopNext
  \/ LoopErase
  \/ EndLoop
  \/ \E n \in Elements : Hold(n)
  \/ EndHold
  \/ \E from \in 0 .. Len(iteration), count \in 1 .. Len(iteration) :
       from + count <= Len(iteration) /\ BeginEraseRange(from, count)
  \/ EraseRangeNext
  \/ EndEraseRange
  \/ \E n \in Buckets : BeginScan(n)
  \/ ScanNext
  \/ EndScan
  \/ \E p \in 0 .. Len(iteration) - 1 : Keep(p)
  \/ EndKeep
  \/ \E k \in Key : Insert(k)
  \/ \E k \in Key : Erase(k)
  \/ Rehash
  \/ Clear

Spec == Init /\ [][Next]_vars

-----------------------------------------------------------------------------
(* Properties *)

(* A global iterator in use never dangles: it names an element or end().   *)
(* Nor does the local iterator of a scan pass the end; one that is kept    *)
(* while other elements are erased may (KeptLocalDenotes).                 *)
TypeOK ==
  /\ use \in {"none", "loop", "hold", "range", "scan", "keep"}
  /\ node \in Elements \union {kNullIndex}
  /\ position \in IF use = "keep" THEN Nat ELSE 0 .. Len(iteration)
  /\ bucket \in Buckets
  /\ doomed \subseteq Key
  /\ todo \in Seq(Elements)
  /\ start \subseteq Key
  /\ visited \subseteq Elements

(* The elements from the loop's iterator on. *)
Ahead ==
  IF node = kNullIndex
  THEN {}
  ELSE {iteration[p] : p \in arena.aux[node] + 1 .. Len(iteration)}

(* Whatever the loop erases through its iterator, and although the last    *)
(* element takes the erased one's position, the loop has passed exactly    *)
(* the elements behind it: none is skipped, none comes round again         *)
(* (erase(iterator), operator++).  COMPATIBILITY.md:3-5 promises the same, *)
(* as [unord.req] does, when other elements are erased on the way.         *)
LoopPassesEachOnce == use = "loop" => Elements \ Ahead = visited

(* At its end erase_if has removed every element its predicate is true of, *)
(* those inserted on the way included, and none of the others.             *)
EraseIfRemovesExactly ==
  use = "loop" /\ node = kNullIndex =>
    /\ Contents \intersect doomed = {}
    /\ start \ doomed \subseteq Contents

(* COMPATIBILITY.md:11-16: an iterator kept across insertions, rehashes    *)
(* and erasures of other elements, or returned by the erasure of a range,  *)
(* still denotes its element; the code keeps it valid across a rehash too. *)
HeldIteratorDenotes ==
  use = "hold" => node \in Elements /\ start = {KeyOf(node)}

(* COMPATIBILITY.md:68-69: the local iterators of a bucket visit exactly   *)
(* the elements whose home it is.                                          *)
ScanVisitsBucket ==
  use = "scan" =>
    visited = {n \in {iteration[p] : p \in 1 .. position} :
                 Home[KeyOf(n)] = bucket}

(* COMPATIBILITY.md:16: erase invalidates only the erased element's        *)
(* iterators.  A local iterator is a position (position_), so one that is  *)
(* kept at the last element is lost when another element is erased, whose  *)
(* place the last one takes.                                               *)
KeptLocalDenotes ==
  use = "keep" =>
    position < Len(iteration) /\ start = {KeyOf(iteration[position + 1])}

(* erase(first, last) erases the elements that were between the two when   *)
(* it was called, although each erasure moves another element into the     *)
(* range.                                                                  *)
RangeErasedExactly ==
  use = "range" /\ todo = << >> => Contents = start \ doomed
=============================================================================
