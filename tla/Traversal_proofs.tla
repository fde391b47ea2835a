-------------------------- MODULE Traversal_proofs --------------------------
(***************************************************************************)
(* What a caller may rely on while iterators are in use, for any number of *)
(* keys, nodes and buckets.                                                *)
(*                                                                         *)
(* The argument rests on what each call does to iteration_: an insertion   *)
(* appends to it, a rehash leaves it alone, and an erasure puts the last   *)
(* element where the erased one was.                                       *)
(***************************************************************************)
EXTENDS Traversal, NodeStorage_proofs, WellFoundedInduction

(* The elements before the one the loop stands on. *)
Passed(a, n) ==
  {a.iteration[p] :
     p \in 1 .. IF n = kNullIndex THEN Len(a.iteration) ELSE a.aux[n]}

KeysOf(nodes) == {KeyOf(n) : n \in nodes}
ToErase == {todo[i] : i \in 1 .. Len(todo)}

(* What is not in use is as it was at first. *)
AtRest ==
  /\ use \in {"none", "scan", "keep"} => node = kNullIndex
  /\ use \notin {"scan", "keep"} => position = 0
  /\ use # "range" => todo = << >>
  /\ use \notin {"loop", "scan"} => visited = {}

LoopInv ==
  use = "loop" =>
    /\ \A n \in visited : KeyOf(n) \notin doomed
    /\ ~EraseElsewhere => /\ visited = Passed(arena, node)
                          /\ start \ doomed \subseteq Contents

(* What is listed and not yet erased is the part of the range still there. *)
RangeInv ==
  use = "range" =>
    /\ Injective(todo)
    /\ node \notin ToErase
    /\ KeysOf(ToErase) \subseteq doomed
    /\ Contents = (start \ doomed) \union KeysOf(ToErase)

ScanInv ==
  use = "scan" /\ position < Len(iteration) =>
    Home[KeyOf(iteration[position + 1])] = bucket

IInv ==
  /\ Settled(arena)
  /\ TypeOK
  /\ AtRest
  /\ LoopInv
  /\ RangeInv
  /\ ScanInv
  /\ ScanVisitsBucket
  /\ HeldIteratorDenotes

-----------------------------------------------------------------------------
(* The storage module and the one inside NodeArena are the same. *)
LEMMA ArenaOperators ==
  /\ Arena!EmptyArena = EmptyArena
  /\ \A a : /\ Arena!Linked(a) = Linked(a)
            /\ Arena!next_node(a) = next_node(a)
            /\ Arena!acquire_node(a) = acquire_node(a)
            /\ Arena!rehash_to(a) = rehash_to(a)
            /\ Arena!clear(a) = clear(a)
  /\ \A a, n : /\ Arena!release_node(a, n) = release_node(a, n)
               /\ Arena!discard_node(a, n) = discard_node(a, n)
               /\ Arena!erase_located(a, n) = erase_located(a, n)
               /\ Arena!link_into_iteration(a, n) = link_into_iteration(a, n)
               /\ Arena!insert_known_absent(a, n) = insert_known_absent(a, n)
  /\ \A a, n, k : Arena!construct_value(a, n, k) = construct_value(a, n, k)
<1>1. Arena!EmptyArena = EmptyArena
  BY DEF Arena!EmptyArena, EmptyArena
<1>2. \A a : Arena!Linked(a) = Linked(a)
  BY DEF Arena!Linked, Linked
<1>3. \A a : Arena!next_node(a) = next_node(a)
  BY DEF Arena!next_node, next_node
<1>4. \A a : Arena!ensure_arena_slot(a) = ensure_arena_slot(a)
  BY DEF Arena!ensure_arena_slot, ensure_arena_slot, Arena!NeedsChunk, NeedsChunk
<1>5. \A s : Arena!pop_back(s) = pop_back(s)
  BY DEF Arena!pop_back, pop_back
<1>6. \A a : Arena!acquire_node(a) = acquire_node(a)
  BY <1>4, <1>5 DEF Arena!acquire_node, acquire_node
<1>7. \A a : Arena!rehash_to(a) = rehash_to(a)
  BY <1>2 DEF Arena!rehash_to, rehash_to
<1>8. \A a : Arena!clear(a) = clear(a)
  BY <1>2 DEF Arena!clear, clear
<1>9. \A a, n : /\ Arena!release_node(a, n) = release_node(a, n)
                /\ Arena!destroy_value(a, n) = destroy_value(a, n)
                /\ Arena!link_into_iteration(a, n) = link_into_iteration(a, n)
                /\ Arena!insert_known_absent(a, n) = insert_known_absent(a, n)
  BY DEF Arena!release_node, release_node, Arena!destroy_value, destroy_value,
         Arena!link_into_iteration, link_into_iteration,
         Arena!insert_known_absent, insert_known_absent
<1>10. \A a, n : Arena!unlink_from_iteration(a, n) = unlink_from_iteration(a, n)
  BY <1>5 DEF Arena!unlink_from_iteration, unlink_from_iteration
<1>11. \A a, n : /\ Arena!discard_node(a, n) = discard_node(a, n)
                 /\ Arena!erase_located(a, n) = erase_located(a, n)
  BY <1>9, <1>10 DEF Arena!discard_node, discard_node, Arena!erase_located,
                     erase_located
<1>12. \A a, n, k : Arena!construct_value(a, n, k) = construct_value(a, n, k)
  BY DEF Arena!construct_value, construct_value
<1> QED
  BY <1>1, <1>2, <1>3, <1>6, <1>7, <1>8, <1>9, <1>11, <1>12

-----------------------------------------------------------------------------
(* What the calls of NodeArena do to iteration_. *)

(* Nothing but more elements at the end. *)
Grown(a, b) ==
  /\ Settled(b)
  /\ Len(b.iteration) >= Len(a.iteration)
  /\ \A p \in 1 .. Len(a.iteration) : b.iteration[p] = a.iteration[p]
  /\ Linked(a) \subseteq Linked(b)
  /\ \A n \in Linked(a) : b.value[n] = a.value[n]

LEMMA SameIsGrown ==
  ASSUME NEW a, Settled(a), NEW b, Sound(b), SameElements(a, b),
         b.iteration = a.iteration
  PROVE  Grown(a, b)
<1>1. Settled(b) /\ Len(a.iteration) \in Nat
  BY SameIsSettled, SoundElements DEF Settled
<1> QED
  BY <1>1 DEF Grown, SameElements

LEMMA MoreIsGrown ==
  ASSUME NEW a, Settled(a), NEW b, Sound(b), NEW n, NEW k, k \notin Stored(a),
         WithElement(a, b, n, k)
  PROVE  Grown(a, b)
<1>1. Settled(b)
  BY MoreIsSettled
<1>2. a.iteration \in Seq(Linked(b)) /\ n \in Linked(b) /\ Len(a.iteration) \in Nat
  <2>1. /\ a.iteration \in Seq(Linked(a))
        /\ Linked(a) \subseteq Linked(b)
        /\ n \in Linked(b)
        /\ Len(a.iteration) \in Nat
    BY SoundElements DEF WithElement, Settled
  <2> QED
    BY <2>1
<1>3. /\ Len(b.iteration) = Len(a.iteration) + 1
      /\ \A p \in 1 .. Len(a.iteration) : b.iteration[p] = a.iteration[p]
  BY <1>2, AppendProperties DEF WithElement
<1> QED
  BY <1>1, <1>2, <1>3 DEF Grown, WithElement

LEMMA Inserting ==
  ASSUME Settled(arena), NEW k \in Key, Arena!Emplace(k)
  PROVE  Grown(arena, arena')
<1> DEFINE n == next_node(arena)
           b == construct_value(acquire_node(arena), n, k)
<1>1. Arena!Found(k) <=> k \in Stored(arena)
  BY DEF Arena!Found, Settled, Sound, Stored
<1>0. n = next_node(arena) /\ b = construct_value(acquire_node(arena), n, k)
  OBVIOUS
<1>2. \/ arena' = discard_node(b, n)
      \/ /\ k \notin Stored(arena)
         /\ \E c \in {b, rehash_to(b)} :
              arena' = insert_known_absent(link_into_iteration(c, n), n)
  BY <1>1, ArenaOperators DEF Arena!Emplace, Arena!AcquireThrows, Arena!ThrowsAt,
       Arena!Returns, Arena!InsertNode
<1> HIDE DEF n, b
<1>3. CASE arena' = discard_node(b, n)
  <2>1. PICK c \in {b, rehash_to(b)} : arena' = discard_node(c, n)
    BY <1>3
  <2>2. /\ Sound(discard_node(c, n))
        /\ SameElements(arena, discard_node(c, n))
        /\ discard_node(c, n).iteration = arena.iteration
    BY <1>0, InsertionUndone DEF Settled
  <2> QED
    BY <2>1, <2>2, SameIsGrown
<1>4. CASE /\ k \notin Stored(arena)
           /\ \E c \in {b, rehash_to(b)} :
                arena' = insert_known_absent(link_into_iteration(c, n), n)
  <2>1. PICK c \in {b, rehash_to(b)} :
          arena' = insert_known_absent(link_into_iteration(c, n), n)
    BY <1>4
  <2>2. Sound(arena') /\ WithElement(arena, arena', n, k)
    BY <1>0, <2>1, InsertionDone DEF Settled
  <2> QED
    BY <1>4, <2>1, <2>2, MoreIsGrown
<1> QED
  BY <1>2, <1>3, <1>4

LEMMA Rehashing ==
  ASSUME Settled(arena), Arena!Rehash
  PROVE  Grown(arena, arena') /\ arena'.iteration = arena.iteration
<1>1. arena' = rehash_to(arena) \/ arena' = arena
  BY ArenaOperators DEF Arena!Rehash, Arena!Returns, Arena!ThrowsAt
<1>2. CASE arena' = rehash_to(arena)
  BY <1>2, SoundRehashed, SameIsGrown DEF Settled
<1>3. CASE arena' = arena
  <2>1. Sound(arena') /\ SameElements(arena, arena')
    BY <1>3 DEF Settled, SameElements
  <2> QED
    BY <1>3, <2>1, SameIsGrown
<1> QED
  BY <1>1, <1>2, <1>3

(* erase(iterator) and erase(key). *)
Gone(a, b, n) ==
  /\ Settled(b)
  /\ WithoutElement(a, b, n)
  /\ Stored(b) = Stored(a) \ {a.value[n]}

LEMMA Erasing ==
  ASSUME Settled(arena)
  PROVE  /\ \A n \in Elements : Gone(arena, erase_located(arena, n), n)
         /\ \A k : Arena!Erase(k) =>
              \/ arena' = arena
              \/ \E n \in Elements : KeyOf(n) = k /\ Gone(arena, arena', n)
<1>1. ASSUME NEW n \in Elements
      PROVE  Gone(arena, erase_located(arena, n), n)
  <2>1. n \in Linked(arena)
    BY DEF Elements
  <2>2. /\ Sound(erase_located(arena, n))
        /\ WithoutElement(arena, erase_located(arena, n), n)
    BY <2>1, SoundErased DEF Settled
  <2> QED
    BY <2>1, <2>2, LessIsSettled DEF Gone
<1>2. ASSUME NEW k, Arena!Erase(k), arena' # arena
      PROVE  \E n \in Elements : KeyOf(n) = k /\ Gone(arena, arena', n)
  <2> DEFINE n == Arena!NodeOf(k)
  <2>1. Arena!Found(k) /\ arena' = erase_located(arena, n)
    BY <1>2, ArenaOperators DEF Arena!Erase, Arena!Returns, Arena!ThrowsAt
  <2>2. n \in arena.indexed /\ arena.value[n] = k
    BY <2>1 DEF Arena!Found, Arena!NodeOf
  <2>3. n \in Elements /\ KeyOf(n) = k
    BY <2>2 DEF Settled, Sound, Elements, KeyOf
  <2> HIDE DEF n
  <2> QED
    BY <1>1, <2>1, <2>3
<1> QED
  BY <1>1, <1>2
-----------------------------------------------------------------------------
(* Positions. *)

LEMMA Positions ==
  ASSUME NEW a, Settled(a)
  PROVE  /\ Len(a.iteration) \in Nat
         /\ a.iteration \in Seq(Linked(a))
         /\ \A n \in Linked(a) : n \in Nat /\ n # kNullIndex /\ a.value[n] \in Key
         /\ \A p \in 1 .. Len(a.iteration) :
              a.iteration[p] \in Linked(a) /\ a.aux[a.iteration[p]] = p - 1
         /\ \A n \in Linked(a) : /\ a.aux[n] \in 0 .. Len(a.iteration) - 1
                                 /\ a.iteration[a.aux[n] + 1] = n
         /\ Injective(a.iteration)
<1>1. /\ Len(a.iteration) \in Nat
      /\ a.iteration \in Seq(Linked(a))
      /\ \A n \in Linked(a) : n \in Nat /\ a.value[n] \in Key
      /\ \A p \in 1 .. Len(a.iteration) : a.iteration[p] \in Linked(a)
  BY SoundElements DEF Settled
<1>2. \A n \in Linked(a) : n # kNullIndex
  BY <1>1, StorageAssumption
<1>3. \A p \in 1 .. Len(a.iteration) : a.aux[a.iteration[p]] = p - 1
  BY DEF Settled, Sound, StructureOK, PositionsMatch
<1>4. \A n \in Linked(a) : /\ a.aux[n] \in 0 .. Len(a.iteration) - 1
                           /\ a.iteration[a.aux[n] + 1] = n
  <2>1. \A n \in Linked(a) : /\ a.aux[n] \in Nat
                             /\ a.aux[n] + 1 \in 1 .. Len(a.iteration)
                             /\ a.iteration[a.aux[n] + 1] = n
    BY PositionsUnique DEF Settled, Sound
  <2> QED
    BY <1>1, <2>1
<1>5. Injective(a.iteration)
  BY DEF Settled, Sound, StructureOK, NeverShared
<1> QED
  BY <1>1, <1>2, <1>3, <1>4, <1>5

LEMMA GrownPositions ==
  ASSUME NEW a, Settled(a), NEW b, Grown(a, b)
  PROVE  \A n \in Linked(a) : b.aux[n] = a.aux[n]
<1> TAKE n \in Linked(a)
<1> DEFINE p == a.aux[n] + 1
<1>1. p \in 1 .. Len(a.iteration) /\ a.iteration[p] = n /\ p - 1 = a.aux[n]
  BY Positions
<1> HIDE DEF p
<1>2. p \in 1 .. Len(b.iteration) /\ b.iteration[p] = n
  <2>1. /\ Len(a.iteration) \in Nat
        /\ Len(b.iteration) \in Nat
        /\ Len(b.iteration) >= Len(a.iteration)
    BY Positions DEF Grown
  <2> QED
    BY <1>1, <2>1 DEF Grown
<1>3. b.aux[b.iteration[p]] = p - 1
  BY <1>2, Positions DEF Grown
<1> QED
  BY <1>1, <1>2, <1>3

(* A loop that stands at a position has passed the positions before it. *)
LEMMA AtPosition ==
  ASSUME NEW a, Settled(a), NEW p \in 0 .. Len(a.iteration)
  PROVE  /\ at_position(a, p) \in Linked(a) \union {kNullIndex}
         /\ at_position(a, p) = kNullIndex <=> p = Len(a.iteration)
         /\ p # Len(a.iteration) =>
              p + 1 \in 1 .. Len(a.iteration) /\ at_position(a, p) = a.iteration[p + 1]
         /\ Passed(a, at_position(a, p)) = {a.iteration[q] : q \in 1 .. p}
<1>1. Len(a.iteration) \in Nat
  BY Positions
<1>2. CASE p = Len(a.iteration)
  <2>1. at_position(a, p) = kNullIndex
    BY <1>1, <1>2 DEF at_position
  <2> QED
    BY <1>2, <2>1 DEF Passed
<1>3. CASE p # Len(a.iteration)
  <2>1. /\ at_position(a, p) = a.iteration[p + 1]
        /\ p + 1 \in 1 .. Len(a.iteration)
        /\ (p + 1) - 1 = p
    BY <1>1, <1>3 DEF at_position
  <2>2. /\ a.iteration[p + 1] \in Linked(a)
        /\ a.iteration[p + 1] # kNullIndex
        /\ a.aux[a.iteration[p + 1]] = p
    BY <2>1, Positions
  <2>3. Passed(a, at_position(a, p)) = {a.iteration[q] : q \in 1 .. p}
    BY <2>1, <2>2 DEF Passed
  <2> QED
    BY <1>3, <2>1, <2>2, <2>3
<1> QED
  BY <1>2, <1>3

(* What a loop has passed is what does not lie ahead of it. *)
LEMMA PassedIsBehind ==
  ASSUME Settled(arena), node \in Elements \union {kNullIndex}
  PROVE  Elements \ Ahead = Passed(arena, node)
<1> DEFINE length == Len(arena.iteration)
           p == IF node = kNullIndex THEN length ELSE arena.aux[node]
<1>1. length \in Nat /\ p \in 0 .. length
  BY Positions DEF Elements
<1>2. Ahead = {arena.iteration[q] : q \in p + 1 .. length}
  <2>1. CASE node = kNullIndex
    <3>1. p + 1 .. length = {}
      BY <1>1, <2>1
    <3> QED
      BY <2>1, <3>1 DEF Ahead
  <2>2. CASE node # kNullIndex
    BY <2>2 DEF Ahead, iteration
  <2> QED
    BY <2>1, <2>2
<1>3. Passed(arena, node) = {arena.iteration[q] : q \in 1 .. p}
  BY DEF Passed
<1>4. Elements = {arena.iteration[q] : q \in 1 .. length}
  BY DEF Elements, Linked
<1>5. \A q, r \in 1 .. length : arena.iteration[q] = arena.iteration[r] => q = r
  BY Positions DEF Injective
<1> HIDE DEF p, length
<1>6. ASSUME NEW n \in Elements \ Ahead
      PROVE  n \in Passed(arena, node)
  <2>1. PICK q \in 1 .. length : n = arena.iteration[q]
    BY <1>4
  <2>2. q \notin p + 1 .. length
    BY <1>2, <2>1
  <2>3. q \in 1 .. p
    BY <1>1, <2>2
  <2> QED
    BY <1>3, <2>1, <2>3
<1>7. ASSUME NEW n \in Passed(arena, node)
      PROVE  n \in Elements \ Ahead
  <2>1. PICK q \in 1 .. p : n = arena.iteration[q]
    BY <1>3
  <2>2. q \in 1 .. length
    BY <1>1
  <2>3. \A r \in p + 1 .. length : r \in 1 .. length /\ r # q
    BY <1>1
  <2>4. n \notin Ahead
    BY <1>2, <1>5, <2>1, <2>2, <2>3
  <2> QED
    BY <1>4, <2>1, <2>2, <2>4
<1> QED
  BY <1>6, <1>7

LEMMA AdvanceToMatch ==
  ASSUME Settled(arena), NEW n, NEW p \in 0 .. Len(iteration)
  PROVE  LET q == advance_to_match(n, p)
         IN  /\ q \in p .. Len(iteration)
             /\ q < Len(iteration) => Home[KeyOf(iteration[q + 1])] = n
             /\ \A r \in p .. q - 1 : Home[KeyOf(iteration[r + 1])] # n
<1> DEFINE length == Len(iteration)
           Stops(q) == q = length \/ Home[KeyOf(iteration[q + 1])] = n
           Stopping == {q \in p .. length : Stops(q)}
           Less == OpToRel(<, Nat)
<1>1. length \in Nat /\ p \in Nat
  BY Positions DEF iteration
<1> HIDE DEF length, Stops
<1>2. length \in Stopping /\ Stopping \subseteq Nat
  BY <1>1 DEF Stops, length
<1>3. PICK q \in Stopping : \A r \in Stopping : <<r, q>> \notin Less
  BY <1>2, WFMin, NatLessThanWellFounded
<1>4. \A r \in Nat : r < q => <<r, q>> \in Less
  BY <1>2, <1>3 DEF OpToRel
<1> HIDE DEF Less
<1>5. q \in p .. length /\ Stops(q)
  OBVIOUS
<1>6. ASSUME NEW r \in p .. q - 1
      PROVE  ~Stops(r)
  <2>1. r \in p .. length /\ r \in Nat /\ r < q
    BY <1>1, <1>5
  <2> QED
    BY <1>3, <1>4, <2>1
<1>7. q \in p .. length /\ (q = length \/ Home[KeyOf(iteration[q + 1])] = n)
  BY <1>5 DEF Stops
<1>8. \A r \in p .. q - 1 : Home[KeyOf(iteration[r + 1])] # n
  BY <1>6 DEF Stops
<1>9. LET s == advance_to_match(n, p)
      IN  /\ s \in p .. length
          /\ s = length \/ Home[KeyOf(iteration[s + 1])] = n
          /\ \A r \in p .. s - 1 : Home[KeyOf(iteration[r + 1])] # n
  BY <1>7, <1>8 DEF advance_to_match, length
<1> QED
  BY <1>1, <1>9 DEF length
-----------------------------------------------------------------------------
(* Each step preserves the invariant. *)

LEMMA ContentsAreStored == Contents = Stored(arena) /\ Elements = Linked(arena)
BY DEF Contents, Elements, KeyOf, Stored

LEMMA Unmoved ==
  ASSUME IInv, UNCHANGED <<arena, iterators>>
  PROVE  IInv'
BY DEF IInv, TypeOK, AtRest, LoopInv, RangeInv, ScanInv, ScanVisitsBucket,
       HeldIteratorDenotes, iterators, Elements, Contents,
       KeyOf, KeysOf, ToErase, iteration

(* A use that has ended. *)
LEMMA Stopped ==
  ASSUME Settled(arena'), StopUse
  PROVE  IInv'
<1>1. 0 \in 0 .. Len(arena'.iteration)
  BY Positions
<1> QED
  BY <1>1, TraversalAssumption
     DEF StopUse, IInv, TypeOK, AtRest, LoopInv, RangeInv, ScanInv,
         ScanVisitsBucket, HeldIteratorDenotes, iteration

LEMMA GrownPassed ==
  ASSUME NEW a, Settled(a), NEW b, Grown(a, b),
         NEW n \in Linked(a) \union {kNullIndex},
         n # kNullIndex \/ b.iteration = a.iteration
  PROVE  Passed(b, n) = Passed(a, n)
<1>1. CASE n = kNullIndex
  BY <1>1 DEF Passed
<1>2. CASE n # kNullIndex
  <2>1. /\ b.aux[n] = a.aux[n]
        /\ Len(a.iteration) \in Nat
        /\ a.aux[n] \in 0 .. Len(a.iteration) - 1
    BY <1>2, GrownPositions, Positions
  <2>2. \A p \in 1 .. a.aux[n] : b.iteration[p] = a.iteration[p]
    BY <2>1 DEF Grown
  <2> QED
    BY <1>2, <2>1, <2>2 DEF Passed
<1> QED
  BY <1>1, <1>2

(* Insert and Rehash. *)
LEMMA GrownInv ==
  ASSUME IInv, Grown(arena, arena'), UNCHANGED iterators, use # "range",
         \/ use \in {"none", "hold", "keep"} \/ InLoop \/ InScan
         \/ arena'.iteration = arena.iteration
  PROVE  IInv'
<1>1. /\ Settled(arena) /\ Settled(arena')
      /\ Elements \subseteq Elements'
      /\ \A n \in Elements : KeyOf(n)' = KeyOf(n)
  BY DEF Grown, IInv, Elements, KeyOf
<1>2. /\ Len(iteration) \in Nat
      /\ Len(iteration)' \in Nat
      /\ Len(iteration)' >= Len(iteration)
      /\ \A p \in 1 .. Len(iteration) :
           iteration'[p] = iteration[p] /\ iteration[p] \in Elements
  BY <1>1, Positions DEF Grown, iteration, Elements
<1>3. /\ use' = use /\ node' = node /\ position' = position /\ bucket' = bucket
      /\ doomed' = doomed /\ todo' = todo /\ start' = start /\ visited' = visited
  BY DEF iterators
<1>4. /\ use = "keep" => position \in Nat
      /\ use # "keep" => position \in 0 .. Len(iteration)
  BY DEF IInv, TypeOK
<1>5. TypeOK'
  <2>1. todo' \in Seq(Elements')
    BY <1>3 DEF IInv, AtRest
  <2>2. /\ use = "keep" => position' \in Nat
        /\ use # "keep" => position' \in 0 .. Len(iteration)'
    BY <1>2, <1>3, <1>4
  <2> QED
    BY <1>1, <1>3, <2>1, <2>2 DEF IInv, TypeOK
<1>6. LoopInv'
  <2> SUFFICES ASSUME use = "loop"
               PROVE  LoopInv'
    BY <1>3 DEF LoopInv
  <2>1. visited \subseteq Elements /\ node \in Linked(arena) \union {kNullIndex}
    BY DEF IInv, TypeOK, Elements
  <2>2. node # kNullIndex \/ arena'.iteration = arena.iteration
    BY DEF InLoop, InScan
  <2>3. Passed(arena', node) = Passed(arena, node)
    BY <1>1, <2>1, <2>2, GrownPassed
  <2>4. Contents \subseteq Contents'
    BY <1>1 DEF Contents
  <2> QED
    BY <1>1, <1>3, <2>1, <2>3, <2>4 DEF IInv, LoopInv
<1>7. ScanInv' /\ ScanVisitsBucket'
  <2> SUFFICES ASSUME use = "scan"
               PROVE  ScanInv' /\ ScanVisitsBucket'
    BY <1>3 DEF ScanInv, ScanVisitsBucket
  <2>1. position < Len(iteration) \/ Len(iteration)' = Len(iteration)
    BY DEF InScan, InLoop, iteration
  <2>2. ScanInv'
    <3> SUFFICES ASSUME position < Len(iteration)
                 PROVE  ScanInv'
      BY <1>2, <1>3, <2>1 DEF ScanInv
    <3>1. position + 1 \in 1 .. Len(iteration)
      BY <1>2, <1>4
    <3>2. KeyOf(iteration[position + 1])' = KeyOf(iteration[position + 1])
      BY <1>1, <1>2, <1>3, <3>1 DEF KeyOf
    <3> QED
      BY <1>3, <3>2 DEF IInv, ScanInv
  <2>3. ScanVisitsBucket'
    <3>1. \A p \in 1 .. position :
            /\ iteration'[p] = iteration[p]
            /\ KeyOf(iteration[p])' = KeyOf(iteration[p])
      BY <1>1, <1>2, <1>4 DEF KeyOf
    <3>2. {n \in {iteration[p] : p \in 1 .. position} :
             Home[KeyOf(n)] = bucket}' =
          {n \in {iteration[p] : p \in 1 .. position} :
             Home[KeyOf(n)] = bucket}
      BY <1>3, <3>1 DEF KeyOf
    <3> QED
      BY <1>3, <3>2 DEF IInv, ScanVisitsBucket
  <2> QED
    BY <2>2, <2>3
<1>8. HeldIteratorDenotes'
  BY <1>1, <1>3 DEF IInv, HeldIteratorDenotes
<1>9. AtRest' /\ RangeInv'
  BY <1>3 DEF IInv, AtRest, RangeInv
<1> QED
  BY <1>1, <1>5, <1>6, <1>7, <1>8, <1>9 DEF IInv
(* The erasure of an element no iterator in use is at. *)
LEMMA GoneInv ==
  ASSUME IInv, NEW n \in Elements, Gone(arena, arena', n),
         \/ use = "none"
         \/ use \in {"hold", "keep"} /\ KeyOf(n) \notin start
         \/ use = "loop" /\ EraseElsewhere /\ n # node,
         visited' = visited \intersect Elements',
         UNCHANGED <<use, node, position, bucket, doomed, todo, start>>
  PROVE  IInv'
<1>1. /\ Settled(arena) /\ Settled(arena')
      /\ Elements' = Elements \ {n}
      /\ \A m \in Elements' : KeyOf(m)' = KeyOf(m)
  BY DEF Gone, WithoutElement, IInv, Elements, KeyOf
<1>2. /\ Len(iteration) \in Nat
      /\ Len(iteration)' = Len(iteration) - 1
      /\ Len(iteration)' \in Nat
      /\ \A p \in 1 .. Len(iteration) - 1 :
           p # arena.aux[n] + 1 => iteration'[p] = iteration[p]
      /\ \A p \in 1 .. Len(iteration) : iteration[p] \in Elements
      /\ iteration[arena.aux[n] + 1] = n
  <2>1. Len(iteration) \in Nat /\ Len(iteration)' \in Nat
    BY <1>1, Positions DEF iteration
  <2>2. /\ \A p \in 1 .. Len(iteration) : iteration[p] \in Elements
        /\ iteration[arena.aux[n] + 1] = n
    BY <1>1, Positions DEF iteration, Elements
  <2> QED
    BY <2>1, <2>2 DEF Gone, WithoutElement, Filled, iteration
<1>4. CASE use = "none"
  <2>1. position = 0 /\ todo = << >> /\ node = kNullIndex
    BY <1>4 DEF IInv, AtRest
  <2>2. TypeOK'
    BY <1>1, <1>2, <2>1 DEF IInv, TypeOK
  <2> QED
    BY <1>1, <1>4, <2>2
       DEF IInv, AtRest, LoopInv, RangeInv, ScanInv, ScanVisitsBucket,
           HeldIteratorDenotes
<1>5. CASE use = "hold" /\ KeyOf(n) \notin start
  <2>1. position = 0 /\ todo = << >> /\ visited = {}
    BY <1>5 DEF IInv, AtRest
  <2>2. node \in Elements' /\ start = {KeyOf(node)'}
    BY <1>1, <1>5 DEF IInv, HeldIteratorDenotes
  <2>3. TypeOK'
    BY <1>1, <1>2, <2>1, <2>2 DEF IInv, TypeOK
  <2>4. HeldIteratorDenotes'
    BY <1>5, <2>2 DEF HeldIteratorDenotes, KeyOf
  <2> QED
    BY <1>1, <1>5, <2>1, <2>3, <2>4
       DEF IInv, AtRest, LoopInv, RangeInv, ScanInv, ScanVisitsBucket
<1>6. CASE use = "keep"
  <2>1. node = kNullIndex /\ todo = << >> /\ visited = {} /\ position \in Nat
    BY <1>6 DEF IInv, AtRest, TypeOK
  <2>2. TypeOK'
    BY <1>1, <1>6, <2>1 DEF IInv, TypeOK
  <2> QED
    BY <1>1, <1>6, <2>1, <2>2
       DEF IInv, AtRest, LoopInv, RangeInv, ScanInv, ScanVisitsBucket,
           HeldIteratorDenotes
<1>7. CASE use = "loop" /\ EraseElsewhere /\ n # node
  <2>1. position = 0 /\ todo = << >>
    BY <1>7 DEF IInv, AtRest
  <2>2. TypeOK'
    BY <1>1, <1>2, <1>7, <2>1 DEF IInv, TypeOK
  <2>3. LoopInv'
    BY <1>1, <1>7 DEF IInv, LoopInv
  <2> QED
    BY <1>1, <1>7, <2>2, <2>3
       DEF IInv, AtRest, RangeInv, ScanInv, ScanVisitsBucket,
           HeldIteratorDenotes
<1> QED
  BY <1>4, <1>5, <1>6, <1>7

(* operator++ passes one element. *)
LEMMA LoopNextInv ==
  ASSUME IInv, LoopNext
  PROVE  IInv'
<1> DEFINE p == arena.aux[node] + 1
<1>1. Settled(arena) /\ node \in Linked(arena) /\ node # kNullIndex
  BY DEF IInv, TypeOK, LoopNext, InLoop, Elements
<1>2. /\ Len(arena.iteration) \in Nat
      /\ p \in 1 .. Len(arena.iteration)
      /\ p \in 0 .. Len(arena.iteration)
      /\ arena.iteration[p] = node
      /\ p - 1 = arena.aux[node]
      /\ \A q \in 1 .. p : q \in 1 .. arena.aux[node] \/ q = p
      /\ \A q \in 1 .. arena.aux[node] : q \in 1 .. p
      /\ p \in 1 .. p
  <2>1. /\ Len(arena.iteration) \in Nat
        /\ arena.aux[node] \in 0 .. Len(arena.iteration) - 1
        /\ arena.iteration[p] = node
    BY <1>1, Positions
  <2> QED
    BY <2>1
<1>3. node' = at_position(arena, p)
  BY DEF LoopNext, increment
<1>4. /\ arena' = arena /\ use = "loop" /\ visited' = visited \union {node}
      /\ KeyOf(node) \notin doomed
      /\ UNCHANGED <<use, position, bucket, doomed, todo, start>>
  BY DEF LoopNext, InLoop, container
<1> HIDE DEF p
<1>5. /\ node' \in Linked(arena) \union {kNullIndex}
      /\ Passed(arena, node') = {arena.iteration[q] : q \in 1 .. p}
  BY <1>1, <1>2, <1>3, AtPosition
<1>6. Passed(arena, node) = {arena.iteration[q] : q \in 1 .. arena.aux[node]}
  BY <1>1 DEF Passed
<1>7. Passed(arena, node') = Passed(arena, node) \union {node}
  BY <1>2, <1>5, <1>6
<1>8. TypeOK'
  BY <1>1, <1>4, <1>5 DEF IInv, TypeOK, Elements, iteration
<1>9. LoopInv'
  BY <1>4, <1>7 DEF IInv, LoopInv, KeyOf, Contents, Elements
<1> QED
  BY <1>4, <1>8, <1>9
     DEF IInv, AtRest, RangeInv, ScanInv, ScanVisitsBucket,
         HeldIteratorDenotes

(* The element that takes the erased one's place is the next one, and the  *)
(* ones before it have not moved.                                          *)
LEMMA LoopEraseInv ==
  ASSUME IInv, LoopErase
  PROVE  IInv'
<1> DEFINE p == arena.aux[node]
<1>1. Settled(arena) /\ node \in Linked(arena) /\ node # kNullIndex
  BY DEF IInv, TypeOK, LoopErase, InLoop, Elements
<1>2. /\ arena' = erase_located(arena, node)
      /\ node' = at_position(arena', p)
      /\ use = "loop" /\ KeyOf(node) \in doomed
      /\ UNCHANGED <<use, position, bucket, doomed, todo, start, visited>>
  BY ArenaOperators DEF LoopErase, InLoop, after_erase, Arena!Returns
<1>3. Gone(arena, arena', node)
  BY <1>1, <1>2, Erasing DEF IInv, Elements
<1>4. /\ Settled(arena')
      /\ Elements' = Elements \ {node}
      /\ \A m \in Elements' : KeyOf(m)' = KeyOf(m)
      /\ Contents' = Contents \ {KeyOf(node)}
  BY <1>3, ContentsAreStored DEF Gone, WithoutElement, Elements, KeyOf, Contents, Stored
<1>5. /\ p \in 0 .. Len(arena'.iteration)
      /\ \A q \in 1 .. p : arena'.iteration[q] = arena.iteration[q]
  <2>1. /\ Len(arena.iteration) \in Nat
        /\ p \in 0 .. Len(arena.iteration) - 1
    BY <1>1, Positions
  <2> QED
    BY <1>3, <2>1 DEF Gone, WithoutElement, Filled
<1> HIDE DEF p
<1>6. /\ node' \in Linked(arena') \union {kNullIndex}
      /\ Passed(arena', node') = {arena'.iteration[q] : q \in 1 .. p}
  BY <1>2, <1>4, <1>5, AtPosition
<1>7. Passed(arena, node) = {arena.iteration[q] : q \in 1 .. p}
  BY <1>1 DEF Passed, p
<1>8. Passed(arena', node') = Passed(arena, node)
  BY <1>5, <1>6, <1>7
<1>9. visited \subseteq Elements'
  BY <1>2, <1>4 DEF IInv, TypeOK, LoopInv
<1>10. position = 0 /\ todo = << >> /\ Len(arena'.iteration) \in Nat
  BY <1>2, <1>4, Positions DEF IInv, AtRest
<1>11. TypeOK'
  BY <1>2, <1>6, <1>9, <1>10 DEF IInv, TypeOK, Elements, iteration
<1>12. LoopInv'
  BY <1>2, <1>4, <1>8, <1>9 DEF IInv, LoopInv
<1> QED
  BY <1>2, <1>4, <1>11, <1>12
     DEF IInv, AtRest, RangeInv, ScanInv, ScanVisitsBucket,
         HeldIteratorDenotes
(* BeginLoop, EndLoop, Hold, EndHold, Keep and EndKeep. *)
LEMMA BeginLoopInv ==
  ASSUME IInv, NEW keys \in SUBSET Key, BeginLoop(keys)
  PROVE  IInv'
<1>1. /\ Settled(arena) /\ arena' = arena
      /\ use = "none" /\ use' = "loop" /\ doomed' = keys /\ start' = Contents
      /\ node' = at_position(arena, 0)
      /\ UNCHANGED <<position, bucket, todo, visited>>
      /\ position = 0 /\ todo = << >> /\ visited = {}
  BY DEF IInv, BeginLoop, container, begin, AtRest
<1>2. /\ node' \in Linked(arena) \union {kNullIndex}
      /\ Passed(arena, node') = {arena.iteration[q] : q \in 1 .. 0}
  <2>1. 0 \in 0 .. Len(arena.iteration)
    BY <1>1, Positions
  <2> QED
    BY <1>1, <2>1, AtPosition
<1>3. Passed(arena, node') = {}
  BY <1>2
<1>4. start' \subseteq Key
  BY <1>1, ContentsAreStored, SoundElements DEF Settled
<1>5. TypeOK'
  BY <1>1, <1>2, <1>4 DEF IInv, TypeOK, Elements, iteration
<1>6. LoopInv'
  BY <1>1, <1>3 DEF LoopInv, Contents, Elements, KeyOf
<1> QED
  BY <1>1, <1>5, <1>6
     DEF IInv, AtRest, RangeInv, ScanInv, ScanVisitsBucket,
         HeldIteratorDenotes

LEMMA HoldInv ==
  ASSUME IInv, NEW n \in Elements, Hold(n)
  PROVE  IInv'
<1>1. /\ arena' = arena /\ use = "none" /\ use' = "hold"
      /\ node' = n /\ start' = {KeyOf(n)}
      /\ UNCHANGED <<position, bucket, doomed, todo, visited>>
      /\ position = 0 /\ todo = << >> /\ visited = {}
  BY DEF IInv, Hold, container, AtRest
<1>2. KeyOf(n) \in Key
  BY Positions DEF IInv, Elements, KeyOf
<1>3. TypeOK' /\ HeldIteratorDenotes'
  BY <1>1, <1>2 DEF IInv, TypeOK, Elements, iteration, HeldIteratorDenotes, KeyOf
<1> QED
  BY <1>1, <1>3
     DEF IInv, AtRest, LoopInv, RangeInv, ScanInv, ScanVisitsBucket

LEMMA KeepInv ==
  ASSUME IInv, NEW p \in 0 .. Len(iteration) - 1, Keep(p)
  PROVE  IInv'
<1>1. /\ arena' = arena /\ use = "none" /\ use' = "keep"
      /\ bucket' = Home[KeyOf(iteration[p + 1])]
      /\ position' = p
      /\ start' = {KeyOf(iteration[p + 1])}
      /\ UNCHANGED <<node, doomed, todo, visited>>
      /\ node = kNullIndex /\ todo = << >> /\ visited = {}
  BY DEF IInv, Keep, container, AtRest
<1>2. /\ p + 1 \in 1 .. Len(iteration) /\ p \in 0 .. Len(iteration)
      /\ p < Len(iteration)
  BY Positions DEF IInv, iteration
<1>3. KeyOf(iteration[p + 1]) \in Key
  BY <1>2, Positions DEF IInv, iteration, KeyOf
<1>4. bucket' \in Buckets
  BY <1>1, <1>3, TraversalAssumption
<1>5. TypeOK'
  BY <1>1, <1>2, <1>3, <1>4
     DEF IInv, TypeOK, Elements, iteration, KeyOf
<1> QED
  BY <1>1, <1>5
     DEF IInv, AtRest, LoopInv, RangeInv, ScanInv, ScanVisitsBucket,
         HeldIteratorDenotes

(* The range is listed before anything moves. *)
LEMMA BeginEraseRangeInv ==
  ASSUME IInv, NEW from \in 0 .. Len(iteration), NEW count \in 1 .. Len(iteration),
         from + count <= Len(iteration), BeginEraseRange(from, count)
  PROVE  IInv'
<1> DEFINE length == Len(arena.iteration)
           last == from + count
<1>1. /\ Settled(arena) /\ arena' = arena /\ use = "none" /\ use' = "range"
      /\ todo' = SubSeq(arena.iteration, from + 1, last)
      /\ node' = at_position(arena, last)
      /\ start' = Contents
      /\ doomed' = {KeyOf(arena.iteration[p]) : p \in from + 1 .. last}
      /\ UNCHANGED <<position, bucket, visited>>
      /\ position = 0 /\ visited = {}
  BY DEF IInv, BeginEraseRange, container, AtRest, iteration
<1>2. /\ length \in Nat /\ arena.iteration \in Seq(Elements)
      /\ \A p \in 1 .. length : arena.iteration[p] \in Elements
      /\ \A p, q \in 1 .. length :
           arena.iteration[p] = arena.iteration[q] => p = q
      /\ \A n \in Elements : n # kNullIndex /\ KeyOf(n) \in Key
  BY <1>1, Positions DEF Injective, Elements, KeyOf
<1>3. /\ from \in Nat /\ count \in Nat /\ last \in 0 .. length /\ last \in Nat
      /\ from + 1 \in 1 .. length /\ count >= 1 /\ last = from + count
      /\ last \in from + 1 .. length
      /\ from + 1 .. last \subseteq 1 .. length
      /\ 1 .. 0 = {}
  BY <1>2 DEF iteration
<1>4. /\ todo' \in Seq(Elements)
      /\ Len(todo') = count
      /\ \A i \in 1 .. count : todo'[i] = arena.iteration[from + i]
  <2> HIDE DEF length, last
  <2>1. \A i \in from + 1 .. last : arena.iteration[i] \in Elements
    BY <1>2, <1>3
  <2>2. last - (from + 1) + 1 = count /\ from + 1 <= last + 1
    BY <1>3
  <2> QED
    BY <1>1, <1>2, <1>3, <2>1, <2>2, SubSeqProperties
<1> HIDE DEF length, last
<1>5. Injective(todo')
  <2> SUFFICES ASSUME NEW i \in 1 .. count, NEW j \in 1 .. count,
                      todo'[i] = todo'[j]
               PROVE  i = j
    BY <1>4 DEF Injective
  <2>1. from + i \in 1 .. length /\ from + j \in 1 .. length
    BY <1>3
  <2>2. from + i = from + j
    BY <1>2, <1>4, <2>1
  <2> QED
    BY <1>3, <2>2
<1>6. ToErase' = {arena.iteration[p] : p \in from + 1 .. last}
  <2>1. \A i \in 1 .. count : from + i \in from + 1 .. last
    BY <1>3
  <2>2. \A p \in from + 1 .. last : p - from \in 1 .. count /\ from + (p - from) = p
    BY <1>3
  <2>3. ToErase' = {todo'[i] : i \in 1 .. count}
    BY <1>4 DEF ToErase
  <2>4. ASSUME NEW i \in 1 .. count
        PROVE  todo'[i] \in {arena.iteration[p] : p \in from + 1 .. last}
    BY <1>4, <2>1
  <2>5. ASSUME NEW p \in from + 1 .. last
        PROVE  arena.iteration[p] \in {todo'[i] : i \in 1 .. count}
    <3>1. arena.iteration[p] = todo'[p - from] /\ p - from \in 1 .. count
      BY <1>4, <2>2
    <3> QED
      BY <3>1
  <2> QED
    BY <2>3, <2>4, <2>5
<1>7. node' \in Elements \union {kNullIndex} /\ node' \notin ToErase'
  <2>1. /\ at_position(arena, last) \in Elements \union {kNullIndex}
        /\ at_position(arena, last) = kNullIndex <=> last = length
        /\ last # length => /\ last + 1 \in 1 .. length
                            /\ at_position(arena, last) = arena.iteration[last + 1]
    BY <1>1, <1>3, AtPosition DEF Elements, length
  <2>2. CASE last = length
    BY <1>1, <1>2, <1>3, <1>6, <2>1, <2>2
  <2>3. CASE last # length
    <3>1. \A p \in from + 1 .. last : p # last + 1 /\ p \in 1 .. length
      BY <1>3
    <3> QED
      BY <1>1, <1>2, <1>6, <2>1, <2>3, <3>1
  <2> QED
    BY <2>2, <2>3
<1>8. KeysOf(ToErase') = doomed' /\ doomed' \subseteq Contents /\ Contents \subseteq Key
  BY <1>1, <1>2, <1>3, <1>6 DEF KeysOf, Contents
<1>9. /\ KeyOf(0)' = KeyOf(0) /\ Elements' = Elements /\ Contents' = Contents
      /\ KeysOf(ToErase)' = KeysOf(ToErase')
      /\ Len(iteration)' = length /\ iteration' = arena.iteration
  BY <1>1 DEF KeyOf, KeysOf, Elements, Contents, iteration, length
<1>10. TypeOK'
  <2>1. 0 \in 0 .. Len(iteration)'
    BY <1>2, <1>9
  <2>2. bucket \in Buckets
    BY DEF IInv, TypeOK
  <2> QED
    BY <1>1, <1>4, <1>7, <1>8, <1>9, <2>1, <2>2 DEF TypeOK
<1>11. RangeInv'
  BY <1>1, <1>5, <1>7, <1>8, <1>9 DEF RangeInv
<1> QED
  BY <1>1, <1>10, <1>11
     DEF IInv, AtRest, LoopInv, ScanInv, ScanVisitsBucket,
         HeldIteratorDenotes

(* An erasure takes one node off the list and its element from the range.  *)
LEMMA EraseRangeNextInv ==
  ASSUME IInv, EraseRangeNext
  PROVE  IInv'
<1> DEFINE n == Head(todo)
<1>1. /\ todo \in Seq(Elements) /\ todo # << >> /\ todo' = Tail(todo)
      /\ use = "range"
      /\ UNCHANGED <<use, node, position, bucket, doomed, start, visited>>
      /\ arena' = erase_located(arena, n)
  BY ArenaOperators DEF IInv, TypeOK, EraseRangeNext, Arena!Returns
<1>2. /\ Len(todo) \in Nat /\ Len(todo) >= 1 /\ n = todo[1] /\ n \in Elements
      /\ Len(todo') = Len(todo) - 1
      /\ \A i \in 1 .. Len(todo) - 1 : todo'[i] = todo[i + 1]
      /\ \A i \in 1 .. Len(todo) : todo[i] \in Elements
      /\ \A i, j \in 1 .. Len(todo) : todo[i] = todo[j] => i = j
  <2>1. /\ Len(todo) \in Nat /\ Len(todo) # 0
        /\ n = todo[1]
        /\ \A i \in 1 .. Len(todo) : todo[i] \in Elements
    BY <1>1, HeadTailProperties, EmptySeq, ElementOfSeq
  <2>2. \A i, j \in 1 .. Len(todo) : todo[i] = todo[j] => i = j
    BY <1>1 DEF IInv, RangeInv, Injective
  <2> QED
    BY <1>1, <2>1, <2>2, HeadTailProperties
<1> HIDE DEF n
<1>3. Gone(arena, arena', n)
  BY <1>1, <1>2, Erasing DEF IInv
<1>4. /\ Settled(arena')
      /\ Elements' = Elements \ {n}
      /\ \A m \in Elements' : KeyOf(m)' = KeyOf(m)
      /\ Contents' = Contents \ {KeyOf(n)}
  BY <1>3, ContentsAreStored DEF Gone, WithoutElement, Elements, KeyOf, Contents, Stored
<1>5. ToErase' = ToErase \ {n} /\ ToErase \subseteq Elements /\ n \in ToErase
  <2>1. \A i \in 1 .. Len(todo) - 1 : i + 1 \in 1 .. Len(todo) /\ i + 1 # 1
    BY <1>2
  <2>2. \A i \in 1 .. Len(todo) :
          i # 1 => i - 1 \in 1 .. Len(todo) - 1 /\ (i - 1) + 1 = i
    BY <1>2
  <2>3. 1 \in 1 .. Len(todo)
    BY <1>2
  <2>4. ASSUME NEW m \in ToErase'
        PROVE  m \in ToErase \ {n}
    BY <1>2, <2>1, <2>3 DEF ToErase
  <2>5. ASSUME NEW m \in ToErase \ {n}
        PROVE  m \in ToErase'
    <3>1. PICK i \in 1 .. Len(todo) : todo[i] = m
      BY DEF ToErase
    <3>2. i - 1 \in 1 .. Len(todo') /\ todo'[i - 1] = m
      BY <1>2, <2>2, <3>1
    <3> QED
      BY <3>2 DEF ToErase
  <2>6. ToErase \subseteq Elements /\ n \in ToErase
    BY <1>2, <2>3 DEF ToErase
  <2> QED
    BY <2>4, <2>5, <2>6
<1>6. /\ todo' \in Seq(Elements')
      /\ Injective(todo')
  <2>1. /\ todo' \in Seq(Elements)
        /\ Len(todo') \in Nat
        /\ DOMAIN todo' = 1 .. Len(todo')
        /\ \A i \in 1 .. Len(todo') : i + 1 \in 1 .. Len(todo) /\ i \in 1 .. Len(todo) - 1
    BY <1>1, <1>2, HeadTailProperties, LenProperties
  <2>2. \A i \in 1 .. Len(todo') : todo'[i] \in ToErase'
    BY DEF ToErase
  <2>3. \A i \in 1 .. Len(todo') : todo'[i] \in Elements'
    BY <1>4, <1>5, <2>2
  <2>4. todo' \in Seq(Elements')
    <3>1. todo' \in [1 .. Len(todo') -> Elements]
      BY <2>1, LenProperties
    <3>2. todo' \in [1 .. Len(todo') -> Elements']
      BY <2>3, <3>1
    <3> QED
      BY <2>1, <3>2, SeqDef
  <2>5. Injective(todo')
    <3> SUFFICES ASSUME NEW i \in 1 .. Len(todo'), NEW j \in 1 .. Len(todo'),
                        todo'[i] = todo'[j]
                 PROVE  i = j
      BY <2>1 DEF Injective
    <3>1. i + 1 = j + 1
      BY <1>2, <2>1
    <3> QED
      BY <3>1
  <2> QED
    BY <2>4, <2>5
<1>7. /\ node \notin ToErase
      /\ KeysOf(ToErase) \subseteq doomed
      /\ Contents = (start \ doomed) \union KeysOf(ToErase)
  BY <1>1 DEF IInv, RangeInv
<1>8. KeysOf(ToErase)' = KeysOf(ToErase) \ {KeyOf(n)}
  <2>1. \A m \in ToErase \ {n} : KeyOf(m)' = KeyOf(m)
    BY <1>4, <1>5
  <2>2. \A m \in ToErase \ {n} : KeyOf(m) # KeyOf(n)
    BY <1>5 DEF IInv, Settled, KeysDistinct, Elements, KeyOf
  <2> QED
    BY <1>5, <2>1, <2>2 DEF KeysOf, KeyOf
<1>9. RangeInv'
  <2>1. KeyOf(n) \in doomed
    BY <1>5, <1>7 DEF KeysOf
  <2> QED
    BY <1>1, <1>4, <1>5, <1>6, <1>7, <1>8, <2>1 DEF RangeInv
<1>10. position = 0 /\ visited = {} /\ Len(arena'.iteration) \in Nat
  BY <1>1, <1>4, Positions DEF IInv, AtRest
<1>11. TypeOK'
  BY <1>1, <1>4, <1>5, <1>6, <1>7, <1>10 DEF IInv, TypeOK, iteration
<1> QED
  BY <1>1, <1>4, <1>9, <1>10, <1>11
     DEF IInv, AtRest, LoopInv, ScanInv, ScanVisitsBucket,
         HeldIteratorDenotes
LEMMA EndEraseRangeInv ==
  ASSUME IInv, EndEraseRange
  PROVE  IInv'
<1>1. arena' = arena /\ use = "range" /\ todo = << >>
  BY DEF EndEraseRange, container
<1>2. CASE node = kNullIndex
  BY <1>1, <1>2, Stopped DEF EndEraseRange, IInv
<1>3. CASE node # kNullIndex
  <2>1. /\ use' = "hold" /\ start' = {KeyOf(node)} /\ doomed' = {}
        /\ UNCHANGED <<node, position, bucket, todo, visited>>
        /\ position = 0 /\ visited = {} /\ node \in Elements
    BY <1>1, <1>3 DEF EndEraseRange, IInv, AtRest, TypeOK
  <2>2. KeyOf(node) \in Key
    BY <2>1, Positions DEF IInv, Elements, KeyOf
  <2>3. TypeOK' /\ HeldIteratorDenotes'
    BY <1>1, <2>1, <2>2
       DEF IInv, TypeOK, Elements, iteration, HeldIteratorDenotes, KeyOf
  <2> QED
    BY <1>1, <2>1, <2>3
       DEF IInv, AtRest, LoopInv, RangeInv, ScanInv, ScanVisitsBucket
<1> QED
  BY <1>2, <1>3

(* The elements of bucket n at the positions from 1 to p. *)
Matching(p, n) ==
  {m \in {iteration[q] : q \in 1 .. p} : Home[KeyOf(m)] = n}

(* What advance_to_match leaves out is in other buckets. *)
LEMMA MatchesBetween ==
  ASSUME Settled(arena), NEW n, NEW p \in 0 .. Len(iteration)
  PROVE  Matching(advance_to_match(n, p), n) = Matching(p, n)
<1> DEFINE s == advance_to_match(n, p)
<1>1. /\ Len(iteration) \in Nat
      /\ s \in p .. Len(iteration)
      /\ \A r \in p .. s - 1 : Home[KeyOf(iteration[r + 1])] # n
  BY AdvanceToMatch, Positions DEF iteration
<1> HIDE DEF s
<1>2. /\ \A q \in 1 .. p : q \in 1 .. s
      /\ \A q \in 1 .. s : q \in 1 .. p \/ (q - 1 \in p .. s - 1 /\ (q - 1) + 1 = q)
  BY <1>1
<1>3. \A q \in 1 .. s : Home[KeyOf(iteration[q])] = n => q \in 1 .. p
  BY <1>1, <1>2
<1>4. Matching(s, n) = Matching(p, n)
  BY <1>2, <1>3 DEF Matching
<1> QED
  BY <1>4 DEF s

LEMMA BeginScanInv ==
  ASSUME IInv, NEW n \in Buckets, BeginScan(n)
  PROVE  IInv'
<1>1. /\ Settled(arena) /\ arena' = arena /\ use = "none" /\ use' = "scan"
      /\ bucket' = n /\ position' = advance_to_match(n, 0)
      /\ UNCHANGED <<node, doomed, todo, start, visited>>
      /\ node = kNullIndex /\ todo = << >> /\ visited = {}
  BY DEF IInv, BeginScan, container, AtRest
<1>2. Len(iteration) \in Nat /\ 0 \in 0 .. Len(iteration)
  BY <1>1, Positions DEF iteration
<1>3. /\ position' \in 0 .. Len(iteration)
      /\ position' < Len(iteration) =>
           Home[KeyOf(iteration[position' + 1])] = n
  BY <1>1, <1>2, AdvanceToMatch
<1>4. Matching(position', n) = {}
  <2>1. Matching(position', n) = Matching(0, n)
    BY <1>1, <1>2, MatchesBetween
  <2>2. 1 .. 0 = {}
    OBVIOUS
  <2> QED
    BY <2>1, <2>2 DEF Matching
<1>5. TypeOK'
  BY <1>1, <1>3 DEF IInv, TypeOK, Elements, iteration
<1>6. ScanInv' /\ ScanVisitsBucket'
  BY <1>1, <1>3, <1>4 DEF ScanInv, ScanVisitsBucket, Matching, iteration, KeyOf
<1> QED
  BY <1>1, <1>5, <1>6
     DEF IInv, AtRest, LoopInv, RangeInv, HeldIteratorDenotes

LEMMA ScanNextInv ==
  ASSUME IInv, ScanNext
  PROVE  IInv'
<1> DEFINE p == position + 1
<1>1. /\ Settled(arena) /\ arena' = arena /\ use = "scan"
      /\ position < Len(iteration)
      /\ position \in 0 .. Len(iteration)
      /\ visited' = visited \union {iteration[p]}
      /\ position' = advance_to_match(bucket, p)
      /\ UNCHANGED <<use, node, bucket, doomed, todo, start>>
      /\ Home[KeyOf(iteration[p])] = bucket
      /\ visited = Matching(position, bucket)
  BY DEF IInv, TypeOK, ScanNext, InScan, container, ScanInv, ScanVisitsBucket,
         Matching
<1>2. /\ Len(iteration) \in Nat /\ p \in 0 .. Len(iteration)
      /\ p \in 1 .. Len(iteration) /\ p \in 1 .. p
      /\ \A q \in 1 .. p : q \in 1 .. position \/ q = p
      /\ \A q \in 1 .. position : q \in 1 .. p
  <2>1. Len(iteration) \in Nat
    BY <1>1, Positions DEF iteration
  <2> QED
    BY <1>1, <2>1
<1>3. iteration[p] \in Elements
  BY <1>1, <1>2, Positions DEF iteration, Elements
<1> HIDE DEF p
<1>4. /\ position' \in p .. Len(iteration)
      /\ position' < Len(iteration) =>
           Home[KeyOf(iteration[position' + 1])] = bucket
  BY <1>1, <1>2, AdvanceToMatch
<1>5. Matching(p, bucket) = visited'
  BY <1>1, <1>2 DEF Matching
<1>6. Matching(position', bucket) = visited'
  BY <1>1, <1>2, <1>5, MatchesBetween
<1>7. position' \in 0 .. Len(iteration)
  BY <1>2, <1>4
<1>8. TypeOK'
  BY <1>1, <1>3, <1>7 DEF IInv, TypeOK, Elements, iteration
<1>9. ScanInv' /\ ScanVisitsBucket'
  BY <1>1, <1>4, <1>6 DEF ScanInv, ScanVisitsBucket, Matching, iteration, KeyOf
<1> QED
  BY <1>1, <1>8, <1>9
     DEF IInv, AtRest, LoopInv, RangeInv, HeldIteratorDenotes

-----------------------------------------------------------------------------
LEMMA InitInv == Init => IInv
<1> SUFFICES ASSUME Init
             PROVE  IInv
  OBVIOUS
<1>1. arena = EmptyArena
  BY ArenaOperators DEF Init, Arena!Init
<1>2. Settled(arena)
  BY <1>1, SettledWhenEmpty
<1>3. 0 \in 0 .. Len(iteration)
  BY <1>2, Positions DEF iteration
<1> QED
  BY <1>2, <1>3, TraversalAssumption
     DEF Init, NotInUse, IInv, TypeOK, AtRest, LoopInv, RangeInv, ScanInv,
         ScanVisitsBucket, HeldIteratorDenotes

LEMMA StepInv == IInv /\ [Next]_vars => IInv'
<1> SUFFICES ASSUME IInv, [Next]_vars
             PROVE  IInv'
  OBVIOUS
<1>0. Settled(arena)
  BY DEF IInv
<1>1. ASSUME NEW keys \in SUBSET Key, BeginLoop(keys)
      PROVE  IInv'
  BY <1>1, BeginLoopInv
<1>2. CASE LoopNext
  BY <1>2, LoopNextInv
<1>3. CASE LoopErase
  BY <1>3, LoopEraseInv
<1>4. CASE EndLoop \/ EndHold \/ EndScan \/ EndKeep
  <2>1. arena' = arena /\ StopUse
    BY <1>4 DEF EndLoop, EndHold, EndScan, EndKeep, container
  <2> QED
    BY <1>0, <2>1, Stopped
<1>5. ASSUME NEW n \in Elements, Hold(n)
      PROVE  IInv'
  BY <1>5, HoldInv
<1>6. ASSUME NEW from \in 0 .. Len(iteration), NEW count \in 1 .. Len(iteration),
             from + count <= Len(iteration), BeginEraseRange(from, count)
      PROVE  IInv'
  BY <1>6, BeginEraseRangeInv
<1>7. CASE EraseRangeNext
  BY <1>7, EraseRangeNextInv
<1>8. CASE EndEraseRange
  BY <1>8, EndEraseRangeInv
<1>9. ASSUME NEW n \in Buckets, BeginScan(n)
      PROVE  IInv'
  BY <1>9, BeginScanInv
<1>10. CASE ScanNext
  BY <1>10, ScanNextInv
<1>11. ASSUME NEW p \in 0 .. Len(iteration) - 1, Keep(p)
       PROVE  IInv'
  BY <1>11, KeepInv
<1>12. ASSUME NEW k \in Key, Insert(k)
       PROVE  IInv'
  <2>1. /\ Arena!Emplace(k) /\ UNCHANGED iterators
        /\ use \in {"none", "hold", "keep"} \/ InLoop \/ InScan
    BY <1>12 DEF Insert
  <2>2. Grown(arena, arena') /\ use # "range"
    BY <1>0, <2>1, Inserting DEF InLoop, InScan
  <2> QED
    BY <2>1, <2>2, GrownInv
<1>13. ASSUME NEW k \in Key, Erase(k)
       PROVE  IInv'
  <2>1. /\ Arena!Erase(k)
        /\ visited' = visited \intersect Elements'
        /\ UNCHANGED <<use, node, position, bucket, doomed, todo, start>>
        /\ \/ use = "none"
           \/ use \in {"hold", "keep"} /\ k \notin start
           \/ EraseElsewhere /\ use = "loop" /\ k # KeyOf(node)
    BY <1>13 DEF Erase, InLoop, Elements
  <2>2. CASE arena' = arena
    <3>1. visited' = visited
      BY <2>1, <2>2 DEF IInv, TypeOK, Elements
    <3> QED
      BY <2>1, <2>2, <3>1, Unmoved DEF iterators
  <2>3. CASE \E n \in Elements : KeyOf(n) = k /\ Gone(arena, arena', n)
    <3>1. PICK n \in Elements : KeyOf(n) = k /\ Gone(arena, arena', n)
      BY <2>3
    <3> QED
      BY <2>1, <3>1, GoneInv
  <2> QED
    BY <1>0, <2>1, <2>2, <2>3, Erasing
<1>14. CASE Rehash
  <2>1. /\ Arena!Rehash /\ UNCHANGED iterators /\ use # "range"
    BY <1>14 DEF Rehash
  <2>2. Grown(arena, arena') /\ arena'.iteration = arena.iteration
    BY <1>0, <2>1, Rehashing
  <2> QED
    BY <2>1, <2>2, GrownInv
<1>15. CASE Clear
  <2>1. /\ arena' = clear(arena) /\ use = "none"
        /\ UNCHANGED <<use, node, position, bucket, doomed, todo, start, visited>>
        /\ node = kNullIndex /\ position = 0 /\ todo = << >> /\ visited = {}
    BY <1>15, ArenaOperators
       DEF Clear, Arena!Clear, Arena!Returns, iterators, IInv, AtRest
  <2>2. Settled(arena') /\ Len(arena'.iteration) \in Nat
    BY <1>0, <2>1, SettledWhenEmpty, Positions DEF Settled
  <2>3. TypeOK'
    BY <2>1, <2>2 DEF IInv, TypeOK, iteration
  <2> QED
    BY <2>1, <2>2, <2>3
       DEF IInv, AtRest, LoopInv, RangeInv, ScanInv, ScanVisitsBucket,
           HeldIteratorDenotes
<1>16. CASE UNCHANGED vars
  <2>1. UNCHANGED <<arena, iterators>>
    BY <1>16 DEF vars, container
  <2> QED
    BY <2>1, Unmoved
<1> QED
  BY <1>1, <1>2, <1>3, <1>4, <1>5, <1>6, <1>7, <1>8, <1>9, <1>10, <1>11, <1>12,
     <1>13, <1>14, <1>15, <1>16 DEF Next

(* Whatever uses of iterators follow one another, and whatever other calls *)
(* are made on the way, the container stays sound and each iterator in use *)
(* stays where its kind promises.                                          *)
THEOREM TraversalInvariant == Spec => []IInv
<1> QED
  BY InitInv, StepInv, PTL DEF Spec

(* No global iterator in use dangles and no scan passes the end, whatever  *)
(* the other calls of Spec are.  A local iterator that is kept while other *)
(* elements are erased is exempt: its position may pass the end.           *)
THEOREM IteratorsNeverDangle == Spec => []TypeOK
<1>1. IInv => TypeOK
  BY DEF IInv
<1> QED
  BY <1>1, TraversalInvariant, PTL

(* What find or the erasure of a range returned denotes its element across *)
(* insertions, rehashes and erasures of others (COMPATIBILITY.md:11-16).   *)
THEOREM HeldIteratorsDenote == Spec => []HeldIteratorDenotes
<1>1. IInv => HeldIteratorDenotes
  BY DEF IInv
<1> QED
  BY <1>1, TraversalInvariant, PTL

(* begin(n) and ++ visit all elements of bucket n and no other ones.       *)
THEOREM ScansVisitTheirBucket == Spec => []ScanVisitsBucket
<1>1. IInv => ScanVisitsBucket
  BY DEF IInv
<1> QED
  BY <1>1, TraversalInvariant, PTL

(* erase(first, last) erases its range, no more and no less. *)
THEOREM RangesErasedExactly == Spec => []RangeErasedExactly
<1>1. IInv => RangeErasedExactly
  <2> SUFFICES ASSUME IInv, use = "range", todo = << >>
               PROVE  Contents = start \ doomed
    BY DEF RangeErasedExactly
  <2>1. KeysOf(ToErase) = {}
    BY DEF KeysOf, ToErase
  <2> QED
    BY <2>1 DEF IInv, RangeInv
<1> QED
  BY <1>1, TraversalInvariant, PTL

(* Without erasures behind its back, a loop that erases as it goes passes  *)
(* each element once: what lies before its iterator is what it has passed  *)
(* and kept.                                                               *)
THEOREM LoopsPassEachOnce == ~EraseElsewhere => (Spec => []LoopPassesEachOnce)
<1> SUFFICES ASSUME ~EraseElsewhere
             PROVE  Spec => []LoopPassesEachOnce
  OBVIOUS
<1>1. IInv => LoopPassesEachOnce
  BY PassedIsBehind DEF IInv, LoopInv, TypeOK, LoopPassesEachOnce
<1> QED
  BY <1>1, TraversalInvariant, PTL

(* At its end erase_if has erased what its predicate is true of, and kept  *)
(* the others.                                                             *)
THEOREM EraseIfIsExact == ~EraseElsewhere => (Spec => []EraseIfRemovesExactly)
<1> SUFFICES ASSUME ~EraseElsewhere
             PROVE  Spec => []EraseIfRemovesExactly
  OBVIOUS
<1>1. IInv => EraseIfRemovesExactly
  <2> SUFFICES ASSUME IInv, use = "loop", node = kNullIndex
               PROVE  /\ Contents \intersect doomed = {}
                      /\ start \ doomed \subseteq Contents
    BY DEF EraseIfRemovesExactly
  <2>1. Elements = visited
    BY DEF IInv, LoopInv, Passed, Elements, Linked
  <2> QED
    BY <2>1 DEF IInv, LoopInv, Contents
<1> QED
  BY <1>1, TraversalInvariant, PTL
=============================================================================
