---------------------------- MODULE NodeStorage ----------------------------
(***************************************************************************)
(* The storage of a detail::hash_table and what its member functions do to *)
(* it: a slot of the node arena is acquired, a value constructed in it, the *)
(* node linked into iteration_ and indexed, and all that undone.  A node's *)
(* aux word is its position in iteration_ while it is linked and the next  *)
(* free node while it is free.                                             *)
(*                                                                         *)
(* Operators on one storage record, for the modules that have one or two.  *)
(* The index is the set of nodes a lookup reaches, and a value is its key. *)
(***************************************************************************)
EXTENDS Integers, Sequences, FiniteSets

CONSTANTS
  Key,
  NoKey,         \* a slot without a constructed value
  kNullIndex,    \* no node: 0xFFFFFFFF in the code
  kChunkSize     \* nodes per chunk

ASSUME StorageAssumption ==
  /\ kChunkSize \in Nat \ {0}
  /\ kNullIndex \notin Nat
  /\ NoKey \notin Key

Linked(a) == {a.iteration[p] : p \in 1 .. Len(a.iteration)}
Freed(a) == {a.freed[i] : i \in 1 .. Len(a.freed)}

EmptyArena ==
  [capacity         |-> 0,      \* chunks_.size() * kChunkSize
   arena_high_water |-> 0,
   free_list_head   |-> kNullIndex,
   freed            |-> << >>,  \* the free list, its head last (auxiliary)
   aux              |-> [n \in 0 .. -1 |-> kNullIndex],
   value            |-> [n \in 0 .. -1 |-> NoKey],
   iteration        |-> << >>,
   indexed          |-> {}]

-----------------------------------------------------------------------------
(* Slots.  A fresh chunk is raw memory: its aux words are never read       *)
(* before they are written, so what they hold is immaterial.               *)

NeedsChunk(a) ==
  a.free_list_head = kNullIndex /\ a.arena_high_water >= a.capacity

ensure_arena_slot(a) ==
  LET slots == 0 .. a.capacity + kChunkSize - 1
  IN  IF ~NeedsChunk(a)
      THEN a
      ELSE [a EXCEPT
              !.capacity = @ + kChunkSize,
              !.aux   = [n \in slots |-> IF n < a.capacity THEN @[n]
                                                           ELSE kNullIndex],
              !.value = [n \in slots |-> IF n < a.capacity THEN @[n] ELSE NoKey]]

next_node(a) ==
  IF a.free_list_head # kNullIndex THEN a.free_list_head ELSE a.arena_high_water

pop_back(s) == SubSeq(s, 1, Len(s) - 1)

acquire_node(a) ==
  LET b == ensure_arena_slot(a)
  IN  IF b.free_list_head # kNullIndex
      THEN [b EXCEPT !.free_list_head = b.aux[b.free_list_head],
                     !.freed = pop_back(@)]
      ELSE [b EXCEPT !.arena_high_water = @ + 1]

(* Mutant: the freed node heads the list without its link to the rest. *)
ReleaseWithoutLink(a, n) ==
  [a EXCEPT !.free_list_head = n, !.freed = Append(@, n)]

release_node(a, n) ==
  [a EXCEPT !.aux[n] = a.free_list_head,
            !.free_list_head = n,
            !.freed = Append(@, n)]

construct_value(a, n, k) == [a EXCEPT !.value[n] = k]
destroy_value(a, n) == [a EXCEPT !.value[n] = NoKey]

(* Mutant: the slot is given back with its value still alive. *)
DiscardWithoutDestroy(a, n) == release_node(a, n)

(* The catch blocks, and the end of an emplace that found its key. *)
discard_node(a, n) == release_node(destroy_value(a, n), n)

-----------------------------------------------------------------------------
(* The iteration vector and the index. *)

link_into_iteration(a, n) ==
  [a EXCEPT !.aux[n] = Len(a.iteration), !.iteration = Append(@, n)]

insert_known_absent(a, n) == [a EXCEPT !.indexed = @ \union {n}]

(* Mutant: the element that moves down keeps its old position. *)
UnlinkWithoutRenumber(a, n) ==
  [a EXCEPT !.iteration =
     pop_back([@ EXCEPT ![a.aux[n] + 1] = a.iteration[Len(a.iteration)]])]

(* Swap with the back, then pop: the last element takes the free position. *)
unlink_from_iteration(a, n) ==
  LET position == a.aux[n]
      last     == a.iteration[Len(a.iteration)]
  IN  [a EXCEPT !.iteration = pop_back([@ EXCEPT ![position + 1] = last]),
                !.aux[last] = position]

(* rehash_to rebuilds the index from iteration_. *)
rehash_to(a) == [a EXCEPT !.indexed = Linked(a)]

(* Mutant: the bucket of the erased node is left in place. *)
EraseWithoutUnindexing(a, n) ==
  release_node(unlink_from_iteration(destroy_value(a, n), n), n)

(* Mutant: the last value moves into the erased slot. *)
EraseByMovingValue(a, n) ==
  LET last == a.iteration[Len(a.iteration)]
  IN  release_node([a EXCEPT !.value =
                               [@ EXCEPT ![n] = a.value[last], ![last] = NoKey],
                             !.iteration = pop_back(@),
                             !.indexed = @ \ {last}], last)

(* The bucket goes first, while the key it is found by is still alive. *)
erase_located(a, n) ==
  release_node(
    unlink_from_iteration(
      destroy_value([a EXCEPT !.indexed = @ \ {n}], n), n), n)

(* Mutant: the free list survives the slots it names. *)
ClearKeepsFreeList(a) ==
  [a EXCEPT !.arena_high_water = 0,
            !.value = [n \in DOMAIN @ |-> IF n \in Linked(a) THEN NoKey ELSE @[n]],
            !.iteration = << >>,
            !.indexed = {}]

(* Mutant: iteration_ survives the elements. *)
ClearKeepsIteration(a) ==
  [a EXCEPT !.arena_high_water = 0,
            !.free_list_head = kNullIndex,
            !.freed = << >>,
            !.value = [n \in DOMAIN @ |-> IF n \in Linked(a) THEN NoKey ELSE @[n]],
            !.indexed = {}]

(* Every element is destroyed; chunks and bucket array stay allocated. *)
clear(a) ==
  [a EXCEPT !.arena_high_water = 0,
            !.free_list_head = kNullIndex,
            !.freed = << >>,
            !.value = [n \in DOMAIN @ |-> IF n \in Linked(a) THEN NoKey ELSE @[n]],
            !.iteration = << >>,
            !.indexed = {}]

-----------------------------------------------------------------------------
(* What a storage record must satisfy. *)

Slots(a) == 0 .. a.arena_high_water - 1

ArenaTypeOK(a) ==
  /\ a \in [capacity         : Nat,
            arena_high_water : Nat,
            free_list_head   : Slots(a) \union {kNullIndex},
            freed            : Seq(Slots(a)),
            aux              : [0 .. a.capacity - 1 -> Nat \union {kNullIndex}],
            value            : [0 .. a.capacity - 1 -> Key \union {NoKey}],
            iteration        : Seq(Slots(a)),
            indexed          : SUBSET Slots(a)]
  /\ a.arena_high_water <= a.capacity

Injective(s) == \A i, j \in 1 .. Len(s) : s[i] = s[j] => i = j

NeverShared(a) ==
  /\ Injective(a.iteration)
  /\ Injective(a.freed)
  /\ Linked(a) \intersect Freed(a) = {}

PositionsMatch(a) ==
  \A p \in 1 .. Len(a.iteration) : a.aux[a.iteration[p]] = p - 1

FreeListChained(a) ==
  /\ a.free_list_head =
       IF a.freed = << >> THEN kNullIndex ELSE a.freed[Len(a.freed)]
  /\ \A i \in 1 .. Len(a.freed) :
       a.aux[a.freed[i]] = IF i = 1 THEN kNullIndex ELSE a.freed[i - 1]

Accounted(a) ==
  /\ Slots(a) \subseteq Linked(a) \union Freed(a)
  /\ \A n \in DOMAIN a.value : a.value[n] # NoKey <=> n \in Linked(a)

KeysDistinct(a) ==
  \A m, n \in Linked(a) : a.value[m] = a.value[n] => m = n

StructureOK(a) ==
  /\ ArenaTypeOK(a)
  /\ a.indexed \subseteq Linked(a)
  /\ NeverShared(a)
  /\ PositionsMatch(a)
  /\ FreeListChained(a)
=============================================================================
