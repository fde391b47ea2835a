----------------------------- MODULE NodeArena -----------------------------
(***************************************************************************)
(* The calls on one detail::hash_table and its node handles, with what is  *)
(* left behind when a step of a call throws.                               *)
(*                                                                         *)
(* One action per call.  Abstractions: the index is the set of nodes a     *)
(* lookup reaches (RobinHood shows it finds exactly those), whether an     *)
(* insertion grows the bucket array is left open (RobinHood decides it), a *)
(* value is its key, and a call throws at no more than one place.          *)
(***************************************************************************)
EXTENDS NodeStorage

CONSTANTS
  MaxCapacity,   \* the bound of an instance on the slots it may hold
  Throws,        \* the places where a call may throw
  HandleThrows,  \* the same for insert(node_type&&) once the value has moved
  HintInserts    \* insert(hint, node_type&&) is called as well

ASSUME ArenaAssumption == MaxCapacity \in Nat

ThrowSites == {"chunk", "chunk_push", "construct", "hash", "rehash",
               "rehash_hash", "link", "index_hash"}

ASSUME ThrowAssumption == Throws \subseteq ThrowSites
                          /\ HandleThrows \subseteq ThrowSites

ASSUME HintAssumption == HintInserts \in BOOLEAN

VARIABLES
  arena,         \* nodes, free list, iteration vector and index, see EmptyArena
  bucket_array,  \* "none", "present", or "lost": freed with bucket_count_ left
  handles,       \* elements in node handles
  chunk_leaked,  \* a chunk was allocated that chunks_ does not name (auxiliary)
  outcome        \* what the last call did

vars == <<arena, bucket_array, handles, chunk_leaked, outcome>>

Found(k) == \E n \in arena.indexed : arena.value[n] = k
NodeOf(k) == CHOOSE n \in arena.indexed : arena.value[n] = k

-----------------------------------------------------------------------------
Init ==
  /\ arena = EmptyArena
  /\ bucket_array = "none"
  /\ handles = {}
  /\ chunk_leaked = FALSE
  /\ outcome = "none"

(* After rehash_to has lost the bucket array every lookup reads through a  *)
(* null pointer: only clear, rehash and teardown keep a defined behaviour. *)
LookupDefined == bucket_array # "lost"

(* The bound of an instance on the arena. *)
HasRoom == NeedsChunk(arena) => arena.capacity + kChunkSize <= MaxCapacity

Returns(o, a) == outcome' = o /\ arena' = a

ThrowsAt(site, sites, a) == site \in sites /\ Returns("threw", a)

(* ensure_arena_slot: the chunk is allocated, then recorded. *)
AcquireThrows ==
  /\ NeedsChunk(arena)
  /\ \/ ThrowsAt("chunk", Throws, arena) /\ UNCHANGED chunk_leaked
     \/ ThrowsAt("chunk_push", Throws, arena) /\ chunk_leaked' = TRUE
  /\ UNCHANGED <<bucket_array, handles>>

(* rehash_to frees the old array before it asks for the new one: when that *)
(* throws, the index is gone and bucket_count_ still says otherwise.       *)
Unindexed(a) == [a EXCEPT !.indexed = {}]
LoseBuckets == bucket_array' = IF bucket_array = "none" THEN "none" ELSE "lost"

(* A hash that throws while rehash_to walks iteration_ leaves a prefix.    *)
PartlyIndexed(a) ==
  {[a EXCEPT !.indexed = {a.iteration[p] : p \in 1 .. done}] :
     done \in 0 .. Len(a.iteration) - 1}

(* The end shared by emplace_impl, try_emplace_impl and insert(node): node *)
(* n of a holds a value whose key is not in the container.                 *)
InsertNode(a, n, sites) ==
  \/ ThrowsAt("rehash", sites, discard_node(Unindexed(a), n)) /\ LoseBuckets
  \/ /\ bucket_array' = "present"
     /\ \/ \E b \in PartlyIndexed(a) :
             ThrowsAt("rehash_hash", sites, discard_node(b, n))
        \/ \E b \in {rehash_to(a)} \union
                    (IF bucket_array = "none" THEN {} ELSE {a}) :
             \/ ThrowsAt("link", sites, discard_node(b, n))
             \/ ThrowsAt("index_hash", sites, link_into_iteration(b, n))
             \/ Returns("yes", insert_known_absent(link_into_iteration(b, n), n))

(* emplace_impl: construct first, then look the key up. *)
Emplace(k) ==
  LET n == next_node(arena)
      a == acquire_node(arena)
      b == construct_value(a, n, k)
  IN  /\ LookupDefined
      /\ HasRoom
      /\ \/ AcquireThrows
         \/ /\ UNCHANGED <<handles, chunk_leaked>>
            /\ \/ /\ \/ ThrowsAt("construct", Throws, release_node(a, n))
                     \/ ThrowsAt("hash", Throws, b)
                     \/ Found(k) /\ Returns("no", discard_node(b, n))
                  /\ UNCHANGED bucket_array
               \/ ~Found(k) /\ InsertNode(b, n, Throws)

(* try_emplace_impl, operator[], insert_or_assign: look up first. *)
TryEmplace(k) ==
  LET n == next_node(arena)
      a == acquire_node(arena)
      b == construct_value(a, n, k)
  IN  /\ LookupDefined
      /\ HasRoom
      /\ \/ /\ \/ ThrowsAt("hash", Throws, arena)
               \/ Found(k) /\ Returns("no", arena)
            /\ UNCHANGED <<bucket_array, handles, chunk_leaked>>
         \/ ~Found(k) /\ AcquireThrows
         \/ /\ ~Found(k)
            /\ UNCHANGED <<handles, chunk_leaked>>
            /\ \/ /\ ThrowsAt("construct", Throws, release_node(a, n))
                  /\ UNCHANGED bucket_array
               \/ InsertNode(b, n, Throws)

(* insert(node_type&&), with a hint or without one: the value moves out of *)
(* the handle before the steps of InsertNode, and is destroyed with the    *)
(* slot when one of them throws.                                           *)
InsertHandle(k) ==
  LET n == next_node(arena)
      a == acquire_node(arena)
      b == construct_value(a, n, k)
  IN  /\ LookupDefined
      /\ HasRoom
      /\ k \in handles
      /\ ~Found(k)
      /\ \/ AcquireThrows
         \/ /\ \/ ThrowsAt("hash", Throws, arena)
               \/ ThrowsAt("construct", Throws, release_node(a, n))
            /\ UNCHANGED <<bucket_array, handles, chunk_leaked>>
         \/ /\ InsertNode(b, n, HandleThrows)
            /\ handles' = handles \ {k}
            /\ UNCHANGED chunk_leaked

(* insert(node_type&&) where the key is taken: the result hands the node   *)
(* back.                                                                   *)
RefuseHandle(k) ==
  /\ LookupDefined
  /\ k \in handles
  /\ Found(k)
  /\ Returns("no", arena)
  /\ UNCHANGED <<bucket_array, handles, chunk_leaked>>

(* insert(hint, node_type&&) keeps only the position of that result: the   *)
(* node it hands back dies with the temporary, and the element with it.    *)
RefuseHint(k) ==
  /\ HintInserts
  /\ LookupDefined
  /\ k \in handles
  /\ Found(k)
  /\ Returns("no", arena)
  /\ handles' = handles \ {k}
  /\ UNCHANGED <<bucket_array, chunk_leaked>>

(* ~node_type *)
DropHandle(k) ==
  /\ k \in handles
  /\ handles' = handles \ {k}
  /\ Returns("yes", arena)
  /\ UNCHANGED <<bucket_array, chunk_leaked>>

(* The bound of an instance: one handle for a key at a time. *)
OneHandle(k) == k \notin handles

(* handle.key() = l: the caller writes through the reference it was given.  *)
Rekey(k, l) ==
  /\ k \in handles
  /\ OneHandle(l)
  /\ handles' = (handles \ {k}) \union {l}
  /\ Returns("yes", arena)
  /\ UNCHANGED <<bucket_array, chunk_leaked>>

(* Mutant: the element moves out and its node stays in the container. *)
ExtractWithoutErase(k) ==
  /\ LookupDefined
  /\ Found(k)
  /\ OneHandle(k)
  /\ Returns("yes", arena)
  /\ handles' = handles \union {k}
  /\ UNCHANGED <<bucket_array, chunk_leaked>>

(* extract(key), extract(iterator): allocate, move out, erase. *)
Extract(k) ==
  /\ LookupDefined
  /\ \/ /\ Found(k)
        /\ OneHandle(k)
        /\ Returns("yes", erase_located(arena, NodeOf(k)))
        /\ handles' = handles \union {k}
     \/ /\ \/ ~Found(k) /\ Returns("no", arena)
           \/ Found(k) /\ ThrowsAt("construct", Throws, arena)
           \/ ThrowsAt("hash", Throws, arena)
        /\ UNCHANGED handles
  /\ UNCHANGED <<bucket_array, chunk_leaked>>

(* erase(key), erase(iterator). *)
Erase(k) ==
  /\ LookupDefined
  /\ \/ Found(k) /\ Returns("yes", erase_located(arena, NodeOf(k)))
     \/ ~Found(k) /\ Returns("no", arena)
     \/ ThrowsAt("hash", Throws, arena)
  /\ UNCHANGED <<bucket_array, handles, chunk_leaked>>

Clear ==
  /\ Returns("yes", clear(arena))
  /\ UNCHANGED <<bucket_array, handles, chunk_leaked>>

(* rehash(n) and reserve(n); rehash(0) frees the array of an empty table. *)
Rehash ==
  /\ \/ Returns("yes", rehash_to(arena)) /\ bucket_array' = "present"
     \/ /\ arena.iteration = << >>
        /\ Returns("yes", arena)
        /\ bucket_array' = "none"
     \/ ThrowsAt("rehash", Throws, Unindexed(arena)) /\ LoseBuckets
     \/ /\ \E a \in PartlyIndexed(arena) : ThrowsAt("rehash_hash", Throws, a)
        /\ bucket_array' = "present"
  /\ UNCHANGED <<handles, chunk_leaked>>

(* Move assignment from an empty table: destroy_everything, then empty.    *)
Teardown ==
  /\ Returns("yes", EmptyArena)
  /\ bucket_array' = "none"
  /\ UNCHANGED <<handles, chunk_leaked>>

Next ==
  \/ \E k \in Key :
       \/ Emplace(k)      \/ TryEmplace(k)   \/ Erase(k)
       \/ Extract(k)      \/ InsertHandle(k) \/ RefuseHandle(k)
       \/ RefuseHint(k)   \/ DropHandle(k)
       \/ \E l \in Key : Rekey(k, l)
  \/ Clear
  \/ Rehash
  \/ Teardown

Spec == Init /\ [][Next]_vars

-----------------------------------------------------------------------------
(* Properties *)

(* Every slot the free list, iteration_ and the index name has been handed *)
(* out by the arena and not withdrawn by clear().                          *)
TypeOK ==
  /\ ArenaTypeOK(arena)
  /\ bucket_array \in {"none", "present", "lost"}
  /\ handles \subseteq Key
  /\ chunk_leaked \in BOOLEAN
  /\ outcome \in {"none", "yes", "no", "threw"}

(* Wherever a call throws, no slot is on the free list twice, in iteration_ *)
(* twice, or in both: two elements never share storage (acquire_node,       *)
(* release_node and the catch blocks).                                      *)
SlotsNeverShared == NeverShared(arena)

(* The aux word of a node is one of two things, and each reader finds the   *)
(* one it expects: a linked node's own position, which erase swaps with the *)
(* back, and a free node's successor, down to the end of the free list.     *)
AuxWordsAgree == PositionsMatch(arena) /\ FreeListChained(arena)

(* After every call, also one that threw, each slot handed out is an        *)
(* element or free, exactly the elements' slots hold a constructed value,   *)
(* and chunks_ owns every chunk allocated.                                  *)
NothingLeaks == Accounted(arena) /\ ~chunk_leaked

(* The index reaches every element of iteration_ and nothing else, and no   *)
(* key has two elements: what iteration counts and what lookups find agree. *)
IndexMatchesIteration ==
  arena.indexed = Linked(arena) /\ KeysDistinct(arena)

(* unordered_map.hpp:33, "exception safe": a call that throws leaves a      *)
(* container that can be used, here one whose lookups have a bucket array   *)
(* to read.                                                                 *)
BucketArrayPresent ==
  arena.iteration # << >> => bucket_array = "present"

(* The inductive invariant where every throw is one the code handles. *)
IInv ==
  /\ TypeOK
  /\ StructureOK(arena)
  /\ NothingLeaks
  /\ IndexMatchesIteration
  /\ BucketArrayPresent

Store == INSTANCE ElementStore
           WITH contents <- {arena.value[n] : n \in Linked(arena)}

(* Every call takes effect as it promises or throws and changes nothing:    *)
(* the strong guarantee test_edge_cases.cpp:240 tests for one of the places *)
(* a call can throw.  A handle whose key is taken keeps its element, as     *)
(* [unord.req] has it (COMPATIBILITY.md:3-5).                               *)
ImplementsElementStore == Store!Spec
=============================================================================
