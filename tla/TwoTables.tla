----------------------------- MODULE TwoTables -----------------------------
(***************************************************************************)
(* Several containers that construct, assign, swap and merge from each     *)
(* other, with the allocator each of their blocks comes from, and a node   *)
(* handle that carries an element between them.                            *)
(*                                                                         *)
(* The storage of a table is that of NodeStorage, its bucket count and its *)
(* threshold those of LoadPolicy.  A copy, an element-wise move and a      *)
(* merge take one step per element, each of which may throw; the other     *)
(* calls are one step.  An element stands for its value: two elements may  *)
(* have the same key.  Each container has a hash function; what matters    *)
(* here is with which one its elements were placed in the buckets.         *)
(***************************************************************************)
EXTENDS LoadPolicy, Sequences, FiniteSets, FiniteSetsExt

CONSTANTS
  Name,                 \* the container objects
  NoTable,              \* an object that is not constructed
  Element, NoElement, MovedFrom,
  KeyOf,                \* the key of an element
  Allocator,
  Hasher,               \* the states of hash functions (and key_equals)
  AfterMove,            \* what is left of one that was moved from
  kNullIndex, kChunkSize,
  MaxCapacity,          \* the bound of an instance on the slots of a table
  Programs,             \* what a program sets up, see ProgramType
  Throws                \* <<loop, site>>: where a step of a loop may throw

kDefaultMaxLoadFactor == 80

(* The traits of the allocator; the elements that are emplaced; the hash    *)
(* functions that containers are constructed with; the factors              *)
(* given to max_load_factor(z); whether empty containers are copied over    *)
(* other ones, whether containers are move-constructed with an allocator    *)
(* that equals the source's, and whether node handles are constructed or    *)
(* assigned to.                                                             *)
ProgramType ==
  [pocca        : BOOLEAN,
   pocma        : BOOLEAN,
   pocs         : BOOLEAN,
   elements     : SUBSET Element,
   allocators   : SUBSET Allocator,
   hashers      : SUBSET Hasher,
   factors      : SUBSET Int,
   empty_copies : BOOLEAN,
   equal_moves  : BOOLEAN,
   handles      : {"none", "constructed", "assigned"}]

ASSUME TwoTablesAssumption ==
  /\ kChunkSize \in Nat \ {0}
  /\ kNullIndex \notin Nat
  /\ MovedFrom \notin Element
  /\ NoElement \notin Element \union {MovedFrom}
  /\ Programs \subseteq ProgramType
  /\ AfterMove \in [Hasher -> Hasher]
  /\ \A p \in Programs : \A h \in p.hashers : AfterMove[h] \in p.hashers

VARIABLES
  program,      \* the program that runs, chosen once
  table,        \* the data members of each container, see Fresh
  call,         \* the loop in progress: the nodes still to do, and (auxiliary)
                \* the contents of all containers before
  handle,       \* value_ and allocator_ of a node handle
  outstanding,  \* blocks taken from each allocator and not given back
  outcome       \* of the last call

vars == <<program, table, call, handle, outstanding, outcome>>

Arena == INSTANCE NodeStorage
           WITH Key <- Element \union {MovedFrom}, NoKey <- NoElement

Alive(t) == table[t] # NoTable
Idle == call.op = "none"

NoCall == [op |-> "none"]

Values(tbl) == {tbl.arena.value[n] : n \in Arena!Linked(tbl.arena)}
ValuesOf(t) == IF Alive(t) THEN Values(table[t]) ELSE {}
Contents == [t \in Name |-> ValuesOf(t)]
Size(tbl) == Len(tbl.arena.iteration)

-----------------------------------------------------------------------------
(* One table. *)

Fresh(allocator, factor, hasher) ==
  [arena             |-> Arena!EmptyArena,
   bucket_count      |-> 0,
   max_load_capacity |-> 0,
   max_load_factor   |-> factor,
   hash_function     |-> hasher,
   placed_with       |-> {},          \* auxiliary: by whom elements were placed
   allocator         |-> allocator,
   vectors           |-> allocator]   \* that of chunks_ and iteration_

(* Mutant: the free list survives the storage it names. *)
ResetKeepsFreeList(tbl) ==
  [tbl EXCEPT !.arena = [Arena!EmptyArena EXCEPT !.freed = tbl.arena.freed,
                           !.free_list_head = tbl.arena.free_list_head],
              !.bucket_count = 0,
              !.max_load_capacity = 0,
              !.placed_with = {}]

reset_to_empty_state(tbl) ==
  [tbl EXCEPT !.arena = Arena!EmptyArena,
              !.bucket_count = 0,
              !.max_load_capacity = 0,
              !.placed_with = {}]

rehash_to(tbl, count) ==
  [tbl EXCEPT !.arena = Arena!rehash_to(@),
              !.bucket_count = count,
              !.max_load_capacity =
                 compute_load_capacity(count, tbl.max_load_factor),
              !.placed_with = IF Size(tbl) = 0 THEN {} ELSE {tbl.hash_function}]

rehash(tbl, requested) ==
  LET target == rehash_target(requested, Size(tbl), tbl.max_load_factor)
  IN  IF target # 0
      THEN rehash_to(tbl, round_up_to_power_of_two(target))
      ELSE IF Size(tbl) = 0
           THEN [tbl EXCEPT !.bucket_count = 0, !.max_load_capacity = 0,
                            !.placed_with = {}]
           ELSE tbl

reserve(tbl, count) ==
  rehash(tbl, bucket_count_for_elements(count, tbl.max_load_factor))

reserve_for_one_more(tbl) ==
  IF tbl.bucket_count = 0
  THEN rehash_to(tbl, kInitialBucketCount)
  ELSE IF Size(tbl) + 1 > tbl.max_load_capacity
       THEN rehash_to(tbl, 2 * tbl.bucket_count)
       ELSE tbl

clear(tbl) == [tbl EXCEPT !.arena = Arena!clear(@), !.placed_with = {}]

(* What find and contains see of the key of e. *)
At(tbl, e) == {n \in tbl.arena.indexed : KeyOf[tbl.arena.value[n]] = KeyOf[e]}

contains(tbl, e) == At(tbl, e) # {}

(* Mutant: the sizes are not compared. *)
EqualsOneWay(l, r) ==
  \A e \in Values(l) : \E n \in At(r, e) : r.arena.value[n] = e

(* operator==: as many elements, and each is found on the other side.      *)
equals(l, r) ==
  /\ Size(l) = Size(r)
  /\ \A e \in Values(l) : \E n \in At(r, e) : r.arena.value[n] = e

Built(tbl, e) ==
  [tbl EXCEPT !.arena =
     Arena!construct_value(Arena!acquire_node(@), Arena!next_node(@), e)]

Discarded(tbl, n) == [tbl EXCEPT !.arena = Arena!discard_node(@, n)]

emplace_impl(tbl, e) ==
  LET n == Arena!next_node(tbl.arena)
  IN  IF contains(tbl, e)
      THEN Discarded(Built(tbl, e), n)
      ELSE [reserve_for_one_more(Built(tbl, e)) EXCEPT
              !.arena = Arena!insert_known_absent(Arena!link_into_iteration(@, n), n),
              !.placed_with = @ \union {tbl.hash_function}]

(* What throws: the hash or key_equal of a lookup before an element is     *)
(* built, the allocation of a chunk, the construction of a value, the      *)
(* first bucket array and the link into iteration_.                        *)
RestoredSites == {"lookup", "chunk", "construct", "buckets", "link"}

(* What throws where no catch block puts things back: chunks_.push_back,   *)
(* the hash or key_equal once the element is built, and the hash after it  *)
(* was linked.                                                             *)
StepSites == RestoredSites \union {"chunk_push", "hash", "index_hash"}

LinkedIn(tbl, n) == [tbl EXCEPT !.arena = Arena!link_into_iteration(@, n)]

(* What an emplace_impl that throws at a site leaves behind.               *)
EmplaceThrows(tbl, e, site) ==
  LET n     == Arena!next_node(tbl.arena)
      built == Built(tbl, e)
      grown == reserve_for_one_more(built)
  IN  CASE site \in {"lookup", "chunk", "chunk_push"} -> tbl
        [] site \in {"construct", "buckets"} -> Discarded(built, n)
        [] site = "link"                     -> Discarded(grown, n)
        [] site = "hash"                     -> built
        [] site = "index_hash"               -> LinkedIn(grown, n)

(* The bounds of an instance on slots and buckets. *)
HasRoom(tbl) ==
  /\ Arena!NeedsChunk(tbl.arena) => tbl.arena.capacity + kChunkSize <= MaxCapacity
  /\ 2 * tbl.bucket_count \in BucketCounts \union {0}

erase_value(tbl, e) ==
  [tbl EXCEPT !.arena = Arena!erase_located(@,
     CHOOSE n \in Arena!Linked(@) : @.value[n] = e)]

move_out(tbl, n) == [tbl EXCEPT !.arena = Arena!construct_value(@, n, MovedFrom)]

-----------------------------------------------------------------------------
(* Blocks: the chunks and the bucket array of a table. *)

Blocks(tbl) ==
  tbl.arena.capacity \div kChunkSize + (IF tbl.bucket_count = 0 THEN 0 ELSE 1)

(* What a table that stays takes and gives back through its own allocator. *)
Reallocated(old, new) ==
  outstanding' =
    [outstanding EXCEPT ![new.allocator] = @ + Blocks(new) - Blocks(old)]

(* destroy_everything, through the allocator the table has at the time.    *)
Destroyed(tbl) ==
  outstanding' = [outstanding EXCEPT ![tbl.allocator] = @ - Blocks(tbl)]

Returns(o) == outcome' = o

-----------------------------------------------------------------------------
Init ==
  /\ program \in Programs
  /\ table = [t \in Name |-> NoTable]
  /\ call = NoCall
  /\ \E a \in program.allocators :
       handle = [value |-> NoElement, allocator |-> a]
  /\ outstanding = [a \in Allocator |-> 0]
  /\ outcome = "none"

Construct(t, a, h) ==
  /\ Idle
  /\ ~Alive(t)
  /\ table' = [table EXCEPT ![t] = Fresh(a, kDefaultMaxLoadFactor, h)]
  /\ Returns("yes")
  /\ UNCHANGED <<program, call, handle, outstanding>>

Destroy(t) ==
  /\ Idle
  /\ Alive(t)
  /\ table' = [table EXCEPT ![t] = NoTable]
  /\ Destroyed(table[t])
  /\ Returns("yes")
  /\ UNCHANGED <<program, call, handle>>

(* A call that changes one table and goes through no loop of this module.  *)
Changes(t, tbl, o) ==
  /\ table' = [table EXCEPT ![t] = tbl]
  /\ Reallocated(table[t], tbl)
  /\ Returns(o)
  /\ UNCHANGED <<program, call, handle>>

Emplace(t, e) ==
  /\ Idle
  /\ Alive(t)
  /\ HasRoom(table[t])
  /\ Changes(t, emplace_impl(table[t], e),
             IF contains(table[t], e) THEN "no" ELSE "yes")

Erase(t, e) ==
  /\ Idle
  /\ e \in ValuesOf(t)
  /\ Changes(t, erase_value(table[t], e), "yes")

Clear(t) == Idle /\ Alive(t) /\ Changes(t, clear(table[t]), "yes")

(* rehash(0): as few buckets as the elements need, or none.                *)
Shrink(t) == Idle /\ Alive(t) /\ Changes(t, rehash(table[t], 0), "yes")

(* Mutant: the threshold stays that of the old factor. *)
SetFactorOnly(t, z) ==
  /\ Idle
  /\ Alive(t)
  /\ Changes(t, [table[t] EXCEPT !.max_load_factor =
                   IF z > 0 THEN z ELSE kDefaultMaxLoadFactor], "yes")

SetMaxLoadFactor(t, z) ==
  LET factor == IF z > 0 THEN z ELSE kDefaultMaxLoadFactor
  IN  /\ Idle
      /\ Alive(t)
      /\ Changes(t, [table[t] EXCEPT
                       !.max_load_factor = factor,
                       !.max_load_capacity =
                          IF table[t].bucket_count = 0 THEN @
                          ELSE compute_load_capacity(table[t].bucket_count, factor)],
                 "yes")

-----------------------------------------------------------------------------
(* Copies, moves and merges of one element after the other. *)

(* hash_function_ and key_equal_ of the table are moved from. *)
HashMoved(tbl) == [tbl EXCEPT !.hash_function = AfterMove[@]]

LoopOver(op, t, s) ==
  /\ call' = [op |-> op, to |-> t, from |-> s,
              todo |-> table[s].arena.iteration, before |-> Contents]
  /\ UNCHANGED <<program, handle, outcome>>

Begin(op, t, s, tbl) ==
  table' = [table EXCEPT ![t] = tbl] /\ LoopOver(op, t, s)

(* A move takes the hash function first, the elements one by one.          *)
BeginMove(op, t, s, tbl) ==
  /\ table' = [table EXCEPT ![t] = tbl, ![s] = HashMoved(table[s])]
  /\ LoopOver(op, t, s)

(* Mutant: room for one element less. *)
ReservedOneShort(tbl, s) == reserve(tbl, Size(table[s]) - 1)

Reserved(tbl, s) == reserve(tbl, Size(table[s]))

(* copy_contents_from: nothing is reserved for an empty source.            *)
copy_contents_from(op, t, s, tbl) ==
  IF Size(table[s]) = 0
  THEN /\ table' = [table EXCEPT ![t] = tbl]
       /\ Returns("yes")
       /\ UNCHANGED <<program, call, handle>>
  ELSE Begin(op, t, s, Reserved(tbl, s))

(* The copy constructors; a is what select_on_container_copy_construction  *)
(* or the caller chose.                                                    *)
CopyConstruct(t, s, a) ==
  LET fresh == Fresh(a, table[s].max_load_factor, table[s].hash_function)
  IN  /\ Idle
      /\ ~Alive(t)
      /\ Alive(s)
      /\ copy_contents_from("copy_construct", t, s, fresh)
      /\ Reallocated(fresh, table'[t])

Propagates(t, s) == program.pocca /\ table[t].allocator # table[s].allocator

(* Mutant: the vectors stay with the old allocator. *)
EmptiedButVectors(t, s) ==
  IF Propagates(t, s)
  THEN [reset_to_empty_state(table[t]) EXCEPT !.allocator = table[s].allocator]
  ELSE clear(table[t])

(* The vectors take part in the propagation by being move-assigned from    *)
(* empty ones: they follow the allocator only where moves propagate it.    *)
Emptied(t, s) ==
  IF Propagates(t, s)
  THEN [reset_to_empty_state(table[t]) EXCEPT
          !.allocator = table[s].allocator,
          !.vectors = IF program.pocma THEN table[s].allocator ELSE @]
  ELSE clear(table[t])

EmptiedForCopy(t, s) ==
  [Emptied(t, s) EXCEPT !.max_load_factor = table[s].max_load_factor,
                        !.hash_function = table[s].hash_function]

CopyAssign(t, s) ==
  LET emptied  == EmptiedForCopy(t, s)
      after    == table'[t]
      released == IF Propagates(t, s) THEN Blocks(table[t]) ELSE 0
  IN  /\ Idle
      /\ Alive(t)
      /\ Alive(s)
      /\ program.empty_copies \/ Size(table[s]) > 0
      /\ copy_contents_from("copy", t, s, emptied)
      /\ outstanding' =
           [a \in Allocator |->
              outstanding[a]
                - (IF a = table[t].allocator THEN released ELSE 0)
                + (IF a = after.allocator THEN Blocks(after) - Blocks(emptied)
                   ELSE 0)]

(* Mutant: the hash function stays. *)
StolenButHash(tbl, source) ==
  [source EXCEPT
     !.hash_function = tbl.hash_function,
     !.allocator = tbl.allocator,
     !.vectors = IF program.pocma THEN @ ELSE tbl.vectors]

(* steal_storage_from takes over every member but the allocator.  The      *)
(* vectors are move-assigned: with equal or propagated allocators they     *)
(* exchange pointers.                                                      *)
Stolen(tbl, source) ==
  [source EXCEPT
     !.allocator = tbl.allocator,
     !.vectors = IF program.pocma THEN @ ELSE tbl.vectors]

Steal(t, s, tbl, source) ==
  /\ table' = [table EXCEPT ![t] = Stolen(tbl, source),
                            ![s] = HashMoved(reset_to_empty_state(source))]
  /\ Returns("yes")
  /\ UNCHANGED <<program, call, handle>>

(* hash_table(hash_table&&): the allocator moves along.                    *)
MoveConstruct(t, s) ==
  /\ Idle
  /\ ~Alive(t)
  /\ Alive(s)
  /\ table' = [table EXCEPT ![t] = table[s],
                            ![s] = HashMoved(reset_to_empty_state(table[s]))]
  /\ Returns("yes")
  /\ UNCHANGED <<program, call, handle, outstanding>>

(* hash_table(hash_table&&, allocator).  With equal allocators the hash    *)
(* function is moved twice: by the initialisation of the new table, and    *)
(* then, from what that has left, by steal_storage_from.                   *)
MoveConstructWith(t, s, a) ==
  LET fresh == Fresh(a, table[s].max_load_factor, table[s].hash_function)
  IN  /\ Idle
      /\ ~Alive(t)
      /\ Alive(s)
      /\ IF a = table[s].allocator
         THEN /\ program.equal_moves
              /\ Steal(t, s, fresh, HashMoved(table[s]))
              /\ UNCHANGED outstanding
         ELSE /\ BeginMove("move_construct", t, s, Reserved(fresh, s))
              /\ Reallocated(fresh, table'[t])

(* Mutant: storage changes hands between unequal allocators. *)
MovesStorageAlways(t, s) == TRUE

MovesStorage(t, s) == program.pocma \/ table[t].allocator = table[s].allocator

EmptiedForMove(t, s) ==
  [clear(table[t]) EXCEPT !.max_load_factor = table[s].max_load_factor,
                          !.hash_function = table[s].hash_function]

MoveAssign(t, s) ==
  /\ Idle
  /\ Alive(t)
  /\ Alive(s)
  /\ IF MovesStorage(t, s)
     THEN /\ Steal(t, s, [table[t] EXCEPT
                            !.allocator = IF program.pocma
                                          THEN table[s].allocator ELSE @],
                   table[s])
          /\ Destroyed(table[t])
     ELSE LET emptied == EmptiedForMove(t, s)
          IN  /\ BeginMove("move", t, s, Reserved(emptied, s))
              /\ Reallocated(emptied, table'[t])

(* The reserve of an assignment throws where there is no bucket array (an   *)
(* old one would be freed first: NodeArena has that).  That of a            *)
(* constructor leaves nothing behind.                                       *)
ReserveThrows(op, t, s) ==
  LET emptied == IF op = "copy" THEN EmptiedForCopy(t, s) ELSE EmptiedForMove(t, s)
  IN  /\ Idle
      /\ Alive(t)
      /\ Alive(s)
      /\ <<op, "reserve">> \in Throws
      /\ op = "move" => ~MovesStorage(t, s)
      /\ Size(table[s]) > 0
      /\ emptied.bucket_count = 0
      /\ table' = [table EXCEPT ![t] = emptied,
                                ![s] = IF op = "move" THEN HashMoved(@) ELSE @]
      /\ IF op = "copy" /\ Propagates(t, s)
         THEN Destroyed(table[t]) ELSE UNCHANGED outstanding
      /\ Returns("threw")
      /\ UNCHANGED <<program, call, handle>>

(* merge_from lists the source's nodes first. *)
Merge(t, s) ==
  /\ Idle
  /\ Alive(t)
  /\ Alive(s)
  /\ Begin("merge", t, s, table[t])
  /\ UNCHANGED outstanding

-----------------------------------------------------------------------------
Working(ops) == call.op \in ops /\ call.todo # << >>

to   == table[call.to]
from == table[call.from]
node == Head(call.todo)
value == from.arena.value[node]

Copying == {"copy", "copy_construct"}
Moving == {"move", "move_construct"}
Constructing == {"copy_construct", "move_construct"}

Proceed(target, source) ==
  /\ table' = [table EXCEPT ![call.to] = target, ![call.from] = source]
  /\ Reallocated(to, target)
  /\ call' = [call EXCEPT !.todo = Tail(@)]
  /\ UNCHANGED <<program, handle, outcome>>

CopyNext == Working(Copying) /\ Proceed(emplace_impl(to, value), from)

MoveNext ==
  Working(Moving) /\ Proceed(emplace_impl(to, value), move_out(from, node))

(* Mutant: a taken key is emplaced, in vain, and then erased. *)
MergeNextAlways ==
  /\ Working({"merge"})
  /\ Proceed(emplace_impl(to, value),
             [from EXCEPT !.arena = Arena!erase_located(@, node)])

(* The value moves into a node of the target, its old node is erased.      *)
MergeNext ==
  /\ Working({"merge"})
  /\ ~contains(to, value)
  /\ Proceed(emplace_impl(to, value),
             [from EXCEPT !.arena = Arena!erase_located(@, node)])

MergeSkip == Working({"merge"}) /\ contains(to, value) /\ Proceed(to, from)

(* The value is moved when it is constructed; what the constructor did to   *)
(* it before it threw is not known.                                         *)
MovedWhenThrown(site) ==
  IF call.op \in Copying \/ site \in {"lookup", "chunk", "chunk_push"} THEN {FALSE}
  ELSE IF site = "construct" THEN BOOLEAN ELSE {TRUE}

(* A step throws and the call with it.  A constructor's object is gone     *)
(* without its destructor; a value moved into the target died there.  Only *)
(* a merge looks the key up before emplace_impl does.  A chunk that does   *)
(* not get into chunks_ is lost.                                           *)
StepThrows(site) ==
  LET left == EmplaceThrows(to, value, site)
  IN  /\ Working(Copying \union Moving \union {"merge"})
      /\ <<call.op, site>> \in Throws
      /\ site = "lookup" => call.op = "merge"
      /\ site \in {"chunk", "chunk_push"} => Arena!NeedsChunk(to.arena)
      /\ site = "buckets" => to.bucket_count = 0
      /\ call.op = "merge" /\ site # "lookup" => ~contains(to, value)
      /\ \E gone \in MovedWhenThrown(site) :
           table' = [table EXCEPT
                       ![call.to] = IF call.op \in Constructing THEN NoTable ELSE left,
                       ![call.from] = IF gone THEN move_out(from, node) ELSE @]
      /\ IF site = "chunk_push"
         THEN outstanding' = [outstanding EXCEPT ![to.allocator] = @ + 1]
         ELSE Reallocated(to, left)
      /\ call' = NoCall
      /\ Returns("threw")
      /\ UNCHANGED <<program, handle>>

(* Only an element-wise move has something left to do: clear the source.   *)
EndCall ==
  /\ ~Idle
  /\ call.todo = << >>
  /\ table' = IF call.op \in Moving
              THEN [table EXCEPT ![call.from] = clear(@)] ELSE table
  /\ call' = NoCall
  /\ Returns("yes")
  /\ UNCHANGED <<program, handle, outstanding>>

(* Mutant: the thresholds stay where they are. *)
SwapKeepsThreshold(t, s) ==
  /\ Idle
  /\ Alive(t) /\ Alive(s)
  /\ program.pocs \/ table[t].allocator = table[s].allocator
  /\ table' = [table EXCEPT
                 ![t] = [table[s] EXCEPT !.max_load_capacity = table[t].max_load_capacity],
                 ![s] = [table[t] EXCEPT !.max_load_capacity = table[s].max_load_capacity]]
  /\ Returns("yes")
  /\ UNCHANGED <<program, call, handle, outstanding>>

(* Every member is swapped, the allocators where the trait says so.        *)
(* Undefined, as for the standard containers, for unequal allocators that  *)
(* do not propagate.                                                       *)
Swap(t, s) ==
  /\ Idle
  /\ Alive(t) /\ Alive(s)
  /\ program.pocs \/ table[t].allocator = table[s].allocator
  /\ table' = [table EXCEPT ![t] = table[s], ![s] = table[t]]
  /\ Returns("yes")
  /\ UNCHANGED <<program, call, handle, outstanding>>

-----------------------------------------------------------------------------
(* Node handles. *)

HandleBlocks == IF handle.value = NoElement THEN 0 ELSE 1

(* The handle is constructed from the one extract returns, or move-assigned *)
(* from it: then it keeps its allocator where moves do not propagate.  As   *)
(* in the standard, a handle that holds an element with another allocator   *)
(* is not assigned to.                                                      *)
MayTake(a) ==
  \/ program.handles = "constructed"
  \/ /\ program.handles = "assigned"
     /\ handle.value = NoElement \/ program.pocma \/ handle.allocator = a

AllocatorAfterTaking(a) ==
  IF program.handles = "constructed" \/ program.pocma THEN a ELSE handle.allocator

(* extract, and what becomes of the handle that takes the result.           *)
Extract(t, e) ==
  LET a == table[t].allocator
  IN  /\ Idle
      /\ e \in ValuesOf(t)
      /\ MayTake(a)
      /\ table' = [table EXCEPT ![t] = erase_value(@, e)]
      /\ outstanding' = [b \in Allocator |->
                           outstanding[b]
                             - (IF b = handle.allocator THEN HandleBlocks ELSE 0)
                             + (IF b = a THEN 1 ELSE 0)]
      /\ handle' = [value |-> e, allocator |-> AllocatorAfterTaking(a)]
      /\ Returns("yes")
      /\ UNCHANGED <<program, call>>

Released ==
  /\ handle' = [handle EXCEPT !.value = NoElement]
  /\ outstanding' = [outstanding EXCEPT ![handle.allocator] = @ - HandleBlocks]

(* ~node_type. *)
DropHandle ==
  /\ Idle
  /\ handle.value # NoElement
  /\ Released
  /\ Returns("yes")
  /\ UNCHANGED <<program, table, call>>

(* insert(node_type&&): a handle whose key is taken keeps its element.     *)
InsertHandle(t) ==
  LET new == emplace_impl(table[t], handle.value)
      a   == table[t].allocator
  IN  /\ Idle
      /\ Alive(t)
      /\ handle.value # NoElement
      /\ HasRoom(table[t])
      /\ IF contains(table[t], handle.value)
         THEN Returns("no") /\ UNCHANGED <<table, handle, outstanding>>
         ELSE /\ table' = [table EXCEPT ![t] = new]
              /\ handle' = [handle EXCEPT !.value = NoElement]
              /\ outstanding' = [b \in Allocator |->
                                   outstanding[b]
                                     - (IF b = handle.allocator THEN HandleBlocks ELSE 0)
                                     + (IF b = a THEN Blocks(new) - Blocks(table[t])
                                        ELSE 0)]
              /\ Returns("yes")
      /\ UNCHANGED <<program, call>>

-----------------------------------------------------------------------------
TwoOf(t, s) ==
  \/ \E a \in program.allocators :
       CopyConstruct(t, s, a) \/ MoveConstructWith(t, s, a)
  \/ MoveConstruct(t, s)
  \/ CopyAssign(t, s)
  \/ MoveAssign(t, s)
  \/ \E op \in {"copy", "move"} : ReserveThrows(op, t, s)
  \/ Merge(t, s)
  \/ Swap(t, s)

Turn ==
  \/ CopyNext
  \/ MoveNext
  \/ MergeNext
  \/ MergeSkip
  \/ \E site \in StepSites : StepThrows(site)
  \/ EndCall

Next ==
  \/ \E t \in Name, a \in program.allocators, h \in program.hashers :
       Construct(t, a, h)
  \/ \E t \in Name : Destroy(t) \/ Clear(t) \/ Shrink(t) \/ InsertHandle(t)
  \/ \E t \in Name, e \in program.elements : Emplace(t, e) \/ Erase(t, e) \/ Extract(t, e)
  \/ \E t \in Name, z \in program.factors : SetMaxLoadFactor(t, z)
  \/ \E t, s \in Name : t # s /\ TwoOf(t, s)
  \/ DropHandle
  \/ Turn

Spec == Init /\ [][Next]_vars

-----------------------------------------------------------------------------
(* Properties *)

TableType ==
  [arena             : {a \in {table[t].arena : t \in {t \in Name : Alive(t)}} :
                          Arena!ArenaTypeOK(a)},
   bucket_count      : BucketCounts \union {0},
   max_load_capacity : Nat,
   max_load_factor   : Nat \ {0},
   hash_function     : Hasher,
   placed_with       : SUBSET Hasher,
   allocator         : Allocator,
   vectors           : Allocator]

(* A moved-from or emptied table keeps no node, bucket or threshold that   *)
(* its storage does not have any more.                                     *)
TypeOK ==
  /\ program \in ProgramType
  /\ table \in [Name -> TableType \union {NoTable}]
  /\ call = NoCall \/
       /\ call.op \in Copying \union Moving \union {"merge"}
       /\ call.to \in Name /\ Alive(call.to)
       /\ call.from \in Name /\ Alive(call.from)
       /\ call.todo \in Seq(Arena!Linked(table[call.from].arena))
  /\ handle \in [value : Element \union {NoElement}, allocator : Allocator]
  /\ outstanding \in [Allocator -> Nat]
  /\ outcome \in {"none", "yes", "no", "threw"}

(* Elements are looked up with the hash function they were placed with,    *)
(* although copies, moves and swaps replace it while buckets come and go,  *)
(* and a move leaves another one behind.  The source of an element-wise    *)
(* move has lost its own at once, its elements only at the end; nothing is *)
(* looked up in it meanwhile.                                              *)
PlacedWithTableHash ==
  \A t \in Name :
    Alive(t) /\ ~(call.op \in Moving /\ call.from = t)
    => table[t].placed_with \subseteq {table[t].hash_function}

DistinctKeys(tbl) ==
  \A m, n \in tbl.arena.indexed :
    /\ tbl.arena.value[m] \in Element
    /\ tbl.arena.value[n] \in Element
    /\ KeyOf[tbl.arena.value[m]] = KeyOf[tbl.arena.value[n]]
    => m = n

(* After every construction, assignment, swap and merge, also one that     *)
(* threw, and between any two elements of one, each table is sound: no     *)
(* slot is shared or lost, the free list and the positions fit the storage *)
(* the table has now, and lookups reach the elements iteration counts.     *)
TablesSound ==
  \A t \in Name : Alive(t) =>
    /\ Arena!StructureOK(table[t].arena)
    /\ Arena!Accounted(table[t].arena)
    /\ table[t].arena.indexed = Arena!Linked(table[t].arena)
    /\ DistinctKeys(table[t])

(* Whatever was copied, moved or merged, two tables compare equal exactly  *)
(* when they hold the same elements, in both directions, although each     *)
(* looks in the index of the other for what its own iteration lists.       *)
EqualWhenSameElements ==
  \A t, s \in Name : Idle /\ Alive(t) /\ Alive(s) =>
    (equals(table[t], table[s]) <=> ValuesOf(t) = ValuesOf(s))

BlocksThrough(a) ==
  MapThenSumSet(LAMBDA t : Blocks(table[t]),
                {t \in Name : Alive(t) /\ table[t].allocator = a})
  + (IF handle.allocator = a THEN HandleBlocks ELSE 0)

(* What was taken from an allocator is what the tables and the handle with *)
(* that allocator will give back to it: nothing leaks, nothing is freed    *)
(* twice or through another allocator (test_allocator.cpp:21-32 counts the *)
(* same for one table, test_node_handle.cpp:79-92 for a handle).           *)
EveryBlockOwned == \A a \in Allocator : outstanding[a] = BlocksThrough(a)

(* COMPATIBILITY.md:91-95: the bookkeeping vectors use the allocator of    *)
(* the table, whatever was propagated.  They are swapped and moved as      *)
(* whole vectors, which is defined only between allocators that agree.     *)
VectorsUseTableAllocator ==
  \A t \in Name : Alive(t) => table[t].vectors = table[t].allocator

(* Whatever factor the threshold was computed from, and whichever table    *)
(* it came from, it leaves the table one empty bucket.                     *)
EmptyBucketRemains ==
  \A t \in Name : Alive(t) =>
    IF table[t].bucket_count = 0
    THEN Size(table[t]) = 0 /\ table[t].max_load_capacity = 0
    ELSE /\ Size(table[t]) < table[t].bucket_count
         /\ table[t].max_load_capacity < table[t].bucket_count

(* hash_table.hpp:289: max_load_capacity_ is that of bucket_count_ and     *)
(* max_load_factor_.  A program that copies an empty container over one    *)
(* with another factor loses this: operator= leaves the old threshold.     *)
ThresholdMatchesFactor ==
  program.empty_copies \/
  \A t \in Name : Alive(t) /\ table[t].bucket_count # 0 =>
    table[t].max_load_capacity =
      compute_load_capacity(table[t].bucket_count, table[t].max_load_factor)

(* What a copy or a move reserves before its loop is enough for the whole  *)
(* loop: no turn rehashes (copy_contents_from).                            *)
ReserveSuffices ==
  call.op \in Copying \union Moving =>
    Size(to) + Len(call.todo) <= to.max_load_capacity

Stores == INSTANCE TwoStores
            WITH contents <- IF Idle THEN Contents ELSE call.before,
                 held <- {handle.value} \ {NoElement}

(* A completed copy equals its source, a moved-from table is empty, merge  *)
(* moves exactly the elements whose key is free; a copy or a merge that    *)
(* throws on the way loses no element of the source.                       *)
ImplementsTwoStores == Stores!Spec
=============================================================================
