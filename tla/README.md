# A TLA+ model of `fum::unordered_map`

`fum::unordered_map` and `fum::unordered_set` are header-only C++20 containers.
Both are thin adapters over one class, `detail::hash_table`
(`src/include/fum/detail/hash_table.hpp`), which this development models. The
container is single threaded (`docs/COMPATIBILITY.md`, "Thread safety") and
keeps nothing on disk. What makes it hard is elsewhere: four data structures
that must agree after every call, a search that may give up early only because
of an order that every insertion, displacement, erasure and rehash has to keep,
one memory word used for two things, an exception that may leave a call at
eight different places, and storage that changes hands between containers whose
allocators may differ.

## The system

| Part | State | Operations | Depends on |
|---|---|---|---|
| Load policy | none (arithmetic over `max_load_factor_`) | `compute_load_capacity`, `bucket_count_for_elements`, `round_up_to_power_of_two` | - |
| Hash addressing | `bucket_shift_` | `home_from_hash`, `dist_and_fingerprint_from_hash`, `next_bucket`, `mix_bits` | load policy (bucket count) |
| Robin Hood index | `buckets_`, `bucket_count_`, `max_load_capacity_`, `max_load_factor_` | `find_bucket`, `probe_start`, `place_and_shift_up`, `erase_bucket`, `rehash_to`, `reserve_for_one_more`, `rehash`, `reserve`, `max_load_factor`, `clear` | reads keys in the arena, walks the iteration vector to rebuild itself |
| Element arena | `chunks_`, `arena_high_water_`, `free_list_head_`, the nodes' storage and `aux` words | `acquire_node`, `release_node`, `construct_value`, `destroy_value`, `clear`, `destroy_everything` | allocator, the element's constructors |
| Iteration vector | `iteration_`, the `aux` words of linked nodes | `link_into_iteration`, `unlink_from_iteration` (swap with the back) | shares the `aux` word with the free list |
| Calls | - | `emplace_impl`, `try_emplace_impl`, `insert_or_assign_impl`, `erase`, `extract`, `insert(node_type&&)` | all of the above, in a fixed order, with catch blocks |
| Node handles | `value_`, `allocator_` | `extract`, `insert`, move, swap, destruction | allocate and move an element out of the arena |
| Global iterators | `table_`, `node_index_` | `++` (through the `aux` position), `erase(iterator)`, `erase(first, last)` | iteration vector |
| Bucket interface | local iterators: `table_`, `home_bucket_`, `position_` | `bucket_size`, `begin(n)`, `end(n)` | iteration vector, hash addressing |
| Two containers | - | copy, move, assignment, `swap`, `merge` | everything, and allocator propagation |
| Adapters | - | `at`, `operator[]`, `try_emplace`, `insert_or_assign`, `operator==`, `erase_if` | forward to the table |

The index holds node numbers, the arena owns the elements, the iteration vector
lists the nodes of the elements. A node's `aux` word is its position in the
iteration vector while it is linked and its successor on the free list while it
is free; storage itself never moves.

What makes each part correct, and what could really be wrong with it:

* **Index.** A search stops at the first resident closer to its home than the
  key would be. So every bucket between an element and its home must hold an
  element at least as far from home, fingerprint ties included, at any time a
  search runs. Every loop must meet an empty bucket or a richer resident, or it
  never ends. Rehashing must be invisible.
* **Arena.** A slot is an element's or free, never both and never neither, also
  after an exception. Each reader of an `aux` word must find it in the role it
  expects.
* **Calls.** A call that throws must leave the container as it was (the strong
  guarantee the tests check at one of the places a call can throw), nothing may
  leak, and index and iteration must name the same elements.
* **Iterators.** A loop that erases as it goes must pass each element once,
  although erasure moves the last element forward; the erasure of a range must
  erase what was in the range when it began, although it rearranges the range.
* **Two containers.** A copied, moved-from, swapped or merged container must be
  sound in every member, with a threshold that belongs to its own load factor
  and the hash function its elements were placed with, also where moving from a
  hash function changes it; its storage must come from the allocator that will free it; and a copy or a
  merge that throws must not lose the source's elements.
* **Node handles.** An element outside any container must go back to the
  allocator its memory came from.

`PROJECT.json` lists the hazards one by one, each at its line.

## Modules

| Module | Role |
|---|---|
| `LoadPolicy` | the sizing arithmetic |
| `Probing` | home bucket, probe word, wrap-around, and the vocabulary of distances |
| `RobinHood` | the index table, one action per turn of each loop |
| `KeySet` | abstract: a set of keys with lookup, insert, erase, rehash, clear |
| `NodeStorage` | the arena, free list and iteration vector of one container, as operators on a record |
| `NodeArena` | one container over `NodeStorage`, and handles; one action per call, with exceptions |
| `ElementStore` | abstract: elements in the container or in handles; a call takes effect, or throws or is refused and changes nothing |
| `Traversal` | what a caller does with global and local iterators while the container changes; composes with `NodeArena` |
| `TwoTables` | several containers and a handle: copy, move, swap, merge, with allocators; composes `NodeStorage` and `LoadPolicy` |
| `TwoStores` | abstract: sets of elements that are copied, moved, exchanged and merged |
| `MCRobinHood`, `MCNodeArena`, `MCTraversal`, `MCTwoTables` | instances for TLC |
| `LoadPolicy_proofs`, `Probing_proofs` | lemmas on the sizing arithmetic, and on distances, wrap-around and homes |
| `RobinHood_proofs` | the index theorems (extends `RobinHood`, uses the lemmas) |
| `NodeStorage_proofs` | lemmas: what each operator, and each whole call, does to a storage record |
| `NodeArena_proofs` | the arena's structure, wherever a call throws; no leaks, agreement and the strong guarantee, where the code handles the throw |
| `Traversal_proofs` | what loops, kept iterators, range erasure and bucket scans may rely on |
| `TwoTables_proofs` | vectors, hash functions, storage and thresholds stay with their table; no block is lost or given back twice |
| `TwoStores_proofs` | copies, moves, swaps and merges implement `TwoStores`; equality |

`RobinHood` and `NodeArena` cut the program along its own seam. The index sees
an element as a key with a hash, and `NodeArena` sees the index as the set of
nodes a lookup reaches. What `RobinHood` establishes, that a lookup reaches
exactly the live elements, is what entitles `NodeArena` to that view; what
`NodeArena` establishes, one node per element and one element per key, is what
entitles `RobinHood` to name a node by its key.

### RobinHood

Variables carry the names of the data members. `pc` says which loop the call in
progress is in; `carried`, `daf` and `bucket_index` are that loop's locals.

| `pc` | Code | Actions |
|---|---|---|
| `find` | `find_bucket` | `Call`, `FindHit`, `FindMiss`, `FindNext` |
| `reserve` | `reserve_for_one_more` | `ReserveGrow`, `ReserveRoom` |
| `rehash`, `replace` | `rehash_to` and the `place_and_shift_up` in it | `RehashNext`, `RehashDone` |
| `probe` | `probe_start` | `ProbeNext`, `ProbeStop` |
| `place` | `place_and_shift_up` | `PlaceSwap`, `PlaceNext`, `PlaceDone` (also for `replace`) |
| `shift` | `erase_bucket`, rest of `erase_located` | `ShiftNext`, `ShiftDone` |

`Rehash`, `Reserve`, `RehashToNothing`, `SetMaxLoadFactor` and `Clear` are the
remaining public operations.

Abstractions: the load factor is a whole number of hundredths in place of a
float; a bucket names the key of its element in place of a node index; a hash is
a number below `HashSpace`, with the fingerprint in the low 8 bits and the home
in the high bits as in the code; `rehash_to` visits the elements in any order,
where the code follows the iteration vector (whose order is arbitrary after
erasures); `mix_bits` is left out, since a hash may be anything.

### NodeArena

`arena` is a record of the data members, and `NodeStorage` has the code's private
functions as operators on it. Its `freed` field is auxiliary: the free
list as a sequence, against which the links in the `aux` words are compared.
`chunk_leaked` is auxiliary too. `RefuseHandle` and `RefuseHint` are what the
two overloads of `insert` do with a handle whose key is taken: the one returns it
to the caller, the one with a hint drops it and the element with it. `HintInserts`
says whether the caller uses the latter; `ElementStore` has no call that does
that. `Throws` names the places where a call may throw, `HandleThrows` the same for `insert(node_type&&)` once the value has moved
out of the handle:

| Site | Place |
|---|---|
| `chunk`, `chunk_push` | the allocation and the `push_back` of `ensure_arena_slot` |
| `construct` | the element's constructor; in `extract` also the handle's allocation |
| `hash` | hashing or comparing the argument |
| `rehash` | the allocation in `rehash_to` |
| `rehash_hash` | hashing an element while `rehash_to` rebuilds the index |
| `link` | the `push_back` of `link_into_iteration` |
| `index_hash` | hashing the element a second time, for `insert_known_absent` |

Abstractions: a value is its key (mapped values are data); whether an insertion
grows the bucket array is left open, since `RobinHood` decides it from sizes this
module does not have; a call throws at most once. Calls whose behaviour is
undefined are not taken: after `rehash_to` has lost the bucket array only
`clear`, `rehash` and teardown are, and `erase(iterator)` is not called on an
element that a throwing hash left out of the index. `Rekey` is the caller's
`node.key() = ...`; swapping two handles changes nothing the module sees.

### Traversal

`Traversal` instantiates `NodeArena` with no throws: the container's variables
and the calls that change it are `NodeArena`'s own. It adds the iterators, a
global one as the node it names (`kNullIndex` for `end()`), a local one as a
position of the iteration vector, and what the caller is doing with them:

| `use` | Code | Actions |
|---|---|---|
| `loop` | `erase_if`, and any loop that goes on with what `erase` returned | `BeginLoop`, `LoopNext`, `LoopErase`, `EndLoop` |
| `hold` | an iterator kept across other calls | `Hold`, `EndHold` |
| `range` | `erase(first, last)`, one turn of its second loop at a time | `BeginEraseRange`, `EraseRangeNext`, `EndEraseRange` |
| `scan` | `begin(n)` to `end(n)` | `BeginScan`, `ScanNext`, `EndScan` |
| `keep` | a local iterator kept across other calls | `Keep`, `EndKeep` |

`Insert`, `Erase`, `Rehash` and `Clear` are the other calls, taken where the use
in progress permits them: nothing but the loop itself inside `erase(first,
last)`, no rehash during a scan (bucket numbers change), no erasure of the
element the caller stands on. Other elements are erased while the caller keeps an
iterator, also where a local one then does not denote its element any more (run
`TraversalLocal`). `EraseElsewhere` lets a loop also erase elements it does not
stand on. `start` and `visited` are auxiliary.

Abstractions: one use of iterators at a time; `Home` is a constant, since a scan
ends before a rehash; no insertion is made once a loop or a scan stands at its
end, since nothing is left for it to do there. A cached `end(n)`, and a scan that goes on after an erasure, are not
modelled.

### TwoTables

`table[t]` is `NoTable`, or a record of the data members of container `t`:
`arena` (a record of `NodeStorage`), `bucket_count`, `max_load_capacity`,
`max_load_factor`, `hash_function` (which stands for `key_equal` too),
`allocator`, and `vectors`, the allocator that `chunks_` and `iteration_` hold
themselves. `placed_with` is auxiliary: the hash functions with which elements
have been put into the buckets there are now. `outstanding` is auxiliary too: it counts the blocks
(chunks, bucket arrays, elements of handles) taken from each allocator and not
given back. `program` is chosen once and fixes what a C++ program fixes at
compile time, the three propagation traits, and which calls of interest it makes.

| Code | Actions |
|---|---|
| constructors, destructor | `Construct`, `Destroy`, `CopyConstruct`, `MoveConstruct`, `MoveConstructWith` |
| `operator=` | `CopyAssign`, `MoveAssign` (storage stolen, or element-wise) |
| the loops of `copy_contents_from`, the element-wise move and `merge_from` | `CopyNext`, `MoveNext`, `MergeNext`, `MergeSkip`, `EndCall`, one element a turn; `StepThrows`, `ReserveThrows` |
| `swap`, `merge` | `Swap`, `Merge` |
| the single-container calls that matter here | `Emplace`, `Erase`, `Clear`, `Shrink` (`rehash(0)`), `SetMaxLoadFactor` |
| `node_type` | `Extract` (to a new handle or assigned to an old one), `DropHandle`, `InsertHandle` |

An initializer list that is assigned is `Clear` and then `Emplace`s; a range or
list constructor is `Construct` and then `Emplace`s. `copy_contents_from`,
`reset_to_empty_state`, `Stolen` (`steal_storage_from`) and `emplace_impl` are
operators that the actions call in the code's order.

Abstractions: an element stands for its value, and `KeyOf` gives its key, so two
elements can compete for a key; the index is the set of nodes a lookup reaches,
as in `NodeArena`; a hash function is a member of `Hasher`, and `AfterMove` says
which one is left of it when it is moved from; one handle; the memory of the two vectors is not counted, only
whose it is. `swap` with unequal allocators that do not propagate is undefined
behaviour and not taken, nor is assignment to a node handle that holds an element
of another allocator.

`Throws` says for each kind of loop at which sites one of its steps may throw:

| Site | Place | Left behind |
|---|---|---|
| `lookup` | the hash or `key_equal` of `contains` in `merge_from` | nothing changed |
| `chunk`, `chunk_push` | the allocation and the `push_back` of `ensure_arena_slot` | nothing, or a chunk nobody owns |
| `construct` | the element's constructor | the slot is released |
| `hash` | the hash or `key_equal` of the lookup in `emplace_impl` | a slot that is neither linked nor free |
| `buckets` | the first bucket array, in `reserve_for_one_more` | the slot is released |
| `link` | the `push_back` of `link_into_iteration` | the slot is released |
| `index_hash` | hashing the element again, for `insert_known_absent` | an element no lookup finds |
| `reserve` | the first bucket array, in the `reserve` before the loop of an assignment | the emptied target |

`RestoredSites` are those of a step where the code puts things back. An
allocation that fails after it has freed a bucket array, and a hash that throws
within `rehash_to`, are in `NodeArena` only. The `reserve` of a constructor
leaves nothing behind when it throws, except that a move has taken the source's
hash function, as at `<<move, reserve>>`.

What the code does not survive is left out of the passing runs. Of each item TLC
refutes a property as soon as it is in, and `PROJECT.json` says so at the hazard:

| Left out | Refuted when it is in |
|---|---|
| traits with POCCA and without POCMA | `VectorsUseTableAllocator`: the vectors keep the old allocator |
| a copy constructor that throws | `EveryBlockOwned`: nobody frees the blocks |
| a merge or an element-wise move that throws after the value has moved | `ImplementsTwoStores`: the element is lost |
| a copy that throws at `chunk_push` | `EveryBlockOwned` |
| a copy that throws at `hash` or `index_hash` | `TablesSound` |
| `hash_table(hash_table&&, alloc)` with the source's allocator and a hash function that moving changes (`equal_moves`) | `PlacedWithTableHash`: it is moved twice, lines 758 and 658 |
| an element-wise move that throws, with such a hash function | `PlacedWithTableHash`: the source has elements and no hash function |
| the insertion of a handle with a hint (`HintInserts`, in `NodeArena`) | `ImplementsElementStore`: line 1221 destroys a refused element |

`Throws`, `HintInserts` and the programs of an instance name what is in. Copying
an empty container over one with another load factor is in, except for
`ThresholdMatchesFactor`, which it breaks.

## Runs

| Run | Expect | Question |
|---|---|---|
| `RobinHood` | pass | is the table a Robin Hood table with an empty bucket, and every element findable, after any calls; does every loop end, and does the table answer like a set? |
| `RobinHoodOverfull` | violation | does "at least one empty bucket" also hold for a load factor above 1? |
| `NodeArena` | pass | no leak, agreement, strong guarantee, where the code handles the throw |
| `NodeArenaAnyThrow` | pass | do slots stay unshared wherever a call throws, and with either insertion of handles? |
| `NodeArenaChunk` | violation | is the chunk freed when recording it throws? |
| `NodeArenaRehash` | violation | can the container be used after `rehash_to` throws? |
| `NodeArenaHandle` | violation | is the element kept when inserting a handle throws? |
| `Traversal` | pass | does a loop that erases as it goes pass each element once, do kept global iterators hold, is a range erased exactly, does a bucket scan see its bucket? |
| `TraversalSkips` | violation | does the loop still pass each element when another one is erased on the way? |
| `TraversalLocal` | violation | does a kept local iterator denote its element when another one is erased? |
| `TwoTables` | pass | are tables sound, contents as promised and blocks with their allocator, whatever is copied, moved, swapped, merged and extracted? |
| `TwoTablesHandle` | violation | does an extracted element go back to its allocator when its handle was assigned? |

What the properties say:

* `EveryLiveKeyFindable`: the probe for each element meets only residents at
  least as far from home before it meets the element. `ImplementsKeySet` is the
  same from outside: answers are those of a set, through rehashes and shifts.
* `EmptyBucketRemains`, `ProbeDistanceBounded`, `CallsReturn`: growth comes in
  time, no probe comes round to where it began, no loop spins.
* `SlotsNeverShared`, `AuxWordsAgree`: storage has one owner and each `aux` word
  the role its reader expects.
* `NothingLeaks`, `IndexMatchesIteration`, `BucketArrayPresent`,
  `ImplementsElementStore`: what an exception must not break. In the last one a
  handle whose key is taken keeps its element.
* `LoopPassesEachOnce`: the elements not ahead of the loop's iterator are the
  ones it has passed. `EraseIfRemovesExactly` is the same at the end of the loop.
* `HeldIteratorDenotes`, `RangeErasedExactly`, `ScanVisitsBucket`: iterators name
  elements and not positions; the list of nodes taken before a range is erased
  is what makes the erasure exact. `KeptLocalDenotes` says the same of local
  iterators, which are positions: it is refuted.
* `TablesSound`, `EqualWhenSameElements`: no member is forgotten when storage
  changes hands, and also between two elements of a copy, a move or a merge, and
  after one that threw, a table's index, positions, free list and iteration fit
  the storage it has now; comparing two tables tells whether they hold the same.
* `EveryBlockOwned`, `VectorsUseTableAllocator`: what a table or a handle will
  free, and through which allocator, is what was taken from that allocator.
* `PlacedWithTableHash`: a table looks its elements up with the hash function
  they were placed with, whichever storage and whichever function it has taken
  over from another one, and whatever is left of a function that was moved from.
* `EmptyBucketRemains` (of `TwoTables`), `ThresholdMatchesFactor`,
  `ReserveSuffices`: the threshold that decides growth is carried along with the
  buckets and the factor it was computed from; a copy or an element-wise move
  never rehashes within its loop.
* `ImplementsTwoStores`: a completed copy equals its source, a moved-from
  container is empty, a merge moves exactly the elements whose key was free, a
  handle whose key is taken keeps its element, and a copy or merge that throws
  takes nothing from the source.
* `TypeOK` of each of the four modules, and the inductive invariant `IInv` of
  `RobinHood` and `NodeArena`.

The seven violations are disagreements between the code and what it says of
itself; `PROJECT.json` quotes the lines under "findings". In `NodeArenaHandle`
TLC's trace may let a `push_back` throw that has capacity left, since the model
carries no vector capacity: in the program it takes the insertion for which the
vector has to grow.

### Bounds, and why they are enough

* `RobinHood`: four keys, every assignment of three hashes: two keys may have the
  same hash, two may share the last home with another fingerprint, and the
  third hash has the home after it, so that runs wrap around and run into one
  another. `kInitialBucketCount` is 2 in place of 8 and `BucketCounts` is
  {2, 4, 8}: four elements then go through two growths, fill a table to its last
  empty bucket and displace residents, which would take eight with the real
  constant. `HashSpace` is 2048, 8 homes of 256 fingerprints. Load factors 0.5,
  0.8 and 1.0 and a non-positive one; `rehash`/`reserve` with 0 and 8, which
  shrink and grow. An insertion at the largest bucket count that would have to
  grow does not occur in the instance: a table of eight buckets with four keys
  has room. There is no symmetry, since the run also checks liveness and a
  refinement.
* `NodeArena`: three keys in chunks of two nodes and room for two chunks: three
  elements and a value under construction exactly fill it. `OneHandle` keeps one
  handle per key. `NodeArenaAnyThrow` leaks slots on purpose, so it has two keys
  (symmetric, a state invariant run) in up to three chunks of one node.
* `Traversal`: four keys in one chunk of four nodes, two to a bucket, the keys of
  a bucket exchangeable. With four elements a range can lie in the middle, and
  the element moved by an erasure can come from inside the range, from behind it
  or be the erased one; a bucket can be met first, last and interleaved with the
  other. `TraversalSkips` and `TraversalLocal` have no symmetry.
* `TwoTables`: two containers, chunks of one node and at most two per table, two
  allocators. Two elements compete for one key and a third has another, so a merge
  can take one element, both or none, and leave a free list behind;
  `kInitialBucketCount` is 4, so a factor of 0.25 makes one element fill the
  threshold and the second one grow the table. The instance is the union of five
  sets of programs rather than their product: the two rivals, with both
  allocators and no propagation; the traits (swaps only, moves only, all three;
  one element per key); a second load factor, with and without copies of empty
  containers (one allocator); handles that are constructed (traits off) or
  assigned (moves propagate); two hash functions that a move leaves as they are,
  and one that it changes, with what is left of it (one element). The factor
  and the hash function travel with the storage or by assignment in every branch,
  and which branch is taken depends on the traits and allocators alone; a merge
  that meets a taken key does the same with any traits.
* Deadlock is checked in every run.

### Fairness

`FairSpec` adds `WF_vars(Turn)`: the thread that has entered a call keeps
executing the loop it is in. Nothing obliges a caller to make a call, so the
actions of `Start` have no fairness. There is no second thread to be fair to.

## Proofs

`tlapm` checks the following for every value of the constants that satisfies
the modules' assumptions: any finite set of keys, any hashes, any number of
containers and elements, any power-of-two bucket counts from a smallest one of at
least two on, any chunk sizes and call sequences.

**Index** (`RobinHood_proofs`, hypothesis `LoadFactorAtMostOne`: no caller sets a
factor above 1, which `RobinHoodOverfull` shows to be necessary).
`EveryLiveKeyFindable` is not inductive. `IInv` adds what each loop relies on:
`Placed` (a resident's word is its true distance), `Unique` and `Complete` (each
element in exactly one bucket except the ones a loop has in hand),
`RobinHoodOrder` (the order a search relies on, for all residents),
`ProbeOrder` (the same for the element a loop carries, up to where it has come),
`HoleOK` (the bucket erasure vacates) and `Room` (fewer elements than buckets).
The central steps are `PlaceSwap`, where the displaced resident takes over the
carried role with its own order, and `ShiftNext`, where moving an element back
by one keeps the order of those behind it. That no probe comes round
(`ProbeDistanceBounded`) follows from `Room`: an empty bucket interrupts every
order. `IndexImplementsKeySet` maps each turn of a loop to a stutter except the
one that takes effect.

**Storage** (`NodeStorage_proofs`). Each operator on a storage record
(`acquire_node`, `release_node`, `link_into_iteration`, ...) has a lemma that
says what it keeps of `StructureOK`, with a slot that is `Held` while a call has
acquired it and not yet linked or released it. Whole calls have one each about
`Sound` (nothing leaks either) and about which elements they leave:
`SameElements`, `WithElement`, `WithoutElement`. The three modules that use the
storage are proved from these lemmas.

**Arena** (`NodeArena_proofs`). Wherever a call throws, `Structure`, which is
`SlotsNeverShared`, `AuxWordsAgree` and `TypeOK`, is inductive: a call, also one
cut short, is a composition of the operators. The other theorems have the
hypothesis `ThrowsAreHandled`: throws only where the chunk is allocated, the
element constructed or the vector extended; the other places are those of the
findings, or the hash function, for which the standard makes no promise.
`ArenaImplementsElementStore` also supposes `~HintInserts`, that handles are
inserted without a hint. `IInv`
adds that every slot handed out is linked or free and holds a value exactly when
linked, that the index is the set of linked nodes, keys are distinct and the
bucket array is there. From it follow the leak, agreement and strong-guarantee
theorems.

**Iterators** (`Traversal_proofs`). An insertion appends to the iteration vector,
a rehash leaves it alone, an erasure puts the last element where the erased one
was. `IInv` says for each use what this leaves: the elements before the loop's
iterator are those it has passed (`LoopInv`), what is still to erase is what is
left of the range (`RangeInv`), the scan stands on an element of its bucket or at
the end (`ScanInv`). That global iterators do not dangle, denote what they
denoted, that a range is erased exactly and a scan sees its bucket needs no
hypothesis. A local iterator kept across erasures has no theorem: its position
may pass the end (`TraversalLocal`).
`LoopsPassEachOnce` and `EraseIfIsExact` suppose `~EraseElsewhere`, that the loop
erases only what it stands on; `TraversalSkips` shows that they need it.

**Two containers** (`TwoTables_proofs`). Three invariants, each about every table;
the first two also about the pair that a loop in progress works on.

* `CoherentTables`, wherever a step throws: the vectors have the table's
  allocator, under the hypothesis `PropagationAgrees` (no program has an allocator
  that copies propagate and moves do not), and the elements its hash function,
  under `HashMovesAreSafe` (a program whose hash functions are changed by moves
  does not make the `equal_moves` above, and no element-wise move throws). TLC
  refutes either one without its hypothesis. The source of an element-wise
  move is the exception: until the loop ends, it has elements and has given its
  function away. The invariant is inductive because every operation on one table (`Within`) leaves both alone or
  places elements with the function the table has, and because a copy or a move
  changes them only where the target holds nothing (`Rehashed`) or everything
  changes hands at once (`Stolen`).
* `GoodTables`, with the hypothesis `ThrowsAreRestored` (a step throws only at
  `RestoredSites`; at the other three sites a slot, an element or a chunk is
  lost): the storage is `Sound`, and keys are
  distinct among the elements that were not moved from (`Proper`); the nodes a
  loop has still to do are linked in its source, each once (`LoopGood`).
  `TablesStaySound` follows. Under `SizesAreGiven` it also says that the threshold
  lies below the bucket count, belongs to the buckets and the factor, and leaves
  room for what a loop has still to copy, from which the other three follow.
  `SizesAreGiven` has no factor above 1 (see `RobinHoodOverfull`), and bucket
  counts closed under doubling, without a largest one: in the code a bucket array
  that cannot be allocated throws, where an instance just ends. Without it, an
  element more could find no larger bucket array in the instance.
* `Owned`: what is outstanding at an allocator is the sum of the blocks of its
  tables and of the handle. It is inductive together with `GivenTables`: tables
  and handle use allocators and hash functions of the program. Each step changes
  what one container or two own, and `TotalChanges` says that these count apart
  from the rest of the sum. The sum itself is a fold, and the induction theorems
  for folds and finite sets cannot be cited; what is needed of it (`AddsExists`:
  the recursive function exists, `AddsInAnyOrder`: any element may be taken out,
  `AddsTheSame`: only the summands matter) is proved from a counterexample on a
  smallest subset (`SmallestSubset`), which the well-foundedness of the subset
  order gives. `EveryBlockIsOwned` and `TablesTyped` follow, with five hypotheses:
  `ThrowsAreRestored`; there are finitely many containers; `NoTableIsNone`, that `NoTable` does not
  have the fields of a table; `ConstructorsDoNotThrow` and `HandlesAgree` (a
  handle that is assigned to takes the allocator over, unless there is only one).
  Neither of the last two can go: an object whose copy constructor throws leaks
  its blocks, and `TwoTablesHandle` refutes the property for the others.
  `TablesTyped` supposes `SizesAreGiven` as well.

**What they promise** (`TwoStores_proofs`, hypothesis `ElementsSurvive`: of the
loops only a copy throws, or a merge where it looks up or allocates its chunk;
what is outside is the loss of an element that TLC refutes `ImplementsTwoStores`
with), `ThrowsAreRestored` and `NoTableIsNone`. While a loop runs the abstract contents are those from before
it, so each of its turns is a stutter and its end does everything at once. `TInv` says how far the loop has
come: for a copy or a move, the target's elements and those to do make up the
source; for a merge, what has left the source was free in the target and has
arrived there, and all other free elements are ahead. A merge that meets a taken
key relies on the source's keys being distinct: the key was taken from the start,
not by an element it has moved itself. Equality follows from the same invariant:
iteration counts as many nodes as there are elements (`SizeCountsValues`), so of
two tables of one size it is enough to look the elements of one up in the other.

Only model-checked:

* `CallsReturn`: liveness.
* The seven violations, which are TLC's, and the refutations named in the table of
  what is left out.

## Not modelled

Float rounding in the load policy (the model is exact in hundredths), the bound
of 2^32 - 1 nodes, `mix_bits`, several iterators in use at once, a bucket
scan that goes on after an erasure, an iterator's `table_` pointer (it still names the old
container after a swap or a move), the 24-bit width of a probe distance, the
capacities of the vectors, two handles that are swapped, mapped values other than as part of an
element. Tests, fuzzers, benchmarks, scripts and build files are read
for what they promise.

## Plan

1. Iterators across `swap`; swap of two node handles with their allocators; a
   kept `end(n)`.
2. `HashTable`: `RobinHood` with the buckets holding node numbers of
   `NodeStorage`, closing the seam described above, and the composition theorem.
