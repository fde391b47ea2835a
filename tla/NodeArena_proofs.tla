-------------------------- MODULE NodeArena_proofs --------------------------
(***************************************************************************)
(* What the arena guarantees for every set of keys, every chunk size and   *)
(* every arena size.  First, its structure survives a throw at any place.  *)
(* Then, where every throw is one a catch block undoes, nothing leaks and, *)
(* without the insertion of a handle with a hint, NodeArena implements     *)
(* ElementStore: a call takes effect, or throws and changes nothing.       *)
(***************************************************************************)
EXTENDS NodeArena, NodeStorage_proofs

LEMMA Reindexed ==
  ASSUME NEW a, StructureOK(a),
         NEW b \in {a, rehash_to(a), Unindexed(a)} \union PartlyIndexed(a)
  PROVE  /\ StructureOK(b)
         /\ Slots(b) = Slots(a)
         /\ Linked(b) = Linked(a)
         /\ Freed(b) = Freed(a)
         /\ b.iteration = a.iteration
         /\ b.value = a.value
         /\ b = rehash_to(a) => b.indexed = Linked(a)
         /\ \A n : Held(a, n) => Held(b, n)
<1>1. b = a \/ \E nodes \in SUBSET Linked(a) : b = [a EXCEPT !.indexed = nodes]
  <2>1. CASE b = rehash_to(a)
    BY <2>1 DEF rehash_to
  <2>2. CASE b = Unindexed(a)
    BY <2>2 DEF Unindexed
  <2>3. CASE b \in PartlyIndexed(a)
    <3>1. PICK done \in 0 .. Len(a.iteration) - 1 :
            b = [a EXCEPT !.indexed = {a.iteration[p] : p \in 1 .. done}]
      BY <2>3 DEF PartlyIndexed
    <3>2. Len(a.iteration) \in Nat
      BY Members DEF StructureOK
    <3>3. 1 .. done \subseteq 1 .. Len(a.iteration)
      BY <3>2
    <3>4. {a.iteration[p] : p \in 1 .. done} \in SUBSET Linked(a)
      BY <3>3 DEF Linked
    <3> QED
      BY <3>1, <3>4
  <2> QED
    BY <2>1, <2>2, <2>3
<1>2. b = rehash_to(a) => b.indexed = Linked(a)
  <2>1. rehash_to(a) = [a EXCEPT !.indexed = Linked(a)]
    BY DEF rehash_to
  <2> QED
    BY <2>1, IndexSet
<1>3. /\ StructureOK(b)
      /\ Slots(b) = Slots(a)
      /\ Linked(b) = Linked(a)
      /\ Freed(b) = Freed(a)
      /\ b.iteration = a.iteration
      /\ b.value = a.value
  <2>1. CASE b = a
    BY <2>1
  <2>2. ASSUME NEW nodes \in SUBSET Linked(a), b = [a EXCEPT !.indexed = nodes]
        PROVE  /\ StructureOK(b)
               /\ Slots(b) = Slots(a)
               /\ Linked(b) = Linked(a)
               /\ Freed(b) = Freed(a)
               /\ b.iteration = a.iteration
               /\ b.value = a.value
    BY <2>2, IndexSet
  <2> QED
    BY <1>1, <2>1, <2>2
<1> QED
  BY <1>2, <1>3 DEF Held

-----------------------------------------------------------------------------
(* Whatever throws, the structure stands. *)

Structure == TypeOK /\ StructureOK(arena)

LEMMA InsertNodeStructure ==
  ASSUME NEW a, StructureOK(a), NEW n, Held(a, n), NEW sites,
         InsertNode(a, n, sites)
  PROVE  /\ StructureOK(arena')
         /\ bucket_array' \in {"none", "present", "lost"}
         /\ outcome' \in {"none", "yes", "no", "threw"}
<1>1. CASE ThrowsAt("rehash", sites, discard_node(Unindexed(a), n)) /\ LoseBuckets
  <2>1. StructureOK(Unindexed(a)) /\ Held(Unindexed(a), n)
    BY Reindexed
  <2> QED
    BY <1>1, <2>1, Discarded DEF ThrowsAt, Returns, LoseBuckets
<1>2. ASSUME NEW b \in PartlyIndexed(a), bucket_array' = "present",
             ThrowsAt("rehash_hash", sites, discard_node(b, n))
      PROVE  /\ StructureOK(arena')
             /\ bucket_array' \in {"none", "present", "lost"}
             /\ outcome' \in {"none", "yes", "no", "threw"}
  <2>1. StructureOK(b) /\ Held(b, n)
    BY <1>2, Reindexed
  <2> QED
    BY <1>2, <2>1, Discarded DEF ThrowsAt, Returns
<1>3. ASSUME NEW b \in {a, rehash_to(a)}, bucket_array' = "present",
             \/ ThrowsAt("link", sites, discard_node(b, n))
             \/ ThrowsAt("index_hash", sites, link_into_iteration(b, n))
             \/ Returns("yes", insert_known_absent(link_into_iteration(b, n), n))
      PROVE  /\ StructureOK(arena')
             /\ bucket_array' \in {"none", "present", "lost"}
             /\ outcome' \in {"none", "yes", "no", "threw"}
  <2>1. StructureOK(b) /\ Held(b, n)
    BY Reindexed
  <2>2. CASE ThrowsAt("link", sites, discard_node(b, n))
    BY <1>3, <2>1, <2>2, Discarded DEF ThrowsAt, Returns
  <2>3. CASE ThrowsAt("index_hash", sites, link_into_iteration(b, n))
    BY <1>3, <2>1, <2>3, LinkedIn DEF ThrowsAt, Returns
  <2>4. CASE Returns("yes", insert_known_absent(link_into_iteration(b, n), n))
    BY <1>3, <2>1, <2>4, Inserted DEF Returns
  <2> QED
    BY <1>3, <2>2, <2>3, <2>4
<1> QED
  BY <1>1, <1>2, <1>3 DEF InsertNode

LEMMA StructureStep ==
  ASSUME Structure, [Next]_vars
  PROVE  Structure'
<1> USE DEF Structure
<1> DEFINE Good ==
             /\ StructureOK(arena')
             /\ bucket_array' \in {"none", "present", "lost"}
             /\ handles' \subseteq Key
             /\ chunk_leaked' \in BOOLEAN
             /\ outcome' \in {"none", "yes", "no", "threw"}
<1>a. SUFFICES Good
  BY DEF TypeOK, StructureOK
<1>b. /\ StructureOK(arena)
      /\ bucket_array \in {"none", "present", "lost"}
      /\ handles \subseteq Key
      /\ chunk_leaked \in BOOLEAN
      /\ outcome \in {"none", "yes", "no", "threw"}
  BY DEF TypeOK
<1>c. ASSUME AcquireThrows
      PROVE  Good
  BY <1>b, <1>c DEF AcquireThrows, ThrowsAt, Returns
<1>d. ASSUME NEW k \in Key
      PROVE  LET n == next_node(arena)
                 a == acquire_node(arena)
                 b == construct_value(a, n, k)
             IN  /\ StructureOK(release_node(a, n))
                 /\ StructureOK(b)
                 /\ Held(b, n)
                 /\ StructureOK(discard_node(b, n))
  <2>1. LET n == next_node(arena)
            a == acquire_node(arena)
        IN  StructureOK(release_node(a, n))
    BY <1>b, Acquired, Released
  <2>2. LET n == next_node(arena)
            b == construct_value(acquire_node(arena), n, k)
        IN  StructureOK(b) /\ Held(b, n)
    BY <1>b, Constructed
  <2> QED
    BY <2>1, <2>2, Discarded
<1>1. ASSUME NEW k \in Key, Emplace(k)
      PROVE  Good
  <2> DEFINE n == next_node(arena)
             a == acquire_node(arena)
             b == construct_value(a, n, k)
  <2>1. CASE AcquireThrows
    BY <1>c, <2>1
  <2>2. CASE /\ UNCHANGED <<handles, chunk_leaked, bucket_array>>
             /\ \/ ThrowsAt("construct", Throws, release_node(a, n))
                \/ ThrowsAt("hash", Throws, b)
                \/ Returns("no", discard_node(b, n))
    BY <1>b, <1>d, <2>2 DEF ThrowsAt, Returns
  <2>3. CASE UNCHANGED <<handles, chunk_leaked>> /\ InsertNode(b, n, Throws)
    BY <1>b, <1>d, <2>3, InsertNodeStructure
  <2> QED
    BY <1>1, <2>1, <2>2, <2>3 DEF Emplace
<1>2. ASSUME NEW k \in Key, TryEmplace(k)
      PROVE  Good
  <2> DEFINE n == next_node(arena)
             a == acquire_node(arena)
             b == construct_value(a, n, k)
  <2>1. CASE AcquireThrows
    BY <1>c, <2>1
  <2>2. CASE /\ UNCHANGED <<handles, chunk_leaked, bucket_array>>
             /\ \/ ThrowsAt("construct", Throws, release_node(a, n))
                \/ ThrowsAt("hash", Throws, arena)
                \/ Returns("no", arena)
    BY <1>b, <1>d, <2>2 DEF ThrowsAt, Returns
  <2>3. CASE UNCHANGED <<handles, chunk_leaked>> /\ InsertNode(b, n, Throws)
    BY <1>b, <1>d, <2>3, InsertNodeStructure
  <2> QED
    BY <1>2, <2>1, <2>2, <2>3 DEF TryEmplace
<1>3. ASSUME NEW k \in Key, InsertHandle(k)
      PROVE  Good
  <2> DEFINE n == next_node(arena)
             a == acquire_node(arena)
             b == construct_value(a, n, k)
  <2>1. CASE AcquireThrows
    BY <1>c, <2>1
  <2>2. CASE /\ UNCHANGED <<handles, chunk_leaked, bucket_array>>
             /\ \/ ThrowsAt("construct", Throws, release_node(a, n))
                \/ ThrowsAt("hash", Throws, arena)
    BY <1>b, <1>d, <2>2 DEF ThrowsAt, Returns
  <2>3. CASE /\ InsertNode(b, n, HandleThrows)
             /\ handles' = handles \ {k}
             /\ UNCHANGED chunk_leaked
    BY <1>b, <1>d, <2>3, InsertNodeStructure
  <2> QED
    BY <1>3, <2>1, <2>2, <2>3 DEF InsertHandle
<1>4. ASSUME NEW k \in Key, RefuseHandle(k) \/ RefuseHint(k) \/ DropHandle(k)
      PROVE  Good
  BY <1>b, <1>4 DEF RefuseHandle, RefuseHint, DropHandle, Returns
<1>12. ASSUME NEW k \in Key, NEW l \in Key, Rekey(k, l)
       PROVE  Good
  BY <1>b, <1>12 DEF Rekey, Returns
<1>5. ASSUME NEW k, Found(k)
      PROVE  NodeOf(k) \in Linked(arena)
  BY <1>b, <1>5 DEF Found, NodeOf, StructureOK
<1>6. ASSUME NEW k \in Key, Extract(k)
      PROVE  Good
  <2>1. Found(k) => StructureOK(erase_located(arena, NodeOf(k)))
    BY <1>b, <1>5, Erased
  <2> QED
    BY <1>b, <1>6, <2>1 DEF Extract, Returns, ThrowsAt
<1>7. ASSUME NEW k \in Key, Erase(k)
      PROVE  Good
  <2>1. Found(k) => StructureOK(erase_located(arena, NodeOf(k)))
    BY <1>b, <1>5, Erased
  <2> QED
    BY <1>b, <1>7, <2>1 DEF Erase, Returns, ThrowsAt
<1>8. CASE Clear
  BY <1>b, <1>8, Cleared DEF Clear, Returns
<1>9. CASE Rehash
  <2>1. /\ StructureOK(rehash_to(arena))
        /\ StructureOK(Unindexed(arena))
        /\ \A a \in PartlyIndexed(arena) : StructureOK(a)
    BY <1>b, Reindexed
  <2> QED
    BY <1>b, <1>9, <2>1 DEF Rehash, Returns, ThrowsAt, LoseBuckets
<1>10. CASE Teardown
  BY <1>b, <1>10, EmptyArenaOK DEF Teardown, Returns
<1>11. CASE UNCHANGED vars
  BY <1>b, <1>11 DEF vars
<1> QED
  BY <1>1, <1>2, <1>3, <1>4, <1>6, <1>7, <1>8, <1>9, <1>10, <1>11, <1>12 DEF Next

(* The arena is well formed in every reachable state, whatever the set of  *)
(* places a call may throw at: acquire_node hands out a slot nobody uses,  *)
(* and the catch blocks and erase give back one nobody uses.               *)
THEOREM StructureInvariant == Spec => []Structure
<1>1. Init => Structure
  BY EmptyArenaOK DEF Init, Structure, TypeOK, StructureOK
<1>2. Structure /\ [Next]_vars => Structure'
  BY StructureStep
<1> QED
  BY <1>1, <1>2, PTL DEF Spec

(* Every slot the free list, the iteration vector and the index name has   *)
(* been handed out, wherever a call throws.                                *)
THEOREM ArenaTypeCorrect == Spec => []TypeOK
<1>1. Structure => TypeOK
  BY DEF Structure
<1> QED
  BY <1>1, StructureInvariant, PTL

(* Two elements never share a slot, and no free slot is in use.            *)
THEOREM SlotsAreNeverShared == Spec => []SlotsNeverShared
<1>1. Structure => SlotsNeverShared
  BY DEF Structure, StructureOK, SlotsNeverShared
<1> QED
  BY <1>1, StructureInvariant, PTL

(* erase always reads the position of the node it unlinks, and             *)
(* acquire_node the successor of the node it pops.                         *)
THEOREM AuxWordsAlwaysAgree == Spec => []AuxWordsAgree
<1>1. Structure => AuxWordsAgree
  BY DEF Structure, StructureOK, AuxWordsAgree
<1> QED
  BY <1>1, StructureInvariant, PTL

-----------------------------------------------------------------------------
(* Where every throw is undone. *)

(* The hypothesis of the theorems: what allocates a chunk, constructs a    *)
(* value or grows iteration_ may throw, the rest does not.  The runs       *)
(* NodeArenaChunk, NodeArenaRehash and NodeArenaHandle show why not.       *)
ThrowsAreHandled ==
  /\ Throws \subseteq {"chunk", "construct", "link"}
  /\ HandleThrows = {}

LEMMA FoundIsContained ==
  ASSUME Settled(arena), NEW k
  PROVE  /\ Found(k) <=> k \in Stored(arena)
         /\ Found(k) => NodeOf(k) \in Linked(arena) /\ arena.value[NodeOf(k)] = k
<1>1. Found(k) <=> k \in Stored(arena)
  BY DEF Found, Stored, Settled, Sound
<1>2. Found(k) => NodeOf(k) \in arena.indexed /\ arena.value[NodeOf(k)] = k
  BY DEF Found, NodeOf
<1> QED
  BY <1>1, <1>2 DEF Settled, Sound

(* The end of an insertion, where only link_into_iteration may throw. *)
LEMMA InsertNodeSettled ==
  ASSUME Settled(arena), NEW k \in Key, ~Found(k),
         NEW sites, sites \subseteq {"chunk", "construct", "link"},
         InsertNode(construct_value(acquire_node(arena), next_node(arena), k),
                    next_node(arena), sites)
  PROVE  /\ Settled(arena')
         /\ bucket_array' = "present"
         /\ \/ /\ outcome' = "yes"
               /\ Stored(arena') = Stored(arena) \union {k}
            \/ /\ outcome' = "threw"
               /\ "link" \in sites
               /\ Stored(arena') = Stored(arena)
<1> DEFINE n == next_node(arena)
           b == construct_value(acquire_node(arena), n, k)
<1>1. k \notin Stored(arena)
  BY FoundIsContained
<1>0. n = next_node(arena) /\ b = construct_value(acquire_node(arena), n, k)
  OBVIOUS
<1>2. /\ bucket_array' = "present"
      /\ \E c \in {b, rehash_to(b)} :
           \/ ThrowsAt("link", sites, discard_node(c, n))
           \/ Returns("yes", insert_known_absent(link_into_iteration(c, n), n))
  BY DEF InsertNode, ThrowsAt
<1>3. PICK c \in {b, rehash_to(b)} :
        \/ ThrowsAt("link", sites, discard_node(c, n))
        \/ Returns("yes", insert_known_absent(link_into_iteration(c, n), n))
  BY <1>2
<1> HIDE DEF n, b
<1>4. Sound(discard_node(c, n)) /\ SameElements(arena, discard_node(c, n))
  BY <1>0, InsertionUndone DEF Settled
<1>7. LET d == insert_known_absent(link_into_iteration(c, n), n)
      IN  Sound(d) /\ WithElement(arena, d, n, k)
  BY <1>0, InsertionDone DEF Settled
<1>5. /\ Settled(discard_node(c, n))
      /\ Stored(discard_node(c, n)) = Stored(arena)
  BY <1>4, SameIsSettled
<1>6. LET d == insert_known_absent(link_into_iteration(c, n), n)
      IN  Settled(d) /\ Stored(d) = Stored(arena) \union {k}
  BY <1>1, <1>7, MoreIsSettled
<1> QED
  BY <1>2, <1>3, <1>5, <1>6 DEF ThrowsAt, Returns

-----------------------------------------------------------------------------
(* The invariant and the step of ElementStore, action by action. *)

LEMMA InvariantIsSettled ==
  /\ IInv => /\ Settled(arena)
             /\ Structure
             /\ ~chunk_leaked
             /\ arena.iteration # << >> => bucket_array = "present"
  /\ /\ Settled(arena)
     /\ Structure
     /\ ~chunk_leaked
     /\ arena.iteration # << >> => bucket_array = "present"
     => IInv
BY DEF IInv, Settled, Sound, Structure, NothingLeaks, IndexMatchesIteration,
       BucketArrayPresent

(* What one call does: the arena is settled again, and ElementStore makes  *)
(* the step.                                                               *)
LEMMA StoreStep ==
  ASSUME ThrowsAreHandled, IInv, Next
  PROVE  /\ Settled(arena')
         /\ ~chunk_leaked'
         /\ arena'.iteration # << >> => bucket_array' = "present"
         /\ ~HintInserts => Store!Next
<1> DEFINE contents == Stored(arena)
           contents_ == Stored(arena')
           Done == /\ Settled(arena')
                   /\ ~chunk_leaked'
                   /\ arena'.iteration # << >> => bucket_array' = "present"
           Throw == outcome' = "threw" /\ contents_ = contents /\ handles' = handles
           Insert(k) == /\ contents_ = contents \union {k}
                        /\ outcome' = IF k \in contents THEN "no" ELSE "yes"
                        /\ handles' = handles
<1>a. /\ Settled(arena)
      /\ StructureOK(arena)
      /\ ~chunk_leaked
      /\ arena.iteration # << >> => bucket_array = "present"
  BY InvariantIsSettled DEF Settled, Sound
<1>b. /\ Throw => Store!Throw
      /\ \A k : Insert(k) => Store!Insert(k)
  BY DEF Store!Throw, Store!Insert, Stored
<1>c. /\ Store!Throw => Store!Next
      /\ \A k \in Key : Store!Insert(k) => Store!Next
  BY DEF Store!Next
<1>d. ASSUME NEW k
      PROVE  /\ Found(k) <=> k \in contents
             /\ Found(k) => NodeOf(k) \in Linked(arena) /\ arena.value[NodeOf(k)] = k
  BY <1>a, FoundIsContained
<1>e. ASSUME AcquireThrows
      PROVE  Done /\ Throw
  BY <1>a, <1>e DEF AcquireThrows, ThrowsAt, Returns, ThrowsAreHandled
<1>f. LET b == release_node(acquire_node(arena), next_node(arena))
      IN  Settled(b) /\ Stored(b) = contents /\ b.iteration = arena.iteration
  <2>1. LET b == release_node(acquire_node(arena), next_node(arena))
        IN  Sound(b) /\ SameElements(arena, b) /\ b.iteration = arena.iteration
    BY <1>a, SoundReleased DEF Settled
  <2> QED
    BY <1>a, <2>1, SameIsSettled
<1>g. ASSUME NEW k \in Key
      PROVE  LET b == discard_node(construct_value(acquire_node(arena),
                                     next_node(arena), k), next_node(arena))
             IN  Settled(b) /\ Stored(b) = contents /\ b.iteration = arena.iteration
  <2>1. LET b == discard_node(construct_value(acquire_node(arena),
                                next_node(arena), k), next_node(arena))
        IN  Sound(b) /\ SameElements(arena, b) /\ b.iteration = arena.iteration
    BY <1>a, InsertionUndone DEF Settled
  <2> QED
    BY <1>a, <2>1, SameIsSettled
<1>h. ASSUME NEW k \in Key, ~Found(k), UNCHANGED <<handles, chunk_leaked>>,
             InsertNode(construct_value(acquire_node(arena), next_node(arena), k),
                        next_node(arena), Throws)
      PROVE  Done /\ (Throw \/ Insert(k))
  BY <1>a, <1>d, <1>h, InsertNodeSettled DEF ThrowsAreHandled
<1>1. ASSUME NEW k \in Key, Emplace(k)
      PROVE  Done /\ (Throw \/ Insert(k))
  <2> DEFINE n == next_node(arena)
             a == acquire_node(arena)
             b == construct_value(a, n, k)
  <2>1. CASE AcquireThrows
    BY <1>e, <2>1
  <2>2. CASE /\ ThrowsAt("construct", Throws, release_node(a, n))
             /\ UNCHANGED <<handles, chunk_leaked, bucket_array>>
    BY <1>a, <1>f, <2>2 DEF ThrowsAt, Returns
  <2>3. CASE /\ Found(k) /\ Returns("no", discard_node(b, n))
             /\ UNCHANGED <<handles, chunk_leaked, bucket_array>>
    BY <1>a, <1>d, <1>g, <2>3 DEF Returns
  <2>4. CASE /\ ~Found(k) /\ InsertNode(b, n, Throws)
             /\ UNCHANGED <<handles, chunk_leaked>>
    BY <1>h, <2>4
  <2>5. ~ThrowsAt("hash", Throws, b)
    BY DEF ThrowsAt, ThrowsAreHandled
  <2> QED
    BY <1>1, <2>1, <2>2, <2>3, <2>4, <2>5 DEF Emplace
<1>2. ASSUME NEW k \in Key, TryEmplace(k)
      PROVE  Done /\ (Throw \/ Insert(k))
  <2> DEFINE n == next_node(arena)
             a == acquire_node(arena)
             b == construct_value(a, n, k)
  <2>1. CASE AcquireThrows
    BY <1>e, <2>1
  <2>2. CASE /\ ThrowsAt("construct", Throws, release_node(a, n))
             /\ UNCHANGED <<handles, chunk_leaked, bucket_array>>
    BY <1>a, <1>f, <2>2 DEF ThrowsAt, Returns
  <2>3. CASE /\ Found(k) /\ Returns("no", arena)
             /\ UNCHANGED <<handles, chunk_leaked, bucket_array>>
    BY <1>a, <1>d, <2>3 DEF Returns
  <2>4. CASE /\ ~Found(k) /\ InsertNode(b, n, Throws)
             /\ UNCHANGED <<handles, chunk_leaked>>
    BY <1>h, <2>4
  <2>5. ~ThrowsAt("hash", Throws, arena)
    BY DEF ThrowsAt, ThrowsAreHandled
  <2> QED
    BY <1>2, <2>1, <2>2, <2>3, <2>4, <2>5 DEF TryEmplace
<1>3. ASSUME NEW k \in Key, InsertHandle(k)
      PROVE  Done /\ Store!Next
  <2> DEFINE n == next_node(arena)
             a == acquire_node(arena)
             b == construct_value(a, n, k)
  <2>1. CASE AcquireThrows
    BY <1>b, <1>c, <1>e, <2>1
  <2>2. CASE /\ ThrowsAt("construct", Throws, release_node(a, n))
             /\ UNCHANGED <<handles, chunk_leaked, bucket_array>>
    <3>1. Done /\ Throw
      BY <1>a, <1>f, <2>2 DEF ThrowsAt, Returns
    <3> QED
      BY <1>b, <1>c, <3>1
  <2>3. CASE /\ InsertNode(b, n, HandleThrows)
             /\ handles' = handles \ {k}
             /\ UNCHANGED chunk_leaked
    <3>1. /\ Done
          /\ outcome' = "yes"
          /\ contents_ = contents \union {k}
      BY <1>3, <1>a, <2>3, InsertNodeSettled DEF ThrowsAreHandled, InsertHandle
    <3>2. k \in handles \ contents
      BY <1>3, <1>d DEF InsertHandle
    <3>3. Store!InsertHandle(k)
      BY <2>3, <3>1, <3>2 DEF Store!InsertHandle, Stored
    <3> QED
      BY <3>1, <3>3 DEF Store!Next
  <2>4. ~ThrowsAt("hash", Throws, arena)
    BY DEF ThrowsAt, ThrowsAreHandled
  <2> QED
    BY <1>3, <2>1, <2>2, <2>3, <2>4 DEF InsertHandle
<1>4. ASSUME NEW k \in Key, RefuseHandle(k)
      PROVE  Done /\ Store!Next
  <2>1. k \in handles \intersect contents
    BY <1>4, <1>d DEF RefuseHandle
  <2>2. Store!RefuseHandle(k)
    BY <1>4, <2>1 DEF RefuseHandle, Returns, Store!RefuseHandle, Stored
  <2>3. Done
    BY <1>4, <1>a DEF RefuseHandle, Returns
  <2> QED
    BY <2>2, <2>3 DEF Store!Next
<1>13. ASSUME NEW k \in Key, RefuseHint(k)
       PROVE  Done /\ HintInserts
  BY <1>13, <1>a DEF RefuseHint, Returns
<1>5. ASSUME NEW k \in Key, DropHandle(k)
      PROVE  Done /\ Store!Next
  <2>1. Store!Drop(k)
    BY <1>5 DEF DropHandle, Returns, Store!Drop, Stored
  <2>2. Done
    BY <1>5, <1>a DEF DropHandle, Returns
  <2> QED
    BY <2>1, <2>2 DEF Store!Next
<1>12. ASSUME NEW k \in Key, NEW l \in Key, Rekey(k, l)
       PROVE  Done /\ Store!Next
  <2>1. Store!Rekey(k, l)
    BY <1>12 DEF Rekey, OneHandle, Returns, Store!Rekey, Stored
  <2>2. Done
    BY <1>12, <1>a DEF Rekey, Returns
  <2> QED
    BY <2>1, <2>2 DEF Store!Next
<1>i. ASSUME NEW k, Found(k)
      PROVE  /\ Settled(erase_located(arena, NodeOf(k)))
             /\ Stored(erase_located(arena, NodeOf(k))) = contents \ {k}
             /\ bucket_array = "present"
  <2>1. NodeOf(k) \in Linked(arena) /\ arena.value[NodeOf(k)] = k
    BY <1>d, <1>i
  <2>2. arena.iteration # << >>
    <3>1. Len(arena.iteration) # 0
      <4>1. PICK p \in 1 .. Len(arena.iteration) : arena.iteration[p] = NodeOf(k)
        BY <2>1 DEF Linked
      <4> QED
        BY <4>1, Members, <1>a DEF StructureOK
    <3> QED
      BY <3>1, EmptySeq
  <2> QED
    BY <1>a, <2>1, <2>2, SoundErased, LessIsSettled DEF Settled
<1>6. ASSUME NEW k \in Key, Extract(k)
      PROVE  Done /\ Store!Next
  <2>1. CASE /\ Found(k)
             /\ Returns("yes", erase_located(arena, NodeOf(k)))
             /\ handles' = handles \union {k}
    <3>1. Done /\ contents_ = contents \ {k} /\ k \in contents
      BY <1>6, <1>a, <1>d, <1>i, <2>1 DEF Extract, Returns
    <3>2. Store!Extract(k)
      BY <2>1, <3>1 DEF Store!Extract, Stored, Returns
    <3> QED
      BY <3>1, <3>2 DEF Store!Next
  <2>2. CASE ThrowsAt("construct", Throws, arena) /\ UNCHANGED handles
    <3>1. Done /\ Throw
      BY <1>6, <1>a, <2>2 DEF Extract, ThrowsAt, Returns
    <3> QED
      BY <1>b, <1>c, <3>1
  <2>3. CASE ~Found(k) /\ Returns("no", arena) /\ UNCHANGED handles
    <3>1. /\ Done
          /\ contents_ = contents \ {k}
          /\ k \notin contents
          /\ outcome' = "no"
      BY <1>6, <1>a, <1>d, <2>3 DEF Extract, Returns
    <3>2. Store!Erase(k)
      BY <2>3, <3>1 DEF Store!Erase, Stored
    <3> QED
      BY <3>1, <3>2 DEF Store!Next
  <2>4. ~ThrowsAt("hash", Throws, arena)
    BY DEF ThrowsAt, ThrowsAreHandled
  <2> QED
    BY <1>6, <2>1, <2>2, <2>3, <2>4 DEF Extract
<1>7. ASSUME NEW k \in Key, Erase(k)
      PROVE  Done /\ Store!Next
  <2>1. CASE Found(k) /\ Returns("yes", erase_located(arena, NodeOf(k)))
    <3>1. /\ Done
          /\ contents_ = contents \ {k}
          /\ k \in contents
          /\ outcome' = "yes"
          /\ handles' = handles
      BY <1>7, <1>a, <1>d, <1>i, <2>1 DEF Erase, Returns
    <3>2. Store!Erase(k)
      BY <3>1 DEF Store!Erase, Stored
    <3> QED
      BY <3>1, <3>2 DEF Store!Next
  <2>2. CASE ~Found(k) /\ Returns("no", arena)
    <3>1. /\ Done
          /\ contents_ = contents \ {k}
          /\ k \notin contents
          /\ outcome' = "no"
          /\ handles' = handles
      BY <1>7, <1>a, <1>d, <2>2 DEF Erase, Returns
    <3>2. Store!Erase(k)
      BY <3>1 DEF Store!Erase, Stored
    <3> QED
      BY <3>1, <3>2 DEF Store!Next
  <2>3. ~ThrowsAt("hash", Throws, arena)
    BY DEF ThrowsAt, ThrowsAreHandled
  <2> QED
    BY <1>7, <2>1, <2>2, <2>3 DEF Erase
<1>8. ASSUME Clear
      PROVE  Done /\ Store!Next
  <2>1. /\ Settled(arena') /\ contents_ = {}
        /\ arena'.iteration = << >>
        /\ outcome' = "yes"
        /\ UNCHANGED <<bucket_array, handles, chunk_leaked>>
    BY <1>8, <1>a, SettledWhenEmpty, Cleared DEF Clear, Returns, Settled
  <2>2. Store!Clear
    BY <2>1 DEF Store!Clear, Stored
  <2> QED
    BY <1>a, <2>1, <2>2 DEF Store!Next
<1>9. ASSUME Rehash
      PROVE  Done /\ Store!Next
  <2>1. /\ Settled(rehash_to(arena))
        /\ Stored(rehash_to(arena)) = contents
        /\ rehash_to(arena).iteration = arena.iteration
    BY <1>a, SoundRehashed, SameIsSettled DEF Settled
  <2>2. \/ /\ Returns("yes", rehash_to(arena))
           /\ bucket_array' = "present"
        \/ /\ arena.iteration = << >>
           /\ Returns("yes", arena)
    BY <1>9 DEF Rehash, ThrowsAt, ThrowsAreHandled
  <2>3. UNCHANGED <<handles, chunk_leaked>>
    BY <1>9 DEF Rehash
  <2>4. Done /\ contents_ = contents /\ outcome' = "yes"
    BY <1>a, <2>1, <2>2, <2>3 DEF Returns
  <2>5. Store!Rehash
    BY <2>3, <2>4 DEF Store!Rehash, Stored
  <2> QED
    BY <2>4, <2>5 DEF Store!Next
<1>10. ASSUME Teardown
       PROVE  Done /\ Store!Next
  <2>1. /\ Settled(arena') /\ contents_ = {}
        /\ arena'.iteration = << >>
        /\ outcome' = "yes"
        /\ UNCHANGED <<handles, chunk_leaked>>
    BY <1>10, SettledWhenEmpty, EmptyArenaOK DEF Teardown, Returns
  <2>2. Store!Clear
    BY <2>1 DEF Store!Clear, Stored
  <2> QED
    BY <1>a, <2>1, <2>2 DEF Store!Next
<1>11. ASSUME NEW k \in Key, Emplace(k) \/ TryEmplace(k)
       PROVE  Done /\ Store!Next
  BY <1>11, <1>1, <1>2, <1>b, <1>c
<1> QED
  BY <1>3, <1>4, <1>5, <1>6, <1>7, <1>8, <1>9, <1>10, <1>11, <1>12, <1>13 DEF Next

LEMMA InvariantStep ==
  ASSUME ThrowsAreHandled, IInv, [Next]_vars
  PROVE  IInv' /\ (~HintInserts => [Store!Next]_(Store!vars))
<1>1. Structure'
  BY InvariantIsSettled, StructureStep
<1>2. CASE Next
  <2>1. /\ Settled(arena')
        /\ ~chunk_leaked'
        /\ arena'.iteration # << >> => bucket_array' = "present"
        /\ ~HintInserts => Store!Next
    BY <1>2, StoreStep
  <2>2. IInv'
    BY <1>1, <2>1 DEF IInv, Settled, Sound, Structure, NothingLeaks,
                      IndexMatchesIteration, BucketArrayPresent
  <2> QED
    BY <2>1, <2>2
<1>3. CASE UNCHANGED vars
  <2>1. UNCHANGED Store!vars
    BY <1>3 DEF vars, Store!vars
  <2>2. IInv'
    BY <1>3 DEF vars, IInv, TypeOK, NothingLeaks, IndexMatchesIteration,
                BucketArrayPresent
  <2> QED
    BY <2>1, <2>2
<1> QED
  BY <1>2, <1>3

LEMMA InitOK == Init => IInv /\ Store!Init
<1> SUFFICES ASSUME Init
             PROVE  IInv /\ Store!Init
  OBVIOUS
<1>1. Structure
  BY EmptyArenaOK DEF Init, Structure, TypeOK, StructureOK
<1>2. Settled(arena) /\ Stored(arena) = {} /\ arena.iteration = << >>
  BY SettledWhenEmpty, EmptyArenaOK DEF Init
<1>3. IInv
  BY <1>1, <1>2, InvariantIsSettled DEF Init
<1>4. Store!Init
  BY <1>2 DEF Init, Store!Init, Stored
<1> QED
  BY <1>3, <1>4

-----------------------------------------------------------------------------
(* Every slot handed out is an element or free, only elements hold a       *)
(* value, and the index is the iteration vector: between any two calls,    *)
(* also after one that threw.                                              *)
THEOREM ArenaInvariant ==
  ASSUME ThrowsAreHandled
  PROVE  Spec => []IInv
<1>1. Init => IInv
  BY InitOK
<1>2. IInv /\ [Next]_vars => IInv'
  BY InvariantStep
<1> QED
  BY <1>1, <1>2, PTL DEF Spec

(* No call leaks a slot, a value or a chunk. *)
THEOREM NothingEverLeaks ==
  ASSUME ThrowsAreHandled
  PROVE  Spec => []NothingLeaks
<1>1. IInv => NothingLeaks
  BY DEF IInv
<1> QED
  BY <1>1, ArenaInvariant, PTL

(* Iteration and lookup always agree on the elements. *)
THEOREM IterationAndLookupAgree ==
  ASSUME ThrowsAreHandled
  PROVE  Spec => []IndexMatchesIteration
<1>1. IInv => IndexMatchesIteration
  BY DEF IInv
<1> QED
  BY <1>1, ArenaInvariant, PTL

(* The strong guarantee: each call takes effect as ElementStore says, or   *)
(* throws and leaves the elements and the handles as they were.  The       *)
(* overload of insert with a hint is excluded: it drops the handle it      *)
(* refuses (hash_table.hpp:1221).                                          *)
THEOREM ArenaImplementsElementStore ==
  ASSUME ThrowsAreHandled, ~HintInserts
  PROVE  Spec => ImplementsElementStore
<1>1. Init => Store!Init
  BY InitOK
<1>2. IInv /\ [Next]_vars => [Store!Next]_(Store!vars)
  BY InvariantStep
<1>3. Spec => []IInv
  BY ArenaInvariant
<1> QED
  BY <1>1, <1>2, <1>3, PTL DEF Spec, ImplementsElementStore, Store!Spec
=============================================================================
