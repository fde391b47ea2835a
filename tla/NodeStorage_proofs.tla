------------------------- MODULE NodeStorage_proofs -------------------------
(***************************************************************************)
(* What the operators on a storage record do to it, for every set of keys, *)
(* every chunk size and every record the operators can be given: one lemma *)
(* each, for the proofs about the modules that use the storage.            *)
(*                                                                         *)
(* A slot is Held while the call that acquired it has neither linked nor   *)
(* released it.  The lemmas on single steps speak of StructureOK, which    *)
(* survives a throw at any place; those at the end, on whole calls, of     *)
(* Sound, which also says that nothing leaks.                              *)
(***************************************************************************)
EXTENDS NodeStorage, SequenceTheorems, TLAPS

Held(a, n) == n \in Slots(a) \ (Linked(a) \union Freed(a))

IsRecord(a) ==
  a = [capacity         |-> a.capacity,
       arena_high_water |-> a.arena_high_water,
       free_list_head   |-> a.free_list_head,
       freed            |-> a.freed,
       aux              |-> a.aux,
       value            |-> a.value,
       iteration        |-> a.iteration,
       indexed          |-> a.indexed]

(* iteration_ after n is unlinked: the last element took its position. *)
Filled(a, b, n) ==
  /\ Len(b.iteration) = Len(a.iteration) - 1
  /\ \A p \in 1 .. Len(a.iteration) - 1 :
       b.iteration[p] = IF p = a.aux[n] + 1
                        THEN a.iteration[Len(a.iteration)] ELSE a.iteration[p]

-----------------------------------------------------------------------------
(* Sequences. *)

LEMMA PopBack ==
  ASSUME NEW S, NEW s \in Seq(S), s # << >>
  PROVE  /\ Len(s) \in Nat \ {0}
         /\ pop_back(s) \in Seq(S)
         /\ Len(pop_back(s)) = Len(s) - 1
         /\ \A i \in 1 .. Len(s) - 1 : pop_back(s)[i] = s[i]
         /\ pop_back(s) = << >> <=> Len(s) = 1
<1>1. Len(s) \in Nat \ {0}
  BY EmptySeq
<1>2. \A i \in 1 .. Len(s) - 1 : s[i] \in S
  BY <1>1, ElementOfSeq
<1>3. /\ pop_back(s) \in Seq(S)
      /\ Len(pop_back(s)) = IF 1 <= Len(s) - 1 THEN Len(s) - 1 - 1 + 1 ELSE 0
      /\ \A i \in 1 .. Len(s) - 1 - 1 + 1 : pop_back(s)[i] = s[1 + i - 1]
  BY <1>1, <1>2, SubSeqProperties DEF pop_back
<1>4. Len(pop_back(s)) = Len(s) - 1
  <2>1. Len(pop_back(s)) = IF 1 <= Len(s) - 1 THEN Len(s) - 1 - 1 + 1 ELSE 0
    BY <1>3
  <2> DEFINE length == Len(s)
  <2>2. length \in Nat \ {0}
    BY <1>1
  <2>3. Len(pop_back(s)) = IF 1 <= length - 1 THEN length - 1 - 1 + 1 ELSE 0
    BY <2>1
  <2> HIDE DEF length
  <2>4. Len(pop_back(s)) = length - 1
    BY <2>2, <2>3
  <2> QED
    BY <2>4 DEF length
<1>6. ASSUME NEW i \in 1 .. Len(s) - 1
      PROVE  pop_back(s)[i] = s[i]
  <2>1. i \in 1 .. Len(s) - 1 - 1 + 1 /\ 1 + i - 1 = i
    BY <1>1
  <2> QED
    BY <1>3, <2>1
<1>5. pop_back(s) = << >> <=> Len(pop_back(s)) = 0
  BY <1>3, EmptySeq
<1> QED
  BY <1>1, <1>3, <1>4, <1>5, <1>6

LEMMA Members ==
  ASSUME NEW a, ArenaTypeOK(a)
  PROVE  /\ Linked(a) \subseteq Slots(a)
         /\ Freed(a) \subseteq Slots(a)
         /\ a.freed = << >> <=> Freed(a) = {}
         /\ Slots(a) \subseteq 0 .. a.capacity - 1
         /\ Len(a.iteration) \in Nat
         /\ Len(a.freed) \in Nat
         /\ \A p \in 1 .. Len(a.iteration) : a.iteration[p] \in Slots(a)
         /\ \A i \in 1 .. Len(a.freed) : a.freed[i] \in Slots(a)
<1>1. /\ Len(a.iteration) \in Nat
      /\ Len(a.freed) \in Nat
      /\ \A p \in 1 .. Len(a.iteration) : a.iteration[p] \in Slots(a)
      /\ \A i \in 1 .. Len(a.freed) : a.freed[i] \in Slots(a)
  BY ElementOfSeq, LenProperties DEF ArenaTypeOK, IsRecord
<1>2. a.freed = << >> <=> Len(a.freed) = 0
  BY EmptySeq DEF ArenaTypeOK, IsRecord
<1>3. a.freed = << >> <=> Freed(a) = {}
  <2>1. CASE Len(a.freed) = 0
    <3>1. 1 .. Len(a.freed) = {}
      BY <2>1
    <3> QED
      BY <1>2, <2>1, <3>1 DEF Freed
  <2>2. CASE Len(a.freed) # 0
    <3>1. 1 \in 1 .. Len(a.freed)
      BY <1>1, <2>2
    <3>2. a.freed[1] \in Freed(a)
      BY <3>1 DEF Freed
    <3> QED
      BY <1>2, <2>2, <3>2
  <2> QED
    BY <2>1, <2>2
<1>4. Slots(a) \subseteq 0 .. a.capacity - 1
  BY DEF ArenaTypeOK, Slots
<1> QED
  BY <1>1, <1>3, <1>4 DEF Linked, Freed

LEMMA PositionsUnique ==
  ASSUME NEW a, StructureOK(a), NEW n \in Linked(a)
  PROVE  /\ a.aux[n] \in Nat
         /\ a.aux[n] + 1 \in 1 .. Len(a.iteration)
         /\ a.iteration[a.aux[n] + 1] = n
<1>1. PICK p \in 1 .. Len(a.iteration) : a.iteration[p] = n
  BY DEF Linked
<1>2. Len(a.iteration) \in Nat
  BY Members DEF StructureOK
<1>3. a.aux[n] = p - 1
  BY <1>1 DEF StructureOK, PositionsMatch
<1>4. p - 1 \in Nat /\ (p - 1) + 1 = p
  BY <1>2
<1> QED
  BY <1>1, <1>3, <1>4

(* Only the lists, the index and the aux words in use matter.              *)
LEMMA SameLists ==
  ASSUME NEW a, StructureOK(a), NEW b, ArenaTypeOK(b),
         b.iteration = a.iteration, b.freed = a.freed,
         b.free_list_head = a.free_list_head,
         b.indexed \subseteq Linked(a),
         \A n \in Slots(a) : b.aux[n] = a.aux[n]
  PROVE  StructureOK(b) /\ Linked(b) = Linked(a) /\ Freed(b) = Freed(a)
<1>1. /\ \A p \in 1 .. Len(a.iteration) : a.iteration[p] \in Slots(a)
      /\ \A i \in 1 .. Len(a.freed) : a.freed[i] \in Slots(a)
  BY Members DEF StructureOK
<1>2. Linked(b) = Linked(a) /\ Freed(b) = Freed(a)
  BY DEF Linked, Freed
<1>3. ASSUME NEW p \in 1 .. Len(a.iteration)
      PROVE  b.aux[a.iteration[p]] = p - 1
  <2>1. a.aux[a.iteration[p]] = p - 1
    BY DEF StructureOK, PositionsMatch
  <2> QED
    BY <1>1, <2>1
<1>4. ASSUME NEW i \in 1 .. Len(a.freed)
      PROVE  b.aux[a.freed[i]] = IF i = 1 THEN kNullIndex ELSE a.freed[i - 1]
  <2>1. a.aux[a.freed[i]] = IF i = 1 THEN kNullIndex ELSE a.freed[i - 1]
    BY DEF StructureOK, FreeListChained
  <2> QED
    BY <1>1, <2>1
<1>5. PositionsMatch(b)
  BY <1>3 DEF PositionsMatch
<1>6. FreeListChained(b)
  BY <1>4 DEF FreeListChained, StructureOK
<1>7. NeverShared(b)
  BY <1>2 DEF NeverShared, StructureOK
<1> QED
  BY <1>2, <1>5, <1>6, <1>7 DEF StructureOK

-----------------------------------------------------------------------------
(* Slots handed out and given back. *)

(* A fresh chunk adds slots no element and no list knows. *)
LEMMA ChunkAdded ==
  ASSUME NEW a, StructureOK(a)
  PROVE  /\ StructureOK(ensure_arena_slot(a))
         /\ ensure_arena_slot(a).indexed = a.indexed
         /\ ensure_arena_slot(a).iteration = a.iteration
         /\ ensure_arena_slot(a).freed = a.freed
         /\ ensure_arena_slot(a).free_list_head = a.free_list_head
         /\ ensure_arena_slot(a).arena_high_water = a.arena_high_water
         /\ a.free_list_head = kNullIndex =>
              a.arena_high_water < ensure_arena_slot(a).capacity
         /\ \A n \in DOMAIN ensure_arena_slot(a).value :
              ensure_arena_slot(a).value[n] =
                IF n \in DOMAIN a.value THEN a.value[n] ELSE NoKey
<1> DEFINE b == ensure_arena_slot(a)
<1>1. ArenaTypeOK(a)
  BY DEF StructureOK
<1>2. a.capacity \in Nat /\ a.arena_high_water \in 0 .. a.capacity
  BY <1>1 DEF ArenaTypeOK, IsRecord
<1>3. CASE ~NeedsChunk(a)
  <2>1. b = a
    BY <1>3 DEF ensure_arena_slot
  <2> QED
    BY <1>2, <1>3, <2>1 DEF NeedsChunk
<1>4. CASE NeedsChunk(a)
  <2>1. /\ b.capacity = a.capacity + kChunkSize
        /\ b.arena_high_water = a.arena_high_water
        /\ b.free_list_head = a.free_list_head
        /\ b.freed = a.freed
        /\ b.iteration = a.iteration
        /\ b.indexed = a.indexed
        /\ b.aux = [n \in 0 .. a.capacity + kChunkSize - 1 |->
                     IF n < a.capacity THEN a.aux[n] ELSE kNullIndex]
        /\ b.value = [n \in 0 .. a.capacity + kChunkSize - 1 |->
                       IF n < a.capacity THEN a.value[n] ELSE NoKey]
        /\ IsRecord(b)
    BY <1>1, <1>4 DEF ensure_arena_slot, ArenaTypeOK, IsRecord
  <2>2. Slots(b) = Slots(a) /\ Linked(b) = Linked(a) /\ Freed(b) = Freed(a)
    BY <2>1 DEF Slots, Linked, Freed
  <2>3. kChunkSize \in Nat \ {0}
    BY StorageAssumption
  <2>4. ArenaTypeOK(b)
    <3>1. b.aux \in [0 .. b.capacity - 1 -> Nat \union {kNullIndex}]
      BY <1>1, <1>2, <2>1, <2>3 DEF ArenaTypeOK, IsRecord
    <3>2. b.value \in [0 .. b.capacity - 1 -> Key \union {NoKey}]
      BY <1>1, <1>2, <2>1, <2>3 DEF ArenaTypeOK, IsRecord
    <3>3. b.capacity \in Nat /\ b.arena_high_water <= b.capacity
      BY <1>2, <2>1, <2>3
    <3> QED
      BY <1>1, <2>1, <2>2, <3>1, <3>2, <3>3 DEF ArenaTypeOK, IsRecord
  <2>5. \A n \in Slots(a) : b.aux[n] = a.aux[n]
    BY <1>2, <2>1, <2>3 DEF Slots
  <2>8. StructureOK(b)
    BY <2>1, <2>4, <2>5, SameLists DEF StructureOK
  <2>9. \A n \in DOMAIN b.value :
          b.value[n] = IF n \in DOMAIN a.value THEN a.value[n] ELSE NoKey
    BY <1>1, <1>2, <2>1, <2>3 DEF ArenaTypeOK, IsRecord
  <2>10. a.arena_high_water < b.capacity
    BY <1>2, <2>1, <2>3
  <2> QED
    BY <2>1, <2>8, <2>9, <2>10
<1> QED
  BY <1>3, <1>4

LEMMA Acquired ==
  ASSUME NEW a, StructureOK(a)
  PROVE  /\ StructureOK(acquire_node(a))
         /\ Held(acquire_node(a), next_node(a))
         /\ next_node(a) \notin Linked(a)
         /\ Linked(acquire_node(a)) = Linked(a)
         /\ Freed(acquire_node(a)) = Freed(a) \ {next_node(a)}
         /\ Slots(acquire_node(a)) = Slots(a) \union {next_node(a)}
         /\ acquire_node(a).indexed = a.indexed
         /\ acquire_node(a).iteration = a.iteration
         /\ \A n \in DOMAIN acquire_node(a).value :
              acquire_node(a).value[n] =
                IF n \in DOMAIN a.value THEN a.value[n] ELSE NoKey
<1> DEFINE b == ensure_arena_slot(a)
           c == acquire_node(a)
           n == next_node(a)
<1>1. /\ StructureOK(b)
      /\ b.indexed = a.indexed
      /\ b.iteration = a.iteration
      /\ b.freed = a.freed
      /\ b.free_list_head = a.free_list_head
      /\ b.arena_high_water = a.arena_high_water
      /\ a.free_list_head = kNullIndex => a.arena_high_water < b.capacity
      /\ \A m \in DOMAIN b.value :
           b.value[m] = IF m \in DOMAIN a.value THEN a.value[m] ELSE NoKey
  BY ChunkAdded
<1>2. Linked(b) = Linked(a) /\ Freed(b) = Freed(a) /\ Slots(b) = Slots(a)
  BY <1>1 DEF Linked, Freed, Slots
<1>3. ArenaTypeOK(b)
  BY <1>1 DEF StructureOK
<1> HIDE DEF b
<1>4. CASE a.free_list_head = kNullIndex
  <2>1. c = [b EXCEPT !.arena_high_water = @ + 1]
    BY <1>1, <1>4 DEF acquire_node, b
  <2>2. n = a.arena_high_water
    BY <1>4 DEF next_node
  <2>3. /\ c.capacity = b.capacity
        /\ c.arena_high_water = b.arena_high_water + 1
        /\ c.free_list_head = b.free_list_head
        /\ c.freed = b.freed
        /\ c.aux = b.aux
        /\ c.value = b.value
        /\ c.iteration = b.iteration
        /\ c.indexed = b.indexed
        /\ IsRecord(c)
    BY <1>3, <2>1 DEF ArenaTypeOK, IsRecord
  <2> HIDE DEF c, n
  <2>4. a.arena_high_water \in Nat /\ b.capacity \in Nat
    BY <1>1, <1>3 DEF ArenaTypeOK, IsRecord
  <2>5. Slots(c) = Slots(b) \union {n} /\ n \notin Slots(b)
    BY <1>1, <2>2, <2>3, <2>4 DEF Slots
  <2>6. ArenaTypeOK(c)
    <3>1. /\ c.freed \in Seq(Slots(c))
          /\ c.iteration \in Seq(Slots(c))
          /\ c.indexed \subseteq Slots(c)
          /\ c.free_list_head \in Slots(c) \union {kNullIndex}
      BY <1>3, <2>3, <2>5 DEF ArenaTypeOK, IsRecord
    <3>2. /\ c.capacity \in Nat /\ c.arena_high_water \in Nat
          /\ c.arena_high_water <= c.capacity
      BY <1>1, <1>4, <2>3, <2>4
    <3>3. /\ c.aux \in [0 .. c.capacity - 1 -> Nat \union {kNullIndex}]
          /\ c.value \in [0 .. c.capacity - 1 -> Key \union {NoKey}]
      BY <1>3, <2>3 DEF ArenaTypeOK, IsRecord
    <3> QED
      BY <2>3, <3>1, <3>2, <3>3 DEF ArenaTypeOK, IsRecord
  <2>7. StructureOK(c) /\ Linked(c) = Linked(b) /\ Freed(c) = Freed(b)
    BY <1>1, <2>3, <2>6, SameLists DEF StructureOK
  <2>8. Linked(b) \subseteq Slots(b) /\ Freed(b) \subseteq Slots(b)
    BY <1>3, Members
  <2> QED
    BY <1>1, <1>2, <2>3, <2>5, <2>7, <2>8 DEF c, n, Held
<1>5. CASE a.free_list_head # kNullIndex
  <2> DEFINE length == Len(b.freed)
  <2>1. /\ b.freed \in Seq(Slots(b))
        /\ b.freed # << >>
        /\ b.free_list_head = b.freed[length]
        /\ \A i \in 1 .. length :
             b.aux[b.freed[i]] = IF i = 1 THEN kNullIndex ELSE b.freed[i - 1]
    BY <1>1, <1>3, <1>5 DEF StructureOK, FreeListChained, ArenaTypeOK
  <2>2. n = b.freed[length]
    BY <1>1, <1>5, <2>1 DEF next_node
  <2>3. c = [b EXCEPT !.free_list_head = b.aux[n], !.freed = pop_back(@)]
    BY <1>1, <1>5 DEF acquire_node, next_node, b
  <2>4. /\ c.capacity = b.capacity
        /\ c.arena_high_water = b.arena_high_water
        /\ c.free_list_head = b.aux[n]
        /\ c.freed = pop_back(b.freed)
        /\ c.aux = b.aux
        /\ c.value = b.value
        /\ c.iteration = b.iteration
        /\ c.indexed = b.indexed
        /\ IsRecord(c)
    BY <1>3, <2>3 DEF ArenaTypeOK, IsRecord
  <2>5. /\ length \in Nat \ {0}
        /\ c.freed \in Seq(Slots(b))
        /\ Len(c.freed) = length - 1
        /\ \A i \in 1 .. length - 1 : c.freed[i] = b.freed[i]
        /\ c.freed = << >> <=> length = 1
    BY <2>1, <2>4, PopBack
  <2> HIDE DEF c, n, length
  <2>6. Slots(c) = Slots(b) /\ Linked(c) = Linked(b)
    BY <2>4 DEF Slots, Linked
  <2>7. \A i \in 1 .. length : b.freed[i] \in Slots(b)
    BY <1>3, Members DEF length
  <2>8. length \in 1 .. length /\ n \in Slots(b) /\ n \in Freed(b)
    BY <2>2, <2>5, <2>7 DEF Freed, length
  <2>9. b.aux[n] = IF length = 1 THEN kNullIndex ELSE b.freed[length - 1]
    BY <2>1, <2>2, <2>8
  <2>10. length # 1 => length - 1 \in 1 .. length
    BY <2>5
  <2>11. c.free_list_head \in Slots(c) \union {kNullIndex}
    BY <2>4, <2>6, <2>7, <2>9, <2>10
  <2>12. ArenaTypeOK(c)
    <3>1. /\ b.capacity \in Nat
          /\ b.arena_high_water \in Nat
          /\ b.arena_high_water <= b.capacity
          /\ b.aux \in [0 .. b.capacity - 1 -> Nat \union {kNullIndex}]
          /\ b.value \in [0 .. b.capacity - 1 -> Key \union {NoKey}]
          /\ b.iteration \in Seq(Slots(b))
          /\ b.indexed \subseteq Slots(b)
      BY <1>3 DEF ArenaTypeOK, IsRecord
    <3> QED
      BY <2>4, <2>5, <2>6, <2>11, <3>1 DEF ArenaTypeOK, IsRecord
  <2>13. \A i, j \in 1 .. length : b.freed[i] = b.freed[j] => i = j
    BY <1>1 DEF StructureOK, NeverShared, Injective, length
  <2>14. Freed(b) = {b.freed[i] : i \in 1 .. length}
    BY DEF Freed, length
  <2>15. Freed(c) = {b.freed[i] : i \in 1 .. length - 1}
    BY <2>5 DEF Freed
  <2>16. Freed(c) = Freed(b) \ {n}
    <3>1. ASSUME NEW m \in Freed(c)
          PROVE  m \in Freed(b) \ {n}
      <4>1. PICK i \in 1 .. length - 1 : m = b.freed[i]
        BY <2>15
      <4>2. i \in 1 .. length /\ i # length
        BY <2>5, <4>1
      <4> QED
        BY <2>2, <2>8, <2>13, <2>14, <4>1, <4>2
    <3>2. ASSUME NEW m \in Freed(b), m # n
          PROVE  m \in Freed(c)
      <4>1. PICK i \in 1 .. length : m = b.freed[i]
        BY <2>14
      <4>2. i \in 1 .. length - 1
        BY <2>2, <2>5, <3>2, <4>1
      <4> QED
        BY <2>15, <4>1, <4>2
    <3> QED
      BY <3>1, <3>2
  <2>17. NeverShared(c)
    <3>1. Injective(c.freed)
      <4> SUFFICES ASSUME NEW i \in 1 .. length - 1, NEW j \in 1 .. length - 1,
                          c.freed[i] = c.freed[j]
                   PROVE  i = j
        BY <2>5 DEF Injective
      <4>1. i \in 1 .. length /\ j \in 1 .. length
        BY <2>5
      <4> QED
        BY <2>5, <2>13, <4>1
    <3> QED
      BY <1>1, <2>4, <2>6, <2>16, <3>1 DEF StructureOK, NeverShared
  <2>18. PositionsMatch(c)
    BY <1>1, <2>4 DEF StructureOK, PositionsMatch
  <2>19. FreeListChained(c)
    <3>1. c.free_list_head =
            IF c.freed = << >> THEN kNullIndex ELSE c.freed[Len(c.freed)]
      <4>1. CASE length = 1
        BY <2>4, <2>5, <2>9, <4>1
      <4>2. CASE length # 1
        <5>1. length - 1 \in 1 .. length - 1
          BY <2>5, <4>2
        <5>2. c.freed # << >> /\ c.freed[Len(c.freed)] = b.freed[length - 1]
          BY <2>5, <4>2, <5>1
        <5> QED
          BY <2>4, <2>9, <4>2, <5>2
      <4> QED
        BY <4>1, <4>2
    <3>2. ASSUME NEW i \in 1 .. length - 1
          PROVE  c.aux[c.freed[i]] = IF i = 1 THEN kNullIndex ELSE c.freed[i - 1]
      <4>1. i \in 1 .. length /\ (i # 1 => i - 1 \in 1 .. length - 1)
        BY <2>5
      <4>2. b.aux[b.freed[i]] = IF i = 1 THEN kNullIndex ELSE b.freed[i - 1]
        BY <2>1, <4>1 DEF length
      <4> QED
        BY <2>4, <2>5, <4>1, <4>2
    <3> QED
      BY <2>5, <3>1, <3>2 DEF FreeListChained
  <2>20. StructureOK(c)
    BY <1>1, <2>4, <2>6, <2>12, <2>17, <2>18, <2>19 DEF StructureOK
  <2>21. n \notin Linked(b)
    BY <1>1, <2>8 DEF StructureOK, NeverShared
  <2> QED
    BY <1>1, <1>2, <2>4, <2>6, <2>8, <2>16, <2>20, <2>21 DEF c, n, Held
<1> QED
  BY <1>4, <1>5

LEMMA Released ==
  ASSUME NEW a, StructureOK(a), NEW n, Held(a, n)
  PROVE  /\ StructureOK(release_node(a, n))
         /\ Slots(release_node(a, n)) = Slots(a)
         /\ Linked(release_node(a, n)) = Linked(a)
         /\ Freed(release_node(a, n)) = Freed(a) \union {n}
         /\ release_node(a, n).indexed = a.indexed
         /\ release_node(a, n).iteration = a.iteration
         /\ release_node(a, n).value = a.value
<1> DEFINE c == release_node(a, n)
           length == Len(a.freed)
           aux == [a.aux EXCEPT ![n] = a.free_list_head]
<1>1. ArenaTypeOK(a)
  BY DEF StructureOK
<1>0. c = [a EXCEPT !.aux = aux, !.free_list_head = n, !.freed = Append(@, n)]
  BY DEF release_node
<1> HIDE DEF c, aux
<1>2. /\ c.capacity = a.capacity
      /\ c.arena_high_water = a.arena_high_water
      /\ c.free_list_head = n
      /\ c.freed = Append(a.freed, n)
      /\ c.aux = aux
      /\ c.value = a.value
      /\ c.iteration = a.iteration
      /\ c.indexed = a.indexed
      /\ IsRecord(c)
  BY <1>0, <1>1 DEF ArenaTypeOK, IsRecord
<1>3. n \in Slots(a) /\ n \notin Linked(a) /\ n \notin Freed(a)
  BY DEF Held
<1>4. /\ length \in Nat
      /\ a.freed \in Seq(Slots(a))
      /\ \A i \in 1 .. length : a.freed[i] \in Slots(a)
      /\ Slots(a) \subseteq 0 .. a.capacity - 1
  BY <1>1, Members DEF ArenaTypeOK, IsRecord
<1>5. /\ c.freed \in Seq(Slots(a))
      /\ c.freed # << >>
      /\ Len(c.freed) = length + 1
      /\ \A i \in 1 .. length : c.freed[i] = a.freed[i]
      /\ c.freed[length + 1] = n
  BY <1>2, <1>3, <1>4, AppendProperties
<1> HIDE DEF length
<1>6. Slots(c) = Slots(a) /\ Linked(c) = Linked(a)
  BY <1>2 DEF Slots, Linked
<1>7. \A m \in Slots(a) : c.aux[m] = IF m = n THEN a.free_list_head ELSE a.aux[m]
  BY <1>1, <1>2, <1>4 DEF ArenaTypeOK, IsRecord, aux
<1>8. ArenaTypeOK(c)
  <2>1. n \in Nat
    BY <1>3, <1>4, <1>1 DEF Slots
  <2>2. c.aux \in [0 .. c.capacity - 1 -> Nat \union {kNullIndex}]
    <3>1. a.free_list_head \in Nat \union {kNullIndex}
      BY <1>1 DEF ArenaTypeOK, Slots
    <3> QED
      BY <1>1, <1>2, <3>1 DEF ArenaTypeOK, IsRecord, aux
  <2>3. /\ a.capacity \in Nat
        /\ a.arena_high_water \in Nat
        /\ a.arena_high_water <= a.capacity
        /\ a.value \in [0 .. a.capacity - 1 -> Key \union {NoKey}]
        /\ a.iteration \in Seq(Slots(a))
        /\ a.indexed \subseteq Slots(a)
    BY <1>1 DEF ArenaTypeOK, IsRecord
  <2> QED
    BY <1>2, <1>3, <1>5, <1>6, <2>2, <2>3 DEF ArenaTypeOK, IsRecord
<1>9. Freed(a) = {a.freed[i] : i \in 1 .. length}
  BY DEF Freed, length
<1>10. Freed(c) = Freed(a) \union {n}
  <2>1. Freed(c) = {c.freed[i] : i \in 1 .. length + 1}
    BY <1>5 DEF Freed
  <2>2. 1 .. length + 1 = 1 .. length \union {length + 1}
    BY <1>4
  <2> QED
    BY <1>5, <1>9, <2>1, <2>2
<1>11. Injective(c.freed)
  <2>1. \A i, j \in 1 .. length : a.freed[i] = a.freed[j] => i = j
    BY DEF StructureOK, NeverShared, Injective, length
  <2>2. \A i \in 1 .. length : a.freed[i] # n
    BY <1>3, <1>9
  <2> SUFFICES ASSUME NEW i \in 1 .. length + 1, NEW j \in 1 .. length + 1,
                      c.freed[i] = c.freed[j]
               PROVE  i = j
    BY <1>5 DEF Injective
  <2>3. /\ i \in 1 .. length \/ i = length + 1
        /\ j \in 1 .. length \/ j = length + 1
    BY <1>4
  <2> QED
    BY <1>5, <2>1, <2>2, <2>3
<1>12. NeverShared(c)
  BY <1>2, <1>3, <1>6, <1>10, <1>11 DEF StructureOK, NeverShared
<1>13. PositionsMatch(c)
  <2> SUFFICES ASSUME NEW p \in 1 .. Len(a.iteration)
               PROVE  c.aux[a.iteration[p]] = p - 1
    BY <1>2 DEF PositionsMatch
  <2>1. a.iteration[p] \in Slots(a) /\ a.iteration[p] # n
    BY <1>1, <1>3, Members DEF Linked
  <2>2. a.aux[a.iteration[p]] = p - 1
    BY DEF StructureOK, PositionsMatch
  <2> QED
    BY <1>7, <2>1, <2>2
<1>14. FreeListChained(c)
  <2>1. a.free_list_head = IF a.freed = << >> THEN kNullIndex ELSE a.freed[length]
    BY DEF StructureOK, FreeListChained, length
  <2>2. \A i \in 1 .. length :
          a.aux[a.freed[i]] = IF i = 1 THEN kNullIndex ELSE a.freed[i - 1]
    BY DEF StructureOK, FreeListChained, length
  <2>3. a.freed = << >> <=> length = 0
    BY <1>4, EmptySeq DEF length
  <2>4. ASSUME NEW i \in 1 .. length + 1
        PROVE  c.aux[c.freed[i]] = IF i = 1 THEN kNullIndex ELSE c.freed[i - 1]
    <3>1. CASE i = length + 1
      <4>1. c.aux[n] = a.free_list_head
        BY <1>3, <1>7
      <4>2. length # 0 => length \in 1 .. length /\ i - 1 = length /\ i # 1
        BY <1>4, <3>1
      <4>3. length = 0 <=> i = 1
        BY <1>4, <3>1
      <4> QED
        BY <1>5, <2>1, <2>3, <3>1, <4>1, <4>2, <4>3
    <3>2. CASE i \in 1 .. length
      <4>1. a.freed[i] \in Slots(a) /\ a.freed[i] # n
        BY <1>3, <1>4, <1>9, <3>2
      <4>2. c.aux[c.freed[i]] = a.aux[a.freed[i]]
        BY <1>5, <1>7, <3>2, <4>1
      <4>3. i # 1 => i - 1 \in 1 .. length
        BY <1>4, <3>2
      <4> QED
        BY <1>5, <2>2, <3>2, <4>2, <4>3
    <3> QED
      BY <1>4, <3>1, <3>2
  <2>5. c.free_list_head = c.freed[Len(c.freed)]
    BY <1>2, <1>5
  <2> QED
    BY <1>5, <2>4, <2>5 DEF FreeListChained
<1>15. StructureOK(c)
  BY <1>2, <1>6, <1>8, <1>12, <1>13, <1>14 DEF StructureOK
<1> QED
  BY <1>2, <1>6, <1>10, <1>15 DEF c

(* A value that comes or goes disturbs nothing else.                       *)
LEMMA ValueSet ==
  ASSUME NEW a, StructureOK(a), NEW n \in Slots(a), NEW v \in Key \union {NoKey}
  PROVE  LET b == [a EXCEPT !.value[n] = v]
         IN  /\ StructureOK(b)
             /\ Slots(b) = Slots(a)
             /\ Linked(b) = Linked(a)
             /\ Freed(b) = Freed(a)
             /\ b.indexed = a.indexed
             /\ b.iteration = a.iteration
             /\ b.aux = a.aux
             /\ b.value = [a.value EXCEPT ![n] = v]
             /\ n \in DOMAIN a.value
<1> DEFINE b == [a EXCEPT !.value[n] = v]
           value == [a.value EXCEPT ![n] = v]
<1>1. ArenaTypeOK(a)
  BY DEF StructureOK
<1>0. b = [a EXCEPT !.value = value]
  OBVIOUS
<1> HIDE DEF b, value
<1>2. /\ b.capacity = a.capacity
      /\ b.arena_high_water = a.arena_high_water
      /\ b.free_list_head = a.free_list_head
      /\ b.freed = a.freed
      /\ b.aux = a.aux
      /\ b.value = value
      /\ b.iteration = a.iteration
      /\ b.indexed = a.indexed
      /\ IsRecord(b)
  BY <1>0, <1>1 DEF ArenaTypeOK, IsRecord
<1>3. Slots(b) = Slots(a)
  BY <1>2 DEF Slots
<1>4. ArenaTypeOK(b)
  BY <1>1, <1>2, <1>3 DEF ArenaTypeOK, IsRecord, value
<1>5. n \in DOMAIN a.value
  BY <1>1, Members DEF ArenaTypeOK, IsRecord
<1>6. StructureOK(b) /\ Linked(b) = Linked(a) /\ Freed(b) = Freed(a)
  BY <1>2, <1>4, SameLists DEF StructureOK
<1> QED
  BY <1>2, <1>3, <1>5, <1>6 DEF b, value

LEMMA IndexSet ==
  ASSUME NEW a, StructureOK(a), NEW nodes \in SUBSET Linked(a)
  PROVE  LET b == [a EXCEPT !.indexed = nodes]
         IN  /\ StructureOK(b)
             /\ Slots(b) = Slots(a)
             /\ Linked(b) = Linked(a)
             /\ Freed(b) = Freed(a)
             /\ b.indexed = nodes
             /\ b.iteration = a.iteration
             /\ b.aux = a.aux
             /\ b.value = a.value
<1> DEFINE b == [a EXCEPT !.indexed = nodes]
<1>1. ArenaTypeOK(a)
  BY DEF StructureOK
<1>2. /\ b.capacity = a.capacity
      /\ b.arena_high_water = a.arena_high_water
      /\ b.free_list_head = a.free_list_head
      /\ b.freed = a.freed
      /\ b.aux = a.aux
      /\ b.value = a.value
      /\ b.iteration = a.iteration
      /\ b.indexed = nodes
      /\ IsRecord(b)
  BY <1>1 DEF ArenaTypeOK, IsRecord
<1> HIDE DEF b
<1>3. Slots(b) = Slots(a)
  BY <1>2 DEF Slots
<1>4. Linked(a) \subseteq Slots(a)
  BY <1>1, Members
<1>5. ArenaTypeOK(b)
  BY <1>1, <1>2, <1>3, <1>4 DEF ArenaTypeOK, IsRecord
<1>6. StructureOK(b) /\ Linked(b) = Linked(a) /\ Freed(b) = Freed(a)
  BY <1>2, <1>5, SameLists DEF StructureOK
<1> QED
  BY <1>2, <1>3, <1>6 DEF b

-----------------------------------------------------------------------------
(* The iteration vector. *)

LEMMA LinkedIn ==
  ASSUME NEW a, StructureOK(a), NEW n, Held(a, n)
  PROVE  /\ StructureOK(link_into_iteration(a, n))
         /\ Slots(link_into_iteration(a, n)) = Slots(a)
         /\ Linked(link_into_iteration(a, n)) = Linked(a) \union {n}
         /\ Freed(link_into_iteration(a, n)) = Freed(a)
         /\ link_into_iteration(a, n).indexed = a.indexed
         /\ link_into_iteration(a, n).value = a.value
         /\ link_into_iteration(a, n).iteration = Append(a.iteration, n)
         /\ link_into_iteration(a, n).iteration # << >>
<1> DEFINE c == link_into_iteration(a, n)
           length == Len(a.iteration)
           aux == [a.aux EXCEPT ![n] = length]
<1>1. ArenaTypeOK(a)
  BY DEF StructureOK
<1>2. c = [a EXCEPT !.aux = aux, !.iteration = Append(@, n)]
  BY DEF link_into_iteration
<1> HIDE DEF c, aux
<1>3. /\ c.capacity = a.capacity
      /\ c.arena_high_water = a.arena_high_water
      /\ c.free_list_head = a.free_list_head
      /\ c.freed = a.freed
      /\ c.aux = aux
      /\ c.value = a.value
      /\ c.iteration = Append(a.iteration, n)
      /\ c.indexed = a.indexed
      /\ IsRecord(c)
  BY <1>1, <1>2 DEF ArenaTypeOK, IsRecord
<1>4. n \in Slots(a) /\ n \notin Linked(a) /\ n \notin Freed(a)
  BY DEF Held
<1>5. /\ length \in Nat
      /\ a.iteration \in Seq(Slots(a))
      /\ \A p \in 1 .. length : a.iteration[p] \in Slots(a)
      /\ Slots(a) \subseteq 0 .. a.capacity - 1
  BY <1>1, Members DEF ArenaTypeOK
<1>6. /\ c.iteration \in Seq(Slots(a))
      /\ c.iteration # << >>
      /\ Len(c.iteration) = length + 1
      /\ \A p \in 1 .. length : c.iteration[p] = a.iteration[p]
      /\ c.iteration[length + 1] = n
  BY <1>3, <1>4, <1>5, AppendProperties
<1> HIDE DEF length
<1>7. Slots(c) = Slots(a) /\ Freed(c) = Freed(a)
  BY <1>3 DEF Slots, Freed
<1>8. \A m \in Slots(a) : c.aux[m] = IF m = n THEN length ELSE a.aux[m]
  BY <1>1, <1>3, <1>5 DEF ArenaTypeOK, aux
<1>9. Linked(a) = {a.iteration[p] : p \in 1 .. length}
  BY DEF Linked, length
<1>10. Linked(c) = Linked(a) \union {n}
  <2>1. Linked(c) = {c.iteration[p] : p \in 1 .. length + 1}
    BY <1>6 DEF Linked
  <2>2. 1 .. length + 1 = 1 .. length \union {length + 1}
    BY <1>5
  <2> QED
    BY <1>6, <1>9, <2>1, <2>2
<1>11. ArenaTypeOK(c)
  <2>1. c.aux \in [0 .. c.capacity - 1 -> Nat \union {kNullIndex}]
    BY <1>1, <1>3, <1>5 DEF ArenaTypeOK, aux
  <2>2. /\ a.capacity \in Nat
        /\ a.arena_high_water \in Nat
        /\ a.arena_high_water <= a.capacity
        /\ a.free_list_head \in Slots(a) \union {kNullIndex}
        /\ a.freed \in Seq(Slots(a))
        /\ a.value \in [0 .. a.capacity - 1 -> Key \union {NoKey}]
        /\ a.indexed \subseteq Slots(a)
    BY <1>1 DEF ArenaTypeOK
  <2> QED
    BY <1>3, <1>6, <1>7, <2>1, <2>2 DEF ArenaTypeOK, IsRecord
<1>12. Injective(c.iteration)
  <2>1. \A i, j \in 1 .. length : a.iteration[i] = a.iteration[j] => i = j
    BY DEF StructureOK, NeverShared, Injective, length
  <2>2. \A i \in 1 .. length : a.iteration[i] # n
    BY <1>4, <1>9
  <2> SUFFICES ASSUME NEW i \in 1 .. length + 1, NEW j \in 1 .. length + 1,
                      c.iteration[i] = c.iteration[j]
               PROVE  i = j
    BY <1>6 DEF Injective
  <2>3. /\ i \in 1 .. length \/ i = length + 1
        /\ j \in 1 .. length \/ j = length + 1
    BY <1>5
  <2> QED
    BY <1>6, <2>1, <2>2, <2>3
<1>13. NeverShared(c)
  BY <1>3, <1>4, <1>7, <1>10, <1>12 DEF StructureOK, NeverShared
<1>14. PositionsMatch(c)
  <2> SUFFICES ASSUME NEW p \in 1 .. length + 1
               PROVE  c.aux[c.iteration[p]] = p - 1
    BY <1>6 DEF PositionsMatch
  <2>1. CASE p = length + 1
    BY <1>4, <1>5, <1>6, <1>8, <2>1
  <2>2. CASE p \in 1 .. length
    <3>1. a.iteration[p] \in Slots(a) /\ a.iteration[p] # n
      BY <1>4, <1>5, <1>9, <2>2
    <3>2. a.aux[a.iteration[p]] = p - 1
      BY <2>2 DEF StructureOK, PositionsMatch, length
    <3> QED
      BY <1>6, <1>8, <2>2, <3>1, <3>2
  <2> QED
    BY <1>5, <2>1, <2>2
<1>15. FreeListChained(c)
  <2>1. \A i \in 1 .. Len(a.freed) : a.freed[i] \in Slots(a) /\ a.freed[i] # n
    BY <1>1, <1>4, Members DEF Freed
  <2>2. \A i \in 1 .. Len(a.freed) : c.aux[a.freed[i]] = a.aux[a.freed[i]]
    BY <1>8, <2>1
  <2> QED
    BY <1>3, <2>2 DEF StructureOK, FreeListChained
<1>16. StructureOK(c)
  BY <1>3, <1>10, <1>11, <1>13, <1>14, <1>15 DEF StructureOK
<1> QED
  BY <1>3, <1>6, <1>7, <1>10, <1>16 DEF c

(* The element at the back takes the place of the one that goes.           *)
LEMMA Unlinked ==
  ASSUME NEW a, StructureOK(a), NEW n \in Linked(a), n \notin a.indexed
  PROVE  /\ StructureOK(unlink_from_iteration(a, n))
         /\ Slots(unlink_from_iteration(a, n)) = Slots(a)
         /\ Linked(unlink_from_iteration(a, n)) = Linked(a) \ {n}
         /\ Freed(unlink_from_iteration(a, n)) = Freed(a)
         /\ unlink_from_iteration(a, n).indexed = a.indexed
         /\ unlink_from_iteration(a, n).value = a.value
         /\ Held(unlink_from_iteration(a, n), n)
         /\ Filled(a, unlink_from_iteration(a, n), n)
<1> DEFINE c == unlink_from_iteration(a, n)
           length == Len(a.iteration)
           position == a.aux[n]
           last == a.iteration[length]
           aux == [a.aux EXCEPT ![last] = position]
           filled == [a.iteration EXCEPT ![position + 1] = last]
<1>1. ArenaTypeOK(a)
  BY DEF StructureOK
<1>2. c = [a EXCEPT !.aux = aux, !.iteration = pop_back(filled)]
  BY DEF unlink_from_iteration
<1> HIDE DEF c, aux, filled
<1>3. /\ c.capacity = a.capacity
      /\ c.arena_high_water = a.arena_high_water
      /\ c.free_list_head = a.free_list_head
      /\ c.freed = a.freed
      /\ c.aux = aux
      /\ c.value = a.value
      /\ c.iteration = pop_back(filled)
      /\ c.indexed = a.indexed
      /\ IsRecord(c)
  BY <1>1, <1>2 DEF ArenaTypeOK, IsRecord
<1>4. /\ length \in Nat
      /\ a.iteration \in Seq(Slots(a))
      /\ \A p \in 1 .. length : a.iteration[p] \in Slots(a)
      /\ Slots(a) \subseteq 0 .. a.capacity - 1
      /\ Linked(a) \subseteq Slots(a)
  BY <1>1, Members DEF ArenaTypeOK
<1>5. /\ position \in Nat
      /\ position + 1 \in 1 .. length
      /\ a.iteration[position + 1] = n
  BY PositionsUnique
<1>6. \A p \in 1 .. length : a.aux[a.iteration[p]] = p - 1
  BY DEF StructureOK, PositionsMatch
<1>7. \A i, j \in 1 .. length : a.iteration[i] = a.iteration[j] => i = j
  BY DEF StructureOK, NeverShared, Injective
<1>8. Linked(a) = {a.iteration[p] : p \in 1 .. length}
  BY DEF Linked
<1> HIDE DEF length, position
<1>9. length \in 1 .. length /\ last \in Slots(a) /\ last \in Linked(a)
  BY <1>4, <1>5, <1>8
<1> HIDE DEF last
<1>10. /\ filled \in Seq(Slots(a))
       /\ Len(filled) = length
       /\ \A p \in 1 .. length :
            filled[p] = IF p = position + 1 THEN last ELSE a.iteration[p]
  BY <1>4, <1>5, <1>9, ExceptSeq DEF filled, length
<1>11. filled # << >>
  BY <1>4, <1>5, <1>10, EmptySeq
<1>12. /\ c.iteration \in Seq(Slots(a))
       /\ Len(c.iteration) = length - 1
       /\ \A p \in 1 .. length - 1 : c.iteration[p] = filled[p]
  BY <1>3, <1>10, <1>11, PopBack
<1>13. \A p \in 1 .. length - 1 : p \in 1 .. length /\ p # length
  BY <1>4
<1>14. \A p \in 1 .. length - 1 :
         c.iteration[p] = IF p = position + 1 THEN last ELSE a.iteration[p]
  BY <1>10, <1>12, <1>13
<1>15. Slots(c) = Slots(a) /\ Freed(c) = Freed(a)
  BY <1>3 DEF Slots, Freed
<1>16. \A m \in Slots(a) : c.aux[m] = IF m = last THEN position ELSE a.aux[m]
  BY <1>1, <1>3, <1>4 DEF ArenaTypeOK, aux
<1>17. last = a.iteration[length]
  BY DEF last
<1>18. Linked(c) = Linked(a) \ {n}
  <2>1. Linked(c) = {c.iteration[p] : p \in 1 .. length - 1}
    BY <1>12 DEF Linked
  <2>2. ASSUME NEW m \in Linked(c)
        PROVE  m \in Linked(a) \ {n}
    <3>1. PICK p \in 1 .. length - 1 : m = c.iteration[p]
      BY <2>1
    <3>2. CASE p = position + 1
      <4>1. m = a.iteration[length] /\ length # position + 1
        BY <1>13, <1>14, <1>17, <3>1, <3>2
      <4> QED
        BY <1>5, <1>7, <1>8, <1>9, <4>1
    <3>3. CASE p # position + 1
      <4>1. m = a.iteration[p] /\ p \in 1 .. length
        BY <1>13, <1>14, <3>1, <3>3
      <4> QED
        BY <1>5, <1>7, <1>8, <3>3, <4>1
    <3> QED
      BY <3>2, <3>3
  <2>3. ASSUME NEW m \in Linked(a), m # n
        PROVE  m \in Linked(c)
    <3>1. PICK p \in 1 .. length : m = a.iteration[p]
      BY <1>8
    <3>2. p # position + 1
      BY <1>5, <2>3, <3>1
    <3>3. CASE p = length
      <4>1. position + 1 \in 1 .. length - 1
        BY <1>4, <1>5, <3>2, <3>3
      <4>2. c.iteration[position + 1] = m
        BY <1>14, <1>17, <3>1, <3>3, <4>1
      <4> QED
        BY <2>1, <4>1, <4>2
    <3>4. CASE p # length
      <4>1. p \in 1 .. length - 1
        BY <1>4, <3>4
      <4>2. c.iteration[p] = m
        BY <1>14, <3>1, <3>2, <4>1
      <4> QED
        BY <2>1, <4>1, <4>2
    <3> QED
      BY <3>3, <3>4
  <2> QED
    BY <2>2, <2>3
<1>19. Injective(c.iteration)
  <2> SUFFICES ASSUME NEW i \in 1 .. length - 1, NEW j \in 1 .. length - 1,
                      c.iteration[i] = c.iteration[j]
               PROVE  i = j
    BY <1>12 DEF Injective
  <2>1. /\ i \in 1 .. length /\ i # length
        /\ j \in 1 .. length /\ j # length
    BY <1>13
  <2> QED
    BY <1>7, <1>9, <1>14, <1>17, <2>1
<1>20. NeverShared(c)
  BY <1>3, <1>15, <1>18, <1>19 DEF StructureOK, NeverShared
<1>21. PositionsMatch(c)
  <2> SUFFICES ASSUME NEW p \in 1 .. length - 1
               PROVE  c.aux[c.iteration[p]] = p - 1
    BY <1>12 DEF PositionsMatch
  <2>1. p \in 1 .. length /\ p # length
    BY <1>13
  <2>2. CASE p = position + 1
    <3>1. c.iteration[p] = last
      BY <1>14, <2>2
    <3> QED
      BY <1>5, <1>9, <1>16, <2>2, <3>1
  <2>3. CASE p # position + 1
    <3>1. c.iteration[p] = a.iteration[p] /\ a.iteration[p] # last
      BY <1>7, <1>9, <1>14, <1>17, <2>1, <2>3
    <3> QED
      BY <1>4, <1>6, <1>16, <2>1, <3>1
  <2> QED
    BY <2>2, <2>3
<1>22. FreeListChained(c)
  <2>1. \A i \in 1 .. Len(a.freed) : a.freed[i] \in Slots(a) /\ a.freed[i] # last
    <3>1. last \notin Freed(a)
      BY <1>9 DEF StructureOK, NeverShared
    <3> QED
      BY <1>1, <3>1, Members DEF Freed
  <2>2. \A i \in 1 .. Len(a.freed) : c.aux[a.freed[i]] = a.aux[a.freed[i]]
    BY <1>16, <2>1
  <2> QED
    BY <1>3, <2>2 DEF StructureOK, FreeListChained
<1>23. ArenaTypeOK(c)
  <2>1. c.aux \in [0 .. c.capacity - 1 -> Nat \union {kNullIndex}]
    BY <1>1, <1>3, <1>5 DEF ArenaTypeOK, aux
  <2>2. /\ a.capacity \in Nat
        /\ a.arena_high_water \in Nat
        /\ a.arena_high_water <= a.capacity
        /\ a.free_list_head \in Slots(a) \union {kNullIndex}
        /\ a.freed \in Seq(Slots(a))
        /\ a.value \in [0 .. a.capacity - 1 -> Key \union {NoKey}]
        /\ a.indexed \subseteq Slots(a)
    BY <1>1 DEF ArenaTypeOK
  <2> QED
    BY <1>3, <1>12, <1>15, <2>1, <2>2 DEF ArenaTypeOK, IsRecord
<1>24. StructureOK(c)
  BY <1>3, <1>18, <1>20, <1>21, <1>22, <1>23 DEF StructureOK
<1>25. Held(c, n)
  BY <1>4, <1>15, <1>18 DEF Held, StructureOK, NeverShared
<1>26. Filled(a, c, n)
  BY <1>12, <1>14, <1>17 DEF Filled, length, position
<1> QED
  BY <1>3, <1>15, <1>18, <1>24, <1>25, <1>26 DEF c

-----------------------------------------------------------------------------
(* What the calls make of these steps. *)

LEMMA Constructed ==
  ASSUME NEW a, StructureOK(a), NEW k \in Key
  PROVE  LET n == next_node(a)
             b == construct_value(acquire_node(a), n, k)
         IN  /\ StructureOK(b)
             /\ Held(b, n)
             /\ n \notin Linked(a)
             /\ Slots(b) = Slots(a) \union {n}
             /\ Linked(b) = Linked(a)
             /\ Freed(b) = Freed(a) \ {n}
             /\ b.indexed = a.indexed
             /\ b.iteration = a.iteration
             /\ n \in DOMAIN b.value
             /\ b.value[n] = k
             /\ \A m \in DOMAIN b.value \ {n} :
                  b.value[m] = IF m \in DOMAIN a.value THEN a.value[m] ELSE NoKey
<1> DEFINE n == next_node(a)
           c == acquire_node(a)
           b == construct_value(c, n, k)
<1>1. /\ StructureOK(c)
      /\ Held(c, n)
      /\ n \notin Linked(a)
      /\ Linked(c) = Linked(a)
      /\ Freed(c) = Freed(a) \ {n}
      /\ Slots(c) = Slots(a) \union {n}
      /\ c.indexed = a.indexed
      /\ c.iteration = a.iteration
      /\ \A m \in DOMAIN c.value :
           c.value[m] = IF m \in DOMAIN a.value THEN a.value[m] ELSE NoKey
  BY Acquired
<1> HIDE DEF c, n
<1>2. n \in Slots(c)
  BY <1>1 DEF Held
<1>3. /\ StructureOK(b)
      /\ Slots(b) = Slots(c)
      /\ Linked(b) = Linked(c)
      /\ Freed(b) = Freed(c)
      /\ b.indexed = c.indexed
      /\ b.iteration = c.iteration
      /\ b.value = [c.value EXCEPT ![n] = k]
      /\ n \in DOMAIN c.value
  BY <1>1, <1>2, ValueSet DEF construct_value
<1> QED
  BY <1>1, <1>3 DEF c, n, Held

LEMMA Discarded ==
  ASSUME NEW a, StructureOK(a), NEW n, Held(a, n)
  PROVE  LET b == discard_node(a, n)
         IN  /\ StructureOK(b)
             /\ Slots(b) = Slots(a)
             /\ Linked(b) = Linked(a)
             /\ Freed(b) = Freed(a) \union {n}
             /\ b.indexed = a.indexed
             /\ b.iteration = a.iteration
             /\ b.value = [a.value EXCEPT ![n] = NoKey]
<1> DEFINE c == destroy_value(a, n)
<1>1. n \in Slots(a)
  BY DEF Held
<1>2. /\ StructureOK(c)
      /\ Slots(c) = Slots(a)
      /\ Linked(c) = Linked(a)
      /\ Freed(c) = Freed(a)
      /\ c.indexed = a.indexed
      /\ c.iteration = a.iteration
      /\ c.value = [a.value EXCEPT ![n] = NoKey]
  BY <1>1, ValueSet DEF destroy_value
<1>3. discard_node(a, n) = release_node(c, n)
  BY DEF discard_node
<1> HIDE DEF c
<1>4. Held(c, n)
  BY <1>2 DEF Held
<1> QED
  BY <1>2, <1>3, <1>4, Released

LEMMA Erased ==
  ASSUME NEW a, StructureOK(a), NEW n \in Linked(a)
  PROVE  LET b == erase_located(a, n)
         IN  /\ StructureOK(b)
             /\ Slots(b) = Slots(a)
             /\ Linked(b) = Linked(a) \ {n}
             /\ Freed(b) = Freed(a) \union {n}
             /\ b.indexed = a.indexed \ {n}
             /\ b.value = [a.value EXCEPT ![n] = NoKey]
             /\ Filled(a, b, n)
<1> DEFINE c == [a EXCEPT !.indexed = @ \ {n}]
           d == destroy_value(c, n)
           e == unlink_from_iteration(d, n)
<1>1. a.indexed \ {n} \in SUBSET Linked(a)
  BY DEF StructureOK
<1>2. /\ StructureOK(c)
      /\ Slots(c) = Slots(a)
      /\ Linked(c) = Linked(a)
      /\ Freed(c) = Freed(a)
      /\ c.indexed = a.indexed \ {n}
      /\ c.value = a.value
      /\ c.aux = a.aux
      /\ c.iteration = a.iteration
  BY <1>1, IndexSet
<1> HIDE DEF c
<1>3. n \in Slots(c)
  BY <1>2, Members DEF StructureOK
<1>4. /\ StructureOK(d)
      /\ Slots(d) = Slots(a)
      /\ Linked(d) = Linked(a)
      /\ Freed(d) = Freed(a)
      /\ d.indexed = a.indexed \ {n}
      /\ d.value = [a.value EXCEPT ![n] = NoKey]
      /\ d.aux = a.aux
      /\ d.iteration = a.iteration
  BY <1>2, <1>3, ValueSet DEF destroy_value
<1> HIDE DEF d
<1>5. /\ StructureOK(e)
      /\ Slots(e) = Slots(a)
      /\ Linked(e) = Linked(a) \ {n}
      /\ Freed(e) = Freed(a)
      /\ e.indexed = d.indexed
      /\ e.value = d.value
      /\ Held(e, n)
      /\ Filled(d, e, n)
  BY <1>4, Unlinked
<1>6. erase_located(a, n) = release_node(e, n)
  BY DEF erase_located, e, d, c
<1> HIDE DEF e
<1>7. /\ StructureOK(release_node(e, n))
      /\ Slots(release_node(e, n)) = Slots(e)
      /\ Linked(release_node(e, n)) = Linked(e)
      /\ Freed(release_node(e, n)) = Freed(e) \union {n}
      /\ release_node(e, n).indexed = e.indexed
      /\ release_node(e, n).iteration = e.iteration
      /\ release_node(e, n).value = e.value
  BY <1>5, Released
<1>8. Filled(a, release_node(e, n), n)
  BY <1>4, <1>5, <1>7 DEF Filled
<1> QED
  BY <1>4, <1>5, <1>6, <1>7, <1>8

LEMMA Cleared ==
  ASSUME NEW a, StructureOK(a)
  PROVE  LET b == clear(a)
         IN  /\ StructureOK(b)
             /\ Slots(b) = {}
             /\ Linked(b) = {}
             /\ b.indexed = {}
             /\ b.iteration = << >>
             /\ DOMAIN b.value = DOMAIN a.value
             /\ \A n \in DOMAIN a.value :
                  b.value[n] = IF n \in Linked(a) THEN NoKey ELSE a.value[n]
<1> DEFINE b == clear(a)
           value == [n \in DOMAIN a.value |->
                       IF n \in Linked(a) THEN NoKey ELSE a.value[n]]
<1>1. ArenaTypeOK(a)
  BY DEF StructureOK
<1>2. b = [a EXCEPT !.arena_high_water = 0, !.free_list_head = kNullIndex,
                    !.freed = << >>, !.value = value,
                    !.iteration = << >>, !.indexed = {}]
  BY DEF clear
<1> HIDE DEF b, value
<1>3. /\ b.capacity = a.capacity
      /\ b.arena_high_water = 0
      /\ b.free_list_head = kNullIndex
      /\ b.freed = << >>
      /\ b.aux = a.aux
      /\ b.value = value
      /\ b.iteration = << >>
      /\ b.indexed = {}
      /\ IsRecord(b)
  BY <1>1, <1>2 DEF ArenaTypeOK, IsRecord
<1>4. Slots(b) = {}
  BY <1>3 DEF Slots
<1>5. 1 .. Len(b.iteration) = {} /\ 1 .. Len(b.freed) = {}
  BY <1>3
<1>6. Linked(b) = {} /\ Freed(b) = {}
  BY <1>5 DEF Linked, Freed
<1>7. ArenaTypeOK(b)
  <2>1. value \in [0 .. a.capacity - 1 -> Key \union {NoKey}]
    BY <1>1 DEF ArenaTypeOK, value
  <2>2. b.freed \in Seq(Slots(b)) /\ b.iteration \in Seq(Slots(b))
    BY <1>3, EmptySeq
  <2>3. /\ a.capacity \in Nat
        /\ a.aux \in [0 .. a.capacity - 1 -> Nat \union {kNullIndex}]
    BY <1>1 DEF ArenaTypeOK
  <2>4. /\ b.capacity \in Nat
        /\ b.arena_high_water \in Nat
        /\ b.arena_high_water <= b.capacity
        /\ b.free_list_head \in Slots(b) \union {kNullIndex}
        /\ b.aux \in [0 .. b.capacity - 1 -> Nat \union {kNullIndex}]
        /\ b.value \in [0 .. b.capacity - 1 -> Key \union {NoKey}]
        /\ b.indexed \in SUBSET Slots(b)
    BY <1>3, <2>1, <2>3
  <2> QED
    BY <1>3, <2>2, <2>4 DEF ArenaTypeOK, IsRecord
<1>8. NeverShared(b) /\ PositionsMatch(b) /\ FreeListChained(b)
  BY <1>3, <1>5, <1>6 DEF NeverShared, Injective, PositionsMatch, FreeListChained
<1> QED
  BY <1>3, <1>4, <1>6, <1>7, <1>8 DEF StructureOK, b, value

LEMMA EmptyArenaOK ==
  /\ StructureOK(EmptyArena)
  /\ Slots(EmptyArena) = {}
  /\ Linked(EmptyArena) = {}
  /\ EmptyArena.indexed = {}
  /\ EmptyArena.iteration = << >>
  /\ DOMAIN EmptyArena.value = {}
<1> DEFINE a == EmptyArena
           aux == [n \in 0 .. -1 |-> kNullIndex]
           value == [n \in 0 .. -1 |-> NoKey]
<1>1. 0 .. -1 = {} /\ 0 .. 0 - 1 = {}
  OBVIOUS
<1>2. /\ aux \in [0 .. 0 - 1 -> Nat \union {kNullIndex}]
      /\ value \in [0 .. 0 - 1 -> Key \union {NoKey}]
      /\ DOMAIN value = {}
  BY <1>1
<1>3. a = [capacity |-> 0, arena_high_water |-> 0, free_list_head |-> kNullIndex,
           freed |-> << >>, aux |-> aux, value |-> value, iteration |-> << >>,
           indexed |-> {}]
  BY DEF EmptyArena
<1> HIDE DEF a, aux, value
<1>4. /\ a.capacity = 0
      /\ a.arena_high_water = 0
      /\ a.free_list_head = kNullIndex
      /\ a.freed = << >>
      /\ a.aux = aux
      /\ a.value = value
      /\ a.iteration = << >>
      /\ a.indexed = {}
      /\ IsRecord(a)
  BY <1>3 DEF IsRecord
<1>5. Slots(a) = {}
  BY <1>4 DEF Slots
<1>6. 1 .. Len(a.iteration) = {} /\ 1 .. Len(a.freed) = {}
  BY <1>4
<1>7. Linked(a) = {} /\ Freed(a) = {}
  BY <1>6 DEF Linked, Freed
<1>8. a.freed \in Seq(Slots(a)) /\ a.iteration \in Seq(Slots(a))
  BY <1>4, EmptySeq
<1>9. ArenaTypeOK(a)
  <2>1. /\ a.capacity \in Nat
        /\ a.arena_high_water \in Nat
        /\ a.arena_high_water <= a.capacity
        /\ a.free_list_head \in Slots(a) \union {kNullIndex}
        /\ a.aux \in [0 .. a.capacity - 1 -> Nat \union {kNullIndex}]
        /\ a.value \in [0 .. a.capacity - 1 -> Key \union {NoKey}]
        /\ a.indexed \in SUBSET Slots(a)
    BY <1>2, <1>4
  <2> QED
    BY <1>4, <1>8, <2>1 DEF ArenaTypeOK, IsRecord
<1>10. NeverShared(a) /\ PositionsMatch(a) /\ FreeListChained(a)
  BY <1>4, <1>6, <1>7 DEF NeverShared, Injective, PositionsMatch, FreeListChained
<1> QED
  BY <1>2, <1>4, <1>5, <1>7, <1>9, <1>10 DEF StructureOK, a

LEMMA Inserted ==
  ASSUME NEW a, StructureOK(a), NEW n, Held(a, n)
  PROVE  LET b == insert_known_absent(link_into_iteration(a, n), n)
         IN  /\ StructureOK(b)
             /\ Slots(b) = Slots(a)
             /\ Linked(b) = Linked(a) \union {n}
             /\ Freed(b) = Freed(a)
             /\ b.indexed = a.indexed \union {n}
             /\ b.value = a.value
             /\ b.iteration = Append(a.iteration, n)
             /\ b.iteration # << >>
<1> DEFINE c == link_into_iteration(a, n)
<1>1. /\ StructureOK(c)
      /\ Slots(c) = Slots(a)
      /\ Linked(c) = Linked(a) \union {n}
      /\ Freed(c) = Freed(a)
      /\ c.indexed = a.indexed
      /\ c.value = a.value
      /\ c.iteration = Append(a.iteration, n)
      /\ c.iteration # << >>
  BY LinkedIn
<1> HIDE DEF c
<1>2. c.indexed \union {n} \in SUBSET Linked(c)
  BY <1>1 DEF StructureOK
<1> DEFINE nodes == c.indexed \union {n}
           d == [c EXCEPT !.indexed = nodes]
<1> HIDE DEF nodes
<1>3. /\ StructureOK(d)
      /\ Slots(d) = Slots(c)
      /\ Linked(d) = Linked(c)
      /\ Freed(d) = Freed(c)
      /\ d.indexed = nodes
      /\ d.iteration = c.iteration
      /\ d.value = c.value
  BY <1>1, <1>2, IndexSet DEF nodes
<1>4. d = insert_known_absent(link_into_iteration(a, n), n)
  BY DEF insert_known_absent, c, nodes
<1> HIDE DEF d
<1> QED
  BY <1>1, <1>3, <1>4 DEF nodes

-----------------------------------------------------------------------------
(* Whole calls, on the storage between calls. *)

Sound(a) ==
  /\ StructureOK(a)
  /\ Accounted(a)
  /\ a.indexed = Linked(a)

Settled(a) == Sound(a) /\ KeysDistinct(a)

Stored(a) == {a.value[n] : n \in Linked(a)}

(* What a call makes of storage a: b has the elements of a, element n with *)
(* value k more, or element n less.                                        *)
SameElements(a, b) ==
  /\ Linked(b) = Linked(a)
  /\ \A n \in Linked(a) : b.value[n] = a.value[n]

WithElement(a, b, n, k) ==
  /\ n \notin Linked(a)
  /\ n \in Nat
  /\ Linked(b) = Linked(a) \union {n}
  /\ b.iteration = Append(a.iteration, n)
  /\ b.value[n] = k
  /\ \A m \in Linked(a) : b.value[m] = a.value[m]

WithoutElement(a, b, n) ==
  /\ Linked(b) = Linked(a) \ {n}
  /\ Filled(a, b, n)
  /\ \A m \in Linked(a) \ {n} : b.value[m] = a.value[m]

LEMMA LinkedHaveValues ==
  ASSUME NEW a, StructureOK(a)
  PROVE  /\ Linked(a) \subseteq DOMAIN a.value
         /\ \A n \in DOMAIN a.value : a.value[n] \in Key \union {NoKey}
<1>1. Linked(a) \subseteq Slots(a) /\ Slots(a) \subseteq 0 .. a.capacity - 1
  BY Members DEF StructureOK
<1>2. a.value \in [0 .. a.capacity - 1 -> Key \union {NoKey}]
  BY DEF StructureOK, ArenaTypeOK
<1> QED
  BY <1>1, <1>2

LEMMA SoundElements ==
  ASSUME NEW a, Sound(a)
  PROVE  /\ \A n \in Linked(a) : n \in Nat /\ a.value[n] \in Key
         /\ Stored(a) \subseteq Key
         /\ Len(a.iteration) \in Nat
         /\ a.iteration \in Seq(Linked(a))
         /\ \A p \in 1 .. Len(a.iteration) : a.iteration[p] \in Linked(a)
         /\ a.iteration = << >> <=> Linked(a) = {}
<1>1. /\ Linked(a) \subseteq DOMAIN a.value
      /\ \A n \in DOMAIN a.value : a.value[n] \in Key \union {NoKey}
      /\ \A n \in DOMAIN a.value : a.value[n] # NoKey <=> n \in Linked(a)
  BY LinkedHaveValues DEF Sound, Accounted
<1>2. \A n \in Linked(a) : a.value[n] \in Key
  BY <1>1
<1>3. /\ Linked(a) \subseteq Slots(a)
      /\ Len(a.iteration) \in Nat
      /\ a.iteration \in Seq(Slots(a))
  BY Members DEF Sound, StructureOK, ArenaTypeOK
<1>4. \A p \in 1 .. Len(a.iteration) : a.iteration[p] \in Linked(a)
  BY DEF Linked
<1>5. a.iteration \in Seq(Linked(a))
  <2>1. a.iteration \in [1 .. Len(a.iteration) -> Slots(a)]
    BY <1>3, LenProperties
  <2>2. a.iteration \in [1 .. Len(a.iteration) -> Linked(a)]
    BY <1>4, <2>1
  <2> QED
    BY <1>3, <2>2, SeqDef
<1>6. a.iteration = << >> <=> Linked(a) = {}
  <2>1. a.iteration = << >> <=> Len(a.iteration) = 0
    BY <1>3, EmptySeq
  <2>2. Len(a.iteration) # 0 => 1 \in 1 .. Len(a.iteration)
    BY <1>3
  <2>3. Len(a.iteration) = 0 => 1 .. Len(a.iteration) = {}
    BY <1>3
  <2> QED
    BY <1>4, <2>1, <2>2, <2>3 DEF Linked
<1> QED
  BY <1>2, <1>3, <1>4, <1>5, <1>6 DEF Stored, Slots

LEMMA SameIsSettled ==
  ASSUME NEW a, NEW b, SameElements(a, b)
  PROVE  /\ Stored(b) = Stored(a)
         /\ Settled(a) /\ Sound(b) => Settled(b)
BY DEF SameElements, Stored, Settled, KeysDistinct

LEMMA MoreIsSettled ==
  ASSUME NEW a, NEW b, NEW n, NEW k, WithElement(a, b, n, k)
  PROVE  /\ Stored(b) = Stored(a) \union {k}
         /\ Settled(a) /\ Sound(b) /\ k \notin Stored(a) => Settled(b)
<1>1. Stored(b) = Stored(a) \union {k}
  BY DEF WithElement, Stored
<1>2. ASSUME Settled(a), Sound(b), k \notin Stored(a)
      PROVE  KeysDistinct(b)
  <2>1. \A m \in Linked(a) : b.value[m] # k
    BY <1>2 DEF WithElement, Stored
  <2> QED
    BY <1>2, <2>1 DEF WithElement, Settled, KeysDistinct
<1> QED
  BY <1>1, <1>2 DEF Settled

LEMMA LessIsSettled ==
  ASSUME NEW a, Settled(a), NEW n \in Linked(a), NEW b, WithoutElement(a, b, n)
  PROVE  /\ Stored(b) = Stored(a) \ {a.value[n]}
         /\ Sound(b) => Settled(b)
<1>1. \A m \in Linked(a) \ {n} : b.value[m] = a.value[m] /\ a.value[m] # a.value[n]
  BY DEF WithoutElement, Settled, KeysDistinct
<1>2. Stored(b) = Stored(a) \ {a.value[n]}
  BY <1>1 DEF WithoutElement, Stored
<1>3. KeysDistinct(b)
  BY <1>1 DEF WithoutElement, Settled, KeysDistinct
<1> QED
  BY <1>2, <1>3 DEF Settled

(* rehash_to. *)
LEMMA IndexRebuilt ==
  ASSUME NEW a, StructureOK(a)
  PROVE  /\ StructureOK(rehash_to(a))
         /\ Slots(rehash_to(a)) = Slots(a)
         /\ Linked(rehash_to(a)) = Linked(a)
         /\ Freed(rehash_to(a)) = Freed(a)
         /\ rehash_to(a).iteration = a.iteration
         /\ rehash_to(a).value = a.value
         /\ rehash_to(a).aux = a.aux
         /\ rehash_to(a).indexed = Linked(a)
         /\ \A n : Held(a, n) => Held(rehash_to(a), n)
<1>1. rehash_to(a) = [a EXCEPT !.indexed = Linked(a)]
  BY DEF rehash_to
<1> QED
  BY <1>1, IndexSet DEF Held

LEMMA SoundRehashed ==
  ASSUME NEW a, Sound(a)
  PROVE  /\ Sound(rehash_to(a))
         /\ SameElements(a, rehash_to(a))
         /\ rehash_to(a).iteration = a.iteration
         /\ rehash_to(a).aux = a.aux
<1> DEFINE b == rehash_to(a)
<1>1. /\ StructureOK(b)
      /\ Slots(b) = Slots(a)
      /\ Linked(b) = Linked(a)
      /\ Freed(b) = Freed(a)
      /\ b.iteration = a.iteration
      /\ b.value = a.value
      /\ b.aux = a.aux
      /\ b.indexed = Linked(a)
  BY IndexRebuilt DEF Sound
<1> HIDE DEF b
<1>2. Sound(b) /\ SameElements(a, b)
  BY <1>1 DEF Sound, Accounted, SameElements
<1> QED
  BY <1>1, <1>2 DEF b

(* A value that replaces another one in an element. *)
LEMMA SoundOverwritten ==
  ASSUME NEW a, Sound(a), NEW n \in Linked(a), NEW k \in Key
  PROVE  LET b == construct_value(a, n, k)
         IN  /\ Sound(b)
             /\ Linked(b) = Linked(a)
             /\ b.iteration = a.iteration
             /\ b.value[n] = k
             /\ \A m \in Linked(a) \ {n} : b.value[m] = a.value[m]
<1> DEFINE b == construct_value(a, n, k)
<1>1. n \in Slots(a) /\ Linked(a) \subseteq DOMAIN a.value
  BY Members, LinkedHaveValues DEF Sound, StructureOK
<1>2. /\ StructureOK(b)
      /\ Slots(b) = Slots(a)
      /\ Linked(b) = Linked(a)
      /\ Freed(b) = Freed(a)
      /\ b.indexed = a.indexed
      /\ b.iteration = a.iteration
      /\ b.value = [a.value EXCEPT ![n] = k]
  BY <1>1, ValueSet DEF construct_value, Sound
<1> HIDE DEF b
<1>3. k # NoKey
  BY StorageAssumption
<1>4. Sound(b)
  BY <1>1, <1>2, <1>3 DEF Sound, Accounted
<1> QED
  BY <1>1, <1>2, <1>4 DEF b

(* erase_located. *)
LEMMA SoundErased ==
  ASSUME NEW a, Sound(a), NEW n \in Linked(a)
  PROVE  /\ Sound(erase_located(a, n))
         /\ WithoutElement(a, erase_located(a, n), n)
<1> DEFINE b == erase_located(a, n)
<1>1. /\ StructureOK(b)
      /\ Slots(b) = Slots(a)
      /\ Linked(b) = Linked(a) \ {n}
      /\ Freed(b) = Freed(a) \union {n}
      /\ b.indexed = a.indexed \ {n}
      /\ b.value = [a.value EXCEPT ![n] = NoKey]
      /\ Filled(a, b, n)
  BY Erased DEF Sound
<1> HIDE DEF b
<1>2. Linked(a) \subseteq DOMAIN a.value
  BY LinkedHaveValues DEF Sound
<1>3. \A m \in DOMAIN b.value : b.value[m] # NoKey <=> m \in Linked(b)
  BY <1>1, <1>2 DEF Sound, Accounted
<1>4. Slots(b) \subseteq Linked(b) \union Freed(b)
  BY <1>1 DEF Sound, Accounted
<1>5. Sound(b)
  BY <1>1, <1>3, <1>4 DEF Sound, Accounted
<1>6. WithoutElement(a, b, n)
  BY <1>1, <1>2 DEF WithoutElement
<1> QED
  BY <1>5, <1>6 DEF b

(* A slot taken and given back: construct_value threw. *)
LEMMA SoundReleased ==
  ASSUME NEW a, Sound(a)
  PROVE  LET b == release_node(acquire_node(a), next_node(a))
         IN  Sound(b) /\ SameElements(a, b) /\ b.iteration = a.iteration
<1> DEFINE n == next_node(a)
           c == acquire_node(a)
           b == release_node(c, n)
<1>1. /\ StructureOK(c)
      /\ Held(c, n)
      /\ Linked(c) = Linked(a)
      /\ Freed(c) = Freed(a) \ {n}
      /\ Slots(c) = Slots(a) \union {n}
      /\ c.indexed = a.indexed
      /\ c.iteration = a.iteration
      /\ \A m \in DOMAIN c.value :
           c.value[m] = IF m \in DOMAIN a.value THEN a.value[m] ELSE NoKey
  BY Acquired DEF Sound
<1> HIDE DEF c, n
<1>2. /\ StructureOK(b)
      /\ Slots(b) = Slots(c)
      /\ Linked(b) = Linked(c)
      /\ Freed(b) = Freed(c) \union {n}
      /\ b.indexed = c.indexed
      /\ b.iteration = c.iteration
      /\ b.value = c.value
  BY <1>1, Released
<1> HIDE DEF b
<1>3. Linked(a) \subseteq DOMAIN a.value /\ Linked(a) \subseteq DOMAIN b.value
  BY <1>1, <1>2, LinkedHaveValues DEF Sound
<1>4. Slots(b) \subseteq Linked(b) \union Freed(b)
  BY <1>1, <1>2 DEF Sound, Accounted
<1>5. \A m \in DOMAIN b.value : b.value[m] # NoKey <=> m \in Linked(b)
  BY <1>1, <1>2, <1>3 DEF Sound, Accounted
<1>6. Sound(b) /\ SameElements(a, b)
  BY <1>1, <1>2, <1>3, <1>4, <1>5 DEF Sound, Accounted, SameElements
<1> QED
  BY <1>1, <1>2, <1>6 DEF b, c, n

(* A value constructed in a slot just acquired, after an optional rehash.  *)
LEMMA InsertionBegun ==
  ASSUME NEW a, Sound(a), NEW k \in Key,
         NEW n, n = next_node(a),
         NEW b, b = construct_value(acquire_node(a), n, k),
         NEW c \in {b, rehash_to(b)}
  PROVE  /\ StructureOK(c)
         /\ Held(c, n)
         /\ n \notin Linked(a)
         /\ Slots(c) \subseteq Linked(c) \union Freed(c) \union {n}
         /\ Linked(c) = Linked(a)
         /\ c.indexed = Linked(a)
         /\ c.indexed = a.indexed
         /\ c.iteration = a.iteration
         /\ n \in DOMAIN c.value
         /\ Linked(a) \subseteq DOMAIN c.value
         /\ c.value[n] = k
         /\ \A m \in Linked(a) : c.value[m] = a.value[m]
         /\ \A m \in DOMAIN c.value \ {n} : c.value[m] # NoKey <=> m \in Linked(a)
<1>1. /\ StructureOK(b)
      /\ Held(b, n)
      /\ n \notin Linked(a)
      /\ Slots(b) = Slots(a) \union {n}
      /\ Linked(b) = Linked(a)
      /\ Freed(b) = Freed(a) \ {n}
      /\ b.indexed = a.indexed
      /\ b.iteration = a.iteration
      /\ n \in DOMAIN b.value
      /\ b.value[n] = k
      /\ \A m \in DOMAIN b.value \ {n} :
           b.value[m] = IF m \in DOMAIN a.value THEN a.value[m] ELSE NoKey
  BY Constructed DEF Sound
<1>2. /\ StructureOK(c)
      /\ Slots(c) = Slots(b)
      /\ Linked(c) = Linked(b)
      /\ Freed(c) = Freed(b)
      /\ c.iteration = b.iteration
      /\ c.value = b.value
      /\ c.indexed = Linked(a)
      /\ Held(c, n)
  BY <1>1, IndexRebuilt DEF Sound
<1>3. Slots(a) \subseteq Linked(a) \union Freed(a)
  BY DEF Sound, Accounted
<1>4. /\ Linked(a) \subseteq DOMAIN a.value
      /\ Linked(a) \subseteq DOMAIN b.value
      /\ \A m \in DOMAIN a.value : a.value[m] # NoKey <=> m \in Linked(a)
  BY <1>1, LinkedHaveValues DEF Sound, Accounted
<1>5. \A m \in Linked(a) : c.value[m] = a.value[m]
  BY <1>1, <1>2, <1>4
<1>6. \A m \in DOMAIN c.value \ {n} : c.value[m] # NoKey <=> m \in Linked(a)
  BY <1>1, <1>2, <1>4
<1>7. Slots(c) \subseteq Linked(c) \union Freed(c) \union {n}
  BY <1>1, <1>2, <1>3
<1>8. c.indexed = a.indexed /\ c.iteration = a.iteration
  BY <1>1, <1>2 DEF Sound
<1> QED
  BY <1>1, <1>2, <1>4, <1>5, <1>6, <1>7, <1>8

(* The catch block, and the end of an emplace that found its key. *)
LEMMA InsertionUndone ==
  ASSUME NEW a, Sound(a), NEW k \in Key,
         NEW n, n = next_node(a),
         NEW b, b = construct_value(acquire_node(a), n, k),
         NEW c \in {b, rehash_to(b)}
  PROVE  /\ Sound(discard_node(c, n))
         /\ SameElements(a, discard_node(c, n))
         /\ discard_node(c, n).iteration = a.iteration
<1>1. /\ StructureOK(c)
      /\ Held(c, n)
      /\ n \notin Linked(a)
      /\ Slots(c) \subseteq Linked(c) \union Freed(c) \union {n}
      /\ Linked(c) = Linked(a)
      /\ c.indexed = Linked(a)
      /\ c.iteration = a.iteration
      /\ Linked(a) \subseteq DOMAIN c.value
      /\ \A m \in Linked(a) : c.value[m] = a.value[m]
      /\ \A m \in DOMAIN c.value \ {n} : c.value[m] # NoKey <=> m \in Linked(a)
  BY InsertionBegun
<1> DEFINE d == discard_node(c, n)
<1>2. /\ StructureOK(d)
      /\ Slots(d) = Slots(c)
      /\ Linked(d) = Linked(c)
      /\ Freed(d) = Freed(c) \union {n}
      /\ d.indexed = c.indexed
      /\ d.iteration = c.iteration
      /\ d.value = [c.value EXCEPT ![n] = NoKey]
  BY <1>1, Discarded
<1> HIDE DEF d
<1>3. Slots(d) \subseteq Linked(d) \union Freed(d)
  BY <1>1, <1>2
<1>4. \A m \in DOMAIN d.value : d.value[m] # NoKey <=> m \in Linked(d)
  BY <1>1, <1>2
<1>5. Sound(d)
  BY <1>1, <1>2, <1>3, <1>4 DEF Sound, Accounted
<1>6. SameElements(a, d)
  BY <1>1, <1>2 DEF SameElements
<1> QED
  BY <1>1, <1>2, <1>5, <1>6 DEF d

LEMMA InsertionDone ==
  ASSUME NEW a, Sound(a), NEW k \in Key,
         NEW n, n = next_node(a),
         NEW b, b = construct_value(acquire_node(a), n, k),
         NEW c \in {b, rehash_to(b)},
         NEW d, d = insert_known_absent(link_into_iteration(c, n), n)
  PROVE  Sound(d) /\ WithElement(a, d, n, k)
<1>1. /\ StructureOK(c)
      /\ Held(c, n)
      /\ n \notin Linked(a)
      /\ Slots(c) \subseteq Linked(c) \union Freed(c) \union {n}
      /\ Linked(c) = Linked(a)
      /\ c.indexed = Linked(a)
      /\ c.iteration = a.iteration
      /\ n \in DOMAIN c.value
      /\ c.value[n] = k
      /\ \A m \in Linked(a) : c.value[m] = a.value[m]
      /\ \A m \in DOMAIN c.value \ {n} : c.value[m] # NoKey <=> m \in Linked(a)
  BY InsertionBegun
<1>2. /\ StructureOK(d)
      /\ Slots(d) = Slots(c)
      /\ Linked(d) = Linked(c) \union {n}
      /\ Freed(d) = Freed(c)
      /\ d.indexed = c.indexed \union {n}
      /\ d.value = c.value
      /\ d.iteration = Append(c.iteration, n)
  BY <1>1, Inserted
<1>3. Slots(d) \subseteq Linked(d) \union Freed(d)
  BY <1>1, <1>2
<1>4. k # NoKey
  BY StorageAssumption
<1>5. \A m \in DOMAIN d.value : d.value[m] # NoKey <=> m \in Linked(d)
  BY <1>1, <1>2, <1>4
<1>6. Sound(d)
  BY <1>1, <1>2, <1>3, <1>5 DEF Sound, Accounted
<1>7. n \in Nat
  BY <1>1 DEF Held, Slots
<1>8. WithElement(a, d, n, k)
  BY <1>1, <1>2, <1>7 DEF WithElement
<1> QED
  BY <1>6, <1>8

LEMMA SettledWhenEmpty ==
  /\ Settled(EmptyArena) /\ Stored(EmptyArena) = {}
  /\ \A a : Sound(a) => Settled(clear(a)) /\ Stored(clear(a)) = {}
<1>1. Settled(EmptyArena) /\ Stored(EmptyArena) = {}
  BY EmptyArenaOK DEF Settled, Sound, Accounted, KeysDistinct, Stored
<1>2. ASSUME NEW a, Sound(a)
      PROVE  Settled(clear(a)) /\ Stored(clear(a)) = {}
  <2> DEFINE b == clear(a)
  <2>1. /\ StructureOK(b)
        /\ Slots(b) = {}
        /\ Linked(b) = {}
        /\ b.indexed = {}
        /\ DOMAIN b.value = DOMAIN a.value
        /\ \A n \in DOMAIN a.value :
             b.value[n] = IF n \in Linked(a) THEN NoKey ELSE a.value[n]
    BY <1>2, Cleared DEF Sound
  <2> HIDE DEF b
  <2>2. \A n \in DOMAIN b.value : b.value[n] = NoKey
    BY <1>2, <2>1 DEF Sound, Accounted
  <2>3. Settled(b) /\ Stored(b) = {}
    BY <2>1, <2>2 DEF Settled, Sound, Accounted, KeysDistinct, Stored
  <2> QED
    BY <2>3 DEF b
<1> QED
  BY <1>1, <1>2
=============================================================================
