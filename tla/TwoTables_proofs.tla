-------------------------- MODULE TwoTables_proofs --------------------------
(***************************************************************************)
(* What a container keeps when storage, allocators and hash functions      *)
(* change hands, for any number of containers, elements, allocators, hash  *)
(* functions and programs.  First (CoherentTables), its vectors use its    *)
(* allocator, and its elements were placed with its hash function.  Then   *)
(* (GoodTables), its storage is sound and its keys are distinct, wherever  *)
(* a step throws and puts things back; its threshold is that of its        *)
(* buckets and its factor and keeps a bucket empty; and a loop has         *)
(* reserved what it needs.  Last                                           *)
(* (Owned), what was taken from an allocator is the sum of what its tables *)
(* and the handle own, so that nothing leaks or is given back twice.       *)
(***************************************************************************)
EXTENDS TwoTables, LoadPolicy_proofs, SequenceTheorems, FiniteSetTheorems

L == INSTANCE NodeStorage_proofs
       WITH Key <- Element \union {MovedFrom}, NoKey <- NoElement

(* No program has an allocator that copies propagate and moves do not: its *)
(* vectors would stay with the old allocator.                              *)
PropagationAgrees == \A p \in Programs : p.pocca => p.pocma

(* No step of an element-wise move throws. *)
MovesDoNotThrow ==
  \A op \in Moving : \A site \in StepSites \union {"reserve"} :
    <<op, site>> \notin Throws

HashesStay(p) == \A h \in p.hashers : AfterMove[h] = h

(* A program whose hash functions are changed by being moved from does not *)
(* move-construct with an equal allocator, which moves them twice, and no  *)
(* exception leaves it with the source of a move half way through.         *)
HashMovesAreSafe ==
  \A p \in Programs : HashesStay(p) \/ (~p.equal_moves /\ MovesDoNotThrow)

(* The fields of a table, for EXCEPT. *)
IsTable(r) ==
  DOMAIN r = {"arena", "bucket_count", "max_load_capacity", "max_load_factor",
              "hash_function", "placed_with", "allocator", "vectors"}

(* A change within a table: it stays with its hash function and allocator. *)
Keeps(r, q) ==
  /\ IsTable(q)
  /\ q.allocator = r.allocator
  /\ q.vectors = r.vectors
  /\ q.hash_function = r.hash_function
  /\ q.placed_with \subseteq r.placed_with \union {r.hash_function}

(* What also the source of an element-wise move is. *)
Fit(r, p) ==
  /\ IsTable(r)
  /\ PropagationAgrees => r.vectors = r.allocator
  /\ r.hash_function \in p.hashers

Coherent(r, p) ==
  /\ Fit(r, p)
  /\ HashMovesAreSafe => r.placed_with \subseteq {r.hash_function}

(* The source has given its hash function away, but not all its elements.  *)
HalfMoved(t) ==
  /\ call.op \in Moving /\ call.from = t
  /\ MovesDoNotThrow
  /\ Fit(table[t], program)

CoherentTables ==
  /\ program \in Programs
  /\ DOMAIN table = Name
  /\ \A t \in Name : Alive(t) => Coherent(table[t], program) \/ HalfMoved(t)
  /\ ~Idle => /\ call.to \in Name /\ call.from \in Name /\ call.to # call.from
              /\ Coherent(to, program)
              /\ Coherent(from, program) \/ HalfMoved(call.from)

-----------------------------------------------------------------------------
(* Operations on one table. *)

LEMMA OperationsKeep ==
  ASSUME NEW r, IsTable(r)
  PROVE  /\ Keeps(r, r)
         /\ Keeps(r, clear(r)) /\ clear(r).placed_with = {}
         /\ Keeps(r, reset_to_empty_state(r))
         /\ reset_to_empty_state(r).placed_with = {}
         /\ \A a : Keeps(r, [r EXCEPT !.arena = a])
         /\ \A e : Keeps(r, erase_value(r, e))
         /\ \A n : Keeps(r, move_out(r, n)) /\ Keeps(r, Discarded(r, n))
<1>1. \A a : Keeps(r, [r EXCEPT !.arena = a])
  BY DEF IsTable, Keeps
<1>2. Keeps(r, clear(r)) /\ clear(r).placed_with = {}
  BY DEF IsTable, Keeps, clear
<1>3. Keeps(r, reset_to_empty_state(r)) /\ reset_to_empty_state(r).placed_with = {}
  BY DEF IsTable, Keeps, reset_to_empty_state
<1>4. Keeps(r, r)
  BY DEF Keeps
<1> QED
  BY <1>1, <1>2, <1>3, <1>4 DEF erase_value, move_out, Discarded

LEMMA RehashKeeps ==
  ASSUME NEW r, IsTable(r)
  PROVE  /\ \A n : Keeps(r, rehash_to(r, n))
         /\ \A n : Keeps(r, rehash(r, n))
         /\ \A n : Keeps(r, reserve(r, n))
         /\ Keeps(r, reserve_for_one_more(r))
<1>1. \A n : Keeps(r, rehash_to(r, n))
  BY DEF IsTable, Keeps, rehash_to
<1>2. \A n : Keeps(r, rehash(r, n))
  BY <1>1 DEF IsTable, Keeps, rehash
<1> QED
  BY <1>1, <1>2 DEF IsTable, Keeps, reserve, reserve_for_one_more

LEMMA EmplaceKeeps ==
  ASSUME NEW r, IsTable(r), NEW e
  PROVE  /\ Keeps(r, emplace_impl(r, e))
         /\ \A site \in StepSites : Keeps(r, EmplaceThrows(r, e, site))
<1>1. \A s, m : IsTable(s) => Keeps(s, Discarded(s, m))
  BY DEF IsTable, Keeps, Discarded
<1> DEFINE b == Built(r, e)
           c == reserve_for_one_more(b)
           m == Arena!next_node(r.arena)
<1>2. Keeps(r, b)
  BY DEF IsTable, Keeps, Built
<1>3. Keeps(b, c)
  BY <1>2, RehashKeeps DEF Keeps
<1>4. Keeps(r, c)
  BY <1>2, <1>3 DEF Keeps
<1>5. Keeps(r, Discarded(b, m)) /\ Keeps(r, Discarded(c, m))
  BY <1>1, <1>2, <1>4 DEF Keeps
<1> HIDE DEF b, c, m
<1>5a. Keeps(r, LinkedIn(c, m))
  BY <1>4 DEF Keeps, IsTable, LinkedIn
<1>6. Keeps(r, emplace_impl(r, e))
  <2>1. \A a : Keeps(r, [c EXCEPT !.arena = a,
                                  !.placed_with = @ \union {r.hash_function}])
    BY <1>4 DEF Keeps, IsTable
  <2> QED
    BY <2>1, <1>5 DEF emplace_impl, b, c, m
<1>7. Keeps(r, r)
  BY DEF Keeps
<1> QED
  BY <1>2, <1>5, <1>6, <1>5a, <1>7
     DEF EmplaceThrows, StepSites, RestoredSites, b, c, m

LEMMA FactorKeeps ==
  ASSUME NEW t, IsTable(table[t]), NEW z, SetMaxLoadFactor(t, z)
  PROVE  /\ Idle /\ Alive(t)
         /\ \E q : Keeps(table[t], q) /\ Changes(t, q, "yes")
<1> DEFINE r == table[t]
           f == IF z > 0 THEN z ELSE kDefaultMaxLoadFactor
           c == IF r.bucket_count = 0 THEN r.max_load_capacity
                ELSE compute_load_capacity(r.bucket_count, f)
           q == [r EXCEPT !.max_load_factor = f, !.max_load_capacity = c]
<1>1. Idle /\ Alive(t) /\ Changes(t, q, "yes")
  BY Zenon DEF SetMaxLoadFactor
<1>2. Keeps(r, q)
  <2> HIDE DEF f, c
  <2> QED
    BY DEF Keeps, IsTable
<1> HIDE DEF q
<1> QED
  BY <1>1, <1>2

LEMMA KeptIsFit ==
  ASSUME NEW r, NEW q, Keeps(r, q), NEW p
  PROVE  /\ Fit(r, p) => Fit(q, p)
         /\ Coherent(r, p) => Coherent(q, p)
BY DEF Keeps, Fit, Coherent

LEMMA EmptyIsCoherent ==
  ASSUME NEW r, NEW p, Fit(r, p), r.placed_with = {}
  PROVE  Coherent(r, p)
BY DEF Coherent

LEMMA FreshIsCoherent ==
  ASSUME NEW p, NEW a, NEW f, NEW h \in p.hashers
  PROVE  /\ Coherent(Fresh(a, f, h), p) /\ Fresh(a, f, h).allocator = a
         /\ Fresh(a, f, h).vectors = a
BY DEF Coherent, Fit, IsTable, Fresh

(* A table without elements may change its factor and hash function. *)
LEMMA Rehashed ==
  ASSUME NEW r, NEW p, Fit(r, p), r.placed_with = {}, NEW f, NEW h \in p.hashers
  PROVE  Coherent([r EXCEPT !.max_load_factor = f, !.hash_function = h], p)
BY DEF Coherent, Fit, IsTable

(* A hash function is moved from: that of an empty table, that of the      *)
(* source of an element-wise move, or one that this does not change.       *)
LEMMA MovedHash ==
  ASSUME NEW p \in Programs, NEW r, Fit(r, p)
  PROVE  /\ Fit(HashMoved(r), p)
         /\ r.placed_with = {} => Coherent(HashMoved(r), p)
         /\ HashesStay(p) /\ Coherent(r, p) => Coherent(HashMoved(r), p)
<1> DEFINE q == HashMoved(r)
<1>1. /\ IsTable(q)
      /\ q.allocator = r.allocator /\ q.vectors = r.vectors
      /\ q.placed_with = r.placed_with
      /\ q.hash_function = AfterMove[r.hash_function]
  BY DEF HashMoved, Fit, IsTable
<1>2. /\ r.hash_function \in p.hashers
      /\ AfterMove[r.hash_function] \in p.hashers
  BY TwoTablesAssumption DEF Fit
<1> HIDE DEF q
<1>3. Fit(q, p)
  BY <1>1, <1>2 DEF Fit
<1>4. HashesStay(p) => q.hash_function = r.hash_function
  BY <1>1, <1>2 DEF HashesStay
<1>5. HashesStay(p) /\ Coherent(r, p) => Coherent(q, p)
  BY <1>1, <1>3, <1>4 DEF Coherent
<1>6. r.placed_with = {} => Coherent(q, p)
  BY <1>1, <1>3, EmptyIsCoherent
<1> QED
  BY <1>3, <1>5, <1>6 DEF q

-----------------------------------------------------------------------------
(* The steps. *)

LEMMA CoherentStep ==
  ASSUME CoherentTables, [Next]_vars
  PROVE  CoherentTables'
<1> DEFINE OK(r) == Coherent(r, program)
           Stays == Idle /\ UNCHANGED <<program, call>>
<1>a. /\ program \in Programs
      /\ DOMAIN table = Name
      /\ Idle => \A t \in Name : Alive(t) => OK(table[t]) /\ Fit(table[t], program)
                                             /\ IsTable(table[t])
      /\ ~Idle => /\ call.to \in Name /\ call.from \in Name /\ call.to # call.from
                  /\ OK(to) /\ IsTable(to)
                  /\ Fit(from, program) /\ IsTable(from)
                  /\ OK(from) \/ (call.op \in Moving /\ MovesDoNotThrow)
                  /\ \A t \in Name \ {call.from} : Alive(t) => OK(table[t])
  BY DEF CoherentTables, HalfMoved, Idle, Moving, Coherent, Fit, to, from
<1>b. /\ PropagationAgrees => (program.pocca => program.pocma)
      /\ HashMovesAreSafe =>
           HashesStay(program) \/ (~program.equal_moves /\ MovesDoNotThrow)
  BY <1>a DEF PropagationAgrees, HashMovesAreSafe
<1>c. ASSUME NEW r, OK(r)
      PROVE  IsTable(r) /\ Fit(r, program)
  BY <1>c DEF Coherent, Fit
<1>d. ASSUME NEW r, NEW q, Keeps(r, q)
      PROVE  /\ OK(r) => OK(q)
             /\ Fit(r, program) => Fit(q, program)
  BY <1>d, KeptIsFit
<1> HIDE DEF OK
<1>1. ASSUME Stays, NEW t \in Name, NEW r, r = NoTable \/ OK(r),
             table' = [table EXCEPT ![t] = r]
      PROVE  CoherentTables'
  BY <1>a, <1>1 DEF CoherentTables, Alive, Idle, OK
<1>2. ASSUME Stays, NEW t \in Name, NEW s \in Name, NEW r, NEW q, OK(r), OK(q),
             table' = [table EXCEPT ![t] = r, ![s] = q]
      PROVE  CoherentTables'
  BY <1>a, <1>2 DEF CoherentTables, Alive, Idle, OK
<1>3. ASSUME NEW op, NEW t \in Name, NEW s \in Name, t # s, NEW r,
             Idle, Alive(s), OK(r), Begin(op, t, s, r)
      PROVE  CoherentTables'
  <2>1. /\ table' = [table EXCEPT ![t] = r]
        /\ call'.to = t /\ call'.from = s /\ program' = program
    BY <1>3 DEF Begin, LoopOver
  <2> QED
    BY <1>a, <1>3, <2>1 DEF CoherentTables, Alive, to, from, OK
<1>4. ASSUME NEW op \in Moving, NEW t \in Name, NEW s \in Name, t # s, NEW r,
             Idle, Alive(s), OK(r), BeginMove(op, t, s, r)
      PROVE  CoherentTables'
  <2> DEFINE q == HashMoved(table[s])
  <2>1. /\ table' = [table EXCEPT ![t] = r, ![s] = q]
        /\ call'.to = t /\ call'.from = s /\ call'.op = op /\ program' = program
    BY <1>4 DEF BeginMove, LoopOver
  <2>2. Fit(q, program) /\ (OK(q) \/ MovesDoNotThrow)
    <3>1. OK(table[s]) /\ Fit(table[s], program)
      BY <1>a, <1>4
    <3>2. Fit(q, program) /\ (HashesStay(program) => OK(q))
      BY <1>a, <3>1, MovedHash DEF OK
    <3>3. ~HashMovesAreSafe => OK(q)
      BY <3>2 DEF OK, Coherent
    <3> QED
      BY <1>b, <3>2, <3>3
  <2> HIDE DEF q
  <2>3. /\ table'[t] = r /\ table'[s] = q /\ DOMAIN table' = Name
        /\ \A u \in Name \ {t, s} : table'[u] = table[u]
    BY <1>a, <1>4, <2>1
  <2>4. HalfMoved(s)' \/ OK(q)
    BY <1>4, <2>1, <2>2, <2>3 DEF HalfMoved
  <2>5. \A u \in Name : Alive(u)' =>
          Coherent(table'[u], program') \/ HalfMoved(u)'
    BY <1>a, <1>4, <2>1, <2>3, <2>4 DEF Alive, OK
  <2> QED
    BY <1>a, <1>4, <2>1, <2>3, <2>4, <2>5 DEF CoherentTables, to, from, OK
<1>5. ASSUME ~Idle, NEW r, NEW q, OK(r), Keeps(from, q), Proceed(r, q)
      PROVE  CoherentTables'
  <2>1. /\ program' = program
        /\ table' = [table EXCEPT ![call.to] = r, ![call.from] = q]
        /\ call' = [call EXCEPT !.todo = Tail(@)]
    BY <1>5 DEF Proceed
  <2>2. call'.to = call.to /\ call'.from = call.from /\ call'.op = call.op
    BY <2>1
  <2>3. Fit(q, program) /\ (OK(q) \/ (call.op \in Moving /\ MovesDoNotThrow))
    BY <1>a, <1>d, <1>5
  <2>4. /\ table'[call.to] = r /\ table'[call.from] = q /\ DOMAIN table' = Name
        /\ \A u \in Name \ {call.to, call.from} : table'[u] = table[u]
    BY <1>a, <1>5, <2>1
  <2>5. HalfMoved(call.from)' \/ OK(q)
    BY <2>1, <2>2, <2>3, <2>4 DEF HalfMoved
  <2>6. \A u \in Name : Alive(u)' =>
          Coherent(table'[u], program') \/ HalfMoved(u)'
    BY <1>a, <1>5, <2>1, <2>4, <2>5 DEF Alive, OK
  <2> QED
    BY <1>a, <1>5, <2>1, <2>2, <2>4, <2>5, <2>6 DEF CoherentTables, to, from, OK
<1>6. ASSUME NEW t \in Name, NEW q, NEW o, Idle, Alive(t), Keeps(table[t], q),
             Changes(t, q, o)
      PROVE  CoherentTables'
  BY <1>a, <1>d, <1>1, <1>6 DEF Changes
<1>7. ASSUME NEW t \in Name, NEW a, NEW h \in program.hashers, Construct(t, a, h)
      PROVE  CoherentTables'
  BY <1>1, <1>7, FreshIsCoherent DEF Construct, OK
<1>8. ASSUME NEW t \in Name,
             Destroy(t) \/ Clear(t) \/ Shrink(t) \/ InsertHandle(t)
      PROVE  CoherentTables'
  <2>1. CASE Destroy(t)
    BY <1>1, <2>1 DEF Destroy
  <2>2. CASE Clear(t)
    BY <1>a, <1>6, <2>2, OperationsKeep DEF Clear
  <2>3. CASE Shrink(t)
    BY <1>a, <1>6, <2>3, RehashKeeps DEF Shrink
  <2>4. CASE InsertHandle(t)
    <3>1. OK(emplace_impl(table[t], handle.value))
      BY <1>a, <1>d, <2>4, EmplaceKeeps DEF InsertHandle
    <3>2. CASE UNCHANGED table
      <4>1. Idle /\ UNCHANGED <<program, call>>
        BY <2>4 DEF InsertHandle
      <4> QED
        BY <1>a, <4>1, <3>2 DEF CoherentTables, Alive, Idle, OK
    <3>3. CASE table' = [table EXCEPT ![t] = emplace_impl(table[t], handle.value)]
      BY <1>1, <2>4, <3>1, <3>3 DEF InsertHandle
    <3> QED
      BY <2>4, <3>2, <3>3 DEF InsertHandle
  <2> QED
    BY <1>8, <2>1, <2>2, <2>3, <2>4
<1>9. ASSUME NEW t \in Name, NEW e, Emplace(t, e) \/ Erase(t, e) \/ Extract(t, e)
      PROVE  CoherentTables'
  <2>1. CASE Emplace(t, e)
    BY <1>a, <1>6, <2>1, EmplaceKeeps DEF Emplace
  <2>2. CASE Erase(t, e)
    BY <1>a, <1>6, <2>2, OperationsKeep DEF Erase, ValuesOf
  <2>3. CASE Extract(t, e)
    <3>1. OK(erase_value(table[t], e))
      BY <1>a, <1>d, <2>3, OperationsKeep DEF Extract, ValuesOf
    <3>2. /\ Idle
          /\ table' = [table EXCEPT ![t] = erase_value(table[t], e)]
          /\ UNCHANGED <<program, call>>
      BY <1>a, <2>3 DEF Extract
    <3> QED
      BY <1>1, <3>1, <3>2
  <2> QED
    BY <1>9, <2>1, <2>2, <2>3
<1>10. ASSUME NEW t \in Name, NEW z, SetMaxLoadFactor(t, z)
       PROVE  CoherentTables'
  <2>1. Idle /\ Alive(t) /\ IsTable(table[t])
    BY <1>a, <1>10 DEF SetMaxLoadFactor
  <2> QED
    BY <1>6, <1>10, <2>1, FactorKeeps
<1>11. ASSUME NEW op, NEW t \in Name, NEW s \in Name, t # s, NEW r,
              Idle, Alive(s), OK(r), copy_contents_from(op, t, s, r)
       PROVE  CoherentTables'
  <2>1. OK(Reserved(r, s))
    BY <1>c, <1>d, <1>11, RehashKeeps DEF Reserved
  <2> QED
    BY <1>1, <1>3, <1>11, <2>1 DEF copy_contents_from
<1>12. ASSUME NEW t \in Name, NEW s \in Name, t # s, NEW r, NEW source,
              Idle, OK(source),
              PropagationAgrees => r.vectors = r.allocator \/ program.pocma,
              program.pocma => r.allocator = source.allocator,
              Steal(t, s, r, source)
       PROVE  CoherentTables'
  <2> DEFINE new == Stolen(r, source)
             old == HashMoved(reset_to_empty_state(source))
  <2>1. /\ IsTable(source) /\ Fit(source, program)
        /\ HashMovesAreSafe => source.placed_with \subseteq {source.hash_function}
    BY <1>c, <1>12 DEF OK, Coherent
  <2>2. /\ IsTable(new) /\ new.allocator = r.allocator
        /\ new.vectors = IF program.pocma THEN source.vectors ELSE r.vectors
        /\ new.hash_function = source.hash_function
        /\ new.placed_with = source.placed_with
    BY <2>1 DEF Stolen, IsTable
  <2>3. OK(old)
    BY <1>a, <1>d, <2>1, MovedHash, OperationsKeep DEF OK
  <2> HIDE DEF new, old
  <2>4. OK(new)
    BY <1>12, <2>1, <2>2 DEF OK, Coherent, Fit
  <2>5. Stays /\ table' = [table EXCEPT ![t] = new, ![s] = old]
    BY <1>12 DEF Steal, new, old
  <2> QED
    BY <1>2, <2>3, <2>4, <2>5
<1>13. ASSUME NEW t \in Name, NEW s \in Name, t # s, NEW a,
              CopyConstruct(t, s, a) \/ MoveConstructWith(t, s, a)
       PROVE  CoherentTables'
  <2> DEFINE fresh == Fresh(a, table[s].max_load_factor, table[s].hash_function)
  <2>1. Idle /\ Alive(s)
    BY <1>13 DEF CopyConstruct, MoveConstructWith
  <2>2. /\ OK(table[s]) /\ Fit(table[s], program)
        /\ table[s].hash_function \in program.hashers
    BY <1>a, <2>1 DEF Fit
  <2>3. OK(fresh) /\ fresh.allocator = a /\ fresh.vectors = a
    BY <2>2, FreshIsCoherent DEF OK
  <2> HIDE DEF fresh
  <2>4. OK(Reserved(fresh, s))
    BY <1>c, <1>d, <2>3, RehashKeeps DEF Reserved
  <2>5. CASE CopyConstruct(t, s, a)
    BY <1>11, <1>13, <2>1, <2>3, <2>5 DEF CopyConstruct, fresh
  <2>6. CASE MoveConstructWith(t, s, a)
    <3>1. CASE /\ a = table[s].allocator /\ program.equal_moves
               /\ Steal(t, s, fresh, HashMoved(table[s]))
      <4>1. OK(HashMoved(table[s]))
        <5>1. /\ Fit(HashMoved(table[s]), program)
              /\ HashesStay(program) => OK(HashMoved(table[s]))
          BY <1>a, <2>2, MovedHash DEF OK
        <5>2. ~HashMovesAreSafe => OK(HashMoved(table[s]))
          BY <5>1 DEF OK, Coherent
        <5> QED
          BY <1>b, <3>1, <5>1, <5>2
      <4>2. HashMoved(table[s]).allocator = a
        BY <2>2, <3>1 DEF HashMoved, Fit, IsTable
      <4> QED
        BY <1>12, <1>13, <2>1, <2>3, <3>1, <4>1, <4>2
    <3>2. CASE BeginMove("move_construct", t, s, Reserved(fresh, s))
      BY <1>4, <1>13, <2>1, <2>4, <3>2 DEF Moving
    <3> QED
      BY <2>6, <3>1, <3>2 DEF MoveConstructWith, fresh
  <2> QED
    BY <1>13, <2>5, <2>6
<1>14. ASSUME NEW t \in Name, NEW s \in Name, t # s, MoveConstruct(t, s)
       PROVE  CoherentTables'
  <2> DEFINE old == HashMoved(reset_to_empty_state(table[s]))
  <2>1. /\ Idle /\ Alive(s)
        /\ table' = [table EXCEPT ![t] = table[s], ![s] = old]
        /\ UNCHANGED <<program, call>>
    BY <1>14 DEF MoveConstruct
  <2>2. OK(table[s]) /\ OK(old)
    BY <1>a, <1>d, <2>1, MovedHash, OperationsKeep DEF OK
  <2> HIDE DEF old
  <2> QED
    BY <1>2, <2>1, <2>2
<1>e. ASSUME NEW t \in Name, NEW s \in Name, Idle, Alive(t), Alive(s)
      PROVE  OK(EmptiedForCopy(t, s)) /\ OK(EmptiedForMove(t, s))
  <2>1. /\ Fit(table[t], program) /\ IsTable(table[t])
        /\ table[s].hash_function \in program.hashers
    BY <1>a, <1>e DEF Fit
  <2>2. Fit(clear(table[t]), program) /\ clear(table[t]).placed_with = {}
    BY <1>d, <2>1, OperationsKeep
  <2>3. Fit(Emptied(t, s), program) /\ Emptied(t, s).placed_with = {}
    <3>1. CASE Propagates(t, s)
      <4>1. PropagationAgrees => program.pocma
        BY <1>b, <3>1 DEF Propagates
      <4>2. LET r == reset_to_empty_state(table[t])
            IN  Fit(r, program) /\ r.placed_with = {}
        BY <1>d, <2>1, OperationsKeep
      <4> QED
        BY <3>1, <4>1, <4>2 DEF Emptied, Fit, IsTable
    <3>2. CASE ~Propagates(t, s)
      BY <2>2, <3>2 DEF Emptied
    <3> QED
      BY <3>1, <3>2
  <2> QED
    BY <2>1, <2>2, <2>3, Rehashed DEF OK, EmptiedForCopy, EmptiedForMove
<1>15. ASSUME NEW t \in Name, NEW s \in Name, t # s, CopyAssign(t, s)
       PROVE  CoherentTables'
  <2>1. /\ Idle /\ Alive(t) /\ Alive(s)
        /\ copy_contents_from("copy", t, s, EmptiedForCopy(t, s))
    BY <1>15 DEF CopyAssign
  <2> QED
    BY <1>e, <1>11, <1>15, <2>1
<1>16. ASSUME NEW t \in Name, NEW s \in Name, t # s, MoveAssign(t, s)
       PROVE  CoherentTables'
  <2>1. /\ Idle /\ Alive(t) /\ Alive(s) /\ OK(table[s])
        /\ Fit(table[t], program) /\ Fit(table[s], program)
        /\ table[s].hash_function \in program.hashers
        /\ IsTable(table[t])
    BY <1>a, <1>16 DEF MoveAssign, Fit
  <2>2. CASE MovesStorage(t, s)
    <3> DEFINE r == [table[t] EXCEPT !.allocator = IF program.pocma
                                      THEN table[s].allocator ELSE table[t].allocator]
    <3>1. Steal(t, s, r, table[s])
      BY <1>16, <2>2 DEF MoveAssign
    <3>2. /\ program.pocma => r.allocator = table[s].allocator
          /\ PropagationAgrees => r.vectors = r.allocator \/ program.pocma
      BY <2>1 DEF Fit, IsTable
    <3> HIDE DEF r
    <3> QED
      BY <1>12, <1>16, <2>1, <3>1, <3>2
  <2>3. CASE ~MovesStorage(t, s)
    <3> DEFINE r == EmptiedForMove(t, s)
    <3>1. OK(r)
      BY <1>e, <2>1
    <3>2. OK(Reserved(r, s))
      BY <1>c, <1>d, <3>1, RehashKeeps DEF Reserved
    <3>3. BeginMove("move", t, s, Reserved(r, s))
      BY <1>16, <2>3 DEF MoveAssign
    <3> QED
      BY <1>4, <1>16, <2>1, <3>2, <3>3 DEF Moving
  <2> QED
    BY <2>2, <2>3
<1>17. ASSUME NEW t \in Name, NEW s \in Name, t # s, Merge(t, s) \/ Swap(t, s)
       PROVE  CoherentTables'
  <2>1. Idle /\ Alive(t) /\ Alive(s) /\ OK(table[t]) /\ OK(table[s])
    BY <1>a, <1>17 DEF Merge, Swap
  <2>2. CASE Merge(t, s)
    BY <1>3, <1>17, <2>1, <2>2 DEF Merge
  <2>3. CASE Swap(t, s)
    BY <1>2, <2>1, <2>3 DEF Swap
  <2> QED
    BY <1>17, <2>2, <2>3
<1>17a. ASSUME NEW op \in {"copy", "move"}, NEW t \in Name, NEW s \in Name,
              t # s, ReserveThrows(op, t, s)
       PROVE  CoherentTables'
  <2> DEFINE r == IF op = "copy" THEN EmptiedForCopy(t, s) ELSE EmptiedForMove(t, s)
             q == IF op = "move" THEN HashMoved(table[s]) ELSE table[s]
  <2>1. /\ Stays /\ Alive(t) /\ Alive(s) /\ <<op, "reserve">> \in Throws
        /\ table' = [table EXCEPT ![t] = r, ![s] = q]
    BY <1>17a DEF ReserveThrows
  <2>2. OK(r)
    BY <1>e, <2>1
  <2>3. OK(table[s]) /\ Fit(table[s], program)
    BY <1>a, <2>1
  <2>4. OK(q)
    <3>1. CASE op = "move"
      <4>1. /\ Fit(HashMoved(table[s]), program)
            /\ HashesStay(program) => OK(HashMoved(table[s]))
        BY <1>a, <2>3, MovedHash DEF OK
      <4>2. ~HashMovesAreSafe => OK(HashMoved(table[s]))
        BY <4>1 DEF OK, Coherent
      <4>3. HashMovesAreSafe => HashesStay(program)
        BY <1>b, <2>1, <3>1 DEF MovesDoNotThrow, Moving
      <4> QED
        BY <3>1, <4>1, <4>2, <4>3
    <3>2. CASE op # "move"
      BY <2>3, <3>2
    <3> QED
      BY <3>1, <3>2
  <2> HIDE DEF r, q
  <2> QED
    BY <1>2, <2>1, <2>2, <2>4
<1>18. ASSUME CopyNext \/ MoveNext \/ MergeNext \/ MergeSkip
       PROVE  CoherentTables'
  <2>1. ~Idle
    BY <1>18 DEF CopyNext, MoveNext, MergeNext, MergeSkip, Working, Idle,
                 Copying, Moving
  <2>2. OK(to) /\ OK(emplace_impl(to, value))
    BY <1>a, <1>d, <2>1, EmplaceKeeps
  <2>3. /\ Keeps(from, from)
        /\ Keeps(from, move_out(from, node))
        /\ \A a : Keeps(from, [from EXCEPT !.arena = a])
    BY <1>a, <2>1, OperationsKeep
  <2>4. CASE CopyNext
    BY <1>5, <2>1, <2>2, <2>3, <2>4 DEF CopyNext
  <2>5. CASE MoveNext
    BY <1>5, <2>1, <2>2, <2>3, <2>5 DEF MoveNext
  <2>6. CASE MergeNext
    BY <1>5, <2>1, <2>2, <2>3, <2>6 DEF MergeNext
  <2>7. CASE MergeSkip
    BY <1>5, <2>1, <2>2, <2>3, <2>7 DEF MergeSkip
  <2> QED
    BY <1>18, <2>4, <2>5, <2>6, <2>7
<1>19. ASSUME NEW site \in StepSites, StepThrows(site)
       PROVE  CoherentTables'
  <2>1. ~Idle /\ <<call.op, site>> \in Throws
    BY <1>19 DEF StepThrows, Working, Idle, Copying, Moving
  <2>2. OK(from)
    BY <1>a, <2>1 DEF MovesDoNotThrow
  <2>3. OK(EmplaceThrows(to, value, site)) /\ OK(move_out(from, node))
    BY <1>a, <1>d, <2>1, <2>2, EmplaceKeeps, OperationsKeep
  <2> DEFINE r == IF call.op \in Constructing
                  THEN NoTable ELSE EmplaceThrows(to, value, site)
  <2>4. \E q : OK(q) /\ table' = [table EXCEPT ![call.to] = r, ![call.from] = q]
    <3> HIDE DEF r
    <3>1. PICK gone : table' = [table EXCEPT ![call.to] = r, ![call.from] =
                                  IF gone THEN move_out(from, node) ELSE @]
      BY <1>19 DEF StepThrows, r
    <3> DEFINE q == IF gone THEN move_out(from, node) ELSE from
    <3>2. table' = [table EXCEPT ![call.to] = r, ![call.from] = q]
      BY <1>a, <2>1, <3>1 DEF from
    <3>3. OK(q)
      BY <2>2, <2>3
    <3> QED
      BY <3>2, <3>3
  <2>5. r = NoTable \/ OK(r)
    BY <2>3
  <2>6. UNCHANGED program /\ call' = NoCall
    BY <1>19 DEF StepThrows
  <2> HIDE DEF r
  <2> QED
    BY <1>a, <2>1, <2>4, <2>5, <2>6 DEF CoherentTables, NoCall, Idle, Alive, OK
<1>20. ASSUME EndCall
       PROVE  CoherentTables'
  <2>1. ~Idle /\ call' = NoCall /\ UNCHANGED program
    BY <1>20 DEF EndCall
  <2>2. CASE call.op \in Moving
    <3>1. table' = [table EXCEPT ![call.from] = clear(from)]
      BY <1>20, <2>2 DEF EndCall, from
    <3>2. OK(clear(from))
      BY <1>a, <1>d, <2>1, OperationsKeep, EmptyIsCoherent DEF OK
    <3> QED
      BY <1>a, <2>1, <3>1, <3>2 DEF CoherentTables, NoCall, Idle, Alive, OK
  <2>3. CASE call.op \notin Moving
    <3>1. table' = table
      BY <1>20, <2>3 DEF EndCall
    <3>2. \A t \in Name : Alive(t) => OK(table[t])
      BY <1>a, <2>1, <2>3 DEF from
    <3> QED
      BY <1>a, <2>1, <3>1, <3>2 DEF CoherentTables, NoCall, Idle, Alive, OK
  <2> QED
    BY <2>2, <2>3
<1>21. ASSUME DropHandle \/ UNCHANGED vars
       PROVE  CoherentTables'
  BY <1>21 DEF DropHandle, vars, CoherentTables, HalfMoved, Alive, Idle, to, from
<1>22. ASSUME NEW t \in Name, NEW s \in Name, t # s, TwoOf(t, s)
       PROVE  CoherentTables'
  BY <1>13, <1>14, <1>15, <1>16, <1>17, <1>22, <1>17a DEF TwoOf
<1> QED
  BY <1>7, <1>8, <1>9, <1>10, <1>18, <1>19, <1>20, <1>21, <1>22 DEF Next, Turn

-----------------------------------------------------------------------------
LEMMA CoherentInvariant == Spec => []CoherentTables
<1>1. Init => CoherentTables
  BY DEF Init, CoherentTables, Alive, Idle, NoCall
<1>2. CoherentTables /\ [Next]_vars => CoherentTables'
  BY CoherentStep
<1> QED
  BY <1>1, <1>2, PTL DEF Spec

(* Whatever is copied, moved, swapped and merged, also half way through    *)
(* and after an exception, chunks_ and iteration_ use the allocator of     *)
(* their table.                                                            *)
THEOREM VectorsFollowTheTable ==
  ASSUME PropagationAgrees
  PROVE  Spec => []VectorsUseTableAllocator
<1>1. CoherentTables => VectorsUseTableAllocator
  BY DEF CoherentTables, Coherent, HalfMoved, Fit, VectorsUseTableAllocator
<1> QED
  BY <1>1, CoherentInvariant, PTL

(* The hash function of a table is always the one its elements were placed *)
(* with: no copy, move or swap replaces one without the other, as long as  *)
(* a hash function that being moved from changes is not moved twice by     *)
(* hash_table(hash_table&&, alloc), or left behind by a move that throws.  *)
THEOREM HashFollowsTheElements ==
  ASSUME HashMovesAreSafe
  PROVE  Spec => []PlacedWithTableHash
<1>1. CoherentTables => PlacedWithTableHash
  BY DEF CoherentTables, Coherent, HalfMoved, PlacedWithTableHash
<1> QED
  BY <1>1, CoherentInvariant, PTL
-----------------------------------------------------------------------------
(* The lemmas on storage are about the operators of Arena. *)

LEMMA ElementStorage == L!StorageAssumption
BY TwoTablesAssumption DEF L!StorageAssumption

LEMMA ArenaOperators ==
  /\ Arena!EmptyArena = L!EmptyArena
  /\ \A a : /\ Arena!Linked(a) = L!Linked(a)
            /\ Arena!next_node(a) = L!next_node(a)
            /\ Arena!acquire_node(a) = L!acquire_node(a)
            /\ Arena!rehash_to(a) = L!rehash_to(a)
            /\ Arena!clear(a) = L!clear(a)
  /\ \A a, n : /\ Arena!discard_node(a, n) = L!discard_node(a, n)
               /\ Arena!erase_located(a, n) = L!erase_located(a, n)
               /\ Arena!link_into_iteration(a, n) = L!link_into_iteration(a, n)
               /\ Arena!insert_known_absent(a, n) = L!insert_known_absent(a, n)
  /\ \A a, n, k : Arena!construct_value(a, n, k) = L!construct_value(a, n, k)
<1>1. Arena!EmptyArena = L!EmptyArena
  BY DEF Arena!EmptyArena, L!EmptyArena
<1>2. \A a : Arena!Linked(a) = L!Linked(a)
  BY DEF Arena!Linked, L!Linked
<1>3. \A a : Arena!next_node(a) = L!next_node(a)
  BY DEF Arena!next_node, L!next_node
<1>4. \A a : Arena!ensure_arena_slot(a) = L!ensure_arena_slot(a)
  BY DEF Arena!ensure_arena_slot, L!ensure_arena_slot, Arena!NeedsChunk,
         L!NeedsChunk
<1>5. \A s : Arena!pop_back(s) = L!pop_back(s)
  BY DEF Arena!pop_back, L!pop_back
<1>6. \A a : Arena!acquire_node(a) = L!acquire_node(a)
  BY <1>4, <1>5 DEF Arena!acquire_node, L!acquire_node
<1>7. \A a : Arena!rehash_to(a) = L!rehash_to(a)
  BY <1>2 DEF Arena!rehash_to, L!rehash_to
<1>8. \A a : Arena!clear(a) = L!clear(a)
  BY <1>2 DEF Arena!clear, L!clear
<1>9. \A a, n : /\ Arena!release_node(a, n) = L!release_node(a, n)
                /\ Arena!destroy_value(a, n) = L!destroy_value(a, n)
                /\ Arena!link_into_iteration(a, n) = L!link_into_iteration(a, n)
                /\ Arena!insert_known_absent(a, n) = L!insert_known_absent(a, n)
  BY DEF Arena!release_node, L!release_node, Arena!destroy_value,
         L!destroy_value, Arena!link_into_iteration, L!link_into_iteration,
         Arena!insert_known_absent, L!insert_known_absent
<1>10. \A a, n : Arena!unlink_from_iteration(a, n) = L!unlink_from_iteration(a, n)
  BY <1>5 DEF Arena!unlink_from_iteration, L!unlink_from_iteration
<1>11. \A a, n : /\ Arena!discard_node(a, n) = L!discard_node(a, n)
                 /\ Arena!erase_located(a, n) = L!erase_located(a, n)
  BY <1>9, <1>10 DEF Arena!discard_node, L!discard_node, Arena!erase_located,
                     L!erase_located
<1>12. \A a, n, k : Arena!construct_value(a, n, k) = L!construct_value(a, n, k)
  BY DEF Arena!construct_value, L!construct_value
<1> QED
  BY <1>1, <1>2, <1>3, <1>6, <1>7, <1>8, <1>9, <1>11, <1>12

(* Two elements of a table never have the same key; what was moved from has *)
(* none.                                                                   *)
Distinct(a) ==
  \A m, n \in L!Linked(a) :
    /\ a.value[m] \in Element
    /\ a.value[n] \in Element
    /\ KeyOf[a.value[m]] = KeyOf[a.value[n]]
    => m = n

(* The storage of a table between two steps. *)
Proper(a) == L!Sound(a) /\ Distinct(a)

(* What Sound and Distinct say in terms of TablesSound. *)
LEMMA ProperIsSound ==
  ASSUME NEW r, Proper(r.arena)
  PROVE  /\ Arena!StructureOK(r.arena)
         /\ Arena!Accounted(r.arena)
         /\ r.arena.indexed = Arena!Linked(r.arena)
         /\ DistinctKeys(r)
<1> DEFINE a == r.arena
<1>1. Arena!Linked(a) = L!Linked(a)
  BY ArenaOperators
<1>2. Arena!Slots(a) = L!Slots(a) /\ Arena!Freed(a) = L!Freed(a)
  BY DEF Arena!Slots, L!Slots, Arena!Freed, L!Freed
<1>3. Arena!ArenaTypeOK(a) <=> L!ArenaTypeOK(a)
  BY <1>2 DEF Arena!ArenaTypeOK, L!ArenaTypeOK
<1>4. Arena!NeverShared(a) <=> L!NeverShared(a)
  BY <1>1, <1>2 DEF Arena!NeverShared, L!NeverShared, Arena!Injective, L!Injective
<1>5. /\ Arena!PositionsMatch(a) <=> L!PositionsMatch(a)
      /\ Arena!FreeListChained(a) <=> L!FreeListChained(a)
  BY DEF Arena!PositionsMatch, L!PositionsMatch, Arena!FreeListChained,
         L!FreeListChained
<1>6. Arena!StructureOK(a) <=> L!StructureOK(a)
  BY <1>1, <1>3, <1>4, <1>5 DEF Arena!StructureOK, L!StructureOK
<1>7. Arena!Accounted(a) <=> L!Accounted(a)
  BY <1>1, <1>2 DEF Arena!Accounted, L!Accounted
<1> QED
  BY <1>1, <1>6, <1>7 DEF Proper, L!Sound, Distinct, DistinctKeys

LEMMA ProperElements ==
  ASSUME NEW a, Proper(a)
  PROVE  /\ \A n \in L!Linked(a) : a.value[n] \in Element \union {MovedFrom}
         /\ Len(a.iteration) \in Nat
         /\ a.iteration \in Seq(L!Linked(a))
         /\ L!Injective(a.iteration)
         /\ a.indexed = L!Linked(a)
         /\ Len(a.iteration) = 0 <=> L!Linked(a) = {}
<1>1. /\ \A n \in L!Linked(a) : a.value[n] \in Element \union {MovedFrom}
      /\ Len(a.iteration) \in Nat
      /\ a.iteration \in Seq(L!Linked(a))
      /\ a.iteration = << >> <=> L!Linked(a) = {}
  BY ElementStorage, L!SoundElements DEF Proper
<1>2. L!Injective(a.iteration) /\ a.indexed = L!Linked(a)
  BY DEF Proper, L!Sound, L!StructureOK, L!NeverShared
<1> QED
  BY <1>1, <1>2

LEMMA SameIsProper ==
  ASSUME NEW a, Proper(a), NEW b, L!Sound(b), L!SameElements(a, b)
  PROVE  Proper(b)
BY DEF Proper, Distinct, L!SameElements

LEMMA MoreIsProper ==
  ASSUME NEW a, Proper(a), NEW b, L!Sound(b), NEW n, NEW e,
         L!WithElement(a, b, n, e),
         \A m \in L!Linked(a) : KeyOf[a.value[m]] # KeyOf[e]
  PROVE  Proper(b)
BY DEF Proper, Distinct, L!WithElement

LEMMA LessIsProper ==
  ASSUME NEW a, Proper(a), NEW n \in L!Linked(a)
  PROVE  LET b == L!erase_located(a, n)
         IN  /\ Proper(b)
             /\ L!WithoutElement(a, b, n)
             /\ Len(b.iteration) = Len(a.iteration) - 1
<1>1. /\ L!Sound(L!erase_located(a, n))
      /\ L!WithoutElement(a, L!erase_located(a, n), n)
  BY ElementStorage, L!SoundErased DEF Proper
<1> QED
  BY <1>1 DEF Proper, Distinct, L!WithoutElement, L!Filled

LEMMA MovedIsProper ==
  ASSUME NEW a, Proper(a), NEW n \in L!Linked(a)
  PROVE  LET b == L!construct_value(a, n, MovedFrom)
         IN  /\ Proper(b)
             /\ L!Linked(b) = L!Linked(a)
             /\ b.iteration = a.iteration
             /\ b.value[n] = MovedFrom
             /\ \A m \in L!Linked(a) \ {n} : b.value[m] = a.value[m]
<1> DEFINE b == L!construct_value(a, n, MovedFrom)
<1>1. /\ L!Sound(b)
      /\ L!Linked(b) = L!Linked(a)
      /\ b.iteration = a.iteration
      /\ b.value[n] = MovedFrom
      /\ \A m \in L!Linked(a) \ {n} : b.value[m] = a.value[m]
  BY ElementStorage, L!SoundOverwritten DEF Proper
<1> HIDE DEF b
<1>2. Distinct(b)
  BY <1>1, TwoTablesAssumption DEF Proper, Distinct
<1> QED
  BY <1>1, <1>2 DEF Proper, b

LEMMA EmptyIsProper ==
  /\ Proper(L!EmptyArena) /\ L!EmptyArena.iteration = << >>
  /\ \A a : Proper(a) => /\ Proper(L!clear(a))
                         /\ L!clear(a).iteration = << >>
<1>1. L!Sound(L!EmptyArena) /\ \A a : L!Sound(a) => L!Sound(L!clear(a))
  BY ElementStorage, L!SettledWhenEmpty DEF L!Settled
<1>2. L!EmptyArena.iteration = << >>
  BY DEF L!EmptyArena
<1>3. ASSUME NEW a, Proper(a)
      PROVE  L!clear(a).iteration = << >>
  <2>1. "iteration" \in DOMAIN a
    BY <1>3 DEF Proper, L!Sound, L!StructureOK, L!ArenaTypeOK
  <2> QED
    BY <2>1 DEF L!clear
<1>4. \A a : a.iteration = << >> => Distinct(a)
  BY DEF Distinct, L!Linked
<1> QED
  BY <1>1, <1>2, <1>3, <1>4 DEF Proper
-----------------------------------------------------------------------------
(* One table: its storage is sound, and its buckets hold its elements.     *)

(* Load factors up to 1.0, and as many buckets as anything asks for.       *)
SizesAreGiven ==
  /\ \A p \in Programs : \A z \in p.factors : z <= 100
  /\ \A n \in Nat : Allocatable(n)
  /\ \A n \in BucketCounts : 2 * n \in BucketCounts

Sized(r) ==
  /\ r.max_load_factor \in 1 .. 100
  /\ r.bucket_count \in BucketCounts \union {0}
  /\ r.max_load_capacity \in Nat
  /\ IF r.bucket_count = 0
     THEN Size(r) = 0 /\ r.max_load_capacity = 0
     ELSE Size(r) < r.bucket_count /\ r.max_load_capacity < r.bucket_count

Matched(r) ==
  r.bucket_count # 0 =>
    r.max_load_capacity =
      compute_load_capacity(r.bucket_count, r.max_load_factor)

(* In program p. *)
Good(r, p) ==
  /\ IsTable(r)
  /\ Proper(r.arena)
  /\ SizesAreGiven => Sized(r)
  /\ SizesAreGiven /\ ~p.empty_copies => Matched(r)

SameBuckets(r, q) ==
  /\ q.bucket_count = r.bucket_count
  /\ q.max_load_capacity = r.max_load_capacity
  /\ q.max_load_factor = r.max_load_factor

LEMMA FewerIsGood ==
  ASSUME NEW p, NEW r, Good(r, p), NEW q, IsTable(q), Proper(q.arena),
         SameBuckets(r, q), Size(q) <= Size(r)
  PROVE  Good(q, p)
<1>1. Size(r) \in Nat /\ Size(q) \in Nat
  BY ProperElements DEF Good, Size
<1>2. ASSUME SizesAreGiven
      PROVE  Sized(q)
  <2>1. /\ Sized(r)
        /\ \A n \in BucketCounts : n \in Nat
    BY <1>2, BucketCountsAssumption DEF Good
  <2> QED
    BY <1>1, <2>1 DEF Sized, SameBuckets
<1> QED
  BY <1>2 DEF Good, SameBuckets, Matched

(* A new bucket array of n buckets. *)
LEMMA NewBuckets ==
  ASSUME NEW r, IsTable(r), NEW n \in BucketCounts, r.max_load_factor \in 1 .. 100
  PROVE  LET q == rehash_to(r, n)
         IN  /\ q.bucket_count = n
             /\ q.max_load_factor = r.max_load_factor
             /\ q.max_load_capacity \in Nat
             /\ q.max_load_capacity < n
             /\ Matched(q)
<1>1. n \in Nat \ {0} /\ r.max_load_factor \in Nat
  BY BucketCountsAssumption
<1>2. /\ compute_load_capacity(n, r.max_load_factor) \in Nat
      /\ compute_load_capacity(n, r.max_load_factor) < n
  BY <1>1, CapacityBelowCount
<1> QED
  BY <1>2 DEF IsTable, rehash_to, Matched

(* rehash and reserve_for_one_more change the index at most. *)
SameStorage(r, q) ==
  /\ IsTable(q)
  /\ q.arena \in {r.arena, L!rehash_to(r.arena)}
  /\ q.max_load_factor = r.max_load_factor

LEMMA RehashKeepsStorage ==
  ASSUME NEW r, IsTable(r)
  PROVE  /\ \A n : SameStorage(r, rehash_to(r, n)) /\ SameStorage(r, rehash(r, n))
         /\ \A n : SameStorage(r, reserve(r, n))
         /\ SameStorage(r, reserve_for_one_more(r))
<1>1. \A n : SameStorage(r, rehash_to(r, n))
  BY ArenaOperators DEF IsTable, SameStorage, rehash_to
<1>2. \A n : SameStorage(r, rehash(r, n))
  BY <1>1 DEF IsTable, SameStorage, rehash
<1> QED
  BY <1>1, <1>2 DEF reserve, reserve_for_one_more, SameStorage

LEMMA SameStorageIsProper ==
  ASSUME NEW r, Proper(r.arena), NEW q, SameStorage(r, q)
  PROVE  /\ Proper(q.arena)
         /\ L!SameElements(r.arena, q.arena)
         /\ q.arena.iteration = r.arena.iteration
<1>1. CASE q.arena = r.arena
  BY <1>1 DEF L!SameElements
<1>2. CASE q.arena = L!rehash_to(r.arena)
  <2>1. /\ L!Sound(q.arena)
        /\ L!SameElements(r.arena, q.arena)
        /\ q.arena.iteration = r.arena.iteration
    BY <1>2, ElementStorage, L!SoundRehashed DEF Proper
  <2> QED
    BY <2>1, SameIsProper
<1> QED
  BY <1>1, <1>2 DEF SameStorage

(* rehash(n) leaves room for the elements, and n buckets at least.         *)
LEMMA RehashSizes ==
  ASSUME SizesAreGiven, NEW r, IsTable(r), Proper(r.arena), Sized(r),
         NEW requested \in Nat
  PROVE  LET q == rehash(r, requested)
         IN  /\ Sized(q)
             /\ Matched(q)
             /\ requested # 0 => /\ q.bucket_count \in BucketCounts
                                 /\ q.bucket_count >= requested
                                 /\ q.max_load_capacity =
                                      compute_load_capacity(q.bucket_count,
                                                            r.max_load_factor)
<1> DEFINE size == Size(r)
           factor == r.max_load_factor
           minimum == bucket_count_for_elements(size, factor)
           target == rehash_target(requested, size, factor)
           n == round_up_to_power_of_two(target)
           q == rehash(r, requested)
<1>1. size \in Nat /\ factor \in 1 .. 100
  BY ProperElements DEF Size, Sized
<1>2. /\ minimum \in Nat
      /\ size # 0 => minimum > size
  <2>1. Allocatable(buckets_needed(size, factor))
    <3>1. buckets_needed(size, factor) \in Nat
      BY <1>1, NeededExceedsSize
    <3> QED
      BY <3>1 DEF SizesAreGiven
  <2> QED
    BY <1>1, <2>1, CountForElements
<1>3. /\ target \in Nat
      /\ target >= requested /\ target >= minimum
      /\ target = 0 => size = 0 /\ requested = 0
      /\ size # 0 => target > size
  <2>1. target = IF requested < minimum THEN minimum ELSE requested
    BY DEF rehash_target
  <2> HIDE DEF target, minimum, size
  <2> QED
    BY <1>1, <1>2, <2>1
<1>4. Size(q) = size
  <2>1. SameStorage(r, q)
    BY RehashKeepsStorage
  <2> QED
    BY <2>1, SameStorageIsProper DEF Size
<1>5. CASE target # 0
  <2>1. n \in BucketCounts /\ n >= target
    BY <1>3, RoundUpIsLargeEnough DEF SizesAreGiven
  <2>2. q = rehash_to(r, n)
    BY <1>5 DEF rehash
  <2> HIDE DEF n, q, target, minimum, size, factor
  <2>3. n \in Nat
    BY <2>1, BucketCountsAssumption
  <2>4. /\ q.bucket_count = n
        /\ q.max_load_factor = factor
        /\ q.max_load_capacity \in Nat
        /\ q.max_load_capacity < n
        /\ Matched(q)
    BY <1>1, <2>1, <2>2, NewBuckets DEF factor
  <2>5. n # 0 /\ size < n /\ n >= requested
    BY <1>1, <1>3, <1>5, <2>1, <2>3
  <2>6. Sized(q)
    BY <1>1, <1>4, <2>1, <2>4, <2>5 DEF Sized
  <2>7. q.max_load_capacity = compute_load_capacity(q.bucket_count, factor)
    BY <2>4, <2>5 DEF Matched
  <2> QED
    BY <2>1, <2>4, <2>5, <2>6, <2>7 DEF q, factor
<1>6. CASE target = 0
  <2>1. /\ size = 0 /\ requested = 0
        /\ q.bucket_count = 0 /\ q.max_load_capacity = 0 /\ q.max_load_factor = factor
    <3>1. size = 0 /\ requested = 0
      BY <1>3, <1>6
    <3>2. q = [r EXCEPT !.bucket_count = 0, !.max_load_capacity = 0,
                        !.placed_with = {}]
      BY <1>6, <3>1 DEF rehash
    <3> QED
      BY <3>1, <3>2 DEF IsTable
  <2> HIDE DEF q, target, minimum, size, factor
  <2>2. Sized(q) /\ Matched(q)
    BY <1>1, <1>4, <2>1 DEF Sized, Matched
  <2> QED
    BY <2>1, <2>2 DEF q
<1> QED
  BY <1>5, <1>6

(* A table that has no elements yet, and perhaps a threshold that does not *)
(* match, reserves: it matches, and there is room for all that was asked.  *)
LEMMA Reserving ==
  ASSUME NEW p, NEW r, IsTable(r), Proper(r.arena), Size(r) = 0,
         SizesAreGiven => Sized(r), NEW m \in Nat
  PROVE  LET q == reserve(r, m)
         IN  /\ Good(q, p)
             /\ Size(q) = 0
             /\ L!SameElements(r.arena, q.arena)
             /\ SizesAreGiven => m <= q.max_load_capacity
<1> DEFINE q == reserve(r, m)
<1>1. /\ IsTable(q)
      /\ Proper(q.arena)
      /\ L!SameElements(r.arena, q.arena)
      /\ Size(q) = 0
  BY RehashKeepsStorage, SameStorageIsProper DEF SameStorage, Size
<1>2. ASSUME SizesAreGiven
      PROVE  Sized(q) /\ Matched(q) /\ m <= q.max_load_capacity
  <2> DEFINE factor == r.max_load_factor
             requested == bucket_count_for_elements(m, factor)
  <2>1. factor \in 1 .. 100 /\ Sized(r)
    BY <1>2 DEF Sized
  <2>2. /\ requested \in Nat
        /\ m # 0 => requested > m /\ requested >= buckets_needed(m, factor)
        /\ m = 0 => requested = 0
    <3>1. /\ buckets_needed(m, factor) \in Nat
          /\ Allocatable(buckets_needed(m, factor))
      BY <1>2, <2>1, NeededExceedsSize DEF SizesAreGiven
    <3>2. round_up_to_power_of_two(buckets_needed(m, factor)) >= buckets_needed(m, factor)
      BY <3>1, RoundUpIsLargeEnough
    <3> QED
      BY <2>1, <3>1, <3>2, CountForElements DEF bucket_count_for_elements
  <2>3. q = rehash(r, requested)
    BY DEF reserve
  <2> HIDE DEF requested, q, factor
  <2>4. /\ Sized(q)
        /\ Matched(q)
        /\ requested # 0 => /\ q.bucket_count \in BucketCounts
                            /\ q.bucket_count >= requested
                            /\ q.max_load_capacity =
                                 compute_load_capacity(q.bucket_count, factor)
    BY <1>2, <2>1, <2>2, <2>3, RehashSizes DEF factor
  <2>5. CASE m = 0
    BY <2>4, <2>5 DEF Sized
  <2>6. CASE m # 0
    <3>0. buckets_needed(m, factor) \in Nat
      BY <2>1, NeededExceedsSize
    <3>1. requested # 0 /\ requested >= buckets_needed(m, factor)
      BY <2>2, <2>6
    <3>2. /\ q.bucket_count \in Nat \ {0}
          /\ q.bucket_count >= buckets_needed(m, factor)
      <4>1. q.bucket_count \in BucketCounts /\ q.bucket_count >= requested
        BY <2>4, <3>1
      <4>2. q.bucket_count \in Nat \ {0}
        <5>1. \A n \in BucketCounts : n \in Nat \ {0}
          BY BucketCountsAssumption
        <5> QED
          BY <4>1, <5>1
      <4> QED
        BY <2>2, <3>0, <3>1, <4>1, <4>2
    <3>3. compute_load_capacity(q.bucket_count, factor) >= m
      BY <2>1, <3>2, ThresholdSuffices
    <3>4. q.max_load_capacity = compute_load_capacity(q.bucket_count, factor)
      BY <2>4, <3>1
    <3>5. q.max_load_capacity \in Nat
      BY <2>4 DEF Sized
    <3> QED
      BY <2>4, <3>3, <3>4, <3>5
  <2> QED
    BY <2>5, <2>6
<1> QED
  BY <1>1, <1>2 DEF Good
(* The threshold leaves room for one more element, or there are new buckets. *)
LEMMA OneMoreSizes ==
  ASSUME SizesAreGiven, NEW r, IsTable(r), Sized(r), Size(r) \in Nat
  PROVE  LET q == reserve_for_one_more(r)
         IN  /\ q.max_load_factor = r.max_load_factor
             /\ q.bucket_count \in BucketCounts
             /\ Size(r) + 1 < q.bucket_count
             /\ q.max_load_capacity \in Nat
             /\ q.max_load_capacity < q.bucket_count
             /\ Matched(r) => Matched(q)
             /\ Size(r) + 1 <= r.max_load_capacity => q = r
<1> DEFINE q == reserve_for_one_more(r)
           size == Size(r)
           n == IF r.bucket_count = 0 THEN kInitialBucketCount
                                      ELSE 2 * r.bucket_count
<1>1. /\ size \in Nat
      /\ r.max_load_factor \in 1 .. 100
      /\ kInitialBucketCount \in BucketCounts /\ kInitialBucketCount >= 2
      /\ \A m \in BucketCounts : m \in Nat /\ m >= 2 /\ 2 * m \in BucketCounts
  <2>1. \A m \in BucketCounts : m \in Nat /\ m >= 2
    BY BucketCountsAssumption
  <2> QED
    BY <2>1, BucketCountsAssumption DEF Sized, SizesAreGiven
<1>2. CASE q = r /\ r.bucket_count # 0 /\ ~(size + 1 > r.max_load_capacity)
  <2>1. /\ r.bucket_count \in BucketCounts
        /\ r.max_load_capacity \in Nat
        /\ r.max_load_capacity < r.bucket_count
        /\ r.bucket_count \in Nat
    BY <1>1, <1>2 DEF Sized
  <2> HIDE DEF q, n
  <2>2. size + 1 < r.bucket_count
    BY <1>1, <1>2, <2>1
  <2> QED
    BY <1>2, <2>1, <2>2 DEF q
<1>3. CASE /\ q = rehash_to(r, n)
           /\ r.bucket_count = 0 \/ size + 1 > r.max_load_capacity
  <2>1. n \in BucketCounts /\ size + 1 < n
    <3>1. CASE r.bucket_count = 0
      <4>1. size = 0
        BY <3>1 DEF Sized
      <4> QED
        BY <1>1, <3>1, <4>1
    <3>2. CASE r.bucket_count # 0
      <4>1. size < r.bucket_count /\ r.bucket_count \in BucketCounts
        BY <3>2 DEF Sized
      <4> HIDE DEF size
      <4> QED
        BY <1>1, <3>2, <4>1
    <3> QED
      BY <3>1, <3>2
  <2>2. ~(size + 1 <= r.max_load_capacity)
    <3>1. r.max_load_capacity \in Nat
      BY DEF Sized
    <3>2. CASE r.bucket_count = 0
      <4>1. r.max_load_capacity = 0
        BY <3>2 DEF Sized
      <4> QED
        BY <1>1, <4>1
    <3>3. CASE size + 1 > r.max_load_capacity
      BY <1>1, <3>1, <3>3
    <3> QED
      BY <1>3, <3>2, <3>3
  <2> HIDE DEF q, n
  <2>3. /\ q.bucket_count = n
        /\ q.max_load_factor = r.max_load_factor
        /\ q.max_load_capacity \in Nat
        /\ q.max_load_capacity < n
        /\ Matched(q)
    BY <1>1, <1>3, <2>1, NewBuckets
  <2> QED
    BY <2>1, <2>2, <2>3 DEF q
<1>4. \/ q = r /\ r.bucket_count # 0 /\ ~(size + 1 > r.max_load_capacity)
      \/ /\ q = rehash_to(r, n)
         /\ r.bucket_count = 0 \/ size + 1 > r.max_load_capacity
  BY DEF reserve_for_one_more
<1> QED
  BY <1>2, <1>3, <1>4

(* An emplace_impl up to the point where the new node could be linked in:  *)
(* b has the value in its slot, c the room for it too.                     *)
LEMMA EmplaceBegun ==
  ASSUME NEW p, NEW r, Good(r, p), NEW e,
         NEW n, n = Arena!next_node(r.arena),
         NEW b, b = Built(r, e), NEW c, c = reserve_for_one_more(b)
  PROVE  /\ IsTable(b) /\ SameBuckets(r, b)
         /\ n = L!next_node(r.arena)
         /\ b.arena = L!construct_value(L!acquire_node(r.arena), n, e)
         /\ IsTable(c)
         /\ c.arena \in {b.arena, L!rehash_to(b.arena)}
<1>1. /\ IsTable(b) /\ SameBuckets(r, b)
      /\ n = L!next_node(r.arena)
      /\ b.arena = L!construct_value(L!acquire_node(r.arena), n, e)
  BY ArenaOperators DEF Good, IsTable, Built, SameBuckets
<1>2. SameStorage(b, c)
  BY <1>1, RehashKeepsStorage
<1> QED
  BY <1>1, <1>2 DEF SameStorage

(* With room made for one more, the buckets hold the elements there are,   *)
(* and one more.                                                           *)
LEMMA EmplaceSizes ==
  ASSUME NEW p, NEW r, Good(r, p), NEW e \in Element \union {MovedFrom},
         NEW b, b = Built(r, e), NEW c, c = reserve_for_one_more(b)
  PROVE  /\ Size(b) = Size(r) /\ Size(r) \in Nat
         /\ SizesAreGiven =>
              /\ c.max_load_factor \in 1 .. 100
              /\ c.bucket_count \in BucketCounts
              /\ Size(r) + 1 < c.bucket_count
              /\ c.max_load_capacity \in Nat
              /\ c.max_load_capacity < c.bucket_count
              /\ ~p.empty_copies => Matched(c)
              /\ Size(r) + 1 <= r.max_load_capacity =>
                   c.max_load_capacity = r.max_load_capacity
<1> DEFINE n == L!next_node(r.arena)
           d == L!construct_value(L!acquire_node(r.arena), n, e)
<1>1. IsTable(b) /\ SameBuckets(r, b) /\ b.arena = d
  BY EmplaceBegun
<1>2. L!Sound(r.arena) /\ n = L!next_node(r.arena)
      /\ d = L!construct_value(L!acquire_node(r.arena), n, e)
  BY DEF Good, Proper
<1> HIDE DEF n, d
<1>3. d \in {d, L!rehash_to(d)}
  OBVIOUS
<1>4. d.iteration = r.arena.iteration
  BY <1>2, <1>3, ElementStorage, L!InsertionBegun
<1>5. Size(b) = Size(r) /\ Size(r) \in Nat
  BY <1>1, <1>4, ProperElements DEF Size, Good
<1>6. ASSUME SizesAreGiven
      PROVE  Sized(b) /\ (~p.empty_copies => Matched(b))
  BY <1>1, <1>5, <1>6 DEF Good, Sized, Matched, SameBuckets
<1>7. ASSUME SizesAreGiven
      PROVE  /\ c.max_load_factor \in 1 .. 100
             /\ c.bucket_count \in BucketCounts
             /\ Size(r) + 1 < c.bucket_count
             /\ c.max_load_capacity \in Nat
             /\ c.max_load_capacity < c.bucket_count
             /\ ~p.empty_copies => Matched(c)
             /\ Size(r) + 1 <= r.max_load_capacity =>
                  c.max_load_capacity = r.max_load_capacity
  <2>1. /\ c.max_load_factor = b.max_load_factor
        /\ c.bucket_count \in BucketCounts
        /\ Size(b) + 1 < c.bucket_count
        /\ c.max_load_capacity \in Nat
        /\ c.max_load_capacity < c.bucket_count
        /\ Matched(b) => Matched(c)
        /\ Size(b) + 1 <= b.max_load_capacity => c = b
    BY <1>1, <1>5, <1>6, <1>7, OneMoreSizes
  <2> QED
    BY <1>1, <1>5, <1>6, <1>7, <2>1 DEF SameBuckets, Sized
<1> QED
  BY <1>5, <1>7
(* The catch blocks, and the end of an emplace_impl that found its key.    *)
LEMMA EmplaceUndone ==
  ASSUME NEW p, NEW r, Good(r, p), NEW e \in Element \union {MovedFrom},
         NEW n, n = Arena!next_node(r.arena),
         NEW b, b = Built(r, e), NEW c, c = reserve_for_one_more(b),
         NEW s \in {b, c}
  PROVE  LET q == Discarded(s, n)
         IN  /\ Good(q, p)
             /\ L!SameElements(r.arena, q.arena)
             /\ q.arena.iteration = r.arena.iteration
             /\ s = b => SameBuckets(r, q)
<1> DEFINE q == Discarded(s, n)
<1>1. /\ IsTable(b) /\ SameBuckets(r, b) /\ IsTable(c)
      /\ n = L!next_node(r.arena)
      /\ b.arena = L!construct_value(L!acquire_node(r.arena), n, e)
      /\ c.arena \in {b.arena, L!rehash_to(b.arena)}
  BY EmplaceBegun
<1>2. IsTable(q) /\ SameBuckets(s, q) /\ q.arena = L!discard_node(s.arena, n)
  BY <1>1, ArenaOperators DEF Discarded, IsTable, SameBuckets
<1> HIDE DEF q
<1>3. /\ L!Sound(q.arena)
      /\ L!SameElements(r.arena, q.arena)
      /\ q.arena.iteration = r.arena.iteration
  <2>1. PICK a \in {b.arena, L!rehash_to(b.arena)} : q.arena = L!discard_node(a, n)
    BY <1>1, <1>2
  <2>2. L!Sound(r.arena)
    BY DEF Good, Proper
  <2> QED
    BY <1>1, <2>1, <2>2, ElementStorage, L!InsertionUndone
<1>4. Proper(q.arena) /\ Size(q) = Size(r)
  BY <1>3, SameIsProper DEF Good, Size
<1>5. Size(r) \in Nat /\ (s = b => SameBuckets(r, q))
  BY <1>1, <1>2, EmplaceSizes DEF SameBuckets
<1>6. CASE s = b
  <2>1. Size(q) <= Size(r)
    BY <1>4, <1>5
  <2> QED
    BY <1>2, <1>3, <1>4, <1>5, <1>6, <2>1, FewerIsGood DEF q
<1>7. CASE s = c
  <2>1. ASSUME SizesAreGiven
        PROVE  Sized(q) /\ (~p.empty_copies => Matched(q))
    <3>1. /\ c.max_load_factor \in 1 .. 100
          /\ c.bucket_count \in BucketCounts
          /\ Size(r) + 1 < c.bucket_count
          /\ c.max_load_capacity \in Nat
          /\ c.max_load_capacity < c.bucket_count
          /\ ~p.empty_copies => Matched(c)
      BY <2>1, EmplaceSizes
    <3>2. c.bucket_count \in Nat /\ SameBuckets(c, q)
      BY <1>2, <1>7, <3>1, BucketCountsAssumption
    <3> QED
      BY <1>4, <1>5, <3>1, <3>2 DEF Sized, Matched, SameBuckets
  <2>2. Good(q, p)
    BY <1>2, <1>4, <2>1 DEF Good
  <2> QED
    BY <1>3, <1>5, <2>2 DEF q
<1> QED
  BY <1>6, <1>7

LEMMA EmplaceGood ==
  ASSUME NEW p, NEW r, Good(r, p), NEW e \in Element \union {MovedFrom},
         NEW q, q = emplace_impl(r, e)
  PROVE  /\ Good(q, p)
         /\ contains(r, e) => /\ L!SameElements(r.arena, q.arena)
                              /\ q.arena.iteration = r.arena.iteration
                              /\ SameBuckets(r, q)
         /\ ~contains(r, e) => \E n : L!WithElement(r.arena, q.arena, n, e)
         /\ SizesAreGiven /\ Size(r) + 1 <= r.max_load_capacity =>
              q.max_load_capacity = r.max_load_capacity
<1> DEFINE n == Arena!next_node(r.arena)
           b == Built(r, e)
           c == reserve_for_one_more(b)
           d == L!insert_known_absent(L!link_into_iteration(c.arena, n), n)
<1>0. n = Arena!next_node(r.arena) /\ b = Built(r, e) /\ c = reserve_for_one_more(b)
  OBVIOUS
<1> HIDE DEF n, b, c
<1>1. /\ IsTable(b) /\ SameBuckets(r, b) /\ IsTable(c)
      /\ n = L!next_node(r.arena)
      /\ b.arena = L!construct_value(L!acquire_node(r.arena), n, e)
      /\ c.arena \in {b.arena, L!rehash_to(b.arena)}
  BY <1>0, EmplaceBegun
<1>2. CASE contains(r, e)
  <2>1. q = Discarded(b, n)
    BY <1>2 DEF emplace_impl, n, b
  <2>2. LET s == Discarded(b, n)
        IN  /\ Good(s, p)
            /\ L!SameElements(r.arena, s.arena)
            /\ s.arena.iteration = r.arena.iteration
            /\ SameBuckets(r, s)
    BY <1>0, EmplaceUndone
  <2> QED
    BY <1>2, <2>1, <2>2 DEF SameBuckets
<1>3. CASE ~contains(r, e)
  <2>1. q = [c EXCEPT !.arena = d, !.placed_with = @ \union {r.hash_function}]
    BY <1>3, ArenaOperators DEF emplace_impl, n, b, c
  <2>2. IsTable(q) /\ SameBuckets(c, q) /\ q.arena = d
    BY <1>1, <2>1 DEF IsTable, SameBuckets
  <2>3. L!Sound(d) /\ L!WithElement(r.arena, d, n, e)
    <3>1. L!Sound(r.arena) /\ d = L!insert_known_absent(L!link_into_iteration(c.arena, n), n)
      BY DEF Good, Proper
    <3> HIDE DEF d
    <3> QED
      BY <1>1, <3>1, ElementStorage, L!InsertionDone
  <2> HIDE DEF d
  <2>4. Proper(d)
    <3>1. \A m \in L!Linked(r.arena) : KeyOf[r.arena.value[m]] # KeyOf[e]
      BY <1>3, ProperElements DEF contains, At, Good
    <3> QED
      BY <2>3, <3>1, MoreIsProper DEF Good
  <2>5. Size(q) = Size(r) + 1 /\ Size(r) \in Nat
    <3>1. q.arena.iteration = Append(r.arena.iteration, n)
      BY <2>2, <2>3 DEF L!WithElement
    <3>2. r.arena.iteration \in Seq(L!Linked(r.arena)) /\ Size(r) \in Nat
      BY ProperElements DEF Good, Size
    <3>3. r.arena.iteration \in Seq(L!Linked(r.arena) \union {n})
      BY <3>2, SeqMonotonic
    <3> QED
      BY <3>1, <3>2, <3>3, AppendProperties DEF Size
  <2>6. ASSUME SizesAreGiven
        PROVE  /\ Sized(q) /\ (~p.empty_copies => Matched(q))
               /\ Size(r) + 1 <= r.max_load_capacity =>
                    q.max_load_capacity = r.max_load_capacity
    <3>1. /\ c.max_load_factor \in 1 .. 100
          /\ c.bucket_count \in BucketCounts
          /\ Size(r) + 1 < c.bucket_count
          /\ c.max_load_capacity \in Nat
          /\ c.max_load_capacity < c.bucket_count
          /\ ~p.empty_copies => Matched(c)
          /\ Size(r) + 1 <= r.max_load_capacity =>
               c.max_load_capacity = r.max_load_capacity
      BY <1>0, <2>6, EmplaceSizes
    <3>2. c.bucket_count \in Nat
      BY <3>1, BucketCountsAssumption
    <3> QED
      BY <2>2, <2>5, <3>1, <3>2 DEF Sized, Matched, SameBuckets
  <2>7. Good(q, p)
    BY <2>2, <2>4, <2>6 DEF Good
  <2>8. L!WithElement(r.arena, q.arena, n, e)
    BY <2>2, <2>3
  <2> QED
    BY <1>3, <2>6, <2>7, <2>8
<1> QED
  BY <1>2, <1>3

(* No step throws where nothing puts things back: chunks_.push_back, or    *)
(* hash or key_equal once the element is built.                            *)
ThrowsAreRestored ==
  \A op \in Copying \union Moving \union {"merge"} : \A site \in StepSites :
    <<op, site>> \in Throws => site \in RestoredSites

LEMMA RestoredSite ==
  ASSUME ThrowsAreRestored, NEW site \in StepSites, StepThrows(site)
  PROVE  site \in RestoredSites /\ site # "chunk_push"
<1>1. site \in RestoredSites
  BY DEF ThrowsAreRestored, StepThrows, Working
<1> QED
  BY <1>1 DEF RestoredSites

LEMMA EmplaceThrowsGood ==
  ASSUME NEW p, NEW r, Good(r, p), NEW e \in Element \union {MovedFrom},
         NEW site \in RestoredSites
  PROVE  /\ Good(EmplaceThrows(r, e, site), p)
         /\ L!SameElements(r.arena, EmplaceThrows(r, e, site).arena)
<1> DEFINE n == Arena!next_node(r.arena)
           b == Built(r, e)
           c == reserve_for_one_more(b)
<1>1. EmplaceThrows(r, e, site) = IF site \in {"lookup", "chunk"} THEN r
                                  ELSE IF site \in {"construct", "buckets"}
                                  THEN Discarded(b, n)
                                  ELSE Discarded(c, n)
  BY DEF EmplaceThrows, RestoredSites
<1>2. n = Arena!next_node(r.arena) /\ b = Built(r, e) /\ c = reserve_for_one_more(b)
  OBVIOUS
<1> HIDE DEF n, b, c
<1>3. \A s \in {b, c} : /\ Good(Discarded(s, n), p)
                        /\ L!SameElements(r.arena, Discarded(s, n).arena)
  BY <1>2, EmplaceUndone
<1>4. L!SameElements(r.arena, r.arena)
  BY DEF L!SameElements
<1> QED
  BY <1>1, <1>3, <1>4
LEMMA NodeErasedGood ==
  ASSUME NEW p, NEW r, Good(r, p), NEW n \in L!Linked(r.arena)
  PROVE  LET q == [r EXCEPT !.arena = Arena!erase_located(r.arena, n)]
         IN  /\ Good(q, p)
             /\ q.arena = L!erase_located(r.arena, n)
             /\ L!WithoutElement(r.arena, q.arena, n)
<1> DEFINE q == [r EXCEPT !.arena = Arena!erase_located(r.arena, n)]
<1>1. IsTable(q) /\ SameBuckets(r, q) /\ q.arena = L!erase_located(r.arena, n)
  BY ArenaOperators DEF Good, IsTable, SameBuckets
<1> HIDE DEF q
<1>2. /\ Proper(q.arena)
      /\ L!WithoutElement(r.arena, q.arena, n)
      /\ Size(q) = Size(r) - 1
      /\ Size(r) \in Nat
  BY <1>1, LessIsProper, ProperElements DEF Good, Size
<1>3. Size(q) <= Size(r)
  BY <1>2
<1> QED
  BY <1>1, <1>2, <1>3, FewerIsGood DEF q

LEMMA EraseGood ==
  ASSUME NEW p, NEW r, Good(r, p), NEW e \in Values(r)
  PROVE  /\ Good(erase_value(r, e), p)
         /\ \E n \in L!Linked(r.arena) :
              /\ r.arena.value[n] = e
              /\ erase_value(r, e).arena = L!erase_located(r.arena, n)
<1> DEFINE n == CHOOSE n \in Arena!Linked(r.arena) : r.arena.value[n] = e
<1>1. n \in L!Linked(r.arena) /\ r.arena.value[n] = e
  BY ArenaOperators DEF Values
<1>2. erase_value(r, e) = [r EXCEPT !.arena = Arena!erase_located(r.arena, n)]
  BY DEF erase_value
<1> HIDE DEF n
<1> QED
  BY <1>1, <1>2, NodeErasedGood

LEMMA MoveOutGood ==
  ASSUME NEW p, NEW r, Good(r, p), NEW n \in L!Linked(r.arena)
  PROVE  LET q == move_out(r, n)
         IN  /\ Good(q, p)
             /\ q.arena = L!construct_value(r.arena, n, MovedFrom)
             /\ L!Linked(q.arena) = L!Linked(r.arena)
<1> DEFINE q == move_out(r, n)
<1>1. /\ IsTable(q) /\ SameBuckets(r, q)
      /\ q.arena = L!construct_value(r.arena, n, MovedFrom)
  BY ArenaOperators DEF move_out, Good, IsTable, SameBuckets
<1> HIDE DEF q
<1>2. /\ Proper(q.arena)
      /\ L!Linked(q.arena) = L!Linked(r.arena)
      /\ Size(q) = Size(r)
      /\ Size(r) \in Nat
  BY <1>1, MovedIsProper, ProperElements DEF Good, Size
<1>3. Size(q) <= Size(r)
  BY <1>2
<1> QED
  BY <1>1, <1>2, <1>3, FewerIsGood DEF q

(* A table without elements, whose threshold need not match its factor.    *)
Void(r) ==
  /\ IsTable(r)
  /\ Proper(r.arena)
  /\ Size(r) = 0
  /\ SizesAreGiven => Sized(r)

LEMMA EmptiedGood ==
  ASSUME NEW p, NEW r, Good(r, p)
  PROVE  /\ Good(clear(r), p) /\ Void(clear(r))
         /\ Good(reset_to_empty_state(r), p) /\ Void(reset_to_empty_state(r))
<1>1. LET q == clear(r)
      IN  Good(q, p) /\ Void(q)
  <2> DEFINE q == clear(r)
  <2>1. IsTable(q) /\ SameBuckets(r, q) /\ q.arena = L!clear(r.arena)
    BY ArenaOperators DEF Good, IsTable, SameBuckets, clear
  <2> HIDE DEF q
  <2>2. Proper(q.arena) /\ Size(q) = 0 /\ Size(r) \in Nat
    BY <2>1, EmptyIsProper, ProperElements DEF Good, Size
  <2>3. Size(q) <= Size(r)
    BY <2>2
  <2>4. Good(q, p)
    BY <2>1, <2>2, <2>3, FewerIsGood
  <2> QED
    BY <2>1, <2>2, <2>4 DEF Void, Good, q
<1>2. LET q == reset_to_empty_state(r)
      IN  Good(q, p) /\ Void(q)
  <2> DEFINE q == reset_to_empty_state(r)
  <2>1. /\ IsTable(q) /\ q.arena = L!EmptyArena
        /\ q.bucket_count = 0 /\ q.max_load_capacity = 0
        /\ q.max_load_factor = r.max_load_factor
    BY ArenaOperators DEF Good, IsTable, reset_to_empty_state
  <2> HIDE DEF q
  <2>2. Proper(q.arena) /\ Size(q) = 0
    BY <2>1, EmptyIsProper DEF Size
  <2>3. SizesAreGiven => Sized(q)
    BY <2>1, <2>2 DEF Good, Sized
  <2> QED
    BY <2>1, <2>2, <2>3 DEF Good, Void, Matched, q
<1> QED
  BY <1>1, <1>2

LEMMA FreshGood ==
  ASSUME NEW p, NEW a, NEW f, NEW h, SizesAreGiven => f \in 1 .. 100
  PROVE  Good(Fresh(a, f, h), p) /\ Void(Fresh(a, f, h))
<1> DEFINE q == Fresh(a, f, h)
<1>1. /\ IsTable(q) /\ q.arena = L!EmptyArena
      /\ q.bucket_count = 0 /\ q.max_load_capacity = 0 /\ q.max_load_factor = f
  BY ArenaOperators DEF IsTable, Fresh
<1> HIDE DEF q
<1>2. Proper(q.arena) /\ Size(q) = 0
  BY <1>1, EmptyIsProper DEF Size
<1>3. SizesAreGiven => Sized(q)
  BY <1>1, <1>2 DEF Sized
<1> QED
  BY <1>1, <1>2, <1>3 DEF Good, Void, Matched, q

(* An empty table takes over the factor and the hash function of another.  *)
LEMMA VoidWithFactor ==
  ASSUME NEW r, Void(r), NEW f, NEW h, SizesAreGiven => f \in 1 .. 100
  PROVE  Void([r EXCEPT !.max_load_factor = f, !.hash_function = h])
BY DEF Void, IsTable, Sized, Size

LEMMA VoidWithAllocator ==
  ASSUME NEW r, Void(r), NEW a, NEW v
  PROVE  /\ Void([r EXCEPT !.allocator = a])
         /\ Void([r EXCEPT !.allocator = a, !.vectors = v])
BY DEF Void, IsTable, Sized, Size

LEMMA ShrinkGood ==
  ASSUME NEW p, NEW r, Good(r, p)
  PROVE  /\ Good(rehash(r, 0), p)
         /\ L!SameElements(r.arena, rehash(r, 0).arena)
<1> DEFINE q == rehash(r, 0)
<1>1. SameStorage(r, q)
  BY RehashKeepsStorage DEF Good
<1>2. ASSUME SizesAreGiven
      PROVE  Sized(q) /\ Matched(q)
  BY <1>2, RehashSizes DEF Good
<1> HIDE DEF q
<1>3. Proper(q.arena) /\ L!SameElements(r.arena, q.arena)
  BY <1>1, SameStorageIsProper DEF Good
<1> QED
  BY <1>1, <1>2, <1>3 DEF Good, SameStorage, q

(* max_load_factor(z) computes the threshold anew. *)
LEMMA FactorGood ==
  ASSUME NEW p, NEW r, Good(r, p), NEW f, SizesAreGiven => f \in 1 .. 100
  PROVE  Good([r EXCEPT !.max_load_factor = f,
                        !.max_load_capacity =
                          IF r.bucket_count = 0 THEN r.max_load_capacity
                          ELSE compute_load_capacity(r.bucket_count, f)], p)
<1> DEFINE q == [r EXCEPT !.max_load_factor = f,
                          !.max_load_capacity =
                            IF r.bucket_count = 0 THEN r.max_load_capacity
                            ELSE compute_load_capacity(r.bucket_count, f)]
<1>1. /\ IsTable(q) /\ q.arena = r.arena /\ q.max_load_factor = f
      /\ q.bucket_count = r.bucket_count
      /\ q.max_load_capacity = IF r.bucket_count = 0 THEN r.max_load_capacity
                               ELSE compute_load_capacity(r.bucket_count, f)
  BY DEF Good, IsTable
<1> HIDE DEF q
<1>2. Size(q) = Size(r)
  BY <1>1 DEF Size
<1>3. ASSUME SizesAreGiven
      PROVE  Sized(q) /\ Matched(q)
  <2>1. Sized(r) /\ f \in 1 .. 100
    BY <1>3 DEF Good
  <2>2. CASE r.bucket_count = 0
    BY <1>1, <1>2, <2>1, <2>2 DEF Sized, Matched
  <2>3. CASE r.bucket_count # 0
    <3>1. r.bucket_count \in BucketCounts
      BY <2>1, <2>3 DEF Sized
    <3>2. r.bucket_count \in Nat \ {0} /\ f \in Nat
      <4>1. \A n \in BucketCounts : n \in Nat
        BY BucketCountsAssumption
      <4> QED
        BY <2>1, <2>3, <3>1, <4>1
    <3>3. /\ compute_load_capacity(r.bucket_count, f) \in Nat
          /\ compute_load_capacity(r.bucket_count, f) < r.bucket_count
      BY <3>2, CapacityBelowCount
    <3> QED
      BY <1>1, <1>2, <2>1, <2>3, <3>1, <3>3 DEF Sized, Matched
  <2> QED
    BY <2>2, <2>3
<1>4. Good(q, p)
  BY <1>1, <1>3 DEF Good
<1> QED
  BY <1>4 DEF q

LEMMA StolenGood ==
  ASSUME NEW p, NEW s, Good(s, p), NEW r
  PROVE  Good(Stolen(r, s), p) /\ Stolen(r, s).arena = s.arena
BY DEF Stolen, Good, IsTable, Sized, Matched, Size

LEMMA HashMovedGood ==
  ASSUME NEW p, NEW r, Good(r, p)
  PROVE  /\ Good(HashMoved(r), p)
         /\ HashMoved(r).arena = r.arena
         /\ HashMoved(r).allocator = r.allocator
         /\ Size(HashMoved(r)) = Size(r)
BY DEF HashMoved, Good, IsTable, Sized, Matched, Size

LEMMA TailOfNodes ==
  ASSUME NEW S, NEW s \in Seq(S), s # << >>, L!Injective(s)
  PROVE  /\ Head(s) \in S
         /\ Tail(s) \in Seq(S \ {Head(s)})
         /\ L!Injective(Tail(s))
         /\ Len(s) \in Nat
         /\ Len(Tail(s)) = Len(s) - 1
<1>1. /\ Len(s) \in Nat /\ Len(s) # 0
      /\ Head(s) = s[1]
      /\ \A i \in 1 .. Len(s) : s[i] \in S
      /\ Tail(s) \in Seq(S)
      /\ Len(Tail(s)) = Len(s) - 1
      /\ \A i \in 1 .. Len(Tail(s)) : Tail(s)[i] = s[i + 1]
  BY HeadTailProperties, EmptySeq, ElementOfSeq
<1>2. \A i, j \in 1 .. Len(s) : s[i] = s[j] => i = j
  BY DEF L!Injective
<1> DEFINE u == Tail(s)
<1> HIDE DEF u
<1>3. \A i \in 1 .. Len(u) : i + 1 \in 1 .. Len(s) /\ i + 1 # 1 /\ u[i] = s[i + 1]
  BY <1>1 DEF u
<1>4. 1 \in 1 .. Len(s)
  BY <1>1
<1>5. \A i \in 1 .. Len(u) : u[i] \in S \ {Head(s)}
  BY <1>1, <1>2, <1>3, <1>4
<1>6. u \in Seq(S \ {Head(s)})
  <2>1. Len(u) \in Nat /\ u \in [1 .. Len(u) -> S]
    BY <1>1, LenProperties DEF u
  <2>2. u \in [1 .. Len(u) -> S \ {Head(s)}]
    BY <1>5, <2>1
  <2> QED
    BY <2>1, <2>2, SeqDef
<1>7. L!Injective(u)
  <2> SUFFICES ASSUME NEW i \in 1 .. Len(u), NEW j \in 1 .. Len(u), u[i] = u[j]
               PROVE  i = j
    BY DEF L!Injective
  <2>1. i + 1 = j + 1
    BY <1>2, <1>3
  <2> QED
    BY <2>1
<1> QED
  BY <1>1, <1>4, <1>6, <1>7 DEF u
-----------------------------------------------------------------------------
(* All tables, and the loop in progress. *)

LoopGood ==
  /\ DOMAIN call = {"op", "to", "from", "todo", "before"}
  /\ call.op \in Copying \union Moving \union {"merge"}
  /\ call.to \in Name /\ call.from \in Name /\ call.to # call.from
  /\ Good(to, program)
  /\ Good(from, program)
  /\ call.todo \in Seq(L!Linked(from.arena))
  /\ L!Injective(call.todo)
  /\ SizesAreGiven /\ call.op \in Copying \union Moving =>
       Size(to) + Len(call.todo) <= to.max_load_capacity

HandleGood ==
  /\ DOMAIN handle = {"value", "allocator"}
  /\ handle.value \in Element \union {NoElement}

GoodTables ==
  /\ program \in Programs
  /\ DOMAIN table = Name
  /\ HandleGood
  /\ \A t \in Name : Alive(t) => Good(table[t], program)
  /\ ~Idle => LoopGood

Outside == Idle /\ UNCHANGED <<program, call>> /\ HandleGood'

LEMMA OneChanges ==
  ASSUME GoodTables, Outside, NEW t \in Name,
         NEW r, r = NoTable \/ Good(r, program), table' = [table EXCEPT ![t] = r]
  PROVE  GoodTables'
<1>1. Idle' /\ program' = program
  BY DEF Outside, Idle
<1> QED
  BY <1>1 DEF GoodTables, Outside, Alive

LEMMA TwoChange ==
  ASSUME GoodTables, Outside, NEW t \in Name, NEW s \in Name,
         NEW r, Good(r, program), NEW q, Good(q, program),
         table' = [table EXCEPT ![t] = r, ![s] = q]
  PROVE  GoodTables'
<1>1. Idle' /\ program' = program
  BY DEF Outside, Idle
<1> QED
  BY <1>1 DEF GoodTables, Outside, Alive

(* The two ways in which a loop begins. *)
Begins(op, t, s, r) == Begin(op, t, s, r) \/ BeginMove(op, t, s, r)

LEMMA LoopBegun ==
  ASSUME DOMAIN table = Name, NEW t \in Name, NEW s \in Name, t # s,
         NEW op, NEW r, Begins(op, t, s, r)
  PROVE  /\ call' = [op |-> op, to |-> t, from |-> s,
                     todo |-> table[s].arena.iteration, before |-> Contents]
         /\ program' = program /\ handle' = handle /\ outcome' = outcome
         /\ to' = r /\ from' \in {table[s], HashMoved(table[s])}
         /\ table'[t] = r /\ table'[s] = from'
         /\ DOMAIN table' = Name
         /\ \A u \in Name \ {t, s} : table'[u] = table[u]
<1>1. CASE Begin(op, t, s, r)
  BY <1>1 DEF Begin, LoopOver, to, from
<1>2. CASE BeginMove(op, t, s, r)
  BY <1>2 DEF BeginMove, LoopOver, to, from
<1> QED
  BY <1>1, <1>2 DEF Begins

LEMMA LoopBegins ==
  ASSUME GoodTables, Idle, NEW t \in Name, NEW s \in Name, t # s, Alive(s),
         NEW op \in Copying \union Moving \union {"merge"},
         NEW r, Good(r, program), Begins(op, t, s, r),
         SizesAreGiven /\ op \in Copying \union Moving =>
           Size(r) + Size(table[s]) <= r.max_load_capacity
  PROVE  GoodTables'
<1>1. DOMAIN table = Name /\ Good(table[s], program)
  BY DEF GoodTables
<1>2. /\ program' = program /\ handle' = handle
      /\ to' = r /\ from' \in {table[s], HashMoved(table[s])}
      /\ call'.op = op /\ call'.to = t /\ call'.from = s
      /\ call'.todo = table[s].arena.iteration
      /\ DOMAIN call' = {"op", "to", "from", "todo", "before"}
      /\ table'[t] = r /\ table'[s] = from'
      /\ DOMAIN table' = Name
      /\ \A u \in Name \ {t, s} : table'[u] = table[u]
  BY <1>1, LoopBegun
<1>3. /\ table[s].arena.iteration \in Seq(L!Linked(table[s].arena))
      /\ L!Injective(table[s].arena.iteration)
  BY <1>1, ProperElements DEF Good
<1>4. Good(from', program) /\ from'.arena = table[s].arena
  BY <1>1, <1>2, HashMovedGood
<1>5. LoopGood'
  BY <1>2, <1>3, <1>4 DEF LoopGood, Size
<1> QED
  BY <1>1, <1>2, <1>4, <1>5 DEF GoodTables, HandleGood, Alive

(* One element is done: the source still has those that are left to do,    *)
(* and the target's threshold leaves room for them.                        *)
LEMMA LoopProceeds ==
  ASSUME GoodTables, LoopGood, call.todo # << >>,
         NEW r, Good(r, program), NEW q, Good(q, program), Proceed(r, q),
         L!Linked(from.arena) \ {node} \subseteq L!Linked(q.arena),
         SizesAreGiven /\ call.op \in Copying \union Moving =>
           /\ Size(r) <= Size(to) + 1
           /\ Size(to) + 1 <= to.max_load_capacity =>
                r.max_load_capacity = to.max_load_capacity
  PROVE  GoodTables'
<1>1. /\ table' = [table EXCEPT ![call.to] = r, ![call.from] = q]
      /\ call' = [call EXCEPT !.todo = Tail(@)]
      /\ program' = program /\ handle' = handle
      /\ DOMAIN table = Name
  BY DEF Proceed, GoodTables
<1>2. /\ call'.op = call.op /\ call'.to = call.to /\ call'.from = call.from
      /\ call'.todo = Tail(call.todo)
      /\ DOMAIN call' = {"op", "to", "from", "todo", "before"}
      /\ to' = r /\ from' = q
  BY <1>1 DEF LoopGood, to, from
<1>3. /\ Tail(call.todo) \in Seq(L!Linked(from.arena) \ {node})
      /\ L!Injective(Tail(call.todo))
      /\ Len(call.todo) \in Nat
      /\ Len(Tail(call.todo)) = Len(call.todo) - 1
      /\ Len(Tail(call.todo)) \in Nat
  <2>1. /\ Tail(call.todo) \in Seq(L!Linked(from.arena) \ {node})
        /\ L!Injective(Tail(call.todo))
        /\ Len(call.todo) \in Nat
        /\ Len(Tail(call.todo)) = Len(call.todo) - 1
    BY TailOfNodes DEF LoopGood, node
  <2> QED
    BY <2>1, LenProperties
<1>4. Tail(call.todo) \in Seq(L!Linked(q.arena))
  BY <1>3, SeqMonotonic
<1>5. ASSUME SizesAreGiven, call.op \in Copying \union Moving
      PROVE  Size(r) + Len(Tail(call.todo)) <= r.max_load_capacity
  <2>1. /\ Size(to) + Len(call.todo) <= to.max_load_capacity
        /\ Size(to) \in Nat /\ Size(r) \in Nat
        /\ to.max_load_capacity \in Nat
    BY <1>5, ProperElements DEF LoopGood, Good, Sized, Size
  <2>2. Size(to) + 1 <= to.max_load_capacity
    BY <1>3, <2>1
  <2>3. Size(r) <= Size(to) + 1 /\ r.max_load_capacity = to.max_load_capacity
    BY <1>5, <2>2
  <2> QED
    BY <1>3, <2>1, <2>3
<1>6. LoopGood'
  BY <1>1, <1>2, <1>3, <1>4, <1>5 DEF LoopGood
<1> QED
  BY <1>1, <1>6 DEF GoodTables, HandleGood, Alive

LEMMA LoopEnds ==
  ASSUME GoodTables, ~Idle, call' = NoCall, program' = program, handle' = handle,
         NEW r, r = NoTable \/ Good(r, program), NEW q, Good(q, program),
         DOMAIN table' = Name,
         \A t \in Name : table'[t] = IF t = call.from THEN q
                                     ELSE IF t = call.to THEN r ELSE table[t]
  PROVE  GoodTables'
<1>1. Idle'
  BY DEF Idle, NoCall
<1> QED
  BY <1>1 DEF GoodTables, HandleGood, Alive
LEMMA ProgramGood ==
  ASSUME GoodTables
  PROVE  /\ \A e \in program.elements : e \in Element
         /\ SizesAreGiven => \A z \in program.factors : z \in Int /\ z <= 100
BY TwoTablesAssumption DEF GoodTables, ProgramType, SizesAreGiven

(* Calls on one table. *)
LEMMA OneTableStep ==
  ASSUME GoodTables, NEW t \in Name,
         \/ \E a, h : Construct(t, a, h)
         \/ Destroy(t) \/ Clear(t) \/ Shrink(t) \/ InsertHandle(t)
         \/ \E e \in program.elements : Emplace(t, e) \/ Erase(t, e) \/ Extract(t, e)
         \/ \E z \in program.factors : SetMaxLoadFactor(t, z)
  PROVE  GoodTables'
<1> DEFINE r == table[t]
<1>1. Alive(t) => Good(r, program)
  BY DEF GoodTables
<1>2. handle' = handle => HandleGood'
  BY DEF GoodTables, HandleGood
<1>3. ASSUME NEW q, Good(q, program), NEW o, Changes(t, q, o), Idle
      PROVE  GoodTables'
  BY <1>2, <1>3, OneChanges DEF Changes, Outside
<1>4. ASSUME NEW a, NEW h, Construct(t, a, h)
      PROVE  GoodTables'
  <2>1. Good(Fresh(a, kDefaultMaxLoadFactor, h), program)
    BY FreshGood DEF kDefaultMaxLoadFactor
  <2> QED
    BY <1>2, <1>4, <2>1, OneChanges DEF Construct, Outside
<1>5. CASE Destroy(t)
  BY <1>2, <1>5, OneChanges DEF Destroy, Outside
<1>6. CASE Clear(t)
  BY <1>1, <1>3, <1>6, EmptiedGood DEF Clear
<1>7. CASE Shrink(t)
  BY <1>1, <1>3, <1>7, ShrinkGood DEF Shrink
<1>8. CASE InsertHandle(t)
  <2>1. Good(r, program) /\ handle.value \in Element
    BY <1>1, <1>8 DEF InsertHandle, GoodTables, HandleGood
  <2>2. Good(emplace_impl(r, handle.value), program)
    BY <2>1, EmplaceGood
  <2>3. CASE contains(r, handle.value)
    <3>1. UNCHANGED <<program, table, call, handle>>
      BY <1>8, <2>3 DEF InsertHandle
    <3> QED
      BY <3>1 DEF GoodTables, HandleGood, Alive, Idle, LoopGood, to, from
  <2>4. CASE ~contains(r, handle.value)
    <3>1. /\ table' = [table EXCEPT ![t] = emplace_impl(r, handle.value)]
          /\ handle' = [handle EXCEPT !.value = NoElement]
          /\ UNCHANGED <<program, call>> /\ Idle
      BY <1>8, <2>4 DEF InsertHandle
    <3>2. HandleGood'
      BY <3>1 DEF GoodTables, HandleGood
    <3> QED
      BY <2>2, <3>1, <3>2, OneChanges DEF Outside
  <2> QED
    BY <2>3, <2>4
<1>9. ASSUME NEW e \in program.elements, Emplace(t, e)
      PROVE  GoodTables'
  <2>1. e \in Element /\ Good(r, program) /\ Idle
    BY <1>1, <1>9, ProgramGood DEF Emplace
  <2>2. Good(emplace_impl(r, e), program)
    BY <2>1, EmplaceGood
  <2> QED
    BY <1>3, <1>9, <2>1, <2>2 DEF Emplace
<1>10. ASSUME NEW e \in program.elements, Erase(t, e) \/ Extract(t, e)
       PROVE  GoodTables'
  <2>1. Good(r, program) /\ e \in Values(r) /\ Idle /\ e \in Element
    BY <1>1, <1>10, ProgramGood DEF Erase, Extract, ValuesOf
  <2>2. Good(erase_value(r, e), program)
    BY <2>1, EraseGood
  <2>3. CASE Erase(t, e)
    BY <1>3, <2>1, <2>2, <2>3 DEF Erase
  <2>4. CASE Extract(t, e)
    <3>1. /\ table' = [table EXCEPT ![t] = erase_value(r, e)]
          /\ UNCHANGED <<program, call>>
          /\ \E a : handle' = [value |-> e, allocator |-> a]
      BY <2>4 DEF Extract
    <3>2. HandleGood'
      BY <2>1, <3>1 DEF HandleGood
    <3> QED
      BY <2>1, <2>2, <3>1, <3>2, OneChanges DEF Outside
  <2> QED
    BY <1>10, <2>3, <2>4
<1>11. ASSUME NEW z \in program.factors, SetMaxLoadFactor(t, z)
       PROVE  GoodTables'
  <2> DEFINE f == IF z > 0 THEN z ELSE kDefaultMaxLoadFactor
             q == [r EXCEPT !.max_load_factor = f,
                            !.max_load_capacity =
                              IF r.bucket_count = 0 THEN r.max_load_capacity
                              ELSE compute_load_capacity(r.bucket_count, f)]
  <2>1. Good(r, program) /\ Idle /\ Changes(t, q, "yes")
    BY <1>1, <1>11 DEF SetMaxLoadFactor
  <2>2. SizesAreGiven => f \in 1 .. 100
    BY ProgramGood DEF kDefaultMaxLoadFactor
  <2> HIDE DEF f
  <2>3. Good(q, program)
    BY <2>1, <2>2, FactorGood
  <2> HIDE DEF q
  <2> QED
    BY <1>3, <2>1, <2>3
<1> QED
  BY <1>4, <1>5, <1>6, <1>7, <1>8, <1>9, <1>10, <1>11

(* The element-wise calls have room for what they begin with.              *)
LEMMA CopyBegins ==
  ASSUME GoodTables, Idle, NEW t \in Name, NEW s \in Name, t # s, Alive(s),
         NEW op \in Copying \union Moving, NEW r, Void(r),
         Begins(op, t, s, Reserved(r, s))
  PROVE  GoodTables'
<1>1. Good(table[s], program)
  BY DEF GoodTables
<1>2. Size(table[s]) \in Nat
  BY <1>1, ProperElements DEF Good, Size
<1> DEFINE q == Reserved(r, s)
<1>3. /\ Good(q, program)
      /\ Size(q) = 0
      /\ SizesAreGiven => Size(table[s]) <= q.max_load_capacity
  BY <1>2, Reserving DEF Reserved, Void
<1> HIDE DEF q
<1>4. Begins(op, t, s, q)
  BY DEF q
<1>5. SizesAreGiven => Size(q) + Size(table[s]) <= q.max_load_capacity
  BY <1>2, <1>3
<1> QED
  BY <1>3, <1>4, <1>5, LoopBegins

LEMMA CopyContents ==
  ASSUME GoodTables, Idle, NEW t \in Name, NEW s \in Name, t # s, Alive(s),
         NEW op \in Copying, NEW r, Void(r), copy_contents_from(op, t, s, r),
         SizesAreGiven /\ ~program.empty_copies /\ Size(table[s]) = 0 => Matched(r)
  PROVE  GoodTables'
<1>1. CASE Size(table[s]) = 0
  <2>1. Good(r, program)
    BY <1>1 DEF Void, Good
  <2>2. /\ table' = [table EXCEPT ![t] = r]
        /\ UNCHANGED <<program, call, handle>>
    BY <1>1 DEF copy_contents_from
  <2>3. Outside
    BY <2>2 DEF Outside, GoodTables, HandleGood
  <2> QED
    BY <2>1, <2>2, <2>3, OneChanges
<1>2. CASE Size(table[s]) # 0
  BY <1>2, CopyBegins DEF copy_contents_from, Begins
<1> QED
  BY <1>1, <1>2

LEMMA StorageMoves ==
  ASSUME GoodTables, Idle, NEW t \in Name, NEW s \in Name,
         NEW r, NEW source, Good(source, program), Steal(t, s, r, source)
  PROVE  GoodTables'
<1> DEFINE q == HashMoved(reset_to_empty_state(source))
<1>1. Good(Stolen(r, source), program)
  BY StolenGood
<1>2. Good(q, program)
  BY EmptiedGood, HashMovedGood
<1>3. /\ table' = [table EXCEPT ![t] = Stolen(r, source), ![s] = q]
      /\ Outside
  BY DEF Steal, Outside, GoodTables, HandleGood
<1> HIDE DEF q
<1> QED
  BY <1>1, <1>2, <1>3, TwoChange

LEMMA TwoTablesStep ==
  ASSUME GoodTables, NEW t \in Name, NEW s \in Name, t # s, TwoOf(t, s)
  PROVE  GoodTables'
<1>1. /\ Alive(t) => Good(table[t], program)
      /\ Alive(s) => Good(table[s], program)
  BY DEF GoodTables
<1>2. SizesAreGiven /\ Alive(s) => table[s].max_load_factor \in 1 .. 100
  BY <1>1 DEF Good, Sized
<1>3. ASSUME NEW a, CopyConstruct(t, s, a) \/ MoveConstructWith(t, s, a)
      PROVE  GoodTables'
  <2> DEFINE r == Fresh(a, table[s].max_load_factor, table[s].hash_function)
  <2>1. Idle /\ Alive(s)
    BY <1>3 DEF CopyConstruct, MoveConstructWith
  <2>2. Void(r) /\ Good(r, program)
    BY <1>2, <2>1, FreshGood
  <2> HIDE DEF r
  <2>3. CASE CopyConstruct(t, s, a)
    <3>1. copy_contents_from("copy_construct", t, s, r)
      BY <2>3 DEF CopyConstruct, r
    <3> QED
      BY <2>1, <2>2, <3>1, CopyContents DEF Good, Copying
  <2>4. CASE MoveConstructWith(t, s, a)
    <3>1. \/ Steal(t, s, r, HashMoved(table[s]))
          \/ Begins("move_construct", t, s, Reserved(r, s))
      BY <2>4 DEF MoveConstructWith, Begins, r
    <3>2. Good(HashMoved(table[s]), program)
      BY <1>1, <2>1, HashMovedGood
    <3> QED
      BY <2>1, <2>2, <3>1, <3>2, StorageMoves, CopyBegins DEF Moving
  <2> QED
    BY <1>3, <2>3, <2>4
<1>4. CASE MoveConstruct(t, s)
  <2> DEFINE q == HashMoved(reset_to_empty_state(table[s]))
  <2>1. /\ table' = [table EXCEPT ![t] = table[s], ![s] = q]
        /\ Outside /\ Good(table[s], program)
    BY <1>1, <1>4 DEF MoveConstruct, Outside, GoodTables, HandleGood
  <2>2. Good(q, program)
    BY <2>1, EmptiedGood, HashMovedGood
  <2> HIDE DEF q
  <2> QED
    BY <2>1, <2>2, TwoChange
<1>4a. ASSUME Alive(t), Alive(s)
      PROVE  Void(EmptiedForCopy(t, s)) /\ Void(EmptiedForMove(t, s))
  <2>1. Void(clear(table[t])) /\ Void(reset_to_empty_state(table[t]))
    BY <1>1, <1>4a, EmptiedGood
  <2>2. Void(Emptied(t, s))
    BY <2>1, VoidWithAllocator DEF Emptied
  <2> QED
    BY <1>2, <1>4a, <2>1, <2>2, VoidWithFactor DEF EmptiedForCopy, EmptiedForMove
<1>5. CASE CopyAssign(t, s)
  <2>1. /\ Idle /\ Alive(t) /\ Alive(s)
        /\ copy_contents_from("copy", t, s, EmptiedForCopy(t, s))
        /\ (program.empty_copies \/ Size(table[s]) > 0)
    BY <1>5 DEF CopyAssign
  <2>2. Void(EmptiedForCopy(t, s))
    BY <1>4a, <2>1
  <2>3. Size(table[s]) = 0 => ~(Size(table[s]) > 0)
    OBVIOUS
  <2> QED
    BY <2>1, <2>2, <2>3, CopyContents DEF Copying
<1>6. CASE MoveAssign(t, s)
  <2>1. Idle /\ Alive(t) /\ Alive(s)
    BY <1>6 DEF MoveAssign
  <2>2. CASE MovesStorage(t, s)
    BY <1>1, <1>6, <2>1, <2>2, StorageMoves DEF MoveAssign
  <2>3. CASE ~MovesStorage(t, s)
    <3>1. Begins("move", t, s, Reserved(EmptiedForMove(t, s), s))
      BY <1>6, <2>3 DEF MoveAssign, Begins
    <3>2. Void(EmptiedForMove(t, s))
      BY <1>4a, <2>1
    <3> QED
      BY <2>1, <3>1, <3>2, CopyBegins DEF Moving
  <2> QED
    BY <2>2, <2>3
<1>7. CASE Merge(t, s)
  <2>1. /\ Idle /\ Alive(s) /\ Good(table[t], program)
        /\ Begins("merge", t, s, table[t])
        /\ "merge" \notin Copying \union Moving
    BY <1>1, <1>7 DEF Merge, Begins, Copying, Moving
  <2> QED
    BY <2>1, LoopBegins
<1>8. CASE Swap(t, s)
  <2>1. /\ table' = [table EXCEPT ![t] = table[s], ![s] = table[t]]
        /\ Outside /\ Good(table[s], program) /\ Good(table[t], program)
    BY <1>1, <1>8 DEF Swap, Outside, GoodTables, HandleGood
  <2> QED
    BY <2>1, TwoChange
<1>9. ASSUME NEW op \in {"copy", "move"}, ReserveThrows(op, t, s)
       PROVE  GoodTables'
  <2> DEFINE r == IF op = "copy" THEN EmptiedForCopy(t, s) ELSE EmptiedForMove(t, s)
             q == IF op = "move" THEN HashMoved(table[s]) ELSE table[s]
  <2>1. /\ Outside /\ Alive(t) /\ Alive(s) /\ r.bucket_count = 0
        /\ table' = [table EXCEPT ![t] = r, ![s] = q]
    BY <1>9 DEF ReserveThrows, Outside, GoodTables, HandleGood
  <2>2. Void(r)
    BY <1>4a, <2>1
  <2>3. Good(q, program)
    BY <1>1, <2>1, HashMovedGood
  <2> HIDE DEF r, q
  <2>4. Good(r, program)
    BY <2>1, <2>2 DEF Void, Good, Matched
  <2> QED
    BY <2>1, <2>3, <2>4, TwoChange
<1> QED
  BY <1>3, <1>4, <1>5, <1>6, <1>7, <1>8, <1>9 DEF TwoOf

(* The element a loop comes to. *)
LEMMA LoopElement ==
  ASSUME GoodTables, LoopGood, call.todo # << >>
  PROVE  node \in L!Linked(from.arena) /\ value \in Element \union {MovedFrom}
<1>1. node \in L!Linked(from.arena)
  BY TailOfNodes DEF LoopGood, node
<1> QED
  BY <1>1, ProperElements DEF LoopGood, Good, value

LEMMA LoopStep ==
  ASSUME GoodTables, CopyNext \/ MoveNext \/ MergeNext \/ MergeSkip
  PROVE  GoodTables'
<1> DEFINE q == emplace_impl(to, value)
           e == [from EXCEPT !.arena = Arena!erase_located(from.arena, node)]
<1>1. ~Idle /\ call.todo # << >>
  BY DEF CopyNext, MoveNext, MergeNext, MergeSkip, Working, Idle, Copying, Moving
<1>2. LoopGood /\ Good(to, program) /\ Good(from, program)
  BY <1>1 DEF GoodTables, LoopGood
<1>3. node \in L!Linked(from.arena) /\ value \in Element \union {MovedFrom}
  BY <1>1, <1>2, LoopElement
<1>4. /\ Good(q, program)
      /\ contains(to, value) => q.arena.iteration = to.arena.iteration
      /\ ~contains(to, value) => \E n : L!WithElement(to.arena, q.arena, n, value)
      /\ SizesAreGiven /\ Size(to) + 1 <= to.max_load_capacity =>
           q.max_load_capacity = to.max_load_capacity
  BY <1>2, <1>3, EmplaceGood
<1> HIDE DEF q
<1>5. Size(q) <= Size(to) + 1
  <2>1. Size(to) \in Nat /\ to.arena.iteration \in Seq(L!Linked(to.arena))
    BY <1>2, ProperElements DEF Good, Size
  <2>2. CASE contains(to, value)
    BY <1>4, <2>1, <2>2 DEF Size
  <2>3. CASE ~contains(to, value)
    <3>1. PICK n : q.arena.iteration = Append(to.arena.iteration, n)
      BY <1>4, <2>3 DEF L!WithElement
    <3>2. to.arena.iteration \in Seq(L!Linked(to.arena) \union {n})
      BY <2>1, SeqMonotonic
    <3> QED
      BY <2>1, <3>1, <3>2, AppendProperties DEF Size
  <2> QED
    BY <2>2, <2>3
<1>6. CASE CopyNext
  <2>1. Proceed(q, from)
    BY <1>6 DEF CopyNext, q
  <2> QED
    BY <1>1, <1>2, <1>4, <1>5, <2>1, LoopProceeds
<1>7. CASE MoveNext
  <2>1. Proceed(q, move_out(from, node))
    BY <1>7 DEF MoveNext, q
  <2>2. /\ Good(move_out(from, node), program)
        /\ L!Linked(move_out(from, node).arena) = L!Linked(from.arena)
    BY <1>2, <1>3, MoveOutGood
  <2> QED
    BY <1>1, <1>2, <1>4, <1>5, <2>1, <2>2, LoopProceeds
<1>8. CASE MergeNext
  <2>1. Proceed(q, e) /\ call.op \notin Copying \union Moving
    BY <1>8 DEF MergeNext, q, Working, Copying, Moving
  <2>2. Good(e, program) /\ L!WithoutElement(from.arena, e.arena, node)
    BY <1>2, <1>3, NodeErasedGood
  <2> HIDE DEF e
  <2>3. L!Linked(from.arena) \ {node} \subseteq L!Linked(e.arena)
    BY <2>2 DEF L!WithoutElement
  <2> QED
    BY <1>1, <1>2, <1>4, <2>1, <2>2, <2>3, LoopProceeds
<1>9. CASE MergeSkip
  <2>1. Proceed(to, from) /\ call.op \notin Copying \union Moving
    BY <1>9 DEF MergeSkip, Working, Copying, Moving
  <2> QED
    BY <1>1, <1>2, <2>1, LoopProceeds
<1> QED
  BY <1>6, <1>7, <1>8, <1>9

LEMMA LoopThrows ==
  ASSUME ThrowsAreRestored, GoodTables, NEW site \in StepSites, StepThrows(site)
  PROVE  GoodTables'
<1> DEFINE left == EmplaceThrows(to, value, site)
<1>1. ~Idle /\ call.todo # << >>
  BY DEF StepThrows, Working, Idle, Copying, Moving
<1>2. LoopGood /\ Good(to, program) /\ Good(from, program)
  BY <1>1 DEF GoodTables, LoopGood
<1>3. node \in L!Linked(from.arena) /\ value \in Element \union {MovedFrom}
  BY <1>1, <1>2, LoopElement
<1>4. Good(left, program) /\ Good(move_out(from, node), program)
  BY <1>2, <1>3, RestoredSite, EmplaceThrowsGood, MoveOutGood
<1> DEFINE r == IF call.op \in Constructing THEN NoTable ELSE left
           q(gone) == IF gone THEN move_out(from, node) ELSE table[call.from]
<1>5. PICK gone : table' = [table EXCEPT ![call.to] = r, ![call.from] = q(gone)]
  <2>1. PICK gone : table' =
          [table EXCEPT ![call.to] = r,
                        ![call.from] = IF gone THEN move_out(from, node) ELSE @]
    BY DEF StepThrows
  <2>2. table' = [table EXCEPT ![call.to] = r, ![call.from] = q(gone)]
    <3>1. call.to # call.from
      BY <1>2 DEF LoopGood
    <3> QED
      BY <2>1, <3>1
  <2> QED
    BY <2>2
<1>6. Good(q(gone), program) /\ (r = NoTable \/ Good(r, program))
  BY <1>2, <1>4 DEF from
<1>7. /\ call' = NoCall /\ program' = program /\ handle' = handle
      /\ DOMAIN table' = Name
      /\ \A t \in Name : table'[t] = IF t = call.from THEN q(gone)
                                     ELSE IF t = call.to THEN r ELSE table[t]
  <2>1. call' = NoCall /\ program' = program /\ handle' = handle
    BY DEF StepThrows
  <2> HIDE DEF r, q
  <2> QED
    BY <1>5, <2>1 DEF GoodTables
<1> HIDE DEF r, q
<1> QED
  BY <1>1, <1>6, <1>7, LoopEnds

LEMMA LoopReturns ==
  ASSUME GoodTables, EndCall
  PROVE  GoodTables'
<1>1. /\ ~Idle /\ LoopGood /\ Good(to, program) /\ Good(from, program)
      /\ call' = NoCall /\ program' = program /\ handle' = handle
      /\ DOMAIN table = Name
  BY DEF EndCall, GoodTables, LoopGood
<1>2. Good(clear(from), program)
  BY <1>1, EmptiedGood
<1> DEFINE q == IF call.op \in Moving THEN clear(from) ELSE from
<1>3. /\ DOMAIN table' = Name
      /\ \A t \in Name : table'[t] = IF t = call.from THEN q
                                     ELSE IF t = call.to THEN to ELSE table[t]
  BY <1>1 DEF EndCall, to, from
<1>4. Good(q, program)
  BY <1>1, <1>2
<1> HIDE DEF q
<1> QED
  BY <1>1, <1>3, <1>4, LoopEnds

LEMMA GoodStep ==
  ASSUME ThrowsAreRestored
  PROVE  GoodTables /\ [Next]_vars => GoodTables'
<1> SUFFICES ASSUME GoodTables, [Next]_vars
             PROVE  GoodTables'
  OBVIOUS
<1>1. ASSUME NEW t \in Name,
             \/ \E a, h : Construct(t, a, h)
             \/ Destroy(t) \/ Clear(t) \/ Shrink(t) \/ InsertHandle(t)
             \/ \E e \in program.elements : Emplace(t, e) \/ Erase(t, e) \/ Extract(t, e)
             \/ \E z \in program.factors : SetMaxLoadFactor(t, z)
      PROVE  GoodTables'
  BY <1>1, OneTableStep
<1>2. ASSUME NEW t \in Name, NEW s \in Name, t # s, TwoOf(t, s)
      PROVE  GoodTables'
  BY <1>2, TwoTablesStep
<1>3. CASE DropHandle
  <2>1. /\ UNCHANGED <<program, table, call>>
        /\ handle' = [handle EXCEPT !.value = NoElement]
    BY <1>3 DEF DropHandle, Released
  <2> QED
    BY <2>1 DEF GoodTables, HandleGood, Alive, Idle, LoopGood, to, from
<1>4. CASE UNCHANGED vars
  BY <1>4 DEF vars, GoodTables, HandleGood, Alive, Idle, LoopGood, to, from
<1>5. CASE Turn
  BY <1>5, LoopStep, LoopThrows, LoopReturns DEF Turn
<1> QED
  BY <1>1, <1>2, <1>3, <1>4, <1>5 DEF Next

LEMMA GoodInvariant ==
  ASSUME ThrowsAreRestored
  PROVE  Spec => []GoodTables
<1>1. Init => GoodTables
  BY DEF Init, GoodTables, HandleGood, Alive, Idle, NoCall
<1>2. GoodTables /\ [Next]_vars => GoodTables'
  BY GoodStep
<1> QED
  BY <1>1, <1>2, PTL DEF Spec

(* Whatever is constructed, assigned, swapped, merged and extracted, also  *)
(* half way through a loop and after a step of it threw where the code     *)
(* puts things back, no slot of a table is shared or lost and its index    *)
(* reaches what its iteration lists.                                       *)
THEOREM TablesStaySound ==
  ASSUME ThrowsAreRestored
  PROVE  Spec => []TablesSound
<1>1. GoodTables => TablesSound
  BY ProperIsSound DEF GoodTables, Good, TablesSound
<1>2. Spec => []GoodTables
  BY GoodInvariant
<1> QED
  BY <1>1, <1>2, PTL

(* Up to a load factor of 1.0 every table keeps a bucket empty, whichever  *)
(* table its buckets and its threshold came from.                          *)
THEOREM TablesKeepABucketEmpty ==
  ASSUME SizesAreGiven, ThrowsAreRestored
  PROVE  Spec => []EmptyBucketRemains
<1>1. GoodTables => EmptyBucketRemains
  BY DEF GoodTables, Good, Sized, EmptyBucketRemains
<1>2. Spec => []GoodTables
  BY GoodInvariant
<1> QED
  BY <1>1, <1>2, PTL

(* The threshold is that of the buckets and the factor (hash_table.hpp:289), *)
(* as long as no empty container is copied over another one.               *)
THEOREM ThresholdsMatch ==
  ASSUME SizesAreGiven, ThrowsAreRestored
  PROVE  Spec => []ThresholdMatchesFactor
<1>1. GoodTables => ThresholdMatchesFactor
  BY DEF GoodTables, Good, Matched, ThresholdMatchesFactor
<1>2. Spec => []GoodTables
  BY GoodInvariant
<1> QED
  BY <1>1, <1>2, PTL

(* What copies and moves reserve is enough for all their turns. *)
THEOREM ReservedOnce ==
  ASSUME SizesAreGiven, ThrowsAreRestored
  PROVE  Spec => []ReserveSuffices
<1>1. GoodTables => ReserveSuffices
  BY DEF GoodTables, LoopGood, Idle, Copying, Moving, ReserveSuffices
<1>2. Spec => []GoodTables
  BY GoodInvariant
<1> QED
  BY <1>1, <1>2, PTL
-----------------------------------------------------------------------------
(* Sums over containers.  MapThenSumSet is a fold, that is a function that *)
(* is defined by recursion over sets: there is one, its values are natural *)
(* numbers, and the order in which it adds does not matter.                *)

(* The recursion of the fold: g adds up the values of f in the order in     *)
(* which CHOOSE takes elements out of a subset of S.                       *)
Adds(g, f, S) ==
  g = [s \in SUBSET S |->
         IF s = {} THEN 0
         ELSE LET x == CHOOSE x \in s : TRUE IN f[x] + g[s \ {x}]]

(* Induction over the subsets of a finite set, as far as it can be stated. *)
LEMMA SmallestSubset ==
  ASSUME NEW S, IsFiniteSet(S), NEW B \in SUBSET SUBSET S, B # {}
  PROVE  \E s \in B : \A r \in SUBSET s : r # s => r \notin B
<1> DEFINE Less == StrictSubsetOrdering(S)
<1>1. IsWellFoundedOn(Less, SUBSET S)
  BY FS_StrictSubsetOrderingWellFounded, FS_FiniteSubsetsOfFinite
<1>2. PICK s \in B : \A r \in B : <<r, s>> \notin Less
  <2> HIDE DEF Less
  <2> QED
    BY <1>1, WFMin
<1>3. \A r \in SUBSET s : r # s => <<r, s>> \in Less
  BY DEF StrictSubsetOrdering
<1> HIDE DEF Less
<1>4. \A r \in SUBSET s : r # s => r \notin B
  BY <1>2, <1>3
<1> QED
  BY <1>4

LEMMA AddsStep ==
  ASSUME NEW S, NEW f, NEW g, Adds(g, f, S), NEW s \in SUBSET S
  PROVE  /\ s = {} => g[s] = 0
         /\ s # {} => \E x \in s : g[s] = f[x] + g[s \ {x}]
<1>1. g[s] = IF s = {} THEN 0
             ELSE LET x == CHOOSE x \in s : TRUE IN f[x] + g[s \ {x}]
  BY DEF Adds
<1> QED
  BY <1>1

LEMMA AddsExists ==
  ASSUME NEW S, IsFiniteSet(S), NEW f \in [S -> Nat]
  PROVE  \E g : Adds(g, f, S)
<1> DEFINE size(s) == Cardinality(s)
           one(s) == CHOOSE x \in s : TRUE
           next(g, s) == IF s = {} THEN 0 ELSE f[one(s)] + g[s \ {one(s)}]
           UpTo(g, n) == /\ g = [s \in SUBSET S |-> g[s]]
                         /\ \A s \in SUBSET S : size(s) <= n => g[s] = next(g, s)
           B == {n \in Nat : ~\E g : UpTo(g, n)}
<1>1. \A s \in SUBSET S : /\ size(s) \in Nat
                          /\ size(s) <= size(S)
                          /\ size(s) = 0 <=> s = {}
                          /\ \A x \in s : size(s \ {x}) = size(s) - 1
  <2> SUFFICES ASSUME NEW s \in SUBSET S
               PROVE  /\ size(s) \in Nat
                      /\ size(s) <= size(S)
                      /\ size(s) = 0 <=> s = {}
                      /\ \A x \in s : size(s \ {x}) = size(s) - 1
    OBVIOUS
  <2>1. IsFiniteSet(s) /\ size(s) <= size(S)
    BY FS_Subset
  <2> QED
    BY <2>1, FS_CardinalityType, FS_EmptySet, FS_RemoveElement
<1>2. \A s \in SUBSET S : s # {} => one(s) \in s
  OBVIOUS
<1>3. B = {}
  <2> SUFFICES ASSUME B # {} PROVE FALSE
    OBVIOUS
  <2>1. PICK n \in B : \A m \in B : ~ (m < n)
    <3> DEFINE Less == OpToRel(<, Nat)
    <3>1. B \subseteq Nat
      OBVIOUS
    <3> HIDE DEF B
    <3>2. PICK n \in B : \A m \in B : <<m, n>> \notin Less
      BY <3>1, WFMin, NatLessThanWellFounded
    <3>3. \A m \in Nat : m < n => <<m, n>> \in Less
      BY <3>1, <3>2 DEF OpToRel
    <3> HIDE DEF Less
    <3> QED
      BY <3>1, <3>2, <3>3
  <2>2. CASE n = 0
    <3> DEFINE g == [s \in SUBSET S |-> 0]
    <3>1. UpTo(g, 0)
      BY <1>1
    <3> HIDE DEF g, UpTo
    <3> QED
      BY <2>1, <2>2, <3>1
  <2>3. CASE n # 0
    <3>1. n \in Nat /\ n - 1 \in Nat /\ n - 1 < n
      BY <2>1, <2>3
    <3>2. n - 1 \notin B
      <4> HIDE DEF B
      <4> QED
        BY <2>1, <3>1
    <3>3. PICK g : UpTo(g, n - 1)
      <4> HIDE DEF UpTo
      <4> QED
        BY <3>1, <3>2
    <3> DEFINE h == [s \in SUBSET S |-> next(g, s)]
    <3>4. \A s \in SUBSET S : size(s) <= n - 1 => h[s] = g[s]
      BY <3>3
    <3>5. ASSUME NEW s \in SUBSET S, size(s) <= n
          PROVE  h[s] = next(h, s)
      <4>1. CASE s = {}
        BY <4>1
      <4>2. CASE s # {}
        <5>1. one(s) \in s
          BY <1>2, <4>2
        <5> DEFINE r == s \ {one(s)}
        <5>2. r \in SUBSET S /\ size(r) <= n - 1
          <6>1. size(s) \in Nat /\ size(r) = size(s) - 1
            BY <1>1, <5>1
          <6> HIDE DEF size, r
          <6> QED
            BY <2>1, <3>5, <6>1 DEF r
        <5>3. h[r] = g[r]
          BY <3>4, <5>2
        <5> QED
          BY <4>2, <5>3
      <4> QED
        BY <4>1, <4>2
    <3>6. UpTo(h, n)
      <4>1. h = [s \in SUBSET S |-> h[s]]
        OBVIOUS
      <4> HIDE DEF h, next, size
      <4> QED
        BY <3>5, <4>1
    <3> HIDE DEF h, UpTo
    <3> QED
      BY <2>1, <3>6
  <2> QED
    BY <2>2, <2>3
<1>4. size(S) \in Nat
  BY <1>1
<1>5. PICK g : UpTo(g, size(S))
  <2> HIDE DEF UpTo, size
  <2> QED
    BY <1>3, <1>4
<1>6. \A s \in SUBSET S : g[s] = next(g, s)
  BY <1>1, <1>5
<1>7. g = [s \in SUBSET S |-> next(g, s)]
  <2> HIDE DEF next
  <2> QED
    BY <1>5, <1>6
<1>8. Adds(g, f, S)
  BY <1>7 DEF Adds
<1> QED
  BY <1>8

LEMMA AddsType ==
  ASSUME NEW S, IsFiniteSet(S), NEW f \in [S -> Nat], NEW g, Adds(g, f, S)
  PROVE  \A s \in SUBSET S : g[s] \in Nat
<1> DEFINE B == {s \in SUBSET S : g[s] \notin Nat}
<1> SUFFICES ASSUME B # {} PROVE FALSE
  OBVIOUS
<1>1. PICK s \in B : \A r \in SUBSET s : r # s => r \notin B
  <2>1. B \in SUBSET SUBSET S
    OBVIOUS
  <2> HIDE DEF B
  <2> QED
    BY <2>1, SmallestSubset
<1>2. CASE s = {}
  BY <1>1, <1>2, AddsStep
<1>3. CASE s # {}
  <2>1. PICK x \in s : g[s] = f[x] + g[s \ {x}]
    BY <1>3, AddsStep
  <2>2. g[s \ {x}] \in Nat /\ f[x] \in Nat
    BY <1>1
  <2> QED
    BY <1>1, <2>1, <2>2
<1> QED
  BY <1>2, <1>3

(* Any element may be taken out. *)
LEMMA AddsInAnyOrder ==
  ASSUME NEW S, IsFiniteSet(S), NEW f \in [S -> Nat], NEW g, Adds(g, f, S)
  PROVE  \A s \in SUBSET S : \A x \in s : g[s] = f[x] + g[s \ {x}]
<1> DEFINE B == {s \in SUBSET S : \E x \in s : g[s] # f[x] + g[s \ {x}]}
<1> SUFFICES ASSUME B # {} PROVE FALSE
  OBVIOUS
<1>1. PICK s \in B : \A r \in SUBSET s : r # s => r \notin B
  <2>1. B \in SUBSET SUBSET S
    OBVIOUS
  <2> HIDE DEF B
  <2> QED
    BY <2>1, SmallestSubset
<1>2. PICK x \in s : g[s] # f[x] + g[s \ {x}]
  BY <1>1
<1>3. PICK y \in s : g[s] = f[y] + g[s \ {y}]
  BY <1>1, <1>2, AddsStep
<1>4. x # y
  BY <1>2, <1>3
<1> DEFINE r == (s \ {x}) \ {y}
<1>5. g[s \ {x}] = f[y] + g[r]
  BY <1>1, <1>4
<1>6. g[s \ {y}] = f[x] + g[r]
  <2>1. /\ r = (s \ {y}) \ {x}
        /\ x \in s \ {y}
    BY <1>4
  <2>2. s \ {y} \notin B /\ s \ {y} \in SUBSET S
    BY <1>1
  <2> QED
    BY <2>1, <2>2
<1>7. f[x] \in Nat /\ f[y] \in Nat /\ g[r] \in Nat
  BY <1>1, AddsType
<1> HIDE DEF r
<1> QED
  BY <1>2, <1>3, <1>5, <1>6, <1>7

LEMMA AddsTheSame ==
  ASSUME NEW S, IsFiniteSet(S),
         NEW T, NEW f, NEW g, Adds(g, f, T), S \subseteq T, f \in [T -> Nat],
         NEW U, NEW h, NEW k, Adds(k, h, U), S \subseteq U, h \in [U -> Nat],
         \A x \in S : f[x] = h[x], IsFiniteSet(U)
  PROVE  g[S] = k[S]
<1> DEFINE B == {s \in SUBSET S : g[s] # k[s]}
<1> SUFFICES ASSUME B # {} PROVE FALSE
  OBVIOUS
<1>1. PICK s \in B : \A r \in SUBSET s : r # s => r \notin B
  <2>1. B \in SUBSET SUBSET S
    OBVIOUS
  <2> HIDE DEF B
  <2> QED
    BY <2>1, SmallestSubset
<1>2. s \in SUBSET T /\ s \in SUBSET U /\ s # {}
  <2>1. s \in SUBSET T /\ s \in SUBSET U
    BY <1>1
  <2>2. ASSUME s = {} PROVE FALSE
    <3>1. g[s] = 0 /\ k[s] = 0
      BY <2>1, <2>2, AddsStep
    <3> QED
      BY <1>1, <3>1
  <2> QED
    BY <2>1, <2>2
<1>3. PICK x \in s : g[s] = f[x] + g[s \ {x}]
  BY <1>2, AddsStep
<1>4. k[s] = h[x] + k[s \ {x}]
  BY <1>2, <1>3, AddsInAnyOrder
<1>5. g[s \ {x}] = k[s \ {x}] /\ f[x] = h[x]
  BY <1>1, <1>3
<1> QED
  BY <1>1, <1>3, <1>4, <1>5

(* The containers of T with allocator a, what one of them owns through a,  *)
(* and what they own together.                                             *)
With(T, a) == {t \in Name : T[t] # NoTable /\ T[t].allocator = a}
Part(T, t, a) == IF T[t] # NoTable /\ T[t].allocator = a THEN Blocks(T[t]) ELSE 0
Total(T, a) == MapThenSumSet(LAMBDA t : Blocks(T[t]), With(T, a))

Counted(T) == \A t \in Name : T[t] # NoTable => Blocks(T[t]) \in Nat

(* There is a function that adds up the total. *)
LEMMA TotalAdds ==
  ASSUME IsFiniteSet(Name), NEW T, Counted(T), NEW a
  PROVE  LET S == With(T, a)
             f == [t \in S |-> Blocks(T[t])]
         IN  /\ IsFiniteSet(S)
             /\ f \in [S -> Nat]
             /\ \E g : Adds(g, f, S) /\ Total(T, a) = g[S]
<1> DEFINE S == With(T, a)
           f == [t \in S |-> Blocks(T[t])]
           c(s) == CHOOSE x \in s : TRUE
           body(h) == [s \in SUBSET S |->
                         IF s = {} THEN 0 ELSE Blocks(T[c(s)]) + h[s \ {c(s)}]]
           it == CHOOSE h : h = body(h)
<1>1. IsFiniteSet(S) /\ f \in [S -> Nat]
  BY FS_Subset DEF With, Counted
<1>2. ASSUME NEW h
      PROVE  Adds(h, f, S) <=> h = body(h)
  <2>1. \A s \in SUBSET S : s # {} => f[c(s)] = Blocks(T[c(s)])
    OBVIOUS
  <2>2. Adds(h, f, S) <=>
          h = [s \in SUBSET S |-> IF s = {} THEN 0 ELSE f[c(s)] + h[s \ {c(s)}]]
    BY DEF Adds
  <2> HIDE DEF c, f, S
  <2>3. [s \in SUBSET S |-> IF s = {} THEN 0 ELSE f[c(s)] + h[s \ {c(s)}]] = body(h)
    BY <2>1
  <2> QED
    BY <2>2, <2>3
<1>3. Total(T, a) = it[S]
  BY DEF Total, MapThenSumSet, MapThenFoldSet
<1>4. PICK g : Adds(g, f, S)
  <2> HIDE DEF f, S
  <2> QED
    BY <1>1, AddsExists
<1> HIDE DEF body
<1>5. it = body(it)
  BY <1>2, <1>4
<1> HIDE DEF it
<1>6. Adds(it, f, S)
  BY <1>2, <1>5
<1> QED
  BY <1>1, <1>3, <1>6

LEMMA TotalType ==
  ASSUME IsFiniteSet(Name), NEW T, Counted(T), NEW a
  PROVE  /\ Total(T, a) \in Nat
         /\ (\A t \in Name : T[t] = NoTable) => Total(T, a) = 0
<1> DEFINE S == With(T, a)
           f == [t \in S |-> Blocks(T[t])]
<1>1. IsFiniteSet(S) /\ f \in [S -> Nat] /\ \E g : Adds(g, f, S) /\ Total(T, a) = g[S]
  BY TotalAdds
<1>2. (\A t \in Name : T[t] = NoTable) => S = {}
  BY DEF With
<1> HIDE DEF S, f
<1>3. PICK g : Adds(g, f, S) /\ Total(T, a) = g[S]
  BY <1>1
<1>4. g[S] \in Nat
  BY <1>1, <1>3, AddsType
<1>5. S = {} => g[S] = 0
  BY <1>3, AddsStep
<1> QED
  BY <1>2, <1>3, <1>4, <1>5

(* What one container owns counts apart from the others. *)
LEMMA TotalChanges ==
  ASSUME IsFiniteSet(Name), NEW T, Counted(T), NEW U, Counted(U), NEW a,
         NEW u \in Name, \A t \in Name \ {u} : U[t] = T[t]
  PROVE  Total(U, a) = Total(T, a) - Part(T, u, a) + Part(U, u, a)
<1> DEFINE S == With(T, a)
           f == [t \in S |-> Blocks(T[t])]
           R == With(U, a)
           h == [t \in R |-> Blocks(U[t])]
<1>1. IsFiniteSet(S) /\ f \in [S -> Nat] /\ \E g : Adds(g, f, S) /\ Total(T, a) = g[S]
  BY TotalAdds
<1>2. IsFiniteSet(R) /\ h \in [R -> Nat] /\ \E g : Adds(g, h, R) /\ Total(U, a) = g[R]
  BY TotalAdds
<1>3. PICK g : Adds(g, f, S) /\ Total(T, a) = g[S]
  BY <1>1
<1>4. PICK k : Adds(k, h, R) /\ Total(U, a) = k[R]
  BY <1>2
<1>5. S \ {u} = R \ {u} /\ \A t \in S \ {u} : f[t] = h[t]
  BY DEF With
<1>6. /\ u \in S => Part(T, u, a) = f[u]
      /\ u \notin S => Part(T, u, a) = 0
      /\ u \in R => Part(U, u, a) = h[u]
      /\ u \notin R => Part(U, u, a) = 0
  BY DEF With, Part
<1> HIDE DEF S, f, R, h
<1>7. g[S] = Part(T, u, a) + g[S \ {u}] /\ g[S \ {u}] \in Nat /\ Part(T, u, a) \in Nat
  <2>1. g[S \ {u}] \in Nat
    BY <1>1, <1>3, AddsType
  <2>2. CASE u \in S
    BY <1>1, <1>3, <1>6, <2>1, <2>2, AddsInAnyOrder
  <2>3. CASE u \notin S
    <3>1. S \ {u} = S
      BY <2>3
    <3> QED
      BY <1>6, <2>1, <2>3, <3>1
  <2> QED
    BY <2>2, <2>3
<1>8. k[R] = Part(U, u, a) + k[R \ {u}] /\ k[R \ {u}] \in Nat /\ Part(U, u, a) \in Nat
  <2>1. k[R \ {u}] \in Nat
    BY <1>2, <1>4, AddsType
  <2>2. CASE u \in R
    BY <1>2, <1>4, <1>6, <2>1, <2>2, AddsInAnyOrder
  <2>3. CASE u \notin R
    <3>1. R \ {u} = R
      BY <2>3
    <3> QED
      BY <1>6, <2>1, <2>3, <3>1
  <2> QED
    BY <2>2, <2>3
<1>9. g[S \ {u}] = k[R \ {u}]
  <2>1. IsFiniteSet(S \ {u})
    BY <1>1, FS_RemoveElement
  <2>2. S \ {u} \subseteq S /\ S \ {u} \subseteq R
    BY <1>5
  <2>3. g[S \ {u}] = k[S \ {u}]
    BY <1>1, <1>2, <1>3, <1>4, <1>5, <2>1, <2>2, AddsTheSame
  <2> QED
    BY <1>5, <2>3
<1> QED
  BY <1>3, <1>4, <1>7, <1>8, <1>9

LEMMA PartType ==
  ASSUME NEW T, Counted(T), NEW t \in Name, NEW a
  PROVE  Part(T, t, a) \in Nat
BY DEF Counted, Part

LEMMA TwoTotalsChange ==
  ASSUME IsFiniteSet(Name), NEW T, Counted(T), NEW U, Counted(U), NEW a,
         NEW u \in Name, NEW v \in Name, u # v,
         \A t \in Name \ {u, v} : U[t] = T[t]
  PROVE  Total(U, a) = Total(T, a) - Part(T, u, a) + Part(U, u, a)
                                   - Part(T, v, a) + Part(U, v, a)
<1> DEFINE W == [t \in Name |-> IF t = u THEN U[t] ELSE T[t]]
<1>1. /\ Counted(W)
      /\ \A t \in Name \ {u} : W[t] = T[t]
      /\ \A t \in Name \ {v} : U[t] = W[t]
      /\ W[u] = U[u] /\ W[v] = T[v]
  BY DEF Counted
<1> HIDE DEF W
<1>2. Total(W, a) = Total(T, a) - Part(T, u, a) + Part(W, u, a)
  BY <1>1, TotalChanges
<1>3. Total(U, a) = Total(W, a) - Part(W, v, a) + Part(U, v, a)
  BY <1>1, TotalChanges
<1>4. Part(W, u, a) = Part(U, u, a) /\ Part(W, v, a) = Part(T, v, a)
  BY <1>1 DEF Part
<1>5. /\ Total(T, a) \in Nat /\ Total(W, a) \in Nat /\ Total(U, a) \in Nat
      /\ Part(T, u, a) \in Nat /\ Part(T, v, a) \in Nat
      /\ Part(U, u, a) \in Nat /\ Part(U, v, a) \in Nat
  BY <1>1, TotalType, PartType
<1> QED
  BY <1>2, <1>3, <1>4, <1>5

-----------------------------------------------------------------------------
(* What a table has from the program, and the blocks it has.               *)

(* An object that is not constructed does not have the fields of a table.  *)
NoTableIsNone == \A r : IsTable(r) => r # NoTable

Given(r, p) ==
  /\ r.allocator \in p.allocators
  /\ r.vectors \in p.allocators
  /\ r.hash_function \in p.hashers
  /\ r.placed_with \subseteq p.hashers

LEMMA KeptIsGiven ==
  ASSUME NEW r, NEW p, Given(r, p), NEW q, Keeps(r, q)
  PROVE  Given(q, p)
BY DEF Given, Keeps

LEMMA BlocksType ==
  ASSUME NEW r, NEW p, Good(r, p)
  PROVE  /\ Blocks(r) \in Nat
         /\ "capacity" \in DOMAIN r.arena
<1>1. r.arena.capacity \in Nat /\ "capacity" \in DOMAIN r.arena
  BY DEF Good, Proper, L!Sound, L!StructureOK, L!ArenaTypeOK
<1>2. kChunkSize \in Nat \ {0}
  BY TwoTablesAssumption
<1>3. r.arena.capacity \div kChunkSize \in Nat
  BY <1>1, <1>2
<1> QED
  BY <1>1, <1>3 DEF Blocks

LEMMA CapacityStays ==
  ASSUME NEW a, "capacity" \in DOMAIN a
  PROVE  /\ L!clear(a).capacity = a.capacity
         /\ \A n : L!erase_located(a, n).capacity = a.capacity
         /\ \A n, k : L!construct_value(a, n, k).capacity = a.capacity
<1> DEFINE Same(b) == "capacity" \in DOMAIN b /\ b.capacity = a.capacity
<1>1. \A b, n : Same(b) => /\ Same(L!destroy_value(b, n))
                           /\ Same(L!unlink_from_iteration(b, n))
                           /\ Same(L!release_node(b, n))
  BY DEF L!destroy_value, L!unlink_from_iteration, L!release_node
<1>2. \A n : Same([a EXCEPT !.indexed = @ \ {n}])
  OBVIOUS
<1> HIDE DEF Same
<1>3. \A n : Same(L!erase_located(a, n))
  BY <1>1, <1>2 DEF L!erase_located
<1> USE DEF Same
<1> QED
  BY <1>3 DEF L!clear, L!construct_value

(* Erasing, moving out and clearing give no block back. *)
LEMMA BlocksStay ==
  ASSUME NEW r, NEW p, Good(r, p)
  PROVE  /\ Blocks(clear(r)) = Blocks(r) /\ Keeps(r, clear(r))
         /\ \A e : Blocks(erase_value(r, e)) = Blocks(r) /\ Keeps(r, erase_value(r, e))
         /\ \A n : Blocks(move_out(r, n)) = Blocks(r) /\ Keeps(r, move_out(r, n))
         /\ \A n : LET q == [r EXCEPT !.arena = Arena!erase_located(@, n)]
                   IN  Blocks(q) = Blocks(r) /\ Keeps(r, q)
<1>1. IsTable(r) /\ "capacity" \in DOMAIN r.arena
  BY BlocksType DEF Good
<1>2. ASSUME NEW a, a.capacity = r.arena.capacity
      PROVE  LET q == [r EXCEPT !.arena = a]
             IN  Blocks(q) = Blocks(r) /\ Keeps(r, q)
  BY <1>1, <1>2 DEF Blocks, Keeps, IsTable
<1>3. /\ Arena!clear(r.arena).capacity = r.arena.capacity
      /\ \A n : Arena!erase_located(r.arena, n).capacity = r.arena.capacity
      /\ \A n, k : Arena!construct_value(r.arena, n, k).capacity = r.arena.capacity
  BY <1>1, ArenaOperators, CapacityStays
<1>4. Blocks(clear(r)) = Blocks(r) /\ Keeps(r, clear(r))
  BY <1>1, <1>3 DEF clear, Blocks, Keeps, IsTable
<1>5. \A n : LET q == [r EXCEPT !.arena = Arena!erase_located(r.arena, n)]
             IN  Blocks(q) = Blocks(r) /\ Keeps(r, q)
  BY <1>2, <1>3
<1>6. \A n : Blocks(move_out(r, n)) = Blocks(r) /\ Keeps(r, move_out(r, n))
  BY <1>2, <1>3 DEF move_out
<1>7. \A e : Blocks(erase_value(r, e)) = Blocks(r) /\ Keeps(r, erase_value(r, e))
  BY <1>5 DEF erase_value
<1> QED
  BY <1>4, <1>5, <1>6, <1>7

LEMMA NoBlocks ==
  /\ \A a, f, h : Blocks(Fresh(a, f, h)) = 0
  /\ \A r : IsTable(r) => /\ Blocks(reset_to_empty_state(r)) = 0
                          /\ Keeps(r, reset_to_empty_state(r))
<1>1. 0 \div kChunkSize = 0
  BY TwoTablesAssumption
<1>2. Arena!EmptyArena.capacity = 0
  BY DEF Arena!EmptyArena
<1>3. \A a, f, h : Blocks(Fresh(a, f, h)) = 0
  BY <1>1, <1>2 DEF Blocks, Fresh
<1> QED
  BY <1>1, <1>2, <1>3 DEF Blocks, reset_to_empty_state, Keeps, IsTable

LEMMA HashMovedGiven ==
  ASSUME NEW p \in Programs, NEW r, IsTable(r), Given(r, p)
  PROVE  /\ IsTable(HashMoved(r)) /\ Given(HashMoved(r), p)
         /\ Blocks(HashMoved(r)) = Blocks(r)
         /\ HashMoved(r).allocator = r.allocator
<1>1. AfterMove[r.hash_function] \in p.hashers
  BY TwoTablesAssumption DEF Given
<1> QED
  BY <1>1 DEF HashMoved, IsTable, Given, Blocks

(* What an assignment goes on from, and the blocks it has kept. *)
LEMMA EmptiedGiven ==
  ASSUME NEW t, NEW s, Good(table[t], program), Given(table[t], program),
         Given(table[s], program)
  PROVE  /\ IsTable(EmptiedForCopy(t, s)) /\ Given(EmptiedForCopy(t, s), program)
         /\ Propagates(t, s) => Blocks(EmptiedForCopy(t, s)) = 0
         /\ ~Propagates(t, s) =>
              /\ Blocks(EmptiedForCopy(t, s)) = Blocks(table[t])
              /\ EmptiedForCopy(t, s).allocator = table[t].allocator
         /\ IsTable(EmptiedForMove(t, s)) /\ Given(EmptiedForMove(t, s), program)
         /\ Blocks(EmptiedForMove(t, s)) = Blocks(table[t])
         /\ EmptiedForMove(t, s).allocator = table[t].allocator
<1>1. IsTable(table[t])
  BY DEF Good
<1>2. /\ Blocks(clear(table[t])) = Blocks(table[t]) /\ Keeps(table[t], clear(table[t]))
      /\ Given(clear(table[t]), program)
  BY BlocksStay, KeptIsGiven
<1>3. /\ Blocks(reset_to_empty_state(table[t])) = 0
      /\ Keeps(table[t], reset_to_empty_state(table[t]))
      /\ Given(reset_to_empty_state(table[t]), program)
  BY <1>1, NoBlocks, KeptIsGiven
<1>4. /\ IsTable(Emptied(t, s)) /\ Given(Emptied(t, s), program)
      /\ Propagates(t, s) => Blocks(Emptied(t, s)) = 0
      /\ ~Propagates(t, s) => /\ Blocks(Emptied(t, s)) = Blocks(table[t])
                              /\ Emptied(t, s).allocator = table[t].allocator
  <2>1. CASE Propagates(t, s)
    BY <1>3, <2>1 DEF Emptied, Keeps, Given, IsTable, Blocks
  <2>2. CASE ~Propagates(t, s)
    BY <1>2, <2>2 DEF Emptied, Keeps
  <2> QED
    BY <2>1, <2>2
<1>5. ASSUME NEW r, IsTable(r), Given(r, program)
      PROVE  LET q == [r EXCEPT !.max_load_factor = table[s].max_load_factor,
                                !.hash_function = table[s].hash_function]
             IN  /\ IsTable(q) /\ Given(q, program)
                 /\ Blocks(q) = Blocks(r) /\ q.allocator = r.allocator
  BY <1>5 DEF Given, IsTable, Blocks
<1>6. IsTable(clear(table[t])) /\ clear(table[t]).allocator = table[t].allocator
  BY <1>2 DEF Keeps
<1> QED
  BY <1>2, <1>4, <1>5, <1>6 DEF EmptiedForCopy, EmptiedForMove

(* What tables and handle have from the program stays so. *)
TablesGiven ==
  /\ table = [t \in Name |-> table[t]]
  /\ \A t \in Name : Alive(t) => Given(table[t], program)

RestGiven ==
  /\ Idle => call = NoCall
  /\ handle.allocator \in program.allocators
  /\ outcome \in {"none", "yes", "no", "threw"}

GivenTables == GoodTables /\ TablesGiven /\ RestGiven

LEMMA OneIsGiven ==
  ASSUME TablesGiven, NEW t \in Name, NEW r, r = NoTable \/ Given(r, program),
         table' = [table EXCEPT ![t] = r], program' = program
  PROVE  TablesGiven'
<1>1. DOMAIN table = Name
  BY DEF TablesGiven
<1>2. table' = [u \in Name |-> table'[u]]
  BY <1>1
<1>3. \A u \in Name : table'[u] = IF u = t THEN r ELSE table[u]
  BY <1>1
<1> QED
  BY <1>2, <1>3 DEF TablesGiven, Alive

LEMMA TwoAreGiven ==
  ASSUME TablesGiven, NEW t \in Name, NEW s \in Name, program' = program,
         NEW r, r = NoTable \/ Given(r, program), NEW q, Given(q, program),
         table' = [table EXCEPT ![t] = r, ![s] = q]
  PROVE  TablesGiven'
<1>1. DOMAIN table = Name
  BY DEF TablesGiven
<1>2. table' = [u \in Name |-> table'[u]]
  BY <1>1
<1>3. \A u \in Name : table'[u] = IF u = s THEN q ELSE IF u = t THEN r ELSE table[u]
  BY <1>1
<1> QED
  BY <1>2, <1>3 DEF TablesGiven, Alive

LEMMA OneTableGiven ==
  ASSUME GivenTables, NEW t \in Name,
         \/ \E a \in program.allocators, h \in program.hashers : Construct(t, a, h)
         \/ Destroy(t) \/ Clear(t) \/ Shrink(t) \/ InsertHandle(t)
         \/ \E e \in program.elements : Emplace(t, e) \/ Erase(t, e) \/ Extract(t, e)
         \/ \E z \in program.factors : SetMaxLoadFactor(t, z)
  PROVE  TablesGiven' /\ RestGiven'
<1> DEFINE r == table[t]
<1>1. /\ Alive(t) => Good(r, program) /\ IsTable(r) /\ Given(r, program)
      /\ DOMAIN handle = {"value", "allocator"}
  BY DEF GivenTables, GoodTables, TablesGiven, Good, HandleGood
<1>2. TablesGiven /\ RestGiven
  BY DEF GivenTables
<1>3. ASSUME NEW q, Keeps(r, q), NEW o \in {"yes", "no"}, Changes(t, q, o), Idle, Alive(t)
      PROVE  TablesGiven' /\ RestGiven'
  <2>1. Given(q, program)
    BY <1>1, <1>3, KeptIsGiven
  <2>2. /\ table' = [table EXCEPT ![t] = q] /\ outcome' = o
        /\ program' = program /\ call' = call /\ handle' = handle
    BY <1>3 DEF Changes, Returns
  <2> QED
    BY <1>2, <2>1, <2>2, OneIsGiven DEF RestGiven, Idle
<1>4. ASSUME NEW a \in program.allocators, NEW h \in program.hashers, Construct(t, a, h)
      PROVE  TablesGiven' /\ RestGiven'
  <2>1. Given(Fresh(a, kDefaultMaxLoadFactor, h), program)
    BY DEF Given, Fresh
  <2> QED
    BY <1>2, <1>4, <2>1, OneIsGiven DEF Construct, RestGiven, Idle, Returns
<1>5. CASE Destroy(t)
  BY <1>2, <1>5, OneIsGiven DEF Destroy, RestGiven, Idle, Returns
<1>6. CASE Clear(t)
  BY <1>1, <1>3, <1>6, BlocksStay DEF Clear
<1>7. CASE Shrink(t)
  BY <1>1, <1>3, <1>7, RehashKeeps DEF Shrink
<1>8. CASE InsertHandle(t)
  <2>1. Idle /\ Alive(t) /\ Keeps(r, emplace_impl(r, handle.value))
    BY <1>1, <1>8, EmplaceKeeps DEF InsertHandle
  <2>2. CASE contains(r, handle.value)
    <3>1. /\ UNCHANGED <<program, table, call, handle>>
          /\ outcome' = "no"
      BY <1>8, <2>2 DEF InsertHandle, Returns
    <3> QED
      BY <1>2, <3>1 DEF TablesGiven, RestGiven, Idle, Alive
  <2>3. CASE ~contains(r, handle.value)
    <3>1. /\ table' = [table EXCEPT ![t] = emplace_impl(r, handle.value)]
          /\ handle' = [handle EXCEPT !.value = NoElement]
          /\ UNCHANGED <<program, call>> /\ outcome' = "yes"
      BY <1>8, <2>3 DEF InsertHandle, Returns
    <3>2. Given(emplace_impl(r, handle.value), program)
      BY <1>1, <2>1, KeptIsGiven
    <3>3. handle'.allocator = handle.allocator
      BY <1>1, <3>1
    <3> QED
      BY <1>2, <3>1, <3>2, <3>3, OneIsGiven DEF RestGiven, Idle
  <2> QED
    BY <2>2, <2>3
<1>9. ASSUME NEW e \in program.elements, Emplace(t, e) \/ Erase(t, e)
      PROVE  TablesGiven' /\ RestGiven'
  <2>1. Idle /\ Alive(t)
    BY <1>9 DEF Emplace, Erase, ValuesOf
  <2>2. Keeps(r, emplace_impl(r, e)) /\ Keeps(r, erase_value(r, e))
    BY <1>1, <2>1, EmplaceKeeps, BlocksStay
  <2>3. CASE Emplace(t, e)
    <3>1. \E o \in {"yes", "no"} : Changes(t, emplace_impl(r, e), o)
      BY <2>3 DEF Emplace
    <3> QED
      BY <1>3, <2>1, <2>2, <3>1
  <2>4. CASE Erase(t, e)
    BY <1>3, <2>1, <2>2, <2>4 DEF Erase
  <2> QED
    BY <1>9, <2>3, <2>4
<1>10. ASSUME NEW e \in program.elements, Extract(t, e)
       PROVE  TablesGiven' /\ RestGiven'
  <2>1. Idle /\ Alive(t) /\ Keeps(r, erase_value(r, e))
    BY <1>1, <1>10, BlocksStay DEF Extract, ValuesOf
  <2>2. Given(erase_value(r, e), program)
    BY <1>1, <2>1, KeptIsGiven
  <2>3. /\ table' = [table EXCEPT ![t] = erase_value(r, e)]
        /\ handle'.allocator \in {r.allocator, handle.allocator}
        /\ UNCHANGED <<program, call>> /\ outcome' = "yes"
    BY <1>10 DEF Extract, Returns, AllocatorAfterTaking
  <2>4. handle'.allocator \in program'.allocators
    BY <1>1, <1>2, <2>1, <2>3 DEF RestGiven, Given
  <2> QED
    BY <1>2, <2>2, <2>3, <2>4, OneIsGiven DEF RestGiven, Idle
<1>11. ASSUME NEW z \in program.factors, SetMaxLoadFactor(t, z)
       PROVE  TablesGiven' /\ RestGiven'
  <2>1. Alive(t)
    BY <1>11 DEF SetMaxLoadFactor
  <2>2. Idle /\ \E q : Keeps(r, q) /\ Changes(t, q, "yes")
    BY <1>1, <1>11, <2>1, FactorKeeps
  <2> QED
    BY <1>3, <2>1, <2>2
<1> QED
  BY <1>4, <1>5, <1>6, <1>7, <1>8, <1>9, <1>10, <1>11

LEMMA LoopGiven ==
  ASSUME GivenTables, NEW op \in Copying \union Moving \union {"merge"},
         NEW t \in Name, NEW s \in Name, t # s, Alive(s),
         NEW r, Given(r, program), Begins(op, t, s, r)
  PROVE  TablesGiven' /\ RestGiven'
<1>1. /\ TablesGiven /\ RestGiven /\ program \in Programs /\ DOMAIN table = Name
      /\ IsTable(table[s]) /\ Given(table[s], program)
  BY DEF GivenTables, GoodTables, TablesGiven, Good
<1>2. /\ call'.op = op
      /\ program' = program /\ handle' = handle /\ outcome' = outcome
  BY <1>1, LoopBegun
<1>3. op # "none"
  BY DEF Copying, Moving
<1>4. TablesGiven'
  <2>1. CASE Begin(op, t, s, r)
    BY <1>1, <1>2, <2>1, OneIsGiven DEF Begin
  <2>2. CASE BeginMove(op, t, s, r)
    BY <1>1, <1>2, <2>2, HashMovedGiven, TwoAreGiven DEF BeginMove
  <2> QED
    BY <2>1, <2>2 DEF Begins
<1> QED
  BY <1>1, <1>2, <1>3, <1>4 DEF RestGiven, Idle

LEMMA StealGiven ==
  ASSUME GivenTables, Idle, NEW t \in Name, NEW s \in Name, t # s,
         NEW source, IsTable(source), Given(source, program), NEW r,
         r.allocator \in program.allocators, r.vectors \in program.allocators,
         Steal(t, s, r, source)
  PROVE  TablesGiven' /\ RestGiven'
<1> DEFINE q == HashMoved(reset_to_empty_state(source))
<1>1. TablesGiven /\ RestGiven /\ program \in Programs
  BY DEF GivenTables, GoodTables
<1>2. Given(Stolen(r, source), program)
  BY DEF Given, Stolen, IsTable
<1>3. Given(q, program)
  <2>1. /\ IsTable(reset_to_empty_state(source))
        /\ Given(reset_to_empty_state(source), program)
    BY NoBlocks, KeptIsGiven DEF Keeps
  <2> QED
    BY <1>1, <2>1, HashMovedGiven
<1>4. /\ table' = [table EXCEPT ![t] = Stolen(r, source), ![s] = q]
      /\ program' = program /\ call' = call /\ handle' = handle /\ outcome' = "yes"
  BY DEF Steal, Returns
<1> HIDE DEF q
<1>5. TablesGiven'
  BY <1>1, <1>2, <1>3, <1>4, TwoAreGiven
<1> QED
  BY <1>1, <1>4, <1>5 DEF RestGiven, Idle

LEMMA TwoTablesGiven ==
  ASSUME GivenTables, NEW t \in Name, NEW s \in Name, t # s, TwoOf(t, s)
  PROVE  TablesGiven' /\ RestGiven'
<1>1. /\ Alive(t) => Good(table[t], program) /\ IsTable(table[t]) /\ Given(table[t], program)
      /\ Alive(s) => Good(table[s], program) /\ IsTable(table[s]) /\ Given(table[s], program)
      /\ TablesGiven /\ RestGiven /\ program \in Programs
  BY DEF GivenTables, GoodTables, TablesGiven, Good
<1>2. ASSUME NEW op \in Copying, NEW r, IsTable(r), Given(r, program), Idle,
             Alive(s), copy_contents_from(op, t, s, r)
      PROVE  TablesGiven' /\ RestGiven'
  <2>1. Given(Reserved(r, s), program)
    BY <1>2, RehashKeeps, KeptIsGiven DEF Reserved
  <2>2. CASE Size(table[s]) = 0
    BY <1>1, <1>2, <2>2, OneIsGiven DEF copy_contents_from, Returns, RestGiven, Idle
  <2>3. CASE Size(table[s]) # 0
    BY <1>2, <2>1, <2>3, LoopGiven DEF copy_contents_from, Begins
  <2> QED
    BY <2>2, <2>3
<1>3. ASSUME NEW a \in program.allocators, CopyConstruct(t, s, a) \/ MoveConstructWith(t, s, a)
      PROVE  TablesGiven' /\ RestGiven'
  <2> DEFINE r == Fresh(a, table[s].max_load_factor, table[s].hash_function)
  <2>1. Idle /\ Alive(s)
    BY <1>3 DEF CopyConstruct, MoveConstructWith
  <2>2. Given(r, program) /\ IsTable(r)
    BY <1>1, <2>1 DEF Given, Fresh, IsTable
  <2>3. Given(Reserved(r, s), program)
    BY <2>2, RehashKeeps, KeptIsGiven DEF Reserved
  <2>4. CASE CopyConstruct(t, s, a)
    <3>1. copy_contents_from("copy_construct", t, s, r)
      BY <2>4 DEF CopyConstruct
    <3> QED
      BY <1>2, <2>1, <2>2, <3>1 DEF Copying
  <2>5. CASE MoveConstructWith(t, s, a)
    <3>1. \/ Steal(t, s, r, HashMoved(table[s]))
          \/ Begins("move_construct", t, s, Reserved(r, s))
      BY <2>5 DEF MoveConstructWith, Begins
    <3>2. IsTable(HashMoved(table[s])) /\ Given(HashMoved(table[s]), program)
      BY <1>1, <2>1, HashMovedGiven
    <3>3. r.allocator = a /\ r.vectors = a
      BY DEF Fresh
    <3> HIDE DEF r
    <3> QED
      BY <2>1, <2>3, <3>1, <3>2, <3>3, StealGiven, LoopGiven DEF Moving
  <2> QED
    BY <1>3, <2>4, <2>5
<1>4. CASE MoveConstruct(t, s)
  <2> DEFINE q == HashMoved(reset_to_empty_state(table[s]))
  <2>1. /\ table' = [table EXCEPT ![t] = table[s], ![s] = q]
        /\ Idle /\ Alive(s) /\ UNCHANGED <<program, call, handle>> /\ outcome' = "yes"
    BY <1>4 DEF MoveConstruct, Returns
  <2>2. Given(q, program)
    <3>1. /\ IsTable(reset_to_empty_state(table[s]))
          /\ Given(reset_to_empty_state(table[s]), program)
      BY <1>1, <2>1, NoBlocks, KeptIsGiven DEF Keeps
    <3> QED
      BY <1>1, <3>1, HashMovedGiven
  <2> HIDE DEF q
  <2> QED
    BY <1>1, <2>1, <2>2, TwoAreGiven DEF RestGiven, Idle
<1>5. CASE CopyAssign(t, s)
  <2>1. /\ Idle /\ Alive(t) /\ Alive(s)
        /\ copy_contents_from("copy", t, s, EmptiedForCopy(t, s))
    BY <1>5 DEF CopyAssign
  <2>2. IsTable(EmptiedForCopy(t, s)) /\ Given(EmptiedForCopy(t, s), program)
    BY <1>1, <2>1, EmptiedGiven
  <2> QED
    BY <1>2, <2>1, <2>2 DEF Copying
<1>6. CASE MoveAssign(t, s)
  <2>1. Idle /\ Alive(t) /\ Alive(s)
    BY <1>6 DEF MoveAssign
  <2>2. CASE MovesStorage(t, s)
    <3> DEFINE r == [table[t] EXCEPT !.allocator = IF program.pocma
                                                   THEN table[s].allocator ELSE @]
    <3>1. Steal(t, s, r, table[s])
      BY <1>6, <2>2 DEF MoveAssign
    <3>2. r.allocator \in program.allocators /\ r.vectors \in program.allocators
      BY <1>1, <2>1 DEF Given, IsTable
    <3> HIDE DEF r
    <3> QED
      BY <1>1, <2>1, <3>1, <3>2, StealGiven
  <2>3. CASE ~MovesStorage(t, s)
    <3> DEFINE r == EmptiedForMove(t, s)
    <3>1. Begins("move", t, s, Reserved(r, s))
      BY <1>6, <2>3 DEF MoveAssign, Begins
    <3>2. IsTable(r) /\ Given(r, program)
      BY <1>1, <2>1, EmptiedGiven
    <3> HIDE DEF r
    <3>3. Given(Reserved(r, s), program)
      BY <3>2, RehashKeeps, KeptIsGiven DEF Reserved
    <3> QED
      BY <1>1, <2>1, <3>1, <3>3, LoopGiven DEF Moving
  <2> QED
    BY <2>2, <2>3
<1>7. CASE Merge(t, s)
  BY <1>1, <1>7, LoopGiven DEF Merge, Begins
<1>8. CASE Swap(t, s)
  <2>1. /\ table' = [table EXCEPT ![t] = table[s], ![s] = table[t]]
        /\ Idle /\ Alive(t) /\ Alive(s)
        /\ UNCHANGED <<program, call, handle>> /\ outcome' = "yes"
    BY <1>8 DEF Swap, Returns
  <2> QED
    BY <1>1, <2>1, TwoAreGiven DEF RestGiven, Idle
<1>9. ASSUME NEW op \in {"copy", "move"}, ReserveThrows(op, t, s)
      PROVE  TablesGiven' /\ RestGiven'
  <2> DEFINE r == IF op = "copy" THEN EmptiedForCopy(t, s) ELSE EmptiedForMove(t, s)
             q == IF op = "move" THEN HashMoved(table[s]) ELSE table[s]
  <2>1. /\ Idle /\ Alive(t) /\ Alive(s)
        /\ table' = [table EXCEPT ![t] = r, ![s] = q]
        /\ UNCHANGED <<program, call, handle>> /\ outcome' = "threw"
    BY <1>9 DEF ReserveThrows, Returns
  <2>2. Given(r, program) /\ Given(q, program)
    BY <1>1, <2>1, EmptiedGiven, HashMovedGiven
  <2> HIDE DEF r, q
  <2> QED
    BY <1>1, <2>1, <2>2, TwoAreGiven DEF RestGiven, Idle
<1> QED
  BY <1>3, <1>4, <1>5, <1>6, <1>7, <1>8, <1>9 DEF TwoOf

(* An element goes to the target, and nothing of the source but the        *)
(* element is touched.                                                     *)
LEMMA TurnGiven ==
  ASSUME NoTableIsNone, GivenTables, Turn
  PROVE  TablesGiven' /\ RestGiven'
<1>1. ~Idle
  BY DEF Turn, CopyNext, MoveNext, MergeNext, MergeSkip, StepThrows, EndCall,
         Working, Idle, Copying, Moving
<1>2. /\ TablesGiven /\ RestGiven
      /\ call.to \in Name /\ call.from \in Name /\ call.to # call.from
      /\ DOMAIN call = {"op", "to", "from", "todo", "before"}
      /\ call.op # "none"
  BY <1>1 DEF GivenTables, GoodTables, LoopGood, Idle
<1>3. /\ Good(to, program) /\ IsTable(to) /\ Given(to, program)
      /\ Good(from, program) /\ IsTable(from) /\ Given(from, program)
  <2>1. /\ Good(to, program) /\ IsTable(to)
        /\ Good(from, program) /\ IsTable(from)
    BY <1>1 DEF GivenTables, GoodTables, LoopGood, Good
  <2>2. Alive(call.to) /\ Alive(call.from)
    BY <2>1 DEF NoTableIsNone, Alive, to, from
  <2> QED
    BY <1>2, <2>1, <2>2 DEF TablesGiven, to, from
<1>4. /\ Given(emplace_impl(to, value), program)
      /\ \A site \in StepSites :
           Given(EmplaceThrows(to, value, site), program)
      /\ Given(move_out(from, node), program)
      /\ Given([from EXCEPT !.arena = Arena!erase_located(from.arena, node)], program)
      /\ Given(clear(from), program)
  BY <1>3, EmplaceKeeps, BlocksStay, KeptIsGiven
<1>5. ASSUME NEW r, NEW q, Given(r, program), Given(q, program), Proceed(r, q)
      PROVE  TablesGiven' /\ RestGiven'
  <2>1. /\ table' = [table EXCEPT ![call.to] = r, ![call.from] = q]
        /\ call' = [call EXCEPT !.todo = Tail(@)]
        /\ UNCHANGED <<program, handle, outcome>>
    BY <1>5 DEF Proceed
  <2>2. call'.op = call.op
    BY <1>2, <2>1
  <2> QED
    BY <1>2, <1>5, <2>1, <2>2, TwoAreGiven DEF RestGiven, Idle
<1>6. CASE CopyNext \/ MoveNext \/ MergeNext \/ MergeSkip
  BY <1>3, <1>4, <1>5, <1>6 DEF CopyNext, MoveNext, MergeNext, MergeSkip
<1>7. ASSUME NEW site \in StepSites, StepThrows(site)
      PROVE  TablesGiven' /\ RestGiven'
  <2> DEFINE r == IF call.op \in Constructing THEN NoTable
                  ELSE EmplaceThrows(to, value, site)
  <2>1. PICK gone : table' = [table EXCEPT ![call.to] = r,
                                ![call.from] = IF gone THEN move_out(from, node) ELSE @]
    BY <1>7 DEF StepThrows
  <2> DEFINE q == IF gone THEN move_out(from, node) ELSE from
  <2>2. table' = [table EXCEPT ![call.to] = r, ![call.from] = q]
    <3> HIDE DEF r
    <3> QED
      BY <1>2, <2>1 DEF from
  <2>3. (r = NoTable \/ Given(r, program)) /\ Given(q, program)
    BY <1>3, <1>4
  <2>4. call' = NoCall /\ UNCHANGED <<program, handle>> /\ outcome' = "threw"
    BY <1>7 DEF StepThrows, Returns
  <2> HIDE DEF r, q
  <2> QED
    BY <1>2, <2>2, <2>3, <2>4, TwoAreGiven DEF RestGiven
<1>8. CASE EndCall
  <2>1. /\ call' = NoCall /\ UNCHANGED <<program, handle>> /\ outcome' = "yes"
        /\ table' = table \/ table' = [table EXCEPT ![call.from] = clear(from)]
    BY <1>8 DEF EndCall, Returns, from
  <2>2. RestGiven'
    BY <1>2, <2>1 DEF RestGiven
  <2>3. CASE table' = table
    BY <1>2, <2>1, <2>2, <2>3 DEF TablesGiven, Alive
  <2>4. CASE table' = [table EXCEPT ![call.from] = clear(from)]
    BY <1>2, <1>4, <2>1, <2>2, <2>4, OneIsGiven
  <2> QED
    BY <2>1, <2>3, <2>4
<1> QED
  BY <1>6, <1>7, <1>8 DEF Turn

LEMMA GivenStep ==
  ASSUME NoTableIsNone, ThrowsAreRestored
  PROVE  GivenTables /\ [Next]_vars => GivenTables'
<1> SUFFICES ASSUME GivenTables, [Next]_vars
             PROVE  TablesGiven' /\ RestGiven'
  BY GoodStep DEF GivenTables
<1>1. TablesGiven /\ RestGiven /\ DOMAIN handle = {"value", "allocator"}
  BY DEF GivenTables, GoodTables, HandleGood
<1>2. ASSUME NEW t \in Name, NEW s \in Name, t # s, TwoOf(t, s)
      PROVE  TablesGiven' /\ RestGiven'
  BY <1>2, TwoTablesGiven
<1>3. CASE DropHandle
  <2>1. /\ UNCHANGED <<program, table, call>> /\ outcome' = "yes"
        /\ handle' = [handle EXCEPT !.value = NoElement]
    BY <1>3 DEF DropHandle, Released, Returns
  <2>2. handle'.allocator = handle.allocator
    BY <1>1, <2>1
  <2> QED
    BY <1>1, <2>1, <2>2 DEF TablesGiven, RestGiven, Alive, Idle
<1>4. CASE UNCHANGED vars
  BY <1>1, <1>4 DEF vars, TablesGiven, RestGiven, Alive, Idle
<1>5. CASE Turn
  BY <1>5, TurnGiven
<1>6. ASSUME NEW t \in Name,
             \/ \E a \in program.allocators, h \in program.hashers : Construct(t, a, h)
             \/ Destroy(t) \/ Clear(t) \/ Shrink(t) \/ InsertHandle(t)
             \/ \E e \in program.elements : Emplace(t, e) \/ Erase(t, e) \/ Extract(t, e)
             \/ \E z \in program.factors : SetMaxLoadFactor(t, z)
      PROVE  TablesGiven' /\ RestGiven'
  BY <1>6, OneTableGiven
<1> QED
  BY <1>2, <1>3, <1>4, <1>5, <1>6 DEF Next

LEMMA GivenInvariant ==
  ASSUME NoTableIsNone, ThrowsAreRestored
  PROVE  Spec => []GivenTables
<1>1. Init => GivenTables
  <2> SUFFICES ASSUME Init PROVE GivenTables
    OBVIOUS
  <2>1. GoodTables
    BY DEF Init, GoodTables, HandleGood, Alive, Idle, NoCall
  <2>2. TablesGiven
    BY DEF Init, TablesGiven, Alive
  <2>3. RestGiven
    BY DEF Init, RestGiven
  <2> QED
    BY <2>1, <2>2, <2>3 DEF GivenTables
<1> QED
  BY <1>1, GivenStep, PTL DEF Spec

-----------------------------------------------------------------------------
(* Every block is owned. *)

(* A constructor that throws leaks what it has allocated. *)
ConstructorsDoNotThrow ==
  \A op \in Constructing, site \in StepSites :
    <<op, site>> \notin Throws

(* A handle that moves to another container's allocator takes it over:     *)
(* otherwise its node would go back through the wrong one.                 *)
HandlesAgree ==
  \A p \in Programs :
    p.handles = "assigned" => p.pocma \/ \A a, b \in p.allocators : a = b

HandlePart(h, a) == IF h.allocator = a /\ h.value # NoElement THEN 1 ELSE 0

Owned ==
  /\ outstanding = [a \in Allocator |-> outstanding[a]]
  /\ \A a \in Allocator :
       outstanding[a] = Total(table, a) + HandlePart(handle, a)

LEMMA TablesAreCounted ==
  ASSUME GoodTables
  PROVE  Counted(table)
BY BlocksType DEF Counted, GoodTables, Alive

(* One container changes, or two. *)
LEMMA OneOwns ==
  ASSUME IsFiniteSet(Name), GoodTables, GoodTables', Owned, NEW t \in Name,
         \A u \in Name \ {t} : table'[u] = table[u],
         outstanding' = [a \in Allocator |-> outstanding'[a]],
         \A a \in Allocator :
           outstanding'[a] = outstanding[a] - Part(table, t, a) + Part(table', t, a)
                               - HandlePart(handle, a) + HandlePart(handle', a)
  PROVE  Owned'
<1>1. Counted(table) /\ Counted(table')
  <2>1. Counted(table)
    BY TablesAreCounted
  <2>2. Counted(table')
    BY BlocksType DEF Counted, GoodTables, Alive
  <2> QED
    BY <2>1, <2>2
<1> SUFFICES ASSUME NEW a \in Allocator
             PROVE  outstanding'[a] = Total(table', a) + HandlePart(handle', a)
  BY DEF Owned
<1>2. Total(table', a) = Total(table, a) - Part(table, t, a) + Part(table', t, a)
  BY <1>1, TotalChanges
<1>3. /\ Total(table, a) \in Nat /\ Part(table, t, a) \in Nat /\ Part(table', t, a) \in Nat
      /\ HandlePart(handle, a) \in Nat /\ HandlePart(handle', a) \in Nat
  BY <1>1, TotalType, PartType DEF HandlePart
<1>4. outstanding[a] = Total(table, a) + HandlePart(handle, a)
  BY DEF Owned
<1> QED
  BY <1>2, <1>3, <1>4

LEMMA TableOwns ==
  ASSUME IsFiniteSet(Name), GoodTables, GoodTables', Owned, NEW t \in Name,
         \A u \in Name \ {t} : table'[u] = table[u],
         handle' = handle,
         outstanding' = [a \in Allocator |-> outstanding'[a]],
         \A a \in Allocator :
           outstanding'[a] = outstanding[a] - Part(table, t, a) + Part(table', t, a)
  PROVE  Owned'
<1>1. Counted(table) /\ Counted(table')
  <2>1. Counted(table)
    BY TablesAreCounted
  <2>2. Counted(table')
    BY BlocksType DEF Counted, GoodTables, Alive
  <2> QED
    BY <2>1, <2>2
<1> SUFFICES ASSUME NEW a \in Allocator
             PROVE  outstanding'[a] = outstanding[a] - Part(table, t, a) + Part(table', t, a)
                                        - HandlePart(handle, a) + HandlePart(handle', a)
  BY OneOwns
<1>2. /\ Total(table, a) \in Nat /\ Part(table, t, a) \in Nat /\ Part(table', t, a) \in Nat
      /\ HandlePart(handle, a) \in Nat
  BY <1>1, TotalType, PartType DEF HandlePart
<1>3. outstanding[a] = Total(table, a) + HandlePart(handle, a)
  BY DEF Owned
<1>4. HandlePart(handle', a) = HandlePart(handle, a)
  OBVIOUS
<1> QED
  BY <1>2, <1>3, <1>4

LEMMA TwoOwn ==
  ASSUME IsFiniteSet(Name), GoodTables, GoodTables', Owned,
         NEW t \in Name, NEW s \in Name, t # s,
         \A u \in Name \ {t, s} : table'[u] = table[u],
         handle' = handle,
         outstanding' = [a \in Allocator |-> outstanding'[a]],
         \A a \in Allocator :
           outstanding'[a] = outstanding[a] - Part(table, t, a) + Part(table', t, a)
                                            - Part(table, s, a) + Part(table', s, a)
  PROVE  Owned'
<1>1. Counted(table) /\ Counted(table')
  <2>1. Counted(table)
    BY TablesAreCounted
  <2>2. Counted(table')
    BY BlocksType DEF Counted, GoodTables, Alive
  <2> QED
    BY <2>1, <2>2
<1> SUFFICES ASSUME NEW a \in Allocator
             PROVE  outstanding'[a] = Total(table', a) + HandlePart(handle', a)
  BY DEF Owned
<1>2. Total(table', a) = Total(table, a) - Part(table, t, a) + Part(table', t, a)
                                         - Part(table, s, a) + Part(table', s, a)
  BY <1>1, TwoTotalsChange
<1>3. /\ Total(table, a) \in Nat /\ Part(table, t, a) \in Nat /\ Part(table', t, a) \in Nat
      /\ Part(table, s, a) \in Nat /\ Part(table', s, a) \in Nat
      /\ HandlePart(handle, a) \in Nat
  BY <1>1, TotalType, PartType DEF HandlePart
<1>4. outstanding[a] = Total(table, a) + HandlePart(handle, a)
  BY DEF Owned
<1> QED
  BY <1>2, <1>3, <1>4

(* The program's allocators are allocators. *)
LEMMA AllocatorsGiven ==
  ASSUME GivenTables
  PROVE  /\ \A a \in program.allocators : a \in Allocator
         /\ handle.allocator \in Allocator
         /\ \A t \in Name : Alive(t) => table[t].allocator \in Allocator
<1>1. program \in ProgramType
  BY TwoTablesAssumption DEF GivenTables, GoodTables
<1>2. \A a \in program.allocators : a \in Allocator
  BY <1>1 DEF ProgramType
<1> QED
  BY <1>2 DEF GivenTables, TablesGiven, RestGiven, Given

(* A table r becomes q where it is, through its allocator. *)
LEMMA ReallocatedPart ==
  ASSUME Owned, NEW t \in Name, NEW r, NEW q, Reallocated(r, q),
         q.allocator \in Allocator, Blocks(r) \in Nat, Blocks(q) \in Nat,
         q # NoTable, table'[t] = q,
         \A a \in Allocator : Part(table, t, a) = IF a = q.allocator THEN Blocks(r) ELSE 0,
         \A a \in Allocator : outstanding[a] \in Int
  PROVE  /\ outstanding' = [a \in Allocator |-> outstanding'[a]]
         /\ \A a \in Allocator :
              /\ outstanding'[a] = outstanding[a] - Part(table, t, a) + Part(table', t, a)
<1>1. outstanding' = [outstanding EXCEPT ![q.allocator] = @ + Blocks(q) - Blocks(r)]
  BY DEF Reallocated
<1>2. DOMAIN outstanding = Allocator
  BY DEF Owned
<1>3. outstanding' = [a \in Allocator |-> outstanding'[a]]
  BY <1>1, <1>2
<1> SUFFICES ASSUME NEW a \in Allocator
             PROVE  outstanding'[a] = outstanding[a] - Part(table, t, a) + Part(table', t, a)
  BY <1>3
<1>4. Part(table', t, a) = IF a = q.allocator THEN Blocks(q) ELSE 0
  BY DEF Part
<1>5. Part(table, t, a) = IF a = q.allocator THEN Blocks(r) ELSE 0
  OBVIOUS
<1>6. outstanding'[a] = IF a = q.allocator THEN outstanding[a] + Blocks(q) - Blocks(r)
                                           ELSE outstanding[a]
  BY <1>1, <1>2
<1> QED
  BY <1>4, <1>5, <1>6

LEMMA OutstandingType ==
  ASSUME IsFiniteSet(Name), GoodTables, Owned
  PROVE  \A a \in Allocator : outstanding[a] \in Nat
<1> SUFFICES ASSUME NEW a \in Allocator PROVE outstanding[a] \in Nat
  OBVIOUS
<1>1. outstanding[a] = Total(table, a) + HandlePart(handle, a)
  BY DEF Owned
<1>2. Total(table, a) \in Nat /\ HandlePart(handle, a) \in Nat
  BY TablesAreCounted, TotalType DEF HandlePart
<1> QED
  BY <1>1, <1>2

LEMMA TableIsThere ==
  ASSUME NoTableIsNone, GivenTables, NEW t \in Name, Alive(t)
  PROVE  /\ Good(table[t], program) /\ IsTable(table[t]) /\ Blocks(table[t]) \in Nat
         /\ table[t].allocator \in Allocator
         /\ \A a \in Allocator :
              Part(table, t, a) = IF a = table[t].allocator THEN Blocks(table[t]) ELSE 0
<1>1. Good(table[t], program)
  BY DEF GivenTables, GoodTables
<1>2. IsTable(table[t]) /\ Blocks(table[t]) \in Nat
  BY <1>1, BlocksType DEF Good
<1>3. table[t].allocator \in Allocator
  BY AllocatorsGiven
<1> QED
  BY <1>1, <1>2, <1>3 DEF Part, Alive

(* Table t becomes q where it had the blocks of r. *)
LEMMA ReallocatedOwns ==
  ASSUME IsFiniteSet(Name), NoTableIsNone, GoodTables, GoodTables', Owned,
         NEW t \in Name, NEW r, NEW q, table'[t] = q,
         \A u \in Name \ {t} : table'[u] = table[u],
         handle' = handle, Reallocated(r, q), IsTable(q), Blocks(r) \in Nat,
         q.allocator \in Allocator,
         \A a \in Allocator : Part(table, t, a) = IF a = q.allocator THEN Blocks(r) ELSE 0
  PROVE  Owned'
<1>1. q # NoTable
  BY DEF NoTableIsNone
<1>2. Blocks(q) \in Nat
  <2>1. Good(q, program')
    BY <1>1 DEF GoodTables, Alive
  <2> QED
    BY <2>1, BlocksType
<1>3. \A a \in Allocator : outstanding[a] \in Int
  BY OutstandingType
<1>4. /\ outstanding' = [a \in Allocator |-> outstanding'[a]]
      /\ \A a \in Allocator :
           outstanding'[a] = outstanding[a] - Part(table, t, a) + Part(table', t, a)
  BY <1>1, <1>2, <1>3, ReallocatedPart
<1> QED
  BY <1>4, TableOwns

(* The same where a move begins: the source only loses its hash function.  *)
LEMMA MoveBeginOwns ==
  ASSUME IsFiniteSet(Name), NoTableIsNone, GivenTables, GoodTables', Owned,
         NEW t \in Name, NEW s \in Name, t # s, Alive(s), NEW op, NEW r, NEW q,
         BeginMove(op, t, s, q), Reallocated(r, q), IsTable(q), Blocks(r) \in Nat,
         q.allocator \in Allocator,
         \A a \in Allocator : Part(table, t, a) = IF a = q.allocator THEN Blocks(r) ELSE 0
  PROVE  Owned'
<1> DEFINE e == HashMoved(table[s])
<1>1. /\ GoodTables /\ program \in Programs
      /\ table'[t] = q /\ table'[s] = e /\ handle' = handle
      /\ \A u \in Name \ {t, s} : table'[u] = table[u]
  BY DEF GivenTables, GoodTables, BeginMove, LoopOver
<1>2. q # NoTable /\ Blocks(q) \in Nat
  <2>1. q # NoTable
    BY DEF NoTableIsNone
  <2>2. Good(q, program')
    BY <1>1, <2>1 DEF GoodTables, Alive
  <2> QED
    BY <2>1, <2>2, BlocksType
<1>3. /\ IsTable(table[s]) /\ Given(table[s], program)
      /\ \A a \in Allocator :
           /\ outstanding[a] \in Nat
           /\ Part(table, s, a) \in Nat /\ Part(table, t, a) \in Nat
  BY <1>1, TableIsThere, OutstandingType, TablesAreCounted, PartType
     DEF GivenTables, TablesGiven
<1>4. e # NoTable /\ e.allocator = table[s].allocator /\ Blocks(e) = Blocks(table[s])
  BY <1>1, <1>3, HashMovedGiven DEF NoTableIsNone
<1> HIDE DEF e
<1>5. \A a \in Allocator : Part(table', s, a) = Part(table, s, a)
  BY <1>1, <1>4 DEF Part, Alive
<1>6. /\ outstanding' = [a \in Allocator |-> outstanding'[a]]
      /\ \A a \in Allocator :
           outstanding'[a] = outstanding[a] - Part(table, t, a) + Part(table', t, a)
  BY <1>1, <1>2, <1>3, ReallocatedPart
<1>7. \A a \in Allocator : Part(table', t, a) \in Nat
  BY <1>1, <1>2 DEF Part
<1>8. ASSUME NEW a \in Allocator
      PROVE  outstanding'[a] = outstanding[a] - Part(table, t, a) + Part(table', t, a)
                                              - Part(table, s, a) + Part(table', s, a)
  BY <1>3, <1>5, <1>6, <1>7
<1> QED
  BY <1>1, <1>6, <1>8, TwoOwn

LEMMA ChangesOwn ==
  ASSUME IsFiniteSet(Name), NoTableIsNone, GivenTables, GoodTables', Owned,
         NEW t \in Name, Alive(t), NEW q, Keeps(table[t], q), NEW o, Changes(t, q, o)
  PROVE  Owned'
<1> DEFINE r == table[t]
<1>1. /\ table'[t] = q /\ \A u \in Name \ {t} : table'[u] = table[u]
      /\ handle' = handle /\ Reallocated(r, q) /\ GoodTables
  BY DEF Changes, GivenTables, GoodTables
<1>2. IsTable(q) /\ q.allocator = r.allocator
  BY DEF Keeps
<1>3. /\ Blocks(r) \in Nat /\ q.allocator \in Allocator
      /\ \A a \in Allocator : Part(table, t, a) = IF a = q.allocator THEN Blocks(r) ELSE 0
  BY <1>2, TableIsThere
<1> HIDE DEF r
<1> QED
  BY <1>1, <1>2, <1>3, ReallocatedOwns

LEMMA OneTableOwns ==
  ASSUME IsFiniteSet(Name), NoTableIsNone, HandlesAgree, GivenTables, GoodTables', Owned,
         NEW t \in Name,
         \/ \E a \in program.allocators, h \in program.hashers : Construct(t, a, h)
         \/ Destroy(t) \/ Clear(t) \/ Shrink(t) \/ InsertHandle(t)
         \/ \E e \in program.elements : Emplace(t, e) \/ Erase(t, e) \/ Extract(t, e)
         \/ \E z \in program.factors : SetMaxLoadFactor(t, z)
  PROVE  Owned'
<1> DEFINE r == table[t]
<1>1. /\ GoodTables /\ DOMAIN table = Name /\ DOMAIN outstanding = Allocator
      /\ Alive(t) => Good(r, program) /\ IsTable(r)
      /\ DOMAIN handle = {"value", "allocator"}
      /\ handle.value \in Element \union {NoElement}
  BY DEF GivenTables, GoodTables, Good, HandleGood, Owned
<1>2. \A a \in Allocator : outstanding[a] \in Nat
  BY <1>1, OutstandingType
<1>3. Alive(t) => Blocks(r) \in Nat /\ r.allocator \in Allocator
  BY <1>1, BlocksType, AllocatorsGiven
<1>4. \A q : Alive(t) /\ table'[t] = q /\ IsTable(q) => Blocks(q) \in Nat
  <2> SUFFICES ASSUME NEW q, table'[t] = q, IsTable(q)
               PROVE  Blocks(q) \in Nat
    OBVIOUS
  <2>1. Good(q, program')
    BY DEF NoTableIsNone, GoodTables, Alive
  <2> QED
    BY <2>1, BlocksType
<1>5. ASSUME NEW q, Keeps(r, q), NEW o, Changes(t, q, o), Alive(t)
      PROVE  Owned'
  BY <1>5, ChangesOwn
<1>6. ASSUME NEW a \in program.allocators, NEW h, Construct(t, a, h)
      PROVE  Owned'
  <2>1. /\ table' = [table EXCEPT ![t] = Fresh(a, kDefaultMaxLoadFactor, h)]
        /\ ~Alive(t) /\ handle' = handle /\ outstanding' = outstanding
    BY <1>6 DEF Construct
  <2>2. \A b \in Allocator : Part(table, t, b) = 0 /\ Part(table', t, b) = 0
    BY <1>1, <2>1, NoBlocks DEF Part, Alive
  <2>3. ASSUME NEW b \in Allocator
        PROVE  outstanding'[b] = outstanding[b] - Part(table, t, b) + Part(table', t, b)
    <3>1. outstanding[b] \in Nat /\ outstanding'[b] = outstanding[b]
      BY <1>2, <2>1
    <3> QED
      BY <2>2, <3>1
  <2>4. \A u \in Name \ {t} : table'[u] = table[u]
    BY <1>1, <2>1
  <2>5. outstanding' = [b \in Allocator |-> outstanding'[b]]
    BY <2>1 DEF Owned
  <2> QED
    BY <1>1, <2>1, <2>3, <2>4, <2>5, TableOwns
<1>7. CASE Destroy(t)
  <2>1. /\ table' = [table EXCEPT ![t] = NoTable]
        /\ Alive(t) /\ handle' = handle
        /\ outstanding' = [outstanding EXCEPT ![r.allocator] = @ - Blocks(r)]
    BY <1>7 DEF Destroy, Destroyed
  <2>2. \A b \in Allocator : /\ Part(table, t, b) = IF b = r.allocator THEN Blocks(r) ELSE 0
                             /\ Part(table', t, b) = 0
    BY <1>1, <2>1 DEF Part, Alive
  <2>3. \A b \in Allocator :
          outstanding'[b] = IF b = r.allocator THEN outstanding[b] - Blocks(r)
                                               ELSE outstanding[b]
    BY <1>1, <2>1
  <2>4. ASSUME NEW b \in Allocator
        PROVE  outstanding'[b] = outstanding[b] - Part(table, t, b) + Part(table', t, b)
    <3>1. outstanding[b] \in Nat /\ Blocks(r) \in Nat
      BY <1>2, <1>3, <2>1
    <3> QED
      BY <2>2, <2>3, <3>1
  <2>5. \A u \in Name \ {t} : table'[u] = table[u]
    BY <1>1, <2>1
  <2>6. outstanding' = [b \in Allocator |-> outstanding'[b]]
    BY <1>1, <2>1
  <2> QED
    BY <1>1, <2>1, <2>4, <2>5, <2>6, TableOwns
<1>8. CASE Clear(t)
  BY <1>1, <1>5, <1>8, BlocksStay DEF Clear
<1>9. CASE Shrink(t)
  BY <1>1, <1>5, <1>9, RehashKeeps DEF Shrink
<1>10. ASSUME NEW e \in program.elements, Emplace(t, e) \/ Erase(t, e)
       PROVE  Owned'
  <2>1. Alive(t)
    BY <1>10 DEF Emplace, Erase, ValuesOf
  <2>2. Keeps(r, emplace_impl(r, e)) /\ Keeps(r, erase_value(r, e))
    BY <1>1, <2>1, EmplaceKeeps, BlocksStay
  <2>3. CASE Emplace(t, e)
    BY <1>5, <2>1, <2>2, <2>3 DEF Emplace
  <2>4. CASE Erase(t, e)
    BY <1>5, <2>1, <2>2, <2>4 DEF Erase
  <2> QED
    BY <1>10, <2>3, <2>4
<1>11. ASSUME NEW z, SetMaxLoadFactor(t, z)
       PROVE  Owned'
  <2>1. Alive(t)
    BY <1>11 DEF SetMaxLoadFactor
  <2>2. \E q : Keeps(r, q) /\ Changes(t, q, "yes")
    BY <1>1, <1>11, <2>1, FactorKeeps
  <2> QED
    BY <1>5, <2>1, <2>2
<1>12. CASE InsertHandle(t)
  <2> DEFINE q == emplace_impl(r, handle.value)
  <2>1. Alive(t) /\ Keeps(r, q) /\ handle.value # NoElement
    BY <1>1, <1>12, EmplaceKeeps DEF InsertHandle
  <2>2. CASE contains(r, handle.value)
    <3>1. UNCHANGED <<table, handle, outstanding>>
      BY <1>12, <2>2 DEF InsertHandle
    <3> QED
      BY <3>1 DEF Owned
  <2>3. CASE ~contains(r, handle.value)
    <3>1. /\ table' = [table EXCEPT ![t] = q]
          /\ handle' = [handle EXCEPT !.value = NoElement]
          /\ outstanding' = [b \in Allocator |->
                               outstanding[b]
                                 - (IF b = handle.allocator THEN HandleBlocks ELSE 0)
                                 + (IF b = r.allocator THEN Blocks(q) - Blocks(r) ELSE 0)]
      BY <1>12, <2>3 DEF InsertHandle
    <3>2. /\ table'[t] = q /\ IsTable(q) /\ q # NoTable /\ q.allocator = r.allocator
          /\ HandleBlocks = 1 /\ handle'.value = NoElement
      BY <1>1, <2>1, <3>1 DEF Keeps, NoTableIsNone, HandleBlocks
    <3>3. Blocks(q) \in Nat /\ Blocks(r) \in Nat
      BY <1>3, <1>4, <2>1, <3>2
    <3> HIDE DEF q
    <3>4. \A b \in Allocator : /\ Part(table, t, b) = IF b = r.allocator THEN Blocks(r) ELSE 0
                               /\ Part(table', t, b) = IF b = r.allocator THEN Blocks(q) ELSE 0
                               /\ HandlePart(handle', b) = 0
                               /\ HandlePart(handle, b) = IF b = handle.allocator THEN 1 ELSE 0
      BY <2>1, <3>2 DEF Part, Alive, HandlePart
    <3>5. \A b \in Allocator :
            outstanding'[b] = outstanding[b]
                                - (IF b = handle.allocator THEN 1 ELSE 0)
                                + (IF b = r.allocator THEN Blocks(q) - Blocks(r) ELSE 0)
      BY <3>1, <3>2
    <3>6. \A b \in Allocator :
            outstanding'[b] = outstanding[b] - Part(table, t, b) + Part(table', t, b)
                                - HandlePart(handle, b) + HandlePart(handle', b)
      BY <1>2, <3>3, <3>4, <3>5
    <3>7. \A u \in Name \ {t} : table'[u] = table[u]
      BY <1>1, <3>1
    <3>8. outstanding' = [b \in Allocator |-> outstanding'[b]]
      BY <3>1
    <3> QED
      BY <1>1, <3>6, <3>7, <3>8, OneOwns
  <2> QED
    BY <2>2, <2>3
<1>13. ASSUME NEW e \in program.elements, Extract(t, e)
       PROVE  Owned'
  <2> DEFINE q == erase_value(r, e)
             after == AllocatorAfterTaking(r.allocator)
  <2>1. /\ Alive(t) /\ e \in ValuesOf(t) /\ MayTake(r.allocator)
        /\ table' = [table EXCEPT ![t] = q]
        /\ outstanding' = [b \in Allocator |->
                             outstanding[b]
                               - (IF b = handle.allocator THEN HandleBlocks ELSE 0)
                               + (IF b = r.allocator THEN 1 ELSE 0)]
        /\ handle' = [value |-> e, allocator |-> after]
    BY <1>13 DEF Extract, ValuesOf
  <2>2. Keeps(r, q) /\ Blocks(q) = Blocks(r)
    BY <1>1, <2>1, BlocksStay
  <2>3. e # NoElement
    <3>1. e \in Element
      BY <1>1, ProgramGood
    <3> QED
      BY <3>1, TwoTablesAssumption
  <2>4. program \in Programs /\ r.allocator \in program.allocators
        /\ handle.allocator \in program.allocators
    BY <2>1 DEF GivenTables, GoodTables, TablesGiven, RestGiven, Given
  <2>5. after = r.allocator
    BY <2>1, <2>4, <2>2 DEF AllocatorAfterTaking, MayTake, HandlesAgree
  <2>6. table'[t] = q /\ q # NoTable /\ q.allocator = r.allocator
    BY <1>1, <2>1, <2>2 DEF Keeps, NoTableIsNone
  <2> HIDE DEF q, after
  <2>7. \A b \in Allocator : /\ Part(table', t, b) = Part(table, t, b)
                             /\ Part(table, t, b) \in Nat
    BY <1>3, <2>1, <2>2, <2>6 DEF Part, Alive
  <2>8. \A b \in Allocator :
          /\ HandlePart(handle', b) = IF b = r.allocator THEN 1 ELSE 0
          /\ HandlePart(handle, b) = IF b = handle.allocator THEN HandleBlocks ELSE 0
          /\ HandleBlocks \in Nat
    BY <2>1, <2>3, <2>5 DEF HandlePart, HandleBlocks
  <2>9. \A b \in Allocator :
          outstanding'[b] = outstanding[b]
                              - (IF b = handle.allocator THEN HandleBlocks ELSE 0)
                              + (IF b = r.allocator THEN 1 ELSE 0)
    BY <2>1
  <2>10. \A b \in Allocator :
           outstanding'[b] = outstanding[b] - Part(table, t, b) + Part(table', t, b)
                               - HandlePart(handle, b) + HandlePart(handle', b)
    BY <1>2, <2>7, <2>8, <2>9
  <2>11. \A u \in Name \ {t} : table'[u] = table[u]
    BY <1>1, <2>1
  <2>12. outstanding' = [b \in Allocator |-> outstanding'[b]]
    BY <2>1
  <2> QED
    BY <1>1, <2>10, <2>11, <2>12, OneOwns
<1> QED
  BY <1>6, <1>7, <1>8, <1>9, <1>10, <1>11, <1>12, <1>13

(* The blocks of s go to t, those of t are given back. *)
LEMMA StorageOwns ==
  ASSUME IsFiniteSet(Name), GoodTables, GoodTables', Owned,
         NEW t \in Name, NEW s \in Name, t # s, handle' = handle,
         NEW q, NEW e, q # NoTable, e # NoTable,
         Alive(s), Blocks(q) = Blocks(table[s]), q.allocator = table[s].allocator,
         Blocks(e) = 0, table' = [table EXCEPT ![t] = q, ![s] = e],
         outstanding' = [a \in Allocator |-> outstanding'[a]],
         \A a \in Allocator : outstanding'[a] = outstanding[a] - Part(table, t, a)
  PROVE  Owned'
<1>1. /\ table'[t] = q /\ table'[s] = e
      /\ \A u \in Name \ {t, s} : table'[u] = table[u]
  BY DEF GoodTables
<1>2. ASSUME NEW a \in Allocator
      PROVE  outstanding'[a] = outstanding[a] - Part(table, t, a) + Part(table', t, a)
                                              - Part(table, s, a) + Part(table', s, a)
  <2>1. Part(table', t, a) = Part(table, s, a) /\ Part(table', s, a) = 0
    BY <1>1 DEF Part, Alive
  <2>2. outstanding[a] \in Nat /\ Part(table, t, a) \in Nat /\ Part(table, s, a) \in Nat
    BY OutstandingType, TablesAreCounted, PartType
  <2>3. outstanding'[a] = outstanding[a] - Part(table, t, a)
    OBVIOUS
  <2> QED
    BY <2>1, <2>2, <2>3
<1> QED
  BY <1>1, <1>2, TwoOwn

(* The source of a move that took its storage. *)
LEMMA EmptiedByMove ==
  ASSUME NEW p \in Programs, NEW r, IsTable(r), Given(r, p)
  PROVE  LET e == HashMoved(reset_to_empty_state(r))
         IN  IsTable(e) /\ Blocks(e) = 0
<1>1. /\ Blocks(reset_to_empty_state(r)) = 0
      /\ IsTable(reset_to_empty_state(r)) /\ Given(reset_to_empty_state(r), p)
  BY NoBlocks, KeptIsGiven DEF Keeps
<1> QED
  BY <1>1, HashMovedGiven

(* What a copy starts from, and what it reserves. *)
LEMMA CopyOwns ==
  ASSUME NEW r, IsTable(r), NEW t, NEW s, NEW op, copy_contents_from(op, t, s, r)
  PROVE  /\ handle' = handle
         /\ \E q : Keeps(r, q) /\ table' = [table EXCEPT ![t] = q]
<1>1. CASE Size(table[s]) = 0
  BY <1>1 DEF copy_contents_from, Keeps
<1>2. CASE Size(table[s]) # 0
  BY <1>2, RehashKeeps DEF copy_contents_from, Begin, LoopOver, Reserved
<1> QED
  BY <1>1, <1>2

LEMMA ConstructsOwn ==
  ASSUME IsFiniteSet(Name), NoTableIsNone, GivenTables, GoodTables', Owned,
         NEW t \in Name, NEW s \in Name, t # s, NEW a \in program.allocators,
         CopyConstruct(t, s, a) \/ MoveConstructWith(t, s, a)
  PROVE  Owned'
<1> DEFINE r == Fresh(a, table[s].max_load_factor, table[s].hash_function)
<1>1. ~Alive(t) /\ Alive(s) /\ a \in Allocator /\ GoodTables /\ DOMAIN table = Name
  BY AllocatorsGiven DEF CopyConstruct, MoveConstructWith, GivenTables, GoodTables
<1>2. IsTable(r) /\ r.allocator = a /\ Blocks(r) = 0
  BY NoBlocks DEF Fresh, IsTable
<1>3. \A b \in Allocator : Part(table, t, b) = 0
  BY <1>1 DEF Part, Alive
<1>4. \A b \in Allocator : outstanding[b] \in Nat
  BY <1>1, OutstandingType
<1>5. CASE CopyConstruct(t, s, a)
  <2>1. /\ copy_contents_from("copy_construct", t, s, r)
        /\ Reallocated(r, table'[t])
    BY <1>5 DEF CopyConstruct
  <2> HIDE DEF r
  <2>2. handle' = handle
    BY <1>2, <2>1, CopyOwns
  <2>3. PICK q : Keeps(r, q) /\ table' = [table EXCEPT ![t] = q]
    BY <1>2, <2>1, CopyOwns
  <2>4. /\ table'[t] = q /\ \A u \in Name \ {t} : table'[u] = table[u]
        /\ IsTable(q) /\ q.allocator = a
    BY <1>1, <1>2, <2>3 DEF Keeps
  <2>5. Reallocated(r, q)
    BY <2>1, <2>4
  <2>6. \A b \in Allocator : Part(table, t, b) = IF b = q.allocator THEN Blocks(r) ELSE 0
    BY <1>2, <1>3
  <2>7. Blocks(r) \in Nat /\ q.allocator \in Allocator
    BY <1>1, <1>2, <2>4
  <2> QED
    BY <1>1, <2>2, <2>4, <2>5, <2>6, <2>7, ReallocatedOwns
<1>6. CASE MoveConstructWith(t, s, a) /\ a # table[s].allocator
  <2> DEFINE q == Reserved(r, s)
  <2>1. BeginMove("move_construct", t, s, q) /\ Reallocated(r, table'[t])
    BY <1>6 DEF MoveConstructWith
  <2> HIDE DEF r
  <2>2. Keeps(r, q)
    BY <1>2, RehashKeeps DEF Reserved
  <2> HIDE DEF q
  <2>3. IsTable(q) /\ q.allocator \in Allocator /\ Blocks(r) \in Nat
    BY <1>1, <1>2, <2>2 DEF Keeps
  <2>4. Reallocated(r, q)
    BY <1>1, <2>1 DEF BeginMove
  <2>5. \A b \in Allocator : Part(table, t, b) = IF b = q.allocator THEN Blocks(r) ELSE 0
    BY <1>2, <1>3
  <2> QED
    BY <1>1, <2>1, <2>3, <2>4, <2>5, MoveBeginOwns
<1>7. CASE MoveConstructWith(t, s, a) /\ a = table[s].allocator
  <2> DEFINE source == HashMoved(table[s])
             q == Stolen(r, source)
             e == HashMoved(reset_to_empty_state(source))
  <2>1. Steal(t, s, r, source) /\ outstanding' = outstanding
    BY <1>7 DEF MoveConstructWith
  <2>2. IsTable(source) /\ Given(source, program) /\ program \in Programs
        /\ source.allocator = a /\ Blocks(source) = Blocks(table[s])
    BY <1>1, <1>7, TableIsThere, HashMovedGiven DEF GivenTables, TablesGiven, GoodTables
  <2>3. table' = [table EXCEPT ![t] = q, ![s] = e] /\ handle' = handle
    BY <2>1 DEF Steal
  <2> HIDE DEF source
  <2>4. q # NoTable /\ q.allocator = table[s].allocator /\ Blocks(q) = Blocks(table[s])
    BY <1>2, <1>7, <2>2 DEF Stolen, NoTableIsNone, IsTable, Blocks
  <2>5. e # NoTable /\ Blocks(e) = 0
    BY <2>2, EmptiedByMove DEF NoTableIsNone
  <2>6. outstanding' = [b \in Allocator |-> outstanding'[b]]
    BY <2>1 DEF Owned
  <2>7. ASSUME NEW b \in Allocator
        PROVE  outstanding'[b] = outstanding[b] - Part(table, t, b)
    <3>1. outstanding'[b] = outstanding[b] /\ outstanding[b] \in Nat /\ Part(table, t, b) = 0
      BY <1>3, <1>4, <2>1
    <3> QED
      BY <3>1
  <2> HIDE DEF q, e
  <2> QED
    BY <1>1, <2>3, <2>4, <2>5, <2>6, <2>7, StorageOwns
<1> QED
  BY <1>5, <1>6, <1>7

LEMMA CopyAssignOwns ==
  ASSUME IsFiniteSet(Name), NoTableIsNone, GivenTables, GoodTables', Owned,
         NEW t \in Name, NEW s \in Name, t # s, CopyAssign(t, s)
  PROVE  Owned'
<1> DEFINE r == EmptiedForCopy(t, s)
           old == table[t].allocator
<1>1. Alive(t) /\ Alive(s) /\ copy_contents_from("copy", t, s, r)
  BY DEF CopyAssign
<1>2. /\ GoodTables /\ DOMAIN table = Name
      /\ Blocks(table[t]) \in Nat
      /\ \A a \in Allocator : Part(table, t, a) = IF a = old THEN Blocks(table[t]) ELSE 0
      /\ \A a \in Allocator : outstanding[a] \in Nat
      /\ Good(table[t], program) /\ IsTable(table[t])
  BY <1>1, TableIsThere, OutstandingType DEF GivenTables, GoodTables
<1>3. /\ IsTable(r)
      /\ Propagates(t, s) => Blocks(r) = 0
      /\ ~Propagates(t, s) => Blocks(r) = Blocks(table[t]) /\ r.allocator = old
  <2>1. Given(table[t], program) /\ Given(table[s], program)
    BY <1>1 DEF GivenTables, TablesGiven
  <2> QED
    BY <1>2, <2>1, EmptiedGiven
<1>4. outstanding' =
        [a \in Allocator |->
           outstanding[a]
             - (IF a = old THEN IF Propagates(t, s) THEN Blocks(table[t]) ELSE 0 ELSE 0)
             + (IF a = table'[t].allocator THEN Blocks(table'[t]) - Blocks(r) ELSE 0)]
  BY DEF CopyAssign
<1> HIDE DEF r
<1>5. handle' = handle /\ \E q : Keeps(r, q) /\ table' = [table EXCEPT ![t] = q]
  BY <1>1, <1>3, CopyOwns
<1>6. PICK q : Keeps(r, q) /\ table' = [table EXCEPT ![t] = q]
  BY <1>5
<1>7. /\ table'[t] = q /\ IsTable(q) /\ q # NoTable /\ q.allocator = r.allocator
      /\ \A u \in Name \ {t} : table'[u] = table[u]
  BY <1>2, <1>6 DEF Keeps, NoTableIsNone
<1>8. Blocks(q) \in Nat
  <2>1. Good(q, program')
    BY <1>7 DEF GoodTables, Alive
  <2> QED
    BY <2>1, BlocksType
<1>9. ASSUME NEW a \in Allocator
      PROVE  outstanding'[a] = outstanding[a] - Part(table, t, a) + Part(table', t, a)
  <2>1. Part(table', t, a) = IF a = q.allocator THEN Blocks(q) ELSE 0
    BY <1>7 DEF Part
  <2>2. outstanding'[a] =
          outstanding[a]
            - (IF a = old THEN IF Propagates(t, s) THEN Blocks(table[t]) ELSE 0 ELSE 0)
            + (IF a = q.allocator THEN Blocks(q) - Blocks(r) ELSE 0)
    BY <1>4, <1>7
  <2>3. /\ Part(table, t, a) = IF a = old THEN Blocks(table[t]) ELSE 0
        /\ outstanding[a] \in Nat
    BY <1>2
  <2> HIDE DEF old
  <2>4. CASE Propagates(t, s)
    BY <1>2, <1>3, <1>8, <2>1, <2>2, <2>3, <2>4
  <2>5. CASE ~Propagates(t, s)
    BY <1>2, <1>3, <1>7, <1>8, <2>1, <2>2, <2>3, <2>5
  <2> QED
    BY <2>4, <2>5
<1>10. outstanding' = [a \in Allocator |-> outstanding'[a]]
  BY <1>4
<1> QED
  BY <1>2, <1>5, <1>7, <1>9, <1>10, TableOwns

LEMMA MoveAssignOwns ==
  ASSUME IsFiniteSet(Name), NoTableIsNone, GivenTables, GoodTables', Owned,
         NEW t \in Name, NEW s \in Name, t # s, MoveAssign(t, s)
  PROVE  Owned'
<1> DEFINE old == table[t].allocator
<1>1. /\ Alive(t) /\ Alive(s)
      /\ GoodTables /\ DOMAIN table = Name
      /\ Good(table[t], program) /\ IsTable(table[t]) /\ IsTable(table[s])
      /\ Blocks(table[t]) \in Nat
      /\ old \in Allocator
      /\ \A a \in Allocator : Part(table, t, a) = IF a = old THEN Blocks(table[t]) ELSE 0
      /\ \A a \in Allocator : outstanding[a] \in Nat
      /\ program \in Programs /\ Given(table[s], program)
  <2>1. Alive(t) /\ Alive(s) /\ GoodTables
    BY DEF MoveAssign, GivenTables
  <2> QED
    BY <2>1, TableIsThere, OutstandingType DEF GoodTables, GivenTables, TablesGiven
<1>2. CASE MovesStorage(t, s)
  <2> DEFINE r == [table[t] EXCEPT !.allocator = IF program.pocma
                                                 THEN table[s].allocator ELSE @]
             q == Stolen(r, table[s])
             e == HashMoved(reset_to_empty_state(table[s]))
  <2>1. Steal(t, s, r, table[s]) /\ Destroyed(table[t])
    BY <1>2 DEF MoveAssign
  <2>2. table' = [table EXCEPT ![t] = q, ![s] = e] /\ handle' = handle
    BY <1>1, <2>1 DEF Steal
  <2>3. q # NoTable /\ q.allocator = table[s].allocator /\ Blocks(q) = Blocks(table[s])
    BY <1>1, <1>2 DEF Stolen, MovesStorage, NoTableIsNone, IsTable, Blocks
  <2>4. e # NoTable /\ Blocks(e) = 0
    BY <1>1, EmptiedByMove DEF NoTableIsNone
  <2>5. outstanding' = [outstanding EXCEPT ![old] = @ - Blocks(table[t])]
        /\ DOMAIN outstanding = Allocator
    BY <2>1 DEF Destroyed, Owned
  <2>6. outstanding' = [a \in Allocator |-> outstanding'[a]]
    BY <2>5
  <2>7. \A a \in Allocator : outstanding'[a] = outstanding[a] - Part(table, t, a)
    BY <1>1, <2>5
  <2> HIDE DEF q, e
  <2> QED
    BY <1>1, <2>2, <2>3, <2>4, <2>6, <2>7, StorageOwns
<1>3. CASE ~MovesStorage(t, s)
  <2> DEFINE r == EmptiedForMove(t, s)
             q == Reserved(r, s)
  <2>1. BeginMove("move", t, s, q) /\ Reallocated(r, table'[t])
    BY <1>3 DEF MoveAssign
  <2>2. IsTable(r) /\ r.allocator = old /\ Blocks(r) = Blocks(table[t])
    <3>1. Given(table[t], program) /\ Given(table[s], program)
      BY <1>1 DEF GivenTables, TablesGiven
    <3> QED
      BY <1>1, <3>1, EmptiedGiven
  <2> HIDE DEF r
  <2>3. Keeps(r, q)
    BY <2>2, RehashKeeps DEF Reserved
  <2> HIDE DEF q
  <2>4. IsTable(q) /\ q.allocator = old
    BY <2>2, <2>3 DEF Keeps
  <2>5. Reallocated(r, q)
    BY <1>1, <2>1 DEF BeginMove
  <2>6. \A a \in Allocator : Part(table, t, a) = IF a = q.allocator THEN Blocks(r) ELSE 0
    BY <1>1, <2>2, <2>4
  <2>7. Blocks(r) \in Nat /\ q.allocator \in Allocator
    BY <1>1, <2>2, <2>4
  <2> QED
    BY <1>1, <2>1, <2>4, <2>5, <2>6, <2>7, MoveBeginOwns
<1> QED
  BY <1>2, <1>3

(* What an assignment whose reserve throws has given back. *)
LEMMA ReserveThrowsOwns ==
  ASSUME IsFiniteSet(Name), NoTableIsNone, GivenTables, GoodTables', Owned,
         NEW t \in Name, NEW s \in Name, t # s,
         NEW op \in {"copy", "move"}, ReserveThrows(op, t, s)
  PROVE  Owned'
<1> DEFINE r == IF op = "copy" THEN EmptiedForCopy(t, s) ELSE EmptiedForMove(t, s)
           q == IF op = "move" THEN HashMoved(table[s]) ELSE table[s]
           old == table[t].allocator
           Returned == op = "copy" /\ Propagates(t, s)
<1>1. /\ Alive(t) /\ Alive(s) /\ handle' = handle
      /\ table' = [table EXCEPT ![t] = r, ![s] = q]
      /\ IF Returned THEN Destroyed(table[t]) ELSE outstanding' = outstanding
  BY DEF ReserveThrows
<1>2. /\ GoodTables /\ DOMAIN table = Name
      /\ program \in Programs
      /\ Good(table[t], program) /\ Given(table[t], program)
      /\ IsTable(table[s]) /\ Given(table[s], program)
      /\ Blocks(table[t]) \in Nat /\ Blocks(table[s]) \in Nat
      /\ old \in Allocator
      /\ \A a \in Allocator : Part(table, t, a) = IF a = old THEN Blocks(table[t]) ELSE 0
      /\ \A a \in Allocator : outstanding[a] \in Nat
      /\ DOMAIN outstanding = Allocator
  BY <1>1, TableIsThere, OutstandingType
     DEF GivenTables, GoodTables, TablesGiven, Owned
<1>3. /\ IsTable(r) /\ r # NoTable
      /\ Returned => Blocks(r) = 0
      /\ ~Returned => Blocks(r) = Blocks(table[t]) /\ r.allocator = old
  BY <1>2, EmptiedGiven DEF NoTableIsNone
<1>4. q # NoTable /\ Blocks(q) = Blocks(table[s]) /\ q.allocator = table[s].allocator
  BY <1>2, HashMovedGiven DEF NoTableIsNone
<1> HIDE DEF r, q, Returned
<1>5. /\ table'[t] = r /\ table'[s] = q
      /\ \A u \in Name \ {t, s} : table'[u] = table[u]
  BY <1>1, <1>2
<1>6. outstanding' = [a \in Allocator |-> outstanding'[a]]
  BY <1>1 DEF Owned, Destroyed
<1>7. ASSUME NEW a \in Allocator
      PROVE  outstanding'[a] = outstanding[a] - Part(table, t, a) + Part(table', t, a)
                                              - Part(table, s, a) + Part(table', s, a)
  <2>1. Part(table', s, a) = Part(table, s, a) /\ Part(table, s, a) \in Nat
    BY <1>1, <1>2, <1>4, <1>5 DEF Part, Alive
  <2>2. CASE Returned
    <3>1. Part(table', t, a) = 0
      BY <1>3, <1>5, <2>2 DEF Part
    <3>2. outstanding'[a] = outstanding[a] - Part(table, t, a)
      BY <1>1, <1>2, <2>2 DEF Destroyed
    <3> QED
      BY <1>2, <2>1, <3>1, <3>2
  <2>3. CASE ~Returned
    <3>1. Part(table', t, a) = Part(table, t, a)
      BY <1>2, <1>3, <1>5, <2>3 DEF Part
    <3>2. outstanding'[a] = outstanding[a]
      BY <1>1, <2>3
    <3> QED
      BY <1>2, <2>1, <3>1, <3>2
  <2> QED
    BY <2>2, <2>3
<1> QED
  BY <1>1, <1>2, <1>5, <1>6, <1>7, TwoOwn

LEMMA TwoTablesOwn ==
  ASSUME IsFiniteSet(Name), NoTableIsNone, GivenTables, GoodTables', Owned,
         NEW t \in Name, NEW s \in Name, t # s, TwoOf(t, s)
  PROVE  Owned'
<1>1. /\ GoodTables /\ DOMAIN table = Name
      /\ table = [u \in Name |-> table[u]]
      /\ \A a \in Allocator : outstanding[a] \in Nat
  BY OutstandingType DEF GivenTables, GoodTables, TablesGiven
<1>2. CASE MoveConstruct(t, s)
  <2> DEFINE q == table[s]
             e == HashMoved(reset_to_empty_state(table[s]))
  <2>1. /\ ~Alive(t) /\ Alive(s) /\ handle' = handle /\ outstanding' = outstanding
        /\ table' = [table EXCEPT ![t] = q, ![s] = e]
    BY <1>1, <1>2 DEF MoveConstruct
  <2>2. q # NoTable /\ q.allocator = table[s].allocator /\ Blocks(q) = Blocks(table[s])
    BY <2>1 DEF Alive
  <2>3. e # NoTable /\ Blocks(e) = 0
    <3>1. IsTable(table[s]) /\ Given(table[s], program) /\ program \in Programs
      BY <2>1, TableIsThere DEF GivenTables, GoodTables, TablesGiven
    <3> QED
      BY <3>1, EmptiedByMove DEF NoTableIsNone
  <2>4. outstanding' = [a \in Allocator |-> outstanding'[a]]
    BY <2>1 DEF Owned
  <2>5. ASSUME NEW a \in Allocator
        PROVE  outstanding'[a] = outstanding[a] - Part(table, t, a)
    <3>1. outstanding'[a] = outstanding[a] /\ outstanding[a] \in Nat /\ Part(table, t, a) = 0
      BY <1>1, <2>1 DEF Part, Alive
    <3> QED
      BY <3>1
  <2> HIDE DEF q, e
  <2> QED
    BY <1>1, <2>1, <2>2, <2>3, <2>4, <2>5, StorageOwns
<1>3. CASE Merge(t, s)
  <2>1. UNCHANGED <<handle, outstanding>> /\ table' = [table EXCEPT ![t] = table[t]]
    BY <1>3 DEF Merge, Begin, LoopOver
  <2>2. table' = table
    BY <1>1, <2>1
  <2> QED
    BY <2>1, <2>2 DEF Owned
<1>4. CASE Swap(t, s)
  <2>1. /\ UNCHANGED <<handle, outstanding>>
        /\ table'[t] = table[s] /\ table'[s] = table[t]
        /\ \A u \in Name \ {t, s} : table'[u] = table[u]
    BY <1>1, <1>4 DEF Swap
  <2>2. ASSUME NEW a \in Allocator
        PROVE  outstanding'[a] = outstanding[a] - Part(table, t, a) + Part(table', t, a)
                                                - Part(table, s, a) + Part(table', s, a)
    <3>1. Part(table', t, a) = Part(table, s, a) /\ Part(table', s, a) = Part(table, t, a)
      BY <2>1 DEF Part
    <3>2. outstanding[a] \in Nat /\ Part(table, t, a) \in Nat /\ Part(table, s, a) \in Nat
      BY <1>1, TablesAreCounted, PartType
    <3>3. outstanding'[a] = outstanding[a]
      BY <2>1
    <3> QED
      BY <3>1, <3>2, <3>3
  <2>3. outstanding' = [a \in Allocator |-> outstanding'[a]]
    BY <2>1 DEF Owned
  <2> QED
    BY <1>1, <2>1, <2>2, <2>3, TwoOwn
<1>5. ASSUME NEW a \in program.allocators, CopyConstruct(t, s, a) \/ MoveConstructWith(t, s, a)
      PROVE  Owned'
  BY <1>5, ConstructsOwn
<1> QED
  BY <1>2, <1>3, <1>4, <1>5, CopyAssignOwns, MoveAssignOwns, ReserveThrowsOwns
     DEF TwoOf

(* The target of a loop takes what it needs, the source gives nothing back. *)
LEMMA LoopOwns ==
  ASSUME IsFiniteSet(Name), NoTableIsNone, GivenTables, GoodTables', Owned, ~Idle,
         NEW r, Keeps(to, r), NEW q, Keeps(from, q), Blocks(q) = Blocks(from),
         table'[call.to] = r, table'[call.from] = q,
         \A u \in Name \ {call.to, call.from} : table'[u] = table[u],
         handle' = handle, Reallocated(to, r)
  PROVE  Owned'
<1> DEFINE t == call.to
           s == call.from
<1>1. t \in Name /\ s \in Name /\ t # s /\ GoodTables
  BY DEF GivenTables, GoodTables, LoopGood
<1>2. Alive(t) /\ Alive(s)
  BY DEF GivenTables, GoodTables, LoopGood, Good, NoTableIsNone, Alive, to, from
<1>3. /\ Blocks(to) \in Nat /\ Blocks(from) \in Nat
      /\ to.allocator \in Allocator
      /\ \A a \in Allocator :
           /\ Part(table, t, a) = IF a = to.allocator THEN Blocks(to) ELSE 0
           /\ Part(table, s, a) = IF a = from.allocator THEN Blocks(from) ELSE 0
      /\ \A a \in Allocator : outstanding[a] \in Nat
  BY <1>1, <1>2, TableIsThere, OutstandingType DEF to, from
<1>4. /\ r # NoTable /\ r.allocator = to.allocator
      /\ q # NoTable /\ q.allocator = from.allocator
  BY DEF Keeps, NoTableIsNone
<1>5. Blocks(r) \in Nat
  <2>1. Good(r, program')
    BY <1>1, <1>4 DEF GoodTables, Alive
  <2> QED
    BY <2>1, BlocksType
<1>6. \A a \in Allocator : /\ Part(table', t, a) = IF a = r.allocator THEN Blocks(r) ELSE 0
                           /\ Part(table', s, a) = Part(table, s, a)
  BY <1>3, <1>4 DEF Part
<1>7. /\ outstanding' = [outstanding EXCEPT ![r.allocator] = @ + Blocks(r) - Blocks(to)]
      /\ DOMAIN outstanding = Allocator
  BY DEF Reallocated, Owned
<1>8. outstanding' = [a \in Allocator |-> outstanding'[a]]
  BY <1>7
<1>9. ASSUME NEW a \in Allocator
      PROVE  outstanding'[a] = outstanding[a] - Part(table, t, a) + Part(table', t, a)
                                              - Part(table, s, a) + Part(table', s, a)
  <2>1. outstanding'[a] = IF a = r.allocator THEN outstanding[a] + Blocks(r) - Blocks(to)
                                             ELSE outstanding[a]
    BY <1>7
  <2>2. /\ Part(table, t, a) = IF a = r.allocator THEN Blocks(to) ELSE 0
        /\ Part(table', t, a) = IF a = r.allocator THEN Blocks(r) ELSE 0
        /\ Part(table', s, a) = Part(table, s, a)
        /\ Part(table, s, a) \in Nat
        /\ outstanding[a] \in Nat
    BY <1>3, <1>4, <1>6
  <2> QED
    BY <1>3, <1>5, <2>1, <2>2
<1> QED
  BY <1>1, <1>8, <1>9, TwoOwn

(* A loop that throws left its objects behind: it constructed none. *)
LEMMA TurnOwns ==
  ASSUME IsFiniteSet(Name), NoTableIsNone, ConstructorsDoNotThrow, ThrowsAreRestored,
         GivenTables, GoodTables', Owned, Turn
  PROVE  Owned'
<1>1. ~Idle
  BY DEF Turn, CopyNext, MoveNext, MergeNext, MergeSkip, StepThrows, EndCall,
         Working, Idle, Copying, Moving
<1>2. /\ GoodTables /\ DOMAIN table = Name
      /\ call.to \in Name /\ call.from \in Name /\ call.to # call.from
      /\ Good(to, program) /\ IsTable(to)
      /\ Good(from, program) /\ IsTable(from)
  BY <1>1 DEF GivenTables, GoodTables, LoopGood, Good
<1>3. /\ Keeps(to, to) /\ Keeps(to, emplace_impl(to, value))
      /\ \A site \in StepSites :
           Keeps(to, EmplaceThrows(to, value, site))
  BY <1>2, EmplaceKeeps DEF Keeps
<1>4. /\ Keeps(from, from)
      /\ Keeps(from, move_out(from, node)) /\ Blocks(move_out(from, node)) = Blocks(from)
      /\ LET q == [from EXCEPT !.arena = Arena!erase_located(@, node)]
         IN  Keeps(from, q) /\ Blocks(q) = Blocks(from)
  <2>1. Keeps(from, from)
    BY <1>2 DEF Keeps
  <2> QED
    BY <1>2, <2>1, BlocksStay
<1>5. ASSUME NEW r, Keeps(to, r), NEW q, Keeps(from, q), Blocks(q) = Blocks(from),
             Proceed(r, q)
      PROVE  Owned'
  <2>1. /\ table'[call.to] = r /\ table'[call.from] = q
        /\ \A u \in Name \ {call.to, call.from} : table'[u] = table[u]
    BY <1>2, <1>5 DEF Proceed
  <2>2. handle' = handle /\ Reallocated(to, r)
    BY <1>5 DEF Proceed
  <2> QED
    BY <1>1, <1>5, <2>1, <2>2, LoopOwns
<1>6. CASE CopyNext \/ MoveNext \/ MergeNext \/ MergeSkip
  BY <1>3, <1>4, <1>5, <1>6 DEF CopyNext, MoveNext, MergeNext, MergeSkip
<1>7. ASSUME NEW site \in StepSites, StepThrows(site)
      PROVE  Owned'
  <2> DEFINE r == EmplaceThrows(to, value, site)
  <2>1. call.op \notin Constructing
    BY <1>7 DEF StepThrows, ConstructorsDoNotThrow
  <2>2. PICK gone : table' = [table EXCEPT
                                ![call.to] = IF call.op \in Constructing THEN NoTable ELSE r,
                                ![call.from] = IF gone THEN move_out(from, node) ELSE @]
    BY <1>7 DEF StepThrows
  <2> DEFINE q == IF gone THEN move_out(from, node) ELSE from
  <2> HIDE DEF r
  <2>3. /\ table'[call.to] = r /\ table'[call.from] = q
        /\ \A u \in Name \ {call.to, call.from} : table'[u] = table[u]
    BY <1>2, <2>1, <2>2 DEF from
  <2>4. Keeps(to, r) /\ Keeps(from, q) /\ Blocks(q) = Blocks(from)
    BY <1>3, <1>4 DEF r
  <2>5. handle' = handle /\ Reallocated(to, r)
    BY <1>7, RestoredSite DEF StepThrows, r
  <2> HIDE DEF q
  <2> QED
    BY <1>1, <2>3, <2>4, <2>5, LoopOwns
<1>8. CASE EndCall
  <2>1. /\ UNCHANGED <<handle, outstanding>>
        /\ table' = table \/ table' = [table EXCEPT ![call.from] = clear(from)]
    BY <1>8 DEF EndCall, from
  <2>2. CASE table' = table
    BY <2>1, <2>2 DEF Owned
  <2>3. CASE table' = [table EXCEPT ![call.from] = clear(from)]
    <3>1. /\ table'[call.from] = clear(from)
          /\ \A u \in Name \ {call.from} : table'[u] = table[u]
      BY <1>2, <2>3
    <3>2. Keeps(from, clear(from)) /\ Blocks(clear(from)) = Blocks(from)
      BY <1>2, BlocksStay
    <3>3. ASSUME NEW a \in Allocator
          PROVE  outstanding'[a] = outstanding[a] - Part(table, call.from, a)
                                     + Part(table', call.from, a)
      <4>1. Part(table', call.from, a) = Part(table, call.from, a)
        BY <1>2, <3>1, <3>2 DEF Part, Keeps, NoTableIsNone, from
      <4>2. outstanding[a] \in Nat /\ Part(table, call.from, a) \in Nat
        BY <1>2, OutstandingType, TablesAreCounted, PartType
      <4>3. outstanding'[a] = outstanding[a]
        BY <2>1
      <4> QED
        BY <4>1, <4>2, <4>3
    <3>4. outstanding' = [a \in Allocator |-> outstanding'[a]]
      BY <2>1 DEF Owned
    <3> QED
      BY <1>2, <2>1, <3>1, <3>3, <3>4, TableOwns
  <2> QED
    BY <2>1, <2>2, <2>3
<1> QED
  BY <1>6, <1>7, <1>8 DEF Turn

LEMMA OwnedStep ==
  ASSUME IsFiniteSet(Name), NoTableIsNone, HandlesAgree, ConstructorsDoNotThrow,
         ThrowsAreRestored
  PROVE  GivenTables /\ Owned /\ [Next]_vars => Owned'
<1> SUFFICES ASSUME GivenTables, Owned, [Next]_vars
             PROVE  Owned'
  OBVIOUS
<1>1. GoodTables /\ GoodTables'
  BY GoodStep DEF GivenTables
<1>2. ASSUME NEW t \in Name, NEW s \in Name, t # s, TwoOf(t, s)
      PROVE  Owned'
  BY <1>1, <1>2, TwoTablesOwn
<1>3. CASE DropHandle
  <2>1. /\ handle.value # NoElement /\ table' = table
        /\ handle' = [handle EXCEPT !.value = NoElement]
        /\ outstanding' = [outstanding EXCEPT ![handle.allocator] = @ - HandleBlocks]
        /\ DOMAIN outstanding = Allocator
        /\ DOMAIN handle = {"value", "allocator"}
    BY <1>1, <1>3 DEF DropHandle, Released, Owned, GoodTables, HandleGood
  <2>2. HandleBlocks = 1
    BY <2>1 DEF HandleBlocks
  <2>3. outstanding' = [a \in Allocator |-> outstanding'[a]]
    BY <2>1
  <2>4. ASSUME NEW a \in Allocator
        PROVE  outstanding'[a] = Total(table', a) + HandlePart(handle', a)
    <3>1. outstanding'[a] = IF a = handle.allocator THEN outstanding[a] - 1
                                                    ELSE outstanding[a]
      BY <2>1, <2>2
    <3>2. /\ HandlePart(handle', a) = 0
          /\ HandlePart(handle, a) = IF a = handle.allocator THEN 1 ELSE 0
      BY <2>1 DEF HandlePart
    <3>3. Total(table', a) = Total(table, a) /\ Total(table, a) \in Nat
      BY <1>1, <2>1, TablesAreCounted, TotalType
    <3>4. outstanding[a] = Total(table, a) + HandlePart(handle, a)
      BY DEF Owned
    <3> QED
      BY <3>1, <3>2, <3>3, <3>4
  <2> QED
    BY <2>3, <2>4 DEF Owned
<1>4. CASE UNCHANGED vars
  BY <1>4 DEF vars, Owned
<1>5. CASE Turn
  BY <1>1, <1>5, TurnOwns
<1>6. ASSUME NEW t \in Name,
             \/ \E a \in program.allocators, h \in program.hashers : Construct(t, a, h)
             \/ Destroy(t) \/ Clear(t) \/ Shrink(t) \/ InsertHandle(t)
             \/ \E e \in program.elements : Emplace(t, e) \/ Erase(t, e) \/ Extract(t, e)
             \/ \E z \in program.factors : SetMaxLoadFactor(t, z)
      PROVE  Owned'
  BY <1>1, <1>6, OneTableOwns
<1> QED
  BY <1>2, <1>3, <1>4, <1>5, <1>6 DEF Next

LEMMA OwnedInvariant ==
  ASSUME IsFiniteSet(Name), NoTableIsNone, HandlesAgree, ConstructorsDoNotThrow,
         ThrowsAreRestored
  PROVE  Spec => [](GivenTables /\ Owned)
<1>1. Init => Owned
  <2> SUFFICES ASSUME Init PROVE Owned
    OBVIOUS
  <2>1. \A t \in Name : table[t] = NoTable
    BY DEF Init
  <2>2. Counted(table)
    BY <2>1 DEF Counted
  <2>3. ASSUME NEW a \in Allocator
        PROVE  Total(table, a) = 0 /\ HandlePart(handle, a) = 0 /\ outstanding[a] = 0
    <3>1. Total(table, a) = 0
      BY <2>1, <2>2, TotalType
    <3> QED
      BY <3>1 DEF Init, HandlePart
  <2>4. outstanding = [a \in Allocator |-> outstanding[a]]
    BY DEF Init
  <2> QED
    BY <2>3, <2>4 DEF Owned
<1>2. GivenTables /\ Owned /\ [Next]_vars => Owned'
  BY OwnedStep
<1>3. Spec => []GivenTables
  BY GivenInvariant
<1> QED
  BY <1>1, <1>2, <1>3, PTL DEF Spec

(* EveryBlockOwned in every run in which no constructor throws and handles *)
(* that are assigned to follow the allocator: what a table or a handle has *)
(* taken from an allocator, and nothing else, is what it will give back.   *)
(* A copy or a merge that throws where the code puts things back, a move   *)
(* between unequal allocators and an allocator that propagates lose no     *)
(* block and move none.                                                    *)
THEOREM EveryBlockIsOwned ==
  ASSUME IsFiniteSet(Name), NoTableIsNone, HandlesAgree, ConstructorsDoNotThrow,
         ThrowsAreRestored
  PROVE  Spec => []EveryBlockOwned
<1>1. GivenTables /\ Owned => EveryBlockOwned
  <2> SUFFICES ASSUME Owned, NEW a \in Allocator
               PROVE  outstanding[a] = BlocksThrough(a)
    BY DEF EveryBlockOwned
  <2>1. outstanding[a] = Total(table, a) + HandlePart(handle, a)
    BY DEF Owned
  <2>2. HandlePart(handle, a) = IF handle.allocator = a THEN HandleBlocks ELSE 0
    BY DEF HandlePart, HandleBlocks
  <2>3. BlocksThrough(a) = Total(table, a)
                             + (IF handle.allocator = a THEN HandleBlocks ELSE 0)
    BY DEF BlocksThrough, Total, With, Alive
  <2> QED
    BY <2>1, <2>2, <2>3
<1>2. Spec => [](GivenTables /\ Owned)
  BY OwnedInvariant
<1> QED
  BY <1>1, <1>2, PTL

-----------------------------------------------------------------------------
(* Types.  A table and the handle are functions on their fields, which     *)
(* their domains alone do not say.                                         *)

IsFunction(r) == r = [x \in DOMAIN r |-> r[x]]

Records ==
  /\ IsFunction(handle)
  /\ \A t \in Name : Alive(t) => IsFunction(table[t])

LEMMA RehashRecords ==
  ASSUME NEW r, IsFunction(r)
  PROVE  /\ \A n : IsFunction(rehash_to(r, n))
         /\ \A n : IsFunction(rehash(r, n))
         /\ \A n : IsFunction(reserve(r, n))
         /\ IsFunction(reserve_for_one_more(r))
<1>1. \A n : IsFunction(rehash_to(r, n))
  BY Zenon DEF IsFunction, rehash_to
<1>2. IsFunction([r EXCEPT !.bucket_count = 0, !.max_load_capacity = 0, !.placed_with = {}])
  BY Zenon DEF IsFunction
<1>3. \A n : IsFunction(rehash(r, n))
  BY <1>1, <1>2, Zenon DEF rehash
<1>4. \A n : IsFunction(reserve(r, n))
  BY <1>3 DEF reserve
<1>5. IsFunction(reserve_for_one_more(r))
  BY <1>1, Zenon DEF reserve_for_one_more
<1> QED
  BY <1>1, <1>3, <1>4, <1>5

LEMMA OperationRecords ==
  ASSUME NEW r
  PROVE  /\ \A a, f, h : IsFunction(Fresh(a, f, h))
         /\ IsFunction(reset_to_empty_state(r))
         /\ IsFunction(clear(r))
         /\ \A e : IsFunction(emplace_impl(r, e))
         /\ \A e : IsFunction(erase_value(r, e))
         /\ \A n : IsFunction(move_out(r, n))
         /\ \A n : IsFunction([r EXCEPT !.arena = Arena!erase_located(@, n)])
         /\ IsFunction(r) => \A e : \A site \in StepSites :
                             IsFunction(EmplaceThrows(r, e, site))
<1>1. \A a, f, h : IsFunction(Fresh(a, f, h))
  BY DEF IsFunction, Fresh
<1>2. /\ IsFunction(reset_to_empty_state(r))
      /\ IsFunction(clear(r))
      /\ \A n : IsFunction(move_out(r, n))
  BY Zenon DEF IsFunction, reset_to_empty_state, clear, move_out
<1>3. /\ \A e : IsFunction(erase_value(r, e))
      /\ \A n : IsFunction([r EXCEPT !.arena = Arena!erase_located(@, n)])
  <2>1. \A a : IsFunction([r EXCEPT !.arena = a])
    BY Zenon DEF IsFunction
  <2> QED
    BY <2>1, Zenon DEF erase_value
<1>4. \A s, n : IsFunction(Discarded(s, n))
  BY Zenon DEF IsFunction, Discarded
<1>5. \A e : IsFunction(emplace_impl(r, e))
  <2>1. ASSUME NEW s, NEW n, NEW h
        PROVE  IsFunction([s EXCEPT
                 !.arena = Arena!insert_known_absent(Arena!link_into_iteration(@, n), n),
                 !.placed_with = @ \union {h}])
    BY Zenon DEF IsFunction
  <2> QED
    BY <1>4, <2>1, Zenon DEF emplace_impl
<1>6. (\A e : IsFunction(Built(r, e))) /\ \A q, n : IsFunction(LinkedIn(q, n))
  BY Zenon DEF IsFunction, Built, LinkedIn
<1>7. IsFunction(r) => \A e : \A site \in StepSites :
                       IsFunction(EmplaceThrows(r, e, site))
  BY <1>4, <1>6 DEF EmplaceThrows, StepSites, RestoredSites
<1> QED
  BY <1>1, <1>2, <1>3, <1>5, <1>7

LEMMA HashMovedRecord == \A r : IsFunction(HashMoved(r))
BY Zenon DEF IsFunction, HashMoved

LEMMA OneRecord ==
  ASSUME Records, DOMAIN table = Name, NEW t \in Name, IsFunction(handle'),
         NEW r, r = NoTable \/ IsFunction(r), table' = [table EXCEPT ![t] = r]
  PROVE  Records'
<1>1. \A u \in Name : table'[u] = IF u = t THEN r ELSE table[u]
  OBVIOUS
<1> QED
  BY <1>1 DEF Records, Alive

LEMMA TwoRecords ==
  ASSUME Records, DOMAIN table = Name, NEW t \in Name, NEW s \in Name, IsFunction(handle'),
         NEW r, r = NoTable \/ IsFunction(r), NEW q, IsFunction(q),
         table' = [table EXCEPT ![t] = r, ![s] = q]
  PROVE  Records'
<1>1. \A u \in Name : table'[u] = IF u = s THEN q ELSE IF u = t THEN r ELSE table[u]
  OBVIOUS
<1> QED
  BY <1>1 DEF Records, Alive

LEMMA OneTableRecords ==
  ASSUME Records, DOMAIN table = Name, NEW t \in Name,
         \/ \E a \in program.allocators, h \in program.hashers : Construct(t, a, h)
         \/ Destroy(t) \/ Clear(t) \/ Shrink(t) \/ InsertHandle(t)
         \/ \E e \in program.elements : Emplace(t, e) \/ Erase(t, e) \/ Extract(t, e)
         \/ \E z \in program.factors : SetMaxLoadFactor(t, z)
  PROVE  Records'
<1> DEFINE r == table[t]
<1>1. /\ IsFunction(handle)
      /\ Alive(t) => IsFunction(r)
  BY DEF Records
<1>2. ASSUME NEW q, IsFunction(q), NEW o, Changes(t, q, o)
      PROVE  Records'
  <2>1. table' = [table EXCEPT ![t] = q] /\ handle' = handle
    BY <1>2 DEF Changes
  <2> QED
    BY <1>1, <1>2, <2>1, OneRecord
<1>3. ASSUME NEW a, NEW h, Construct(t, a, h)
      PROVE  Records'
  <2>1. /\ table' = [table EXCEPT ![t] = Fresh(a, kDefaultMaxLoadFactor, h)]
        /\ handle' = handle
    BY <1>3 DEF Construct
  <2>2. IsFunction(Fresh(a, kDefaultMaxLoadFactor, h))
    BY OperationRecords
  <2> QED
    BY <1>1, <2>1, <2>2, OneRecord
<1>4. CASE Destroy(t)
  BY <1>1, <1>4, OneRecord DEF Destroy
<1>5. CASE Clear(t)
  BY <1>2, <1>5, OperationRecords DEF Clear
<1>6. CASE Shrink(t)
  BY <1>1, <1>2, <1>6, RehashRecords DEF Shrink
<1>7. CASE InsertHandle(t)
  <2>1. CASE contains(r, handle.value)
    <3>1. table' = table /\ handle' = handle
      BY <1>7, <2>1 DEF InsertHandle
    <3> QED
      BY <3>1 DEF Records, Alive
  <2>2. CASE ~contains(r, handle.value)
    <3>1. /\ table' = [table EXCEPT ![t] = emplace_impl(r, handle.value)]
          /\ handle' = [handle EXCEPT !.value = NoElement]
      BY <1>7, <2>2 DEF InsertHandle
    <3>2. IsFunction([handle EXCEPT !.value = NoElement])
      BY Zenon DEF IsFunction
    <3>3. IsFunction(handle') /\ IsFunction(emplace_impl(r, handle.value))
      BY <3>1, <3>2, OperationRecords
    <3> QED
      BY <3>1, <3>3, OneRecord
  <2> QED
    BY <2>1, <2>2
<1>8. ASSUME NEW e, Emplace(t, e)
      PROVE  Records'
  <2>1. \E o : Changes(t, emplace_impl(r, e), o)
    BY <1>8 DEF Emplace
  <2> QED
    BY <1>2, <2>1, OperationRecords
<1>9. ASSUME NEW e, Erase(t, e)
      PROVE  Records'
  BY <1>2, <1>9, OperationRecords DEF Erase
<1>10. ASSUME NEW e, Extract(t, e)
       PROVE  Records'
  <2>1. /\ table' = [table EXCEPT ![t] = erase_value(r, e)]
        /\ \E a : handle' = [value |-> e, allocator |-> a]
    BY <1>10 DEF Extract
  <2>2. IsFunction(handle')
    BY <2>1 DEF IsFunction
  <2>3. IsFunction(erase_value(r, e))
    BY OperationRecords
  <2> QED
    BY <2>1, <2>2, <2>3, OneRecord
<1>11. ASSUME NEW z, SetMaxLoadFactor(t, z)
       PROVE  Records'
  <2> DEFINE f == IF z > 0 THEN z ELSE kDefaultMaxLoadFactor
             q == [r EXCEPT !.max_load_factor = f,
                            !.max_load_capacity =
                               IF r.bucket_count = 0 THEN @
                               ELSE compute_load_capacity(r.bucket_count, f)]
  <2>1. Changes(t, q, "yes")
    BY <1>11, Zenon DEF SetMaxLoadFactor
  <2>2. IsFunction(q)
    BY Zenon DEF IsFunction
  <2> HIDE DEF q
  <2> QED
    BY <1>2, <2>1, <2>2
<1> QED
  BY <1>3, <1>4, <1>5, <1>6, <1>7, <1>8, <1>9, <1>10, <1>11

LEMMA TwoTablesRecords ==
  ASSUME Records, DOMAIN table = Name, NEW t \in Name, NEW s \in Name, TwoOf(t, s)
  PROVE  Records'
<1>1. /\ IsFunction(handle)
      /\ Alive(t) => IsFunction(table[t])
      /\ Alive(s) => IsFunction(table[s])
  BY DEF Records
<1>2. ASSUME NEW r, IsFunction(r), NEW op, Begins(op, t, s, r)
      PROVE  Records'
  <2>1. handle' = handle
    BY <1>2 DEF Begins, Begin, BeginMove, LoopOver
  <2>2. CASE Begin(op, t, s, r)
    BY <1>1, <1>2, <2>1, <2>2, OneRecord DEF Begin
  <2>3. CASE BeginMove(op, t, s, r)
    <3>1. IsFunction(HashMoved(table[s]))
      BY HashMovedRecord
    <3> QED
      BY <1>1, <1>2, <2>1, <2>3, <3>1, TwoRecords DEF BeginMove
  <2> QED
    BY <1>2, <2>2, <2>3 DEF Begins
<1>3. ASSUME NEW r, IsFunction(r), NEW op, copy_contents_from(op, t, s, r)
      PROVE  Records'
  <2>1. CASE Size(table[s]) = 0
    <3>1. table' = [table EXCEPT ![t] = r] /\ handle' = handle
      BY <1>3, <2>1 DEF copy_contents_from
    <3> QED
      BY <1>1, <1>3, <3>1, OneRecord
  <2>2. CASE Size(table[s]) # 0
    <3>1. Begins(op, t, s, Reserved(r, s))
      BY <1>3, <2>2 DEF copy_contents_from, Begins
    <3> QED
      BY <1>2, <1>3, <3>1, RehashRecords DEF Reserved
  <2> QED
    BY <2>1, <2>2
<1>4. ASSUME NEW r, NEW source, Steal(t, s, r, source)
      PROVE  Records'
  <2> DEFINE q == HashMoved(reset_to_empty_state(source))
  <2>1. table' = [table EXCEPT ![t] = Stolen(r, source), ![s] = q] /\ handle' = handle
    BY <1>4 DEF Steal
  <2>2. IsFunction(Stolen(r, source))
    BY Zenon DEF IsFunction, Stolen
  <2>3. IsFunction(q)
    BY HashMovedRecord
  <2> HIDE DEF q
  <2> QED
    BY <1>1, <2>1, <2>2, <2>3, TwoRecords
<1>5. ASSUME NEW a, CopyConstruct(t, s, a) \/ MoveConstructWith(t, s, a)
      PROVE  Records'
  <2> DEFINE r == Fresh(a, table[s].max_load_factor, table[s].hash_function)
  <2>1. IsFunction(r)
    BY OperationRecords
  <2>2. \/ copy_contents_from("copy_construct", t, s, r)
        \/ \E source : Steal(t, s, r, source)
        \/ Begins("move_construct", t, s, Reserved(r, s))
    BY <1>5 DEF CopyConstruct, MoveConstructWith, Begins
  <2> HIDE DEF r
  <2>3. IsFunction(Reserved(r, s))
    BY <2>1, RehashRecords DEF Reserved
  <2> QED
    BY <1>2, <1>3, <1>4, <2>1, <2>2, <2>3
<1>6. CASE MoveConstruct(t, s)
  <2> DEFINE q == HashMoved(reset_to_empty_state(table[s]))
  <2>1. /\ Alive(s) /\ handle' = handle
        /\ table' = [table EXCEPT ![t] = table[s], ![s] = q]
    BY <1>6 DEF MoveConstruct
  <2>2. IsFunction(q)
    BY HashMovedRecord
  <2> HIDE DEF q
  <2> QED
    BY <1>1, <2>1, <2>2, TwoRecords
<1>7. IsFunction(EmptiedForCopy(t, s)) /\ IsFunction(EmptiedForMove(t, s))
  BY Zenon DEF IsFunction, EmptiedForCopy, EmptiedForMove
<1>7a. CASE CopyAssign(t, s)
  <2>1. copy_contents_from("copy", t, s, EmptiedForCopy(t, s))
    BY <1>7a DEF CopyAssign
  <2> QED
    BY <1>3, <1>7, <2>1
<1>8. CASE MoveAssign(t, s)
  <2>1. \/ \E q : Steal(t, s, q, table[s])
        \/ Begins("move", t, s, Reserved(EmptiedForMove(t, s), s))
    BY <1>8 DEF MoveAssign, Begins
  <2>2. IsFunction(Reserved(EmptiedForMove(t, s), s))
    BY <1>7, RehashRecords DEF Reserved
  <2> QED
    BY <1>2, <1>4, <2>1, <2>2
<1>9. CASE Merge(t, s)
  BY <1>1, <1>2, <1>9 DEF Merge, Begins
<1>10. CASE Swap(t, s)
  <2>1. /\ Alive(t) /\ Alive(s) /\ handle' = handle
        /\ table' = [table EXCEPT ![t] = table[s], ![s] = table[t]]
    BY <1>10 DEF Swap
  <2> QED
    BY <1>1, <2>1, TwoRecords
<1>11. ASSUME NEW op \in {"copy", "move"}, ReserveThrows(op, t, s)
       PROVE  Records'
  <2> DEFINE r == IF op = "copy" THEN EmptiedForCopy(t, s) ELSE EmptiedForMove(t, s)
             q == IF op = "move" THEN HashMoved(table[s]) ELSE table[s]
  <2>1. /\ Alive(s) /\ handle' = handle
        /\ table' = [table EXCEPT ![t] = r, ![s] = q]
    BY <1>11 DEF ReserveThrows
  <2>2. IsFunction(r) /\ IsFunction(q)
    BY <1>1, <1>7, <2>1, HashMovedRecord
  <2> HIDE DEF r, q
  <2> QED
    BY <1>1, <2>1, <2>2, TwoRecords
<1> QED
  BY <1>5, <1>6, <1>8, <1>9, <1>10, <1>7a, <1>11 DEF TwoOf

LEMMA TurnRecords ==
  ASSUME NoTableIsNone, GoodTables, Records, Turn
  PROVE  Records'
<1>1. ~Idle
  BY DEF Turn, CopyNext, MoveNext, MergeNext, MergeSkip, StepThrows, EndCall,
         Working, Idle, Copying, Moving
<1>2. /\ DOMAIN table = Name /\ call.to \in Name /\ call.from \in Name /\ call.to # call.from
      /\ IsFunction(to) /\ IsFunction(from) /\ IsFunction(handle)
  BY <1>1 DEF GoodTables, LoopGood, Good, NoTableIsNone, Alive, to, from, Records
<1>3. ASSUME NEW r, IsFunction(r), NEW q, IsFunction(q), Proceed(r, q)
      PROVE  Records'
  <2>1. table' = [table EXCEPT ![call.to] = r, ![call.from] = q] /\ handle' = handle
    BY <1>3 DEF Proceed
  <2> QED
    BY <1>2, <1>3, <2>1, TwoRecords
<1>4. CASE CopyNext \/ MoveNext \/ MergeNext \/ MergeSkip
  BY <1>2, <1>3, <1>4, OperationRecords DEF CopyNext, MoveNext, MergeNext, MergeSkip
<1>5. ASSUME NEW site \in StepSites, StepThrows(site)
      PROVE  Records'
  <2> DEFINE r == IF call.op \in Constructing THEN NoTable
                  ELSE EmplaceThrows(to, value, site)
  <2>1. PICK gone : table' = [table EXCEPT ![call.to] = r,
                                ![call.from] = IF gone THEN move_out(from, node) ELSE @]
    BY <1>5 DEF StepThrows
  <2> DEFINE q == IF gone THEN move_out(from, node) ELSE from
  <2>2. table' = [table EXCEPT ![call.to] = r, ![call.from] = q]
    <3> HIDE DEF r
    <3> QED
      BY <1>2, <2>1 DEF from
  <2>3. r = NoTable \/ IsFunction(r)
    <3>1. IsFunction(EmplaceThrows(to, value, site))
      BY <1>2, OperationRecords
    <3> QED
      BY <3>1
  <2>4. IsFunction(q)
    BY <1>2, OperationRecords
  <2>5. IsFunction(handle')
    BY <1>2, <1>5 DEF StepThrows
  <2> HIDE DEF r, q
  <2> QED
    BY <1>2, <2>2, <2>3, <2>4, <2>5, TwoRecords
<1>6. CASE EndCall
  <2>1. /\ handle' = handle
        /\ table' = table \/ table' = [table EXCEPT ![call.from] = clear(from)]
    BY <1>6 DEF EndCall, from
  <2>2. IsFunction(clear(from))
    BY OperationRecords
  <2>3. CASE table' = table
    BY <1>2, <2>1, <2>3 DEF Records, Alive
  <2>4. CASE table' = [table EXCEPT ![call.from] = clear(from)]
    BY <1>2, <2>1, <2>2, <2>4, OneRecord
  <2> QED
    BY <2>1, <2>3, <2>4
<1> QED
  BY <1>4, <1>5, <1>6 DEF Turn

LEMMA RecordsInvariant ==
  ASSUME NoTableIsNone, ThrowsAreRestored
  PROVE  Spec => []Records
<1>1. Init => Records
  BY DEF Init, Records, Alive, IsFunction
<1>2. GoodTables /\ Records /\ [Next]_vars => Records'
  <2> SUFFICES ASSUME GoodTables, Records, [Next]_vars
               PROVE  Records'
    OBVIOUS
  <2>1. DOMAIN table = Name
    BY DEF GoodTables
  <2>2. CASE DropHandle
    <3>1. /\ table' = table /\ handle' = [handle EXCEPT !.value = NoElement]
      BY <2>2 DEF DropHandle, Released
    <3>2. IsFunction([handle EXCEPT !.value = NoElement])
      BY Zenon DEF IsFunction
    <3>3. IsFunction(handle')
      BY <3>1, <3>2
    <3> QED
      BY <3>1, <3>3 DEF Records, Alive
  <2>3. CASE UNCHANGED vars
    BY <2>3 DEF vars, Records, Alive
  <2> QED
    BY <2>1, <2>2, <2>3, OneTableRecords, TwoTablesRecords, TurnRecords DEF Next
<1>3. Spec => []GoodTables
  BY GoodInvariant
<1> QED
  BY <1>1, <1>2, <1>3, PTL DEF Spec

LEMMA TableTyped ==
  ASSUME SizesAreGiven, GivenTables, NEW t \in Name, Alive(t), IsFunction(table[t])
  PROVE  table[t] \in TableType
<1> DEFINE r == table[t]
           As == {a \in {table[u].arena : u \in {u \in Name : Alive(u)}} : Arena!ArenaTypeOK(a)}
<1>1. Good(r, program) /\ Given(r, program) /\ program \in ProgramType
  BY TwoTablesAssumption DEF GivenTables, GoodTables, TablesGiven
<1>2. r.arena \in As
  <2>1. Proper(r.arena)
    BY <1>1 DEF Good
  <2>2. Arena!ArenaTypeOK(r.arena)
    BY <2>1, ProperIsSound DEF Arena!StructureOK
  <2> QED
    BY <2>2
<1>3. /\ IsTable(r)
      /\ r.bucket_count \in BucketCounts \union {0}
      /\ r.max_load_capacity \in Nat
      /\ r.max_load_factor \in Nat \ {0}
  BY <1>1 DEF Good, Sized
<1>4. /\ r.hash_function \in Hasher
      /\ r.placed_with \in SUBSET Hasher
      /\ r.allocator \in Allocator
      /\ r.vectors \in Allocator
  BY <1>1 DEF Given, ProgramType
<1> HIDE DEF As
<1>5. r \in [arena             : As,
             bucket_count      : BucketCounts \union {0},
             max_load_capacity : Nat,
             max_load_factor   : Nat \ {0},
             hash_function     : Hasher,
             placed_with       : SUBSET Hasher,
             allocator         : Allocator,
             vectors           : Allocator]
  BY <1>2, <1>3, <1>4 DEF IsTable, IsFunction
<1> QED
  BY <1>5 DEF TableType, As

(* TypeOK.  Sizes are as in EmptyBucketRemains, blocks as in               *)
(* EveryBlockOwned: what is given back was taken, no count gets negative.  *)
THEOREM TablesTyped ==
  ASSUME IsFiniteSet(Name), NoTableIsNone, HandlesAgree, ConstructorsDoNotThrow,
         ThrowsAreRestored, SizesAreGiven
  PROVE  Spec => []TypeOK
<1>1. GivenTables /\ Owned /\ Records => TypeOK
  <2> SUFFICES ASSUME GivenTables, Owned, Records
               PROVE  TypeOK
    OBVIOUS
  <2>1. GoodTables /\ TablesGiven /\ RestGiven
    BY DEF GivenTables
  <2>2. program \in ProgramType
    BY <2>1, TwoTablesAssumption DEF GoodTables
  <2>3. table \in [Name -> TableType \union {NoTable}]
    <3>1. \A t \in Name : table[t] \in TableType \union {NoTable}
      BY TableTyped DEF Records, Alive
    <3> QED
      BY <2>1, <3>1 DEF TablesGiven
  <2>4. \/ call = NoCall
        \/ /\ call.op \in Copying \union Moving \union {"merge"}
           /\ call.to \in Name /\ Alive(call.to)
           /\ call.from \in Name /\ Alive(call.from)
           /\ call.todo \in Seq(Arena!Linked(table[call.from].arena))
    <3>1. CASE Idle
      BY <2>1, <3>1 DEF RestGiven
    <3>2. CASE ~Idle
      BY <2>1, <3>2, ArenaOperators
         DEF GoodTables, LoopGood, Good, NoTableIsNone, Alive, to, from
    <3> QED
      BY <3>1, <3>2
  <2>5. handle \in [value : Element \union {NoElement}, allocator : Allocator]
    <3>1. /\ DOMAIN handle = {"value", "allocator"}
          /\ handle.value \in Element \union {NoElement}
          /\ handle.allocator \in Allocator
          /\ IsFunction(handle)
      BY <2>1, AllocatorsGiven DEF GoodTables, HandleGood, Records
    <3> QED
      BY <3>1 DEF IsFunction
  <2>6. outstanding \in [Allocator -> Nat]
    BY <2>1, OutstandingType DEF Owned
  <2>7. outcome \in {"none", "yes", "no", "threw"}
    BY <2>1 DEF RestGiven
  <2> QED
    BY <2>2, <2>3, <2>4, <2>5, <2>6, <2>7 DEF TypeOK
<1>2. Spec => [](GivenTables /\ Owned)
  BY OwnedInvariant
<1>3. Spec => []Records
  BY RecordsInvariant
<1> QED
  BY <1>1, <1>2, <1>3, PTL

=============================================================================
