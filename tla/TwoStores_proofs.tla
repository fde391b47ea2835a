-------------------------- MODULE TwoStores_proofs --------------------------
(***************************************************************************)
(* What copies, moves, swaps and merges do to the elements, for any number *)
(* of containers and elements: they implement TwoStores, and containers    *)
(* compare equal when they hold the same elements.                         *)
(*                                                                         *)
(* While a loop runs, the abstract contents are those from before it.  The *)
(* invariant says how far it has come: what is in the target and what is   *)
(* still to do make up the source of a copy or a move, and a merge has     *)
(* moved free elements only and has all the others of them ahead.          *)
(***************************************************************************)
EXTENDS TwoTables_proofs

(* Where a step throws, no element was moved from: a move does not throw,  *)
(* and a merge only where it looks up or allocates.                        *)
ElementsSurvive ==
  \A op \in Moving \union {"merge"} : \A site \in StepSites :
    <<op, site>> \in Throws => op = "merge" /\ site \in {"lookup", "chunk"}

KeysApart(elements) ==
  \A d, e \in elements : KeyOf[d] = KeyOf[e] => d = e

KeysOf(elements) == {KeyOf[e] : e \in elements}

(* Only the source of a move has elements that were moved from.            *)
PureTables ==
  \A t \in Name :
    Alive(t) /\ (Idle \/ call.op \notin Moving \/ t # call.from) =>
      Values(table[t]) \subseteq Element

(* The elements a loop has still to do. *)
Pending == {from.arena.value[call.todo[i]] : i \in 1 .. Len(call.todo)}

Source == call.before[call.from]
Target == call.before[call.to]
FreeElements == {e \in Source : KeyOf[e] \notin KeysOf(Target)}
Moved == Source \ Values(from)

LoopRefines ==
  /\ call.before = [t \in Name |-> call.before[t]]
  /\ Source \subseteq Element
  /\ KeysApart(Source)
  /\ \A t \in Name \ {call.to, call.from} : call.before[t] = ValuesOf(t)
  /\ call.op \in Copying => Values(from) = Source
  /\ call.op \in Copying \union Moving => Values(to) \union Pending = Source
  /\ call.op = "merge" => /\ Values(from) \subseteq Source
                          /\ Values(to) = Target \union Moved
                          /\ Moved \subseteq FreeElements
                          /\ FreeElements \intersect Values(from) \subseteq Pending

TInv ==
  /\ GoodTables
  /\ PureTables
  /\ ~Idle => LoopRefines

-----------------------------------------------------------------------------
(* What the operations do to the elements of a table. *)

LEMMA ValuesAreStored == \A r : Values(r) = L!Stored(r.arena)
BY ArenaOperators DEF Values, L!Stored

LEMMA GoodValues ==
  ASSUME NEW p, NEW r, Good(r, p)
  PROVE  /\ Values(r) \subseteq Element \union {MovedFrom}
         /\ Size(r) = 0 => Values(r) = {}
         /\ Values(r) \subseteq Element =>
              KeysApart(Values(r)) /\ L!Settled(r.arena)
         /\ \A e : contains(r, e) <=> KeyOf[e] \in KeysOf(Values(r))
         /\ NoTableIsNone => r # NoTable
<1>1. /\ \A n \in L!Linked(r.arena) : r.arena.value[n] \in Element \union {MovedFrom}
      /\ r.arena.indexed = L!Linked(r.arena)
      /\ Len(r.arena.iteration) = 0 <=> L!Linked(r.arena) = {}
  BY ProperElements DEF Good
<1>2. Values(r) = {r.arena.value[n] : n \in L!Linked(r.arena)}
  BY ValuesAreStored DEF L!Stored
<1>3. ASSUME Values(r) \subseteq Element
      PROVE  KeysApart(Values(r)) /\ L!Settled(r.arena)
  BY <1>2, <1>3 DEF Good, Proper, Distinct, L!Settled, L!KeysDistinct, KeysApart
<1>4. \A e : contains(r, e) <=> KeyOf[e] \in KeysOf(Values(r))
  BY <1>1, <1>2 DEF contains, At, KeysOf
<1> QED
  BY <1>1, <1>2, <1>3, <1>4 DEF Size, NoTableIsNone, Good

LEMMA SameValues ==
  ASSUME NEW r, NEW q, L!SameElements(r.arena, q.arena)
  PROVE  Values(q) = Values(r)
BY ValuesAreStored DEF L!SameElements, L!Stored

LEMMA EmplacedValues ==
  ASSUME NEW p, NEW r, Good(r, p), NEW e \in Element \union {MovedFrom}
  PROVE  LET q == emplace_impl(r, e)
         IN  /\ contains(r, e) => Values(q) = Values(r)
             /\ ~contains(r, e) => Values(q) = Values(r) \union {e}
<1> DEFINE q == emplace_impl(r, e)
<1>1. /\ contains(r, e) => L!SameElements(r.arena, q.arena)
      /\ ~contains(r, e) => \E n : L!WithElement(r.arena, q.arena, n, e)
  BY EmplaceGood
<1> HIDE DEF q
<1>2. CASE contains(r, e)
  BY <1>1, <1>2, SameValues DEF q
<1>3. CASE ~contains(r, e)
  <2>1. PICK n : L!WithElement(r.arena, q.arena, n, e)
    BY <1>1, <1>3
  <2>2. L!Stored(q.arena) = L!Stored(r.arena) \union {e}
    BY <2>1 DEF L!WithElement, L!Stored
  <2> QED
    BY <1>3, <2>2, ValuesAreStored DEF q
<1> QED
  BY <1>2, <1>3

LEMMA ErasedValues ==
  ASSUME NEW p, NEW r, Good(r, p), Values(r) \subseteq Element
  PROVE  /\ \A n \in L!Linked(r.arena) :
              Values([r EXCEPT !.arena = Arena!erase_located(r.arena, n)]) =
                Values(r) \ {r.arena.value[n]}
         /\ \A e \in Values(r) : Values(erase_value(r, e)) = Values(r) \ {e}
<1>1. L!Settled(r.arena)
  BY GoodValues
<1>2. ASSUME NEW n \in L!Linked(r.arena), NEW q, q.arena = L!erase_located(r.arena, n)
      PROVE  Values(q) = Values(r) \ {r.arena.value[n]}
  <2>1. L!WithoutElement(r.arena, q.arena, n)
    BY <1>2, LessIsProper DEF Good
  <2>2. L!Stored(q.arena) = L!Stored(r.arena) \ {r.arena.value[n]}
    BY <1>1, <2>1, ElementStorage, L!LessIsSettled
  <2> QED
    BY <2>2, ValuesAreStored
<1>3. ASSUME NEW n \in L!Linked(r.arena)
      PROVE  Values([r EXCEPT !.arena = Arena!erase_located(r.arena, n)]) =
               Values(r) \ {r.arena.value[n]}
  <2>1. [r EXCEPT !.arena = Arena!erase_located(r.arena, n)].arena
          = L!erase_located(r.arena, n)
    BY NodeErasedGood
  <2> QED
    BY <1>2, <2>1
<1>4. ASSUME NEW e \in Values(r)
      PROVE  Values(erase_value(r, e)) = Values(r) \ {e}
  <2>1. PICK n \in L!Linked(r.arena) :
          /\ r.arena.value[n] = e
          /\ erase_value(r, e).arena = L!erase_located(r.arena, n)
    BY EraseGood
  <2> QED
    BY <1>2, <2>1
<1> QED
  BY <1>3, <1>4

LEMMA VoidValues ==
  ASSUME NEW r, Void(r)
  PROVE  Values(r) = {}
<1>1. L!Linked(r.arena) = {}
  BY ProperElements DEF Void, Size
<1> QED
  BY <1>1, ValuesAreStored DEF L!Stored
-----------------------------------------------------------------------------
(* Between the calls the contents are those of the tables.                 *)

Holding(r) == IF r = NoTable THEN {} ELSE Values(r)

AbstractStep == [Stores!Next]_(Stores!vars)

Between == Idle /\ Idle' /\ GoodTables /\ PureTables

LEMMA OneShown ==
  ASSUME Between, NEW t \in Name, NEW r, table' = [table EXCEPT ![t] = r],
         Holding(r) \subseteq Element
  PROVE  /\ PureTables'
         /\ Contents' = [Contents EXCEPT ![t] = Holding(r)]
<1>1. \A u \in Name : table'[u] = IF u = t THEN r ELSE table[u]
  BY DEF Between, GoodTables
<1>2. \A u \in Name : ValuesOf(u)' = IF u = t THEN Holding(r) ELSE ValuesOf(u)
  BY <1>1 DEF ValuesOf, Holding, Alive, Values
<1>3. PureTables'
  BY <1>1 DEF Between, PureTables, Holding, Alive
<1>4. Contents' = [u \in Name |-> ValuesOf(u)']
  BY DEF Contents
<1>5. Contents = [u \in Name |-> ValuesOf(u)]
  BY DEF Contents
<1> QED
  BY <1>2, <1>3, <1>4, <1>5

(* Calls that leave the elements alone.                                    *)
LEMMA NothingShown ==
  ASSUME Between, NEW t \in Name, NEW r, table' = [table EXCEPT ![t] = r],
         Holding(r) = Contents[t], handle' = handle, outcome' = "yes"
  PROVE  PureTables' /\ AbstractStep
<1>1. Contents[t] = Holding(table[t]) /\ Holding(table[t]) \subseteq Element
  BY DEF Contents, ValuesOf, Holding, Alive, Between, PureTables
<1>2. PureTables' /\ Contents' = [Contents EXCEPT ![t] = Contents[t]]
  BY <1>1, OneShown
<1>3. Contents' = Contents
  BY <1>2 DEF Contents
<1>4. Stores!Invisible
  BY <1>3 DEF Stores!Invisible, Between
<1> QED
  BY <1>2, <1>4 DEF AbstractStep, Stores!Next

(* The abstract steps of one table, and of two. *)
LEMMA OneBecomes ==
  ASSUME Between, NEW t \in Name, NEW r, table' = [table EXCEPT ![t] = r],
         Holding(r) \subseteq Element, handle' = handle
  PROVE  PureTables' /\ Stores!Becomes(t, Holding(r))
<1>1. PureTables' /\ Contents' = [Contents EXCEPT ![t] = Holding(r)]
  BY OneShown
<1> QED
  BY <1>1 DEF Stores!Becomes, Between

LEMMA BothBecome ==
  ASSUME Between, NEW t \in Name, NEW s \in Name, NEW r, NEW q,
         table' = [table EXCEPT ![t] = r, ![s] = q],
         Holding(r) \union Holding(q) \subseteq Element, handle' = handle
  PROVE  PureTables' /\ Stores!BothBecome(t, Holding(r), s, Holding(q))
<1>1. \A u \in Name : table'[u] = IF u = s THEN q ELSE IF u = t THEN r ELSE table[u]
  BY DEF Between, GoodTables
<1>2. \A u \in Name : ValuesOf(u)' = IF u = s THEN Holding(q)
                                     ELSE IF u = t THEN Holding(r) ELSE ValuesOf(u)
  BY <1>1 DEF ValuesOf, Holding, Alive, Values
<1>3. PureTables'
  BY <1>1 DEF Between, PureTables, Holding, Alive
<1>4. Contents' = [u \in Name |-> ValuesOf(u)']
  BY DEF Contents
<1>5. Contents = [u \in Name |-> ValuesOf(u)]
  BY DEF Contents
<1>6. Contents' = [Contents EXCEPT ![t] = Holding(r), ![s] = Holding(q)]
  BY <1>2, <1>4, <1>5
<1> QED
  BY <1>3, <1>6 DEF Stores!BothBecome, Between

(* What the abstract specification reads. *)
LEMMA ShownContents ==
  ASSUME Between, NEW t \in Name
  PROVE  /\ (IF Idle THEN Contents ELSE call.before)[t] = Holding(table[t])
         /\ Holding(table[t]) \subseteq Element
         /\ Alive(t) => Holding(table[t]) = Values(table[t])
BY DEF Between, Contents, ValuesOf, Holding, Alive, PureTables
-----------------------------------------------------------------------------
(* The calls of one table. *)

LEMMA AliveHolds ==
  ASSUME NoTableIsNone, NEW p, NEW r, Good(r, p)
  PROVE  r # NoTable /\ Holding(r) = Values(r)
BY GoodValues DEF Holding

LEMMA InsertShown ==
  ASSUME NoTableIsNone, Between, NEW t \in Name, Alive(t), NEW e \in Element
  PROVE  LET q == emplace_impl(table[t], e)
         IN  /\ contains(table[t], e) <=>
                  KeyOf[e] \in Stores!Keys((IF Idle THEN Contents ELSE call.before)[t])
             /\ contains(table[t], e) => Holding(q) = Holding(table[t])
             /\ ~contains(table[t], e) => Holding(q) = Holding(table[t]) \union {e}
<1> DEFINE q == emplace_impl(table[t], e)
<1>1. Good(table[t], program)
  BY DEF Between, GoodTables
<1>2. Good(q, program)
  BY <1>1, EmplaceGood
<1>3. Holding(q) = Values(q) /\ Holding(table[t]) = Values(table[t])
  BY <1>1, <1>2, AliveHolds
<1>4. /\ contains(table[t], e) => Values(q) = Values(table[t])
      /\ ~contains(table[t], e) => Values(q) = Values(table[t]) \union {e}
  BY <1>1, EmplacedValues
<1>5. contains(table[t], e) <=> KeyOf[e] \in KeysOf(Values(table[t]))
  BY <1>1, GoodValues
<1>6. (IF Idle THEN Contents ELSE call.before)[t] = Values(table[t])
  BY ShownContents
<1> HIDE DEF q
<1> QED
  BY <1>3, <1>4, <1>5, <1>6 DEF q, Stores!Keys, KeysOf
LEMMA OneTableShown ==
  ASSUME NoTableIsNone, Between, NEW t \in Name,
         \/ \E a, h : Construct(t, a, h)
         \/ Destroy(t) \/ Clear(t) \/ Shrink(t) \/ InsertHandle(t)
         \/ \E e \in program.elements : Emplace(t, e) \/ Erase(t, e) \/ Extract(t, e)
         \/ \E z \in program.factors : SetMaxLoadFactor(t, z)
  PROVE  PureTables' /\ AbstractStep
<1> DEFINE r == table[t]
           shown == (IF Idle THEN Contents ELSE call.before)[t]
<1>1. Alive(t) => Good(r, program) /\ Holding(r) = Values(r)
  BY AliveHolds DEF Between, GoodTables
<1>2. shown = Holding(r) /\ Holding(r) \subseteq Element /\ Contents[t] = Holding(r)
  BY ShownContents DEF Between
<1> HIDE DEF shown
<1>3. ASSUME NEW q, Good(q, program), L!SameElements(r.arena, q.arena), Alive(t),
             Changes(t, q, "yes")
      PROVE  PureTables' /\ AbstractStep
  <2>1. Holding(q) = Contents[t]
    BY <1>1, <1>2, <1>3, SameValues, AliveHolds
  <2> QED
    BY <1>3, <2>1, NothingShown DEF Changes, Returns
<1>4. ASSUME NEW a, NEW h, Construct(t, a, h)
      PROVE  PureTables' /\ AbstractStep
  <2> DEFINE q == Fresh(a, kDefaultMaxLoadFactor, h)
  <2>1. Good(q, program) /\ Void(q)
    BY FreshGood DEF kDefaultMaxLoadFactor
  <2>2. ~Alive(t) /\ table' = [table EXCEPT ![t] = q] /\ handle' = handle /\ outcome' = "yes"
    BY <1>4 DEF Construct, Returns
  <2> HIDE DEF q
  <2>3. Holding(q) = {} /\ Holding(r) = {}
    BY <2>1, <2>2, AliveHolds, VoidValues DEF Holding, Alive
  <2> QED
    BY <1>2, <2>2, <2>3, NothingShown
<1>5. ASSUME NEW q, Holding(q) = {}, table' = [table EXCEPT ![t] = q],
             handle' = handle, outcome' = "yes"
      PROVE  PureTables' /\ AbstractStep
  <2>1. PureTables' /\ Stores!Becomes(t, {})
    BY <1>5, OneBecomes
  <2>2. Stores!Clear(t)
    BY <1>5, <2>1 DEF Stores!Clear
  <2> QED
    BY <2>1, <2>2 DEF AbstractStep, Stores!Next
<1>6. CASE Destroy(t)
  BY <1>5, <1>6 DEF Destroy, Holding, Returns
<1>7. CASE Clear(t)
  <2>1. Good(clear(r), program) /\ Void(clear(r))
    BY <1>1, <1>7, EmptiedGood DEF Clear
  <2>2. Holding(clear(r)) = {}
    BY <2>1, AliveHolds, VoidValues
  <2> QED
    BY <1>5, <1>7, <2>2 DEF Clear, Changes, Returns
<1>8. CASE Shrink(t)
  BY <1>1, <1>3, <1>8, ShrinkGood DEF Shrink
<1>9. ASSUME NEW z \in program.factors, SetMaxLoadFactor(t, z)
      PROVE  PureTables' /\ AbstractStep
  <2> DEFINE f == IF z > 0 THEN z ELSE kDefaultMaxLoadFactor
             q == [r EXCEPT !.max_load_factor = f,
                            !.max_load_capacity =
                              IF r.bucket_count = 0 THEN r.max_load_capacity
                              ELSE compute_load_capacity(r.bucket_count, f)]
  <2>1. Good(r, program) /\ Alive(t) /\ Changes(t, q, "yes")
    BY <1>1, <1>9 DEF SetMaxLoadFactor
  <2>2. SizesAreGiven => f \in 1 .. 100
    BY ProgramGood DEF kDefaultMaxLoadFactor, Between
  <2>3. q.arena = r.arena
    BY <2>1 DEF Good, IsTable
  <2> HIDE DEF f
  <2>4. Good(q, program)
    BY <2>1, <2>2, FactorGood
  <2> HIDE DEF q
  <2> QED
    BY <1>3, <2>1, <2>3, <2>4 DEF L!SameElements
<1>10. ASSUME NEW e \in program.elements, Emplace(t, e)
       PROVE  PureTables' /\ AbstractStep
  <2> DEFINE q == emplace_impl(r, e)
  <2>1. /\ e \in Element /\ Alive(t) /\ handle' = handle /\ table' = [table EXCEPT ![t] = q]
        /\ outcome' = IF contains(r, e) THEN "no" ELSE "yes"
    BY <1>10, ProgramGood DEF Emplace, Changes, Returns, Between
  <2>2. /\ contains(r, e) <=> KeyOf[e] \in Stores!Keys(shown)
        /\ contains(r, e) => Holding(q) = Holding(r)
        /\ ~contains(r, e) => Holding(q) = Holding(r) \union {e}
    BY <2>1, InsertShown DEF shown
  <2> HIDE DEF q
  <2>3. PureTables' /\ Stores!Becomes(t, Holding(q))
    BY <1>2, <2>1, <2>2, OneBecomes
  <2>4. Stores!Insert(t, e)
    <3>1. CASE contains(r, e)
      <4>1. PureTables' /\ Contents' = [Contents EXCEPT ![t] = Contents[t]]
        BY <1>2, <2>1, <2>2, <3>1, OneShown
      <4>2. Contents' = Contents
        BY <4>1 DEF Contents
      <4> QED
        BY <2>1, <2>2, <3>1, <4>2 DEF Stores!Insert, shown, Between
    <3>2. CASE ~contains(r, e)
      BY <1>2, <2>1, <2>2, <2>3, <3>2 DEF Stores!Insert, shown
    <3> QED
      BY <3>1, <3>2
  <2> QED
    BY <2>1, <2>3, <2>4 DEF AbstractStep, Stores!Next
<1>11. ASSUME NEW e \in program.elements, Erase(t, e) \/ Extract(t, e)
       PROVE  PureTables' /\ AbstractStep
  <2> DEFINE q == erase_value(r, e)
  <2>1. Good(r, program) /\ e \in Values(r) /\ e \in Element /\ Holding(r) = Values(r)
    BY <1>1, <1>11, ProgramGood DEF Erase, Extract, ValuesOf, Between
  <2>2. Good(q, program) /\ Values(q) = Values(r) \ {e}
    BY <1>2, <2>1, EraseGood, ErasedValues
  <2> HIDE DEF q
  <2>3. Holding(q) = shown \ {e} /\ Holding(q) \subseteq Element
    BY <1>2, <2>1, <2>2, AliveHolds
  <2>4. table' = [table EXCEPT ![t] = q] /\ outcome' = "yes"
    BY <1>11 DEF Erase, Extract, Changes, Returns, q
  <2>5. CASE Erase(t, e)
    <3>1. PureTables' /\ Stores!Becomes(t, Holding(q))
      BY <2>3, <2>4, <2>5, OneBecomes DEF Erase, Changes
    <3>2. Stores!Erase(t, e)
      BY <1>2, <2>1, <2>3, <2>4, <3>1 DEF Stores!Erase, shown
    <3> QED
      BY <2>1, <3>1, <3>2 DEF AbstractStep, Stores!Next
  <2>6. CASE Extract(t, e)
    <3>1. PureTables' /\ Contents' = [Contents EXCEPT ![t] = Contents[t] \ {e}]
      BY <1>2, <2>3, <2>4, OneShown
    <3>2. handle'.value = e
      BY <2>6 DEF Extract
    <3>3. e # NoElement
      BY <2>1, TwoTablesAssumption
    <3>4. Stores!Extract(t, e)
      BY <1>2, <2>1, <2>4, <3>1, <3>2, <3>3 DEF Stores!Extract, shown, Between
    <3> QED
      BY <2>1, <3>1, <3>4 DEF AbstractStep, Stores!Next
  <2> QED
    BY <1>11, <2>5, <2>6
<1>12. CASE InsertHandle(t)
  <2> DEFINE e == handle.value
             q == emplace_impl(r, e)
  <2>1. e \in Element /\ e # NoElement /\ Alive(t)
    BY <1>12 DEF InsertHandle, Between, GoodTables, HandleGood
  <2>2. /\ contains(r, e) <=> KeyOf[e] \in Stores!Keys(shown)
        /\ ~contains(r, e) => Holding(q) = Holding(r) \union {e}
    BY <2>1, InsertShown DEF shown
  <2>3. CASE contains(r, e)
    <3>1. UNCHANGED <<table, handle, call>> /\ outcome' = "no"
      BY <1>12, <2>3 DEF InsertHandle, Returns
    <3>2. Contents' = Contents /\ PureTables'
      BY <3>1 DEF Contents, ValuesOf, Alive, Between, PureTables
    <3>3. Stores!InsertHeld(t)
      BY <2>1, <2>2, <2>3, <3>1, <3>2 DEF Stores!InsertHeld, shown, Between
    <3> QED
      BY <3>2, <3>3 DEF AbstractStep, Stores!Next
  <2>4. CASE ~contains(r, e)
    <3>1. /\ table' = [table EXCEPT ![t] = q] /\ outcome' = "yes"
          /\ handle' = [handle EXCEPT !.value = NoElement]
      BY <1>12, <2>4 DEF InsertHandle, Returns
    <3>2. handle'.value = NoElement
      BY <3>1 DEF Between, GoodTables, HandleGood
    <3>3. PureTables' /\ Contents' = [Contents EXCEPT ![t] = Contents[t] \union {e}]
      <4> HIDE DEF q, e
      <4> QED
        BY <1>2, <2>1, <2>2, <2>4, <3>1, OneShown
    <3>4. Stores!InsertHeld(t)
      BY <1>2, <2>1, <2>2, <2>4, <3>1, <3>2, <3>3 DEF Stores!InsertHeld, shown, Between
    <3> QED
      BY <3>3, <3>4 DEF AbstractStep, Stores!Next
  <2> QED
    BY <2>3, <2>4
<1> QED
  BY <1>4, <1>6, <1>7, <1>8, <1>9, <1>10, <1>11, <1>12
-----------------------------------------------------------------------------
(* The calls of two tables, up to the first element of their loops.        *)

LEMMA BeginShown ==
  ASSUME NoTableIsNone, GoodTables, PureTables, Idle,
         NEW t \in Name, NEW s \in Name, t # s, Alive(s),
         NEW op \in Copying \union Moving \union {"merge"},
         NEW r, Good(r, program), Begins(op, t, s, r),
         IF op = "merge" THEN Alive(t) /\ r = table[t] ELSE Values(r) = {}
  PROVE  PureTables' /\ LoopRefines' /\ ~Idle' /\ AbstractStep
<1> DEFINE f == table'[s]
<1>1. /\ call' = [op |-> op, to |-> t, from |-> s,
                  todo |-> table[s].arena.iteration, before |-> Contents]
      /\ handle' = handle /\ outcome' = outcome
      /\ table'[t] = r /\ f \in {table[s], HashMoved(table[s])}
      /\ \A u \in Name \ {t, s} : table'[u] = table[u]
  BY LoopBegun DEF GoodTables
<1>2. /\ call'.op = op /\ call'.to = t /\ call'.from = s
      /\ call'.todo = table[s].arena.iteration /\ call'.before = Contents
      /\ ~Idle'
  BY <1>1 DEF Idle, Copying, Moving
<1>3. \A u \in Name : table'[u] = IF u = t THEN r ELSE IF u = s THEN f ELSE table[u]
  BY <1>1
<1> HIDE DEF f
<1>4. Good(table[s], program) /\ Values(table[s]) \subseteq Element /\ r # NoTable
  BY GoodValues DEF GoodTables, PureTables
<1>5. KeysApart(Values(table[s])) /\ Contents[s] = Values(table[s])
  BY <1>4, GoodValues DEF Contents, ValuesOf
<1>6. f # NoTable /\ f.arena = table[s].arena /\ Values(f) = Values(table[s])
  <2>1. Good(f, program) /\ f.arena = table[s].arena
    BY <1>1, <1>4, HashMovedGood
  <2> QED
    BY <2>1, GoodValues DEF Values
<1>7. Source' = Values(table[s]) /\ Values(from)' = Values(table[s])
  <2>1. from' = f
    BY <1>2, <1>3 DEF from
  <2> QED
    BY <1>2, <1>5, <1>6, <2>1 DEF Source, Values
<1>8. Pending' = Values(table[s])
  <2>1. Pending' = {table[s].arena.value[table[s].arena.iteration[i]] :
                      i \in 1 .. Len(table[s].arena.iteration)}
    BY <1>2, <1>3, <1>6 DEF Pending, from
  <2>2. Values(table[s]) = {table[s].arena.value[n] : n \in L!Linked(table[s].arena)}
    BY ValuesAreStored DEF L!Stored
  <2> QED
    BY <2>1, <2>2 DEF L!Linked
<1>9. Values(to)' = Values(r)
  BY <1>2, <1>3 DEF to, Values
<1>10. op = "merge" => Target' = Values(r)
  BY <1>2 DEF Target, Contents, ValuesOf
<1>11. \A u \in Name \ {t, s} : call'.before[u] = ValuesOf(u)'
  <2>1. \A u \in Name \ {t, s} : ValuesOf(u)' = ValuesOf(u)
    BY <1>3 DEF ValuesOf, Alive, Values
  <2> QED
    BY <1>2, <2>1 DEF Contents
<1>12. call'.before = [u \in Name |-> call'.before[u]]
  BY <1>2 DEF Contents
<1>13. LoopRefines'
  <2>1. op \in Copying \union Moving => op # "merge"
    BY DEF Copying, Moving
  <2>2. op = "merge" => Moved' = {}
    BY <1>7 DEF Moved
  <2>3. /\ call'.op \in Copying => Values(from)' = Source'
        /\ call'.op \in Copying \union Moving => Values(to)' \union Pending' = Source'
    BY <1>2, <1>7, <1>8, <1>9, <2>1
  <2>4. call'.op = "merge" => /\ Values(from)' \subseteq Source'
                              /\ Values(to)' = Target' \union Moved'
                              /\ Moved' \subseteq FreeElements'
                              /\ FreeElements' \intersect Values(from)' \subseteq Pending'
    BY <1>2, <1>7, <1>8, <1>9, <1>10, <2>2
  <2>5. Source' \subseteq Element /\ KeysApart(Source)'
    BY <1>4, <1>5, <1>7 DEF KeysApart
  <2>6. \A u \in Name \ {call'.to, call'.from} : call'.before[u] = ValuesOf(u)'
    BY <1>2, <1>11
  <2> QED
    BY <1>12, <2>3, <2>4, <2>5, <2>6 DEF LoopRefines
<1>14. PureTables'
  <2>1. Values(r) \subseteq Element
    BY DEF PureTables
  <2>2. \A u \in Name : table'[u] # NoTable => Values(table'[u]) \subseteq Element
    BY <1>3, <1>4, <1>6, <2>1 DEF PureTables, Alive
  <2> QED
    BY <2>2 DEF PureTables, Alive
<1>15. AbstractStep
  BY <1>1, <1>2 DEF AbstractStep, Stores!vars
<1> QED
  BY <1>2, <1>13, <1>14, <1>15

LEMMA ReservedShown ==
  ASSUME NEW p, NEW r, Void(r), NEW s, NEW m, Good(table[s], m)
  PROVE  Good(Reserved(r, s), p) /\ Values(Reserved(r, s)) = {}
<1>1. Size(table[s]) \in Nat
  BY ProperElements DEF Good, Size
<1>2. Good(Reserved(r, s), p) /\ L!SameElements(r.arena, Reserved(r, s).arena)
  BY <1>1, Reserving DEF Reserved, Void
<1> QED
  BY <1>2, SameValues, VoidValues
(* What a call of two tables leaves: it is done, or its loop has begun.    *)
Shows == PureTables' /\ AbstractStep /\ (~Idle' => LoopRefines')

LEMMA CopyShown ==
  ASSUME NoTableIsNone, GoodTables, PureTables, Idle,
         NEW t \in Name, NEW s \in Name, t # s, Alive(s),
         NEW op \in Copying, NEW r, Void(r), Good(r, program) \/ Size(table[s]) # 0,
         copy_contents_from(op, t, s, r)
  PROVE  Shows
<1>1. Good(table[s], program)
  BY DEF GoodTables
<1>2. CASE Size(table[s]) # 0
  <2> DEFINE q == Reserved(r, s)
  <2>1. Good(q, program) /\ Values(q) = {}
    BY <1>1, ReservedShown
  <2>2. Begins(op, t, s, q) /\ op \in Copying \union Moving \union {"merge"} /\ op # "merge"
    BY <1>2 DEF copy_contents_from, Begins, Copying
  <2> HIDE DEF q
  <2> QED
    BY <2>1, <2>2, BeginShown DEF Shows
<1>3. CASE Size(table[s]) = 0
  <2>1. /\ table' = [table EXCEPT ![t] = r] /\ handle' = handle
        /\ outcome' = "yes" /\ Between
    BY <1>3 DEF copy_contents_from, Returns, Between, Idle
  <2>2. Holding(r) = {} /\ Holding(table[s]) = {}
    BY <1>1, <1>3, AliveHolds, VoidValues, GoodValues
  <2>3. PureTables' /\ Stores!Becomes(t, Holding(r))
    BY <2>1, <2>2, OneBecomes
  <2>4. Stores!Copy(t, s)
    BY <2>1, <2>2, <2>3, ShownContents DEF Stores!Copy
  <2> QED
    BY <2>1, <2>3, <2>4 DEF Shows, AbstractStep, Stores!Next, Between
<1> QED
  BY <1>2, <1>3

LEMMA MoveShown ==
  ASSUME NoTableIsNone, Between, NEW t \in Name, NEW s \in Name, t # s, Alive(s),
         NEW r, Good(r, program), r.arena = table[s].arena,
         NEW source, Good(source, program), source.arena = table[s].arena,
         table' = [table EXCEPT ![t] = r, ![s] = HashMoved(reset_to_empty_state(source))],
         handle' = handle, outcome' = "yes"
  PROVE  Shows
<1> DEFINE e == reset_to_empty_state(source)
           q == HashMoved(e)
<1>1. Good(e, program) /\ Void(e)
  BY EmptiedGood
<1>2. Good(q, program) /\ q.arena = e.arena
  BY <1>1, HashMovedGood
<1> HIDE DEF e
<1>3. Values(e) = {} /\ Values(q) = Values(e) /\ Values(r) = Values(table[s])
  BY <1>1, <1>2, VoidValues DEF Values
<1> HIDE DEF q
<1>4. Holding(r) = Values(table[s]) /\ Holding(q) = {}
  BY <1>2, <1>3, AliveHolds
<1>5. Stores!BothBecome(t, Holding(r), s, Holding(q)) /\ PureTables'
  BY <1>4, BothBecome, ShownContents DEF q, e
<1>6. Stores!Move(t, s)
  BY <1>4, <1>5, ShownContents DEF Stores!Move
<1> QED
  BY <1>5, <1>6 DEF Shows, AbstractStep, Stores!Next, Between

LEMMA ElementWiseMoveShown ==
  ASSUME NoTableIsNone, GoodTables, PureTables, Idle,
         NEW t \in Name, NEW s \in Name, t # s, Alive(s),
         NEW op \in Moving, NEW r, Void(r), Begins(op, t, s, Reserved(r, s))
  PROVE  Shows
<1> DEFINE q == Reserved(r, s)
<1>1. Good(table[s], program)
  BY DEF GoodTables
<1>2. Good(q, program) /\ Values(q) = {}
  BY <1>1, ReservedShown
<1>3. Begins(op, t, s, q) /\ op \in Copying \union Moving \union {"merge"} /\ op # "merge"
  BY DEF Moving
<1> HIDE DEF q
<1> QED
  BY <1>2, <1>3, BeginShown DEF Shows

LEMMA StealShown ==
  ASSUME NoTableIsNone, GoodTables, PureTables, Idle,
         NEW t \in Name, NEW s \in Name, t # s, Alive(s), NEW r,
         NEW source \in {table[s], HashMoved(table[s])}, Steal(t, s, r, source)
  PROVE  Shows
<1>1. Good(source, program) /\ source.arena = table[s].arena
  BY HashMovedGood DEF GoodTables
<1>2. Good(Stolen(r, source), program) /\ Stolen(r, source).arena = table[s].arena
  BY <1>1, StolenGood
<1>3. /\ table' = [table EXCEPT ![t] = Stolen(r, source),
                                ![s] = HashMoved(reset_to_empty_state(source))]
      /\ handle' = handle /\ outcome' = "yes" /\ Between
  BY DEF Steal, Between, Returns, Idle
<1> QED
  BY <1>1, <1>2, <1>3, MoveShown

LEMMA TwoOfShown ==
  ASSUME NoTableIsNone, GoodTables, PureTables, Idle,
         NEW t \in Name, NEW s \in Name, t # s, TwoOf(t, s)
  PROVE  Shows
<1>1. /\ Alive(t) => Good(table[t], program)
      /\ Alive(s) => Good(table[s], program)
  BY DEF GoodTables
<1>2. SizesAreGiven /\ Alive(s) => table[s].max_load_factor \in 1 .. 100
  BY <1>1 DEF Good, Sized
<1>3. ASSUME NEW a, CopyConstruct(t, s, a) \/ MoveConstructWith(t, s, a)
      PROVE  Shows
  <2> DEFINE r == Fresh(a, table[s].max_load_factor, table[s].hash_function)
  <2>1. Alive(s)
    BY <1>3 DEF CopyConstruct, MoveConstructWith
  <2>2. Void(r) /\ Good(r, program)
    BY <1>2, <2>1, FreshGood
  <2>3. \/ copy_contents_from("copy_construct", t, s, r)
        \/ \E source \in {table[s], HashMoved(table[s])} : Steal(t, s, r, source)
        \/ Begins("move_construct", t, s, Reserved(r, s))
    BY <1>3 DEF CopyConstruct, MoveConstructWith, Begins
  <2> HIDE DEF r
  <2> QED
    BY <2>1, <2>2, <2>3, CopyShown, StealShown, ElementWiseMoveShown DEF Copying, Moving
<1>4. CASE MoveConstruct(t, s)
  <2>1. /\ table' = [table EXCEPT ![t] = table[s],
                                  ![s] = HashMoved(reset_to_empty_state(table[s]))]
        /\ Between /\ Alive(s) /\ handle' = handle /\ outcome' = "yes"
    BY <1>4 DEF MoveConstruct, Between, Idle, Returns
  <2> QED
    BY <1>1, <2>1, MoveShown
<1>4a. ASSUME Alive(t), Alive(s)
      PROVE  Void(EmptiedForCopy(t, s)) /\ Void(EmptiedForMove(t, s))
  <2>1. Void(clear(table[t])) /\ Void(reset_to_empty_state(table[t]))
    BY <1>1, <1>4a, EmptiedGood
  <2>2. Void(Emptied(t, s))
    BY <2>1, VoidWithAllocator DEF Emptied
  <2> QED
    BY <1>2, <1>4a, <2>1, <2>2, VoidWithFactor DEF EmptiedForCopy, EmptiedForMove
<1>5. CASE CopyAssign(t, s)
  <2> DEFINE r == EmptiedForCopy(t, s)
  <2>1. Alive(t) /\ Alive(s) /\ copy_contents_from("copy", t, s, r)
        /\ (program.empty_copies \/ Size(table[s]) > 0)
    BY <1>5 DEF CopyAssign
  <2>2. Void(r)
    BY <1>4a, <2>1
  <2> HIDE DEF r
  <2>3. Good(r, program) \/ Size(table[s]) # 0
    BY <2>1, <2>2 DEF Void, Good
  <2> QED
    BY <2>1, <2>2, <2>3, CopyShown DEF Copying
<1>6. CASE MoveAssign(t, s)
  <2>1. Alive(t) /\ Alive(s)
    BY <1>6 DEF MoveAssign
  <2>2. CASE MovesStorage(t, s)
    BY <1>6, <2>1, <2>2, StealShown DEF MoveAssign
  <2>3. CASE ~MovesStorage(t, s)
    <3>1. Begins("move", t, s, Reserved(EmptiedForMove(t, s), s))
      BY <1>6, <2>3 DEF MoveAssign, Begins
    <3>2. Void(EmptiedForMove(t, s))
      BY <1>4a, <2>1
    <3> QED
      BY <2>1, <3>1, <3>2, ElementWiseMoveShown DEF Moving
  <2> QED
    BY <2>2, <2>3
<1>7. CASE Merge(t, s)
  <2>1. Alive(t) /\ Alive(s) /\ Begins("merge", t, s, table[t])
    BY <1>7 DEF Merge, Begins
  <2> QED
    BY <1>1, <2>1, BeginShown DEF Shows
<1>8. CASE Swap(t, s)
  <2>1. /\ table' = [table EXCEPT ![t] = table[s], ![s] = table[t]]
        /\ handle' = handle /\ outcome' = "yes" /\ Between
    BY <1>8 DEF Swap, Between, Idle, Returns
  <2>2. Stores!BothBecome(t, Holding(table[s]), s, Holding(table[t])) /\ PureTables'
    BY <2>1, ShownContents, BothBecome
  <2>3. Stores!Swap(t, s)
    BY <2>1, <2>2, ShownContents DEF Stores!Swap
  <2> QED
    BY <2>1, <2>2, <2>3 DEF Shows, AbstractStep, Stores!Next, Between
<1>9. ASSUME NEW op \in {"copy", "move"}, ReserveThrows(op, t, s)
      PROVE  Shows
  <2> DEFINE r == IF op = "copy" THEN EmptiedForCopy(t, s) ELSE EmptiedForMove(t, s)
             q == IF op = "move" THEN HashMoved(table[s]) ELSE table[s]
             before == IF Idle THEN Contents ELSE call.before
  <2>1. /\ Alive(t) /\ Alive(s) /\ r.bucket_count = 0
        /\ table' = [table EXCEPT ![t] = r, ![s] = q]
        /\ handle' = handle /\ outcome' = "threw" /\ Between
    BY <1>9 DEF ReserveThrows, Between, Idle, Returns
  <2>2. Void(r)
    BY <1>4a, <2>1
  <2>3. Good(q, program) /\ q.arena = table[s].arena
    BY <1>1, <2>1, HashMovedGood
  <2> HIDE DEF r, q
  <2>4. Good(r, program)
    BY <2>1, <2>2 DEF Void, Good, Matched
  <2>5. Holding(r) = {} /\ Holding(q) = Values(table[s])
    BY <2>2, <2>3, <2>4, VoidValues, AliveHolds DEF Values
  <2>6. /\ before[s] = Values(table[s]) /\ Values(table[s]) \subseteq Element
        /\ before = [u \in Name |-> before[u]]
    BY <2>1, ShownContents DEF Between, Contents
  <2> HIDE DEF before
  <2>6a. Holding(r) \union Holding(q) \subseteq Element /\ Holding(q) = before[s]
    BY <2>5, <2>6
  <2>6b. PureTables' /\ Stores!BothBecome(t, Holding(r), s, Holding(q))
    BY <2>1, <2>6a, BothBecome
  <2>7. Stores!BothBecome(t, {}, s, before[s]) /\ PureTables'
    BY <2>5, <2>6a, <2>6b
  <2> USE DEF before
  <2>8. [before EXCEPT ![t] = {}, ![s] = before[s]] = [before EXCEPT ![t] = {}]
    BY <2>6
  <2>9. Stores!Becomes(t, {})
    BY <2>7, <2>8 DEF Stores!BothBecome, Stores!Becomes
  <2>10. Stores!CopyThrows(t, s)
    BY <2>1, <2>9 DEF Stores!CopyThrows
  <2> QED
    BY <2>1, <2>7, <2>10 DEF Shows, AbstractStep, Stores!Next, Between
<1> QED
  BY <1>3, <1>4, <1>5, <1>6, <1>7, <1>8, <1>9 DEF TwoOf
-----------------------------------------------------------------------------
(* One element of a loop: nothing is shown, and less is to do.             *)

InLoop == GoodTables /\ PureTables /\ ~Idle /\ LoopGood /\ LoopRefines

Left(q) == {q.arena.value[Tail(call.todo)[i]] : i \in 1 .. Len(Tail(call.todo))}

LEMMA OneLessPending ==
  ASSUME InLoop, call.todo # << >>, NEW q,
         \A m \in L!Linked(from.arena) \ {node} : q.arena.value[m] = from.arena.value[m]
  PROVE  Pending = {value} \union Left(q)
<1> DEFINE S == L!Linked(from.arena)
           todo == call.todo
<1>1. todo \in Seq(S) /\ L!Injective(todo) /\ node = Head(todo)
  BY DEF InLoop, LoopGood, node
<1> HIDE DEF S, todo
<1>2. /\ node \in S /\ Tail(todo) \in Seq(S \ {node}) /\ Len(todo) \in Nat
      /\ Len(Tail(todo)) = Len(todo) - 1
  BY <1>1, TailOfNodes DEF todo
<1>3. \A i \in 1 .. Len(Tail(todo)) : Tail(todo)[i] = todo[i + 1]
  BY <1>1, HeadTailProperties DEF todo
<1>4. node = todo[1] /\ Len(todo) >= 1
  BY <1>1, HeadTailProperties DEF todo
<1>5. \A i \in 1 .. Len(Tail(todo)) : Tail(todo)[i] \in S \ {node}
  BY <1>2
<1>6. Left(q) = {from.arena.value[todo[i + 1]] : i \in 1 .. Len(Tail(todo))}
  BY <1>3, <1>5 DEF Left, S, todo
<1>7. Pending = {from.arena.value[todo[i]] : i \in 1 .. Len(todo)}
  BY DEF Pending, todo
<1>8. \A i \in 1 .. Len(todo) : i = 1 \/ (i - 1 \in 1 .. Len(Tail(todo)) /\ i = (i - 1) + 1)
  BY <1>2
<1>9. \A i \in 1 .. Len(Tail(todo)) : i + 1 \in 1 .. Len(todo)
  BY <1>2
<1>10. 1 \in 1 .. Len(todo)
  BY <1>2, <1>4
<1>11. value = from.arena.value[todo[1]]
  BY <1>4 DEF value
<1>12. Pending \subseteq {value} \union Left(q)
  <2> SUFFICES ASSUME NEW i \in 1 .. Len(todo)
               PROVE  from.arena.value[todo[i]] \in {value} \union Left(q)
    BY <1>7
  <2>1. CASE i = 1
    BY <1>11, <2>1
  <2>2. CASE i # 1
    BY <1>6, <1>8, <2>2
  <2> QED
    BY <2>1, <2>2
<1>13. {value} \union Left(q) \subseteq Pending
  BY <1>6, <1>7, <1>9, <1>10, <1>11
<1> QED
  BY <1>12, <1>13

LEMMA ProceedShown ==
  ASSUME InLoop, call.todo # << >>, NEW r, NEW q, Proceed(r, q)
  PROVE  /\ ~Idle' /\ call'.op = call.op /\ call'.to = call.to /\ call'.from = call.from
         /\ call'.before = call.before /\ Source' = Source /\ Target' = Target
         /\ FreeElements' = FreeElements /\ AbstractStep
         /\ Values(to)' = Values(r) /\ Values(from)' = Values(q) /\ Pending' = Left(q)
         /\ \A u \in Name : table'[u] = IF u = call.from THEN q
                                        ELSE IF u = call.to THEN r ELSE table[u]
<1>1. call' = [call EXCEPT !.todo = Tail(call.todo)] /\ UNCHANGED <<handle, outcome>>
  BY DEF Proceed
<1>2. /\ call'.op = call.op /\ call'.to = call.to /\ call'.from = call.from
      /\ call'.before = call.before /\ call'.todo = Tail(call.todo) /\ ~Idle'
  BY <1>1 DEF InLoop, LoopGood, Idle
<1>3. Source' = Source /\ Target' = Target
  BY <1>2 DEF Source, Target
<1>4. FreeElements' = FreeElements
  BY <1>3 DEF FreeElements
<1>5. \A u \in Name : table'[u] = IF u = call.from THEN q
                                  ELSE IF u = call.to THEN r ELSE table[u]
  BY DEF Proceed, InLoop, GoodTables
<1>6. to' = r /\ from' = q
  BY <1>2, <1>5 DEF to, from, InLoop, LoopGood
<1>7. Values(to)' = Values(r) /\ Values(from)' = Values(q)
  BY <1>6 DEF Values
<1>8. Pending' = Left(q)
  BY <1>2, <1>6 DEF Pending, Left
<1>9. AbstractStep
  BY <1>1, <1>2 DEF AbstractStep, Stores!vars, InLoop
<1> QED
  BY <1>2, <1>3, <1>4, <1>5, <1>7, <1>8, <1>9

LEMMA NextShown ==
  ASSUME NoTableIsNone, InLoop, call.todo # << >>, NEW r, NEW q, Proceed(r, q),
         r # NoTable, q # NoTable,
         Values(r) \subseteq Values(to) \union {value}, value \in Element,
         Values(q) \subseteq Values(from) \/ call.op \in Moving,
         call.op \in Copying => Values(q) = Values(from),
         call.op \in Copying \union Moving => Values(r) \union Left(q) = Source,
         call.op = "merge" => /\ Values(q) \subseteq Source
                              /\ Values(r) = Target \union (Source \ Values(q))
                              /\ Source \ Values(q) \subseteq FreeElements
                              /\ FreeElements \intersect Values(q) \subseteq Left(q)
  PROVE  Shows
<1>1. /\ ~Idle' /\ call'.op = call.op /\ call'.to = call.to /\ call'.from = call.from
      /\ call'.before = call.before /\ Source' = Source /\ Target' = Target
      /\ FreeElements' = FreeElements /\ AbstractStep
      /\ Values(to)' = Values(r) /\ Values(from)' = Values(q) /\ Pending' = Left(q)
  BY ProceedShown
<1>2. \A u \in Name : table'[u] = IF u = call.from THEN q
                                  ELSE IF u = call.to THEN r ELSE table[u]
  BY ProceedShown
<1>3. /\ call.to \in Name /\ call.from \in Name /\ call.to # call.from
      /\ Alive(call.to) /\ Alive(call.from)
  BY GoodValues DEF InLoop, LoopGood, Alive, to, from
<1>4. Values(to) \subseteq Element /\ (call.op \notin Moving => Values(from) \subseteq Element)
  BY <1>3 DEF InLoop, PureTables, Idle, to, from
<1>5. PureTables'
  <2>1. \A u \in Name : table'[u] # NoTable /\ (call.op \notin Moving \/ u # call.from) =>
                         Values(table'[u]) \subseteq Element
    BY <1>2, <1>3, <1>4 DEF InLoop, PureTables, Alive
  <2> QED
    BY <1>1, <2>1 DEF PureTables, Alive
<1>6. \A u \in Name \ {call.to, call.from} : ValuesOf(u)' = ValuesOf(u)
  <2> SUFFICES ASSUME NEW u \in Name \ {call.to, call.from}
               PROVE  ValuesOf(u)' = ValuesOf(u)
    OBVIOUS
  <2>1. table'[u] = table[u]
    BY <1>2
  <2> QED
    BY <2>1 DEF ValuesOf, Alive, Values
<1>7. Moved' = Source \ Values(q)
  BY <1>1 DEF Moved
<1>8. LoopRefines'
  <2>1. /\ call'.before = [u \in Name |-> call'.before[u]]
        /\ Source' \subseteq Element
        /\ \A u \in Name \ {call'.to, call'.from} : call'.before[u] = ValuesOf(u)'
    BY <1>1, <1>6 DEF InLoop, LoopRefines
  <2>2. KeysApart(Source)'
    BY <1>1 DEF InLoop, LoopRefines, KeysApart
  <2>3. /\ call'.op \in Copying => Values(from)' = Source'
        /\ call'.op \in Copying \union Moving => Values(to)' \union Pending' = Source'
    BY <1>1 DEF InLoop, LoopRefines
  <2>4. call'.op = "merge" => /\ Values(from)' \subseteq Source'
                              /\ Values(to)' = Target' \union Moved'
                              /\ Moved' \subseteq FreeElements'
                              /\ FreeElements' \intersect Values(from)' \subseteq Pending'
    BY <1>1, <1>7
  <2> QED
    BY <2>1, <2>2, <2>3, <2>4 DEF LoopRefines
<1> QED
  BY <1>1, <1>5, <1>8 DEF Shows

LEMMA TurnShown ==
  ASSUME NoTableIsNone, InLoop, CopyNext \/ MoveNext \/ MergeNext \/ MergeSkip
  PROVE  Shows
<1> DEFINE q == emplace_impl(to, value)
           e == [from EXCEPT !.arena = Arena!erase_located(from.arena, node)]
           m == move_out(from, node)
<1>1. /\ call.todo # << >>
      /\ Good(to, program) /\ Good(from, program)
  BY DEF CopyNext, MoveNext, MergeNext, MergeSkip, Working, InLoop, LoopGood
<1>2. node \in L!Linked(from.arena) /\ value \in Element \union {MovedFrom}
  BY <1>1, LoopElement DEF InLoop
<1>3. /\ Good(q, program)
      /\ contains(to, value) => Values(q) = Values(to)
      /\ ~contains(to, value) => Values(q) = Values(to) \union {value}
  BY <1>1, <1>2, EmplaceGood, EmplacedValues
<1>4. contains(to, value) <=> KeyOf[value] \in KeysOf(Values(to))
  BY <1>1, GoodValues
<1>5. q # NoTable /\ from # NoTable /\ to # NoTable
  BY <1>1, <1>3, GoodValues
<1>6. Pending = {value} \union Left(from)
  BY <1>1, OneLessPending
<1> HIDE DEF q
<1>7. /\ Source \subseteq Element
      /\ \A c, d \in Source : KeyOf[c] = KeyOf[d] => c = d
  BY DEF InLoop, LoopRefines, KeysApart
<1>8. value \in Values(from)
  BY <1>2, ValuesAreStored DEF value, L!Stored
<1>9. ASSUME call.op \in Copying \union Moving
      PROVE  /\ value \in Source
             /\ value \in Values(q)
             /\ Values(q) \union Pending = Source
  <2>1. Values(to) \union Pending = Source
    BY <1>9 DEF InLoop, LoopRefines
  <2>2. contains(to, value) => value \in Values(to)
    BY <1>4, <1>6, <1>7, <2>1 DEF KeysOf
  <2> QED
    BY <1>3, <1>6, <2>1, <2>2
<1>10. Copying \intersect Moving = {} /\ "merge" \notin Copying \union Moving
  BY DEF Copying, Moving
<1>11. CASE CopyNext
  <2>1. Proceed(q, from) /\ call.op \in Copying
    BY <1>11 DEF CopyNext, q, Working
  <2>2. Values(q) \union Left(from) = Source
    BY <1>6, <1>9, <2>1
  <2> QED
    BY <1>1, <1>3, <1>5, <1>7, <1>9, <1>10, <2>1, <2>2, NextShown
<1>12. CASE MoveNext
  <2>1. Proceed(q, m) /\ call.op \in Moving
    BY <1>12 DEF MoveNext, q, Working
  <2>2. Good(m, program) /\ m.arena = L!construct_value(from.arena, node, MovedFrom)
    BY <1>1, <1>2, MoveOutGood
  <2>3. \A n \in L!Linked(from.arena) \ {node} : m.arena.value[n] = from.arena.value[n]
    BY <1>1, <1>2, <2>2, MovedIsProper DEF Good
  <2> HIDE DEF m
  <2>4. Pending = {value} \union Left(m) /\ m # NoTable
    BY <1>1, <2>2, <2>3, OneLessPending, GoodValues
  <2>5. Values(q) \union Left(m) = Source
    BY <1>9, <2>1, <2>4
  <2> QED
    BY <1>1, <1>3, <1>5, <1>7, <1>9, <1>10, <2>1, <2>4, <2>5, NextShown
<1>13. ASSUME call.op = "merge"
       PROVE  /\ Values(from) \subseteq Source
              /\ Values(to) = Target \union (Source \ Values(from))
              /\ Source \ Values(from) \subseteq FreeElements
              /\ FreeElements \intersect Values(from) \subseteq Pending
              /\ value \in Source /\ value \in Element
              /\ Values(from) \subseteq Element
  BY <1>7, <1>8, <1>13 DEF InLoop, LoopRefines, Moved
<1>14. CASE MergeNext
  <2>1. Proceed(q, e) /\ call.op = "merge" /\ ~contains(to, value)
    BY <1>14 DEF MergeNext, q, Working
  <2>2. Good(e, program) /\ L!WithoutElement(from.arena, e.arena, node)
    BY <1>1, <1>2, NodeErasedGood
  <2>3. Values(e) = Values(from) \ {value}
    BY <1>1, <1>2, <1>13, <2>1, ErasedValues DEF value
  <2> HIDE DEF e
  <2>4. Pending = {value} \union Left(e) /\ e # NoTable
    BY <1>1, <2>2, OneLessPending, GoodValues DEF L!WithoutElement
  <2>5. value \in FreeElements
    BY <1>4, <1>13, <2>1 DEF FreeElements, KeysOf
  <2>6. /\ Values(e) \subseteq Source
        /\ Values(q) = Target \union (Source \ Values(e))
        /\ Source \ Values(e) \subseteq FreeElements
        /\ FreeElements \intersect Values(e) \subseteq Left(e)
    BY <1>3, <1>13, <2>1, <2>3, <2>4, <2>5
  <2> QED
    BY <1>1, <1>3, <1>5, <1>10, <1>13, <2>1, <2>3, <2>4, <2>6, NextShown
<1>15. CASE MergeSkip
  <2>1. Proceed(to, from) /\ call.op = "merge" /\ contains(to, value)
    BY <1>15 DEF MergeSkip, Working
  <2>2. value \notin FreeElements
    <3>1. PICK d \in Values(to) : KeyOf[d] = KeyOf[value]
      BY <1>4, <2>1 DEF KeysOf
    <3>2. CASE d \in Target
      BY <3>1, <3>2 DEF FreeElements, KeysOf
    <3>3. CASE d \in Source \ Values(from)
      BY <1>7, <1>8, <1>13, <2>1, <3>1, <3>3
    <3> QED
      BY <1>13, <2>1, <3>1, <3>2, <3>3
  <2>3. FreeElements \intersect Values(from) \subseteq Left(from)
    BY <1>6, <1>13, <2>1, <2>2
  <2> QED
    BY <1>1, <1>5, <1>10, <1>13, <2>1, <2>3, NextShown
<1> QED
  BY <1>11, <1>12, <1>14, <1>15
-----------------------------------------------------------------------------
(* The end of a loop shows what it did.                                    *)

LEMMA LoopShown ==
  ASSUME InLoop, NEW r, NEW q, call' = NoCall, handle' = handle,
         \A u \in Name : table'[u] = IF u = call.from THEN q
                                     ELSE IF u = call.to THEN r ELSE table[u],
         Holding(r) \subseteq Element, Holding(q) \subseteq Element
  PROVE  /\ PureTables' /\ Idle'
         /\ Stores!BothBecome(call.to, Holding(r), call.from, Holding(q))
<1>1. Idle' /\ ~Idle
  BY DEF NoCall, Idle, InLoop
<1>2. call.to \in Name /\ call.from \in Name /\ call.to # call.from
  BY DEF InLoop, LoopGood
<1>3. PureTables'
  BY <1>1, <1>2 DEF PureTables, InLoop, Alive, Holding
<1>4. ASSUME NEW u \in Name
      PROVE  ValuesOf(u)' = IF u = call.from THEN Holding(q)
                            ELSE IF u = call.to THEN Holding(r) ELSE call.before[u]
  <2>1. CASE u \in {call.to, call.from}
    BY <1>2, <2>1 DEF ValuesOf, Holding, Alive, Values
  <2>2. CASE u \notin {call.to, call.from}
    <3>1. table'[u] = table[u] /\ ValuesOf(u) = call.before[u]
      BY <2>2 DEF InLoop, LoopRefines
    <3>2. ValuesOf(u)' = ValuesOf(u)
      BY <3>1 DEF ValuesOf, Alive, Values
    <3> QED
      BY <2>2, <3>1, <3>2
  <2> QED
    BY <2>1, <2>2
<1>5. Contents' = [u \in Name |-> ValuesOf(u)']
  BY DEF Contents
<1>6. call.before = [u \in Name |-> call.before[u]]
  BY DEF InLoop, LoopRefines
<1>7. Contents' = [call.before EXCEPT ![call.to] = Holding(r), ![call.from] = Holding(q)]
  BY <1>2, <1>4, <1>5, <1>6
<1> QED
  BY <1>1, <1>3, <1>7 DEF Stores!BothBecome

(* A loop that left its source alone changed only its target.              *)
LEMMA TargetShown ==
  ASSUME InLoop, NEW elements, Stores!BothBecome(call.to, elements, call.from, Source)
  PROVE  Stores!Becomes(call.to, elements)
<1>1. call.to \in Name /\ call.from \in Name /\ call.to # call.from /\ ~Idle
  BY DEF InLoop, LoopGood
<1>2. call.before = [u \in Name |-> call.before[u]]
  BY DEF InLoop, LoopRefines
<1>3. [call.before EXCEPT ![call.to] = elements, ![call.from] = Source]
        = [call.before EXCEPT ![call.to] = elements]
  BY <1>1, <1>2 DEF Source
<1> QED
  BY <1>1, <1>3 DEF Stores!BothBecome, Stores!Becomes

LEMMA EndShown ==
  ASSUME NoTableIsNone, InLoop, EndCall
  PROVE  Shows
<1>1. /\ Good(to, program) /\ Good(from, program) /\ call.to # call.from
      /\ call.to \in Name /\ call.from \in Name
      /\ call.op \in Copying \union Moving \union {"merge"} /\ ~Idle
  BY DEF InLoop, LoopGood
<1>2. Good(clear(from), program) /\ Void(clear(from))
  BY <1>1, EmptiedGood
<1>3. /\ Holding(to) = Values(to) /\ Holding(from) = Values(from)
      /\ Holding(clear(from)) = {}
  BY <1>1, <1>2, AliveHolds, VoidValues
<1>4. /\ call' = NoCall /\ handle' = handle /\ outcome' = "yes"
      /\ table' = IF call.op \in Moving
                  THEN [table EXCEPT ![call.from] = clear(table[call.from])] ELSE table
  BY DEF EndCall, Returns
<1>5. Pending = {}
  BY DEF EndCall, Pending
<1>6. /\ Source \subseteq Element /\ Values(to) \subseteq Element
      /\ call.op \notin Moving => Values(from) \subseteq Element
  <2>1. to # NoTable /\ from # NoTable
    BY <1>1, GoodValues
  <2> QED
    BY <1>1, <2>1 DEF InLoop, LoopRefines, PureTables, Alive, to, from
<1>7. "merge" \notin Copying \union Moving
  BY DEF Copying, Moving
<1>8. ~Idle => (IF Idle THEN Contents ELSE call.before)[call.from] = Source
               /\ (IF Idle THEN Contents ELSE call.before)[call.to] = Target
  BY DEF Source, Target
<1>9. CASE call.op \in Moving
  <2>1. \A u \in Name : table'[u] = IF u = call.from THEN clear(from)
                                    ELSE IF u = call.to THEN to ELSE table[u]
    BY <1>1, <1>4, <1>9 DEF InLoop, GoodTables, to, from
  <2>2. /\ PureTables' /\ Idle'
        /\ Stores!BothBecome(call.to, Holding(to), call.from, Holding(clear(from)))
    BY <1>3, <1>4, <1>6, <2>1, LoopShown
  <2>3. Values(to) = Source
    BY <1>5, <1>9 DEF InLoop, LoopRefines
  <2>4. Stores!Move(call.to, call.from)
    BY <1>1, <1>3, <1>4, <1>8, <2>2, <2>3 DEF Stores!Move
  <2> QED
    BY <1>1, <2>2, <2>4 DEF Shows, AbstractStep, Stores!Next
<1>10. ASSUME call.op \notin Moving
       PROVE  /\ PureTables' /\ Idle'
              /\ Stores!BothBecome(call.to, Values(to), call.from, Values(from))
  <2>1. \A u \in Name : table'[u] = IF u = call.from THEN from
                                    ELSE IF u = call.to THEN to ELSE table[u]
    BY <1>1, <1>4, <1>10 DEF InLoop, GoodTables, to, from
  <2> QED
    BY <1>3, <1>4, <1>6, <1>10, <2>1, LoopShown
<1>11. CASE call.op \in Copying /\ call.op \notin Moving
  <2>1. Values(to) = Source /\ Values(from) = Source
    BY <1>5, <1>11 DEF InLoop, LoopRefines
  <2>2. Stores!Becomes(call.to, Source)
    BY <1>10, <1>11, <2>1, TargetShown
  <2>3. Stores!Copy(call.to, call.from)
    BY <1>1, <1>4, <1>8, <2>2 DEF Stores!Copy
  <2> QED
    BY <1>1, <1>10, <1>11, <2>3 DEF Shows, AbstractStep, Stores!Next
<1>12. CASE call.op = "merge"
  <2>1. /\ Values(from) \subseteq Source
        /\ Values(to) = Target \union Moved
        /\ Moved \subseteq FreeElements
        /\ FreeElements \intersect Values(from) = {}
    BY <1>5, <1>12 DEF InLoop, LoopRefines
  <2>2. FreeElements = Moved /\ Values(from) = Source \ Moved
    BY <2>1 DEF FreeElements, Moved
  <2>3. Stores!Free(call.to, call.from) = FreeElements
    BY <1>1, <1>8 DEF Stores!Free, FreeElements, Stores!Keys, KeysOf
  <2>4. Stores!BothBecome(call.to, Target \union FreeElements,
                          call.from, Source \ FreeElements)
    BY <1>7, <1>10, <1>12, <2>1, <2>2
  <2>5. Stores!Merge(call.to, call.from)
    BY <1>1, <1>4, <1>8, <2>3, <2>4 DEF Stores!Merge, Stores!Transfer
  <2> QED
    BY <1>1, <1>7, <1>10, <1>12, <2>5 DEF Shows, AbstractStep, Stores!Next
<1> QED
  BY <1>1, <1>9, <1>11, <1>12
LEMMA ThrowShown ==
  ASSUME NoTableIsNone, ElementsSurvive, ThrowsAreRestored, InLoop,
         NEW site \in StepSites, StepThrows(site)
  PROVE  Shows
<1> DEFINE left == EmplaceThrows(to, value, site)
           r == IF call.op \in Constructing THEN NoTable ELSE left
<1>1. /\ Good(to, program) /\ Good(from, program) /\ call.to # call.from
      /\ call.to \in Name /\ call.from \in Name /\ call.todo # << >> /\ ~Idle
      /\ call.op \in Copying \union Moving \union {"merge"}
      /\ <<call.op, site>> \in Throws
  BY DEF InLoop, LoopGood, StepThrows, Working
<1>2. call.op \in Copying \/ (call.op = "merge" /\ site \in {"lookup", "chunk"})
  BY <1>1 DEF ElementsSurvive
<1>3. call.op \notin Moving /\ (call.op = "merge" => call.op \notin Constructing)
  BY <1>2 DEF Copying, Moving, Constructing
<1>4. value \in Element \union {MovedFrom}
  BY <1>1, LoopElement DEF InLoop
<1>5. Good(left, program) /\ Values(left) = Values(to)
  BY <1>1, <1>4, RestoredSite, EmplaceThrowsGood, SameValues
<1>6. table' = [table EXCEPT ![call.to] = r, ![call.from] = table[call.from]]
  <2>1. PICK gone \in MovedWhenThrown(site) :
          table' = [table EXCEPT ![call.to] = r,
                      ![call.from] = IF gone THEN move_out(from, node) ELSE @]
    BY DEF StepThrows
  <2>2. gone = FALSE
    BY <1>2, <2>1 DEF MovedWhenThrown
  <2> HIDE DEF r
  <2> QED
    BY <1>1, <2>1, <2>2
<1>7. call' = NoCall /\ handle' = handle /\ outcome' = "threw"
  BY DEF StepThrows, Returns
<1>8. /\ Values(from) \subseteq Element /\ Values(to) \subseteq Element
      /\ Holding(left) = Values(to) /\ Holding(from) = Values(from)
  <2>1. to # NoTable /\ from # NoTable
    BY <1>1, GoodValues
  <2>2. Holding(left) = Values(to) /\ Holding(from) = Values(from)
    BY <1>1, <1>5, AliveHolds
  <2> QED
    BY <1>1, <1>3, <2>1, <2>2 DEF InLoop, PureTables, Alive, to, from
<1>9. Holding(r) \in {{}, Values(to)} /\ (call.op = "merge" => Holding(r) = Values(to))
  BY <1>3, <1>8 DEF Holding
<1> HIDE DEF left, r
<1>10. \A u \in Name : table'[u] = IF u = call.from THEN from
                                   ELSE IF u = call.to THEN r ELSE table[u]
  BY <1>1, <1>6 DEF InLoop, GoodTables, from
<1>11. /\ PureTables' /\ Idle'
       /\ Stores!BothBecome(call.to, Holding(r), call.from, Values(from))
  <2>1. Holding(r) \subseteq Element /\ Holding(from) \subseteq Element
    BY <1>8, <1>9
  <2> QED
    BY <1>7, <1>8, <1>10, <2>1, LoopShown
<1>12. /\ (IF Idle THEN Contents ELSE call.before)[call.from] = Source
       /\ (IF Idle THEN Contents ELSE call.before)[call.to] = Target
  BY <1>1 DEF Source, Target
<1>13. CASE call.op \in Copying
  <2>1. Values(from) = Source /\ Values(to) \subseteq Source
    BY <1>13 DEF InLoop, LoopRefines
  <2>2. Stores!Becomes(call.to, Holding(r))
    BY <1>11, <2>1, TargetShown
  <2>3. Holding(r) \in SUBSET Source
    BY <1>9, <2>1
  <2>4. Stores!CopyThrows(call.to, call.from)
    BY <1>7, <1>12, <2>2, <2>3 DEF Stores!CopyThrows
  <2> QED
    BY <1>1, <1>11, <2>4 DEF Shows, AbstractStep, Stores!Next
<1>14. CASE call.op = "merge"
  <2>1. /\ Values(from) \subseteq Source
        /\ Values(to) = Target \union Moved
        /\ Moved \subseteq FreeElements
    BY <1>14 DEF InLoop, LoopRefines
  <2>2. Values(from) = Source \ Moved
    BY <2>1 DEF Moved
  <2>3. Stores!Free(call.to, call.from) = FreeElements
    BY <1>12 DEF Stores!Free, FreeElements, Stores!Keys, KeysOf
  <2>4. Stores!BothBecome(call.to, Target \union Moved, call.from, Source \ Moved)
    BY <1>9, <1>11, <1>14, <2>1, <2>2
  <2>5. Stores!Transfer(call.to, call.from, Moved)
    BY <1>12, <2>4 DEF Stores!Transfer
  <2>6. Stores!MergeThrows(call.to, call.from)
    BY <1>7, <2>1, <2>3, <2>5 DEF Stores!MergeThrows
  <2> QED
    BY <1>1, <1>11, <2>6 DEF Shows, AbstractStep, Stores!Next
<1> QED
  BY <1>2, <1>13, <1>14

-----------------------------------------------------------------------------
(* The refinement. *)

LEMMA RefinementStep ==
  ASSUME NoTableIsNone, ElementsSurvive, ThrowsAreRestored, TInv, [Next]_vars
  PROVE  TInv' /\ AbstractStep
<1>1. GoodTables'
  BY GoodStep DEF TInv
<1> SUFFICES Shows
  BY <1>1 DEF Shows, TInv
<1>2. ASSUME NEW t \in Name,
             \/ \E a, h : Construct(t, a, h)
             \/ Destroy(t) \/ Clear(t) \/ Shrink(t) \/ InsertHandle(t)
             \/ \E e \in program.elements : Emplace(t, e) \/ Erase(t, e) \/ Extract(t, e)
             \/ \E z \in program.factors : SetMaxLoadFactor(t, z)
      PROVE  Shows
  <2>1. Idle /\ UNCHANGED call
    BY <1>2 DEF Construct, Destroy, Clear, Shrink, InsertHandle, Emplace, Erase,
                Extract, SetMaxLoadFactor, Changes
  <2>2. Between /\ Idle'
    BY <2>1 DEF Between, Idle, TInv
  <2> QED
    BY <1>2, <2>2, OneTableShown DEF Shows
<1>3. ASSUME NEW t \in Name, NEW s \in Name, t # s, TwoOf(t, s)
      PROVE  Shows
  <2>1. Idle
    BY <1>3 DEF TwoOf, CopyConstruct, MoveConstructWith, MoveConstruct, CopyAssign,
                MoveAssign, Merge, Swap, ReserveThrows
  <2> QED
    BY <1>3, <2>1, TwoOfShown DEF TInv
<1>4. CASE DropHandle
  <2>1. /\ UNCHANGED <<program, table, call>> /\ Idle /\ outcome' = "yes"
        /\ handle' = [handle EXCEPT !.value = NoElement]
    BY <1>4 DEF DropHandle, Released, Returns
  <2>2. handle'.value = NoElement
    BY <2>1 DEF TInv, GoodTables, HandleGood
  <2>3. Contents' = Contents /\ PureTables' /\ Idle'
    BY <2>1 DEF Contents, ValuesOf, Alive, TInv, PureTables, Idle
  <2>4. Stores!Drop
    BY <2>1, <2>2, <2>3 DEF Stores!Drop
  <2> QED
    BY <2>3, <2>4 DEF Shows, AbstractStep, Stores!Next
<1>5. CASE UNCHANGED vars
  <2>1. UNCHANGED <<table, call, handle, outcome>>
    BY <1>5 DEF vars
  <2>2. PureTables' /\ Contents' = Contents /\ (~Idle' => LoopRefines')
    BY <2>1 DEF TInv, PureTables, Contents, ValuesOf, Alive, Idle, LoopRefines, Source,
                Target, FreeElements, Moved, Pending, to, from, KeysApart
  <2>3. AbstractStep
    BY <2>1, <2>2 DEF AbstractStep, Stores!vars, Idle
  <2> QED
    BY <2>2, <2>3 DEF Shows
<1>6. CASE Turn
  <2>1. ~Idle
    BY <1>6 DEF Turn, CopyNext, MoveNext, MergeNext, MergeSkip, StepThrows, EndCall,
                Working, Idle, Copying, Moving
  <2>2. InLoop
    BY <2>1 DEF InLoop, TInv, GoodTables
  <2> QED
    BY <1>6, <2>2, TurnShown, ThrowShown, EndShown DEF Turn
<1> QED
  BY <1>2, <1>3, <1>4, <1>5, <1>6 DEF Next

LEMMA FirstState == Init => TInv /\ Stores!Init
<1> SUFFICES ASSUME Init
             PROVE  TInv /\ Stores!Init
  OBVIOUS
<1>1. GoodTables /\ Idle
  BY DEF Init, GoodTables, HandleGood, Alive, Idle, NoCall
<1>2. \A t \in Name : ~Alive(t)
  BY DEF Init, Alive
<1>3. TInv
  BY <1>1, <1>2 DEF TInv, PureTables
<1>4. Contents = [t \in Name |-> {}]
  BY <1>2 DEF Contents, ValuesOf
<1>5. handle.value = NoElement /\ outcome = "none"
  BY DEF Init
<1> QED
  BY <1>1, <1>3, <1>4, <1>5 DEF Stores!Init

(* Copies, moves, swaps and merges do to the elements what TwoStores says, *)
(* element after element and also where a copy, or a merge that has not    *)
(* moved its element yet, throws: a completed copy equals its source, a    *)
(* source that was moved from is empty, a merge moves the elements whose   *)
(* keys are free and loses none.                                           *)
THEOREM TablesImplementTwoStores ==
  ASSUME NoTableIsNone, ElementsSurvive, ThrowsAreRestored
  PROVE  Spec => ImplementsTwoStores
<1>1. TInv /\ [Next]_vars => TInv' /\ [Stores!Next]_(Stores!vars)
  BY RefinementStep DEF AbstractStep
<1> QED
  BY <1>1, FirstState, PTL DEF Spec, ImplementsTwoStores, Stores!Spec
-----------------------------------------------------------------------------
(* Equality. *)

(* What iteration counts is the number of elements.                        *)
LEMMA SizeCountsValues ==
  ASSUME NEW p, NEW r, Good(r, p), Values(r) \subseteq Element
  PROVE  /\ IsFiniteSet(Values(r))
         /\ Cardinality(Values(r)) = Size(r)
<1> DEFINE it == r.arena.iteration
           f  == [i \in 1 .. Len(it) |-> r.arena.value[it[i]]]
<1>1. /\ it \in Seq(L!Linked(r.arena)) /\ L!Injective(it) /\ Len(it) \in Nat
      /\ L!KeysDistinct(r.arena)
  BY ProperElements, GoodValues DEF Good, L!Settled
<1>2. \A i \in 1 .. Len(it) : it[i] \in L!Linked(r.arena)
  BY <1>1
<1>3. Values(r) = {r.arena.value[it[i]] : i \in 1 .. Len(it)}
  <2>1. Values(r) = {r.arena.value[n] : n \in L!Linked(r.arena)}
    BY ValuesAreStored DEF L!Stored
  <2> QED
    BY <2>1 DEF L!Linked
<1>4. \A i, j \in 1 .. Len(it) :
        r.arena.value[it[i]] = r.arena.value[it[j]] => i = j
  BY <1>1, <1>2 DEF L!KeysDistinct, L!Injective
<1> HIDE DEF it
<1>5. f \in Bijection(1 .. Len(it), Values(r))
  BY <1>3, <1>4 DEF Bijection, Injection, Surjection, IsInjective
<1>6. ExistsBijection(1 .. Len(it), Values(r))
  BY <1>5 DEF ExistsBijection
<1> QED
  BY <1>1, <1>6, FS_CountingElements, FS_NatBijection DEF Size, it

LEMMA EqualsMeansSameValues ==
  ASSUME NEW p, NEW l, NEW r, Good(l, p), Good(r, p),
         Values(l) \subseteq Element, Values(r) \subseteq Element
  PROVE  equals(l, r) <=> Values(l) = Values(r)
<1>1. /\ IsFiniteSet(Values(l)) /\ Cardinality(Values(l)) = Size(l)
      /\ IsFiniteSet(Values(r)) /\ Cardinality(Values(r)) = Size(r)
  BY SizeCountsValues
<1>2. r.arena.indexed = L!Linked(r.arena)
  BY ProperElements DEF Good
<1>3. Values(r) = {r.arena.value[n] : n \in L!Linked(r.arena)}
  BY ValuesAreStored DEF L!Stored
<1>4. (\A e \in Values(l) : \E n \in At(r, e) : r.arena.value[n] = e)
        <=> Values(l) \subseteq Values(r)
  BY <1>2, <1>3 DEF At
<1>5. equals(l, r) <=> Size(l) = Size(r) /\ Values(l) \subseteq Values(r)
  BY <1>4 DEF equals
<1>6. Size(l) = Size(r) /\ Values(l) \subseteq Values(r) => Values(l) = Values(r)
  BY <1>1, FS_Subset
<1> QED
  BY <1>1, <1>5, <1>6

(* Two containers compare equal exactly when they hold the same elements,  *)
(* after whatever copies, moves, swaps and merges, although operator==     *)
(* only looks for the elements of one in the other.                        *)
THEOREM EqualityIsSameElements ==
  ASSUME NoTableIsNone, ElementsSurvive, ThrowsAreRestored
  PROVE  Spec => []EqualWhenSameElements
<1>1. TInv => EqualWhenSameElements
  <2> SUFFICES ASSUME TInv, NEW t \in Name, NEW s \in Name,
                      Idle, Alive(t), Alive(s)
               PROVE  equals(table[t], table[s]) <=> ValuesOf(t) = ValuesOf(s)
    BY DEF EqualWhenSameElements
  <2>1. /\ Good(table[t], program) /\ Good(table[s], program)
        /\ Values(table[t]) \subseteq Element /\ Values(table[s]) \subseteq Element
    BY DEF TInv, GoodTables, PureTables
  <2> QED
    BY <2>1, EqualsMeansSameValues DEF ValuesOf
<1>2. TInv /\ [Next]_vars => TInv'
  BY RefinementStep
<1> QED
  BY <1>1, <1>2, FirstState, PTL DEF Spec
=============================================================================
