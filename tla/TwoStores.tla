----------------------------- MODULE TwoStores -----------------------------
(***************************************************************************)
(* What copying, moving, swapping and merging promise about the elements   *)
(* of containers: a copy equals its source, a moved-from container is      *)
(* empty, swap exchanges, merge moves exactly the elements whose key is    *)
(* free.  A copy that throws leaves a part of the source's elements in the *)
(* target and the source alone; a merge that throws loses nothing.         *)
(***************************************************************************)
CONSTANTS
  Name,     \* the containers
  Element,
  KeyOf     \* the key of an element

VARIABLES
  contents,  \* the elements of each container
  held,      \* the element in a node handle
  outcome    \* of the last call: "yes", "no" or "threw"

vars == <<contents, held, outcome>>

Keys(elements) == {KeyOf[e] : e \in elements}

Init ==
  /\ contents = [t \in Name |-> {}]
  /\ held = {}
  /\ outcome = "none"

Becomes(t, elements) ==
  contents' = [contents EXCEPT ![t] = elements] /\ UNCHANGED held

BothBecome(t, elements, s, others) ==
  /\ contents' = [contents EXCEPT ![t] = elements, ![s] = others]
  /\ UNCHANGED held

Insert(t, e) ==
  IF KeyOf[e] \in Keys(contents[t])
  THEN outcome' = "no" /\ UNCHANGED <<contents, held>>
  ELSE outcome' = "yes" /\ Becomes(t, contents[t] \union {e})

Erase(t, e) ==
  e \in contents[t] /\ outcome' = "yes" /\ Becomes(t, contents[t] \ {e})

(* clear, the destructor. *)
Clear(t) == outcome' = "yes" /\ Becomes(t, {})

Copy(t, s) == outcome' = "yes" /\ Becomes(t, contents[s])

CopyThrows(t, s) ==
  outcome' = "threw" /\ \E part \in SUBSET contents[s] : Becomes(t, part)

Move(t, s) == outcome' = "yes" /\ BothBecome(t, contents[s], s, {})

Swap(t, s) == outcome' = "yes" /\ BothBecome(t, contents[s], s, contents[t])

Free(t, s) == {e \in contents[s] : KeyOf[e] \notin Keys(contents[t])}

Transfer(t, s, part) ==
  BothBecome(t, contents[t] \union part, s, contents[s] \ part)

Merge(t, s) == outcome' = "yes" /\ Transfer(t, s, Free(t, s))

MergeThrows(t, s) ==
  outcome' = "threw" /\ \E part \in SUBSET Free(t, s) : Transfer(t, s, part)

(* The handle's former element is destroyed. *)
Extract(t, e) ==
  /\ e \in contents[t]
  /\ contents' = [contents EXCEPT ![t] = @ \ {e}]
  /\ held' = {e}
  /\ outcome' = "yes"

InsertHeld(t) ==
  \E e \in held :
    IF KeyOf[e] \in Keys(contents[t])
    THEN outcome' = "no" /\ UNCHANGED <<contents, held>>
    ELSE /\ contents' = [contents EXCEPT ![t] = @ \union {e}]
         /\ held' = {}
         /\ outcome' = "yes"

Drop == held' = {} /\ outcome' = "yes" /\ UNCHANGED contents

(* Construction, rehash, reserve, max_load_factor. *)
Invisible == outcome' = "yes" /\ UNCHANGED <<contents, held>>

Next ==
  \/ \E t \in Name : Clear(t) \/ InsertHeld(t)
  \/ \E t \in Name, e \in Element : Insert(t, e) \/ Erase(t, e) \/ Extract(t, e)
  \/ \E t, s \in Name :
       /\ t # s
       /\ \/ Copy(t, s)  \/ CopyThrows(t, s)  \/ Move(t, s)
          \/ Merge(t, s) \/ MergeThrows(t, s) \/ Swap(t, s)
  \/ Drop
  \/ Invisible

Spec == Init /\ [][Next]_vars
=============================================================================
