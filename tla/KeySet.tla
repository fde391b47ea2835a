------------------------------- MODULE KeySet -------------------------------
(***************************************************************************)
(* What the hash index promises its caller: a set of keys on which one     *)
(* call at a time looks a key up, inserts it or erases it, each with the   *)
(* answer membership gives.  Rehashing, growing and probing are not part   *)
(* of the promise: they must leave the set as it is.                       *)
(***************************************************************************)
CONSTANTS Key, NoKey

VARIABLES
  contents,  \* the keys held
  op,        \* the call in progress, "none" between calls
  key,       \* its argument
  result     \* the answer of the last call that returned one

vars == <<contents, op, key, result>>

Init == contents = {} /\ op = "none" /\ key = NoKey /\ result = FALSE

Call(o, k) ==
  /\ op = "none"
  /\ op' = o
  /\ key' = k
  /\ UNCHANGED <<contents, result>>

Return == op' = "none" /\ key' = NoKey

(* find, count and contains. *)
Lookup ==
  /\ op = "lookup"
  /\ result' = (key \in contents)
  /\ Return
  /\ UNCHANGED contents

(* insert, emplace and try_emplace: true when the key was new. *)
Insert ==
  /\ op = "insert"
  /\ contents' = contents \union {key}
  /\ result' = (key \notin contents)
  /\ Return

(* erase by key: true when an element was removed. *)
Erase ==
  /\ op = "erase"
  /\ contents' = contents \ {key}
  /\ result' = (key \in contents)
  /\ Return

(* rehash and reserve answer nothing and keep the contents. *)
Rehash == op = "rehash" /\ Return /\ UNCHANGED <<contents, result>>

Clear ==
  /\ op = "none"
  /\ contents' = {}
  /\ UNCHANGED <<op, key, result>>

Next ==
  \/ \E o \in {"lookup", "insert", "erase"}, k \in Key : Call(o, k)
  \/ Call("rehash", NoKey)
  \/ Lookup
  \/ Insert
  \/ Erase
  \/ Rehash
  \/ Clear

Spec == Init /\ [][Next]_vars
=============================================================================
