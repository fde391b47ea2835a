---------------------------- MODULE ElementStore ----------------------------
(***************************************************************************)
(* What the container promises about its elements when calls may throw: an *)
(* element is in the container or in a node handle, every call either does *)
(* what it says or throws and changes nothing (the strong guarantee).      *)
(***************************************************************************)
CONSTANT Key

VARIABLES
  contents,  \* the elements in the container
  handles,   \* the elements held by node handles
  outcome    \* of the last call: "yes", "no" or "threw"

vars == <<contents, handles, outcome>>

Init == contents = {} /\ handles = {} /\ outcome = "none"

Insert(k) ==
  /\ contents' = contents \union {k}
  /\ outcome' = IF k \in contents THEN "no" ELSE "yes"
  /\ UNCHANGED handles

Erase(k) ==
  /\ contents' = contents \ {k}
  /\ outcome' = IF k \in contents THEN "yes" ELSE "no"
  /\ UNCHANGED handles

(* An element changes hands, it is never in both places.  Asked for an     *)
(* absent key, extract answers as Erase does.                              *)
Extract(k) ==
  /\ k \in contents
  /\ contents' = contents \ {k}
  /\ handles' = handles \union {k}
  /\ outcome' = "yes"

InsertHandle(k) ==
  /\ k \in handles \ contents
  /\ contents' = contents \union {k}
  /\ handles' = handles \ {k}
  /\ outcome' = "yes"

(* A handle whose key is taken keeps its element.                          *)
RefuseHandle(k) ==
  /\ k \in handles \intersect contents
  /\ outcome' = "no"
  /\ UNCHANGED <<contents, handles>>

Drop(k) ==
  /\ k \in handles
  /\ handles' = handles \ {k}
  /\ outcome' = "yes"
  /\ UNCHANGED contents

(* The key of an element in a handle may be changed; the caller sees to it *)
(* that no two handles hold equal elements.                                *)
Rekey(k, l) ==
  /\ k \in handles
  /\ l \notin handles
  /\ handles' = (handles \ {k}) \union {l}
  /\ outcome' = "yes"
  /\ UNCHANGED contents

Clear == contents' = {} /\ outcome' = "yes" /\ UNCHANGED handles

(* rehash and reserve. *)
Rehash == outcome' = "yes" /\ UNCHANGED <<contents, handles>>

Throw == outcome' = "threw" /\ UNCHANGED <<contents, handles>>

Next ==
  \/ \E k \in Key :
       \/ Insert(k) \/ Erase(k) \/ Extract(k)
       \/ InsertHandle(k) \/ RefuseHandle(k) \/ Drop(k)
       \/ \E l \in Key : Rekey(k, l)
  \/ Clear \/ Rehash \/ Throw

Spec == Init /\ [][Next]_vars
=============================================================================
