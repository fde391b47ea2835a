---------------------------- MODULE MCTwoTables ----------------------------
(* Instances of TwoTables: two containers, two keys, one of them with two   *)
(* elements, chunks of one node.                                            *)
EXTENDS TwoTables, TLC

CONSTANTS t1, t2, e1, e2, f, x, y, g, h, moved_from

MCNames == {t1, t2}
MCElements == {e1, e2, f}
MCKeyOf == [e \in MCElements |-> IF e = f THEN "key of f" ELSE "key of e"]
MCAllocators == {x, y}

(* Moving leaves g as it is and empties h, as it does a std::function.      *)
MCHashers == {g, h, moved_from}
MCAfterMove == [k \in MCHashers |-> IF k = g THEN g ELSE moved_from]

Plain ==
  [pocca |-> FALSE, pocma |-> FALSE, pocs |-> FALSE,
   elements |-> MCElements, allocators |-> MCAllocators, hashers |-> {g},
   factors |-> {}, empty_copies |-> TRUE, equal_moves |-> TRUE,
   handles |-> "none"]

OneElementPerKey == {{e, f} : e \in {e1, e2}}

(* Two elements that compete for a key, where containers stay with their    *)
(* allocator.                                                               *)
WithRivals == {Plain}

(* Allocators that swaps propagate, moves, or all of the calls.             *)
WithTraits ==
  {[Plain EXCEPT !.elements = es, !.pocca = t.c, !.pocma = t.m, !.pocs = t.s] :
     es \in OneElementPerKey,
     t \in {[c |-> FALSE, m |-> FALSE, s |-> TRUE],
            [c |-> FALSE, m |-> TRUE, s |-> FALSE],
            [c |-> TRUE, m |-> TRUE, s |-> TRUE]}}

(* A factor other than the default, and empty containers that are copied    *)
(* over one that has it (one element is enough to make a difference).       *)
WithFactors ==
  {[Plain EXCEPT !.elements = es, !.allocators = {z}, !.factors = {25},
                 !.empty_copies = FALSE] :
     es \in OneElementPerKey, z \in MCAllocators}
  \union
  {[Plain EXCEPT !.elements = {e}, !.allocators = {z}, !.factors = {25}] :
     e \in {e1, e2}, z \in MCAllocators}

(* Handles that are constructed from what extract returns, or assigned to   *)
(* where moves propagate the allocator.                                     *)
WithHandles ==
  {[Plain EXCEPT !.elements = {e}, !.handles = "constructed"] : e \in {e1, e2}}
  \union
  {[Plain EXCEPT !.elements = es, !.handles = "assigned", !.pocma = TRUE] :
     es \in OneElementPerKey}

(* Two hash functions that a move leaves as they are, and one that it does  *)
(* not, with storage that moves and with elements that do.                  *)
WithHashers ==
  {[Plain EXCEPT !.elements = {e}, !.hashers = {g, moved_from}] : e \in {e1, e2}}
  \union
  {[Plain EXCEPT !.elements = {e}, !.hashers = {h, moved_from},
                 !.equal_moves = FALSE] : e \in {e1, e2}}

MCPrograms ==
  WithRivals \union WithTraits \union WithFactors \union WithHandles
  \union WithHashers

(* A handle that is assigned to where moves do not propagate.               *)
MCHandlePrograms == {[Plain EXCEPT !.handles = "assigned"]}

MCThrows ==
  {"copy"} \X {"reserve", "chunk", "construct", "link"}
  \union {"merge"} \X {"lookup", "chunk"}

MCSymmetry ==
  {p @@ q @@ r : p \in Permutations(MCNames), q \in Permutations({e1, e2}),
                 r \in Permutations(MCAllocators)}
=============================================================================
