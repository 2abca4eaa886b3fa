--------------------------- MODULE PriorityQueue ----------------------------
(***************************************************************************)
(* What color_graph needs of a heap of graph nodes: nothing added is lost  *)
(* or invented, and extraction returns a best node provided build_heap has *)
(* run since the last addition (any node otherwise).  Implemented by       *)
(* HeapArray; ColorGraph's two heaps follow this module.                   *)
(***************************************************************************)
EXTENDS Integers

CONSTANTS
  Items,   \* graph nodes
  Costs,   \* their costs
  Null     \* the pointer extraction returns from an empty heap

VARIABLES
  cost,      \* cost of each node
  min,       \* whether the lowest cost is best
  contents,  \* the nodes in the heap
  built,     \* build_heap ran after the last addition
  extracted  \* what the last extraction returned

vars == <<cost, min, contents, built, extracted>>

\* x is at least as good a choice as y.
AtLeastAsGood(x, y) == IF min THEN cost[x] <= cost[y] ELSE cost[x] >= cost[y]

Init ==
  /\ cost \in [Items -> Costs]
  /\ min \in BOOLEAN
  /\ contents = {}
  /\ built = TRUE
  /\ extracted = Null

Add(x) ==
  /\ x \notin contents
  /\ contents' = contents \cup {x}
  /\ built' = FALSE
  /\ UNCHANGED <<cost, min, extracted>>

Build ==
  /\ built' = TRUE
  /\ UNCHANGED <<cost, min, contents, extracted>>

Extract(x) ==
  /\ x \in contents
  /\ built => \A y \in contents : AtLeastAsGood(x, y)
  /\ extracted' = x
  /\ contents' = contents \ {x}
  /\ UNCHANGED <<cost, min, built>>

ExtractNothing ==
  /\ contents = {}
  /\ extracted' = Null
  /\ UNCHANGED <<cost, min, contents, built>>

Next == \/ \E x \in Items : Add(x) \/ Extract(x)
        \/ Build
        \/ ExtractNothing

Spec == Init /\ [][Next]_vars
=============================================================================
