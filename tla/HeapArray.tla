------------------------------ MODULE HeapArray -----------------------------
(***************************************************************************)
(* heap.c: a binary heap of graph nodes in an array, kept by its client:   *)
(* add_to_heap only appends, build_heap restores the order, and            *)
(* extract_heap_root moves the last item to the root and sifts it down.    *)
(* The array of the code is 0-based; the sequence items is 1-based.        *)
(***************************************************************************)
EXTENDS Integers, Sequences, SequencesExt

CONSTANTS
  Items,   \* graph nodes
  Costs,   \* their costs
  Null     \* NULL

ASSUME IntegerCosts == Costs \subseteq Int

VARIABLES
  item_cost,  \* gnode.cost
  min,        \* heap.min
  items,      \* heap.items[0 .. size-1]
  built,      \* build_heap ran after the last add_to_heap
  extracted   \* what extract_heap_root returned last

heap_vars == <<item_cost, min, items, built, extracted>>

\* The comparison of heapify: x must move above y.
Better(x, y) == IF min THEN item_cost[x] < item_cost[y] ELSE item_cost[x] > item_cost[y]

Swap(h, i, j) == [h EXCEPT ![i] = h[j], ![j] = h[i]]

\* The index heapify exchanges i with: the left child if it is better, then
\* the right child if it is better than that; i itself if neither is.
Preferred(h, i) ==
  LET best(j, k) == IF k <= Len(h) /\ Better(h[k], h[j]) THEN k ELSE j
  IN  best(best(i, 2 * i), 2 * i + 1)

\* A heap and an index of it, the arguments of heapify.
At(h, i) == [items |-> h, idx |-> i]
Heaps(indices) == [items : Seq(Items), idx : indices]

\* Sift the item at idx down.
heapify[s \in Heaps(Nat \ {0})] ==
  LET j == Preferred(s.items, s.idx)
  IN  IF j = s.idx THEN s.items ELSE heapify[At(Swap(s.items, s.idx, j), j)]

\* The loop of build_heap, from the last index to the first.
build_from[s \in Heaps(Nat)] ==
  IF s.idx = 0 THEN s.items ELSE build_from[At(heapify[s], s.idx - 1)]

build_heap(h) == build_from[At(h, Len(h))]

\* Wrong on purpose: the last item stays at the root.
WithoutRootUnsifted(h) == Front([h EXCEPT ![1] = Last(h)])

\* extract_heap_root on a heap that is not empty: what remains.
WithoutRoot(h) == heapify[At(Front([h EXCEPT ![1] = Last(h)]), 1)]

InitHeap ==
  /\ item_cost \in [Items -> Costs]
  /\ min \in BOOLEAN
  /\ items = <<>>
  /\ built = TRUE
  /\ extracted = Null

\* add_to_heap: color_graph adds a node to a heap once.
Add(x) ==
  /\ \A i \in DOMAIN items : items[i] # x
  /\ items' = Append(items, x)
  /\ built' = FALSE
  /\ UNCHANGED <<item_cost, min, extracted>>

Build ==
  /\ items' = build_heap(items)
  /\ built' = TRUE
  /\ UNCHANGED <<item_cost, min, extracted>>

Extract ==
  /\ items # <<>>
  /\ extracted' = items[1]
  /\ items' = WithoutRoot(items)
  /\ UNCHANGED <<item_cost, min, built>>

\* extract_heap_root returns NULL, as it does for color_graph's last call.
ExtractNothing ==
  /\ items = <<>>
  /\ extracted' = Null
  /\ UNCHANGED <<item_cost, min, items, built>>

NextHeap == \/ \E x \in Items : Add(x)
            \/ Build
            \/ Extract
            \/ ExtractNothing

HeapSpec == InitHeap /\ [][NextHeap]_heap_vars

-----------------------------------------------------------------------------
Queue == INSTANCE PriorityQueue WITH cost <- item_cost, contents <- ToSet(items)

\* The array heap implements PriorityQueue: sifting neither loses nor
\* duplicates a node, and a built heap yields its nodes best first.
ImplementsPriorityQueue == Queue!Spec
=============================================================================
