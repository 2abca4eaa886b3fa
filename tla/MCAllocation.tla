---------------------------- MODULE MCAllocation ----------------------------
(***************************************************************************)
(* Register allocation and the containers it is built on: colouring        *)
(* (MCColorGraph), the lists of graph.c (AdjacencyLists), the sets of      *)
(* set.c (BitSet) and the heap of heap.c (HeapArray).  They share no       *)
(* state, so that a behaviour drives one of them: colouring a graph,       *)
(* building and dismantling one of four nodes, two sets with words of two  *)
(* bits and sizes below, between and at whole words, or a heap of up to    *)
(* five nodes.                                                             *)
(***************************************************************************)
EXTENDS MCColorGraph, BitSet, HeapArray, AdjacencyLists

VARIABLE driven

\* Full sets whose size is not a multiple of the word.
PartialWords == {n \in Sizes : n % BITS_PER_PARTITION # 0}

\* heap.c tells nodes apart by their costs only: they are numbered by cost.
SortedCosts == {c \in [Items -> Costs] : \A i, j \in Items : i < j => c[i] <= c[j]}

\* Of the nodes of one cost that are not in the heap, the first is added.
FirstAdded ==
  \A i, j \in Items :
    i < j /\ item_cost[i] = item_cost[j] /\ Contains(items', j) /\ ~Contains(items, j)
      => Contains(items, i)

\* graph.c does not look at ids: nodes are numbered as they are added.
InOrder ==
  LET added == ListNodes(Graph)
  IN  added' \ added # {} => added' = 0 .. Cardinality(added)

MCInit ==
  /\ \/ driven = "color"
     \/ /\ driven \in {"set", "heap", "lists"}
        /\ edges = GraphOf({})
        /\ cost = [n \in Nodes |-> 1]
        /\ preferential_regs = [n \in Nodes |-> Regs]
  /\ IF driven = "heap" THEN item_cost \in SortedCosts
     ELSE min = TRUE /\ item_cost = [i \in Items |-> CHOOSE c \in Costs : TRUE]
  /\ Init /\ InitSets /\ InitHeap /\ InitLists

Color == driven = "color" /\ Next /\ UNCHANGED <<driven, sets, heap_vars, lists_vars>>

MCNext ==
  \/ Color
  \/ driven = "set" /\ NextSets /\ UNCHANGED <<driven, vars, heap_vars, lists_vars>>
  \/ driven = "heap" /\ NextHeap /\ FirstAdded /\ UNCHANGED <<driven, vars, sets, lists_vars>>
  \/ driven = "lists" /\ NextLists /\ InOrder /\ UNCHANGED <<driven, vars, sets, heap_vars>>

\* color_graph is sequential code that runs until its loop ends.
MCSpec == MCInit /\ [][MCNext]_<<driven, vars, sets, heap_vars, lists_vars>> /\ WF_vars(Color)

-----------------------------------------------------------------------------
\* The loop of color_graph ends: spilling and discarding make progress until
\* no node is left, whatever order the two heaps give.
ColoringEnds == <>(driven = "color" => graph = {} \/ crashed)
=============================================================================
