----------------------------- MODULE ColorGraph -----------------------------
(***************************************************************************)
(* color_graph (code_optimization.c): Chaitin-style simplification of the  *)
(* interference graph that gives each live range a register the moment it  *)
(* is taken off the graph.  One state is one evaluation of a loop test;    *)
(* ColorNode, DiscardStale and SpillNode are the three loop bodies.        *)
(*                                                                         *)
(* The two heaps are sets here: what extraction returns from a built heap  *)
(* is the promise of module PriorityQueue, which HeapArray implements.     *)
(* The nodes of an interference graph, its edges, the costs and the        *)
(* preferential registers are inputs, any of them, chosen by Init.         *)
(***************************************************************************)
EXTENDS Integers, FiniteSets

CONSTANTS
  Nodes,          \* the live ranges of one function
  NUM_REGISTERS,  \* K, 16 in the code
  EdgeSets,       \* the interference graphs considered, as sets of pairs
  CostMaps,       \* the costs the live ranges may have
  PrefMaps        \* the preferential registers they may have

Regs == 0 .. NUM_REGISTERS - 1
NoReg == -1

ASSUME NodesAssumption == IsFiniteSet(Nodes)
ASSUME RegistersAssumption == NUM_REGISTERS \in Nat \ {0}
ASSUME CostsAssumption == CostMaps \subseteq [Nodes -> Int]
ASSUME PrefsAssumption == PrefMaps \subseteq [Nodes -> SUBSET Regs]

VARIABLES
  edges,                \* edges[n]: neighbours of n before any removal
  cost,                 \* gnode.cost
  preferential_regs,    \* gnode.preferential_regs
  graph,                \* the nodes not yet removed; the others are freed
  reg,                  \* gnode.reg
  regs_to_avoid,        \* gnode.regs_to_avoid
  registers_used,       \* function_header->registers_used
  nodes_to_color_heap,  \* contents of the max heap
  color_heap_built,     \* build_heap ran after the last add_to_heap
  nodes_to_spill_heap,  \* contents of the min heap, built once
  nodes_to_spill,       \* the set that says which heap entries are current
  crashed               \* a freed list item was used

input == <<edges, cost, preferential_regs>>
vars == <<edges, cost, preferential_regs, graph, reg, regs_to_avoid,
          registers_used, nodes_to_color_heap, color_heap_built,
          nodes_to_spill_heap, nodes_to_spill, crashed>>

\* add_edge keeps adjacency symmetric, without self-loops or duplicates.
InterferenceGraphs ==
  {e \in [Nodes -> SUBSET Nodes] :
     \A n \in Nodes : n \notin e[n] /\ \A m \in e[n] : n \in e[m]}
GraphOf(E) == [n \in Nodes |-> {m \in Nodes \ {n} : {n, m} \in E}]

\* The neighbour list of n: remove_node_from_graph takes a node out of it
\* as the node leaves the graph, and num_neighbors is its length.
Neighbors(n) == edges[n] \cap graph
NumNeighbors(n) == Cardinality(Neighbors(n))

\* Wrong on purpose: the test made after the removal instead of before.
NewlyColorableLate(n) == {m \in Neighbors(n) : NumNeighbors(m) = NUM_REGISTERS - 1}

\* The neighbours of n the removal of n makes colourable.
NewlyColorable(n) == {m \in Neighbors(n) : NumNeighbors(m) = NUM_REGISTERS}

Init ==
  /\ \E E \in EdgeSets : edges = GraphOf(E)
  /\ cost \in CostMaps
  /\ preferential_regs \in PrefMaps
  /\ graph = Nodes
  /\ reg = [n \in Nodes |-> NoReg]
  /\ regs_to_avoid = [n \in Nodes |-> {}]
  /\ registers_used = {}
  /\ nodes_to_color_heap = {n \in Nodes : NumNeighbors(n) < NUM_REGISTERS}
  /\ nodes_to_spill_heap = {n \in Nodes : NumNeighbors(n) >= NUM_REGISTERS}
  /\ nodes_to_spill = nodes_to_spill_heap
  /\ color_heap_built = TRUE
  /\ crashed = FALSE

\* Wrong on purpose: register -1 is added like any other; the preferential
\* registers are taken even if they are to be avoided; register 0 is skipped.
AddAnyReg(r, s) == s \cup {r}
PreferredRegs(n) ==
  IF preferential_regs[n] # {} THEN preferential_regs[n] ELSE Regs \ regs_to_avoid[n]
RegsFromOne(n) == (1 .. NUM_REGISTERS - 1) \ regs_to_avoid[n]

(***************************************************************************)
(* The registers color_graph chooses among: those not avoided, narrowed to *)
(* the preferential ones when that leaves any.  It takes the least.        *)
(***************************************************************************)
AvailableRegs(n) ==
  LET free == Regs \ regs_to_avoid[n]
      preferred == free \cap preferential_regs[n]
  IN  IF preferred # {} THEN preferred ELSE free

\* With no register available reg stays -1.
Chosen(n, r) ==
  \/ r \in AvailableRegs(n) /\ \A s \in AvailableRegs(n) : r <= s
  \/ r = NoReg /\ AvailableRegs(n) = {}

\* add_to_set(-1, ...) shifts by a negative amount and sets, at most, a bit
\* that is no register's.
AddReg(r, s) == s \cup ({r} \cap Regs)

\* The root of the max heap: a most expensive node once the heap is built,
\* and the first one appended when it is not.
ColorHeapRoot(n) ==
  /\ n \in nodes_to_color_heap
  /\ color_heap_built => \A m \in nodes_to_color_heap : cost[n] >= cost[m]

\* One turn of the inner loop: take a node from the colour heap, give it a
\* register, forbid the register to its neighbours, queue those that became
\* colourable, remove the node, rebuild the heap.
ColorNode(n) ==
  /\ ~crashed
  /\ ColorHeapRoot(n)
  /\ \E r \in Regs \cup {NoReg} :
       /\ Chosen(n, r)
       /\ reg' = [reg EXCEPT ![n] = r]
       /\ registers_used' = AddReg(r, registers_used)
       /\ regs_to_avoid' =
            [m \in Nodes |-> IF m \in Neighbors(n)
                               THEN AddReg(r, regs_to_avoid[m])
                               ELSE regs_to_avoid[m]]
  /\ nodes_to_spill' = nodes_to_spill \ NewlyColorable(n)
  /\ nodes_to_color_heap' = (nodes_to_color_heap \ {n}) \cup NewlyColorable(n)
  /\ color_heap_built' = TRUE
  /\ graph' = graph \ {n}
  /\ UNCHANGED <<edges, cost, preferential_regs, nodes_to_spill_heap, crashed>>

\* The colour heap is empty and the outer loop goes on: n is what
\* extract_heap_root returns from the spill heap.  (The code also extracts
\* once when colouring has just emptied the graph, to no effect:
\* remove_node_from_graph returns at once from an empty graph.)
SpillHeapRoot(n) ==
  /\ ~crashed
  /\ graph # {}
  /\ nodes_to_color_heap = {}
  /\ n \in nodes_to_spill_heap
  /\ \A m \in nodes_to_spill_heap : cost[n] <= cost[m]

\* Wrong on purpose: the root is dropped without a look at nodes_to_spill.
DiscardAny(n) ==
  /\ SpillHeapRoot(n)
  /\ nodes_to_spill_heap' = nodes_to_spill_heap \ {n}
  /\ UNCHANGED <<edges, cost, preferential_regs, graph, reg, regs_to_avoid,
                 registers_used, nodes_to_color_heap, color_heap_built,
                 nodes_to_spill, crashed>>

\* The entry left nodes_to_spill when its node became colourable.
DiscardStale(n) ==
  /\ SpillHeapRoot(n)
  /\ n \notin nodes_to_spill
  /\ nodes_to_spill_heap' = nodes_to_spill_heap \ {n}
  /\ UNCHANGED <<edges, cost, preferential_regs, graph, reg, regs_to_avoid,
                 registers_used, nodes_to_color_heap, color_heap_built,
                 nodes_to_spill, crashed>>

\* Leave n in memory.  The neighbours this makes colourable are queued
\* behind each other with no build_heap, and stay in nodes_to_spill.
SpillNode(n) ==
  /\ SpillHeapRoot(n)
  /\ n \in nodes_to_spill
  /\ n \in graph
  /\ nodes_to_spill_heap' = nodes_to_spill_heap \ {n}
  /\ nodes_to_color_heap' = nodes_to_color_heap \cup NewlyColorable(n)
  /\ color_heap_built' = (NewlyColorable(n) = {})
  /\ graph' = graph \ {n}
  /\ UNCHANGED <<edges, cost, preferential_regs, reg, regs_to_avoid,
                 registers_used, nodes_to_spill, crashed>>

\* n is still in nodes_to_spill but has been removed from the graph:
\* graph_nodes[n] is freed memory, and remove_node_from_graph follows it.
SpillFreedNode(n) ==
  /\ SpillHeapRoot(n)
  /\ n \in nodes_to_spill
  /\ n \notin graph
  /\ crashed' = TRUE
  /\ UNCHANGED <<edges, cost, preferential_regs, graph, reg, regs_to_avoid,
                 registers_used, nodes_to_color_heap, color_heap_built,
                 nodes_to_spill_heap, nodes_to_spill>>

Next ==
  \E n \in Nodes : \/ ColorNode(n)
                   \/ DiscardStale(n)
                   \/ SpillNode(n)
                   \/ SpillFreedNode(n)

\* color_graph is sequential code that runs until its loop ends.
Spec == Init /\ [][Next]_vars /\ WF_vars(Next)

-----------------------------------------------------------------------------
(***************************************************************************)
(* Properties                                                              *)
(***************************************************************************)

TypeOK ==
  /\ edges \in InterferenceGraphs
  /\ cost \in [Nodes -> Int]
  /\ preferential_regs \in [Nodes -> SUBSET Regs]
  /\ graph \subseteq Nodes
  /\ reg \in [Nodes -> Regs \cup {NoReg}]
  /\ regs_to_avoid \in [Nodes -> SUBSET Regs]
  /\ registers_used \subseteq Regs
  /\ nodes_to_color_heap \subseteq Nodes
  /\ nodes_to_spill_heap \subseteq Nodes
  /\ nodes_to_spill \subseteq Nodes
  /\ color_heap_built \in BOOLEAN
  /\ crashed \in BOOLEAN

\* Two live ranges that interfere never hold the same register, although
\* a node is coloured when its later neighbours are not (color_graph 573-606).
NeighborsDiffer ==
  \A n \in Nodes : \A m \in edges[n] : reg[n] # NoReg => reg[n] # reg[m]

\* registers_used is exactly the set of registers given out: what the
\* function's callers and its Enter and Leave code save is computed from it.
RegistersUsedExact ==
  registers_used = {reg[n] : n \in Nodes} \ {NoReg}

\* A live range with fewer than K interferences is never left in memory:
\* however the removals are interleaved with spills, fewer than K registers
\* can have been forbidden to it.
LowDegreeColored ==
  \A n \in Nodes \ graph :
    Cardinality(edges[n]) < NUM_REGISTERS => reg[n] # NoReg

\* A node still on the graph waits in the colour heap or is a current entry
\* of the spill heap, so neither loop of color_graph can starve: nodes moved
\* between the heaps by either branch are never lost.
NoNodeLost ==
  graph \subseteq nodes_to_color_heap \cup (nodes_to_spill_heap \cap nodes_to_spill)

\* The colour heap holds exactly the nodes with fewer than K neighbours left.
\* Each node crosses K once, in either branch, so it is queued once and the
\* heap array (one slot per local variable) cannot overflow.
ColorHeapExact ==
  nodes_to_color_heap = {n \in graph : NumNeighbors(n) < NUM_REGISTERS}

-----------------------------------------------------------------------------
(***************************************************************************)
(* What a comment of color_graph says                                      *)
(***************************************************************************)

\* "Nodes can have been removed from the spill set as others were colored":
\* a current entry of the spill heap is a node still on the graph.
SpillCandidatesOnGraph ==
  nodes_to_spill_heap \cap nodes_to_spill \subseteq graph

Abstract == INSTANCE RegisterAssignment
\* color_graph implements the promise of RegisterAssignment: registers are
\* given one at a time, never changed, never equal to a neighbour's.
ImplementsRegisterAssignment == Abstract!Spec
=============================================================================
