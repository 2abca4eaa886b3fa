-------------------------- MODULE AllocationProofs --------------------------
(***************************************************************************)
(* Register allocation and the containers it is built on, each for every   *)
(* instance.  ColorGraph: any number of registers, any finite set of live  *)
(* ranges, any interference graph and any cost.  BitSet: the bit sets of   *)
(* set.c implement sets of numbers, for any width of a partition and any   *)
(* sizes; a set is its members, by one lemma on how numbers are laid out   *)
(* in partitions.  HeapArray: the array of heap.c implements a priority    *)
(* queue; sifting up and down repairs the one place that is out of order.  *)
(* AdjacencyLists: the linked lists of graph.c implement a simple graph;   *)
(* each list is a sequence of items, and each operation on pointers is one *)
(* on sequences.                                                           *)
(***************************************************************************)
EXTENDS ColorGraph, BitSet, HeapArray, AdjacencyLists, InductionProofs, SequenceTheorems, FiniteSetTheorems

\* What a node still on the graph must avoid: the registers of the
\* neighbours already taken off it, and it has no register yet.
AvoidExact ==
  \A n \in graph :
    /\ reg[n] = NoReg
    /\ regs_to_avoid[n] = {reg[m] : m \in edges[n] \ graph} \ {NoReg}

IInv ==
  /\ TypeOK
  /\ AvoidExact
  /\ NeighborsDiffer
  /\ RegistersUsedExact
  /\ ColorHeapExact
  /\ NoNodeLost
  /\ LowDegreeColored

\* The inputs Init enumerates as sets of pairs are interference graphs.
LEMMA GraphOfType ==
  ASSUME NEW E
  PROVE  GraphOf(E) \in InterferenceGraphs
<1>1. GraphOf(E) \in [Nodes -> SUBSET Nodes]
  BY DEF GraphOf
<1>2. ASSUME NEW n \in Nodes
      PROVE  n \notin GraphOf(E)[n] /\ \A m \in GraphOf(E)[n] : n \in GraphOf(E)[m]
  <2>1. n \notin GraphOf(E)[n]
    BY DEF GraphOf
  <2>2. ASSUME NEW m \in GraphOf(E)[n] PROVE n \in GraphOf(E)[m]
    <3>1. m \in Nodes /\ m # n /\ {n, m} \in E
      BY <2>2 DEF GraphOf
    <3>2. {m, n} = {n, m}
      OBVIOUS
    <3> QED BY <3>1, <3>2 DEF GraphOf
  <2> QED BY <2>1, <2>2
<1> QED BY <1>1, <1>2 DEF InterferenceGraphs

\* Taking n off the graph costs each of its neighbours one neighbour and
\* costs the other nodes nothing.
LEMMA NeighborsAfterRemoval ==
  ASSUME TypeOK, NEW n \in graph, NEW k \in graph, k # n
  PROVE  /\ NumNeighbors(k) \in Nat
         /\ Cardinality(edges[k] \cap (graph \ {n})) =
              IF k \in Neighbors(n) THEN NumNeighbors(k) - 1 ELSE NumNeighbors(k)
<1>1. n \in Nodes /\ k \in Nodes /\ IsFiniteSet(Neighbors(k))
  BY NodesAssumption, FS_Subset DEF TypeOK, Neighbors
<1>2. NumNeighbors(k) \in Nat
  BY <1>1, FS_CardinalityType DEF NumNeighbors
<1>3. edges[k] \cap (graph \ {n}) = Neighbors(k) \ {n}
  BY DEF Neighbors
<1>4. n \in Neighbors(k) <=> k \in Neighbors(n)
  BY <1>1 DEF TypeOK, InterferenceGraphs, Neighbors
<1>5. Cardinality(Neighbors(k) \ {n}) =
        IF n \in Neighbors(k) THEN Cardinality(Neighbors(k)) - 1
                              ELSE Cardinality(Neighbors(k))
  BY <1>1, FS_RemoveElement
<1> QED BY <1>2, <1>3, <1>4, <1>5 DEF NumNeighbors

\* Removing n makes exactly NewlyColorable(n) colourable, whichever branch
\* of color_graph removes it.
LEMMA ColorableAfterRemoval ==
  ASSUME IInv, NEW n \in graph
  PROVE  {k \in graph \ {n} : Cardinality(edges[k] \cap (graph \ {n})) < NUM_REGISTERS}
           = (nodes_to_color_heap \ {n}) \cup NewlyColorable(n)
<1>1. ASSUME NEW k \in graph, k # n
      PROVE  Cardinality(edges[k] \cap (graph \ {n})) < NUM_REGISTERS
               <=> k \in nodes_to_color_heap \/ k \in NewlyColorable(n)
  <2>1. NumNeighbors(k) \in Nat
    BY <1>1, NeighborsAfterRemoval DEF IInv
  <2>2. CASE k \in Neighbors(n)
    <3>1. Cardinality(edges[k] \cap (graph \ {n})) = NumNeighbors(k) - 1
      BY <1>1, <2>2, NeighborsAfterRemoval DEF IInv
    <3>2. k \in NewlyColorable(n) <=> NumNeighbors(k) = NUM_REGISTERS
      BY <2>2 DEF NewlyColorable
    <3>3. k \in nodes_to_color_heap <=> NumNeighbors(k) < NUM_REGISTERS
      BY DEF IInv, ColorHeapExact
    <3> QED BY <2>1, <3>1, <3>2, <3>3, RegistersAssumption
  <2>3. CASE k \notin Neighbors(n)
    <3>1. Cardinality(edges[k] \cap (graph \ {n})) = NumNeighbors(k)
      BY <1>1, <2>3, NeighborsAfterRemoval DEF IInv
    <3>2. k \notin NewlyColorable(n)
      BY <2>3 DEF NewlyColorable
    <3> QED BY <3>1, <3>2 DEF IInv, ColorHeapExact
  <2> QED BY <2>2, <2>3
<1>2. nodes_to_color_heap \subseteq graph /\ NewlyColorable(n) \subseteq graph
  BY DEF IInv, ColorHeapExact, NewlyColorable, Neighbors
<1>3. n \notin NewlyColorable(n)
  BY DEF IInv, TypeOK, InterferenceGraphs, NewlyColorable, Neighbors
<1> QED BY <1>1, <1>2, <1>3

\* A live range with fewer than K interferences always has a register left.
LEMMA RegisterLeft ==
  ASSUME IInv, NEW n \in graph, Cardinality(edges[n]) < NUM_REGISTERS
  PROVE  AvailableRegs(n) # {}
<1> DEFINE S == edges[n] \ graph
           f == [m \in S |-> reg[m]]
           T == {reg[m] : m \in S}
<1>1. n \in Nodes /\ edges[n] \subseteq Nodes
  BY DEF IInv, TypeOK, InterferenceGraphs
<1>2. IsFiniteSet(edges[n]) /\ IsFiniteSet(S) /\ Cardinality(S) <= Cardinality(edges[n])
  <2>1. IsFiniteSet(edges[n])
    BY <1>1, NodesAssumption, FS_Subset
  <2> QED BY <2>1, FS_Subset
<1>3. f \in Surjection(S, T)
  BY DEF Surjection
<1>4. IsFiniteSet(T) /\ Cardinality(T) <= Cardinality(S)
  BY <1>2, <1>3, FS_Surjection
<1>5. IsFiniteSet(regs_to_avoid[n]) /\ Cardinality(regs_to_avoid[n]) <= Cardinality(T)
  <2>1. regs_to_avoid[n] \subseteq T
    BY DEF IInv, AvoidExact
  <2> QED BY <2>1, <1>4, FS_Subset
<1>6. Cardinality(Regs) = NUM_REGISTERS
  <2>1. 0 \in Int /\ NUM_REGISTERS - 1 \in Int
    BY RegistersAssumption
  <2>2. Cardinality(0 .. NUM_REGISTERS - 1)
          = IF 0 > NUM_REGISTERS - 1 THEN 0 ELSE NUM_REGISTERS - 1 - 0 + 1
    BY <2>1, FS_Interval
  <2> QED BY <2>2, RegistersAssumption DEF Regs
<1>7. /\ Cardinality(S) \in Nat /\ Cardinality(edges[n]) \in Nat
      /\ Cardinality(T) \in Nat /\ Cardinality(regs_to_avoid[n]) \in Nat
  BY <1>2, <1>4, <1>5, FS_CardinalityType
<1>8. Cardinality(regs_to_avoid[n]) < Cardinality(Regs)
  BY <1>2, <1>4, <1>5, <1>6, <1>7, RegistersAssumption
<1>9. ~ (Regs \subseteq regs_to_avoid[n])
  <2>1. SUFFICES ASSUME Regs \subseteq regs_to_avoid[n] PROVE FALSE
    OBVIOUS
  <2>2. Cardinality(Regs) <= Cardinality(regs_to_avoid[n])
    BY <2>1, <1>5, FS_Subset
  <2> QED BY <2>2, <1>6, <1>7, <1>8, RegistersAssumption
<1> QED BY <1>9 DEF AvailableRegs

\* The initial heaps and sets satisfy the inductive invariant.
LEMMA InitIInv == Init => IInv
<1> SUFFICES ASSUME Init PROVE IInv
  OBVIOUS
<1>1. edges \in InterferenceGraphs
  BY GraphOfType DEF Init
<1>2. \A n \in Nodes : NumNeighbors(n) \in Nat
  BY <1>1, NodesAssumption, FS_Subset, FS_CardinalityType
     DEF NumNeighbors, Neighbors, InterferenceGraphs
<1>3. TypeOK
  BY <1>1, CostsAssumption, PrefsAssumption DEF Init, TypeOK
<1>4. AvoidExact
  BY <1>1 DEF Init, AvoidExact, InterferenceGraphs
<1>5. NeighborsDiffer /\ RegistersUsedExact
  BY DEF Init, NeighborsDiffer, RegistersUsedExact
<1>6. ColorHeapExact
  BY DEF Init, ColorHeapExact
<1>7. NoNodeLost
  BY <1>2, RegistersAssumption DEF Init, NoNodeLost
<1>8. LowDegreeColored
  BY DEF Init, LowDegreeColored
<1> QED BY <1>3, <1>4, <1>5, <1>6, <1>7, <1>8 DEF IInv

\* Colouring a node preserves the inductive invariant.
LEMMA ColorNodeIInv ==
  ASSUME IInv, NEW n \in Nodes, ColorNode(n)
  PROVE  IInv'
<1>1. n \in graph
  BY DEF IInv, ColorHeapExact, ColorNode, ColorHeapRoot
<1>2. PICK r \in Regs \cup {NoReg} :
         /\ Chosen(n, r)
         /\ reg' = [reg EXCEPT ![n] = r]
         /\ registers_used' = AddReg(r, registers_used)
         /\ regs_to_avoid' =
              [m \in Nodes |-> IF m \in Neighbors(n)
                                 THEN AddReg(r, regs_to_avoid[m])
                                 ELSE regs_to_avoid[m]]
  BY DEF ColorNode
<1>3. graph' = graph \ {n} /\ edges' = edges
  BY DEF ColorNode
<1>4. NoReg \notin Regs
  BY RegistersAssumption DEF NoReg, Regs
<1>5. r # NoReg => r \in Regs \ regs_to_avoid[n]
  BY <1>2 DEF Chosen, AvailableRegs
<1>6. edges \in [Nodes -> SUBSET Nodes] /\ reg \in [Nodes -> Regs \cup {NoReg}]
  BY DEF IInv, TypeOK, InterferenceGraphs
<1>7. \A k \in Nodes : k \notin edges[k] /\ \A m \in edges[k] : k \in edges[m]
  BY DEF IInv, TypeOK, InterferenceGraphs
<1>8. TypeOK'
  <2>1. NewlyColorable(n) \subseteq Nodes
    BY DEF NewlyColorable, Neighbors, IInv, TypeOK
  <2> QED BY <1>2, <1>3, <1>6, <2>1 DEF IInv, TypeOK, ColorNode, AddReg
<1>9. AvoidExact'
  <2> SUFFICES ASSUME NEW k \in graph'
               PROVE  /\ reg'[k] = NoReg
                      /\ regs_to_avoid'[k] = {reg'[m] : m \in edges[k] \ graph'} \ {NoReg}
    BY <1>3 DEF AvoidExact
  <2>1. k \in graph /\ k # n /\ k \in Nodes
    BY <1>3 DEF IInv, TypeOK
  <2>2. reg'[k] = NoReg
    BY <1>2, <1>6, <2>1 DEF IInv, AvoidExact
  <2>3. regs_to_avoid[k] = {reg[m] : m \in edges[k] \ graph} \ {NoReg}
    BY <2>1 DEF IInv, AvoidExact
  <2>4. \A m \in edges[k] \ graph : reg'[m] = reg[m] /\ m \in edges[k] \ graph'
    BY <1>1, <1>2, <1>3, <1>6, <2>1
  <2>5. CASE k \in Neighbors(n)
    <3>1. n \in edges[k]
      BY <1>7, <2>1, <2>5 DEF Neighbors
    <3>2. edges[k] \ graph' = (edges[k] \ graph) \cup {n}
      BY <1>1, <1>3, <3>1
    <3>3. reg'[n] = r
      BY <1>2, <1>6
    <3>4. regs_to_avoid'[k] = regs_to_avoid[k] \cup ({r} \cap Regs)
      BY <1>2, <2>1, <2>5 DEF AddReg
    <3>5. {r} \cap Regs = {r} \ {NoReg}
      BY <1>2, <1>4
    <3>6. {reg'[m] : m \in edges[k] \ graph'} = {reg[m] : m \in edges[k] \ graph} \cup {r}
      BY <2>4, <3>2, <3>3
    <3> QED BY <2>2, <2>3, <3>4, <3>5, <3>6
  <2>6. CASE k \notin Neighbors(n)
    <3>1. n \notin edges[k]
      BY <1>7, <2>1, <2>6 DEF Neighbors
    <3>2. edges[k] \ graph' = edges[k] \ graph
      BY <1>3, <3>1
    <3>3. regs_to_avoid'[k] = regs_to_avoid[k]
      BY <1>2, <2>1, <2>6
    <3> QED BY <2>2, <2>3, <2>4, <3>2, <3>3
  <2> QED BY <2>5, <2>6
<1>10. r # NoReg => \A m \in edges[n] : reg[m] # r
  <2> SUFFICES ASSUME r # NoReg, NEW m \in edges[n], reg[m] = r PROVE FALSE
    OBVIOUS
  <2>1. m \in graph => reg[m] = NoReg
    BY DEF IInv, AvoidExact
  <2>2. m \notin graph => reg[m] \in regs_to_avoid[n]
    BY <1>1 DEF IInv, AvoidExact
  <2> QED BY <1>5, <2>1, <2>2
<1>11. NeighborsDiffer'
  <2> SUFFICES ASSUME NEW a \in Nodes, NEW b \in edges[a], reg'[a] # NoReg
               PROVE  reg'[a] # reg'[b]
    BY <1>3 DEF NeighborsDiffer
  <2>1. b \in Nodes /\ b # a /\ a \in edges[b]
    BY <1>6, <1>7
  <2>2. CASE a = n
    BY <1>2, <1>6, <1>10, <2>1, <2>2
  <2>3. CASE b = n
    BY <1>2, <1>6, <1>10, <2>1, <2>3
  <2>4. CASE a # n /\ b # n
    BY <1>2, <1>6, <2>1, <2>4 DEF IInv, NeighborsDiffer
  <2> QED BY <2>2, <2>3, <2>4
<1>12. RegistersUsedExact'
  <2>1. reg[n] = NoReg
    BY <1>1 DEF IInv, AvoidExact
  <2>2. {reg'[k] : k \in Nodes} \ {NoReg} = ({reg[k] : k \in Nodes} \cup {r}) \ {NoReg}
    <3>1. \A k \in Nodes : reg'[k] = IF k = n THEN r ELSE reg[k]
      BY <1>2, <1>6
    <3> QED BY <2>1, <3>1
  <2>3. {r} \cap Regs = {r} \ {NoReg}
    BY <1>2, <1>4
  <2> QED BY <1>2, <2>2, <2>3 DEF IInv, RegistersUsedExact, AddReg
<1>13. ColorHeapExact'
  BY <1>1, <1>3, ColorableAfterRemoval
     DEF ColorHeapExact, ColorNode, NumNeighbors, Neighbors
<1>14. NoNodeLost'
  BY <1>3 DEF IInv, NoNodeLost, ColorNode
<1>15. LowDegreeColored'
  <2> SUFFICES ASSUME NEW k \in Nodes \ graph', Cardinality(edges[k]) < NUM_REGISTERS
               PROVE  reg'[k] # NoReg
    BY <1>3 DEF LowDegreeColored
  <2>1. CASE k = n
    <3>1. AvailableRegs(n) # {}
      BY <1>1, <2>1, RegisterLeft
    <3>2. r \in Regs
      BY <1>2, <3>1 DEF Chosen, AvailableRegs
    <3> QED BY <1>2, <1>4, <1>6, <2>1, <3>2
  <2>2. CASE k # n
    BY <1>2, <1>3, <1>6, <2>2 DEF IInv, LowDegreeColored
  <2> QED BY <2>1, <2>2
<1> QED BY <1>8, <1>9, <1>11, <1>12, <1>13, <1>14, <1>15 DEF IInv

\* Leaving a node in memory preserves the inductive invariant.
LEMMA SpillNodeIInv ==
  ASSUME IInv, NEW n \in Nodes, SpillNode(n)
  PROVE  IInv'
<1>1. n \in graph /\ graph' = graph \ {n} /\ edges' = edges /\ reg' = reg
  BY DEF SpillNode
<1>2. \A k \in Nodes : edges[k] \subseteq Nodes
  BY DEF IInv, TypeOK, InterferenceGraphs
<1>3. TypeOK'
  <2>1. NewlyColorable(n) \subseteq Nodes
    BY DEF NewlyColorable, Neighbors, IInv, TypeOK
  <2> QED BY <2>1 DEF IInv, TypeOK, SpillNode, SpillHeapRoot
<1>4. AvoidExact'
  <2> SUFFICES ASSUME NEW k \in graph'
               PROVE  /\ reg[k] = NoReg
                      /\ regs_to_avoid[k] = {reg[m] : m \in edges[k] \ graph'} \ {NoReg}
    BY <1>1 DEF AvoidExact, SpillNode
  <2>1. k \in graph /\ reg[k] = NoReg /\ reg[n] = NoReg
    BY <1>1 DEF IInv, AvoidExact
  <2>2. regs_to_avoid[k] = {reg[m] : m \in edges[k] \ graph} \ {NoReg}
    BY <2>1 DEF IInv, AvoidExact
  <2>3. {reg[m] : m \in edges[k] \ graph'} \ {NoReg}
          = {reg[m] : m \in edges[k] \ graph} \ {NoReg}
    BY <1>1, <2>1
  <2> QED BY <2>1, <2>2, <2>3
<1>5. NeighborsDiffer' /\ RegistersUsedExact'
  BY <1>1 DEF IInv, NeighborsDiffer, RegistersUsedExact, SpillNode
<1>6. ColorHeapExact'
  <2>1. n \notin nodes_to_color_heap
    BY DEF SpillNode, SpillHeapRoot
  <2> QED BY <1>1, <2>1, ColorableAfterRemoval
          DEF ColorHeapExact, SpillNode, NumNeighbors, Neighbors
<1>7. NoNodeLost'
  BY <1>1 DEF IInv, NoNodeLost, SpillNode
<1>8. LowDegreeColored'
  <2> SUFFICES ASSUME Cardinality(edges[n]) < NUM_REGISTERS PROVE FALSE
    BY <1>1 DEF IInv, LowDegreeColored
  <2>1. NumNeighbors(n) \in Nat /\ Cardinality(edges[n]) \in Nat
        /\ NumNeighbors(n) <= Cardinality(edges[n])
    <3>1. IsFiniteSet(edges[n])
      BY <1>2, NodesAssumption, FS_Subset
    <3> QED BY <3>1, FS_Subset, FS_CardinalityType DEF NumNeighbors, Neighbors
  <2>2. ~ (NumNeighbors(n) < NUM_REGISTERS)
    BY <1>1 DEF IInv, ColorHeapExact, SpillNode, SpillHeapRoot
  <2> QED BY <2>1, <2>2, RegistersAssumption
<1> QED BY <1>3, <1>4, <1>5, <1>6, <1>7, <1>8 DEF IInv

\* Dropping a stale heap entry, or crashing on one, changes nothing the
\* invariant speaks of but the spill heap.
LEMMA OtherStepsIInv ==
  ASSUME IInv, NEW n \in Nodes, DiscardStale(n) \/ SpillFreedNode(n) \/ UNCHANGED vars
  PROVE  IInv'
<1>1. UNCHANGED <<edges, cost, preferential_regs, graph, reg, regs_to_avoid,
                  registers_used, nodes_to_color_heap, color_heap_built, nodes_to_spill>>
  BY DEF DiscardStale, SpillFreedNode, vars
<1>2. TypeOK'
  BY <1>1 DEF IInv, TypeOK, DiscardStale, SpillFreedNode, vars
<1>3. AvoidExact' /\ NeighborsDiffer' /\ RegistersUsedExact' /\ LowDegreeColored'
  BY <1>1 DEF IInv, AvoidExact, NeighborsDiffer, RegistersUsedExact, LowDegreeColored
<1>4. ColorHeapExact'
  BY <1>1 DEF IInv, ColorHeapExact, NumNeighbors, Neighbors
<1>5. NoNodeLost'
  BY <1>1 DEF IInv, NoNodeLost, DiscardStale, SpillFreedNode, vars
<1> QED BY <1>2, <1>3, <1>4, <1>5 DEF IInv

\* Every step of color_graph preserves the inductive invariant.
LEMMA StepIInv == IInv /\ [Next]_vars => IInv'
<1> SUFFICES ASSUME IInv, [Next]_vars PROVE IInv'
  OBVIOUS
<1>1. ASSUME NEW n \in Nodes, ColorNode(n) PROVE IInv'
  BY <1>1, ColorNodeIInv
<1>2. ASSUME NEW n \in Nodes, SpillNode(n) PROVE IInv'
  BY <1>2, SpillNodeIInv
<1>3. ASSUME NEW n \in Nodes, DiscardStale(n) \/ SpillFreedNode(n) PROVE IInv'
  BY <1>3, OtherStepsIInv
<1>4. ASSUME UNCHANGED vars PROVE IInv'
  <2>1. CASE Nodes = {}
    BY <1>4, <2>1 DEF vars, IInv, TypeOK, AvoidExact, NeighborsDiffer, RegistersUsedExact,
                      ColorHeapExact, NumNeighbors, Neighbors, NoNodeLost, LowDegreeColored
  <2>2. CASE Nodes # {}
    BY <1>4, <2>2, OtherStepsIInv
  <2> QED BY <2>1, <2>2
<1> QED BY <1>1, <1>2, <1>3, <1>4 DEF Next

LEMMA SpecIInv == Spec => []IInv
BY InitIInv, StepIInv, PTL DEF Spec

\* Every state of color_graph is type-correct.
THEOREM TypeCorrect == Spec => []TypeOK
BY SpecIInv, PTL DEF IInv

\* Live ranges that interfere never share a register.
THEOREM NeighborsNeverShare == Spec => []NeighborsDiffer
BY SpecIInv, PTL DEF IInv

\* registers_used is the set of registers given out, neither more nor less.
THEOREM RegistersUsedCorrect == Spec => []RegistersUsedExact
BY SpecIInv, PTL DEF IInv

\* A live range with fewer than K interferences is never left in memory.
THEOREM LowDegreeNeverSpilled == Spec => []LowDegreeColored
BY SpecIInv, PTL DEF IInv

\* Every node on the graph is colourable and queued, or a current candidate
\* for spilling: the loop always has a node to take.
THEOREM NothingLost == Spec => []NoNodeLost
BY SpecIInv, PTL DEF IInv

\* The heap of colourable nodes holds nodes of the graph left and no others:
\* no node that color_graph takes from it was coloured or spilled before.
THEOREM ColorHeapNeverStale == Spec => []ColorHeapExact
BY SpecIInv, PTL DEF IInv

\* color_graph implements the promise of RegisterAssignment.
THEOREM Refinement == Spec => ImplementsRegisterAssignment
<1>1. Init => Abstract!Init
  <2> SUFFICES ASSUME Init PROVE Abstract!Init
    OBVIOUS
  <2>1. edges \in [Nodes -> SUBSET Nodes]
    BY GraphOfType DEF Init, InterferenceGraphs
  <2> QED BY <2>1 DEF Init, Abstract!Init, Abstract!NoReg, NoReg
<1>2. IInv /\ [Next]_vars => [Abstract!Next]_(Abstract!vars)
  <2> SUFFICES ASSUME IInv, [Next]_vars
               PROVE  Abstract!Next \/ UNCHANGED <<edges, reg>>
    BY DEF Abstract!vars
  <2>1. ASSUME NEW n \in Nodes, ColorNode(n)
        PROVE  Abstract!Next \/ UNCHANGED <<edges, reg>>
    <3>1. PICK r \in Regs \cup {NoReg} : Chosen(n, r) /\ reg' = [reg EXCEPT ![n] = r]
      BY <2>1 DEF ColorNode
    <3>2. edges' = edges
      BY <2>1 DEF ColorNode
    <3>3. n \in graph /\ reg[n] = NoReg
      BY <2>1 DEF IInv, AvoidExact, ColorHeapExact, ColorNode, ColorHeapRoot
    <3>4. CASE r = NoReg
      <4>1. reg' = reg
        BY <3>1, <3>3, <3>4 DEF IInv, TypeOK
      <4> QED BY <3>2, <4>1
    <3>5. CASE r # NoReg
      <4>1. r \in Regs \ regs_to_avoid[n]
        BY <3>1, <3>5 DEF Chosen, AvailableRegs
      <4>2. ASSUME NEW m \in edges[n] PROVE reg[m] # r
        <5>1. m \in graph => reg[m] = NoReg
          BY DEF IInv, AvoidExact
        <5>2. m \notin graph => reg[m] = NoReg \/ reg[m] \in regs_to_avoid[n]
          BY <3>3 DEF IInv, AvoidExact
        <5> QED BY <3>5, <4>1, <5>1, <5>2
      <4>3. Abstract!Assign(n, r)
        BY <3>1, <3>2, <3>3, <4>2 DEF Abstract!Assign, Abstract!NoReg, NoReg
      <4> QED BY <4>1, <4>3 DEF Abstract!Next
    <3> QED BY <3>4, <3>5
  <2>2. ASSUME NEW n \in Nodes, SpillNode(n) \/ DiscardStale(n) \/ SpillFreedNode(n)
        PROVE  UNCHANGED <<edges, reg>>
    BY <2>2 DEF SpillNode, DiscardStale, SpillFreedNode
  <2>3. ASSUME UNCHANGED vars PROVE UNCHANGED <<edges, reg>>
    BY <2>3 DEF vars
  <2> QED BY <2>1, <2>2, <2>3 DEF Next
<1> QED BY <1>1, <1>2, SpecIInv, PTL DEF Spec, ImplementsRegisterAssignment, Abstract!Spec

-----------------------------------------------------------------------------
\* Full sets are only made of sizes that do not fill their last partition.
WellSized ==
  /\ BITS_PER_PARTITION \in Nat \ {0}
  /\ Sizes \subseteq Nat
  /\ \A n \in FullSizes : n \in Nat /\ n % BITS_PER_PARTITION # 0

B == BITS_PER_PARTITION

\* A mask of size n that has the numbers of M, each at its bit, and no other
\* bit.
Masks(n) == [0 .. num_partitions(n) - 1 -> SUBSET Bits]
Represents(m, n, M) ==
  /\ n \in Nat /\ M \subseteq 0 .. n - 1 /\ m \in Masks(n)
  /\ \A i \in 0 .. num_partitions(n) - 1, b \in Bits : b \in m[i] <=> B * i + b \in M

Denotes(s, n, M) == s = [max_size |-> n, mask |-> s.mask] /\ Represents(s.mask, n, M)

\* A set a client may have: a NULL mask, or one whose bits are its members.
Legal(s) == s = Undefined \/ Denotes(s, s.max_size, members(s))

SetsInv == /\ sets = [h \in Handles |-> sets[h]]
        /\ \A h \in Handles : Legal(sets[h])

-----------------------------------------------------------------------------
\* A number below n has a place of its own in the partitions of size n.
LEMMA Place ==
  ASSUME WellSized, NEW n \in Nat, NEW e \in 0 .. n - 1
  PROVE  /\ partition(e) \in 0 .. num_partitions(n) - 1
         /\ pos_in_partition(e) \in Bits
         /\ e = B * partition(e) + pos_in_partition(e)
BY DEF WellSized, B, partition, num_partitions, pos_in_partition, Bits

LEMMA OwnPlace ==
  ASSUME WellSized, NEW i \in Nat, NEW j \in Nat, NEW b \in Bits, NEW c \in Bits,
         B * i + b = B * j + c
  PROVE  i = j /\ b = c
BY DEF WellSized, B, Bits

LEMMA PartitionsType ==
  ASSUME WellSized, NEW n \in Nat
  PROVE  /\ num_partitions(n) \in Nat
         /\ \A i \in 0 .. num_partitions(n) - 1 : i \in Nat
BY DEF WellSized, num_partitions

LEMMA MembersDef ==
  ASSUME NEW s, NEW x
  PROVE  x \in members(s) <=>
           \E i \in Partitions(s), b \in Bits : b \in s.mask[i] /\ x = B * i + b
<1> DEFINE bits == {p \in Partitions(s) \X Bits : p[2] \in s.mask[p[1]]}
<1>1. x \in members(s) <=> \E q \in bits : x = B * q[1] + q[2]
  BY DEF members, B
<1>2. ASSUME NEW q \in bits, x = B * q[1] + q[2]
      PROVE  \E i \in Partitions(s), b \in Bits : b \in s.mask[i] /\ x = B * i + b
  BY <1>2
<1>3. ASSUME NEW i \in Partitions(s), NEW b \in Bits, b \in s.mask[i], x = B * i + b
      PROVE  \E q \in bits : x = B * q[1] + q[2]
  <2>1. <<i, b>> \in bits /\ x = B * <<i, b>>[1] + <<i, b>>[2]
    BY <1>3
  <2> QED BY <2>1
<1> QED BY <1>1, <1>2, <1>3

\* A set with a mask that represents M has the members M.
LEMMA Represented ==
  ASSUME WellSized, NEW s, NEW n, NEW M, Denotes(s, n, M)
  PROVE  /\ s.max_size = n /\ members(s) = M
         /\ Legal(s) /\ ~is_set_undefined(s)
<1>1. s.max_size = n /\ n \in Nat /\ Partitions(s) = 0 .. num_partitions(n) - 1
  BY DEF Denotes, Represents, Partitions
<1>2. \A x \in members(s) : x \in M
  <2> SUFFICES ASSUME NEW x \in members(s) PROVE x \in M
    OBVIOUS
  <2>1. PICK i \in Partitions(s), b \in Bits : b \in s.mask[i] /\ x = B * i + b
    BY MembersDef
  <2> QED BY <1>1, <2>1 DEF Denotes, Represents
<1>3. ASSUME NEW x \in M PROVE x \in members(s)
  <2>1. x \in 0 .. n - 1 /\ n \in Nat
    BY DEF Denotes, Represents
  <2>2. /\ partition(x) \in Partitions(s) /\ pos_in_partition(x) \in Bits
        /\ x = B * partition(x) + pos_in_partition(x)
    BY <1>1, <2>1, Place
  <2>3. pos_in_partition(x) \in s.mask[partition(x)]
    BY <1>1, <2>2 DEF Denotes, Represents
  <2> QED BY <2>2, <2>3, MembersDef
<1>4. members(s) = M
  BY <1>2, <1>3
<1>5. ~is_set_undefined(s)
  BY <1>1 DEF is_set_undefined
<1> QED BY <1>1, <1>4, <1>5 DEF Legal

\* A set that is not NULL, by its size, mask and members.
LEMMA Known ==
  ASSUME NEW s, Legal(s), ~is_set_undefined(s)
  PROVE  /\ s = [max_size |-> s.max_size, mask |-> s.mask]
         /\ s.max_size \in Nat
         /\ s.mask \in Masks(s.max_size)
         /\ members(s) \subseteq 0 .. s.max_size - 1
         /\ Partitions(s) = 0 .. num_partitions(s.max_size) - 1
         /\ \A i \in Partitions(s), b \in Bits : b \in s.mask[i] <=> B * i + b \in members(s)
BY DEF Legal, Denotes, Undefined, is_set_undefined, Represents, Partitions

LEMMA NullMembers ==
  ASSUME WellSized
  PROVE  Undefined.max_size = -1 /\ members(Undefined) = {}
<1>1. \A b \in Nat \ {0} : 0 .. ((-1 + b - 1) \div b) - 1 = {}
  OBVIOUS
<1>2. Partitions(Undefined) = {}
  BY <1>1 DEF WellSized, Partitions, num_partitions, Undefined
<1> QED BY <1>2, MembersDef DEF Undefined

-----------------------------------------------------------------------------
\* What each operation does to the members.
LEMMA NewMask ==
  ASSUME NEW s, Legal(s), ~is_set_undefined(s), NEW m
  PROVE  [s EXCEPT !.mask = m] = [max_size |-> s.max_size, mask |-> m]
<1> PICK n, k : n = s.max_size /\ k = s.mask
  OBVIOUS
<1>1. s = [max_size |-> n, mask |-> k]
  BY Known
<1>2. [[max_size |-> n, mask |-> k] EXCEPT !.mask = m] = [max_size |-> n, mask |-> m]
  OBVIOUS
<1> QED BY <1>1, <1>2

LEMMA Empty ==
  ASSUME WellSized, NEW n \in Nat
  PROVE  Denotes(create_empty_set(n), n, {})
BY DEF Denotes, Represents, create_empty_set, Masks

LEMMA Full ==
  ASSUME WellSized, NEW n \in FullSizes
  PROVE  Denotes(create_full_set(n), n, 0 .. n - 1)
<1> DEFINE P == num_partitions(n)
           word == [i \in 0 .. P - 1 |->
                      IF i < P - 1 THEN Bits ELSE 0 .. (n % BITS_PER_PARTITION) - 1]
<1>1. n \in Nat /\ n % B # 0 /\ B \in Nat \ {0}
  BY DEF WellSized, B
<1>2. P = n \div B + 1 /\ n = B * (n \div B) + (n % B) /\ n % B \in 1 .. B - 1 /\ n \div B \in Nat
  BY <1>1 DEF num_partitions, B
<1>3. create_full_set(n) = [max_size |-> n, mask |-> word]
  BY DEF create_full_set
<1>4. word \in Masks(n)
  <2>1. \A r \in 1 .. B - 1 : 0 .. r - 1 \subseteq 0 .. B - 1
    BY <1>1
  <2>2. 0 .. (n % BITS_PER_PARTITION) - 1 \subseteq Bits
    BY <1>2, <2>1 DEF Bits, B
  <2> QED BY <2>2 DEF Masks
<1>5. ASSUME NEW i \in 0 .. P - 1, NEW b \in Bits
      PROVE  b \in word[i] <=> B * i + b \in 0 .. n - 1
  <2>1. i \in Nat /\ b \in 0 .. B - 1 /\ B * i \in Nat
    BY <1>1, <1>2 DEF Bits, B
  <2>2. CASE i = n \div B
    <3>1. word[i] = 0 .. (n % B) - 1
      BY <1>2, <2>2 DEF B
    <3>2. \A r \in 1 .. B - 1, x \in Nat : B * i + r = x => (b \in 0 .. r - 1 <=> B * i + b \in 0 .. x - 1)
      BY <1>1, <2>1
    <3>3. B * i + (n % B) = n /\ n % B \in 1 .. B - 1
      BY <1>2, <2>2
    <3>4. b \in 0 .. (n % B) - 1 <=> B * i + b \in 0 .. n - 1
      BY <1>1, <3>2, <3>3
    <3> HIDE DEF word
    <3> QED BY <3>1, <3>4
  <2>3. CASE i < n \div B
    <3>1. word[i] = Bits
      BY <1>2, <2>3
    <3>2. B * i + B <= B * (n \div B)
      BY <1>1, <1>2, <2>1, <2>3
    <3> HIDE DEF word
    <3>3. \A x, y \in Nat : x + B <= y => x + b <= y - 1
      BY <1>1, <2>1
    <3> QED BY <1>1, <1>2, <2>1, <3>1, <3>2
  <2> QED BY <1>2, <2>1, <2>2, <2>3
<1> HIDE DEF word
<1> QED BY <1>1, <1>3, <1>4, <1>5 DEF Denotes, Represents

LEMMA AddMember ==
  ASSUME WellSized, NEW s, Legal(s), NEW e \in 0 .. s.max_size - 1, ~is_set_undefined(s)
  PROVE  Denotes(add_to_set(e, s), s.max_size, members(s) \cup {e})
<1> DEFINE m == [s.mask EXCEPT ![partition(e)] = @ \cup {pos_in_partition(e)}]
<1>1. add_to_set(e, s) = [max_size |-> s.max_size, mask |-> m]
  <2>1. add_to_set(e, s) = [s EXCEPT !.mask = m]
    BY DEF add_to_set
  <2> HIDE DEF m
  <2> QED BY <2>1, NewMask
<1>2. /\ partition(e) \in 0 .. num_partitions(s.max_size) - 1 /\ pos_in_partition(e) \in Bits
      /\ e = B * partition(e) + pos_in_partition(e)
  BY Known, Place
<1>3. m \in Masks(s.max_size)
  <2>1. s.mask \in [0 .. num_partitions(s.max_size) - 1 -> SUBSET Bits]
    BY Known DEF Masks
  <2> QED BY <1>2, <2>1 DEF Masks
<1>4. ASSUME NEW i \in 0 .. num_partitions(s.max_size) - 1, NEW b \in Bits
      PROVE  b \in m[i] <=> B * i + b \in members(s) \cup {e}
  <2>1. b \in s.mask[i] <=> B * i + b \in members(s)
    BY Known
  <2>2. B * i + b = e <=> i = partition(e) /\ b = pos_in_partition(e)
    BY <1>2, Known, PartitionsType, OwnPlace
  <2>3. b \in m[i] <=> b \in s.mask[i] \/ (i = partition(e) /\ b = pos_in_partition(e))
    BY Known DEF Masks
  <2> QED BY <2>1, <2>2, <2>3
<1> HIDE DEF m
<1> QED BY <1>1, <1>3, <1>4, Known DEF Denotes, Represents

LEMMA RemoveMember ==
  ASSUME WellSized, NEW s, Legal(s), NEW e \in 0 .. s.max_size - 1, ~is_set_undefined(s)
  PROVE  Denotes(remove_from_set(e, s), s.max_size, members(s) \ {e})
<1> DEFINE m == [s.mask EXCEPT ![partition(e)] = @ \ {pos_in_partition(e)}]
<1>1. remove_from_set(e, s) = [max_size |-> s.max_size, mask |-> m]
  <2>1. remove_from_set(e, s) = [s EXCEPT !.mask = m]
    BY DEF remove_from_set
  <2> HIDE DEF m
  <2> QED BY <2>1, NewMask
<1>2. /\ partition(e) \in 0 .. num_partitions(s.max_size) - 1 /\ pos_in_partition(e) \in Bits
      /\ e = B * partition(e) + pos_in_partition(e)
  BY Known, Place
<1>3. m \in Masks(s.max_size)
  <2>1. s.mask \in [0 .. num_partitions(s.max_size) - 1 -> SUBSET Bits]
    BY Known DEF Masks
  <2> QED BY <1>2, <2>1 DEF Masks
<1>4. ASSUME NEW i \in 0 .. num_partitions(s.max_size) - 1, NEW b \in Bits
      PROVE  b \in m[i] <=> B * i + b \in members(s) \ {e}
  <2>1. b \in s.mask[i] <=> B * i + b \in members(s)
    BY Known
  <2>2. B * i + b = e <=> i = partition(e) /\ b = pos_in_partition(e)
    BY <1>2, Known, PartitionsType, OwnPlace
  <2>3. b \in m[i] <=> b \in s.mask[i] /\ ~(i = partition(e) /\ b = pos_in_partition(e))
    BY Known DEF Masks
  <2> QED BY <2>1, <2>2, <2>3
<1> HIDE DEF m
<1> QED BY <1>1, <1>3, <1>4, Known DEF Denotes, Represents

LEMMA Combined ==
  ASSUME WellSized, NEW s, Legal(s), ~is_set_undefined(s),
         NEW t, Legal(t), ~is_set_undefined(t), s.max_size = t.max_size
  PROVE  /\ Denotes(unify_sets(s, t), s.max_size, members(s) \cup members(t))
         /\ Denotes(intersect_sets(s, t), s.max_size, members(s) \cap members(t))
         /\ Denotes(diff_sets(s, t), s.max_size, members(s) \ members(t))
<1> PICK n, P, k, l : /\ n = s.max_size /\ P = 0 .. num_partitions(n) - 1
                      /\ k = s.mask /\ l = t.mask
  OBVIOUS
<1>1. /\ Partitions(s) = P /\ k \in [P -> SUBSET Bits] /\ l \in [P -> SUBSET Bits] /\ n \in Nat
      /\ members(s) \subseteq 0 .. n - 1 /\ members(t) \subseteq 0 .. n - 1
  BY Known DEF Masks
<1>2. ASSUME NEW i \in P, NEW b \in Bits
      PROVE  /\ b \in k[i] <=> B * i + b \in members(s)
             /\ b \in l[i] <=> B * i + b \in members(t)
  <2>1. i \in Partitions(s) /\ i \in Partitions(t)
    BY Known
  <2> QED BY <2>1, Known
<1>3. /\ unify_sets(s, t) = [max_size |-> n, mask |-> [i \in P |-> k[i] \cup l[i]]]
      /\ intersect_sets(s, t) = [max_size |-> n, mask |-> [i \in P |-> k[i] \cap l[i]]]
      /\ diff_sets(s, t) = [max_size |-> n, mask |-> [i \in P |-> k[i] \ l[i]]]
  BY <1>1, NewMask DEF unify_sets, intersect_sets, diff_sets
<1>4. ASSUME NEW M, NEW m \in [P -> SUBSET Bits], M \subseteq 0 .. n - 1,
             \A i \in P, b \in Bits : b \in m[i] <=> B * i + b \in M
      PROVE  Denotes([max_size |-> n, mask |-> m], n, M)
  BY <1>1, <1>4 DEF Denotes, Represents, Masks
<1>5. Denotes(unify_sets(s, t), n, members(s) \cup members(t))
  <2> DEFINE m == [i \in P |-> k[i] \cup l[i]]
  <2>1. m \in [P -> SUBSET Bits]
    BY <1>1
  <2>2. ASSUME NEW i \in P, NEW b \in Bits
        PROVE  b \in m[i] <=> B * i + b \in members(s) \cup members(t)
    <3>1. /\ b \in k[i] <=> B * i + b \in members(s)
          /\ b \in l[i] <=> B * i + b \in members(t)
      BY <1>2
    <3>2. m[i] = k[i] \cup l[i]
      OBVIOUS
    <3> HIDE DEF m
    <3> QED BY <3>1, <3>2
  <2> HIDE DEF m
  <2>3. Denotes([max_size |-> n, mask |-> m], n, members(s) \cup members(t))
    BY <1>1, <1>4, <2>1, <2>2
  <2> QED BY <1>3, <2>3 DEF m
<1>6. Denotes(intersect_sets(s, t), n, members(s) \cap members(t))
  <2> DEFINE m == [i \in P |-> k[i] \cap l[i]]
  <2>1. m \in [P -> SUBSET Bits]
    BY <1>1
  <2>2. ASSUME NEW i \in P, NEW b \in Bits
        PROVE  b \in m[i] <=> B * i + b \in members(s) \cap members(t)
    <3>1. /\ b \in k[i] <=> B * i + b \in members(s)
          /\ b \in l[i] <=> B * i + b \in members(t)
      BY <1>2
    <3>2. m[i] = k[i] \cap l[i]
      OBVIOUS
    <3> HIDE DEF m
    <3> QED BY <3>1, <3>2
  <2> HIDE DEF m
  <2>3. Denotes([max_size |-> n, mask |-> m], n, members(s) \cap members(t))
    BY <1>1, <1>4, <2>1, <2>2
  <2> QED BY <1>3, <2>3 DEF m
<1>7. Denotes(diff_sets(s, t), n, members(s) \ members(t))
  <2> DEFINE m == [i \in P |-> k[i] \ l[i]]
  <2>1. m \in [P -> SUBSET Bits]
    BY <1>1
  <2>2. ASSUME NEW i \in P, NEW b \in Bits
        PROVE  b \in m[i] <=> B * i + b \in members(s) \ members(t)
    <3>1. /\ b \in k[i] <=> B * i + b \in members(s)
          /\ b \in l[i] <=> B * i + b \in members(t)
      BY <1>2
    <3>2. m[i] = k[i] \ l[i]
      OBVIOUS
    <3> HIDE DEF m
    <3> QED BY <3>1, <3>2
  <2> HIDE DEF m
  <2>3. Denotes([max_size |-> n, mask |-> m], n, members(s) \ members(t))
    BY <1>1, <1>4, <2>1, <2>2
  <2> QED BY <1>3, <2>3 DEF m
<1> QED BY <1>5, <1>6, <1>7

LEMMA Cloned ==
  ASSUME WellSized, NEW s, Legal(s), ~is_set_undefined(s)
  PROVE  Denotes(clone_set(s), s.max_size, members(s))
<1>1. s.max_size \in Nat
  BY Known
<1> PICK e : e = create_empty_set(s.max_size)
  OBVIOUS
<1>2. Denotes(e, s.max_size, {})
  BY <1>1, Empty
<1>3. Legal(e) /\ ~is_set_undefined(e) /\ e.max_size = s.max_size /\ members(e) = {}
  BY <1>2, Represented
<1>4. Denotes(unify_sets(e, s), s.max_size, {} \cup members(s))
  BY <1>3, Combined
<1> QED BY <1>4 DEF clone_set

-----------------------------------------------------------------------------
LEMMA NullView == ASSUME WellSized PROVE View(Undefined) = Promised!Undefined
  BY NullMembers DEF View, Promised!Undefined

\* Giving a handle a legal set keeps every set legal, and gives the abstract
\* handle its view.
LEMMA PutView ==
  ASSUME SetsInv, NEW h \in Handles, NEW t, Legal(t), Put(h, t)
  PROVE  SetsInv' /\ Contents' = [Contents EXCEPT ![h] = View(t)]
<1>1. sets' = [sets EXCEPT ![h] = t] /\ sets = [g \in Handles |-> sets[g]]
  BY DEF Put, SetsInv
<1>2. sets' = [g \in Handles |-> IF g = h THEN t ELSE sets[g]]
  BY <1>1
<1>3. \A g \in Handles : Legal(sets'[g]) /\ View(sets'[g]) = IF g = h THEN View(t) ELSE View(sets[g])
  BY <1>2 DEF SetsInv
<1>4. SetsInv'
  <2>1. sets' = [g \in Handles |-> sets'[g]]
    BY <1>2
  <2>2. \A g \in Handles : Legal(sets[g])'
    BY <1>3
  <2> QED BY <2>1, <2>2 DEF SetsInv
<1>5. Contents' = [g \in Handles |-> View(sets'[g])]
  BY DEF Contents, View
<1>6. [Contents EXCEPT ![h] = View(t)] = [g \in Handles |-> IF g = h THEN View(t) ELSE View(sets[g])]
  <2> PICK v : v = View(t)
    OBVIOUS
  <2>1. [Contents EXCEPT ![h] = v] = [g \in Handles |-> IF g = h THEN v ELSE Contents[g]]
    BY DEF Contents
  <2>2. \A g \in Handles : Contents[g] = View(sets[g])
    BY DEF Contents
  <2> QED BY <2>1, <2>2
<1> QED BY <1>3, <1>4, <1>5, <1>6

LEMMA DenotedPut ==
  ASSUME WellSized, SetsInv, NEW h \in Handles, NEW t, NEW n, NEW M, Denotes(t, n, M), Put(h, t)
  PROVE  SetsInv' /\ Promised!Put(h, Promised!Set(n, M))
<1>1. Legal(t) /\ View(t) = Promised!Set(n, M)
  BY Represented DEF View, Promised!Set
<1>2. SetsInv' /\ Contents' = [Contents EXCEPT ![h] = Promised!Set(n, M)]
  BY <1>1, PutView
<1> QED BY <1>2 DEF Promised!Put

\* The abstract handle of a handle.
LEMMA ViewOf ==
  ASSUME NEW h \in Handles
  PROVE  /\ Contents[h] = View(sets[h])
         /\ Contents[h].size = sets[h].max_size
         /\ Contents[h].members = members(sets[h])
BY DEF Contents, View

LEMMA CreateStep ==
  ASSUME WellSized, SetsInv, NEW h \in Handles, Create(h)
  PROVE  SetsInv' /\ Promised!Create(h)
<1>1. CASE \E n \in Sizes : Put(h, create_empty_set(n))
  <2>1. PICK n \in Sizes : Put(h, create_empty_set(n))
    BY <1>1
  <2>2. Denotes(create_empty_set(n), n, {})
    BY Empty DEF WellSized
  <2> QED BY <2>1, <2>2, DenotedPut DEF Promised!Create
<1>2. CASE \E n \in FullSizes : Put(h, create_full_set(n))
  <2>1. PICK n \in FullSizes : Put(h, create_full_set(n))
    BY <1>2
  <2> QED BY <2>1, Full, DenotedPut DEF Promised!Create
<1> QED BY <1>1, <1>2 DEF Create

LEMMA ChangeStep ==
  ASSUME WellSized, SetsInv, NEW h \in Handles, Change(h)
  PROVE  SetsInv' /\ Promised!Change(h)
<1>1. PICK e \in 0 .. sets[h].max_size - 1 : \/ Put(h, add_to_set(e, sets[h]))
                                         \/ Put(h, remove_from_set(e, sets[h]))
  BY DEF Change, Elements
<1>2. Legal(sets[h]) /\ ~is_set_undefined(sets[h])
  <2>1. sets[h].max_size # -1
    OBVIOUS
  <2> QED BY <2>1 DEF SetsInv, is_set_undefined
<1> PICK n, M : n = sets[h].max_size /\ M = members(sets[h])
  OBVIOUS
<1>3. CASE Put(h, add_to_set(e, sets[h]))
  <2>1. SetsInv' /\ Promised!Put(h, Promised!Set(n, M \cup {e}))
    BY <1>2, <1>3, AddMember, DenotedPut
  <2> QED BY <2>1, ViewOf DEF Promised!Change
<1>4. CASE Put(h, remove_from_set(e, sets[h]))
  <2>1. SetsInv' /\ Promised!Put(h, Promised!Set(n, M \ {e}))
    BY <1>2, <1>4, RemoveMember, DenotedPut
  <2> QED BY <2>1, ViewOf DEF Promised!Change
<1> QED BY <1>1, <1>3, <1>4

LEMMA CombineStep ==
  ASSUME WellSized, SetsInv, NEW h \in Handles, NEW a \in Handles, NEW b \in Handles, Combine(h, a, b)
  PROVE  SetsInv' /\ Promised!Combine(h, a, b)
<1> PICK s, t, n : s = sets[a] /\ t = sets[b] /\ n = s.max_size
  OBVIOUS
<1>1. /\ Legal(s) /\ ~is_set_undefined(s) /\ Legal(t) /\ ~is_set_undefined(t)
      /\ t.max_size = n /\ n \in Nat
  BY Known DEF SetsInv, Combine, Defined
<1>2. /\ Contents[a].size = n /\ Contents[b].size = n
      /\ Contents[a].members = members(s) /\ Contents[b].members = members(t)
      /\ Contents[a] = Promised!Set(n, members(s))
  <2>1. Contents[a] = View(s) /\ View(s) = Promised!Set(n, members(s))
    BY ViewOf DEF View, Promised!Set
  <2>2. Contents[a].size = s.max_size /\ Contents[b].size = t.max_size
    BY ViewOf
  <2>3. Contents[a].members = members(s) /\ Contents[b].members = members(t)
    BY ViewOf
  <2> QED BY <1>1, <2>1, <2>2, <2>3
<1>3. Promised!Compatible(a, b)
  BY <1>1, <1>2 DEF Promised!Compatible
<1>4. CASE Put(h, unify_sets(s, t))
  <2>1. SetsInv' /\ Promised!Put(h, Promised!Set(n, members(s) \cup members(t)))
    BY <1>1, <1>4, Combined, DenotedPut
  <2> QED BY <1>2, <1>3, <2>1 DEF Promised!Combine
<1>5. CASE Put(h, intersect_sets(s, t))
  <2>1. SetsInv' /\ Promised!Put(h, Promised!Set(n, members(s) \cap members(t)))
    BY <1>1, <1>5, Combined, DenotedPut
  <2> QED BY <1>2, <1>3, <2>1 DEF Promised!Combine
<1>6. CASE Put(h, diff_sets(s, t))
  <2>1. SetsInv' /\ Promised!Put(h, Promised!Set(n, members(s) \ members(t)))
    BY <1>1, <1>6, Combined, DenotedPut
  <2> QED BY <1>2, <1>3, <2>1 DEF Promised!Combine
<1>7. CASE Put(h, clone_set(s))
  <2>1. SetsInv' /\ Promised!Put(h, Promised!Set(n, members(s)))
    BY <1>1, <1>7, Cloned, DenotedPut
  <2> QED BY <1>2, <1>3, <2>1 DEF Promised!Combine
<1> QED BY <1>4, <1>5, <1>6, <1>7 DEF Combine

LEMMA InitStep == ASSUME WellSized, InitSets PROVE SetsInv /\ Promised!Init
<1>1. sets = [h \in Handles |-> Undefined]
  BY DEF InitSets
<1>2. SetsInv
  BY <1>1 DEF SetsInv, Legal
<1>3. Promised!Undefined = [size |-> Undefined.max_size, members |-> members(Undefined)]
  BY NullView DEF View
<1>4. Promised!Init
  BY <1>1, <1>3 DEF Promised!Init, Contents, View
<1> QED BY <1>2, <1>4

LEMMA NextStep == ASSUME WellSized, SetsInv, [NextSets]_sets PROVE SetsInv' /\ [Promised!Next]_Contents
<1>1. CASE NextSets
  BY <1>1, CreateStep, ChangeStep, CombineStep DEF NextSets, Promised!Next
<1>2. CASE UNCHANGED sets
  BY <1>2 DEF SetsInv, Contents, View
<1> QED BY <1>1, <1>2

\* A query tells what is in the sets.
LEMMA LegalQueries == ASSUME WellSized, SetsInv PROVE QueriesExact
<1> SUFFICES ASSUME NEW a \in Handles, NEW b \in Handles
             PROVE  /\ \A e \in Elements(a) : does_elto_belong_to_set(e, sets[a]) <=> e \in members(sets[a])
                    /\ Defined(a) =>
                         (is_set_empty(sets[a]) <=> \A e \in Elements(a) : e \notin members(sets[a]))
                    /\ sets[a].max_size = sets[b].max_size =>
                         (are_set_equals(sets[a], sets[b]) <=>
                            /\ Defined(a)
                            /\ \A e \in Elements(a) : e \in members(sets[a]) <=> e \in members(sets[b]))
  BY DEF QueriesExact
<1> PICK s, t, n : s = sets[a] /\ t = sets[b] /\ n = s.max_size
  OBVIOUS
<1>1. Legal(s) /\ Legal(t) /\ Elements(a) = 0 .. n - 1 /\ (Defined(a) <=> n # -1)
  BY DEF SetsInv, Elements, Defined, is_set_undefined
<1>2. CASE n = -1
  <2>1. Elements(a) = {}
    BY <1>1, <1>2
  <2> QED BY <1>1, <1>2, <2>1 DEF are_set_equals, is_set_undefined
<1>3. CASE n # -1
  <2>1. ~is_set_undefined(s) /\ n \in Nat /\ members(s) \subseteq 0 .. n - 1
    BY <1>1, <1>3, Known DEF is_set_undefined
  <2>2. ASSUME NEW e \in 0 .. n - 1
        PROVE  /\ partition(e) \in Partitions(s) /\ pos_in_partition(e) \in Bits
               /\ pos_in_partition(e) \in s.mask[partition(e)] <=> e \in members(s)
    <3>1. /\ partition(e) \in 0 .. num_partitions(n) - 1 /\ pos_in_partition(e) \in Bits
          /\ e = B * partition(e) + pos_in_partition(e)
      BY <2>1, Place
    <3>2. partition(e) \in Partitions(s)
      BY <1>1, <2>1, <3>1, Known
    <3>3. pos_in_partition(e) \in s.mask[partition(e)]
            <=> B * partition(e) + pos_in_partition(e) \in members(s)
      BY <1>1, <2>1, <3>1, <3>2, Known
    <3> QED BY <3>1, <3>2, <3>3
  <2>3. \A e \in Elements(a) : does_elto_belong_to_set(e, s) <=> e \in members(s)
    BY <1>1, <2>1, <2>2 DEF does_elto_belong_to_set
  <2>4. \A i \in Partitions(s), c \in Bits : c \in s.mask[i] <=> B * i + c \in members(s)
    BY <1>1, <2>1, Known
  <2>5. \A i \in Partitions(s) : s.mask[i] \subseteq Bits
    <3>1. s.mask \in Masks(n) /\ Partitions(s) = 0 .. num_partitions(n) - 1
      BY <1>1, <2>1, Known
    <3> QED BY <3>1 DEF Masks
  <2>6. is_set_empty(s) <=> \A e \in Elements(a) : e \notin members(s)
    <3>1. ASSUME is_set_empty(s), NEW e \in 0 .. n - 1 PROVE e \notin members(s)
      BY <2>2, <3>1 DEF is_set_empty
    <3>2. ASSUME \A e \in 0 .. n - 1 : e \notin members(s), NEW i \in Partitions(s)
          PROVE  s.mask[i] = {}
      BY <2>1, <2>4, <2>5, <3>2
    <3> QED BY <1>1, <3>1, <3>2 DEF is_set_empty
  <2>7. ASSUME t.max_size = n
        PROVE  are_set_equals(s, t) <=> \A e \in 0 .. n - 1 : e \in members(s) <=> e \in members(t)
    <3>1. /\ ~is_set_undefined(t) /\ members(t) \subseteq 0 .. n - 1 /\ Partitions(t) = Partitions(s)
          /\ \A i \in Partitions(s) : t.mask[i] \subseteq Bits
          /\ \A i \in Partitions(s), c \in Bits : c \in t.mask[i] <=> B * i + c \in members(t)
      <4>1. ~is_set_undefined(t) /\ Partitions(t) = Partitions(s)
        BY <1>3, <2>7 DEF is_set_undefined, Partitions
      <4>2. t.mask \in Masks(n) /\ Partitions(t) = 0 .. num_partitions(n) - 1
        BY <1>1, <2>7, <4>1, Known
      <4>3. members(t) \subseteq 0 .. n - 1
        BY <1>1, <2>7, <4>1, Known
      <4>4. \A i \in Partitions(t), c \in Bits : c \in t.mask[i] <=> B * i + c \in members(t)
        BY <1>1, <4>1, Known
      <4> QED BY <4>1, <4>2, <4>3, <4>4 DEF Masks
    <3>2. ASSUME NEW e \in 0 .. n - 1
          PROVE  pos_in_partition(e) \in t.mask[partition(e)] <=> e \in members(t)
      <4>1. e = B * partition(e) + pos_in_partition(e)
        BY <2>1, Place
      <4> QED BY <2>2, <3>1, <4>1
    <3>3. are_set_equals(s, t) <=> \A i \in Partitions(s) : s.mask[i] = t.mask[i]
      BY <2>1, <3>1 DEF are_set_equals
    <3>4. ASSUME \A i \in Partitions(s) : s.mask[i] = t.mask[i], NEW e \in 0 .. n - 1
          PROVE  e \in members(s) <=> e \in members(t)
      BY <2>2, <3>2, <3>4
    <3>5. ASSUME \A e \in 0 .. n - 1 : e \in members(s) <=> e \in members(t), NEW i \in Partitions(s)
          PROVE  s.mask[i] = t.mask[i]
      <4>1. \A x : x \in members(s) <=> x \in members(t)
        BY <2>1, <3>1, <3>5
      <4>2. \A c \in Bits : c \in s.mask[i] <=> c \in t.mask[i]
        BY <2>4, <3>1, <4>1
      <4> QED BY <2>5, <3>1, <4>2
    <3> QED BY <3>3, <3>4, <3>5
  <2> QED BY <1>1, <1>3, <2>3, <2>6, <2>7
<1> QED BY <1>2, <1>3

-----------------------------------------------------------------------------
\* Every set a client of set.c can make is laid out as its members are.
LEMMA AlwaysLegal == ASSUME WellSized PROVE SetsSpec => []SetsInv
<1>1. InitSets => SetsInv
  BY InitStep
<1>2. SetsInv /\ [NextSets]_sets => SetsInv'
  BY NextStep
<1> QED BY <1>1, <1>2, PTL DEF SetsSpec

\* Every operation of set.c does to the numbers in a set what set.h promises,
\* in any order, with partitions of any width.
THEOREM Implementation == ASSUME WellSized PROVE SetsSpec => ImplementsNumberSets
<1>1. InitSets => Promised!Init
  BY InitStep
<1>2. SetsInv /\ [NextSets]_sets => [Promised!Next]_Contents
  BY NextStep
<1> QED BY <1>1, <1>2, AlwaysLegal, PTL DEF SetsSpec, ImplementsNumberSets, Promised!Spec

\* The queries of set.c compare whole words and are exact all the same.
THEOREM QueriesAlwaysExact == ASSUME WellSized PROVE SetsSpec => []QueriesExact
<1>1. SetsInv => QueriesExact
  BY LegalQueries
<1> QED BY <1>1, AlwaysLegal, PTL

-----------------------------------------------------------------------------
(***************************************************************************)
(* HeapArray.                                                              *)
(***************************************************************************)

\* No item occurs twice.
Distinct(h) == \A i, j \in DOMAIN h : h[i] = h[j] => i = j

\* g has the items of h, each once, in some order.
Rearranged(g, h) ==
  /\ g \in Seq(Items)
  /\ Len(g) = Len(h)
  /\ ToSet(g) = ToSet(h)
  /\ Distinct(h) => Distinct(g)

LEMMA RearrangedTransitive ==
  ASSUME NEW f, NEW g, NEW h, Rearranged(f, g), Rearranged(g, h)
  PROVE  Rearranged(f, h)
BY DEF Rearranged

AtLeastAsGood(x, y) == ~Better(y, x)

\* The items from index k on are no worse than their children, but for the
\* one at i, to whose children its parent is no worse.
Children(i) == {2 * i, 2 * i + 1}
SortedBut(h, k, i) ==
  /\ \A p \in DOMAIN h : p >= k /\ p # i =>
       \A c \in Children(p) \cap DOMAIN h : AtLeastAsGood(h[p], h[c])
  /\ \A p \in DOMAIN h : p >= k /\ i \in Children(p) =>
       \A c \in Children(i) \cap DOMAIN h : AtLeastAsGood(h[p], h[c])
Sorted(h, k) ==
  \A p \in DOMAIN h : p >= k => \A c \in Children(p) \cap DOMAIN h : AtLeastAsGood(h[p], h[c])

\* Costs are integers, so that items are comparable.
CostsTyped == item_cost \in [Items -> Int] /\ min \in BOOLEAN

LEMMA Comparable ==
  ASSUME CostsTyped
  PROVE  /\ \A x, y \in Items : AtLeastAsGood(x, y) \/ AtLeastAsGood(y, x)
         /\ \A x, y \in Items : Better(x, y) => AtLeastAsGood(x, y)
         /\ \A x, y, z \in Items : AtLeastAsGood(x, y) /\ AtLeastAsGood(y, z) => AtLeastAsGood(x, z)
         /\ \A x \in Items : AtLeastAsGood(x, x)
<1>1. CASE min
  BY <1>1 DEF CostsTyped, AtLeastAsGood, Better
<1>2. CASE ~min
  BY <1>2 DEF CostsTyped, AtLeastAsGood, Better
<1> QED BY <1>1, <1>2

LEMMA SwapRearranges ==
  ASSUME NEW h \in Seq(Items), NEW i \in DOMAIN h, NEW j \in DOMAIN h
  PROVE  Rearranged(Swap(h, i, j), h)
<1> DEFINE g == Swap(h, i, j)
<1>1. DOMAIN h = 1 .. Len(h) /\ Len(h) \in Nat
  OBVIOUS
<1>2. /\ DOMAIN g = DOMAIN h
      /\ \A p \in DOMAIN h : g[p] = IF p = j THEN h[i] ELSE IF p = i THEN h[j] ELSE h[p]
  BY DEF Swap
<1> HIDE DEF g
<1>3. \A p \in DOMAIN h : h[p] \in Items
  OBVIOUS
<1>4. g \in Seq(Items) /\ Len(g) = Len(h)
  <2>1. \A p \in 1 .. Len(h) : g[p] \in Items
    BY <1>1, <1>2, <1>3
  <2>2. g = [p \in 1 .. Len(h) |-> g[p]]
    BY <1>1, <1>2 DEF g, Swap
  <2>3. g \in [1 .. Len(h) -> Items]
    BY <2>1, <2>2
  <2> QED BY <1>1, <2>3, SeqDef, LenProperties
<1>5. ToSet(g) = ToSet(h)
  <2>1. \A p \in DOMAIN h : g[p] \in ToSet(h)
    BY <1>2 DEF ToSet
  <2>2. \A p \in DOMAIN h : h[p] \in ToSet(g)
    <3> TAKE p \in DOMAIN h
    <3>1. h[p] = g[IF p = i THEN j ELSE IF p = j THEN i ELSE p]
      BY <1>2
    <3> QED BY <3>1, <1>2 DEF ToSet
  <2> QED BY <1>2, <2>1, <2>2 DEF ToSet
<1>6. ASSUME Distinct(h) PROVE Distinct(g)
  BY <1>2, <1>6 DEF Distinct
<1> QED BY <1>4, <1>5, <1>6 DEF Rearranged, g

LEMMA PreferredIs ==
  ASSUME CostsTyped, NEW h \in Seq(Items), NEW i \in Nat \ {0}
  PROVE  LET j == Preferred(h, i)
         IN  \/ j = i /\ \A c \in Children(i) \cap DOMAIN h : i \in DOMAIN h => AtLeastAsGood(h[i], h[c])
             \/ /\ j \in Children(i) /\ j \in DOMAIN h /\ i \in DOMAIN h /\ j > i
                /\ Better(h[j], h[i])
                /\ \A c \in Children(i) \cap DOMAIN h : AtLeastAsGood(h[j], h[c])
<1> DEFINE best(j, k) == IF k <= Len(h) /\ Better(h[k], h[j]) THEN k ELSE j
           l == best(i, 2 * i)
           r == best(l, 2 * i + 1)
<1>1. r = Preferred(h, i)
  BY DEF Preferred
<1>2. DOMAIN h = 1 .. Len(h) /\ Len(h) \in Nat /\ \A p \in DOMAIN h : h[p] \in Items
  OBVIOUS
<1>3. CASE i \notin DOMAIN h
  <2>1. ~(2 * i <= Len(h)) /\ ~(2 * i + 1 <= Len(h))
    BY <1>2, <1>3
  <2>2. r = i
    BY <2>1
  <2> QED BY <1>1, <2>2, <1>3
<1>4. CASE i \in DOMAIN h
  <2>1. 2 * i \in Nat /\ 2 * i > i /\ 2 * i + 1 > i /\ 2 * i + 1 \in Nat
    BY <1>2
  <2>2. /\ l \in {i, 2 * i} /\ l \in DOMAIN h
        /\ l # i => Better(h[l], h[i])
        /\ 2 * i \in DOMAIN h => AtLeastAsGood(h[l], h[2 * i])
        /\ AtLeastAsGood(h[l], h[i])
    BY <1>2, <1>4, <2>1, Comparable DEF AtLeastAsGood
  <2> HIDE DEF l
  <2>3. /\ r \in {l, 2 * i + 1} /\ r \in DOMAIN h
        /\ r # l => Better(h[r], h[l])
        /\ 2 * i + 1 \in DOMAIN h => AtLeastAsGood(h[r], h[2 * i + 1])
        /\ AtLeastAsGood(h[r], h[l])
    BY <1>2, <1>4, <2>1, <2>2, Comparable DEF AtLeastAsGood
  <2> HIDE DEF r
  <2>4. \A c \in Children(i) \cap DOMAIN h : AtLeastAsGood(h[r], h[c])
    BY <1>2, <2>1, <2>2, <2>3, Comparable DEF Children
  <2>5. CASE r = i
    BY <1>1, <1>4, <2>4, <2>5
  <2>6. CASE r # i
    <3>1. Better(h[r], h[i])
      <4>1. CASE l = i
        BY <4>1, <2>3, <2>6
      <4>2. CASE l # i
        <5>1. Better(h[l], h[i]) /\ AtLeastAsGood(h[r], h[l])
          BY <4>2, <2>2, <2>3
        <5>2. AtLeastAsGood(h[r], h[l]) /\ ~AtLeastAsGood(h[i], h[l])
          BY <5>1 DEF AtLeastAsGood
        <5>3. ~AtLeastAsGood(h[i], h[r])
          BY <5>2, <1>2, <1>4, <2>2, <2>3, Comparable
        <5> QED BY <5>3 DEF AtLeastAsGood
      <4> QED BY <4>1, <4>2
    <3>2. r \in Children(i) /\ r > i
      BY <2>1, <2>2, <2>3, <2>6 DEF Children
    <3> QED BY <1>1, <1>4, <2>3, <2>4, <3>1, <3>2
  <2> QED BY <2>5, <2>6
<1> QED BY <1>3, <1>4

LEMMA SwapSorted ==
  ASSUME CostsTyped, NEW h \in Seq(Items), NEW k \in Nat, NEW i \in DOMAIN h, i >= k,
         SortedBut(h, k, i), NEW j \in Children(i) \cap DOMAIN h, j > i,
         Better(h[j], h[i]), \A c \in Children(i) \cap DOMAIN h : AtLeastAsGood(h[j], h[c])
  PROVE  SortedBut(Swap(h, i, j), k, j)
<1> DEFINE g == Swap(h, i, j)
<1>1. DOMAIN h = 1 .. Len(h) /\ Len(h) \in Nat /\ \A p \in DOMAIN h : h[p] \in Items
  OBVIOUS
<1>2. /\ DOMAIN g = DOMAIN h
      /\ \A p \in DOMAIN h : g[p] = IF p = j THEN h[i] ELSE IF p = i THEN h[j] ELSE h[p]
  BY DEF Swap
<1> HIDE DEF g
<1>3. AtLeastAsGood(h[j], h[i])
  BY <1>1, Comparable
<1>4. ASSUME NEW p \in DOMAIN h, p >= k, p # j, NEW c \in Children(p) \cap DOMAIN h
      PROVE  AtLeastAsGood(g[p], g[c])
  <2>1. c # p /\ (c = j => p = i)
    BY <1>1 DEF Children
  <2>2. CASE p = i
    BY <1>2, <1>3, <1>4, <2>1, <2>2
  <2>3. CASE p # i
    <3>1. g[p] = h[p] /\ c # j
      BY <1>2, <1>4, <2>1, <2>3
    <3>2. CASE c = i
      <4>1. AtLeastAsGood(h[p], h[j])
        BY <1>4, <3>2 DEF SortedBut
      <4> QED BY <1>2, <3>1, <3>2, <4>1
    <3>3. CASE c # i
      <4>1. AtLeastAsGood(h[p], h[c])
        BY <1>4, <2>3 DEF SortedBut
      <4> QED BY <1>2, <3>1, <3>3, <4>1
    <3> QED BY <3>2, <3>3
  <2> QED BY <2>2, <2>3
<1>5. ASSUME NEW p \in DOMAIN h, p >= k, j \in Children(p), NEW c \in Children(j) \cap DOMAIN h
      PROVE  AtLeastAsGood(g[p], g[c])
  <2>1. p = i /\ c # j /\ c # i
    BY <1>1, <1>5 DEF Children
  <2>2. AtLeastAsGood(h[j], h[c])
    BY <1>1 DEF SortedBut
  <2> QED BY <1>2, <2>1, <2>2
<1> QED BY <1>2, <1>4, <1>5 DEF SortedBut, g

-----------------------------------------------------------------------------
\* The recursive definitions define functions: each call has a greater index,
\* or one less.
LEMMA HeapifyDefined ==
  ASSUME CostsTyped
  PROVE  \A h \in Seq(Items), i \in Nat \ {0} :
           heapify[At(h, i)] = IF Preferred(h, i) = i THEN h
                               ELSE heapify[At(Swap(h, i, Preferred(h, i)), Preferred(h, i))]
<1> DEFINE D == Heaps(Nat \ {0})
           Stop == {s \in D : Preferred(s.items, s.idx) = s.idx}
           Lower(s) == At(Swap(s.items, s.idx, Preferred(s.items, s.idx)), Preferred(s.items, s.idx))
           value == [s \in D |-> s.items]
           next == [s \in D |-> IF s \in Stop THEN s ELSE Lower(s)]
           height == [s \in D |-> IF s.idx > Len(s.items) THEN 0 ELSE Len(s.items) - s.idx + 1]
           Walk(f) == [s \in D |-> IF Preferred(s.items, s.idx) = s.idx THEN s.items ELSE f[Lower(s)]]
<1>1. ASSUME NEW s \in D, s \notin Stop PROVE Lower(s) \in D /\ height[Lower(s)] < height[s]
  <2> DEFINE j == Preferred(s.items, s.idx)
             g == Swap(s.items, s.idx, j)
  <2>1. s.items \in Seq(Items) /\ s.idx \in Nat \ {0}
    BY DEF Heaps
  <2>2. j \in DOMAIN s.items /\ s.idx \in DOMAIN s.items /\ j > s.idx
    BY <1>1, <2>1, PreferredIs
  <2>3. g \in Seq(Items) /\ Len(g) = Len(s.items)
    BY <2>1, <2>2, SwapRearranges DEF Rearranged
  <2>4. j \in 1 .. Len(s.items) /\ s.idx \in 1 .. Len(s.items) /\ Len(s.items) \in Nat
    BY <2>1, <2>2
  <2> HIDE DEF j, g
  <2>5. Lower(s) = At(g, j)
    BY DEF j, g
  <2>6. At(g, j) \in D /\ At(g, j).items = g /\ At(g, j).idx = j
    BY <2>3, <2>4 DEF At, Heaps
  <2>7. height[At(g, j)] = Len(s.items) - j + 1
    BY <2>3, <2>4, <2>6
  <2>8. height[s] = Len(s.items) - s.idx + 1
    BY <2>4
  <2> HIDE DEF height, Lower
  <2> QED BY <2>2, <2>4, <2>5, <2>6, <2>7, <2>8
<1>2. PICK f : f = Walk(f)
  <2>1. value \in [D -> Seq(Items)]
    BY DEF Heaps
  <2>2. next \in [D -> D]
    BY <1>1
  <2>3. height \in [D -> Nat]
    <3> SUFFICES ASSUME NEW s \in D
                 PROVE  (IF s.idx > Len(s.items) THEN 0 ELSE Len(s.items) - s.idx + 1) \in Nat
      OBVIOUS
    <3>1. Len(s.items) \in Nat /\ s.idx \in Nat
      BY DEF Heaps
    <3> QED BY <3>1
  <2>4. \A s \in D : s \in Stop \/ height[next[s]] < height[s]
    BY <1>1
  <2> HIDE DEF value, next, height, D, Stop
  <2>5. PICK g : g = [s \in D |-> IF s \in Stop THEN value[s] ELSE g[next[s]]]
    <3>1. TailRecursive(D, Seq(Items), Stop, value, next)
      BY <2>1, <2>2, <2>3, <2>4, TailRecursion
    <3> QED BY <3>1 DEF TailRecursive
  <2>6. ASSUME NEW s \in D
        PROVE  (IF s \in Stop THEN value[s] ELSE g[next[s]])
                 = IF Preferred(s.items, s.idx) = s.idx THEN s.items ELSE g[Lower(s)]
    BY DEF Stop, value, next
  <2> HIDE DEF Lower
  <2>7. g = Walk(g)
    BY <2>5, <2>6
  <2> QED BY <2>7
<1>3. heapify = CHOOSE g : g = Walk(g)
  BY DEF heapify
<1>4. heapify = Walk(heapify)
  <2> HIDE DEF Walk
  <2> QED BY <1>2, <1>3
<1>5. ASSUME NEW h \in Seq(Items), NEW i \in Nat \ {0}
      PROVE  /\ At(h, i) \in D /\ At(h, i).items = h /\ At(h, i).idx = i
  BY DEF At, Heaps
<1> HIDE DEF D
<1>6. ASSUME NEW h \in Seq(Items), NEW i \in Nat \ {0}
      PROVE  heapify[At(h, i)] = IF Preferred(h, i) = i THEN h
                                 ELSE heapify[At(Swap(h, i, Preferred(h, i)), Preferred(h, i))]
  BY <1>4, <1>5
<1> QED BY <1>6

\* What heapify is for.
Sifts(h, i) ==
  /\ Rearranged(heapify[At(h, i)], h)
  /\ \A k \in Nat : i >= k /\ SortedBut(h, k, i) => Sorted(heapify[At(h, i)], k)

LEMMA Sifted ==
  ASSUME CostsTyped, NEW h \in Seq(Items), NEW i \in Nat \ {0}
  PROVE  Sifts(h, i)
<1> DEFINE T == {n \in Nat : \A g \in Seq(Items), j \in Nat \ {0} : Len(g) - j < n => Sifts(g, j)}
<1>1. ASSUME NEW f \in Seq(Items), NEW j \in Nat \ {0}, Preferred(f, j) = j
      PROVE  Sifts(f, j)
  <2>1. heapify[At(f, j)] = f
    BY <1>1, HeapifyDefined
  <2>2. \A c \in Children(j) \cap DOMAIN f : j \in DOMAIN f => AtLeastAsGood(f[j], f[c])
    BY <1>1, PreferredIs
  <2>3. ASSUME NEW k \in Nat, SortedBut(f, k, j) PROVE Sorted(f, k)
    BY <2>2, <2>3 DEF SortedBut, Sorted
  <2> QED BY <2>1, <2>3 DEF Rearranged, Sifts
<1>2. ASSUME NEW f \in Seq(Items), NEW i0 \in Nat \ {0}, Preferred(f, i0) # i0,
             NEW g, g = Swap(f, i0, Preferred(f, i0)), Sifts(g, Preferred(f, i0))
      PROVE  Sifts(f, i0)
  <2> DEFINE j == Preferred(f, i0)
  <2>1. /\ j \in Children(i0) \cap DOMAIN f /\ i0 \in DOMAIN f /\ j > i0 /\ Better(f[j], f[i0])
        /\ \A c \in Children(i0) \cap DOMAIN f : AtLeastAsGood(f[j], f[c])
    BY <1>2, PreferredIs
  <2>2. heapify[At(f, i0)] = heapify[At(g, j)]
    BY <1>2, HeapifyDefined
  <2>3. Rearranged(heapify[At(f, i0)], f)
    <3>1. Rearranged(g, f)
      BY <1>2, <2>1, SwapRearranges
    <3> QED BY <1>2, <2>2, <3>1, RearrangedTransitive DEF Sifts
  <2>4. ASSUME NEW k \in Nat, i0 >= k, SortedBut(f, k, i0) PROVE Sorted(heapify[At(f, i0)], k)
    <3>1. SortedBut(g, k, j)
      BY <1>2, <2>1, <2>4, SwapSorted
    <3>2. j >= k
      BY <2>1, <2>4
    <3> HIDE DEF j
    <3> QED BY <1>2, <2>2, <3>1, <3>2 DEF Sifts, j
  <2> QED BY <2>3, <2>4 DEF Sifts
<1>3. ASSUME NEW n \in Nat, \A g \in Seq(Items), j \in Nat \ {0} : Len(g) - j < n - 1 => Sifts(g, j),
             NEW f \in Seq(Items), NEW i0 \in Nat \ {0}, Len(f) - i0 < n
      PROVE  Sifts(f, i0)
  <2>1. CASE Preferred(f, i0) = i0
    BY <1>1, <2>1
  <2>2. CASE Preferred(f, i0) # i0
    <3> DEFINE j == Preferred(f, i0)
               g == Swap(f, i0, j)
    <3>1. j \in DOMAIN f /\ i0 \in DOMAIN f /\ j > i0
      BY <2>2, PreferredIs
    <3>2. g \in Seq(Items) /\ Len(g) = Len(f)
      BY <3>1, SwapRearranges DEF Rearranged
    <3>3. j \in Nat \ {0} /\ Len(g) - j < n - 1
      BY <1>3, <3>1, <3>2
    <3>4. Sifts(g, j)
      <4> HIDE DEF j, g
      <4> QED BY <1>3, <3>2, <3>3
    <3> QED BY <1>2, <2>2, <3>4
  <2> QED BY <2>1, <2>2
<1>4. 0 \in T
  <2>1. ASSUME NEW f \in Seq(Items), NEW j \in Nat \ {0}, Len(f) - j < 0 PROVE Sifts(f, j)
    <3>1. j \notin DOMAIN f
      BY <2>1
    <3>2. Preferred(f, j) = j
      BY <3>1, PreferredIs
    <3> QED BY <3>2, <1>1
  <2> QED BY <2>1
<1>5. ASSUME NEW n \in Nat, n \in T PROVE n + 1 \in T
  <2>1. n + 1 \in Nat /\ (n + 1) - 1 = n
    OBVIOUS
  <2>2. \A g \in Seq(Items), j \in Nat \ {0} : Len(g) - j < (n + 1) - 1 => Sifts(g, j)
    BY <1>5, <2>1
  <2>3. \A g \in Seq(Items), j \in Nat \ {0} : Len(g) - j < n + 1 => Sifts(g, j)
    BY <1>3, <2>1, <2>2
  <2> QED BY <2>1, <2>3
<1>6. \A n \in Nat : n \in T
  <2> HIDE DEF T
  <2> QED BY <1>4, <1>5, SetInduction
<1>7. Len(h) + 1 \in Nat /\ Len(h) - i < Len(h) + 1
  OBVIOUS
<1>8. Len(h) + 1 \in T
  BY <1>6, <1>7
<1> QED BY <1>7, <1>8

\* build_heap goes from the last index to the first.
LEMMA BuildDefined ==
  ASSUME CostsTyped
  PROVE  \A h \in Seq(Items), i \in Nat :
           build_from[At(h, i)] = IF i = 0 THEN h ELSE build_from[At(heapify[At(h, i)], i - 1)]
<1> DEFINE D == Heaps(Nat)
           Stop == {s \in D : s.idx = 0}
           Lower(s) == At(heapify[s], s.idx - 1)
           value == [s \in D |-> s.items]
           next == [s \in D |-> IF s \in Stop THEN s ELSE Lower(s)]
           height == [s \in D |-> s.idx]
           Walk(f) == [s \in D |-> IF s.idx = 0 THEN s.items ELSE f[Lower(s)]]
<1>1. ASSUME NEW s \in D, s \notin Stop PROVE Lower(s) \in D /\ height[Lower(s)] < height[s]
  <2>1. s.items \in Seq(Items) /\ s.idx \in Nat \ {0} /\ s = At(s.items, s.idx)
    BY <1>1 DEF Heaps, At
  <2>2. heapify[s] \in Seq(Items)
    BY <2>1, Sifted DEF Sifts, Rearranged
  <2>3. Lower(s) \in D /\ Lower(s).idx = s.idx - 1
    BY <2>1, <2>2 DEF At, Heaps
  <2> HIDE DEF Lower
  <2> QED BY <2>1, <2>3
<1>2. PICK f : f = Walk(f)
  <2>1. value \in [D -> Seq(Items)]
    BY DEF Heaps
  <2>2. next \in [D -> D]
    BY <1>1
  <2>3. height \in [D -> Nat]
    BY DEF Heaps
  <2>4. \A s \in D : s \in Stop \/ height[next[s]] < height[s]
    BY <1>1
  <2> HIDE DEF value, next, height, D, Stop
  <2>5. PICK g : g = [s \in D |-> IF s \in Stop THEN value[s] ELSE g[next[s]]]
    <3>1. TailRecursive(D, Seq(Items), Stop, value, next)
      BY <2>1, <2>2, <2>3, <2>4, TailRecursion
    <3> QED BY <3>1 DEF TailRecursive
  <2>6. ASSUME NEW s \in D
        PROVE  (IF s \in Stop THEN value[s] ELSE g[next[s]])
                 = IF s.idx = 0 THEN s.items ELSE g[Lower(s)]
    BY DEF Stop, value, next
  <2> HIDE DEF Lower
  <2>7. g = Walk(g)
    BY <2>5, <2>6
  <2> QED BY <2>7
<1>3. build_from = CHOOSE g : g = Walk(g)
  BY DEF build_from
<1>4. build_from = Walk(build_from)
  <2> HIDE DEF Walk
  <2> QED BY <1>2, <1>3
<1>5. ASSUME NEW h \in Seq(Items), NEW i \in Nat
      PROVE  /\ At(h, i) \in D /\ At(h, i).items = h /\ At(h, i).idx = i
  BY DEF At, Heaps
<1> HIDE DEF D
<1>6. ASSUME NEW h \in Seq(Items), NEW i \in Nat
      PROVE  build_from[At(h, i)] = IF i = 0 THEN h ELSE build_from[At(heapify[At(h, i)], i - 1)]
  BY <1>4, <1>5
<1> QED BY <1>6

\* What build_heap is for.
Builds(h, i) ==
  LET g == build_from[At(h, i)]
  IN  Rearranged(g, h) /\ (Sorted(h, i + 1) => Sorted(g, 1))

LEMMA Built ==
  ASSUME CostsTyped
  PROVE  \A i \in Nat : \A h \in Seq(Items) : Builds(h, i)
<1> DEFINE T == {i \in Nat : \A h \in Seq(Items) : Builds(h, i)}
<1>1. ASSUME NEW h \in Seq(Items) PROVE Builds(h, 0)
  <2>1. build_from[At(h, 0)] = h
    BY BuildDefined
  <2> QED BY <2>1 DEF Builds, Rearranged
<1>2. 0 \in T
  BY <1>1
<1>3. ASSUME NEW i \in Nat, i \in T PROVE i + 1 \in T
  <2> SUFFICES ASSUME NEW h \in Seq(Items) PROVE Builds(h, i + 1)
    OBVIOUS
  <2> DEFINE g == heapify[At(h, i + 1)]
             f == build_from[At(g, i)]
  <2>1. build_from[At(h, i + 1)] = f
    <3>1. i + 1 \in Nat /\ i + 1 # 0 /\ (i + 1) - 1 = i
      OBVIOUS
    <3> QED BY <3>1, BuildDefined
  <2>2. Sifts(h, i + 1)
    <3>1. i + 1 \in Nat \ {0}
      OBVIOUS
    <3> QED BY <3>1, Sifted
  <2>3. Rearranged(g, h) /\ g \in Seq(Items)
    BY <2>2 DEF Sifts, Rearranged
  <2>4. Builds(g, i)
    BY <2>3, <1>3
  <2>5. Rearranged(f, g) /\ (Sorted(g, i + 1) => Sorted(f, 1))
    BY <2>4 DEF Builds
  <2>6. ASSUME Sorted(h, (i + 1) + 1) PROVE Sorted(g, i + 1)
    <3>1. SortedBut(h, i + 1, i + 1)
      <4>1. ASSUME NEW p \in DOMAIN h, p >= i + 1, p # i + 1 PROVE p >= (i + 1) + 1
        BY <4>1
      <4>2. \A p \in DOMAIN h : p >= i + 1 => i + 1 \notin Children(p)
        BY DEF Children
      <4> QED BY <2>6, <4>1, <4>2 DEF Sorted, SortedBut
    <3> QED BY <2>2, <3>1 DEF Sifts
  <2>7. Rearranged(f, h)
    BY <2>3, <2>5, RearrangedTransitive
  <2> HIDE DEF f, g
  <2> QED BY <2>1, <2>5, <2>6, <2>7 DEF Builds
<1>4. \A i \in Nat : i \in T
  <2> HIDE DEF T
  <2> QED BY <1>2, <1>3, SetInduction
<1> QED BY <1>4

\* The root of a heap is a best item of it.
LEMMA RootIsBest ==
  ASSUME CostsTyped, NEW h \in Seq(Items), Sorted(h, 1), NEW i \in DOMAIN h
  PROVE  AtLeastAsGood(h[1], h[i])
<1> DEFINE T == {j \in DOMAIN h : ~AtLeastAsGood(h[1], h[j])}
<1>1. DOMAIN h = 1 .. Len(h) /\ Len(h) \in Nat /\ \A p \in DOMAIN h : h[p] \in Items
  OBVIOUS
<1> SUFFICES ASSUME T # {} PROVE FALSE
  OBVIOUS
<1>2. T \in SUBSET Nat
  BY <1>1
<1>3. PICK j \in T : \A m \in T : j <= m
  <2> HIDE DEF T
  <2> QED BY <1>2, LeastNatural
<1>4. j # 1 /\ j \in DOMAIN h /\ 1 \in DOMAIN h
  BY <1>1, <1>3, Comparable
<1>5. PICK p \in Nat : j = 2 * p \/ j = 2 * p + 1
  <2>1. j \in Nat /\ j \div 2 \in Nat /\ (j = 2 * (j \div 2) \/ j = 2 * (j \div 2) + 1)
    BY <1>1, <1>4
  <2> QED BY <2>1
<1>6. p \in DOMAIN h /\ p < j /\ p >= 1
  BY <1>1, <1>4, <1>5
<1>7. AtLeastAsGood(h[1], h[p])
  BY <1>3, <1>6
<1>8. AtLeastAsGood(h[p], h[j])
  BY <1>4, <1>5, <1>6 DEF Sorted, Children
<1> QED BY <1>1, <1>3, <1>4, <1>6, <1>7, <1>8, Comparable

-----------------------------------------------------------------------------
\* The items are distinct, and a built heap is in order.
HeapInv ==
  /\ item_cost \in [Items -> Costs] /\ min \in BOOLEAN
  /\ items \in Seq(Items)
  /\ Distinct(items)
  /\ built \in BOOLEAN
  /\ built => Sorted(items, 1)

LEMMA HeapTyped == HeapInv => CostsTyped
BY IntegerCosts DEF HeapInv, CostsTyped

LEMMA EmptyHeap == Sorted(<<>>, 1) /\ Distinct(<<>>) /\ ToSet(<<>>) = {}
BY DEF Sorted, Distinct, ToSet

\* The order of the heap is that of the costs, which no step changes.
LEMMA SameOrder ==
  ASSUME UNCHANGED <<item_cost, min>>, Sorted(items', 1)
  PROVE  Sorted(items, 1)'
BY DEF Sorted, AtLeastAsGood, Better

LEMMA InitQueue == InitHeap => HeapInv /\ Queue!Init
BY EmptyHeap DEF InitHeap, HeapInv, Queue!Init

LEMMA AddQueue ==
  ASSUME HeapInv, NEW x \in Items, Add(x)
  PROVE  HeapInv' /\ Queue!Add(x)
<1>1. items \in Seq(Items) /\ items' = Append(items, x) /\ DOMAIN items = 1 .. Len(items)
  BY DEF HeapInv, Add
<1>2. /\ items' \in Seq(Items) /\ DOMAIN items' = 1 .. Len(items) + 1 /\ Len(items) \in Nat
      /\ \A i \in 1 .. Len(items) : items'[i] = items[i]
      /\ items'[Len(items) + 1] = x
  BY <1>1
<1>3. Distinct(items')
  <2> SUFFICES ASSUME NEW i \in DOMAIN items', NEW j \in DOMAIN items', items'[i] = items'[j]
               PROVE  i = j
    BY DEF Distinct
  <2>1. \A k \in 1 .. Len(items) : items[k] # x
    BY <1>1 DEF Add
  <2>2. \A k \in DOMAIN items' : k \in 1 .. Len(items) \/ k = Len(items) + 1
    BY <1>2
  <2> QED BY <1>1, <1>2, <2>1, <2>2 DEF HeapInv, Distinct
<1>4. ToSet(items') = ToSet(items) \cup {x}
  <2>1. \A k \in DOMAIN items' : k \in 1 .. Len(items) \/ k = Len(items) + 1
    BY <1>2
  <2>2. 1 .. Len(items) \subseteq DOMAIN items' /\ Len(items) + 1 \in DOMAIN items'
    BY <1>2
  <2> QED BY <1>1, <1>2, <2>1, <2>2 DEF ToSet
<1>5. x \notin ToSet(items)
  BY DEF Add, ToSet
<1>6. HeapInv'
  BY <1>2, <1>3 DEF HeapInv, Add
<1> QED BY <1>4, <1>5, <1>6 DEF Queue!Add, Add

LEMMA BuildQueue ==
  ASSUME HeapInv, Build
  PROVE  HeapInv' /\ Queue!Build
<1>1. items \in Seq(Items) /\ Len(items) \in Nat /\ items' = build_from[At(items, Len(items))]
  BY DEF HeapInv, Build, build_heap
<1>2. Builds(items, Len(items))
  BY <1>1, HeapTyped, Built
<1>3. Sorted(items, Len(items) + 1)
  BY <1>1 DEF Sorted
<1>4. Rearranged(items', items) /\ Sorted(items', 1)
  BY <1>1, <1>2, <1>3 DEF Builds
<1>5. HeapInv'
  BY <1>4, SameOrder DEF HeapInv, Build, Rearranged
<1> QED BY <1>4, <1>5 DEF Build, Queue!Build, Rearranged, ToSet

LEMMA ExtractQueue ==
  ASSUME HeapInv, Extract
  PROVE  HeapInv' /\ \E x \in Items : Queue!Extract(x)
<1>0. PICK n \in Nat : n = Len(items)
  BY DEF HeapInv
<1> DEFINE f == Front([items EXCEPT ![1] = Last(items)])
<1>1. /\ items \in Seq(Items) /\ n > 0 /\ DOMAIN items = 1 .. n
      /\ \A i \in 1 .. n : items[i] \in Items
  BY <1>0 DEF HeapInv, Extract
<1>2. /\ DOMAIN f = 1 .. n - 1
      /\ \A i \in 1 .. n - 1 : f[i] = IF i = 1 THEN items[n] ELSE items[i]
  <2> DEFINE g == [items EXCEPT ![1] = Last(items)]
  <2>1. Last(items) = items[n] /\ n \in 1 .. n /\ 1 \in 1 .. n
    BY <1>0, <1>1 DEF Last
  <2>2. /\ g \in Seq(Items) /\ Len(g) = n
        /\ \A i \in 1 .. n : g[i] = IF i = 1 THEN items[n] ELSE items[i]
    BY <1>0, <1>1, <2>1, ExceptSeq
  <2> HIDE DEF g
  <2>3. f = SubSeq(g, 1, n - 1)
    BY <2>2 DEF Front, g
  <2>4. /\ DOMAIN SubSeq(g, 1, n - 1) = 1 .. n - 1
        /\ \A i \in 1 .. n - 1 : SubSeq(g, 1, n - 1)[i] = g[i]
    BY <1>1, <2>2
  <2> HIDE DEF f
  <2> QED BY <1>1, <2>2, <2>3, <2>4
<1>3. f \in Seq(Items) /\ Len(f) = n - 1
  <2>1. f = [i \in 1 .. n - 1 |-> f[i]]
    BY <1>2 DEF Front
  <2> HIDE DEF f
  <2>2. n - 1 \in Nat
    BY <1>1
  <2>3. \A i \in 1 .. n - 1 : i \in 1 .. n /\ n \in 1 .. n
    BY <1>1
  <2>4. \A i \in 1 .. n - 1 : f[i] \in Items
    BY <1>1, <1>2, <2>3
  <2> QED BY <1>2, <2>1, <2>2, <2>4, SeqDef, LenProperties
<1> HIDE DEF f
<1>4. /\ items' = heapify[At(f, 1)] /\ extracted' = items[1]
      /\ UNCHANGED <<item_cost, min, built>>
  BY DEF Extract, WithoutRoot, f
<1>5. Distinct(f)
  <2> SUFFICES ASSUME NEW i \in 1 .. n - 1, NEW j \in 1 .. n - 1, f[i] = f[j] PROVE i = j
    BY <1>2 DEF Distinct
  <2>1. i \in DOMAIN items /\ j \in DOMAIN items /\ n \in DOMAIN items /\ i # n /\ j # n
    BY <1>1
  <2> QED BY <1>2, <2>1 DEF HeapInv, Distinct
<1>6. ToSet(f) = ToSet(items) \ {items[1]}
  <2>1. ASSUME NEW i \in 1 .. n - 1 PROVE f[i] \in ToSet(items) \ {items[1]}
    <3>1. i \in DOMAIN items /\ 1 \in DOMAIN items /\ n \in DOMAIN items /\ i # n
      BY <1>1
    <3>2. PICK k \in DOMAIN items : k # 1 /\ f[i] = items[k]
      BY <1>2, <3>1
    <3> QED BY <3>1, <3>2 DEF HeapInv, Distinct, ToSet
  <2>2. ASSUME NEW k \in 1 .. n, items[k] # items[1] PROVE items[k] \in ToSet(f)
    <3>1. CASE k = n
      <4>1. 1 \in 1 .. n - 1 /\ f[1] = items[k]
        BY <1>1, <1>2, <2>2, <3>1
      <4> QED BY <4>1, <1>2 DEF ToSet
    <3>2. CASE k # n
      <4>1. k \in 1 .. n - 1 /\ f[k] = items[k]
        BY <1>1, <1>2, <2>2, <3>2
      <4> QED BY <4>1, <1>2 DEF ToSet
    <3> QED BY <3>1, <3>2
  <2> QED BY <1>1, <1>2, <2>1, <2>2, SMTT(30) DEF ToSet
<1>7. Sifts(f, 1)
  BY <1>3, HeapTyped, Sifted
<1>8. Rearranged(items', f)
  BY <1>4, <1>7 DEF Sifts
<1>9. ASSUME built PROVE Sorted(items', 1)
  <2>1. ASSUME NEW p \in DOMAIN f, p >= 1, p # 1, NEW c \in Children(p) \cap DOMAIN f
        PROVE  AtLeastAsGood(f[p], f[c])
    <3>1. p \in DOMAIN items /\ c \in DOMAIN items /\ f[p] = items[p] /\ f[c] = items[c]
      BY <1>1, <1>2, <2>1 DEF Children
    <3> QED BY <1>9, <2>1, <3>1 DEF HeapInv, Sorted
  <2>2. ASSUME NEW p \in DOMAIN f, p >= 1 PROVE 1 \notin Children(p)
    BY <1>2, <2>2 DEF Children
  <2>3. SortedBut(f, 1, 1)
    BY <2>1, <2>2 DEF SortedBut
  <2> QED BY <1>4, <1>7, <2>3 DEF Sifts
<1>10. HeapInv'
  BY <1>4, <1>5, <1>8, <1>9, SameOrder DEF HeapInv, Rearranged
<1>11. Queue!Extract(items[1])
  <2>1. 1 \in DOMAIN items
    BY <1>1
  <2>2. ASSUME built, NEW y \in ToSet(items) PROVE Queue!AtLeastAsGood(items[1], y)
    <3>1. PICK i \in DOMAIN items : items[i] = y
      BY DEF ToSet
    <3>2. AtLeastAsGood(items[1], items[i])
      BY <1>1, <2>2, HeapTyped, RootIsBest DEF HeapInv
    <3>3. item_cost[items[1]] \in Int /\ item_cost[items[i]] \in Int
      BY <1>1, <2>1, HeapTyped DEF CostsTyped
    <3> QED BY <3>1, <3>2, <3>3 DEF AtLeastAsGood, Better, Queue!AtLeastAsGood
  <2>3. ToSet(items') = ToSet(items) \ {items[1]}
    BY <1>6, <1>8 DEF Rearranged
  <2> QED BY <1>4, <2>1, <2>2, <2>3 DEF Queue!Extract, ToSet
<1> QED BY <1>1, <1>10, <1>11

LEMMA NextQueue == HeapInv /\ [NextHeap]_heap_vars => HeapInv' /\ [Queue!Next]_(Queue!vars)
<1> SUFFICES ASSUME HeapInv, [NextHeap]_heap_vars PROVE HeapInv' /\ [Queue!Next]_(Queue!vars)
  OBVIOUS
<1>1. ASSUME NEW x \in Items, Add(x) PROVE HeapInv' /\ Queue!Next
  BY <1>1, AddQueue DEF Queue!Next
<1>2. CASE Build
  BY <1>2, BuildQueue DEF Queue!Next
<1>3. CASE Extract
  BY <1>3, ExtractQueue DEF Queue!Next
<1>4. CASE ExtractNothing
  BY <1>4, EmptyHeap, SameOrder DEF HeapInv, ExtractNothing, Queue!Next, Queue!ExtractNothing, ToSet
<1>5. CASE UNCHANGED heap_vars
  BY <1>5, SameOrder DEF HeapInv, heap_vars, Queue!vars, ToSet
<1> QED BY <1>1, <1>2, <1>3, <1>4, <1>5 DEF NextHeap

\* heap.c implements PriorityQueue, for any nodes, costs and number of them:
\* ImplementsPriorityQueue of the run.
THEOREM HeapIsQueue == HeapSpec => ImplementsPriorityQueue
<1> QED BY InitQueue, NextQueue, PTL DEF HeapSpec, ImplementsPriorityQueue, Queue!Spec

-----------------------------------------------------------------------------
\* The lists: of the neighbours of each node, and of all nodes.
Heads == Ids \cup {Graph}
Addresses == Heads \X Ids \X (0 .. 2)

\* An item holds the node that its address names.
MemoryTyped(mem) ==
  \A p \in DOMAIN mem : /\ p \in Addresses
                        /\ mem[p] = [node |-> p[2], prev |-> mem[p].prev, next |-> mem[p].next]

\* x are the items of list l, whose first is head: one for each node it holds,
\* linked to the next and, but for the first, to the one before.
IsList(mem, l, head, x) ==
  /\ x \in Seq(DOMAIN mem)
  /\ \A i \in 1 .. Len(x) : x[i][1] = l
  /\ \A i, j \in 1 .. Len(x) : x[i][2] = x[j][2] => i = j
  /\ head = IF Len(x) = 0 THEN NULL ELSE x[1]
  /\ \A i \in 1 .. Len(x) : mem[x[i]].next = IF i = Len(x) THEN NULL ELSE x[i + 1]
  /\ \A i \in 2 .. Len(x) : mem[x[i]].prev = x[i - 1]

NodesIn(x) == {x[i][2] : i \in 1 .. Len(x)}

LEMMA NullIsNoAddress == NULL \notin Addresses
BY DEF NULL, Addresses

LEMMA ListTyped ==
  ASSUME NEW mem, MemoryTyped(mem), NEW l, NEW head, NEW x, IsList(mem, l, head, x)
  PROVE  /\ x \in Seq(DOMAIN mem) /\ Len(x) \in Nat /\ DOMAIN x = 1 .. Len(x)
         /\ \A i \in 1 .. Len(x) : /\ x[i] \in DOMAIN mem /\ x[i] \in Addresses
                                   /\ x[i][2] \in Ids /\ mem[x[i]].node = x[i][2]
         /\ NodesIn(x) \subseteq Ids
<1>1. x \in Seq(DOMAIN mem)
  BY DEF IsList
<1>2. Len(x) \in Nat /\ DOMAIN x = 1 .. Len(x) /\ \A i \in 1 .. Len(x) : x[i] \in DOMAIN mem
  BY <1>1
<1>3. ASSUME NEW i \in 1 .. Len(x)
      PROVE  x[i] \in Addresses /\ x[i][2] \in Ids /\ mem[x[i]].node = x[i][2]
  <2> DEFINE p == x[i]
  <2>1. p \in DOMAIN mem
    BY <1>2
  <2> HIDE DEF p
  <2>2. p \in Addresses /\ mem[p] = [node |-> p[2], prev |-> mem[p].prev, next |-> mem[p].next]
    BY <2>1 DEF MemoryTyped
  <2>3. mem[p].node = p[2]
    BY <2>2
  <2>4. p[2] \in Ids
    BY <2>2 DEF Addresses
  <2> QED BY <2>2, <2>3, <2>4 DEF p
<1>4. NodesIn(x) \subseteq Ids
  BY <1>3 DEF NodesIn
<1> QED BY <1>1, <1>2, <1>3, <1>4

\* A list is no longer than there are nodes.
LEMMA ListLength ==
  ASSUME NEW mem, MemoryTyped(mem), NEW l, NEW head, NEW x, IsList(mem, l, head, x)
  PROVE  /\ IsFiniteSet(NodesIn(x)) /\ Cardinality(NodesIn(x)) = Len(x)
         /\ Len(x) <= TotalVariables
<1>1. Len(x) \in Nat /\ NodesIn(x) \subseteq Ids
  BY ListTyped
<1> DEFINE f == [i \in 1 .. Len(x) |-> x[i][2]]
<1>2. f \in Bijection(1 .. Len(x), NodesIn(x))
  <2>1. f \in [1 .. Len(x) -> NodesIn(x)]
    BY DEF NodesIn
  <2>2. \A i, j \in 1 .. Len(x) : f[i] = f[j] => i = j
    BY DEF IsList
  <2>3. \A n \in NodesIn(x) : \E i \in 1 .. Len(x) : f[i] = n
    BY DEF NodesIn
  <2> HIDE DEF f
  <2> QED BY <2>1, <2>2, <2>3 DEF Bijection, Injection, Surjection, IsInjective
<1>3. ExistsBijection(1 .. Len(x), NodesIn(x))
  BY <1>2 DEF ExistsBijection
<1>4. IsFiniteSet(NodesIn(x)) /\ Cardinality(NodesIn(x)) = Len(x)
  BY <1>1, <1>3, FS_CountingElements, FS_NatBijection
<1>5. IsFiniteSet(Ids) /\ Cardinality(Ids) = TotalVariables
  <2>1. TotalVariables \in Nat
    BY TotalAssumption
  <2>2. \A n \in Nat : IsFiniteSet(0 .. n - 1) /\ Cardinality(0 .. n - 1) = n
    <3> TAKE n \in Nat
    <3>1. IsFiniteSet(0 .. n - 1) /\ Cardinality(0 .. n - 1) = IF 0 > n - 1 THEN 0 ELSE (n - 1) - 0 + 1
      BY FS_Interval
    <3> QED BY <3>1
  <2> QED BY <2>1, <2>2 DEF Ids
<1> QED BY <1>1, <1>4, <1>5, FS_Subset

-----------------------------------------------------------------------------
\* The function of ListItems, which calls itself with longer and longer lists.
From(mem, f) ==
  [walked \in Seq(DOMAIN mem) |->
     IF Len(walked) < TotalVariables /\ mem[Last(walked)].next \in DOMAIN mem
     THEN f[Append(walked, mem[Last(walked)].next)]
     ELSE walked]

LEMMA FromDefined ==
  ASSUME NEW mem
  PROVE  \E f : f = From(mem, f)
<1> DEFINE D == Seq(DOMAIN mem)
           Onwards(walked) == Append(walked, mem[Last(walked)].next)
           Stop == {walked \in D : ~(Len(walked) < TotalVariables /\ mem[Last(walked)].next \in DOMAIN mem)}
           value == [walked \in D |-> walked]
           next == [walked \in D |-> IF walked \in Stop THEN walked ELSE Onwards(walked)]
           height == [walked \in D |-> IF Len(walked) < TotalVariables THEN TotalVariables - Len(walked) ELSE 0]
<1>1. ASSUME NEW walked \in D, walked \notin Stop
      PROVE  /\ Onwards(walked) \in D
             /\ height[Onwards(walked)] < height[walked]
  <2>1. Len(walked) < TotalVariables /\ mem[Last(walked)].next \in DOMAIN mem
    BY <1>1
  <2>2. PICK p \in DOMAIN mem : p = mem[Last(walked)].next
    BY <2>1
  <2>3. Append(walked, p) \in D /\ Len(Append(walked, p)) = Len(walked) + 1 /\ Len(walked) \in Nat
    OBVIOUS
  <2>4. TotalVariables \in Nat
    BY TotalAssumption
  <2>5. Onwards(walked) = Append(walked, p)
    BY <2>2
  <2>6. height[Append(walked, p)] < height[walked]
    BY <2>1, <2>3, <2>4
  <2> HIDE DEF height, Onwards
  <2> QED BY <2>3, <2>5, <2>6
<1>2. value \in [D -> D]
  OBVIOUS
<1>3. next \in [D -> D]
  <2> HIDE DEF Onwards, Stop, D
  <2> QED BY <1>1
<1>4. height \in [D -> Nat]
  <2>1. \A n \in Nat : (IF n < TotalVariables THEN TotalVariables - n ELSE 0) \in Nat
    BY TotalAssumption
  <2>2. \A walked \in D : Len(walked) \in Nat
    OBVIOUS
  <2> QED BY <2>1, <2>2
<1>5. \A walked \in D : walked \in Stop \/ height[next[walked]] < height[walked]
  <2> HIDE DEF Onwards, Stop, D, height
  <2> QED BY <1>1
<1> HIDE DEF value, next, height, D, Stop
<1>6. TailRecursive(D, D, Stop, value, next)
  BY <1>2, <1>3, <1>4, <1>5, TailRecursion
<1>7. PICK f : f = [walked \in D |-> IF walked \in Stop THEN value[walked] ELSE f[next[walked]]]
  BY <1>6 DEF TailRecursive
<1>8. \A walked \in D : (IF walked \in Stop THEN value[walked] ELSE f[next[walked]])
                        = IF Len(walked) < TotalVariables /\ mem[Last(walked)].next \in DOMAIN mem
                          THEN f[Append(walked, mem[Last(walked)].next)] ELSE walked
  BY DEF Stop, value, next
<1>9. f = From(mem, f)
  BY <1>7, <1>8 DEF From, D
<1> QED BY <1>9

\* From its head, a list is found whole.
LEMMA ItemsAre ==
  ASSUME NEW mem, MemoryTyped(mem), NEW l, NEW head, NEW x, IsList(mem, l, head, x)
  PROVE  ListItems(mem, head) = x
<1> DEFINE from == CHOOSE f : f = From(mem, f)
<1>1. from = From(mem, from)
  BY FromDefined
<1>2. ListItems(mem, head) = IF head \in DOMAIN mem THEN from[<<head>>] ELSE <<>>
  BY DEF ListItems, From
<1> HIDE DEF from
<1>3. /\ x \in Seq(DOMAIN mem) /\ Len(x) \in Nat /\ Len(x) <= TotalVariables
      /\ \A i \in 1 .. Len(x) : x[i] \in DOMAIN mem
      /\ \A i \in 1 .. Len(x) : mem[x[i]].next = IF i = Len(x) THEN NULL ELSE x[i + 1]
      /\ NULL \notin DOMAIN mem
  BY ListTyped, ListLength, NullIsNoAddress DEF IsList, MemoryTyped
<1>4. CASE Len(x) = 0
  <2>1. head = NULL /\ x = <<>>
    BY <1>3, <1>4 DEF IsList
  <2> QED BY <1>2, <1>3, <2>1
<1>5. CASE Len(x) # 0
  <2> DEFINE T == {k \in 1 .. Len(x) : from[SubSeq(x, 1, k)] = x}
  <2>1. ASSUME NEW k \in 1 .. Len(x)
        PROVE  /\ SubSeq(x, 1, k) \in Seq(DOMAIN mem)
               /\ Len(SubSeq(x, 1, k)) = k
               /\ Last(SubSeq(x, 1, k)) = x[k]
               /\ k < Len(x) => Append(SubSeq(x, 1, k), x[k + 1]) = SubSeq(x, 1, k + 1)
    <3>1. SubSeq(x, 1, k) \in Seq(DOMAIN mem) /\ Len(SubSeq(x, 1, k)) = k
      BY <1>3
    <3>2. SubSeq(x, 1, k)[k] = x[k]
      BY <1>3
    <3>3. k < Len(x) => Append(SubSeq(x, 1, k), x[k + 1]) = SubSeq(x, 1, k + 1)
      BY <1>3
    <3> QED BY <3>1, <3>2, <3>3 DEF Last
  <2>2. Len(x) \in T
    <3>1. Len(x) \in 1 .. Len(x)
      BY <1>3, <1>5
    <3>2. SubSeq(x, 1, Len(x)) = x
      BY <1>3
    <3>3. mem[Last(x)].next = NULL
      BY <1>3, <2>1, <3>1, <3>2
    <3>4. from[x] = x
      BY <1>1, <1>3, <3>3 DEF From
    <3> QED BY <3>1, <3>2, <3>4
  <2>3. ASSUME NEW k \in 1 .. Len(x) - 1, k + 1 \in T PROVE k \in T
    <3>1. k \in 1 .. Len(x) /\ k < Len(x) /\ k < TotalVariables /\ k + 1 \in 1 .. Len(x) /\ k # Len(x)
      BY <1>3, TotalAssumption
    <3> DEFINE y == SubSeq(x, 1, k)
    <3>2. y \in Seq(DOMAIN mem) /\ Len(y) = k /\ Last(y) = x[k]
      BY <2>1, <3>1
    <3>3. Append(y, x[k + 1]) = SubSeq(x, 1, k + 1)
      BY <2>1, <3>1
    <3> HIDE DEF y
    <3>4. mem[Last(y)].next = x[k + 1] /\ x[k + 1] \in DOMAIN mem
      BY <1>3, <3>1, <3>2
    <3>5. from[y] = from[Append(y, x[k + 1])]
      BY <1>1, <3>1, <3>2, <3>4 DEF From
    <3>6. from[Append(y, x[k + 1])] = x
      BY <2>3, <3>3
    <3>7. from[SubSeq(x, 1, k)] = x
      BY <3>5, <3>6 DEF y
    <3> QED BY <3>1, <3>7
  <2> HIDE DEF T
  <2>4. 1 \in T
    <3>1. PICK n \in Nat \ {0} : n = Len(x)
      BY <1>3, <1>5
    <3>2. n \in T /\ \A k \in 1 .. n - 1 : k + 1 \in T => k \in T
      BY <2>2, <2>3, <3>1
    <3>3. \A k \in 1 .. n : k \in T
      BY <3>2, BackwardInduction
    <3> QED BY <3>3
  <2>5. head = x[1] /\ x[1] \in DOMAIN mem
    BY <1>3, <1>5 DEF IsList
  <2>6. SubSeq(x, 1, 1) = <<x[1]>>
    <3>1. 1 \in 1 .. Len(x)
      BY <1>3, <1>5
    <3>2. PICK y \in Seq(DOMAIN mem) : y = SubSeq(x, 1, 1) /\ Len(y) = 1 /\ y[1] = x[1]
      BY <1>3, <2>1, <3>1 DEF Last
    <3>3. y = <<y[1]>>
      <4>1. <<y[1]>> \in Seq(DOMAIN mem) /\ Len(<<y[1]>>) = 1 /\ <<y[1]>>[1] = y[1]
        BY <2>5, <3>2
      <4>2. \A i \in 1 .. 1 : <<y[1]>>[i] = y[i]
        BY <4>1
      <4> QED BY <3>2, <4>1, <4>2, SeqEqual
    <3> QED BY <3>2, <3>3
  <2> QED BY <1>2, <2>4, <2>5, <2>6 DEF T
<1> QED BY <1>4, <1>5

-----------------------------------------------------------------------------
\* The lists of s hold, each, the nodes that S gives for it.
Shape(s, S) ==
  /\ s = [memory |-> s.memory, first |-> s.first]
  /\ s.first = [l \in Heads |-> s.first[l]]
  /\ S = [l \in Heads |-> S[l]]
  /\ MemoryTyped(s.memory)
  /\ \A l \in Heads : \E x : IsList(s.memory, l, s.first[l], x) /\ S[l] = NodesIn(x)

\* What a list looks like to the code that walks it.
LEMMA ListView ==
  ASSUME NEW s, NEW S, Shape(s, S), NEW l \in Heads
  PROVE  /\ NodesOf(s.memory, s.first[l]) \in Seq(Ids)
         /\ ToSet(NodesOf(s.memory, s.first[l])) = S[l]
         /\ Len(NodesOf(s.memory, s.first[l])) = Cardinality(S[l])
         /\ \A i, j \in DOMAIN NodesOf(s.memory, s.first[l]) :
              NodesOf(s.memory, s.first[l])[i] = NodesOf(s.memory, s.first[l])[j] => i = j
         /\ S[l] \subseteq Ids /\ IsFiniteSet(S[l])
<1>1. PICK x : IsList(s.memory, l, s.first[l], x) /\ S[l] = NodesIn(x)
  BY DEF Shape
<1>2. MemoryTyped(s.memory)
  BY DEF Shape
<1> DEFINE nodes == [i \in 1 .. Len(x) |-> x[i][2]]
<1>3. /\ Len(x) \in Nat /\ DOMAIN x = 1 .. Len(x) /\ NodesIn(x) \subseteq Ids
      /\ \A i \in 1 .. Len(x) : s.memory[x[i]].node = x[i][2] /\ x[i][2] \in Ids
  BY <1>1, <1>2, ListTyped
<1>4. NodesOf(s.memory, s.first[l]) = nodes
  <2>1. ListItems(s.memory, s.first[l]) = x
    BY <1>1, <1>2, ItemsAre
  <2> QED BY <1>3, <2>1 DEF NodesOf
<1>5. nodes \in Seq(Ids) /\ Len(nodes) = Len(x) /\ DOMAIN nodes = 1 .. Len(x)
  <2>1. PICK n \in Nat : n = Len(x)
    BY <1>3
  <2>2. [i \in 1 .. n |-> x[i][2]] \in Seq(Ids) /\ Len([i \in 1 .. n |-> x[i][2]]) = n
    BY <1>3, <2>1
  <2> QED BY <2>1, <2>2
<1>6. ToSet(nodes) = NodesIn(x)
  BY <1>5 DEF ToSet, NodesIn
<1>7. IsFiniteSet(NodesIn(x)) /\ Cardinality(NodesIn(x)) = Len(x)
  BY <1>1, <1>2, ListLength
<1>8. \A i, j \in 1 .. Len(x) : nodes[i] = nodes[j] => i = j
  BY <1>1 DEF IsList
<1> HIDE DEF nodes
<1> QED BY <1>1, <1>3, <1>4, <1>5, <1>6, <1>7, <1>8

\* The items of a list are its own: what happens to others does not matter.
LEMMA SameList ==
  ASSUME NEW mem, NEW mem2, NEW l, NEW head, NEW x, IsList(mem, l, head, x),
         \A p \in DOMAIN mem : p[1] = l => p \in DOMAIN mem2 /\ mem2[p] = mem[p]
  PROVE  IsList(mem2, l, head, x)
<1>1. x \in Seq(DOMAIN mem) /\ \A i \in 1 .. Len(x) : x[i] \in DOMAIN mem /\ x[i][1] = l
  BY DEF IsList
<1>2. \A i \in 1 .. Len(x) : x[i] \in DOMAIN mem2 /\ mem2[x[i]] = mem[x[i]]
  BY <1>1
<1>3. x \in Seq(DOMAIN mem2)
  <2>1. PICK n \in Nat : n = Len(x) /\ x \in [1 .. n -> DOMAIN mem]
    BY <1>1
  <2>2. x \in [1 .. n -> DOMAIN mem2]
    BY <1>2, <2>1
  <2> QED BY <2>2, SeqDef
<1>4. \A i \in 2 .. Len(x) : i \in 1 .. Len(x)
  BY <1>1
<1> QED BY <1>2, <1>3, <1>4 DEF IsList

\* mem2 is mem with item p in front of the one at head.
InFront(mem, mem2, p, head) ==
  /\ p \in Addresses \ DOMAIN mem
  /\ DOMAIN mem2 = DOMAIN mem \cup {p}
  /\ mem2[p] = [node |-> p[2], prev |-> NULL, next |-> head]
  /\ \A q \in DOMAIN mem : mem2[q] = IF q = head THEN [mem[q] EXCEPT !.prev = p] ELSE mem[q]

\* add_node_to_graph and the halves of add_edge: a new item in front.
LEMMA PushedList ==
  ASSUME NEW mem, MemoryTyped(mem), NEW l, NEW head, NEW x, IsList(mem, l, head, x),
         NEW p, p[1] = l, p[2] \notin NodesIn(x), NEW mem2, InFront(mem, mem2, p, head)
  PROVE  /\ IsList(mem2, l, p, <<p>> \o x)
         /\ NodesIn(<<p>> \o x) = NodesIn(x) \cup {p[2]}
<1> DEFINE y == <<p>> \o x
<1>0. /\ p \in Addresses \ DOMAIN mem /\ DOMAIN mem2 = DOMAIN mem \cup {p}
      /\ mem2[p] = [node |-> p[2], prev |-> NULL, next |-> head]
      /\ \A q \in DOMAIN mem : mem2[q] = IF q = head THEN [mem[q] EXCEPT !.prev = p] ELSE mem[q]
  BY DEF InFront
<1>1. /\ x \in Seq(DOMAIN mem) /\ Len(x) \in Nat /\ DOMAIN x = 1 .. Len(x)
      /\ \A i \in 1 .. Len(x) : x[i] \in DOMAIN mem /\ x[i] \in Addresses
  BY ListTyped
<1>2. /\ \A i \in 1 .. Len(x) : x[i][1] = l
      /\ \A i, j \in 1 .. Len(x) : x[i][2] = x[j][2] => i = j
      /\ head = IF Len(x) = 0 THEN NULL ELSE x[1]
      /\ \A i \in 1 .. Len(x) : mem[x[i]].next = IF i = Len(x) THEN NULL ELSE x[i + 1]
      /\ \A i \in 2 .. Len(x) : mem[x[i]].prev = x[i - 1]
  BY DEF IsList
<1>3. /\ y \in Seq(DOMAIN mem2) /\ Len(y) = Len(x) + 1 /\ y[1] = p
      /\ \A i \in 1 .. Len(x) : y[i + 1] = x[i]
  <2>1. x \in Seq(DOMAIN mem2)
    <3>1. PICK n \in Nat : n = Len(x) /\ x \in [1 .. n -> DOMAIN mem]
      BY <1>0, <1>1
    <3>2. x \in [1 .. n -> DOMAIN mem2]
      BY <1>0, <3>1
    <3> QED BY <3>2, SeqDef
  <2>2. <<p>> \in Seq(DOMAIN mem2) /\ Len(<<p>>) = 1 /\ <<p>>[1] = p
    BY <1>0
  <2>3. y \in Seq(DOMAIN mem2) /\ Len(y) = 1 + Len(x)
    BY <1>1, <2>1, <2>2
  <2>4. y[1] = p
    BY <1>1, <2>1, <2>2, ConcatProperties
  <2>5. \A i \in 1 .. Len(x) : y[i + 1] = x[i]
    BY <1>1, <2>1, <2>2, ConcatProperties
  <2> QED BY <1>1, <2>3, <2>4, <2>5
<1> HIDE DEF y
<1>4. ASSUME NEW i \in 1 .. Len(y), i # 1
      PROVE  i - 1 \in 1 .. Len(x) /\ y[i] = x[i - 1] /\ y[i] \in DOMAIN mem
  <2>1. i - 1 \in 1 .. Len(x) /\ (i - 1) + 1 = i
    BY <1>1, <1>3, <1>4
  <2> QED BY <1>1, <1>3, <2>1
<1>5. ASSUME NEW i \in 1 .. Len(y) PROVE y[i][1] = l
  <2>1. CASE i = 1
    BY <1>3, <2>1
  <2>2. CASE i # 1
    BY <1>2, <1>4, <2>2
  <2> QED BY <2>1, <2>2
<1>6. \A i, j \in 1 .. Len(y) : y[i][2] = y[j][2] => i = j
  <2> SUFFICES ASSUME NEW i \in 1 .. Len(y), NEW j \in 1 .. Len(y), y[i][2] = y[j][2] PROVE i = j
    OBVIOUS
  <2>1. \A k \in 1 .. Len(y) : k # 1 => y[k][2] \in NodesIn(x)
    BY <1>4 DEF NodesIn
  <2>2. CASE i = 1 \/ j = 1
    BY <1>3, <2>1, <2>2
  <2>3. CASE i # 1 /\ j # 1
    <3>1. i - 1 = j - 1
      BY <1>0, <1>2, <1>4, <2>3
    <3> QED BY <1>1, <1>3, <3>1
  <2> QED BY <2>2, <2>3
<1>7. ASSUME NEW i \in 1 .. Len(y) PROVE mem2[y[i]].next = IF i = Len(y) THEN NULL ELSE y[i + 1]
  <2>1. CASE i = 1
    <3>1. mem2[y[i]].next = head
      BY <1>0, <1>3, <2>1
    <3>2. CASE Len(x) = 0
      BY <1>2, <1>3, <2>1, <3>1, <3>2
    <3>3. CASE Len(x) # 0
      <4>1. 1 \in 1 .. Len(x) /\ i # Len(y) /\ i + 1 = 1 + 1
        BY <1>1, <1>3, <2>1, <3>3
      <4> QED BY <1>2, <1>3, <3>1, <3>3, <4>1
    <3> QED BY <3>2, <3>3
  <2>2. CASE i # 1
    <3> DEFINE k == i - 1
    <3>1. k \in 1 .. Len(x) /\ y[i] = x[k] /\ y[i] \in DOMAIN mem
      BY <1>4, <2>2
    <3>2. i = k + 1 /\ (i = Len(y) <=> k = Len(x)) /\ (k # Len(x) => k + 1 \in 1 .. Len(x))
      BY <1>1, <1>3
    <3> HIDE DEF k
    <3>3. mem2[y[i]].next = mem[x[k]].next
      <4>1. mem[x[k]] = [node |-> x[k][2], prev |-> mem[x[k]].prev, next |-> mem[x[k]].next]
        BY <3>1 DEF MemoryTyped
      <4>2. mem2[x[k]] = IF x[k] = head THEN [mem[x[k]] EXCEPT !.prev = p] ELSE mem[x[k]]
        BY <1>0, <3>1
      <4> QED BY <3>1, <4>1, <4>2
    <3>4. k # Len(x) => y[i + 1] = x[k + 1]
      BY <1>3, <3>2
    <3> QED BY <1>2, <3>1, <3>2, <3>3, <3>4
  <2> QED BY <2>1, <2>2
<1>8. ASSUME NEW i \in 2 .. Len(y) PROVE mem2[y[i]].prev = y[i - 1]
  <2> DEFINE k == i - 1
  <2>1. i \in 1 .. Len(y) /\ i # 1
    BY <1>1, <1>3
  <2>2. k \in 1 .. Len(x) /\ y[i] = x[k] /\ y[i] \in DOMAIN mem
    BY <1>4, <2>1
  <2>3. mem[x[k]] = [node |-> x[k][2], prev |-> mem[x[k]].prev, next |-> mem[x[k]].next]
    BY <2>2 DEF MemoryTyped
  <2>4. mem2[x[k]] = IF x[k] = head THEN [mem[x[k]] EXCEPT !.prev = p] ELSE mem[x[k]]
    BY <1>0, <2>2
  <2>5. i - 1 = k /\ k \in Int
    BY <2>2
  <2> HIDE DEF k
  <2>6. CASE k = 1
    <3>1. x[k] = head /\ y[k] = p
      BY <1>0, <1>1, <1>2, <1>3, <2>2, <2>6
    <3> QED BY <2>2, <2>3, <2>4, <2>5, <3>1
  <2>7. CASE k # 1
    <3>1. k \in 2 .. Len(x) /\ k - 1 \in 1 .. Len(x) /\ (k - 1) + 1 = k /\ 1 \in 1 .. Len(x)
      BY <1>1, <2>2, <2>7
    <3>2. x[k] # head
      <4>1. x[k] # x[1]
        BY <1>2, <2>2, <2>7, <3>1
      <4> QED BY <1>0, <1>1, <1>2, <2>2, <4>1
    <3>3. y[k] = x[k - 1]
      BY <1>3, <3>1
    <3> QED BY <1>2, <2>2, <2>4, <2>5, <3>1, <3>2, <3>3
  <2> QED BY <2>6, <2>7
<1>9. IsList(mem2, l, p, y)
  <2>1. Len(y) # 0 /\ p = y[1]
    BY <1>1, <1>3
  <2> QED BY <1>3, <1>5, <1>6, <1>7, <1>8, <2>1 DEF IsList
<1>10. NodesIn(y) = NodesIn(x) \cup {p[2]}
  <2>1. 1 \in 1 .. Len(y) /\ \A i \in 1 .. Len(x) : i + 1 \in 1 .. Len(y)
    BY <1>1, <1>3
  <2>2. NodesIn(x) \cup {p[2]} \subseteq NodesIn(y)
    BY <1>3, <2>1 DEF NodesIn
  <2>3. NodesIn(y) \subseteq NodesIn(x) \cup {p[2]}
    BY <1>3, <1>4 DEF NodesIn
  <2> QED BY <2>2, <2>3
<1> QED BY <1>9, <1>10 DEF y

LEMMA PushedShape ==
  ASSUME NEW s, NEW S, Shape(s, S), NEW l \in Heads, NEW n \in Ids, n \notin S[l],
         \A k \in 0 .. 2 : <<l, n, k>> \notin DOMAIN s.memory
  PROVE  /\ Shape(Pushed(s, l, n), [S EXCEPT ![l] = @ \cup {n}])
         /\ \A q \in DOMAIN Pushed(s, l, n).memory : q \in DOMAIN s.memory \/ (q[1] = l /\ q[2] = n)
<1> DEFINE p == Fresh(s.memory, l, n)
           mem == s.memory
           head == s.first[l]
           t == Pushed(s, l, n)
           mem2 == t.memory
           S2 == [S EXCEPT ![l] = @ \cup {n}]
<1>1. /\ p \in Addresses /\ p[1] = l /\ p[2] = n /\ p \notin DOMAIN mem
  <2>1. PICK k \in 0 .. 2 : p = <<l, n, k>>
    <3>1. \E k \in 0 .. 2 : <<l, n, k>> \notin DOMAIN mem
      <4>1. 0 \in 0 .. 2
        OBVIOUS
      <4> QED BY <4>1
    <3> QED BY <3>1 DEF Fresh
  <2> HIDE DEF p
  <2> QED BY <2>1 DEF Addresses
<1> HIDE DEF p
<1>2. /\ t = [memory |-> mem2, first |-> t.first]
      /\ t.first = [s.first EXCEPT ![l] = p]
      /\ DOMAIN mem2 = DOMAIN mem \cup {p}
      /\ mem2[p] = [node |-> n, prev |-> NULL, next |-> head]
      /\ \A q \in DOMAIN mem : mem2[q] = IF q = head THEN [mem[q] EXCEPT !.prev = p] ELSE mem[q]
  BY <1>1 DEF Pushed, p
<1>3. /\ s.first = [h \in Heads |-> s.first[h]] /\ S = [h \in Heads |-> S[h]] /\ MemoryTyped(mem)
      /\ \A h \in Heads : \E x : IsList(mem, h, s.first[h], x) /\ S[h] = NodesIn(x)
  BY DEF Shape
<1> HIDE DEF t, mem2
<1>4. t.first = [h \in Heads |-> t.first[h]] /\ S2 = [h \in Heads |-> S2[h]]
  BY <1>2, <1>3
<1>5. MemoryTyped(mem2)
  <2> SUFFICES ASSUME NEW q \in DOMAIN mem2
               PROVE  q \in Addresses /\ mem2[q] = [node |-> q[2], prev |-> mem2[q].prev, next |-> mem2[q].next]
    BY DEF MemoryTyped
  <2>1. CASE q = p
    BY <1>1, <1>2, <2>1
  <2>2. CASE q \in DOMAIN mem
    <3>1. q \in Addresses /\ mem[q] = [node |-> q[2], prev |-> mem[q].prev, next |-> mem[q].next]
      BY <1>3, <2>2 DEF MemoryTyped
    <3>2. mem2[q] = [node |-> q[2], prev |-> mem2[q].prev, next |-> mem2[q].next]
      <4>1. CASE q = head
        <5>1. mem2[q] = [mem[q] EXCEPT !.prev = p]
          BY <1>2, <2>2, <4>1
        <5>2. mem2[q] = [node |-> q[2], prev |-> p, next |-> mem[q].next]
          BY <3>1, <5>1
        <5> QED BY <5>2
      <4>2. CASE q # head
        BY <1>2, <2>2, <3>1, <4>2
      <4> QED BY <4>1, <4>2
    <3> QED BY <3>1, <3>2
  <2> QED BY <1>2, <2>1, <2>2
<1>6. ASSUME NEW h \in Heads PROVE \E x : IsList(mem2, h, t.first[h], x) /\ S2[h] = NodesIn(x)
  <2>1. PICK x : IsList(mem, h, s.first[h], x) /\ S[h] = NodesIn(x)
    BY <1>3
  <2>2. CASE h = l
    <3>1. IsList(mem2, l, p, <<p>> \o x) /\ NodesIn(<<p>> \o x) = NodesIn(x) \cup {p[2]}
      <4>1. IsList(mem, l, head, x) /\ p[2] \notin NodesIn(x)
        BY <1>1, <2>1, <2>2
      <4>2. InFront(mem, mem2, p, head)
        BY <1>1, <1>2 DEF InFront
      <4> HIDE DEF head, mem
      <4> QED BY <1>1, <1>3, <4>1, <4>2, PushedList
    <3>2. t.first[h] = p /\ S2[h] = S[l] \cup {n}
      BY <1>2, <1>3, <2>2
    <3> QED BY <1>1, <2>1, <2>2, <3>1, <3>2
  <2>3. CASE h # l
    <3>1. t.first[h] = s.first[h] /\ S2[h] = S[h]
      BY <1>2, <1>3, <2>3
    <3>2. ASSUME NEW q \in DOMAIN mem, q[1] = h PROVE q \in DOMAIN mem2 /\ mem2[q] = mem[q]
      <4>1. q # head
        <5>1. PICK y : IsList(mem, l, head, y)
          BY <1>3
        <5>2. head = NULL \/ (Len(y) # 0 /\ head = y[1])
          BY <5>1 DEF IsList
        <5>3. CASE head = NULL
          BY <1>3, <5>3, NullIsNoAddress DEF MemoryTyped
        <5>4. CASE Len(y) # 0 /\ head = y[1]
          <6>1. 1 \in 1 .. Len(y)
            BY <1>3, <5>1, <5>4, ListTyped
          <6>2. head[1] = l
            BY <5>1, <5>4, <6>1 DEF IsList
          <6> QED BY <2>3, <3>2, <6>2
        <5> QED BY <5>2, <5>3, <5>4
      <4> QED BY <1>2, <4>1
    <3>3. IsList(mem2, h, s.first[h], x)
      BY <2>1, <3>2, SameList
    <3> QED BY <2>1, <3>1, <3>3
  <2> QED BY <2>2, <2>3
<1>7. Shape(t, S2)
  BY <1>2, <1>4, <1>5, <1>6 DEF Shape, mem2
<1>8. \A q \in DOMAIN mem2 : q \in DOMAIN mem \/ (q[1] = l /\ q[2] = n)
  BY <1>1, <1>2
<1> QED BY <1>7, <1>8 DEF t, mem2

\* mem2 is mem without the item x[j], the one before it linked to the next.
TakenOut(mem, mem2, x, j) ==
  /\ DOMAIN mem2 = DOMAIN mem \ {x[j]}
  /\ \A q \in DOMAIN mem2 :
       mem2[q] = [node |-> mem[q].node,
                  next |-> IF j # 1 /\ q = x[j - 1] THEN mem[x[j]].next ELSE mem[q].next,
                  prev |-> IF j # 1 /\ q = mem[x[j]].next THEN x[j - 1] ELSE mem[q].prev]

LEMMA TakenOutList ==
  ASSUME NEW mem, MemoryTyped(mem), NEW l, NEW head, NEW x, IsList(mem, l, head, x),
         NEW j \in 1 .. Len(x), NEW mem2, TakenOut(mem, mem2, x, j)
  PROVE  \E y : /\ IsList(mem2, l, IF j = 1 THEN mem[head].next ELSE head, y)
                /\ NodesIn(y) = NodesIn(x) \ {x[j][2]}
<1>1. /\ x \in Seq(DOMAIN mem) /\ Len(x) \in Nat /\ DOMAIN x = 1 .. Len(x)
      /\ \A i \in 1 .. Len(x) : x[i] \in DOMAIN mem /\ x[i] \in Addresses
      /\ NULL \notin DOMAIN mem
  BY ListTyped, NullIsNoAddress DEF MemoryTyped
<1>2. /\ \A i \in 1 .. Len(x) : x[i][1] = l
      /\ \A a, b \in 1 .. Len(x) : x[a][2] = x[b][2] => a = b
      /\ head = IF Len(x) = 0 THEN NULL ELSE x[1]
      /\ \A i \in 1 .. Len(x) : mem[x[i]].next = IF i = Len(x) THEN NULL ELSE x[i + 1]
      /\ \A i \in 2 .. Len(x) : mem[x[i]].prev = x[i - 1]
  BY DEF IsList
<1>3. PICK n \in Nat : n = Len(x)
  BY <1>1
<1>4. n - 1 \in Nat /\ j \in 1 .. n
  BY <1>3
<1> DEFINE old(i) == IF i < j THEN i ELSE i + 1
           y == [i \in 1 .. n - 1 |-> x[old(i)]]
<1>5. ASSUME NEW i \in 1 .. n - 1 PROVE old(i) \in 1 .. n /\ old(i) # j /\ x[old(i)] \in DOMAIN mem2
  <2>1. old(i) \in 1 .. n /\ old(i) # j
    BY <1>4
  <2> HIDE DEF old
  <2>2. x[old(i)] \in DOMAIN mem /\ x[old(i)] # x[j]
    BY <1>1, <1>2, <1>3, <1>4, <2>1
  <2>3. x[old(i)] \in DOMAIN mem2
    BY <2>2 DEF TakenOut
  <2> QED BY <2>1, <2>3
<1>6. /\ y \in Seq(DOMAIN mem2) /\ Len(y) = n - 1
      /\ \A i \in 1 .. n - 1 : y[i] = x[old(i)]
  <2>1. y \in [1 .. n - 1 -> DOMAIN mem2]
    BY <1>5
  <2>2. \A i \in 1 .. n - 1 : y[i] = x[old(i)]
    OBVIOUS
  <2> HIDE DEF y
  <2>3. y \in Seq(DOMAIN mem2)
    BY <1>4, <2>1, SeqDef
  <2>4. Len(y) = n - 1
    BY <1>4, <2>1, <2>3, LenProperties
  <2> QED BY <2>2, <2>3, <2>4
<1> HIDE DEF y
<1>7. \A q \in DOMAIN mem2 :
        /\ q \in DOMAIN mem
        /\ mem2[q].next = IF j # 1 /\ q = x[j - 1] THEN mem[x[j]].next ELSE mem[q].next
        /\ mem2[q].prev = IF j # 1 /\ q = mem[x[j]].next THEN x[j - 1] ELSE mem[q].prev
  <2> TAKE q \in DOMAIN mem2
  <2>1. q \in DOMAIN mem
    BY DEF TakenOut
  <2>2. mem2[q] = [node |-> mem[q].node,
                   next |-> IF j # 1 /\ q = x[j - 1] THEN mem[x[j]].next ELSE mem[q].next,
                   prev |-> IF j # 1 /\ q = mem[x[j]].next THEN x[j - 1] ELSE mem[q].prev]
    BY DEF TakenOut
  <2> QED BY <2>1, <2>2
<1>8. ASSUME NEW i \in 1 .. n - 1 PROVE y[i][1] = l
  <2> HIDE DEF old
  <2> QED BY <1>2, <1>3, <1>5, <1>6
<1>9. ASSUME NEW a \in 1 .. n - 1, NEW b \in 1 .. n - 1, y[a][2] = y[b][2] PROVE a = b
  <2>1. old(a) = old(b)
    <3> HIDE DEF old
    <3>1. x[old(a)][2] = x[old(b)][2]
      BY <1>6, <1>9
    <3>2. old(a) \in 1 .. Len(x) /\ old(b) \in 1 .. Len(x)
      BY <1>3, <1>5
    <3> QED BY <1>2, <3>1, <3>2
  <2> QED BY <1>4, <2>1
<1>10. ASSUME NEW i \in 1 .. n - 1
       PROVE  mem2[y[i]].next = IF i = n - 1 THEN NULL ELSE y[i + 1]
  <2> DEFINE q == x[old(i)]
  <2>1. q = y[i] /\ q \in DOMAIN mem2
    BY <1>5, <1>6
  <2>2. CASE i = j - 1
    <3>1. j # 1 /\ q = x[j - 1] /\ i < j
      BY <1>4, <2>2
    <3> HIDE DEF q
    <3>2. mem2[q].next = mem[x[j]].next
      BY <1>7, <2>1, <3>1
    <3>3. mem[x[j]].next = IF j = n THEN NULL ELSE x[j + 1]
      BY <1>2, <1>3, <1>4
    <3>4. j = n <=> i = n - 1
      BY <1>3, <1>4, <2>2
    <3>5. j # n => y[i + 1] = x[j + 1]
      <4> SUFFICES ASSUME j # n PROVE y[i + 1] = x[j + 1]
        OBVIOUS
      <4>1. i + 1 \in 1 .. n - 1 /\ i + 1 = j /\ old(i + 1) = j + 1
        BY <1>4, <2>2, <3>4
      <4> HIDE DEF old
      <4> QED BY <1>6, <4>1
    <3> QED BY <2>1, <3>2, <3>3, <3>4, <3>5
  <2>3. CASE i # j - 1
    <3>1. j # 1 => x[j - 1] # q
      <4> SUFFICES ASSUME j # 1 PROVE x[j - 1] # x[old(i)]
        OBVIOUS
      <4>1. j - 1 \in 1 .. n /\ old(i) \in 1 .. n /\ j - 1 # old(i)
        BY <1>4, <2>3
      <4> HIDE DEF old
      <4> QED BY <1>2, <1>3, <4>1
    <3>2. mem2[q].next = mem[q].next
      <4> HIDE DEF q
      <4> QED BY <1>7, <2>1, <3>1
    <3>3. mem[q].next = IF old(i) = n THEN NULL ELSE x[old(i) + 1]
      <4> HIDE DEF old
      <4> QED BY <1>2, <1>3, <1>5
    <3>4. old(i) = n <=> i = n - 1
      BY <1>3, <1>4, <2>3
    <3>5. i # n - 1 => y[i + 1] = x[old(i) + 1]
      <4> SUFFICES ASSUME i # n - 1 PROVE y[i + 1] = x[old(i) + 1]
        OBVIOUS
      <4>1. i + 1 \in 1 .. n - 1 /\ old(i + 1) = old(i) + 1
        BY <1>4, <2>3
      <4> HIDE DEF old
      <4> QED BY <1>6, <4>1
    <3> HIDE DEF q, old
    <3> QED BY <2>1, <3>2, <3>3, <3>4, <3>5
  <2> QED BY <2>2, <2>3
<1>11. ASSUME NEW i \in 2 .. n - 1 PROVE mem2[y[i]].prev = y[i - 1]
  <2> DEFINE q == x[old(i)]
  <2>1. i \in 1 .. n - 1 /\ i - 1 \in 1 .. n - 1 /\ old(i) \in 2 .. n
    BY <1>3, <1>4
  <2>2. q = y[i] /\ q \in DOMAIN mem2 /\ y[i - 1] = x[old(i - 1)]
    BY <1>5, <1>6, <2>1
  <2>3. CASE i = j
    <3>1. j # 1 /\ j # n /\ q = x[j + 1] /\ old(i - 1) = j - 1
      BY <1>4, <2>3
    <3>2. mem[x[j]].next = x[j + 1]
      BY <1>2, <1>3, <1>4, <3>1
    <3> HIDE DEF q, old
    <3> QED BY <1>7, <2>2, <3>1, <3>2
  <2>4. CASE i # j
    <3>1. old(i - 1) = old(i) - 1
      BY <1>4, <2>4
    <3>2. j # 1 => q # mem[x[j]].next
      <4> SUFFICES ASSUME j # 1 PROVE x[old(i)] # mem[x[j]].next
        OBVIOUS
      <4>1. CASE j = n
        <5>1. mem[x[j]].next = NULL
          BY <1>2, <1>3, <1>4, <4>1
        <5> HIDE DEF old
        <5> QED BY <1>1, <1>3, <1>5, <2>1, <5>1
      <4>2. CASE j # n
        <5>1. mem[x[j]].next = x[j + 1]
          BY <1>2, <1>3, <1>4, <4>2
        <5>2. j + 1 \in 1 .. n /\ old(i) \in 1 .. n /\ old(i) # j + 1
          BY <1>4, <2>4, <4>2
        <5> HIDE DEF old
        <5>3. x[old(i)] # x[j + 1]
          BY <1>2, <1>3, <5>2
        <5> QED BY <5>1, <5>3
      <4> QED BY <4>1, <4>2
    <3> HIDE DEF q, old
    <3>3. mem2[q].prev = mem[q].prev
      BY <1>7, <2>2, <3>2
    <3>4. mem[q].prev = x[old(i) - 1]
      BY <1>2, <1>3, <2>1 DEF q
    <3> QED BY <2>2, <3>1, <3>3, <3>4
  <2> QED BY <2>3, <2>4
<1>12. (IF j = 1 THEN mem[head].next ELSE head) = IF n - 1 = 0 THEN NULL ELSE y[1]
  <2>1. 1 \in 1 .. n /\ head = x[1]
    BY <1>2, <1>3, <1>4
  <2>2. mem[x[1]].next = IF n = 1 THEN NULL ELSE x[1 + 1]
    BY <1>2, <1>3, <2>1
  <2>3. CASE n = 1
    <3>1. j = 1 /\ n - 1 = 0
      BY <1>4, <2>3
    <3> QED BY <2>1, <2>2, <2>3, <3>1
  <2>4. CASE n # 1
    <3>1. 1 \in 1 .. n - 1 /\ n - 1 # 0
      BY <1>3, <1>4, <2>4
    <3>2. y[1] = x[old(1)]
      BY <1>6, <3>1
    <3>3. old(1) = IF j = 1 THEN 1 + 1 ELSE 1
      BY <1>4
    <3> HIDE DEF old
    <3> QED BY <2>1, <2>2, <2>4, <3>1, <3>2, <3>3
  <2> QED BY <2>3, <2>4
<1>13. IsList(mem2, l, IF j = 1 THEN mem[head].next ELSE head, y)
  BY <1>6, <1>8, <1>9, <1>10, <1>11, <1>12 DEF IsList
<1>14. NodesIn(y) = NodesIn(x) \ {x[j][2]}
  <2>1. NodesIn(y) \subseteq NodesIn(x) \ {x[j][2]}
    <3> SUFFICES ASSUME NEW i \in 1 .. n - 1 PROVE y[i][2] \in NodesIn(x) \ {x[j][2]}
      BY <1>6 DEF NodesIn
    <3> HIDE DEF old
    <3> QED BY <1>2, <1>3, <1>4, <1>5, <1>6 DEF NodesIn
  <2>2. ASSUME NEW i \in 1 .. n, i # j PROVE x[i][2] \in NodesIn(y)
    <3> DEFINE k == IF i < j THEN i ELSE i - 1
    <3>1. k \in 1 .. n - 1 /\ old(k) = i
      BY <1>4, <2>2
    <3> HIDE DEF old, k
    <3> QED BY <1>6, <3>1 DEF NodesIn
  <2> QED BY <1>3, <2>1, <2>2 DEF NodesIn
<1> QED BY <1>13, <1>14

\* The item of a node in a list that holds it.
LEMMA ItemIs ==
  ASSUME NEW mem, MemoryTyped(mem), NEW l, NEW head, NEW x, IsList(mem, l, head, x),
         NEW j \in 1 .. Len(x)
  PROVE  ItemOf(mem, head, x[j][2]) = x[j]
<1>1. ListItems(mem, head) = x
  BY ItemsAre
<1>2. /\ Len(x) \in Nat /\ DOMAIN x = 1 .. Len(x)
      /\ \A i \in 1 .. Len(x) : mem[x[i]].node = x[i][2]
      /\ \A a, b \in 1 .. Len(x) : x[a][2] = x[b][2] => a = b
  <2>1. Len(x) \in Nat /\ DOMAIN x = 1 .. Len(x) /\ \A i \in 1 .. Len(x) : mem[x[i]].node = x[i][2]
    BY ListTyped
  <2> QED BY <2>1 DEF IsList
<1> DEFINE FirstFound(i) == mem[x[i]].node = x[j][2] /\ \A k \in 1 .. i - 1 : mem[x[k]].node # x[j][2]
<1>3. FirstFound(j)
  <2>1. \A k \in 1 .. j - 1 : k \in 1 .. Len(x) /\ k # j
    BY <1>2
  <2> QED BY <1>2, <2>1
<1>4. \A i \in 1 .. Len(x) : FirstFound(i) => i = j
  BY <1>2
<1>5. ItemOf(mem, head, x[j][2]) = x[CHOOSE i \in 1 .. Len(x) : FirstFound(i)]
  BY <1>1, <1>2 DEF ItemOf
<1> HIDE DEF FirstFound
<1> QED BY <1>3, <1>4, <1>5

\* remove_node_from_graph, for one list that holds the node.
LEMMA DroppedShape ==
  ASSUME NEW s, NEW S, Shape(s, S), NEW l \in Heads, NEW n \in S[l]
  PROVE  Shape(Dropped(s, l, n), [S EXCEPT ![l] = @ \ {n}])
<1> DEFINE mem == s.memory
           head == s.first[l]
           t == Dropped(s, l, n)
           S2 == [S EXCEPT ![l] = @ \ {n}]
<1>1. /\ s.first = [h \in Heads |-> s.first[h]] /\ S = [h \in Heads |-> S[h]] /\ MemoryTyped(mem)
      /\ \A h \in Heads : \E x : IsList(mem, h, s.first[h], x) /\ S[h] = NodesIn(x)
  BY DEF Shape
<1>2. PICK x : IsList(mem, l, head, x) /\ S[l] = NodesIn(x)
  BY <1>1
<1>3. PICK j \in 1 .. Len(x) : x[j][2] = n
  BY <1>2 DEF NodesIn
<1>4. /\ Len(x) \in Nat /\ \A i \in 1 .. Len(x) : x[i] \in DOMAIN mem /\ mem[x[i]].node = x[i][2]
      /\ head = x[1] /\ 1 \in 1 .. Len(x)
      /\ \A a, b \in 1 .. Len(x) : x[a][2] = x[b][2] => a = b
      /\ \A i \in 1 .. Len(x) : mem[x[i]].next = IF i = Len(x) THEN NULL ELSE x[i + 1]
      /\ \A i \in 2 .. Len(x) : mem[x[i]].prev = x[i - 1]
      /\ \A i \in 1 .. Len(x) : x[i][1] = l
  <2>1. Len(x) \in Nat /\ \A i \in 1 .. Len(x) : x[i] \in DOMAIN mem /\ mem[x[i]].node = x[i][2]
    BY <1>1, <1>2, ListTyped
  <2>2. 1 \in 1 .. Len(x) /\ Len(x) # 0
    BY <1>3, <2>1
  <2> HIDE DEF mem, head
  <2> QED BY <1>2, <2>1, <2>2 DEF IsList
<1>5. ItemOf(mem, head, n) = x[j]
  BY <1>1, <1>2, <1>3, ItemIs
<1>6. mem[head].node = n <=> j = 1
  BY <1>3, <1>4
<1>7. /\ t = [memory |-> t.memory, first |-> t.first]
      /\ TakenOut(mem, t.memory, x, j)
      /\ t.first = IF j = 1 THEN [s.first EXCEPT ![l] = mem[head].next] ELSE s.first
  <2>1. CASE j = 1
    <3>1. t = [memory |-> Without(mem, head), first |-> [s.first EXCEPT ![l] = mem[head].next]]
      BY <1>6, <2>1 DEF Dropped
    <3>2. TakenOut(mem, Without(mem, head), x, j)
      <4>1. DOMAIN Without(mem, head) = DOMAIN mem \ {x[j]}
        BY <1>4, <2>1 DEF Without
      <4>2. ASSUME NEW q \in DOMAIN Without(mem, head)
            PROVE  Without(mem, head)[q] = [node |-> mem[q].node, next |-> mem[q].next, prev |-> mem[q].prev]
        <5>1. q \in DOMAIN mem /\ Without(mem, head)[q] = mem[q]
          BY DEF Without
        <5>2. mem[q] = [node |-> q[2], prev |-> mem[q].prev, next |-> mem[q].next]
          BY <1>1, <5>1 DEF MemoryTyped
        <5> QED BY <5>1, <5>2
      <4> HIDE DEF mem, head
      <4> QED BY <2>1, <4>1, <4>2 DEF TakenOut
    <3> HIDE DEF t
    <3> QED BY <2>1, <3>1, <3>2
  <2>2. CASE j # 1
    <3>1. t = [memory |-> Unlinked(mem, x[j]), first |-> s.first]
      BY <1>5, <1>6, <2>2 DEF Dropped
    <3>2. mem[x[j]].prev = x[j - 1]
      <4>1. j \in 2 .. Len(x)
        BY <1>4, <2>2
      <4> QED BY <1>4, <4>1
    <3>3. TakenOut(mem, Unlinked(mem, x[j]), x, j)
      BY <2>2, <3>2 DEF TakenOut, Unlinked, Without
    <3> HIDE DEF t
    <3> QED BY <2>2, <3>1, <3>3
  <2> QED BY <2>1, <2>2
<1>8. \E y : IsList(t.memory, l, t.first[l], y) /\ S2[l] = NodesIn(y)
  <2> HIDE DEF t, mem, head
  <2>1. PICK y : /\ IsList(t.memory, l, IF j = 1 THEN mem[head].next ELSE head, y)
                 /\ NodesIn(y) = NodesIn(x) \ {x[j][2]}
    BY <1>1, <1>2, <1>7, TakenOutList
  <2>2. t.first[l] = IF j = 1 THEN mem[head].next ELSE head
    BY <1>1, <1>7 DEF head
  <2>3. S2[l] = NodesIn(x) \ {x[j][2]}
    BY <1>1, <1>2, <1>3
  <2> QED BY <2>1, <2>2, <2>3
<1>9. ASSUME NEW h \in Heads, h # l PROVE \E y : IsList(t.memory, h, t.first[h], y) /\ S2[h] = NodesIn(y)
  <2> HIDE DEF t
  <2>1. PICK y : IsList(mem, h, s.first[h], y) /\ S[h] = NodesIn(y)
    BY <1>1
  <2>2. t.first[h] = s.first[h] /\ S2[h] = S[h]
    BY <1>1, <1>7, <1>9
  <2>3. ASSUME NEW q \in DOMAIN mem, q[1] = h PROVE q \in DOMAIN t.memory /\ t.memory[q] = mem[q]
    <3>1. \A i \in 1 .. Len(x) : q # x[i]
      BY <1>4, <1>9, <2>3
    <3>2. mem[q] = [node |-> q[2], prev |-> mem[q].prev, next |-> mem[q].next]
      BY <1>1 DEF MemoryTyped
    <3>3. q \in DOMAIN t.memory
      BY <1>7, <3>1 DEF TakenOut
    <3>4. j # 1 => q # x[j - 1]
      <4>1. j # 1 => j - 1 \in 1 .. Len(x)
        BY <1>4
      <4> QED BY <3>1, <4>1
    <3>5. q # mem[x[j]].next
      <4>1. CASE j = Len(x)
        <5>1. mem[x[j]].next = NULL
          BY <1>4, <4>1
        <5> QED BY <1>1, <5>1, NullIsNoAddress DEF MemoryTyped
      <4>2. CASE j # Len(x)
        <5>1. mem[x[j]].next = x[j + 1] /\ j + 1 \in 1 .. Len(x)
          BY <1>4, <4>2
        <5> QED BY <3>1, <5>1
      <4> QED BY <4>1, <4>2
    <3>6. t.memory[q] = [node |-> mem[q].node, next |-> mem[q].next, prev |-> mem[q].prev]
      <4> HIDE DEF mem
      <4> QED BY <1>7, <3>3, <3>4, <3>5 DEF TakenOut
    <3>7. t.memory[q] = mem[q]
      <4> HIDE DEF mem
      <4> QED BY <3>2, <3>6
    <3> QED BY <3>3, <3>7
  <2> HIDE DEF mem
  <2>4. IsList(t.memory, h, s.first[h], y)
    BY <2>1, <2>3, SameList
  <2> QED BY <2>1, <2>2, <2>4
<1>10. MemoryTyped(t.memory)
  <2> HIDE DEF t
  <2> SUFFICES ASSUME NEW q \in DOMAIN t.memory
               PROVE  q \in Addresses /\ t.memory[q] = [node |-> q[2], prev |-> t.memory[q].prev, next |-> t.memory[q].next]
    BY DEF MemoryTyped
  <2>1. q \in DOMAIN mem
    BY <1>7 DEF TakenOut
  <2>2. q \in Addresses /\ mem[q] = [node |-> q[2], prev |-> mem[q].prev, next |-> mem[q].next]
    BY <1>1, <2>1 DEF MemoryTyped
  <2> HIDE DEF mem
  <2>3. mem[q].node = q[2]
    BY <2>2
  <2> DEFINE next == IF j # 1 /\ q = x[j - 1] THEN mem[x[j]].next ELSE mem[q].next
             prev == IF j # 1 /\ q = mem[x[j]].next THEN x[j - 1] ELSE mem[q].prev
  <2>4. t.memory[q] = [node |-> q[2], next |-> next, prev |-> prev]
    BY <1>7, <2>3 DEF TakenOut
  <2> HIDE DEF next, prev
  <2> QED BY <2>2, <2>4
<1>11. t.first = [h \in Heads |-> t.first[h]] /\ S2 = [h \in Heads |-> S2[h]]
  <2> HIDE DEF t
  <2> QED BY <1>1, <1>7
<1> HIDE DEF t, S2
<1> QED BY <1>7, <1>8, <1>9, <1>10, <1>11 DEF Shape, t, S2

\* The loop of remove_node_from_graph over the neighbours, up to the k-th.
After(f, s, neighbors, n, k) ==
  f = [i \in 0 .. k |-> IF i = 0 THEN s ELSE Dropped(f[i - 1], neighbors[i], n)]

LEMMA AfterDefined ==
  ASSUME NEW s, NEW neighbors, NEW n
  PROVE  \A k \in Nat : \E f : After(f, s, neighbors, n, k)
<1> DEFINE T == {k \in Nat : \E f : After(f, s, neighbors, n, k)}
<1>1. 0 \in T
  <2> DEFINE f == [i \in 0 .. 0 |-> s]
  <2>1. f = [i \in 0 .. 0 |-> IF i = 0 THEN s ELSE Dropped(f[i - 1], neighbors[i], n)]
    OBVIOUS
  <2> QED BY <2>1 DEF After
<1>2. ASSUME NEW k \in Nat, k \in T PROVE k + 1 \in T
  <2>1. PICK f : After(f, s, neighbors, n, k)
    BY <1>2
  <2>2. \A i \in 0 .. k : f[i] = IF i = 0 THEN s ELSE Dropped(f[i - 1], neighbors[i], n)
    BY <2>1 DEF After
  <2> DEFINE g == [i \in 0 .. k + 1 |-> IF i \in 0 .. k THEN f[i] ELSE Dropped(f[k], neighbors[i], n)]
             step(i) == IF i = 0 THEN s ELSE Dropped(g[i - 1], neighbors[i], n)
  <2>3. ASSUME NEW i \in 0 .. k + 1 PROVE g[i] = step(i)
    <3>1. CASE i = 0
      BY <2>2, <3>1
    <3>2. CASE i # 0
      <4>1. i - 1 \in 0 .. k /\ g[i - 1] = f[i - 1]
        BY <3>2
      <4>2. CASE i \in 0 .. k
        <5>1. g[i] = f[i]
          BY <4>2
        <5> HIDE DEF g
        <5> QED BY <2>2, <3>2, <4>1, <4>2, <5>1
      <4>3. CASE i \notin 0 .. k
        <5>1. g[i] = Dropped(f[k], neighbors[i], n) /\ i - 1 = k
          BY <4>3
        <5> HIDE DEF g
        <5> QED BY <3>2, <4>1, <5>1
      <4> QED BY <4>2, <4>3
    <3> QED BY <3>1, <3>2
  <2>4. g = [i \in 0 .. k + 1 |-> g[i]]
    OBVIOUS
  <2> HIDE DEF g
  <2>5. g = [i \in 0 .. k + 1 |-> step(i)]
    BY <2>3, <2>4
  <2> QED BY <2>5 DEF After
<1> HIDE DEF T
<1>3. \A k \in Nat : k \in T
  BY <1>1, <1>2, SetInduction
<1> QED BY <1>3 DEF T

\* The neighbours lose n, each in its own list.
LEMMA DisconnectedShape ==
  ASSUME NEW s, NEW S, Shape(s, S), NEW n, NEW neighbors \in Seq(Ids),
         \A i, j \in 1 .. Len(neighbors) : neighbors[i] = neighbors[j] => i = j,
         \A i \in 1 .. Len(neighbors) : n \in S[neighbors[i]]
  PROVE  Shape(Disconnected(s, neighbors, n),
               [l \in Heads |-> IF \E i \in 1 .. Len(neighbors) : neighbors[i] = l
                                THEN S[l] \ {n} ELSE S[l]])
<1>1. PICK N \in Nat : N = Len(neighbors)
  OBVIOUS
<1> DEFINE after == CHOOSE f : After(f, s, neighbors, n, N)
           Left(k) == [l \in Heads |-> IF \E i \in 1 .. k : neighbors[i] = l THEN S[l] \ {n} ELSE S[l]]
           T == {k \in Nat : k <= N => Shape(after[k], Left(k))}
<1>2. After(after, s, neighbors, n, N)
  BY AfterDefined
<1>3. Disconnected(s, neighbors, n) = after[N]
  BY <1>1 DEF Disconnected, After
<1> HIDE DEF after
<1>4. \A k \in 0 .. N : after[k] = IF k = 0 THEN s ELSE Dropped(after[k - 1], neighbors[k], n)
  BY <1>2 DEF After
<1>5. 0 \in T
  <2>1. after[0] = s
    BY <1>4
  <2>2. Left(0) = S
    <3>1. S = [l \in Heads |-> S[l]]
      BY DEF Shape
    <3>2. \A l \in Heads : Left(0)[l] = S[l]
      OBVIOUS
    <3> QED BY <3>1, <3>2
  <2> HIDE DEF Left
  <2> QED BY <2>1, <2>2
<1>6. ASSUME NEW k \in Nat, k \in T PROVE k + 1 \in T
  <2> SUFFICES ASSUME k + 1 <= N PROVE Shape(after[k + 1], Left(k + 1))
    OBVIOUS
  <2>1. k + 1 \in 1 .. N /\ k <= N /\ k + 1 \in 0 .. N /\ (k + 1) - 1 = k /\ k + 1 # 0
    BY <1>1
  <2> DEFINE l == neighbors[k + 1]
  <2>2. l \in Heads /\ n \in S[l]
    BY <1>1, <2>1 DEF Heads
  <2>3. n \in Left(k)[l]
    <3>1. \A i \in 1 .. k : neighbors[i] # l
      <4> TAKE i \in 1 .. k
      <4>1. i \in 1 .. N /\ i # k + 1
        BY <1>1, <2>1
      <4> QED BY <1>1, <2>1, <4>1
    <3> HIDE DEF l
    <3> QED BY <2>2, <3>1
  <2>4. Shape(after[k], Left(k))
    BY <1>6, <2>1
  <2>5. after[k + 1] = Dropped(after[k], l, n)
    BY <1>4, <2>1
  <2>6. Left(k + 1) = [Left(k) EXCEPT ![l] = @ \ {n}]
    <3>1. ASSUME NEW h \in Heads
          PROVE  Left(k + 1)[h] = IF h = l THEN Left(k)[h] \ {n} ELSE Left(k)[h]
      <4>1. \A i \in 1 .. k + 1 : i \in 1 .. k \/ i = k + 1
        OBVIOUS
      <4>2. \A i \in 1 .. k : i \in 1 .. k + 1
        OBVIOUS
      <4>3. k + 1 \in 1 .. k + 1
        OBVIOUS
      <4>4. (\E i \in 1 .. k + 1 : neighbors[i] = h) <=> h = l \/ \E i \in 1 .. k : neighbors[i] = h
        BY <4>1, <4>2, <4>3
      <4> HIDE DEF l
      <4> QED BY <4>4
    <3> HIDE DEF l
    <3>2. /\ Left(k + 1) = [h \in Heads |-> Left(k + 1)[h]]
          /\ Left(k) = [h \in Heads |-> Left(k)[h]]
      OBVIOUS
    <3> HIDE DEF Left
    <3> QED BY <2>2, <3>1, <3>2
  <2> HIDE DEF Left, l
  <2>7. Shape(Dropped(after[k], l, n), [Left(k) EXCEPT ![l] = @ \ {n}])
    BY <2>2, <2>3, <2>4, DroppedShape
  <2> QED BY <2>5, <2>6, <2>7
<1> HIDE DEF T
<1>7. N \in T
  BY <1>1, <1>5, <1>6, SetInduction
<1> QED BY <1>1, <1>3, <1>7 DEF T

\* A node forgets its own list, whose items stay in memory.
LEMMA ForgottenShape ==
  ASSUME NEW s, NEW S, Shape(s, S), NEW n \in Heads
  PROVE  Shape([memory |-> s.memory, first |-> [s.first EXCEPT ![n] = NULL]], [S EXCEPT ![n] = {}])
<1> DEFINE fst == [s.first EXCEPT ![n] = NULL]
           S2 == [S EXCEPT ![n] = {}]
<1>1. /\ s.first = [h \in Heads |-> s.first[h]] /\ S = [h \in Heads |-> S[h]] /\ MemoryTyped(s.memory)
      /\ \A h \in Heads : \E x : IsList(s.memory, h, s.first[h], x) /\ S[h] = NodesIn(x)
  BY DEF Shape
<1>2. fst = [h \in Heads |-> fst[h]] /\ S2 = [h \in Heads |-> S2[h]]
  BY <1>1
<1>3. ASSUME NEW h \in Heads PROVE \E x : IsList(s.memory, h, fst[h], x) /\ S2[h] = NodesIn(x)
  <2>1. CASE h = n
    <3>1. fst[h] = NULL /\ S2[h] = {}
      BY <1>1, <2>1
    <3>2. IsList(s.memory, h, NULL, <<>>) /\ NodesIn(<<>>) = {}
      BY DEF IsList, NodesIn
    <3> QED BY <3>1, <3>2
  <2>2. CASE h # n
    <3>1. fst[h] = s.first[h] /\ S2[h] = S[h]
      BY <1>1, <2>2
    <3> QED BY <1>1, <3>1
  <2> QED BY <2>1, <2>2
<1> HIDE DEF fst, S2
<1>4. Shape([memory |-> s.memory, first |-> fst], S2)
  BY <1>1, <1>2, <1>3 DEF Shape
<1> QED BY <1>4 DEF fst, S2

\* prev of the first item of a list does not matter.
LEMMA HeadShape ==
  ASSUME NEW s, NEW S, Shape(s, S), NEW l \in Heads, NEW mem2,
         mem2 = [s.memory EXCEPT ![s.first[l]].prev = NULL]
  PROVE  Shape([memory |-> mem2, first |-> s.first], S)
<1> DEFINE mem == s.memory
           head == s.first[l]
<1>1. /\ s.first = [h \in Heads |-> s.first[h]] /\ S = [h \in Heads |-> S[h]] /\ MemoryTyped(mem)
      /\ \A h \in Heads : \E x : IsList(mem, h, s.first[h], x) /\ S[h] = NodesIn(x)
  BY DEF Shape
<1>2. /\ DOMAIN mem2 = DOMAIN mem
      /\ \A q \in DOMAIN mem : mem2[q] = IF q = head THEN [mem[q] EXCEPT !.prev = NULL] ELSE mem[q]
  OBVIOUS
<1> HIDE DEF mem, head
<1>3. ASSUME NEW q \in DOMAIN mem
      PROVE  /\ q \in Addresses
             /\ mem2[q] = [node |-> q[2], prev |-> mem2[q].prev, next |-> mem2[q].next]
             /\ mem2[q].next = mem[q].next
             /\ q # head => mem2[q] = mem[q]
  <2>1. q \in Addresses /\ mem[q] = [node |-> q[2], prev |-> mem[q].prev, next |-> mem[q].next]
    BY <1>1 DEF MemoryTyped
  <2>2. CASE q = head
    <3>1. mem2[q] = [mem[q] EXCEPT !.prev = NULL]
      BY <1>2, <2>2
    <3>2. mem2[q] = [node |-> q[2], prev |-> NULL, next |-> mem[q].next]
      BY <2>1, <3>1
    <3> QED BY <2>1, <2>2, <3>2
  <2>3. CASE q # head
    <3>1. mem2[q] = mem[q]
      BY <1>2, <2>3
    <3> QED BY <2>1, <3>1
  <2> QED BY <2>2, <2>3
<1>4. MemoryTyped(mem2)
  BY <1>2, <1>3 DEF MemoryTyped
<1>5. ASSUME NEW h \in Heads PROVE \E x : IsList(mem2, h, s.first[h], x) /\ S[h] = NodesIn(x)
  <2>1. PICK x : IsList(mem, h, s.first[h], x) /\ S[h] = NodesIn(x)
    BY <1>1
  <2>2. PICK y : IsList(mem, l, head, y)
    BY <1>1 DEF head
  <2>3. /\ x \in Seq(DOMAIN mem) /\ Len(x) \in Nat
        /\ \A i \in 1 .. Len(x) : x[i] \in DOMAIN mem /\ x[i][1] = h
        /\ \A i, j \in 1 .. Len(x) : x[i][2] = x[j][2] => i = j
        /\ s.first[h] = IF Len(x) = 0 THEN NULL ELSE x[1]
        /\ \A i \in 1 .. Len(x) : mem[x[i]].next = IF i = Len(x) THEN NULL ELSE x[i + 1]
        /\ \A i \in 2 .. Len(x) : mem[x[i]].prev = x[i - 1]
    BY <2>1 DEF IsList
  <2>4. ASSUME NEW i \in 2 .. Len(x) PROVE x[i] # head
    <3>1. i \in 1 .. Len(x) /\ 1 \in 1 .. Len(x) /\ i # 1 /\ Len(x) # 0
      BY <2>3
    <3>2. CASE h = l
      <4>1. head = x[1]
        BY <2>3, <3>1, <3>2 DEF head
      <4> QED BY <2>3, <3>1, <4>1
    <3>3. CASE h # l
      <4>1. head = NULL \/ head[1] = l
        <5>1. Len(y) \in Nat
          BY <1>1, <2>2, ListTyped
        <5>2. Len(y) # 0 => 1 \in 1 .. Len(y)
          BY <5>1
        <5> QED BY <2>2, <5>2 DEF IsList
      <4>2. x[i][1] = h /\ x[i] # NULL
        BY <1>1, <2>3, <3>1, NullIsNoAddress DEF MemoryTyped
      <4> QED BY <3>3, <4>1, <4>2
    <3> QED BY <3>2, <3>3
  <2>5. \A i \in 1 .. Len(x) : mem2[x[i]].next = mem[x[i]].next
    BY <1>3, <2>3
  <2>6. \A i \in 2 .. Len(x) : mem2[x[i]].prev = mem[x[i]].prev
    <3> TAKE i \in 2 .. Len(x)
    <3>1. x[i] \in DOMAIN mem
      BY <2>3
    <3> QED BY <1>3, <2>4, <3>1
  <2>7. IsList(mem2, h, s.first[h], x)
    BY <1>2, <2>3, <2>5, <2>6 DEF IsList
  <2> QED BY <2>1, <2>7
<1> QED BY <1>1, <1>4, <1>5 DEF Shape

-----------------------------------------------------------------------------
\* The lists hold a simple graph: its nodes, and for each those at the other
\* ends of its edges.  Until the first removal the set of neighbours and
\* memory hold nothing else.
IsGraph(S) ==
  /\ \A n \in Ids : S[n] \subseteq S[Graph] \ {n}
  /\ \A n \in Ids : n \notin S[Graph] => S[n] = {}
  /\ \A m, n \in Ids : m \in S[n] <=> n \in S[m]
Counted(S, num, rem) ==
  /\ num = [n \in Ids |-> num[n]]
  /\ \A n \in Ids : n \in S[Graph] \/ ~rem => num[n] = Cardinality(S[n])
Recorded(S, set, mem) ==
  /\ set = [n \in Ids |-> S[n]]
  /\ \A p \in DOMAIN mem : p[2] \in S[p[1]]

Holds(S) ==
  /\ Shape(Current, S) /\ IsGraph(S) /\ removing \in BOOLEAN
  /\ Counted(S, num_neighbors, removing)
  /\ ~removing => Recorded(S, neighbor_set, memory)

ListsInv == \E S : Holds(S)

\* What the refinement mapping sees of node n.
Looks(mem, fst, num, S, n) ==
  /\ ToSet(NodesOf(mem, fst[Graph])) = S[Graph]
  /\ ToSet(NodesOf(mem, fst[n])) = S[n]
  /\ (IF n \notin S[Graph] THEN 0
      ELSE IF num[n] = Len(NodesOf(mem, fst[n])) THEN num[n] ELSE -1) = Cardinality(S[n])

LEMMA Mapped ==
  ASSUME NEW mem, NEW fst, NEW num, NEW S, Shape([memory |-> mem, first |-> fst], S),
         IsGraph(S), NEW rem, Counted(S, num, rem), NEW n \in Ids
  PROVE  Looks(mem, fst, num, S, n)
<1> DEFINE s == [memory |-> mem, first |-> fst]
<1>1. n \in Heads /\ Graph \in Heads /\ s.memory = mem /\ s.first = fst
  BY DEF Heads
<1>2. Shape(s, S)
  OBVIOUS
<1> HIDE DEF s
<1>3. /\ ToSet(NodesOf(mem, fst[Graph])) = S[Graph]
      /\ ToSet(NodesOf(mem, fst[n])) = S[n]
      /\ Len(NodesOf(mem, fst[n])) = Cardinality(S[n])
  BY <1>1, <1>2, ListView
<1>4. n \notin S[Graph] => Cardinality(S[n]) = 0
  BY FS_EmptySet DEF IsGraph
<1>5. n \in S[Graph] => num[n] = Cardinality(S[n])
  BY DEF Counted
<1> QED BY <1>3, <1>4, <1>5 DEF Looks

Adjacent(S) == [n \in Ids |-> S[n]]
Degrees(S) == [n \in Ids |-> Cardinality(S[n])]

LEMMA Seen ==
  ASSUME NEW S, Holds(S)
  PROVE  /\ ListNodes(Graph) = S[Graph]
         /\ [n \in Ids |-> ListNodes(n)] = Adjacent(S)
         /\ [n \in Ids |-> Degree(n)] = Degrees(S)
         /\ \A n \in Ids : IsIn(n, Graph) <=> n \in S[Graph]
<1>1. Shape([memory |-> memory, first |-> first], S) /\ IsGraph(S) /\ Counted(S, num_neighbors, removing)
  BY DEF Holds, Current
<1>2. ListNodes(Graph) = S[Graph] /\ \A n \in Ids : n \in ToSet(NodesOf(memory, first[Graph])) <=> n \in S[Graph]
  <2> DEFINE s == [memory |-> memory, first |-> first]
  <2>1. Shape(s, S) /\ Graph \in Heads /\ s.memory = memory /\ s.first = first
    BY <1>1 DEF Heads
  <2> HIDE DEF s
  <2>2. ToSet(NodesOf(memory, first[Graph])) = S[Graph]
    BY <2>1, ListView
  <2> QED BY <2>2 DEF ListNodes
<1>3. ASSUME NEW n \in Ids PROVE ListNodes(n) = S[n] /\ Degree(n) = Cardinality(S[n])
  <2>1. Counted(S, num_neighbors, removing)
    BY <1>1
  <2>2. Looks(memory, first, num_neighbors, S, n)
    BY <1>1, <2>1, Mapped
  <2> QED BY <1>2, <2>2 DEF Looks, ListNodes, Degree
<1>4. \A n : Contains(NodesOf(memory, first[Graph]), n) <=> n \in ToSet(NodesOf(memory, first[Graph]))
  <2>1. NodesOf(memory, first[Graph]) \in Seq(Ids)
    <3> DEFINE s == [memory |-> memory, first |-> first]
    <3>1. Shape(s, S) /\ Graph \in Heads /\ s.memory = memory /\ s.first = first
      BY <1>1 DEF Heads
    <3> HIDE DEF s
    <3> QED BY <3>1, ListView
  <2> QED BY <2>1 DEF Contains, ToSet
<1> QED BY <1>2, <1>3, <1>4 DEF Adjacent, Degrees, IsIn

LEMMA SeenNext ==
  ASSUME NEW S, IsGraph(S), Shape(Current', S), NEW rem, Counted(S, num_neighbors', rem)
  PROVE  /\ ListNodes(Graph)' = S[Graph]
         /\ [n \in Ids |-> ListNodes(n)]' = Adjacent(S)
         /\ [n \in Ids |-> Degree(n)]' = Degrees(S)
<1>1. Shape([memory |-> memory', first |-> first'], S)
  BY DEF Current
<1>2. ToSet(NodesOf(memory', first'[Graph])) = S[Graph]
  <2> DEFINE s == [memory |-> memory', first |-> first']
  <2>1. Shape(s, S) /\ Graph \in Heads /\ s.memory = memory' /\ s.first = first'
    BY <1>1 DEF Heads
  <2> HIDE DEF s
  <2> QED BY <2>1, ListView
<1>3. ASSUME NEW n \in Ids PROVE ListNodes(n)' = S[n] /\ Degree(n)' = Cardinality(S[n])
  <2>1. Counted(S, num_neighbors', rem)
    BY <1>1
  <2>2. Looks(memory', first', num_neighbors', S, n)
    BY <1>1, <2>1, Mapped
  <2> QED BY <1>2, <2>2 DEF Looks, ListNodes, Degree
<1> QED BY <1>2, <1>3 DEF Adjacent, Degrees, ListNodes

LEMMA InitSimple == InitLists => ListsInv /\ SimpleGraphs!Init
<1> SUFFICES ASSUME InitLists PROVE ListsInv /\ SimpleGraphs!Init
  OBVIOUS
<1> DEFINE S == [l \in Heads |-> {}]
<1>1. Shape(Current, S)
  <2>1. MemoryTyped(<<>>)
    BY DEF MemoryTyped
  <2>2. \A l \in Heads : IsList(<<>>, l, NULL, <<>>) /\ NodesIn(<<>>) = {}
    BY DEF IsList, NodesIn
  <2>3. memory = <<>> /\ first = [l \in Heads |-> NULL]
    BY DEF InitLists, Heads
  <2> QED BY <2>1, <2>2, <2>3 DEF Shape, Current
<1>2. \A n \in Ids : n \in Heads
  BY DEF Heads
<1>3. Graph \in Heads
  BY DEF Heads
<1>4. IsGraph(S)
  BY <1>2, <1>3 DEF IsGraph
<1>5. Counted(S, num_neighbors, removing)
  BY <1>2, FS_EmptySet DEF Counted, InitLists
<1>6. Recorded(S, neighbor_set, memory)
  BY <1>2 DEF Recorded, InitLists
<1>7. Holds(S)
  BY <1>1, <1>4, <1>5, <1>6 DEF Holds, InitLists
<1>8. /\ ListNodes(Graph) = {} /\ [n \in Ids |-> ListNodes(n)] = [n \in Ids |-> {}]
      /\ [n \in Ids |-> Degree(n)] = [n \in Ids |-> 0]
  <2> HIDE DEF S
  <2>1. /\ ListNodes(Graph) = S[Graph] /\ [n \in Ids |-> ListNodes(n)] = Adjacent(S)
        /\ [n \in Ids |-> Degree(n)] = Degrees(S)
    BY <1>7, Seen
  <2>2. S[Graph] = {} /\ \A n \in Ids : S[n] = {} /\ Cardinality(S[n]) = 0
    BY <1>2, <1>3, FS_EmptySet DEF S
  <2> QED BY <2>1, <2>2 DEF Adjacent, Degrees
<1> HIDE DEF S
<1> QED BY <1>7, <1>8 DEF ListsInv, SimpleGraphs!Init

\* An item for n in list l would be new.
LEMMA NewItem ==
  ASSUME NEW S, NEW set, NEW mem, Recorded(S, set, mem), NEW l, NEW n, n \notin S[l]
  PROVE  \A k \in 0 .. 2 : <<l, n, k>> \notin DOMAIN mem
<1>1. \A k : <<l, n, k>>[1] = l /\ <<l, n, k>>[2] = n
  OBVIOUS
<1> QED BY <1>1 DEF Recorded

LEMMA AddNodeSimple ==
  ASSUME ListsInv, NEW n \in Ids, add_node_to_graph(n)
  PROVE  ListsInv' /\ SimpleGraphs!AddNode(n)
<1>1. PICK S : Holds(S)
  BY DEF ListsInv
<1>2. ~removing /\ n \notin S[Graph]
  BY <1>1, Seen DEF add_node_to_graph
<1> DEFINE S2 == [S EXCEPT ![Graph] = @ \cup {n}]
<1>3. Shape(Current, S) /\ IsGraph(S) /\ Counted(S, num_neighbors, removing) /\ Recorded(S, neighbor_set, memory)
  BY <1>1, <1>2 DEF Holds
<1>4. /\ S = [l \in Heads |-> S[l]] /\ Graph \in Heads /\ Graph \notin Ids
      /\ \A m \in Ids : m \in Heads
  BY <1>3, TotalAssumption DEF Shape, Heads, Ids, Graph
<1>5. S2[Graph] = S[Graph] \cup {n} /\ \A m \in Ids : S2[m] = S[m]
  BY <1>4
<1>6. Shape(Pushed(Current, Graph, n), S2)
      /\ \A q \in DOMAIN Pushed(Current, Graph, n).memory : q \in DOMAIN memory \/ (q[1] = Graph /\ q[2] = n)
  <2>1. Current.memory = memory
    BY DEF Current
  <2>2. \A k \in 0 .. 2 : <<Graph, n, k>> \notin DOMAIN memory
    BY <1>2, <1>3, NewItem
  <2> QED BY <1>2, <1>3, <1>4, <2>1, <2>2, PushedShape
<1> HIDE DEF S2
<1>7. Shape(Current', S2) /\ memory' = Pushed(Current, Graph, n).memory
  <2>1. Pushed(Current, Graph, n) = [memory |-> memory', first |-> first']
    BY <1>6 DEF add_node_to_graph, Become, Shape
  <2> QED BY <1>6, <2>1 DEF Current
<1>8. UNCHANGED <<num_neighbors, neighbor_set, removing>>
  BY DEF add_node_to_graph
<1>9. IsGraph(S2)
  BY <1>3, <1>5 DEF IsGraph
<1>10. Counted(S2, num_neighbors', removing')
  BY <1>2, <1>3, <1>5, <1>8 DEF Counted
<1>11. Recorded(S2, neighbor_set', memory')
  <2>1. neighbor_set' = [m \in Ids |-> S2[m]]
    BY <1>3, <1>5, <1>8 DEF Recorded
  <2>2. \A q \in DOMAIN memory' : q[2] \in S2[q[1]]
    <3> TAKE q \in DOMAIN memory'
    <3>1. CASE q \in DOMAIN memory
      <4>1. q[2] \in S[q[1]] /\ q[1] \in Heads
        BY <1>3, <3>1 DEF Recorded, Shape, MemoryTyped, Addresses, Current
      <4>2. S[q[1]] \subseteq S2[q[1]]
        BY <1>4, <1>5, <4>1 DEF Heads
      <4> QED BY <4>1, <4>2
    <3>2. CASE q[1] = Graph /\ q[2] = n
      BY <1>5, <3>2
    <3> QED BY <1>6, <1>7, <3>1, <3>2
  <2> QED BY <2>1, <2>2 DEF Recorded
<1>12. Holds(S2)'
  BY <1>1, <1>2, <1>7, <1>8, <1>9, <1>10, <1>11 DEF Holds
<1>13. SimpleGraphs!AddNode(n)
  <2>1. /\ ListNodes(Graph) = S[Graph]
        /\ [m \in Ids |-> ListNodes(m)] = Adjacent(S)
        /\ [m \in Ids |-> Degree(m)] = Degrees(S)
    BY <1>1, Seen
  <2>2. /\ ListNodes(Graph)' = S2[Graph]
        /\ [m \in Ids |-> ListNodes(m)]' = Adjacent(S2)
        /\ [m \in Ids |-> Degree(m)]' = Degrees(S2)
    BY <1>7, <1>9, <1>10, SeenNext
  <2>3. Adjacent(S2) = Adjacent(S) /\ Degrees(S2) = Degrees(S)
    BY <1>5 DEF Adjacent, Degrees
  <2> QED BY <1>2, <1>5, <2>1, <2>2, <2>3 DEF SimpleGraphs!AddNode
<1> QED BY <1>12, <1>13 DEF ListsInv

\* Every node has its bit in the sets of neighbours.
Fits == TotalVariables <= Capacity

LEMMA BelongsIs ==
  ASSUME Fits, NEW a \in Ids, NEW b \in Ids
  PROVE  MayBelong(a, b) = {a \in neighbor_set[b]}
<1>1. TotalVariables \in Nat /\ WORD_SIZE \in Nat \ {0}
  BY TotalAssumption
<1>2. Capacity \in Int
  <2>1. \A i \in Int, w \in Nat \ {0} : w * (i \div w) \in Int
    OBVIOUS
  <2>2. TotalVariables - 1 + WORD_SIZE - 1 \in Int
    BY <1>1
  <2> QED BY <1>1, <2>1, <2>2 DEF Capacity
<1>3. a < Capacity
  BY <1>1, <1>2 DEF Fits, Ids
<1> QED BY <1>3 DEF MayBelong

LEMMA SameCardinality == \A T : SimpleGraphs!Cardinality(T) = Cardinality(T)
BY DEF Cardinality, SimpleGraphs!Cardinality, IsFiniteSet, SimpleGraphs!IsFiniteSet

LEMMA AddEdgeSimple ==
  ASSUME Fits, ListsInv, NEW a \in Ids, NEW b \in Ids, add_edge(a, b)
  PROVE  /\ ListsInv'
         /\ SimpleGraphs!AddEdge(a, b) \/ UNCHANGED lists_vars
<1>1. PICK S : Holds(S)
  BY DEF ListsInv
<1>2. a # b /\ a \in S[Graph] /\ b \in S[Graph] /\ ~removing /\ UNCHANGED removing
  BY <1>1, Seen DEF add_edge
<1>3. /\ Shape(Current, S) /\ IsGraph(S) /\ Counted(S, num_neighbors, removing)
      /\ Recorded(S, neighbor_set, memory)
  BY <1>1, <1>2 DEF Holds
<1>4. /\ S = [l \in Heads |-> S[l]] /\ Graph \in Heads /\ Graph \notin Ids
      /\ \A m \in Ids : m \in Heads
  BY <1>3, TotalAssumption DEF Shape, Heads, Ids, Graph
<1>5. CASE a \in neighbor_set[b]
  <2>1. UNCHANGED lists_vars
    BY <1>2, <1>5, BelongsIs DEF add_edge, lists_vars
  <2>2. ListsInv'
    BY <2>1 DEF lists_vars, ListsInv, Holds, Current
  <2> QED BY <2>1, <2>2
<1>6. CASE a \notin neighbor_set[b]
  <2>1. /\ Become(Pushed(Pushed(Current, a, b), b, a))
        /\ num_neighbors' = [num_neighbors EXCEPT ![a] = @ + 1, ![b] = @ + 1]
        /\ neighbor_set' = [neighbor_set EXCEPT ![a] = @ \cup {b}, ![b] = @ \cup {a}]
    BY <1>6, BelongsIs DEF add_edge
  <2>2. a \notin S[b] /\ b \notin S[a]
    <3>1. a \notin S[b]
      BY <1>3, <1>6 DEF Recorded
    <3> QED BY <1>3, <3>1 DEF IsGraph
  <2> DEFINE s1 == Pushed(Current, a, b)
             s2 == Pushed(s1, b, a)
             S1 == [S EXCEPT ![a] = @ \cup {b}]
             S2 == [S1 EXCEPT ![b] = @ \cup {a}]
  <2>3. /\ Shape(s1, S1)
        /\ \A q \in DOMAIN s1.memory : q \in DOMAIN memory \/ (q[1] = a /\ q[2] = b)
    <3>1. Current.memory = memory
      BY DEF Current
    <3>2. \A k \in 0 .. 2 : <<a, b, k>> \notin DOMAIN memory
      BY <1>3, <2>2, NewItem
    <3> QED BY <1>3, <1>4, <2>2, <3>1, <3>2, PushedShape
  <2> HIDE DEF s1
  <2>4. /\ Shape(s2, S2)
        /\ \A q \in DOMAIN s2.memory : q \in DOMAIN s1.memory \/ (q[1] = b /\ q[2] = a)
    <3>1. a \notin S1[b]
      BY <1>2, <1>4, <2>2
    <3>2. \A k \in 0 .. 2 : <<b, a, k>> \notin DOMAIN s1.memory
      <4> TAKE k \in 0 .. 2
      <4>1. <<b, a, k>>[1] = b /\ <<b, a, k>> \notin DOMAIN memory
        BY <1>3, <2>2, NewItem
      <4> QED BY <1>2, <2>3, <4>1
    <3> HIDE DEF S1
    <3> QED BY <1>4, <2>3, <3>1, <3>2, PushedShape
  <2> HIDE DEF s2
  <2>5. Shape(Current', S2) /\ memory' = s2.memory
    <3>1. s2 = [memory |-> s2.memory, first |-> s2.first]
      BY <2>4 DEF Shape
    <3>2. memory' = s2.memory /\ first' = s2.first
      BY <2>1 DEF Become, s2, s1
    <3> QED BY <2>4, <3>1, <3>2 DEF Current
  <2>6. /\ S2[Graph] = S[Graph] /\ S2[a] = S[a] \cup {b} /\ S2[b] = S[b] \cup {a}
        /\ \A m \in Ids : m # a /\ m # b => S2[m] = S[m]
    BY <1>2, <1>4
  <2> HIDE DEF S1, S2
  <2>7. IsGraph(S2)
    <3>1. \A m, n \in Ids : n \in S2[m] <=> n \in S[m] \/ (m = a /\ n = b) \/ (m = b /\ n = a)
      BY <2>6
    <3>2. \A m \in Ids : S2[m] \subseteq S2[Graph] \ {m}
      BY <1>2, <1>3, <2>6 DEF IsGraph
    <3>3. \A m \in Ids : m \notin S2[Graph] => S2[m] = {}
      BY <1>2, <1>3, <2>6 DEF IsGraph
    <3>4. \A m, n \in Ids : m \in S2[n] <=> n \in S2[m]
      BY <1>3, <3>1 DEF IsGraph
    <3> QED BY <3>2, <3>3, <3>4 DEF IsGraph
  <2>8. Counted(S2, num_neighbors', removing')
    <3>1. \A m \in Ids : IsFiniteSet(S[m]) /\ num_neighbors[m] = Cardinality(S[m])
      BY <1>2, <1>3, <1>4, ListView DEF Counted
    <3>2. /\ Cardinality(S2[a]) = Cardinality(S[a]) + 1
          /\ Cardinality(S2[b]) = Cardinality(S[b]) + 1
      <4>1. \A T, x : IsFiniteSet(T) /\ x \notin T => Cardinality(T \cup {x}) = Cardinality(T) + 1
        BY FS_AddElement
      <4> QED BY <2>2, <2>6, <3>1, <4>1
    <3>3. /\ num_neighbors' = [m \in Ids |-> num_neighbors'[m]]
          /\ num_neighbors'[a] = num_neighbors[a] + 1
          /\ num_neighbors'[b] = num_neighbors[b] + 1
          /\ \A m \in Ids : m # a /\ m # b => num_neighbors'[m] = num_neighbors[m]
      BY <1>2, <1>3, <2>1 DEF Counted
    <3>4. \A m \in Ids : num_neighbors'[m] = Cardinality(S2[m])
      BY <2>6, <3>1, <3>2, <3>3
    <3> QED BY <3>3, <3>4 DEF Counted
  <2>9. Recorded(S2, neighbor_set', memory')
    <3>1. neighbor_set = [m \in Ids |-> S[m]]
      BY <1>3 DEF Recorded
    <3>2. neighbor_set' = [m \in Ids |-> S2[m]]
      BY <1>2, <2>1, <2>6, <3>1
    <3>3. \A q \in DOMAIN memory' : q[2] \in S2[q[1]]
      <4> TAKE q \in DOMAIN memory'
      <4>1. CASE q \in DOMAIN memory
        <5>1. q[2] \in S[q[1]] /\ q[1] \in Heads
          BY <1>3, <4>1 DEF Recorded, Shape, MemoryTyped, Addresses, Current
        <5>2. S[q[1]] \subseteq S2[q[1]]
          BY <1>4, <2>6, <5>1 DEF Heads
        <5> QED BY <5>1, <5>2
      <4>2. CASE (q[1] = a /\ q[2] = b) \/ (q[1] = b /\ q[2] = a)
        BY <2>6, <4>2
      <4> QED BY <2>3, <2>4, <2>5, <4>1, <4>2
    <3> QED BY <3>2, <3>3 DEF Recorded
  <2>10. Holds(S2)'
    BY <1>1, <1>2, <2>5, <2>7, <2>8, <2>9 DEF Holds
  <2>11. SimpleGraphs!AddEdge(a, b)
    <3>1. /\ ListNodes(Graph) = S[Graph]
          /\ [m \in Ids |-> ListNodes(m)] = Adjacent(S)
      BY <1>1, Seen
    <3>2. /\ ListNodes(Graph)' = S2[Graph]
          /\ [m \in Ids |-> ListNodes(m)]' = Adjacent(S2)
          /\ [m \in Ids |-> Degree(m)]' = Degrees(S2)
      BY <2>5, <2>7, <2>8, SeenNext
    <3>3. Adjacent(S2) = [Adjacent(S) EXCEPT ![a] = @ \cup {b}, ![b] = @ \cup {a}]
      BY <1>2, <2>6 DEF Adjacent
    <3>4. Degrees(S2) = [m \in Ids |-> Cardinality(Adjacent(S2)[m])]
      BY DEF Degrees, Adjacent
    <3>5. SimpleGraphs!Connect([Adjacent(S) EXCEPT ![a] = @ \cup {b}, ![b] = @ \cup {a}])
      <4>1. SimpleGraphs!Connect(Adjacent(S2))
        BY <3>2, <3>4, SameCardinality DEF SimpleGraphs!Connect
      <4> QED BY <3>3, <4>1
    <3>6. {a, b} \subseteq ListNodes(Graph) /\ a # b /\ ListNodes(Graph)' = ListNodes(Graph)
      BY <1>2, <2>6, <3>1, <3>2
    <3> QED BY <3>1, <3>5, <3>6 DEF SimpleGraphs!AddEdge
  <2> QED BY <2>10, <2>11 DEF ListsInv
<1> QED BY <1>5, <1>6

\* The lists after the removal of n.
LEMMA RemovedShape ==
  ASSUME ListsInv, NEW n \in Ids, remove_node_from_graph(n), NEW S, Holds(S)
  PROVE  Shape(Current', [l \in Heads |-> IF l = n THEN {} ELSE S[l] \ {n}])
<1> DEFINE neighbors == NodesOf(memory, first[n])
           disconnected == Disconnected(Current, neighbors, n)
           alone == [disconnected EXCEPT !.first = [@ EXCEPT ![n] = NULL]]
           removed == Dropped(alone, Graph, n)
           head == removed.first[Graph]
           S1 == [l \in Heads |-> IF \E i \in 1 .. Len(neighbors) : neighbors[i] = l THEN S[l] \ {n} ELSE S[l]]
           S2 == [S1 EXCEPT ![n] = {}]
           S3 == [S2 EXCEPT ![Graph] = @ \ {n}]
           S4 == [l \in Heads |-> IF l = n THEN {} ELSE S[l] \ {n}]
<1>1. /\ n \in S[Graph]
      /\ first' = removed.first
      /\ memory' = IF head = NULL THEN removed.memory
                   ELSE [removed.memory EXCEPT ![head].prev = NULL]
  <2>1. n \in S[Graph]
    BY Seen DEF remove_node_from_graph
  <2> QED BY <2>1 DEF remove_node_from_graph
<1>2. Shape(Current, S) /\ IsGraph(S) /\ Current.memory = memory /\ Current.first = first
  BY DEF Holds, Current
<1>3. n \in Heads /\ Graph \in Heads /\ Graph \notin Ids /\ Heads = Ids \cup {Graph}
  BY TotalAssumption DEF Heads, Ids, Graph
<1>4. /\ neighbors \in Seq(Ids) /\ ToSet(neighbors) = S[n]
      /\ \A i, j \in 1 .. Len(neighbors) : neighbors[i] = neighbors[j] => i = j
  <2>1. /\ neighbors \in Seq(Ids) /\ ToSet(neighbors) = S[n]
        /\ \A i, j \in DOMAIN neighbors : neighbors[i] = neighbors[j] => i = j
    <3>1. LET nodes == NodesOf(Current.memory, Current.first[n])
          IN  /\ nodes \in Seq(Ids) /\ ToSet(nodes) = S[n]
              /\ \A i, j \in DOMAIN nodes : nodes[i] = nodes[j] => i = j
      BY <1>2, <1>3, ListView
    <3> QED BY <1>2, <3>1
  <2> HIDE DEF neighbors
  <2> QED BY <2>1
<1> HIDE DEF neighbors
<1>5. \A l \in Heads : (\E i \in 1 .. Len(neighbors) : neighbors[i] = l) <=> l \in S[n]
  <2>1. DOMAIN neighbors = 1 .. Len(neighbors)
    BY <1>4
  <2> QED BY <1>4, <2>1 DEF ToSet
<1>6. \A i \in 1 .. Len(neighbors) : n \in S[neighbors[i]]
  <2> TAKE i \in 1 .. Len(neighbors)
  <2>1. neighbors[i] \in Ids /\ neighbors[i] \in S[n]
    BY <1>3, <1>4, <1>5
  <2> QED BY <1>2, <2>1 DEF IsGraph
<1>7. Shape(disconnected, S1)
  BY <1>2, <1>4, <1>6, DisconnectedShape
<1>8. Shape(alone, S2)
  <2>1. alone = [memory |-> disconnected.memory, first |-> [disconnected.first EXCEPT ![n] = NULL]]
    <3>1. disconnected = [memory |-> disconnected.memory, first |-> disconnected.first]
      BY <1>7 DEF Shape
    <3> HIDE DEF disconnected
    <3> QED BY <3>1
  <2> HIDE DEF alone, disconnected, S1
  <2> QED BY <1>3, <1>7, <2>1, ForgottenShape DEF S2
<1>9. /\ S1[Graph] = S[Graph] /\ \A l \in Ids : S1[l] = S[l] \ {n}
  <2>1. Graph \notin S[n]
    BY <1>3, <1>4, <1>5
  <2>2. \A l \in Ids : l \notin S[n] => S[l] = S[l] \ {n}
    BY <1>2 DEF IsGraph
  <2> QED BY <1>3, <1>5, <2>1, <2>2
<1>10. n \in S2[Graph] /\ S3 = S4
  <2>1. n # Graph /\ S2[Graph] = S[Graph] /\ S2[n] = {}
    BY <1>3, <1>9
  <2>2. \A l \in Heads : S3[l] = S4[l]
    BY <1>3, <1>9, <2>1
  <2>3. S3 = [l \in Heads |-> S3[l]] /\ S4 = [l \in Heads |-> S4[l]]
    OBVIOUS
  <2> HIDE DEF S3, S4
  <2> QED BY <1>1, <2>1, <2>2, <2>3
<1> HIDE DEF S2, disconnected, alone, S4
<1>11. Shape(removed, S4)
  BY <1>3, <1>8, <1>10, DroppedShape
<1> HIDE DEF removed, S3
<1>12. Shape(Current', S4)
  <2>1. CASE head = NULL
    <3>1. removed = [memory |-> memory', first |-> first']
      BY <1>1, <1>11, <2>1 DEF Shape
    <3> QED BY <1>11, <3>1 DEF Current
  <2>2. CASE head # NULL
    <3>1. Shape([memory |-> memory', first |-> removed.first], S4)
      BY <1>1, <1>3, <1>11, <2>2, HeadShape
    <3> QED BY <1>1, <3>1 DEF Current
  <2> QED BY <2>1, <2>2
<1> QED BY <1>12 DEF S4

LEMMA RemoveSimple ==
  ASSUME ListsInv, NEW n \in Ids, remove_node_from_graph(n)
  PROVE  ListsInv' /\ SimpleGraphs!Remove(n)
<1>1. PICK S : Holds(S)
  BY DEF ListsInv
<1> DEFINE S2 == [l \in Heads |-> IF l = n THEN {} ELSE S[l] \ {n}]
<1>2. Shape(Current, S) /\ IsGraph(S) /\ Counted(S, num_neighbors, removing)
  BY <1>1 DEF Holds
<1>3. n \in Heads /\ Graph \in Heads /\ Graph \notin Ids /\ Heads = Ids \cup {Graph}
  BY TotalAssumption DEF Heads, Ids, Graph
<1>4. Shape(Current', S2)
  BY <1>1, RemovedShape
<1>5. S2[Graph] = S[Graph] \ {n} /\ \A m \in Ids : S2[m] = IF m = n THEN {} ELSE S[m] \ {n}
  BY <1>3
<1> HIDE DEF S2
<1>6. IsGraph(S2)
  <2>1. ASSUME NEW m \in Ids PROVE S2[m] \subseteq S2[Graph] \ {m}
    <3>1. S[m] \subseteq S[Graph] \ {m}
      BY <1>2 DEF IsGraph
    <3> QED BY <1>5, <3>1
  <2>2. ASSUME NEW m \in Ids, m \notin S2[Graph] PROVE S2[m] = {}
    <3>1. m = n \/ m \notin S[Graph]
      BY <1>5, <2>2
    <3>2. m \notin S[Graph] => S[m] \ {n} = {}
      BY <1>2 DEF IsGraph
    <3> QED BY <1>5, <3>1, <3>2
  <2>3. \A a, b \in Ids : a \in S2[b] <=> a \in S[b] /\ a # n /\ b # n
    BY <1>5
  <2>4. \A a, b \in Ids : a \in S2[b] <=> b \in S2[a]
    BY <1>2, <2>3 DEF IsGraph
  <2> QED BY <2>1, <2>2, <2>4 DEF IsGraph
<1>7. removing' = TRUE /\ n \in S[Graph]
  BY <1>1, Seen DEF remove_node_from_graph
<1>8. Counted(S2, num_neighbors', removing')
  <2>1. num_neighbors' = [m \in Ids |-> num_neighbors[m] - (IF m \in S[n] THEN 1 ELSE 0)]
    <3>1. \A m : Contains(NodesOf(memory, first[n]), m) <=> m \in S[n]
      <4>1. NodesOf(memory, first[n]) \in Seq(Ids) /\ ToSet(NodesOf(memory, first[n])) = S[n]
        <5>1. Current.memory = memory /\ Current.first = first
          BY DEF Current
        <5> QED BY <1>2, <1>3, <5>1, ListView
      <4>2. \A m : \A q \in Seq(Ids) : Contains(q, m) <=> m \in ToSet(q)
        BY DEF Contains, ToSet
      <4> QED BY <4>1, <4>2
    <3> QED BY <3>1 DEF remove_node_from_graph
  <2>2. ASSUME NEW m \in Ids, m \in S2[Graph] PROVE num_neighbors'[m] = Cardinality(S2[m])
    <3>1. m \in S[Graph] /\ m # n /\ S2[m] = S[m] \ {n}
      BY <1>5, <2>2
    <3>2. IsFiniteSet(S[m]) /\ num_neighbors[m] = Cardinality(S[m]) /\ Cardinality(S[m]) \in Nat
      BY <1>2, <1>3, <3>1, ListView, FS_CardinalityType DEF Counted
    <3>3. m \in S[n] <=> n \in S[m]
      BY <1>2 DEF IsGraph
    <3>4. n \in S[m] => Cardinality(S[m] \ {n}) = Cardinality(S[m]) - 1
      BY <3>2, FS_RemoveElement
    <3>5. n \notin S[m] => S[m] \ {n} = S[m]
      OBVIOUS
    <3>6. num_neighbors'[m] = num_neighbors[m] - (IF m \in S[n] THEN 1 ELSE 0)
      BY <2>1
    <3>7. CASE n \in S[m]
      <4>1. Cardinality(S2[m]) = num_neighbors[m] - 1
        BY <3>1, <3>2, <3>4, <3>7
      <4>2. m \in S[n]
        BY <3>3, <3>7
      <4> QED BY <3>6, <4>1, <4>2
    <3>8. CASE n \notin S[m]
      <4>1. Cardinality(S2[m]) = num_neighbors[m]
        BY <3>1, <3>2, <3>5, <3>8
      <4>2. m \notin S[n]
        BY <3>3, <3>8
      <4>3. num_neighbors[m] \in Nat
        BY <3>2
      <4> QED BY <3>6, <4>1, <4>2, <4>3
    <3> QED BY <3>7, <3>8
  <2>3. num_neighbors' = [m \in Ids |-> num_neighbors'[m]]
    BY <2>1
  <2> QED BY <1>7, <2>2, <2>3 DEF Counted
<1>9. Holds(S2)'
  BY <1>4, <1>6, <1>7, <1>8 DEF Holds
<1>10. SimpleGraphs!Remove(n)
  <2>1. /\ ListNodes(Graph) = S[Graph]
        /\ [m \in Ids |-> ListNodes(m)] = Adjacent(S)
    BY <1>1, Seen
  <2>2. /\ ListNodes(Graph)' = S2[Graph]
        /\ [m \in Ids |-> ListNodes(m)]' = Adjacent(S2)
        /\ [m \in Ids |-> Degree(m)]' = Degrees(S2)
    BY <1>4, <1>6, <1>8, SeenNext
  <2>3. Adjacent(S2) = [m \in Ids |-> IF m = n THEN {} ELSE Adjacent(S)[m] \ {n}]
    BY <1>5 DEF Adjacent
  <2>4. Degrees(S2) = [m \in Ids |-> Cardinality(Adjacent(S2)[m])]
    BY DEF Degrees, Adjacent
  <2>5. SimpleGraphs!Connect(Adjacent(S2))
    BY <2>2, <2>4, SameCardinality DEF SimpleGraphs!Connect
  <2>6. SimpleGraphs!Connect([m \in Ids |-> IF m = n THEN {} ELSE Adjacent(S)[m] \ {n}])
    BY <2>3, <2>5
  <2>7. n \in ListNodes(Graph) /\ ListNodes(Graph)' = ListNodes(Graph) \ {n}
    BY <1>5, <1>7, <2>1, <2>2
  <2> QED BY <2>1, <2>6, <2>7 DEF SimpleGraphs!Remove
<1> QED BY <1>9, <1>10 DEF ListsInv

LEMMA NextSimple ==
  ASSUME Fits, ListsInv, [NextLists]_lists_vars
  PROVE  ListsInv' /\ [SimpleGraphs!Next]_(SimpleGraphs!vars)
<1>1. ASSUME UNCHANGED lists_vars PROVE ListsInv' /\ UNCHANGED SimpleGraphs!vars
  BY <1>1 DEF lists_vars, ListsInv, Holds, Current, SimpleGraphs!vars, ListNodes, Degree
<1>2. ASSUME NEW n \in Ids, add_node_to_graph(n) PROVE ListsInv' /\ SimpleGraphs!Next
  BY <1>2, AddNodeSimple DEF SimpleGraphs!Next
<1>3. ASSUME NEW n \in Ids, remove_node_from_graph(n) PROVE ListsInv' /\ SimpleGraphs!Next
  BY <1>3, RemoveSimple DEF SimpleGraphs!Next
<1>4. ASSUME NEW a \in Ids, NEW b \in Ids, add_edge(a, b)
      PROVE  ListsInv' /\ [SimpleGraphs!Next]_(SimpleGraphs!vars)
  <2>1. ListsInv' /\ (SimpleGraphs!AddEdge(a, b) \/ UNCHANGED lists_vars)
    BY <1>4, AddEdgeSimple
  <2>2. CASE SimpleGraphs!AddEdge(a, b)
    BY <2>1, <2>2 DEF SimpleGraphs!Next
  <2>3. CASE UNCHANGED lists_vars
    BY <1>1, <2>3
  <2> QED BY <2>1, <2>2, <2>3
<1> QED BY <1>1, <1>2, <1>3, <1>4 DEF NextLists

\* graph.c keeps a simple graph, whatever the number of nodes, if every node
\* has its bit in the sets of neighbours.
THEOREM ListsAreGraph == ASSUME Fits PROVE ListsSpec => ImplementsSimpleGraph
<1>1. InitLists => ListsInv /\ SimpleGraphs!Init
  BY InitSimple
<1>2. ListsInv /\ [NextLists]_lists_vars => ListsInv' /\ [SimpleGraphs!Next]_(SimpleGraphs!vars)
  BY NextSimple
<1> QED BY <1>1, <1>2, PTL DEF ListsSpec, ImplementsSimpleGraph, SimpleGraphs!Spec
=============================================================================
