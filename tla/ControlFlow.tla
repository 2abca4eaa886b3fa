---------------------------- MODULE ControlFlow -----------------------------
(***************************************************************************)
(* build_control_flow_graph (control_flow.c): the basic blocks of a        *)
(* function and their dominators, followed by an execution of the function *)
(* that the graph and the dominators are held against.                     *)
(***************************************************************************)
EXTENDS ThreeAddress

CONSTANTS
  Programs,           \* the functions considered
  BITS_PER_PARTITION  \* bits in a word of a set, 32 in the code

ASSUME GraphAssumption ==
  /\ BITS_PER_PARTITION \in Nat \ {0}
  /\ \A p \in Programs : WellFormed(p) /\ JumpsToLabels(p)

VARIABLES
  prog,            \* the function
  created_blocks,  \* list of blocks in block.c, the latest created first
  block,           \* instruction.block; <<>> before update_blocks
  edges,           \* block.children and block.parents
  dominators,      \* block.dominators; <<>> before find_dominators
  node,            \* place in created_blocks of find_dominators' block_list_node
  stable,          \* its local converged
  pc,              \* instruction being executed; 0 before the graph is built
  visited          \* blocks executed so far

graph == <<created_blocks, block, edges>>
graph_vars == <<prog, graph, dominators, node, stable, pc, visited>>

GraphBlocks == ToSet(created_blocks)
NumBlocks == Len(created_blocks)

\* create_full_set(n), n = get_num_created_blocks() being one more than the
\* number of blocks: no bit of the last word is set when n is a multiple of
\* the word size. The block at place k of the list has number NumBlocks - k.
UniverseSet ==
  LET n == NumBlocks + 1
  IN  {created_blocks[k] : k \in {j \in 1 .. NumBlocks :
         n % BITS_PER_PARTITION # 0 \/ NumBlocks - j < n - BITS_PER_PARTITION}}

\* The state before the graph is built, whatever the function.
Start ==
  /\ created_blocks = <<>>
  /\ block = <<>>
  /\ edges = {}
  /\ dominators = <<>>
  /\ node = 1
  /\ stable = TRUE
  /\ pc = 0
  /\ visited = {}

InitGraph == prog \in Programs /\ Start

find_block_leaders ==
  /\ created_blocks = <<>>
  /\ created_blocks' = Reverse(CreationOrder(prog))
  /\ UNCHANGED <<prog, block, edges, dominators, node, stable, pc, visited>>

update_blocks ==
  /\ created_blocks # <<>>
  /\ block = <<>>
  /\ block' = BlockMap(prog)
  /\ edges' = Edges(prog, block')
  /\ UNCHANGED <<prog, created_blocks, dominators, node, stable, pc, visited>>

\* The first loop of find_dominators.
InitDominators ==
  /\ block # <<>>
  /\ dominators = <<>>
  /\ dominators' = [b \in GraphBlocks |-> IF Parents(edges, b) = {} THEN {b} ELSE UniverseSet]
  /\ UNCHANGED <<prog, graph, node, stable, pc, visited>>

\* The inner loop of find_dominators goes on while blocks have parents.
HasNext == node <= NumBlocks /\ Parents(edges, created_blocks[node]) # {}

\* Wrong on purpose: the union of the predecessors' dominators.
DominatorsOfAnyPredecessor(b) == UNION {dominators[q] : q \in Parents(edges, b)}

get_dominators_from_predecessors(b) ==
  {d \in GraphBlocks : \A q \in Parents(edges, b) : d \in dominators[q]}

UpdateDominators ==
  /\ pc = 0
  /\ dominators # <<>>
  /\ HasNext
  /\ LET b == created_blocks[node]
         new_set == {b} \cup get_dominators_from_predecessors(b)
     IN  /\ dominators' = [dominators EXCEPT ![b] = new_set]
         /\ stable' = (stable /\ new_set = dominators[b])
  /\ node' = node + 1
  /\ UNCHANGED <<prog, graph, pc, visited>>

\* Wrong on purpose: a change once seen is never forgotten.
NextRoundStillChanged ==
  /\ pc = 0 /\ dominators # <<>> /\ ~HasNext /\ ~stable
  /\ node' = 1
  /\ UNCHANGED <<prog, graph, dominators, stable, pc, visited>>

NextRound ==
  /\ pc = 0
  /\ dominators # <<>>
  /\ ~HasNext
  /\ ~stable
  /\ node' = 1
  /\ stable' = TRUE
  /\ UNCHANGED <<prog, graph, dominators, pc, visited>>

\* The graph is built; the function is entered.
Enter ==
  /\ pc = 0
  /\ dominators # <<>>
  /\ ~HasNext
  /\ stable
  /\ pc' = 1
  /\ visited' = {1}
  /\ UNCHANGED <<prog, graph, dominators, node, stable>>

Execute(j) ==
  /\ pc # 0
  /\ j \in Successors(prog, pc)
  /\ pc' = j
  /\ visited' = visited \cup {block[j]}
  /\ UNCHANGED <<prog, graph, dominators, node, stable>>

Build == find_block_leaders \/ update_blocks \/ InitDominators \/ UpdateDominators
           \/ NextRound \/ Enter

NextGraph == Build \/ \E j \in DOMAIN prog : Execute(j)

\* Building the graph is sequential code that runs to its end; the function
\* may be executed or not.
SpecGraph == InitGraph /\ [][NextGraph]_graph_vars /\ WF_graph_vars(Build)

-----------------------------------------------------------------------------
\* Control enters a block only at its leader and leaves it only at its end,
\* and every transfer between blocks is an edge of the graph: the passes
\* that propagate along edges or along a block (copy propagation, liveness,
\* interference) miss no execution.
TransfersAreEdges ==
  [][pc # 0 /\ pc' # pc =>
       \/ block[pc'] = block[pc] /\ pc' = pc + 1
       \/ /\ pc' = block[pc']
          /\ <<block[pc], pc'>> \in edges
          /\ \A i \in DOMAIN prog : block[i] = block[pc] => i <= pc]_graph_vars

\* Whatever path led to a block, the blocks said to dominate it were on it
\* (find_dominators never claims too much).
DominatorsSound == pc # 0 => dominators[block[pc]] \subseteq visited

\* The blocks with a path of the graph from the entry that avoids block d.
Avoiding(d) ==
  LET step[k \in Nat] ==
        IF k = 0 THEN {1} \ {d}
        ELSE LET known == step[k - 1]
             IN  known \cup ((UNION {Children(edges, b) : b \in known}) \ {d})
  IN  step[NumBlocks]

\* find_dominators misses no dominator either: d is in the set of b whenever
\* every path of the graph from the entry to b goes through d.
DominatorsComplete ==
  pc = 1 => \A d \in GraphBlocks : \A b \in GraphBlocks \ Avoiding(d) : d \in dominators[b]

\* find_dominators is right for every block that can be executed.
DominatorsExact == DominatorsSound /\ DominatorsComplete
=============================================================================
