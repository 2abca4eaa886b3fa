--------------------------- MODULE AdjacencyLists ---------------------------
(***************************************************************************)
(* The graph of graph.c: a doubly linked list of the nodes and, for each   *)
(* node, a doubly linked list of its neighbours, their number, and a set   *)
(* of them that keeps edges simple.  Memory is a function from the         *)
(* addresses of list items to what they hold; an item that is freed leaves *)
(* its domain.  An address is the list an item was made for, the node it   *)
(* holds and a number that tells two such items apart.                     *)
(***************************************************************************)
EXTENDS Integers, Sequences, FiniteSets, SequencesExt

CONSTANTS
  TotalVariables,  \* nodes have the ids of local variables, below this
  WORD_SIZE        \* BITS_PER_PARTITION, 32 in set.c

ASSUME TotalAssumption == TotalVariables \in Nat /\ WORD_SIZE \in Nat \ {0}

Ids == 0 .. TotalVariables - 1

\* create_interference_graph makes neighbor_set for TotalVariables - 1 elements.
Capacity ==
  WORD_SIZE * ((TotalVariables - 1 + WORD_SIZE - 1) \div WORD_SIZE)

Graph == -1  \* the list of nodes, among the lists of the neighbours of each
NULL == <<>>

VARIABLES
  memory,         \* node, prev and next of each item
  first,          \* the first item of each list
  num_neighbors,
  neighbor_set,
  removing        \* colouring has begun

lists_vars == <<memory, first, num_neighbors, neighbor_set, removing>>

\* The items of a list from its head on, one for each node at most, to the
\* first pointer that leads out of memory.
ListItems(mem, head) ==
  LET from[items \in Seq(DOMAIN mem)] ==
        LET next == mem[Last(items)].next
        IN  IF Len(items) < TotalVariables /\ next \in DOMAIN mem
            THEN from[Append(items, next)]
            ELSE items
  IN  IF head \in DOMAIN mem THEN from[<<head>>] ELSE <<>>

NodesOf(mem, head) ==
  LET items == ListItems(mem, head) IN [i \in DOMAIN items |-> mem[items[i]].node]
IsIn(n, l) == Contains(NodesOf(memory, first[l]), n)

Fresh(mem, l, n) ==
  LET k == CHOOSE k \in 0 .. 2 : <<l, n, k>> \notin DOMAIN mem IN <<l, n, k>>

\* A new item in front of list l.
Pushed(s, l, n) ==
  LET p == Fresh(s.memory, l, n)
      head == s.first[l]
  IN  [memory |-> [q \in DOMAIN s.memory \cup {p} |->
                     IF q = p THEN [node |-> n, prev |-> NULL, next |-> head]
                     ELSE IF q = head THEN [s.memory[q] EXCEPT !.prev = p]
                     ELSE s.memory[q]],
       first |-> [s.first EXCEPT ![l] = p]]

Without(mem, p) == [q \in DOMAIN mem \ {p} |-> mem[q]]

\* The first item of a list that holds node n.
ItemOf(mem, head, n) ==
  LET items == ListItems(mem, head)
  IN  items[CHOOSE i \in DOMAIN items :
              mem[items[i]].node = n /\ \A j \in 1 .. i - 1 : mem[items[j]].node # n]

\* Item p, which is not the first of its list, unlinked and freed.
Unlinked(mem, p) ==
  LET prev == mem[p].prev
      next == mem[p].next
  IN  Without([q \in DOMAIN mem |->
                 [node |-> mem[q].node,
                  next |-> IF q = prev THEN next ELSE mem[q].next,
                  prev |-> IF q = next THEN prev ELSE mem[q].prev]], p)

\* Wrong on purpose: an item in the middle is unlinked forwards only.
DroppedForwards(s, m, n) ==
  LET head == s.first[m]
      p == ItemOf(s.memory, head, n)
      prev == s.memory[p].prev
  IN  IF s.memory[head].node = n
      THEN [memory |-> Without(s.memory, head), first |-> [s.first EXCEPT ![m] = s.memory[head].next]]
      ELSE [memory |-> Without([s.memory EXCEPT ![prev].next = s.memory[p].next], p),
            first |-> s.first]

\* The item of neighbour n taken from the list of m.  When it is the first
\* one, prev of the next one goes on pointing at it.
Dropped(s, m, n) ==
  LET head == s.first[m]
      p == ItemOf(s.memory, head, n)
  IN  IF s.memory[head].node = n
      THEN [memory |-> Without(s.memory, head), first |-> [s.first EXCEPT ![m] = s.memory[head].next]]
      ELSE [memory |-> Unlinked(s.memory, p), first |-> s.first]

-----------------------------------------------------------------------------
InitLists ==
  /\ memory = <<>>
  /\ first = [l \in Ids \cup {Graph} |-> NULL]
  /\ num_neighbors = [n \in Ids |-> 0]
  /\ neighbor_set = [n \in Ids |-> {}]
  /\ removing = FALSE

Become(s) == memory' = s.memory /\ first' = s.first
Current == [memory |-> memory, first |-> first]

\* create_graph_node, add_node_to_graph: the nodes come before the edges.
add_node_to_graph(n) ==
  /\ ~removing /\ \A m \in Ids : first[m] = NULL
  /\ ~IsIn(n, Graph)
  /\ Become(Pushed(Current, Graph, n))
  /\ UNCHANGED <<num_neighbors, neighbor_set, removing>>

\* does_elto_belong_to_set reads past the end of the mask for an element that
\* is beyond the capacity, where add_to_set writes too.
MayBelong(n, m) == IF n < Capacity THEN {n \in neighbor_set[m]} ELSE BOOLEAN

add_edge(a, b) ==
  /\ ~removing
  /\ a # b /\ IsIn(a, Graph) /\ IsIn(b, Graph)
  /\ \E belongs \in MayBelong(a, b) :
       IF belongs THEN UNCHANGED <<memory, first, num_neighbors, neighbor_set>>
       ELSE /\ Become(Pushed(Pushed(Current, a, b), b, a))
            /\ num_neighbors' = [num_neighbors EXCEPT ![a] = @ + 1, ![b] = @ + 1]
            /\ neighbor_set' = [neighbor_set EXCEPT ![a] = @ \cup {b}, ![b] = @ \cup {a}]
  /\ UNCHANGED removing

\* Node n taken from the list of each of its neighbours in turn.
Disconnected(s, neighbors, n) ==
  LET after[i \in 0 .. Len(neighbors)] ==
        IF i = 0 THEN s ELSE Dropped(after[i - 1], neighbors[i], n)
  IN  after[Len(neighbors)]

\* The node leaves the lists of its neighbours, loses its own, whose items
\* are never freed, and leaves the list of nodes.
remove_node_from_graph(n) ==
  LET neighbors == NodesOf(memory, first[n])
      disconnected == Disconnected(Current, neighbors, n)
      alone == [disconnected EXCEPT !.first = [@ EXCEPT ![n] = NULL]]
      removed == Dropped(alone, Graph, n)
      head == removed.first[Graph]
  IN  /\ IsIn(n, Graph)
      /\ removing' = TRUE
      /\ first' = removed.first
      /\ memory' = IF head = NULL THEN removed.memory
                   ELSE [removed.memory EXCEPT ![head].prev = NULL]
      /\ num_neighbors' = [m \in Ids |-> num_neighbors[m] - (IF Contains(neighbors, m) THEN 1 ELSE 0)]
      /\ UNCHANGED neighbor_set

NextLists ==
  \/ \E n \in Ids : add_node_to_graph(n) \/ remove_node_from_graph(n)
  \/ \E a, b \in Ids : add_edge(a, b)

ListsSpec == InitLists /\ [][NextLists]_lists_vars

-----------------------------------------------------------------------------
ListNodes(l) == ToSet(NodesOf(memory, first[l]))

\* num_neighbors, by which color_graph tells when a node becomes colourable,
\* if the list of a node on the graph is that long.
Degree(n) ==
  IF n \notin ListNodes(Graph) THEN 0
  ELSE IF num_neighbors[n] = Len(NodesOf(memory, first[n])) THEN num_neighbors[n] ELSE -1

SimpleGraphs == INSTANCE SimpleGraph WITH
  nodes <- ListNodes(Graph),
  adjacent <- [n \in Ids |-> ListNodes(n)],
  degree <- [n \in Ids |-> Degree(n)]

\* The linked lists hold the nodes and the edges of a simple graph, each
\* neighbour once and counted, whatever the order in which edges were added
\* and nodes are taken off the front, the middle and the end of each other's
\* lists.
ImplementsSimpleGraph == SimpleGraphs!Spec
=============================================================================
