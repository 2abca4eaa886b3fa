---------------------------- MODULE SimpleGraph -----------------------------
(***************************************************************************)
(* What graph.h promises its clients: a set of nodes with an undirected    *)
(* edge at most between two of them, whose nodes are taken off with their  *)
(* edges.  ColorGraph colours such a graph.                                *)
(***************************************************************************)
EXTENDS Integers, FiniteSets

CONSTANT Ids  \* the nodes there may be

VARIABLES
  nodes,     \* the nodes on the graph
  adjacent,  \* the neighbours of each node, in no order
  degree     \* how many they are

vars == <<nodes, adjacent, degree>>

Init == nodes = {} /\ adjacent = [n \in Ids |-> {}] /\ degree = [n \in Ids |-> 0]

Connect(edges) ==
  /\ adjacent' = edges
  /\ degree' = [n \in Ids |-> Cardinality(edges[n])]

AddNode(n) == n \notin nodes /\ nodes' = nodes \cup {n} /\ UNCHANGED <<adjacent, degree>>

AddEdge(a, b) ==
  /\ {a, b} \subseteq nodes /\ a # b
  /\ Connect([adjacent EXCEPT ![a] = @ \cup {b}, ![b] = @ \cup {a}])
  /\ UNCHANGED nodes

Remove(n) ==
  /\ n \in nodes
  /\ nodes' = nodes \ {n}
  /\ Connect([m \in Ids |-> IF m = n THEN {} ELSE adjacent[m] \ {n}])

Next == \/ \E n \in Ids : AddNode(n) \/ Remove(n)
        \/ \E a, b \in Ids : AddEdge(a, b)

Spec == Init /\ [][Next]_vars
=============================================================================
