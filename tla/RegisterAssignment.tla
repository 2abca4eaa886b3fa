------------------------- MODULE RegisterAssignment -------------------------
(***************************************************************************)
(* What register allocation promises: starting from variables that all    *)
(* live in memory, variables are given registers one at a time, a register *)
(* once given is never changed, and two variables that interfere never     *)
(* hold the same one.  The order, the heuristics and the data structures   *)
(* of color_graph are absent; ColorGraph implements this module.           *)
(***************************************************************************)
EXTENDS Integers

CONSTANTS
  Nodes,    \* the live ranges
  Regs      \* the registers

NoReg == -1 \* gnode.reg of a variable that stays in memory

VARIABLES
  edges,    \* edges[n]: the live ranges that interfere with n
  reg       \* reg[n]: the register of n, or NoReg

vars == <<edges, reg>>

Init ==
  /\ edges \in [Nodes -> SUBSET Nodes]
  /\ reg = [n \in Nodes |-> NoReg]

\* Give n a register that no interfering live range holds.
Assign(n, r) ==
  /\ reg[n] = NoReg
  /\ \A m \in edges[n] : reg[m] # r
  /\ reg' = [reg EXCEPT ![n] = r]
  /\ UNCHANGED edges

Next == \E n \in Nodes, r \in Regs : Assign(n, r)

Spec == Init /\ [][Next]_vars
=============================================================================
