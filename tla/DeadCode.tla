------------------------------ MODULE DeadCode ------------------------------
(***************************************************************************)
(* do_dead_code_elimination (code_optimization.c) over the control flow    *)
(* graph and the liveness sets of the function, followed by an execution   *)
(* of the function as written and as optimised, side by side.              *)
(*                                                                         *)
(* find_in_and_out_liveness_sets is taken at its result: Liveness.tla has  *)
(* its iteration and shows that it ends in the least solution.             *)
(***************************************************************************)
EXTENDS LivenessSets

CONSTANT Programs  \* the functions considered

VARIABLES
  prog,            \* the function
  created_blocks,  \* its blocks, the latest created first; <<>> before
  block,           \* instruction.block
  edges,           \* block.children
  out,             \* block.out of the last analysis; <<>> before it
  pos,             \* place in created_blocks of remove_dead_instructions
  dead,            \* instructions marked dead
  found,           \* dead_instructions_found
  pc,              \* instruction being executed; 0 before
  agree            \* variables with the same value in both executions

graph == <<created_blocks, block, edges>>
vars == <<prog, graph, out, pos, dead, found, pc, agree>>

Blocks == ToSet(created_blocks)
Variables == LocalScope \cup Globals

\* The state before the passes, whatever the function.
Start ==
  /\ created_blocks = <<>>
  /\ block = <<>>
  /\ edges = {}
  /\ out = <<>>
  /\ pos = 0
  /\ dead = {}
  /\ found = TRUE
  /\ pc = 0
  /\ agree = Variables

Init == prog \in Programs /\ Start

build_control_flow_graph ==
  /\ created_blocks = <<>>
  /\ created_blocks' = Reverse(CreationOrder(prog))
  /\ block' = BlockMap(prog)
  /\ edges' = Edges(prog, block')
  /\ UNCHANGED <<prog, out, pos, dead, found, pc, agree>>

\* One round of do_dead_code_elimination starts: analysis, then
\* remove_dead_instructions from the first block of the list.
find_in_and_out_liveness_sets ==
  /\ created_blocks # <<>>
  /\ pos = 0
  /\ found
  /\ out' = LeastOut(prog, block, edges, dead)
  /\ pos' = 1
  /\ found' = FALSE
  /\ UNCHANGED <<prog, graph, dead, pc, agree>>

\* Wrong on purpose: liveness is looked up before the instruction instead of
\* after it; instructions already dead are found again.
NotLiveBefore(b) ==
  {i \in Walked(block, b) \ dead :
     /\ redefines_variable(prog[i]) /\ prog[i].dest \in LocalScope
     /\ id(prog[i].dest) \notin LiveIn(prog, block, dead, b, out[b])[i]}
DeadAgain(b) ==
  {i \in Walked(block, b) :
     /\ ~NullAssignment(prog[i])
     /\ redefines_variable(prog[i]) /\ prog[i].dest \in LocalScope
     /\ id(prog[i].dest) \notin LiveIn(prog, block, dead, b, out[b])[i + 1]}

\* The writes remove_dead_instructions finds dead in block b.
NewlyDead(b) ==
  LET live == LiveIn(prog, block, dead, b, out[b])
  IN  {i \in Walked(block, b) \ dead :
         /\ ~NullAssignment(prog[i])
         /\ redefines_variable(prog[i])
         /\ prog[i].dest \in LocalScope
         /\ id(prog[i].dest) \notin live[i + 1]}

remove_dead_instructions ==
  /\ pos \in DOMAIN created_blocks
  /\ LET b == created_blocks[pos]
     IN  /\ dead' = dead \cup NewlyDead(b) \cup {i \in Walked(block, b) : NullAssignment(prog[i])}
         /\ found' = (found \/ NewlyDead(b) # {})
  /\ pos' = IF pos = Len(created_blocks) THEN 0 ELSE pos + 1
  /\ UNCHANGED <<prog, graph, out, pc, agree>>

\* No change in the last round: the function is translated and entered.
Enter ==
  /\ pos = 0
  /\ ~found
  /\ pc = 0
  /\ pc' = 1
  /\ UNCHANGED <<prog, graph, out, pos, dead, found, agree>>

\* Instruction pc is executed as written and, unless dead, as optimised; the
\* two go the same way, since the operand of a jump agrees (ValuesAgree).
Execute(j) ==
  /\ pc # 0
  /\ j \in Successors(prog, pc)
  /\ pc' = j
  /\ agree' = IF ~redefines_variable(prog[pc]) THEN agree
              ELSE IF pc \notin dead THEN agree \cup {prog[pc].dest}
              ELSE IF NullAssignment(prog[pc]) THEN agree
              ELSE agree \ {prog[pc].dest}
  /\ UNCHANGED <<prog, graph, out, pos, dead, found>>

Optimise == build_control_flow_graph \/ find_in_and_out_liveness_sets
              \/ remove_dead_instructions \/ Enter

Next == Optimise \/ \E j \in DOMAIN prog : Execute(j)

\* The pass is sequential code that runs to its end; the function may be
\* executed or not.
Spec == Init /\ [][Next]_vars /\ WF_vars(Optimise)

-----------------------------------------------------------------------------
\* What the program computes is unchanged by remove_dead_instructions:
\* every operand an instruction that is kept reads, the address a store
\* goes through included, has the value it has in the function as written,
\* and so has every global, which callers read.
ValuesAgree ==
  /\ pc # 0 /\ pc \notin dead =>
       Operands(prog[pc]) \cup ({prog[pc].dest} \cap Addrs) \subseteq agree
  /\ Globals \subseteq agree

\* Once the pass is over nothing dead is left: what a kept instruction
\* writes to a local is read later by an instruction that is kept too, so
\* the rounds of do_dead_code_elimination do not stop too early. (An address
\* is read by the instructions that have it for destination.)
NoDeadWriteLeft ==
  pc = 1 =>
    \A i \in DOMAIN prog \ dead :
      redefines_variable(prog[i]) /\ prog[i].dest \in LocalScope =>
        GraphSuccessors(block, edges, i)
          \cap ReadFrom(prog, block, edges, dead, prog[i].dest) # {}

\* The rounds of do_dead_code_elimination end.
Terminates == <>(pc # 0)
=============================================================================
