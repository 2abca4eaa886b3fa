----------------------------- MODULE Optimizer ------------------------------
(***************************************************************************)
(* optimize_instructions (code_optimization.c): dead code elimination and  *)
(* register allocation of one function over the control flow graph they    *)
(* share, then one execution of the function, in which the values dead     *)
(* code elimination may change and the registers are followed together.    *)
(*                                                                         *)
(* DeadCode and Interference share prog, the graph, dead and pc: what the  *)
(* first marks dead is what the second passes over.                        *)
(***************************************************************************)
EXTENDS LivenessSets

CONSTANTS Programs, NUM_REGISTERS, TEMPORARIES, entered, callee_registers  \* as there

ASSUME RegistersAssumption ==
  /\ NUM_REGISTERS \in Nat \ {0}
  /\ TEMPORARIES \in 0 .. NUM_REGISTERS
  /\ callee_registers \in [entered -> SUBSET (0 .. NUM_REGISTERS - 1)]

ASSUME ProgramsAssumption == \A p \in Programs : WellFormed(p)

VARIABLES
  global_enabled,                                  \* the option for dead code elimination
  prog, dead, created_blocks, block, edges, pc,    \* shared
  dce_out, dce_pos, found, agree,                  \* DeadCode
  out, pos, neighbors, preferential_regs, live_at_call, registers_used, reg,
  holder, assigned                                 \* Interference

dce_vars == <<dce_out, dce_pos, found, agree>>
register_vars == <<out, pos, neighbors, preferential_regs, live_at_call, registers_used,
                   reg, holder, assigned>>
vars == <<global_enabled, prog, dead, created_blocks, block, edges, pc, dce_vars, register_vars>>

Dce == INSTANCE DeadCode WITH out <- dce_out, pos <- dce_pos
Alloc == INSTANCE Interference

Init ==
  /\ global_enabled \in BOOLEAN
  /\ prog \in Programs
  /\ Dce!Start
  /\ Alloc!Start

build_control_flow_graph ==
  /\ Alloc!build_control_flow_graph
  /\ UNCHANGED <<global_enabled, dce_vars>>

\* optimize_globally.
do_dead_code_elimination ==
  /\ global_enabled
  /\ out = <<>>
  /\ Dce!find_in_and_out_liveness_sets \/ Dce!remove_dead_instructions
  /\ UNCHANGED <<global_enabled, register_vars>>

\* It starts when dead code elimination is over, or is not wanted.
optimize_register_allocation ==
  /\ ~global_enabled \/ (dce_pos = 0 /\ ~found)
  /\ \/ Alloc!find_in_and_out_liveness_sets
     \/ Alloc!create_interference_graph_connections
     \/ Alloc!color_graph
  /\ UNCHANGED <<global_enabled, dce_vars>>

\* The function is translated and entered.
Enter ==
  /\ Alloc!Enter
  /\ UNCHANGED <<global_enabled, dce_vars>>

Execute(j) ==
  /\ Dce!Execute(j)
  /\ Alloc!Execute(j)
  /\ UNCHANGED global_enabled

optimize_instructions ==
  \/ build_control_flow_graph
  \/ do_dead_code_elimination
  \/ optimize_register_allocation
  \/ Enter

Next == optimize_instructions \/ \E j \in DOMAIN prog : Execute(j)

\* The compiler is sequential code that runs to its end; the function it
\* translates may be executed or not.
Spec == Init /\ [][Next]_vars /\ WF_vars(optimize_instructions)

-----------------------------------------------------------------------------
\* What the program computes is unchanged by remove_dead_instructions:
\* every operand of an instruction that is kept, and every global, has the
\* value it has in the function as written.
ValuesAgree == Dce!ValuesAgree

\* do_dead_code_elimination leaves no dead write: its rounds do not stop
\* too early.
NoDeadWriteLeft == global_enabled => Dce!NoDeadWriteLeft

\* A variable is read from its register with the value last assigned to it,
\* whatever assignment color_graph makes and whatever is called between.
ReadsOwnValue == Alloc!ReadsOwnValue

\* create_interference_graph_connections joins no two variables in vain.
EdgesJustified == Alloc!EdgesJustified

\* live_at_call is what is read after the call and not written before that,
\* which save_reg_allocated_variables relies on.
LiveAtCallExact == Alloc!LiveAtCallExact

\* The rounds of do_dead_code_elimination end and the registers are
\* assigned: the compiler goes on to the translation.
Terminates == <>(pc # 0)
=============================================================================
