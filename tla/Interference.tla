---------------------------- MODULE Interference ----------------------------
(***************************************************************************)
(* optimize_register_allocation (code_optimization.c): the interference    *)
(* graph of a function, any assignment of registers that respects it, and  *)
(* an execution in which registers are written, and clobbered by calls,    *)
(* as the code print_instructions (code_translation.c) emits does.         *)
(*                                                                         *)
(* color_graph is taken at its promise, module RegisterAssignment, which   *)
(* ColorGraph implements.                                                  *)
(***************************************************************************)
EXTENDS LivenessSets

CONSTANTS
  Programs,        \* the functions considered
  NUM_REGISTERS,   \* 16 in the code
  TEMPORARIES,     \* registers below it are $t ones, that callees may clobber; 8
  entered,         \* the functions called whose body has been processed
  callee_registers \* registers_used of those

Regs == 0 .. NUM_REGISTERS - 1
NoReg == -1

VARIABLES
  prog,               \* the function
  dead,               \* what dead code elimination left out
  created_blocks,     \* its blocks, the latest created first; <<>> before
  block,              \* instruction.block
  edges,              \* block.children
  out,                \* block.out; <<>> before the analysis
  pos,                \* place in created_blocks
  neighbors,          \* edges of the interference graph, as pairs of variables
  preferential_regs,  \* gnode.preferential_regs
  live_at_call,       \* instruction.live_at_call
  registers_used,     \* function_header->registers_used
  reg,                \* gnode.reg; <<>> before color_graph
  pc,                 \* instruction being executed; 0 before
  holder,             \* the variable whose value is in a register, Null if none
  assigned            \* the variables assigned so far

graph == <<created_blocks, block, edges>>
vars == <<prog, dead, graph, out, pos, neighbors, preferential_regs, live_at_call,
          registers_used, reg, pc, holder, assigned>>

Blocks == ToSet(created_blocks)

\* The variables with a live_range_node: create_interference_graph leaves
\* out formals, addresses and arrays, which stay in memory.
LiveRanges == Locals \ Addrs

\* The state before the passes, whatever the function.
Start ==
  /\ dead = {}
  /\ created_blocks = <<>>
  /\ block = <<>>
  /\ edges = {}
  /\ out = <<>>
  /\ pos = 0
  /\ neighbors = {}
  /\ preferential_regs = [v \in LiveRanges |-> Regs]
  /\ live_at_call = <<>>
  /\ registers_used = {}
  /\ reg = <<>>
  /\ pc = 0
  /\ holder = [r \in Regs |-> Null]
  /\ assigned = {}

Init == prog \in Programs /\ Start

build_control_flow_graph ==
  /\ created_blocks = <<>>
  /\ created_blocks' = Reverse(CreationOrder(prog))
  /\ block' = BlockMap(prog)
  /\ edges' = Edges(prog, block')
  /\ live_at_call' = [i \in DOMAIN prog |-> {}]
  /\ UNCHANGED <<prog, dead, out, pos, neighbors, preferential_regs, registers_used,
                 reg, pc, holder, assigned>>

find_in_and_out_liveness_sets ==
  /\ created_blocks # <<>>
  /\ out = <<>>
  /\ out' = LeastOut(prog, block, edges, dead)
  /\ pos' = 1
  /\ UNCHANGED <<prog, dead, graph, neighbors, preferential_regs, live_at_call,
                 registers_used, reg, pc, holder, assigned>>

\* Wrong on purpose: a write does not end liveness.
live_since_read(b) ==
  LET after == last_instruction(block, b) + 1
  IN  [i \in b .. after |->
         out[b] \cup UNION {{id(v) : v \in (Operands(prog[j]) \cap LocalScope) \ Addrs} :
                              j \in (i .. after - 1) \ dead}]

\* live_now before each instruction of block b, and after the last one:
\* addresses are neither in lhs_set nor in rhs_set of this walk.
live_now(b) ==
  LET after == last_instruction(block, b) + 1
      reads(i) == {id(v) : v \in (Operands(prog[i]) \cap LocalScope) \ Addrs}
      live[i \in b .. after] ==
        IF i = after THEN out[b]
        ELSE IF i \in dead THEN live[i + 1]
        ELSE (live[i + 1] \ lhs_set(prog[i])) \cup reads(i)
  IN  live

\* The live ranges get_variable_by_id finds for a set of ids.
Named(ids) == {v \in LiveRanges : id(v) \in ids}

\* create_interference_graph_connections, one block: what an instruction
\* writes interferes with everything live after it; at a call to a function
\* already processed, the variables live after it had rather not be in the
\* registers that function uses.
create_interference_graph_connections ==
  /\ pos \in DOMAIN created_blocks
  /\ LET b == created_blocks[pos]
         live == live_now(b)
         walked == Walked(block, b) \ dead
         calls == {i \in walked : prog[i].op = "Call"}
         known == {i \in calls : prog[i].src1 \in entered /\ live[i + 1] # {}}
     IN  /\ neighbors' = neighbors \cup
              UNION {{{prog[i].dest, v} : v \in Named(live[i + 1]) \ {prog[i].dest}} :
                       i \in {j \in walked : prog[j].dest \in LiveRanges}}
         /\ preferential_regs' =
              [v \in LiveRanges |-> preferential_regs[v] \
                 UNION {callee_registers[prog[i].src1] :
                          i \in {j \in known : v \in Named(live[j + 1])}}]
         /\ registers_used' = registers_used \cup UNION {callee_registers[prog[i].src1] : i \in known}
         /\ live_at_call' = [i \in DOMAIN prog |-> IF i \in calls THEN live[i + 1] ELSE live_at_call[i]]
  /\ pos' = pos + 1
  /\ UNCHANGED <<prog, dead, graph, out, reg, pc, holder, assigned>>

\* color_graph: neighbours differ; registers_used is started afresh.
color_graph ==
  /\ pos = Len(created_blocks) + 1
  /\ reg = <<>>
  /\ reg' \in {c \in [LiveRanges -> Regs \cup {NoReg}] :
                 \A v, w \in LiveRanges : {v, w} \in neighbors /\ v # w =>
                   c[v] # c[w] \/ c[v] = NoReg}
  /\ registers_used' = {reg'[v] : v \in LiveRanges} \ {NoReg}
  /\ UNCHANGED <<prog, dead, graph, out, pos, neighbors, preferential_regs, live_at_call,
                 pc, holder, assigned>>

Enter ==
  /\ reg # <<>>
  /\ pc = 0
  /\ pc' = 1
  /\ UNCHANGED <<prog, dead, graph, out, pos, neighbors, preferential_regs, live_at_call,
                 registers_used, reg, holder, assigned>>

\* Wrong on purpose: a callee whose body is not processed is trusted.
SavedFromKnown(i) ==
  {reg[v] : v \in {w \in Named(live_at_call[i]) :
                     /\ reg[w] \in 0 .. TEMPORARIES - 1
                     /\ prog[i].src1 \in entered
                     /\ reg[w] \in callee_registers[prog[i].src1]}}

\* save_ and load_reg_allocated_variables: the $t registers of variables
\* live after the call that the callee uses, or may use, are put back.
Saved(i) ==
  {reg[v] : v \in {w \in Named(live_at_call[i]) :
                     /\ reg[w] \in 0 .. TEMPORARIES - 1
                     /\ prog[i].src1 \in entered => reg[w] \in callee_registers[prog[i].src1]}}

\* What the callee overwrites and does not restore.
Clobbered(i) ==
  {r \in 0 .. TEMPORARIES - 1 :
     prog[i].src1 \in entered => r \in callee_registers[prog[i].src1]}

Execute(j) ==
  /\ pc # 0
  /\ j \in Successors(prog, pc)
  /\ pc' = j
  /\ LET d == prog[pc].dest
         writes == d \in LiveRanges /\ pc \notin dead
     IN  /\ assigned' = IF writes THEN assigned \cup {d} ELSE assigned
         /\ holder' = [r \in Regs |->
                         IF writes /\ reg[d] = r THEN d
                         ELSE IF prog[pc].op = "Call" /\ r \in Clobbered(pc) \ Saved(pc) THEN Null
                         ELSE holder[r]]
  /\ UNCHANGED <<prog, dead, graph, out, pos, neighbors, preferential_regs, live_at_call,
                 registers_used, reg>>

Next == \/ build_control_flow_graph
        \/ find_in_and_out_liveness_sets
        \/ create_interference_graph_connections
        \/ color_graph
        \/ Enter
        \/ \E j \in DOMAIN prog : Execute(j)

Spec == Init /\ [][Next]_vars

-----------------------------------------------------------------------------
\* Whatever assignment respects the interference graph, and whatever is
\* called in between, a variable read from its register is read with the
\* value last assigned to it. (An assignment of a variable to itself, which
\* the analysis ignores, reads a value nobody uses.)
ReadsOwnValue ==
  pc # 0 /\ pc \notin dead /\ ~NullAssignment(prog[pc]) =>
    \A v \in Operands(prog[pc]) \cap LiveRanges \cap assigned :
      reg[v] # NoReg => holder[reg[v]] = v

\* No register is kept from a variable without need: an edge joins a
\* variable to one that may be read after the former is written.
EdgesJustified ==
  pc = 1 =>
    \A e \in neighbors :
      \E i \in DOMAIN prog \ dead, w \in e :
        /\ prog[i].dest \in e \ {w}
        /\ GraphSuccessors(block, edges, i) \cap ReadFrom(prog, block, edges, dead, w) # {}

\* At a call, everything read after it and not written before that is in
\* live_at_call, and nothing else is (block.out may hold addresses too).
LiveAtCallExact ==
  pc = 1 =>
    \A i \in DOMAIN prog \ dead : prog[i].op = "Call" =>
      Named(live_at_call[i]) =
        {v \in LiveRanges :
           GraphSuccessors(block, edges, i) \cap ReadFrom(prog, block, edges, dead, v) # {}}
=============================================================================
