---------------------------- MODULE ThreeAddress ----------------------------
(***************************************************************************)
(* The three-address code of one function (instruction.h, instruction.c)   *)
(* and its division into basic blocks (find_block_leaders, update_blocks   *)
(* of control_flow.c).                                                     *)
(*                                                                         *)
(* A function is a sequence of instructions; an instruction is named by    *)
(* its position and a block by the position of its leader.                 *)
(***************************************************************************)
EXTENDS Integers, Sequences, FiniteSets, SequencesExt

CONSTANTS
  Locals,    \* locals and temporaries of the function: fill_id numbers them
  Formals,   \* its parameters, which fill_id never reaches
  Globals,
  Addrs,     \* the locals of type t_Addr
  local_id,  \* the ids fill_id gives the locals
  Null

ASSUME VariablesAssumption ==
  /\ Addrs \subseteq Locals
  /\ Locals \cap Formals = {} /\ Locals \cap Globals = {} /\ Formals \cap Globals = {}
  /\ local_id \in [Locals -> 0 .. Cardinality(Locals) - 1]
  /\ \A v, w \in Locals : local_id[v] = local_id[w] => v = w
  /\ Null \notin Locals \cup Formals \cup Globals

\* The variables of scope Local; a constant operand is Null here, since
\* every pass that reads operands skips constants.
LocalScope == Locals \cup Formals

\* symtabnode.id: zalloc leaves that of a formal 0.
id(v) == IF v \in Formals THEN 0 ELSE local_id[v]

Instruction(op, dest, src1, src2, jump_to) ==
  [op |-> op, dest |-> dest, src1 |-> src1, src2 |-> src2, jump_to |-> jump_to]

Jumps == {"If", "Goto"}

\* The operands is_rhs_variable makes the passes look at: SRC1 and SRC2,
\* unless SRC1 is the function of an OP_Call or OP_Enter.
Operands(i) == IF i.op \in {"Call", "Enter"} THEN {} ELSE {i.src1, i.src2} \ {Null}

\* redefines_variable: an instruction whose destination holds an address
\* writes through it, except the one that computes the address.
redefines_variable(i) == i.dest # Null /\ (i.dest \notin Addrs \/ i.op = "Index_Array")

\* lhs_set and rhs_set of find_def_and_use_sets and remove_dead_instructions:
\* the destination of a store through an address is read, not written.
lhs_set(i) == {id(v) : v \in ({i.dest} \cap LocalScope) \ Addrs}
rhs_set(i) == {id(v) : v \in ({i.dest} \cap Addrs) \cup (Operands(i) \cap LocalScope)}

\* An assignment of a variable to itself.
NullAssignment(i) == i.op = "Assign" /\ i.dest = i.src1

\* The functions the code generator emits: from OP_Enter to OP_Return, with
\* jumps to instructions of their own, operands that are variables, and
\* calls whose value is left to OP_Retrieve.
WellFormed(p) ==
  /\ Len(p) \in Nat /\ DOMAIN p = 1 .. Len(p)
  /\ Len(p) > 1 /\ p[1].op = "Enter" /\ p[Len(p)].op = "Return"
  /\ \A i \in DOMAIN p :
       /\ p[i].jump_to \in IF p[i].op \in Jumps THEN DOMAIN p ELSE {0}
       /\ p[i].dest \in LocalScope \cup Globals \cup {Null}
       /\ p[i].op = "Call" => p[i].dest = Null
       /\ Operands(p[i]) \subseteq LocalScope \cup Globals

\* A jump goes to the label it was created with.
JumpsToLabels(p) == \A i \in DOMAIN p : p[i].op \in Jumps => p[p[i].jump_to].op = "Label"

\* No parameter is assigned: an assignment to one, whose id is 0, ends the
\* liveness of the local with id 0.
AssignsNoFormal(p) == \A i \in DOMAIN p : p[i].dest \notin Formals

\* No parameter is read: reading one, whose id is 0, begins the liveness of
\* the local with id 0.
ReadsNoFormal(p) == \A i \in DOMAIN p : Operands(p[i]) \cap Formals = {}

-----------------------------------------------------------------------------
(***************************************************************************)
(* Basic blocks.                                                           *)
(***************************************************************************)

\* find_block_leaders: function entry and calls, targets of jumps, and what
\* follows a jump.
Leaders(p) ==
  {i \in DOMAIN p : p[i].op \in {"Enter", "Call"}}
    \cup {p[i].jump_to : i \in {j \in DOMAIN p : p[j].op \in Jumps}}
    \cup {i \in DOMAIN p : i > 1 /\ p[i - 1].op \in Jumps}

\* instruction.block once update_blocks is done: the leader's own block, or
\* that of the instruction before.
BlockMap(p) ==
  LET leaders == Leaders(p)
  IN  [i \in DOMAIN p |-> CHOOSE b \in leaders :
         b <= i /\ \A c \in leaders : c <= i => c <= b]

\* Wrong on purpose: a conditional jump is taken for an unconditional one.
EdgesOfGotos(p, block) ==
  {<<block[i - 1], i>> : i \in {j \in DOMAIN p \ {1} : block[j] = j /\ p[j - 1].op \notin Jumps}}
    \cup {<<block[i], p[i].jump_to>> : i \in {j \in DOMAIN p \ {1} : p[j].op \in Jumps}}

\* connect_blocks: a block is connected to the next one, even past an
\* unconditional jump, unless its last instruction jumps there anyway; and
\* a block is connected to the target of each jump it holds.
Edges(p, block) ==
  {<<block[i - 1], i>> : i \in {j \in DOMAIN p \ {1} : block[j] = j /\ p[j - 1].jump_to # j}}
    \cup {<<block[i], p[i].jump_to>> : i \in {j \in DOMAIN p \ {1} : p[j].op \in Jumps}}

Children(edges, b) == {e[2] : e \in {f \in edges : f[1] = b}}
Parents(edges, b) == {e[1] : e \in {f \in edges : f[2] = b}}

\* create_block numbers the blocks, and prepends them to the list the passes
\* walk, in the order find_block_leaders comes upon them.
CreationOrder(p) ==
  LET found == {<<2 * b, b>> : b \in {j \in DOMAIN p : p[j].op \in {"Enter", "Call"}}}
                 \cup {<<2 * i, p[i].jump_to>> : i \in {j \in DOMAIN p : p[j].op \in Jumps}}
                 \cup {<<2 * i + 1, i + 1>> : i \in {j \in DOMAIN p : p[j].op \in Jumps}}
      first == {e \in found : \A o \in found : o[2] = e[2] => e[1] <= o[1]}
  IN  [k \in 1 .. Cardinality(first) |->
         (CHOOSE e \in first : Cardinality({o \in first : o[1] < e[1]}) = k - 1)[2]]

-----------------------------------------------------------------------------
(***************************************************************************)
(* Where control really goes, the reference the graph is compared with.    *)
(***************************************************************************)
Successors(p, i) ==
  CASE p[i].op = "Return" -> {}
    [] p[i].op = "Goto" -> {p[i].jump_to}
    [] p[i].op = "If" -> {p[i].jump_to, i + 1}
    [] OTHER -> {i + 1}
=============================================================================
