--------------------------- MODULE CallConvention ---------------------------
(***************************************************************************)
(* Which registers are saved, by whom, around the calls of a whole         *)
(* program.  Functions are optimised and translated one by one in the      *)
(* order of their definitions (parser.y), so what a caller knows of its    *)
(* callee depends on that order.  The translated program is then executed: *)
(* an activation writes the registers of its function's variables, calls   *)
(* and returns.                                                            *)
(***************************************************************************)
EXTENDS Integers, Sequences, SequencesExt

CONSTANTS
  N,              \* functions, named 1 .. N in the order they are defined
  NUM_REGISTERS,  \* registers for variables: 16 in the code
  TEMPORARIES,    \* those below it are $t registers, the others $s; 8
  Sources,        \* the programs considered
  MaxDepth        \* bound on the activations on the stack

Functions == 1 .. N
Regs == 0 .. NUM_REGISTERS - 1
T == {r \in Regs : r < TEMPORARIES}
S == Regs \ T

\* A program: the calls each function makes, the registers color_graph gives
\* its variables, whether it has locals (optimize_register_allocation skips
\* one that has none) and whether it returns an expression.
ASSUME SourcesAssumption ==
  /\ N \in Nat \ {0} /\ NUM_REGISTERS \in Nat /\ TEMPORARIES \in 0 .. NUM_REGISTERS
  /\ \A s \in Sources :
       /\ s.calls \subseteq Functions \X Functions
       /\ s.regs \in [Functions -> SUBSET Regs]
       /\ \A h \in Functions : s.regs[h] # {} => h \in s.locals
       /\ s.expr \subseteq Functions

(***************************************************************************)
(* The programs whose calls are safe.  A function that a later one calls   *)
(* uses the $t registers that everything it may call writes, and one that  *)
(* returns an expression has no variables in $s registers.                 *)
(***************************************************************************)
Covering(s) ==
  \E writes \in [Functions -> SUBSET T] :
    /\ \A h \in Functions : s.regs[h] \cap T \subseteq writes[h]
    /\ \A c \in s.calls :
         /\ writes[c[2]] \subseteq writes[c[1]]
         /\ c[2] < c[1] /\ c[2] \in s.locals => writes[c[2]] \subseteq s.regs[c[2]]

PlainReturns(s) == \A h \in s.expr : s.regs[h] \cap S = {}

VARIABLES
  source,          \* the program
  translated,      \* functions 1 .. translated are translated
  entered,         \* symtabnode.entered
  registers_used,  \* symtabnode.registers_used
  saves,           \* registers a caller would save around a call, by call
  stack,           \* activations, the running one last
  holder           \* the activation whose value a register holds, 0 if none

vars == <<source, translated, entered, registers_used, saves, stack, holder>>
program == <<source, translated, entered, registers_used, saves>>

Begin ==
  /\ translated = 0
  /\ entered = {}
  /\ registers_used = [h \in Functions |-> {}]
  /\ saves = [c \in source.calls |-> {}]
  /\ stack = <<>>
  /\ holder = [r \in Regs |-> 0]

Init == source \in Sources /\ Begin

\* Wrong on purpose: a callee not yet processed is taken to use no register.
SavedIfKnown(h, known, used) == IF h \in known THEN used[h] \cap T ELSE {}

\* save_reg_allocated_variables_in_memory: the registers that may be saved
\* around a call of h.
SavedAround(h, known, used) == IF h \in known THEN used[h] \cap T ELSE T

(***************************************************************************)
(* optimize_register_allocation, then print_instructions, of the next      *)
(* function.  While the graph is built, registers_used collects those of   *)
(* the functions called; color_graph starts it afresh, so that what stays  *)
(* is the registers of the function's own variables.                       *)
(***************************************************************************)
Translate ==
  /\ translated < N
  /\ LET h == translated + 1
     IN  /\ entered' = IF h \in source.locals THEN entered \cup {h} ELSE entered
         /\ registers_used' = [registers_used EXCEPT ![h] = source.regs[h]]
         /\ saves' = [c \in source.calls |->
              IF c[1] # h THEN saves[c]
              ELSE SavedAround(c[2], entered', registers_used')]
         /\ translated' = h
  /\ UNCHANGED <<source, stack, holder>>

Depth == Len(stack)
Running == stack[Depth]

\* An activation: its function, the caller's registers read after it
\* returns, those of them the caller saved (save_reg_allocated_variables),
\* the contents of the $s registers saved at its entry
\* (save_registers_at_function_enter), and whether it executed OP_Leave.
Activation(h, live, kept) ==
  [function |-> h, live |-> live, kept |-> kept,
   callee_saved |-> [r \in registers_used[h] \cap S |-> holder[r]], left |-> FALSE]

Start ==
  /\ translated = N
  /\ stack = <<>>
  /\ stack' = <<Activation(N, {}, {})>>
  /\ holder' = [r \in Regs |-> 0]
  /\ UNCHANGED program

\* OP_Leave comes before the code of the returned expression: an activation
\* goes on computing after it when it returns one.
MayCompute == stack # <<>> /\ (Running.left => Running.function \in source.expr)

Write(r) ==
  /\ MayCompute
  /\ r \in source.regs[Running.function]
  /\ holder' = [holder EXCEPT ![r] = Depth]
  /\ UNCHANGED <<program, stack>>

\* live: registers with values of the running activation read after the call.
Call(h, live) ==
  /\ MayCompute
  /\ Depth < MaxDepth
  /\ <<Running.function, h>> \in source.calls
  /\ live \subseteq source.regs[Running.function]
  /\ \A r \in live : holder[r] = Depth
  /\ stack' = Append(stack, Activation(h, live, live \cap saves[<<Running.function, h>>]))
  /\ UNCHANGED <<program, holder>>

\* OP_Leave: restore_callee_saved_registers.
Leave ==
  /\ stack # <<>>
  /\ ~Running.left
  /\ stack' = [stack EXCEPT ![Depth].left = TRUE]
  /\ holder' = [r \in Regs |-> IF r \in DOMAIN Running.callee_saved THEN Running.callee_saved[r]
                               ELSE holder[r]]
  /\ UNCHANGED program

\* OP_Return, and the caller's load_reg_allocated_variables.
Return ==
  /\ stack # <<>>
  /\ Running.left
  /\ stack' = Front(stack)
  /\ holder' = [r \in Regs |-> IF r \in Running.kept THEN Depth - 1 ELSE holder[r]]
  /\ UNCHANGED program

Next == \/ Translate
        \/ Start
        \/ \E r \in Regs : Write(r)
        \/ \E h \in Functions, live \in SUBSET Regs : Call(h, live)
        \/ Leave
        \/ Return

Spec == Init /\ [][Next]_vars

-----------------------------------------------------------------------------
\* When a call returns, the caller finds in its registers every value it
\* goes on to read, whatever the callee and its callees did: what the caller
\* saves of the $t registers and the callee of the $s ones is enough.
LiveAcrossCalls ==
  [][Depth > 1 /\ Len(stack') < Depth =>
       \A r \in Running.live : holder'[r] = Depth - 1]_vars

\* The same of the $s registers, which the callee saves and restores.
CalleeSavedKept ==
  [][Depth > 1 /\ Len(stack') < Depth =>
       \A r \in Running.live \cap S : holder'[r] = Depth - 1]_vars
=============================================================================
