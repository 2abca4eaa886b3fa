---------------------------- MODULE StackFrames -----------------------------
(***************************************************************************)
(* The activation records of the translated program, word by word: what    *)
(* OP_Param, OP_Call, OP_Enter, OP_Leave and OP_Return of                  *)
(* code_translation.c do to $sp, $fp, $ra and the $s registers, with       *)
(* activations that write their locals and their registers in between.     *)
(* Addresses are in words, and the stack grows from 0 down.                *)
(***************************************************************************)
EXTENDS Integers, Sequences, SequencesExt

CONSTANTS
  NumProcedures,  \* functions, named 1 .. NumProcedures; 1 is main
  Programs,       \* the programs considered
  MaxSaved,       \* bound on the $s registers a function uses
  MaxFrames,      \* bound on the activations
  StackWords      \* bound on the words of the stack

Procedures == 1 .. NumProcedures
SRegs == 1 .. MaxSaved
Stack == -StackWords .. -1

VARIABLES
  prog,     \* of each function num_formals, the number saved of $s registers
            \* in registers_used, which color_graph gives out from the
            \* lowest, and the words of byte_size; the set expr of those
            \* that return an expression
  mem,      \* the contents of the stack
  sp, fp,
  sreg,     \* the contents of the $s registers
  calling,  \* the function whose arguments are being pushed, 0 if none
  pushed,   \* how many of them have been
  frames    \* the activations, the running one last

frame_vars == <<prog, mem, sp, fp, sreg, calling, pushed, frames>>

\* A word, named for the activation it belongs to, what it is and a number.
Word(d, what, n) == [of |-> d, what |-> what, n |-> n]

Level == Len(frames)
Current == frames[Level]
saved(d) == prog.saved[frames[d].function]
num_formals(d) == prog.num_formals[frames[d].function]
words(d) == prog.words[frames[d].function]

\* Wrong on purpose: $fp is stored where $ra goes.
SwappedPrologue(h, caller_fp, regs, bottom) ==
  LET k == prog.saved[h]
  IN  [a \in bottom .. bottom + k + 1 |->
         IF a < bottom + k THEN regs[a - bottom + 1]
         ELSE IF a = bottom + k THEN Word(Level, "fp", caller_fp) ELSE Word(Level, "ra", 0)]

\* save_registers_at_function_enter: the $s registers, $ra and $fp, upwards
\* from bottom.
save_registers_at_function_enter(h, caller_fp, regs, bottom) ==
  LET k == prog.saved[h]
  IN  [a \in bottom .. bottom + k + 1 |->
         IF a < bottom + k THEN regs[a - bottom + 1]
         ELSE IF a = bottom + k THEN Word(Level, "ra", 0) ELSE Word(Level, "fp", caller_fp)]

\* jal, then OP_Enter of h: $fp is the lowest of the saved words.
OP_Enter(h) ==
  LET bottom == sp - prog.saved[h] - 2
  IN  /\ Level < MaxFrames
      /\ bottom - prog.words[h] \in Stack
      /\ LET stored == save_registers_at_function_enter(h, fp, sreg, bottom)
         IN  mem' = [a \in Stack |-> IF a \in DOMAIN stored THEN stored[a] ELSE mem[a]]
      /\ fp' = bottom
      /\ sp' = bottom - prog.words[h]
      /\ frames' = Append(frames, [function |-> h, base |-> bottom, entry |-> sreg,
                                   written |-> {}, left |-> FALSE])

EmptyStack ==
  /\ mem = [a \in Stack |-> Word(0, "junk", 0)]
  /\ sp = 0
  /\ fp = 0
  /\ sreg = [r \in SRegs |-> Word(0, "reg", r)]
  /\ calling = 0
  /\ pushed = 0
  /\ frames = <<>>

InitFrames == prog \in Programs /\ EmptyStack

\* main: j _main
StartMain ==
  /\ frames = <<>>
  /\ OP_Enter(1)
  /\ UNCHANGED <<prog, sreg, calling, pushed>>

\* An activation computes after OP_Leave only what it returns.
FrameComputes ==
  frames # <<>> /\ calling = 0 /\ (Current.left => Current.function \in prog.expr)

\* A local, which fill_local_allocations placed below $fp, or a formal, which
\* SymTabRecordFunInfo placed two words above it.
WriteVariable(offset) ==
  /\ FrameComputes
  /\ offset \in -words(Level) .. -1 \cup 2 .. num_formals(Level) + 1
  /\ mem' = [mem EXCEPT ![fp + offset] = Word(Level, "variable", offset)]
  /\ frames' = [frames EXCEPT ![Level].written = @ \cup {offset}]
  /\ UNCHANGED <<prog, sp, fp, sreg, calling, pushed>>

WriteRegister(r) ==
  /\ FrameComputes
  /\ r \in 1 .. saved(Level)
  /\ sreg' = [sreg EXCEPT ![r] = Word(Level, "reg", r)]
  /\ UNCHANGED <<prog, mem, sp, fp, calling, pushed, frames>>

\* Wrong on purpose: from the first argument to the last.
OP_ParamForwards(h) ==
  /\ FrameComputes \/ calling = h
  /\ pushed < prog.num_formals[h]
  /\ Level < MaxFrames
  /\ sp - 1 \in Stack
  /\ calling' = h
  /\ pushed' = pushed + 1
  /\ sp' = sp - 1
  /\ mem' = [mem EXCEPT ![sp'] = Word(Level, "argument", pushed + 1)]
  /\ UNCHANGED <<prog, fp, sreg, frames>>

\* OP_Param, from the last argument to the first, once all are computed.
OP_Param(h) ==
  /\ FrameComputes \/ calling = h
  /\ pushed < prog.num_formals[h]
  /\ Level < MaxFrames
  /\ sp - 1 \in Stack
  /\ calling' = h
  /\ pushed' = pushed + 1
  /\ sp' = sp - 1
  /\ mem' = [mem EXCEPT ![sp'] = Word(Level, "argument", prog.num_formals[h] - pushed)]
  /\ UNCHANGED <<prog, fp, sreg, frames>>

OP_Call(h) ==
  /\ FrameComputes \/ calling = h
  /\ pushed = prog.num_formals[h]
  /\ OP_Enter(h)
  /\ calling' = 0
  /\ pushed' = 0
  /\ UNCHANGED <<prog, sreg>>

\* OP_Leave: restore_callee_saved_registers.  Without a $s register to
\* restore nothing moves.
OP_Leave ==
  /\ frames # <<>> /\ calling = 0 /\ ~Current.left
  /\ LET k == saved(Level)
     IN  /\ sp' = IF k > 0 THEN fp ELSE sp
         /\ sreg' = [r \in SRegs |-> IF r <= k THEN mem[fp + r - 1] ELSE sreg[r]]
         /\ fp' = fp + k
  /\ frames' = [frames EXCEPT ![Level].left = TRUE]
  /\ UNCHANGED <<prog, mem, calling, pushed>>

\* Wrong on purpose: the arguments are not popped.
OP_ReturnOnly ==
  /\ Level > 1 /\ calling = 0 /\ Current.left
  /\ fp' = mem[fp + 1].n
  /\ sp' = fp + 2
  /\ frames' = Front(frames)
  /\ UNCHANGED <<prog, mem, sreg, calling, pushed>>

\* OP_Return, and the pop of the arguments after the caller's jal.
OP_Return ==
  /\ Level > 1 /\ calling = 0 /\ Current.left
  /\ fp' = mem[fp + 1].n
  /\ sp' = fp + 2 + num_formals(Level)
  /\ frames' = Front(frames)
  /\ UNCHANGED <<prog, mem, sreg, calling, pushed>>

NextFrames ==
  \/ StartMain
  \/ \E offset \in -StackWords .. StackWords : WriteVariable(offset)
  \/ \E r \in SRegs : WriteRegister(r)
  \/ \E h \in Procedures : OP_Param(h) \/ OP_Call(h)
  \/ OP_Leave
  \/ OP_Return

FramesSpec == InitFrames /\ [][NextFrames]_frame_vars

-----------------------------------------------------------------------------
\* Whatever activations were begun and ended since, each finds in its frame
\* what it wrote to its variables, and above it the registers its caller had,
\* the way back and the caller's $fp.
FramesIntact == \A d \in 1 .. Level :
  LET f == frames[d]
  IN  /\ \A offset \in f.written : mem[f.base + offset] = Word(d, "variable", offset)
      /\ \A r \in 1 .. saved(d) : mem[f.base + r - 1] = f.entry[r]
      /\ mem[f.base + saved(d)] = Word(d - 1, "ra", 0)
      /\ mem[f.base + saved(d) + 1] =
           Word(d - 1, "fp", IF d = 1 THEN 0 ELSE frames[d - 1].base)

\* A call returns to its caller, with $fp, $sp and the $s registers as they
\* were when the caller began to push the arguments.
CallsRestore ==
  [][Level > 1 /\ Len(frames') < Level =>
       /\ mem[fp] = Word(Level - 1, "ra", 0)
       /\ sreg' = Current.entry
       /\ fp' = frames[Level - 1].base
       /\ sp' = frames[Level - 1].base - words(Level - 1)]_frame_vars

\* A function finds in its formals what its caller passed, until it assigns
\* to them.
FormalsReach == \A d \in 1 .. Level :
  \A i \in 1 .. num_formals(d) :
    i + 1 \in frames[d].written
      \/ mem[frames[d].base + i + 1] = Word(d - 1, "argument", i)
=============================================================================
