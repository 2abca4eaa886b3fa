---------------------------- MODULE Translation -----------------------------
(***************************************************************************)
(* print_instructions (code_translation.c): the MIPS code of each three-   *)
(* address instruction, for variables that live in memory or in a          *)
(* register, ints and chars, and arrays reached through addresses.         *)
(*                                                                         *)
(* A behaviour executes any instructions in any order.  machine is the     *)
(* state of the MIPS program; val, element and target are what the         *)
(* variables, the array elements and the address temporaries hold by the   *)
(* meaning of the instructions, in which an assignment converts to the     *)
(* type of its destination.  A variable in a register has it for itself:   *)
(* module Interference shows when sharing one is sound.                    *)
(***************************************************************************)
EXTENDS Integers

CONSTANTS
  Scalars,         \* locals, temporaries, formals and globals, ints or chars
  Consts,          \* constant operands (symtabnode.is_constant)
  const_val,       \* the value of each
  Type,            \* "Int" or "Char", for scalars and constants
  Arrays,
  Formals,         \* the arrays that are formals: their slot has the address
  Lengths,         \* elements of each array
  Addrs,           \* temporaries of type t_Addr
  elt_type,        \* "Int" or "Char", for arrays and address temporaries
  reg,             \* live_range_node->reg of each scalar, NoReg if in memory
  NUM_REGISTERS,
  Words, Chars,    \* the contents of a word, and of a byte sign-extended
  Narrow(_),       \* the low byte of a word, sign-extended
  Negate(_),
  Arith(_, _, _),  \* the result of an operation on two words
  Holds(_, _, _),  \* whether a comparison of two words holds
  ArithOps, BoolOps,
  Junk,            \* what a register or memory that is not tracked holds
  Bypassed         \* run_peephole_optimization has bypassed temporaries

NoReg == -1
NUM_RESERVED_REG == 2
Symbols == Scalars \cup Consts
Registers == 0 .. NUM_REGISTERS + NUM_RESERVED_REG - 1

ASSUME SymbolsAssumption ==
  /\ Scalars \cap Consts = {}
  /\ Type \in [Symbols -> {"Int", "Char"}]
  /\ const_val \in [Consts -> Words]
  /\ \A k \in Consts : Type[k] = "Char" => const_val[k] \in Chars
  /\ Formals \subseteq Arrays /\ Arrays \cap Addrs = {}
  /\ Lengths \in [Arrays -> Nat]
  /\ elt_type \in [Arrays \cup Addrs -> {"Int", "Char"}]
ASSUME RegistersAssumption ==
  /\ NUM_REGISTERS \in Nat
  /\ reg \in [Scalars -> (0 .. NUM_REGISTERS - 1) \cup {NoReg}]
  /\ \A v, w \in Scalars : v # w /\ reg[v] = reg[w] => reg[v] = NoReg
ASSUME WordsAssumption ==
  /\ Chars \subseteq Words /\ Words \subseteq Int
  /\ \A x \in Words : Narrow(x) \in Chars /\ Negate(x) \in Words
  /\ \A x \in Chars : Narrow(x) = x
  /\ \A op \in ArithOps : \A x, y \in Words : Arith(op, x, y) \in Words

\* An address is an array and an offset in bytes.
Size(t) == IF t = "Int" THEN 4 ELSE 1
Element(A, i) == <<A, Size(elt_type[A]) * i>>
Elements == UNION {{Element(A, i) : i \in 0 .. Lengths[A] - 1} : A \in Arrays}

VARIABLES
  machine,  \* registers, and memory: scalars, array elements, addresses
  val,      \* the value of each scalar
  element,  \* the value of each array element
  target,   \* the element whose address each address temporary holds
  agreed    \* parameters, returned values and comparisons were the right ones

vars == <<machine, val, element, target, agreed>>

ValuesOf(t) == IF t = "Char" THEN Chars ELSE Words
Valuations == {f \in [Scalars -> Words] : \A v \in Scalars : f[v] \in ValuesOf(Type[v])}
ElementValuations ==
  {f \in [Elements -> Words] : \A e \in Elements : f[e] \in ValuesOf(elt_type[e[1]])}

-----------------------------------------------------------------------------
(***************************************************************************)
(* The emitted instructions, as functions of the state of the machine.     *)
(***************************************************************************)
is_var_in_memory(v) == v \in Consts \/ reg[v] = NoReg

find_register(v, default) ==
  IF is_var_in_memory(v) THEN default ELSE reg[v] + NUM_RESERVED_REG

get_mem_op_type(t) == IF t = "Char" THEN "b" ELSE "w"

\* lb or lw of a place of type t with contents x.
Fetched(op, x, t) == IF op = "b" THEN Narrow(x) ELSE IF t = "Int" THEN x ELSE Junk

\* sb or sw of x to a place of type t.
Put(op, x, t) == IF op = "b" /\ t = "Char" THEN Narrow(x)
                 ELSE IF op = "w" /\ t = "Int" THEN x ELSE Junk

load_from_memory(m, v, r, t) ==
  [m EXCEPT !.r[r] = IF v \in Consts THEN const_val[v]
                     ELSE Fetched(get_mem_op_type(t), m.mem[v], Type[v])]

store_at_memory(m, v, r) ==
  [m EXCEPT !.mem[v] = Put(get_mem_op_type(Type[v]), m.r[r], Type[v])]

copy_from_register(m, src, dest) == [m EXCEPT !.r[dest] = m.r[src]]

\* Wrong on purpose: the value is left as it is.
keep_in_register(m, r) == m

\* sll by 24, sra by 24.
reg_to_char(m, r) == [m EXCEPT !.r[r] = Narrow(@)]

\* The operand is loaded in register r unless it has a register.
Loaded(m, v, r) == IF is_var_in_memory(v) THEN load_from_memory(m, v, r, Type[v]) ELSE m

\* A result in register r goes to its variable.
Delivered(m, d, r) ==
  IF is_var_in_memory(d) THEN store_at_memory(m, d, r)
  ELSE IF Type[d] = "Char" THEN reg_to_char(m, r) ELSE m

OP_Assign(m, d, s) ==
  LET src == find_register(s, 0)
      dest == find_register(d, 0)
      converted(n) == IF Type[d] = "Char" /\ Type[s] = "Int" THEN reg_to_char(n, dest) ELSE n
  IN  IF is_var_in_memory(d) THEN store_at_memory(Loaded(m, s, src), d, src)
      ELSE IF is_var_in_memory(s) THEN converted(load_from_memory(m, s, dest, Type[s]))
      ELSE converted(copy_from_register(m, src, dest))

\* OP_Assign to an address: the word it holds goes to $t1.
OP_AssignThrough(m, a, s) ==
  LET src == find_register(s, 0)
      n == [Loaded(m, s, src) EXCEPT !.r[1] = m.ptr[a]]
  IN  [n EXCEPT !.elt[n.r[1]] = Put(get_mem_op_type(elt_type[a]), n.r[src], elt_type[n.r[1][1]])]

OP_UMinus(m, d, s) ==
  LET src == find_register(s, 0)
      dest == find_register(d, 0)
      n == Loaded(m, s, src)
  IN  Delivered([n EXCEPT !.r[dest] = Negate(n.r[src])], d, dest)

\* Wrong on purpose: both operands come in $t0.
BothInOneRegister(m, s1, s2) ==
  LET n == Loaded(Loaded(m, s1, find_register(s1, 0)), s2, find_register(s2, 0))
  IN  [n |-> n, x |-> n.r[find_register(s1, 0)], y |-> n.r[find_register(s2, 0)]]

\* The two operands of OP_BinaryArithmetic and OP_If.
TwoOperands(m, s1, s2) ==
  LET n == Loaded(Loaded(m, s1, find_register(s1, 0)), s2, find_register(s2, 1))
  IN  [n |-> n, x |-> n.r[find_register(s1, 0)], y |-> n.r[find_register(s2, 1)]]

OP_BinaryArithmetic(m, d, op, s1, s2) ==
  LET two == TwoOperands(m, s1, s2)
      dest == find_register(d, 0)
  IN  Delivered([two.n EXCEPT !.r[dest] = Arith(op, two.x, two.y)], d, dest)

\* la of an array, or lw of the slot of a formal.
BaseOf(m, A) == IF A \in Formals THEN m.ptr[A] ELSE Element(A, 0)

\* The address of the array goes to $t1; the subscript is scaled by sll for
\* ints. An address temporary has no live range: it is stored from $t0.
OP_Index_Array(m, a, A, s) ==
  LET src == find_register(s, 0)
      n == [Loaded(m, s, src) EXCEPT !.r[1] = BaseOf(m, A)]
      sum == <<n.r[1][1], n.r[1][2] + Size(elt_type[A]) * n.r[src]>>
  IN  [n EXCEPT !.r[0] = sum, !.ptr[a] = sum]

\* What is loaded from the address in $t0 has the type of the destination.
OP_Deref(m, d, a) ==
  LET dest == find_register(d, 0)
      n == [m EXCEPT !.r[0] = m.ptr[a]]
      x == Fetched(get_mem_op_type(Type[d]), n.elt[n.r[0]], elt_type[n.r[0][1]])
      loaded == [n EXCEPT !.r[dest] = x]
  IN  IF is_var_in_memory(d) THEN store_at_memory(loaded, d, dest) ELSE loaded

\* x is in $v0.
OP_Retrieve(m, d, x) ==
  IF is_var_in_memory(d)
    THEN [m EXCEPT !.mem[d] = Put(get_mem_op_type(Type[d]), x, Type[d])]
    ELSE [m EXCEPT !.r[find_register(d, 0)] = x]

\* What OP_Param pushes and OP_Return leaves in $v0.
Passed(m, s) ==
  LET r == find_register(s, 0)
  IN  Loaded(m, s, r).r[r]

\* No instruction reads what an earlier one left in $t0 or $t1.
Settled(m) == [m EXCEPT !.r[0] = Junk, !.r[1] = Junk]

-----------------------------------------------------------------------------
(***************************************************************************)
(* What the instructions mean.                                             *)
(***************************************************************************)
Value(v) == IF v \in Consts THEN const_val[v] ELSE val[v]
Converted(t, x) == IF t = "Char" THEN Narrow(x) ELSE x
Becomes(d, x) == val' = [val EXCEPT ![d] = Converted(Type[d], x)]

\* The scalars, one or none, whose register is r.
Holders(r) == {v \in Scalars : ~is_var_in_memory(v) /\ find_register(v, 0) = r}

Init ==
  /\ val \in Valuations
  /\ element \in ElementValuations
  /\ target = [a \in Addrs |-> Junk]
  /\ agreed = TRUE
  /\ machine =
       [r   |-> [r \in Registers |-> IF Holders(r) = {} THEN Junk
                                    ELSE val[CHOOSE v \in Holders(r) : TRUE]],
        mem |-> [v \in Scalars |-> IF is_var_in_memory(v) THEN val[v] ELSE Junk],
        elt |-> element,
        ptr |-> [a \in Addrs \cup Formals |-> IF a \in Addrs THEN Junk ELSE Element(a, 0)]]

Assign(d, s) ==
  /\ machine' = Settled(OP_Assign(machine, d, s))
  /\ Becomes(d, Value(s))
  /\ UNCHANGED <<element, target, agreed>>

\* An array access goes through the address computed just before it.
AssignThrough(a, s) ==
  /\ target[a] # Junk
  /\ machine' = Settled(OP_AssignThrough(machine, a, s))
  /\ element' = [element EXCEPT ![target[a]] = Converted(elt_type[target[a][1]], Value(s))]
  /\ UNCHANGED <<val, target, agreed>>

UMinus(d, s) ==
  /\ machine' = Settled(OP_UMinus(machine, d, s))
  /\ Becomes(d, Negate(Value(s)))
  /\ UNCHANGED <<element, target, agreed>>

BinaryArithmetic(d, op, s1, s2) ==
  /\ machine' = Settled(OP_BinaryArithmetic(machine, d, op, s1, s2))
  /\ Becomes(d, Arith(op, Value(s1), Value(s2)))
  /\ UNCHANGED <<element, target, agreed>>

\* The program keeps its subscripts within its arrays.
Index_Array(a, A, s) ==
  /\ elt_type[a] = elt_type[A]
  /\ Value(s) \in 0 .. Lengths[A] - 1
  /\ machine' = Settled(OP_Index_Array(machine, a, A, s))
  /\ target' = [target EXCEPT ![a] = Element(A, Value(s))]
  /\ UNCHANGED <<val, element, agreed>>

\* generate_function_code dereferences into a temporary of the element type.
Deref(d, a) ==
  /\ target[a] # Junk
  /\ Type[d] = elt_type[a] \/ Bypassed
  /\ machine' = Settled(OP_Deref(machine, d, a))
  /\ Becomes(d, element[target[a]])
  /\ UNCHANGED <<element, target, agreed>>

\* It retrieves a result into a temporary of the function's type t.
Retrieve(d, t, x) ==
  /\ Type[d] = t \/ Bypassed
  /\ machine' = Settled(OP_Retrieve(machine, d, x))
  /\ Becomes(d, x)
  /\ UNCHANGED <<element, target, agreed>>

\* OP_Param and OP_Return.
Pass(s) ==
  /\ agreed' = (agreed /\ Passed(machine, s) = Value(s))
  /\ UNCHANGED <<machine, val, element, target>>

\* OP_Param of an array: la, or the word in the slot of a formal.
PassArray(A) ==
  /\ agreed' = (agreed /\ BaseOf(machine, A) = Element(A, 0))
  /\ UNCHANGED <<machine, val, element, target>>

\* OP_If jumps as the comparison holds.
If(op, s1, s2) ==
  /\ LET two == TwoOperands(machine, s1, s2)
     IN  agreed' = (agreed /\ Holds(op, two.x, two.y) = Holds(op, Value(s1), Value(s2)))
  /\ UNCHANGED <<machine, val, element, target>>

Next ==
  \/ \E s \in Symbols :
       \/ Pass(s)
       \/ \E d \in Scalars : Assign(d, s) \/ UMinus(d, s)
       \/ \E a \in Addrs : AssignThrough(a, s)
       \/ \E a \in Addrs, A \in Arrays : Index_Array(a, A, s)
       \/ \E s2 \in Symbols :
            \/ \E op \in BoolOps : If(op, s, s2)
            \/ \E d \in Scalars, op \in ArithOps : BinaryArithmetic(d, op, s, s2)
  \/ \E A \in Arrays : PassArray(A)
  \/ \E d \in Scalars :
       \/ \E a \in Addrs : Deref(d, a)
       \/ \E t \in {"Int", "Char"} : \E x \in ValuesOf(t) : Retrieve(d, t, x)

Spec == Init /\ [][Next]_vars

-----------------------------------------------------------------------------
\* Where the code looks for a variable.
Location(v) == IF is_var_in_memory(v) THEN machine.mem[v] ELSE machine.r[find_register(v, 0)]

\* The code keeps every variable, in memory or in its register, every array
\* element and every address at the value the instructions give it: scratch
\* registers do not collide, ints put in chars lose their high bytes in a
\* register as they do in memory, subscripts are scaled.
LocationsAgree ==
  /\ \A v \in Scalars : Location(v) = val[v]
  /\ machine.elt = element
  /\ \A a \in Addrs : machine.ptr[a] = target[a]
  /\ \A A \in Formals : machine.ptr[A] = Element(A, 0)

\* What a call is passed, a function returns and a jump depends on is the
\* value the operands have.
ObservationsAgree == agreed

\* A char variable in a register holds what lb would have loaded.
CharRegistersNarrow ==
  \A v \in Scalars : Type[v] = "Char" /\ ~is_var_in_memory(v) =>
    machine.r[find_register(v, 0)] \in Chars
=============================================================================
