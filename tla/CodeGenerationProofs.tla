------------------------ MODULE CodeGenerationProofs ------------------------
(***************************************************************************)
(* Theorems about Translation for every set of variables, any types, any   *)
(* word and byte, and any assignment of registers: the MIPS code computes  *)
(* what the instructions mean, as long as temporaries are not bypassed.    *)
(* And about Temporaries for any bounds: no temporary is freed twice or    *)
(* overwritten before it is read.                                          *)
(*                                                                         *)
(* The argument for Translation: whatever the place of its operands, a     *)
(* template loads them without disturbing anything but $t0 and $t1         *)
(* (OperandLoaded), computes, and delivers the result to the place of its  *)
(* destination in the form its type has there (ResultDelivered); nothing   *)
(* else moves.  For Temporaries: the temporaries of the pending places and *)
(* those of each free list are distinct and of the right types, which      *)
(* taking one (CreateTemporary) and returning any number of them           *)
(* (FreeTemporaries) keep, whichever the code does first.                  *)
(***************************************************************************)
EXTENDS Translation, Temporaries, InductionProofs, FiniteSetTheorems

\* What registers and memory may contain.
Contents == Words \cup Elements \cup {Element(A, 0) : A \in Arrays} \cup {Junk}
Machines == [r   : [Registers -> Contents],
             mem : [Scalars -> Contents],
             elt : [Elements -> Contents],
             ptr : [Addrs \cup Formals -> Contents]]

\* Scalar v has value x in m.
Holding(m, v, x) == x = IF is_var_in_memory(v) THEN m.mem[v] ELSE m.r[find_register(v, 0)]

\* m agrees with the program on array elements and addresses.
RestAgrees(m) ==
  /\ m.elt = element
  /\ \A a \in Addrs : m.ptr[a] = target[a]
  /\ \A A \in Formals : m.ptr[A] = Element(A, 0)

\* An address temporary that is set points to an element of its type.
TargetsTyped ==
  \A a \in Addrs : target[a] # Junk =>
    target[a] \in Elements /\ elt_type[target[a][1]] = elt_type[a]

ValuesTyped ==
  /\ val \in Valuations
  /\ element \in ElementValuations
  /\ DOMAIN target = Addrs
  /\ TargetsTyped

IInv ==
  /\ ValuesTyped
  /\ machine \in Machines
  /\ \A v \in Scalars : Holding(machine, v, val[v])
  /\ RestAgrees(machine)
  /\ agreed = TRUE

-----------------------------------------------------------------------------
\* A variable in a register has one of its own, which is not $t0 nor $t1.
LEMMA RegisterOfScalar ==
  ASSUME NEW v \in Scalars, ~is_var_in_memory(v), NEW k
  PROVE  /\ find_register(v, k) = find_register(v, 0)
         /\ find_register(v, k) \in Registers
         /\ find_register(v, k) # 0 /\ find_register(v, k) # 1
         /\ \A w \in Scalars : w # v /\ ~is_var_in_memory(w) =>
              find_register(w, 0) # find_register(v, k)
  BY RegistersAssumption
     DEF find_register, is_var_in_memory, NoReg, NUM_RESERVED_REG, Registers, Symbols

\* $t0 and $t1 exist.
LEMMA Scratch == 0 \in Registers /\ 1 \in Registers
  BY RegistersAssumption DEF Registers, NUM_RESERVED_REG

\* The value of an operand is one of its type.
LEMMA OperandValue ==
  ASSUME ValuesTyped, NEW s \in Symbols
  PROVE  /\ Value(s) \in Words
         /\ Type[s] = "Char" => Value(s) \in Chars
         /\ s \notin Consts => s \in Scalars /\ Value(s) = val[s]
  BY SymbolsAssumption, WordsAssumption
     DEF ValuesTyped, Valuations, ValuesOf, Value, Symbols

\* Loading an operand, in its register or in $t0 or $t1, gives its value and
\* changes nothing but that scratch register.
LEMMA OperandLoaded ==
  ASSUME ValuesTyped, NEW m \in Machines, NEW s \in Symbols, NEW k \in {0, 1},
         s \in Scalars => Holding(m, s, val[s])
  PROVE  LET n == Loaded(m, s, find_register(s, k))
         IN  /\ n \in Machines
             /\ n.mem = m.mem /\ n.elt = m.elt /\ n.ptr = m.ptr
             /\ n.r[find_register(s, k)] = Value(s)
             /\ \A i \in Registers \ {k} : n.r[i] = m.r[i]
<1>1. CASE is_var_in_memory(s)
  <2>1. find_register(s, k) = k /\ k \in Registers
    BY <1>1, Scratch DEF find_register
  <2>2. PICK x : x = Value(s) /\ x \in Words
                 /\ Loaded(m, s, k) = [m EXCEPT !.r[k] = x]
    <3>1. CASE s \in Consts
      BY <1>1, <3>1, OperandValue DEF Loaded, load_from_memory, Value
    <3>2. CASE s \notin Consts
      <4>1. s \in Scalars /\ m.mem[s] = Value(s)
        BY <1>1, <3>2, OperandValue DEF Holding
      <4>2. Type[s] \in {"Int", "Char"}
        BY SymbolsAssumption
      <4>3. Fetched(get_mem_op_type(Type[s]), m.mem[s], Type[s]) = Value(s)
        BY <4>1, <4>2, OperandValue, WordsAssumption DEF Fetched, get_mem_op_type
      <4> QED BY <1>1, <3>2, <4>3, OperandValue DEF Loaded, load_from_memory
    <3> QED BY <3>1, <3>2
  <2>3. [m EXCEPT !.r[k] = x] \in Machines
    BY <2>1, <2>2 DEF Machines, Contents
  <2> QED BY <2>1, <2>2, <2>3 DEF Machines
<1>2. CASE ~is_var_in_memory(s)
  <2>1. s \in Scalars
    BY <1>2 DEF is_var_in_memory, Symbols
  <2> QED BY <1>2, <2>1, RegisterOfScalar, OperandValue DEF Loaded, Holding, Value, is_var_in_memory
<1> QED BY <1>1, <1>2

-----------------------------------------------------------------------------
\* m agrees with the program on every scalar.
ScalarsAgree(m) == \A v \in Scalars : Holding(m, v, val[v])

\* m agrees with the program once it has assigned x to d.
Assigned(m, d, x) ==
  /\ m \in Machines
  /\ RestAgrees(m)
  /\ Holding(m, d, Converted(Type[d], x))
  /\ \A v \in Scalars \ {d} : Holding(m, v, val[v])

\* What an assignment converts to is a value of its type.
LEMMA ConversionTyped ==
  ASSUME NEW d \in Scalars, NEW x \in Words
  PROVE  /\ Converted(Type[d], x) \in ValuesOf(Type[d])
         /\ Converted(Type[d], x) \in Words
         /\ Type[d] \in {"Int", "Char"}
         /\ Put(get_mem_op_type(Type[d]), x, Type[d]) = Converted(Type[d], x)
  BY SymbolsAssumption, WordsAssumption
     DEF Converted, ValuesOf, Put, get_mem_op_type, Symbols

InRegister(m, r, x) == [m EXCEPT !.r[r] = x]
InMemory(m, v, x) == [m EXCEPT !.mem[v] = x]

\* Register r is no other scalar's than d.
Clear(r, d) ==
  /\ r \in Registers
  /\ \A v \in Scalars \ {d} : ~is_var_in_memory(v) => find_register(v, 0) # r

\* $t0, $t1 and the destination's register are clear.
LEMMA Clears ==
  ASSUME NEW d \in Scalars
  PROVE  Clear(0, d) /\ Clear(1, d) /\ Clear(find_register(d, 0), d)
  BY RegisterOfScalar, Scratch DEF find_register, Clear

\* Writing a clear register disturbs no other variable.
LEMMA RegisterWritten ==
  ASSUME NEW m \in Machines, NEW d \in Scalars, NEW r, Clear(r, d),
         NEW x \in Contents, NEW n, n = InRegister(m, r, x)
  PROVE  /\ n \in Machines
         /\ n.mem = m.mem /\ n.elt = m.elt /\ n.ptr = m.ptr
         /\ n.r[r] = x
         /\ \A v \in Scalars \ {d} : \A y : Holding(m, v, y) => Holding(n, v, y)
<1>1. r \in Registers
  BY DEF Clear
<1>2. \A v \in Scalars \ {d} : ~is_var_in_memory(v) => find_register(v, 0) # r
  BY DEF Clear
<1>3. n \in Machines /\ n.mem = m.mem /\ n.elt = m.elt /\ n.ptr = m.ptr /\ n.r[r] = x
        /\ \A i \in Registers \ {r} : n.r[i] = m.r[i]
  BY <1>1 DEF Machines, InRegister
<1>4. ASSUME NEW v \in Scalars \ {d}, NEW y, Holding(m, v, y)
      PROVE  Holding(n, v, y)
  <2>1. CASE is_var_in_memory(v)
    BY <1>3, <1>4, <2>1 DEF Holding
  <2>2. CASE ~is_var_in_memory(v)
    <3>1. find_register(v, 0) \in Registers \ {r}
      BY <1>2, <2>2, RegisterOfScalar
    <3> QED BY <1>3, <1>4, <2>2, <3>1 DEF Holding
  <2> QED BY <2>1, <2>2
<1> QED BY <1>3, <1>4

\* Storing to the place of a scalar in memory disturbs nothing else.
LEMMA MemoryWritten ==
  ASSUME NEW m \in Machines, NEW d \in Scalars, is_var_in_memory(d), NEW x \in Contents,
         NEW n, n = InMemory(m, d, x)
  PROVE  /\ n \in Machines
         /\ n.elt = m.elt /\ n.ptr = m.ptr
         /\ Holding(n, d, x)
         /\ \A v \in Scalars \ {d} : \A y : Holding(m, v, y) => Holding(n, v, y)
<1>1. n \in Machines /\ n.r = m.r /\ n.elt = m.elt /\ n.ptr = m.ptr /\ n.mem[d] = x
        /\ \A v \in Scalars \ {d} : n.mem[v] = m.mem[v]
  BY DEF Machines, InMemory
<1>2. ASSUME NEW v \in Scalars \ {d}, NEW y, Holding(m, v, y)
      PROVE  Holding(n, v, y)
  BY <1>1, <1>2 DEF Holding
<1>3. Holding(n, d, x)
  BY <1>1 DEF Holding
<1> QED BY <1>1, <1>2, <1>3

\* Forgetting $t0 and $t1 disturbs no variable.
LEMMA SettledKeeps ==
  ASSUME NEW m \in Machines, NEW n, n = Settled(m)
  PROVE  /\ n \in Machines /\ n.elt = m.elt /\ n.ptr = m.ptr
         /\ \A v \in Scalars : \A y : Holding(m, v, y) => Holding(n, v, y)
<1>1. Junk \in Contents
  BY DEF Contents
<1>2. \A v \in Scalars : ~is_var_in_memory(v) => find_register(v, 0) \in Registers \ {0, 1}
  BY RegisterOfScalar
<1>3. n \in Machines /\ n.mem = m.mem /\ n.elt = m.elt /\ n.ptr = m.ptr
        /\ \A i \in Registers \ {0, 1} : n.r[i] = m.r[i]
  BY <1>1, Scratch DEF Settled, Machines
<1>4. ASSUME NEW v \in Scalars, NEW y, Holding(m, v, y)
      PROVE  Holding(n, v, y)
  <2>1. CASE is_var_in_memory(v)
    BY <1>3, <1>4, <2>1 DEF Holding
  <2>2. CASE ~is_var_in_memory(v)
    BY <1>2, <1>3, <1>4, <2>2 DEF Holding
  <2> QED BY <2>1, <2>2
<1> QED BY <1>3, <1>4

\* A result in the register of its destination, or in $t0, reaches it in the
\* form its type has there.
LEMMA ResultDelivered ==
  ASSUME ValuesTyped, NEW m \in Machines, NEW d \in Scalars, NEW x \in Words,
         ScalarsAgree(m), RestAgrees(m),
         NEW r, r = find_register(d, 0)
  PROVE  Assigned(Delivered(InRegister(m, r, x), d, r), d, x)
<1>1. PICK n : n = InRegister(m, r, x)
  OBVIOUS
<1>2. Clear(r, d) /\ x \in Contents /\ Converted(Type[d], x) \in Contents
  BY ConversionTyped, Clears DEF Contents
<1>3. /\ n \in Machines /\ n.mem = m.mem /\ n.elt = m.elt /\ n.ptr = m.ptr /\ n.r[r] = x
      /\ \A v \in Scalars \ {d} : Holding(n, v, val[v])
  <2>1. /\ n \in Machines /\ n.mem = m.mem /\ n.elt = m.elt /\ n.ptr = m.ptr /\ n.r[r] = x
        /\ \A v \in Scalars \ {d} : \A y : Holding(m, v, y) => Holding(n, v, y)
    BY <1>1, <1>2, RegisterWritten
  <2> QED BY <2>1 DEF ScalarsAgree
<1>4. RestAgrees(n)
  BY <1>3 DEF RestAgrees
<1>5. Assigned(Delivered(n, d, r), d, x)
  <2>1. CASE is_var_in_memory(d)
    <3>1. Delivered(n, d, r) = InMemory(n, d, Converted(Type[d], x))
      BY <1>3, <2>1, ConversionTyped DEF Delivered, store_at_memory, InMemory
    <3> QED BY <1>2, <1>3, <1>4, <2>1, <3>1, MemoryWritten DEF Assigned, RestAgrees
  <2>2. CASE ~is_var_in_memory(d) /\ Type[d] = "Char"
    <3>1. Delivered(n, d, r) = InRegister(n, r, Converted(Type[d], x))
      BY <1>3, <2>2 DEF Delivered, reg_to_char, Converted, InRegister
    <3>2. /\ Delivered(n, d, r) \in Machines
          /\ Delivered(n, d, r).elt = n.elt /\ Delivered(n, d, r).ptr = n.ptr
          /\ Delivered(n, d, r).r[r] = Converted(Type[d], x)
          /\ \A v \in Scalars \ {d} : \A y : Holding(n, v, y) => Holding(Delivered(n, d, r), v, y)
      BY <1>2, <1>3, <3>1, RegisterWritten
    <3>3. \A v \in Scalars \ {d} : Holding(Delivered(n, d, r), v, val[v])
      BY <1>3, <3>2
    <3>4. Holding(Delivered(n, d, r), d, Converted(Type[d], x))
      BY <2>2, <3>2 DEF Holding
    <3> QED BY <1>4, <3>2, <3>3, <3>4 DEF Assigned, RestAgrees
  <2>3. CASE ~is_var_in_memory(d) /\ Type[d] # "Char"
    BY <1>3, <1>4, <2>3 DEF Delivered, Assigned, Holding, Converted
  <2> QED BY <2>1, <2>2, <2>3
<1> QED BY <1>1, <1>5

-----------------------------------------------------------------------------
\* m agrees with the program.
Agrees(m) == m \in Machines /\ ScalarsAgree(m) /\ RestAgrees(m)

\* With an operand loaded for $t0 the machine still agrees.
LEMMA OperandInT0 ==
  ASSUME ValuesTyped, NEW m, Agrees(m), NEW s \in Symbols,
         NEW n, n = Loaded(m, s, find_register(s, 0))
  PROVE  Agrees(n) /\ n.r[find_register(s, 0)] = Value(s)
<1>1. /\ n \in Machines
      /\ n.mem = m.mem /\ n.elt = m.elt /\ n.ptr = m.ptr
      /\ n.r[find_register(s, 0)] = Value(s)
      /\ \A i \in Registers \ {0} : n.r[i] = m.r[i]
  BY OperandLoaded DEF Agrees, ScalarsAgree
<1>2. ASSUME NEW v \in Scalars PROVE Holding(n, v, val[v])
  <2>1. Holding(m, v, val[v])
    BY DEF Agrees, ScalarsAgree
  <2>2. ~is_var_in_memory(v) => find_register(v, 0) \in Registers \ {0}
    BY RegisterOfScalar
  <2> QED BY <1>1, <2>1, <2>2 DEF Holding
<1> QED BY <1>1, <1>2 DEF Agrees, ScalarsAgree, RestAgrees

\* The same for $t1, and the operand loaded before is still there.
LEMMA OperandInT1 ==
  ASSUME ValuesTyped, NEW m, Agrees(m), NEW s \in Symbols,
         NEW n, n = Loaded(m, s, find_register(s, 1))
  PROVE  /\ Agrees(n) /\ n.r[find_register(s, 1)] = Value(s)
         /\ \A i \in Registers \ {1} : n.r[i] = m.r[i]
<1>1. /\ n \in Machines
      /\ n.mem = m.mem /\ n.elt = m.elt /\ n.ptr = m.ptr
      /\ n.r[find_register(s, 1)] = Value(s)
      /\ \A i \in Registers \ {1} : n.r[i] = m.r[i]
  BY OperandLoaded DEF Agrees, ScalarsAgree
<1>2. ASSUME NEW v \in Scalars PROVE Holding(n, v, val[v])
  <2>1. Holding(m, v, val[v])
    BY DEF Agrees, ScalarsAgree
  <2>2. ~is_var_in_memory(v) => find_register(v, 0) \in Registers \ {1}
    BY RegisterOfScalar
  <2> QED BY <1>1, <2>1, <2>2 DEF Holding
<1> QED BY <1>1, <1>2 DEF Agrees, ScalarsAgree, RestAgrees

\* The register an operand is read from.
LEMMA OperandRegister ==
  ASSUME NEW s \in Symbols
  PROVE  find_register(s, 0) \in Registers \ {1}
<1>1. CASE is_var_in_memory(s)
  BY <1>1, Scratch DEF find_register
<1>2. CASE ~is_var_in_memory(s)
  <2>1. s \in Scalars
    BY <1>2 DEF is_var_in_memory, Symbols
  <2> QED BY <1>2, <2>1, RegisterOfScalar
<1> QED BY <1>1, <1>2

\* OP_BinaryArithmetic and OP_If have the values of both operands at once.
LEMMA BothOperands ==
  ASSUME ValuesTyped, NEW m, Agrees(m), NEW s1 \in Symbols, NEW s2 \in Symbols
  PROVE  LET two == TwoOperands(m, s1, s2)
         IN  Agrees(two.n) /\ two.x = Value(s1) /\ two.y = Value(s2)
<1>1. PICK n1 : n1 = Loaded(m, s1, find_register(s1, 0))
  OBVIOUS
<1>2. PICK n2 : n2 = Loaded(n1, s2, find_register(s2, 1))
  OBVIOUS
<1>3. Agrees(n1) /\ n1.r[find_register(s1, 0)] = Value(s1)
  BY <1>1, OperandInT0
<1>4. /\ Agrees(n2) /\ n2.r[find_register(s2, 1)] = Value(s2)
      /\ \A i \in Registers \ {1} : n2.r[i] = n1.r[i]
  BY <1>2, <1>3, OperandInT1
<1>5. n2.r[find_register(s1, 0)] = Value(s1)
  BY <1>3, <1>4, OperandRegister
<1>6. TwoOperands(m, s1, s2) = [n |-> n2, x |-> n2.r[find_register(s1, 0)],
                                y |-> n2.r[find_register(s2, 1)]]
  BY <1>1, <1>2 DEF TwoOperands
<1> QED BY <1>4, <1>5, <1>6

-----------------------------------------------------------------------------
LEMMA BinaryArithmeticAssigns ==
  ASSUME ValuesTyped, NEW m, Agrees(m), NEW d \in Scalars, NEW op \in ArithOps,
         NEW s1 \in Symbols, NEW s2 \in Symbols
  PROVE  Assigned(OP_BinaryArithmetic(m, d, op, s1, s2), d, Arith(op, Value(s1), Value(s2)))
<1>1. PICK two : two = TwoOperands(m, s1, s2)
  OBVIOUS
<1>2. Agrees(two.n) /\ two.x = Value(s1) /\ two.y = Value(s2)
  BY <1>1, BothOperands
<1>3. PICK r : r = find_register(d, 0)
  OBVIOUS
<1>4. PICK x : x = Arith(op, Value(s1), Value(s2))
  OBVIOUS
<1>5. x \in Words
  BY <1>4, OperandValue, WordsAssumption
<1>6. OP_BinaryArithmetic(m, d, op, s1, s2) = Delivered(InRegister(two.n, r, x), d, r)
  BY <1>1, <1>2, <1>3, <1>4 DEF OP_BinaryArithmetic, InRegister
<1> QED BY <1>2, <1>3, <1>4, <1>5, <1>6, ResultDelivered DEF Agrees

LEMMA UMinusAssigns ==
  ASSUME ValuesTyped, NEW m, Agrees(m), NEW d \in Scalars, NEW s \in Symbols
  PROVE  Assigned(OP_UMinus(m, d, s), d, Negate(Value(s)))
<1>1. PICK n : n = Loaded(m, s, find_register(s, 0))
  OBVIOUS
<1>2. Agrees(n) /\ n.r[find_register(s, 0)] = Value(s)
  BY <1>1, OperandInT0
<1>3. PICK r : r = find_register(d, 0)
  OBVIOUS
<1>4. Negate(Value(s)) \in Words
  BY OperandValue, WordsAssumption
<1>5. OP_UMinus(m, d, s) = Delivered(InRegister(n, r, Negate(Value(s))), d, r)
  BY <1>1, <1>2, <1>3 DEF OP_UMinus, InRegister
<1> QED BY <1>2, <1>3, <1>4, <1>5, ResultDelivered DEF Agrees

\* A destination in memory takes the value from the operand's register.
LEMMA AssignInMemory ==
  ASSUME ValuesTyped, NEW m, Agrees(m), NEW d \in Scalars, NEW s \in Symbols,
         is_var_in_memory(d)
  PROVE  Assigned(OP_Assign(m, d, s), d, Value(s))
<1>1. PICK n : n = Loaded(m, s, find_register(s, 0))
  OBVIOUS
<1>2. Agrees(n) /\ n.r[find_register(s, 0)] = Value(s)
  BY <1>1, OperandInT0
<1>3. PICK x : x = Converted(Type[d], Value(s))
  OBVIOUS
<1>4. x \in Contents /\ Put(get_mem_op_type(Type[d]), Value(s), Type[d]) = x
  BY <1>3, OperandValue, ConversionTyped DEF Contents
<1>5. PICK n2 : n2 = InMemory(n, d, x)
  OBVIOUS
<1>6. OP_Assign(m, d, s) = n2
  BY <1>1, <1>2, <1>4, <1>5 DEF OP_Assign, store_at_memory, InMemory
<1>7. /\ n2 \in Machines
      /\ n2.elt = n.elt /\ n2.ptr = n.ptr
      /\ Holding(n2, d, x)
      /\ \A v \in Scalars \ {d} : \A y : Holding(n, v, y) => Holding(n2, v, y)
  BY <1>2, <1>4, <1>5, MemoryWritten DEF Agrees
<1> QED BY <1>2, <1>3, <1>6, <1>7 DEF Agrees, Assigned, RestAgrees, ScalarsAgree

\* A register takes the value from the memory or the register of the
\* operand, and an int becomes a char there.
LEMMA AssignInRegister ==
  ASSUME ValuesTyped, NEW m, Agrees(m), NEW d \in Scalars, NEW s \in Symbols,
         ~is_var_in_memory(d)
  PROVE  Assigned(OP_Assign(m, d, s), d, Value(s))
<1>1. PICK r : r = find_register(d, 0)
  OBVIOUS
<1>2. PICK n : n = InRegister(m, r, Value(s))
  OBVIOUS
<1>3. Value(s) \in Words /\ (Type[s] = "Char" => Value(s) \in Chars)
  BY OperandValue
<1>4. Clear(r, d) /\ Value(s) \in Contents /\ Converted(Type[d], Value(s)) \in Contents
  BY <1>1, <1>3, Clears, ConversionTyped DEF Contents
<1>5. /\ n \in Machines /\ n.elt = m.elt /\ n.ptr = m.ptr /\ n.r[r] = Value(s)
      /\ \A v \in Scalars \ {d} : \A y : Holding(m, v, y) => Holding(n, v, y)
  BY <1>2, <1>4, RegisterWritten DEF Agrees
<1>6. OP_Assign(m, d, s)
        = IF Type[d] = "Char" /\ Type[s] = "Int" THEN reg_to_char(n, r) ELSE n
  <2>1. CASE is_var_in_memory(s)
    <3>1. load_from_memory(m, s, r, Type[s]) = n
      <4>1. CASE s \in Consts
        BY <1>2, <4>1 DEF load_from_memory, InRegister, Value
      <4>2. CASE s \notin Consts
        <5>1. s \in Scalars /\ m.mem[s] = Value(s)
          BY <2>1, <4>2, OperandValue DEF Holding, Agrees, ScalarsAgree
        <5>2. Type[s] \in {"Int", "Char"}
          BY SymbolsAssumption
        <5>3. Fetched(get_mem_op_type(Type[s]), m.mem[s], Type[s]) = Value(s)
          BY <1>3, <5>1, <5>2, WordsAssumption DEF Fetched, get_mem_op_type
        <5> QED BY <1>2, <4>2, <5>3 DEF load_from_memory, InRegister
      <4> QED BY <4>1, <4>2
    <3> QED BY <1>1, <2>1, <3>1 DEF OP_Assign
  <2>2. CASE ~is_var_in_memory(s)
    <3>1. s \in Scalars /\ m.r[find_register(s, 0)] = Value(s)
      BY <2>2, OperandValue DEF Holding, Agrees, ScalarsAgree, is_var_in_memory
    <3>2. copy_from_register(m, find_register(s, 0), r) = n
      BY <1>2, <3>1 DEF copy_from_register, InRegister
    <3> QED BY <1>1, <2>2, <3>2 DEF OP_Assign
  <2> QED BY <2>1, <2>2
<1>7. CASE Type[d] = "Char" /\ Type[s] = "Int"
  <2>1. PICK n2 : n2 = InRegister(n, r, Converted(Type[d], Value(s)))
    OBVIOUS
  <2>2. OP_Assign(m, d, s) = n2
    BY <1>5, <1>6, <1>7, <2>1 DEF reg_to_char, InRegister, Converted
  <2>3. /\ n2 \in Machines /\ n2.elt = n.elt /\ n2.ptr = n.ptr
        /\ n2.r[r] = Converted(Type[d], Value(s))
        /\ \A v \in Scalars \ {d} : \A y : Holding(n, v, y) => Holding(n2, v, y)
    BY <1>4, <1>5, <2>1, RegisterWritten
  <2>4. Holding(n2, d, Converted(Type[d], Value(s)))
    BY <1>1, <2>3 DEF Holding
  <2> QED BY <1>5, <2>2, <2>3, <2>4 DEF Agrees, Assigned, RestAgrees, ScalarsAgree
<1>8. CASE ~(Type[d] = "Char" /\ Type[s] = "Int")
  <2>1. Converted(Type[d], Value(s)) = Value(s)
    BY <1>3, <1>8, SymbolsAssumption, WordsAssumption DEF Converted
  <2>2. Holding(n, d, Value(s))
    BY <1>1, <1>5 DEF Holding
  <2> QED BY <1>5, <1>6, <1>8, <2>1, <2>2 DEF Agrees, Assigned, RestAgrees, ScalarsAgree
<1> QED BY <1>7, <1>8

\* The element that an address temporary points to.
LEMMA TargetElement ==
  ASSUME ValuesTyped, NEW a \in Addrs, target[a] # Junk
  PROVE  /\ target[a] \in Elements
         /\ elt_type[target[a][1]] = elt_type[a]
         /\ elt_type[a] \in {"Int", "Char"}
         /\ element[target[a]] \in Words
         /\ element[target[a]] \in ValuesOf(elt_type[a])
  BY SymbolsAssumption DEF ValuesTyped, TargetsTyped, ElementValuations

\* A value of the type of its destination is stored or loaded as it is.
LEMMA DerefAssigns ==
  ASSUME ValuesTyped, NEW m, Agrees(m), NEW d \in Scalars, NEW a \in Addrs,
         target[a] # Junk, Type[d] = elt_type[a]
  PROVE  Assigned(OP_Deref(m, d, a), d, element[target[a]])
<1>1. PICK r : r = find_register(d, 0)
  OBVIOUS
<1>2. PICK x : x = element[target[a]]
  OBVIOUS
<1>3. PICK n1 : n1 = InRegister(m, 0, target[a])
  OBVIOUS
<1>4. PICK n2 : n2 = InRegister(n1, r, x)
  OBVIOUS
<1>5. /\ target[a] \in Contents /\ x \in Contents /\ x \in Words
      /\ x \in ValuesOf(Type[d]) /\ Type[d] \in {"Int", "Char"}
  BY <1>2, TargetElement DEF Contents
<1>6. /\ Converted(Type[d], x) = x /\ Put(get_mem_op_type(Type[d]), x, Type[d]) = x
      /\ Fetched(get_mem_op_type(Type[d]), x, Type[d]) = x
  BY <1>5, WordsAssumption DEF Converted, Put, Fetched, get_mem_op_type, ValuesOf
<1>7. /\ n1 \in Machines /\ n1.elt = m.elt /\ n1.ptr = m.ptr /\ n1.r[0] = target[a]
      /\ \A v \in Scalars \ {d} : \A y : Holding(m, v, y) => Holding(n1, v, y)
  BY <1>3, <1>5, Clears, RegisterWritten DEF Agrees
<1>8. /\ n2 \in Machines /\ n2.elt = n1.elt /\ n2.ptr = n1.ptr /\ n2.r[r] = x
      /\ \A v \in Scalars \ {d} : \A y : Holding(n1, v, y) => Holding(n2, v, y)
  BY <1>1, <1>4, <1>5, <1>7, Clears, RegisterWritten
<1>9. OP_Deref(m, d, a) = IF is_var_in_memory(d) THEN store_at_memory(n2, d, r) ELSE n2
  <2>1. m.ptr[a] = target[a] /\ m.elt = element
    BY DEF Agrees, RestAgrees
  <2>2. n1 = [m EXCEPT !.r[0] = m.ptr[a]]
    BY <1>3, <2>1 DEF InRegister
  <2>3. n1.elt[n1.r[0]] = x /\ elt_type[n1.r[0][1]] = Type[d]
    BY <1>2, <1>7, <2>1, TargetElement
  <2>4. n2 = [n1 EXCEPT !.r[r] = Fetched(get_mem_op_type(Type[d]), n1.elt[n1.r[0]],
                                         elt_type[n1.r[0][1]])]
    BY <1>4, <1>6, <2>3 DEF InRegister
  <2> QED BY <1>1, <2>2, <2>4 DEF OP_Deref
<1>10. CASE is_var_in_memory(d)
  <2>1. PICK n3 : n3 = InMemory(n2, d, x)
    OBVIOUS
  <2>2. OP_Deref(m, d, a) = n3
    BY <1>6, <1>8, <1>9, <1>10, <2>1 DEF store_at_memory, InMemory
  <2>3. /\ n3 \in Machines /\ n3.elt = n2.elt /\ n3.ptr = n2.ptr /\ Holding(n3, d, x)
        /\ \A v \in Scalars \ {d} : \A y : Holding(n2, v, y) => Holding(n3, v, y)
    BY <1>5, <1>8, <1>10, <2>1, MemoryWritten
  <2> QED BY <1>2, <1>6, <1>7, <1>8, <2>2, <2>3 DEF Agrees, Assigned, RestAgrees, ScalarsAgree
<1>11. CASE ~is_var_in_memory(d)
  <2>1. Holding(n2, d, x)
    BY <1>1, <1>8, <1>11 DEF Holding
  <2> QED BY <1>2, <1>6, <1>7, <1>8, <1>9, <1>11, <2>1 DEF Agrees, Assigned, RestAgrees, ScalarsAgree
<1> QED BY <1>10, <1>11

LEMMA RetrieveAssigns ==
  ASSUME NEW m, Agrees(m), NEW d \in Scalars, NEW x \in ValuesOf(Type[d])
  PROVE  Assigned(OP_Retrieve(m, d, x), d, x)
<1>1. Type[d] \in {"Int", "Char"}
  BY SymbolsAssumption DEF Symbols
<1>2. /\ x \in Contents
      /\ Converted(Type[d], x) = x /\ Put(get_mem_op_type(Type[d]), x, Type[d]) = x
  BY <1>1, WordsAssumption DEF Converted, Put, get_mem_op_type, ValuesOf, Contents
<1>3. CASE is_var_in_memory(d)
  <2>1. PICK n : n = InMemory(m, d, x)
    OBVIOUS
  <2>2. OP_Retrieve(m, d, x) = n
    BY <1>2, <1>3, <2>1 DEF OP_Retrieve, InMemory
  <2>3. /\ n \in Machines /\ n.elt = m.elt /\ n.ptr = m.ptr /\ Holding(n, d, x)
        /\ \A v \in Scalars \ {d} : \A y : Holding(m, v, y) => Holding(n, v, y)
    BY <1>2, <1>3, <2>1, MemoryWritten DEF Agrees
  <2> QED BY <1>2, <2>2, <2>3 DEF Agrees, Assigned, RestAgrees, ScalarsAgree
<1>4. CASE ~is_var_in_memory(d)
  <2>1. PICK r : r = find_register(d, 0)
    OBVIOUS
  <2>2. PICK n : n = InRegister(m, r, x)
    OBVIOUS
  <2>3. OP_Retrieve(m, d, x) = n
    BY <1>4, <2>1, <2>2 DEF OP_Retrieve, InRegister
  <2>4. /\ n \in Machines /\ n.elt = m.elt /\ n.ptr = m.ptr /\ n.r[r] = x
        /\ \A v \in Scalars \ {d} : \A y : Holding(m, v, y) => Holding(n, v, y)
    BY <1>2, <2>1, <2>2, Clears, RegisterWritten DEF Agrees
  <2>5. Holding(n, d, x)
    BY <1>4, <2>1, <2>4 DEF Holding
  <2> QED BY <1>2, <2>3, <2>4, <2>5 DEF Agrees, Assigned, RestAgrees, ScalarsAgree
<1> QED BY <1>3, <1>4

-----------------------------------------------------------------------------
\* An assignment of x to d keeps the invariant.
LEMMA AssignmentStep ==
  ASSUME IInv, NEW d \in Scalars, NEW x \in Words, NEW m, Assigned(m, d, x),
         machine' = Settled(m), Becomes(d, x), UNCHANGED <<element, target, agreed>>
  PROVE  IInv'
<1>1. /\ machine' \in Machines /\ machine'.elt = m.elt /\ machine'.ptr = m.ptr
      /\ \A v \in Scalars : \A y : Holding(m, v, y) => Holding(machine', v, y)
  BY SettledKeeps DEF Assigned
<1>2. val \in Valuations
  BY DEF IInv, ValuesTyped
<1>3. val' = [val EXCEPT ![d] = Converted(Type[d], x)]
  BY DEF Becomes
<1>4. \A v \in Scalars : Holding(m, v, val'[v])
  BY <1>2, <1>3 DEF Assigned, Valuations
<1>5. val' \in Valuations
  BY <1>2, <1>3, ConversionTyped DEF Valuations
<1>6. ValuesTyped'
  BY <1>5 DEF IInv, ValuesTyped, TargetsTyped
<1>7. RestAgrees(machine)'
  BY <1>1 DEF Assigned, RestAgrees
<1>8. (\A v \in Scalars : Holding(machine, v, val[v]))'
  BY <1>1, <1>4 DEF Holding
<1> QED BY <1>1, <1>6, <1>7, <1>8 DEF IInv

\* Once an address is in $t1 the machine still agrees.
LEMMA AddressInT1 ==
  ASSUME NEW m, Agrees(m), NEW x \in Contents, NEW n, n = InRegister(m, 1, x)
  PROVE  /\ Agrees(n) /\ n.mem = m.mem /\ n.elt = m.elt /\ n.ptr = m.ptr /\ n.r[1] = x
         /\ \A i \in Registers \ {1} : n.r[i] = m.r[i]
<1>1. /\ n \in Machines /\ n.mem = m.mem /\ n.elt = m.elt /\ n.ptr = m.ptr /\ n.r[1] = x
      /\ \A i \in Registers \ {1} : n.r[i] = m.r[i]
  BY Scratch DEF Agrees, Machines, InRegister
<1>2. ASSUME NEW v \in Scalars PROVE Holding(n, v, val[v])
  <2>1. Holding(m, v, val[v])
    BY DEF Agrees, ScalarsAgree
  <2>2. ~is_var_in_memory(v) => find_register(v, 0) \in Registers \ {1}
    BY RegisterOfScalar
  <2> QED BY <1>1, <2>1, <2>2 DEF Holding
<1> QED BY <1>1, <1>2 DEF Agrees, ScalarsAgree, RestAgrees

\* The invariant as a state of the machine that agrees.
LEMMA InvariantAgrees ==
  ASSUME IInv
  PROVE  ValuesTyped /\ Agrees(machine)
  BY DEF IInv, Agrees, ScalarsAgree

LEMMA AssignThroughStep ==
  ASSUME IInv, NEW a \in Addrs, NEW s \in Symbols, AssignThrough(a, s)
  PROVE  IInv'
<1>1. PICK e : e = target[a]
  OBVIOUS
<1>2. PICK x : x = Converted(elt_type[a], Value(s))
  OBVIOUS
<1>3. PICK n1 : n1 = Loaded(machine, s, find_register(s, 0))
  OBVIOUS
<1>4. PICK n2 : n2 = InRegister(n1, 1, e)
  OBVIOUS
<1>5. PICK n3 : n3 = [n2 EXCEPT !.elt[e] = x]
  OBVIOUS
<1>6. ValuesTyped /\ Agrees(machine)
  BY InvariantAgrees
<1>7. /\ e \in Elements /\ elt_type[e[1]] = elt_type[a] /\ e \in Contents
      /\ elt_type[a] \in {"Int", "Char"}
  BY <1>1, <1>6, TargetElement DEF AssignThrough, Contents
<1>8. /\ x \in Words /\ x \in ValuesOf(elt_type[a]) /\ x \in Contents
      /\ Put(get_mem_op_type(elt_type[a]), Value(s), elt_type[a]) = x
  BY <1>2, <1>6, <1>7, OperandValue, WordsAssumption
     DEF Converted, ValuesOf, Put, get_mem_op_type, Contents
<1>9. Agrees(n1) /\ n1.r[find_register(s, 0)] = Value(s)
  BY <1>3, <1>6, OperandInT0
<1>10. /\ Agrees(n2) /\ n2.mem = n1.mem /\ n2.elt = n1.elt /\ n2.ptr = n1.ptr /\ n2.r[1] = e
       /\ \A i \in Registers \ {1} : n2.r[i] = n1.r[i]
  BY <1>4, <1>7, <1>9, AddressInT1
<1>11. n2.r[find_register(s, 0)] = Value(s)
  BY <1>9, <1>10, OperandRegister
<1>12. OP_AssignThrough(machine, a, s) = n3
  <2>1. machine.ptr[a] = e
    BY <1>1, <1>6 DEF Agrees, RestAgrees
  <2>2. [n1 EXCEPT !.r[1] = machine.ptr[a]] = n2
    BY <1>4, <2>1 DEF InRegister
  <2>3. Put(get_mem_op_type(elt_type[a]), n2.r[find_register(s, 0)], elt_type[n2.r[1][1]]) = x
    BY <1>7, <1>8, <1>10, <1>11
  <2> QED BY <1>3, <1>5, <1>10, <2>2, <2>3 DEF OP_AssignThrough
<1>13. element' = [element EXCEPT ![e] = x]
  BY <1>1, <1>2, <1>7 DEF AssignThrough
<1>14. /\ n3 \in Machines /\ n3.r = n2.r /\ n3.mem = n2.mem /\ n3.ptr = n2.ptr
       /\ n3.elt = element'
  BY <1>5, <1>7, <1>8, <1>10, <1>13 DEF Agrees, RestAgrees, Machines
<1>15. \A v \in Scalars : Holding(n3, v, val[v])
  BY <1>10, <1>14 DEF Agrees, ScalarsAgree, Holding
<1>16. /\ machine' \in Machines /\ machine'.elt = n3.elt /\ machine'.ptr = n3.ptr
       /\ \A v \in Scalars : \A y : Holding(n3, v, y) => Holding(machine', v, y)
  BY <1>12, <1>14, SettledKeeps DEF AssignThrough
<1>17. UNCHANGED <<val, target, agreed>>
  BY DEF AssignThrough
<1>18. element' \in ElementValuations
  BY <1>6, <1>7, <1>8, <1>13 DEF ValuesTyped, ElementValuations
<1>19. ValuesTyped'
  BY <1>6, <1>17, <1>18 DEF ValuesTyped, TargetsTyped
<1>20. RestAgrees(machine)'
  BY <1>10, <1>14, <1>16, <1>17 DEF Agrees, RestAgrees
<1>21. (\A v \in Scalars : Holding(machine, v, val[v]))'
  BY <1>15, <1>16, <1>17 DEF Holding
<1> QED BY <1>16, <1>17, <1>19, <1>20, <1>21 DEF IInv

\* The subscript, scaled by the size of an element, gives its address.
LEMMA ElementAddress ==
  ASSUME NEW A \in Arrays, NEW i \in 0 .. Lengths[A] - 1
  PROVE  /\ Element(A, i) \in Elements
         /\ Element(A, i)[1] = A
         /\ <<Element(A, 0)[1], Element(A, 0)[2] + Size(elt_type[A]) * i>> = Element(A, i)
<1>1. Element(A, i) \in Elements
  BY DEF Elements
<1>2. i \in Int
  BY SymbolsAssumption
<1>3. CASE elt_type[A] = "Int"
  BY <1>1, <1>2, <1>3 DEF Element, Size
<1>4. CASE elt_type[A] # "Int"
  BY <1>1, <1>2, <1>4 DEF Element, Size
<1> QED BY <1>3, <1>4

LEMMA IndexArrayStep ==
  ASSUME IInv, NEW a \in Addrs, NEW A \in Arrays, NEW s \in Symbols, Index_Array(a, A, s)
  PROVE  IInv'
<1>1. PICK e : e = Element(A, Value(s))
  OBVIOUS
<1>2. PICK n1 : n1 = Loaded(machine, s, find_register(s, 0))
  OBVIOUS
<1>3. PICK n2 : n2 = InRegister(n1, 1, Element(A, 0))
  OBVIOUS
<1>4. PICK n3 : n3 = [n2 EXCEPT !.r[0] = e, !.ptr[a] = e]
  OBVIOUS
<1>5. ValuesTyped /\ Agrees(machine)
  BY InvariantAgrees
<1>6. /\ e \in Elements /\ e[1] = A /\ e \in Contents
      /\ <<Element(A, 0)[1], Element(A, 0)[2] + Size(elt_type[A]) * Value(s)>> = e
  BY <1>1, ElementAddress DEF Index_Array, Contents
<1>7. Agrees(n1) /\ n1.r[find_register(s, 0)] = Value(s)
  BY <1>2, <1>5, OperandInT0
<1>8. /\ Agrees(n2) /\ n2.mem = n1.mem /\ n2.elt = n1.elt /\ n2.ptr = n1.ptr
      /\ n2.r[1] = Element(A, 0)
      /\ \A i \in Registers \ {1} : n2.r[i] = n1.r[i]
  BY <1>3, <1>7, AddressInT1 DEF Contents
<1>9. n2.r[find_register(s, 0)] = Value(s)
  BY <1>7, <1>8, OperandRegister
<1>10. OP_Index_Array(machine, a, A, s) = n3
  <2>1. BaseOf(machine, A) = Element(A, 0)
    BY <1>5 DEF BaseOf, Agrees, RestAgrees
  <2>2. [n1 EXCEPT !.r[1] = BaseOf(machine, A)] = n2
    BY <1>3, <2>1 DEF InRegister
  <2>3. <<n2.r[1][1], n2.r[1][2] + Size(elt_type[A]) * n2.r[find_register(s, 0)]>> = e
    BY <1>6, <1>8, <1>9
  <2> QED BY <1>2, <1>4, <2>2, <2>3 DEF OP_Index_Array
<1>11. /\ n3 \in Machines /\ n3.mem = n2.mem /\ n3.elt = n2.elt
       /\ n3.ptr = [n2.ptr EXCEPT ![a] = e]
       /\ \A i \in Registers \ {0} : n3.r[i] = n2.r[i]
  BY <1>4, <1>6, <1>8, Scratch DEF Agrees, Machines
<1>12. ASSUME NEW v \in Scalars PROVE Holding(n3, v, val[v])
  <2>1. Holding(n2, v, val[v])
    BY <1>8 DEF Agrees, ScalarsAgree
  <2>2. ~is_var_in_memory(v) => find_register(v, 0) \in Registers \ {0}
    BY RegisterOfScalar
  <2> QED BY <1>11, <2>1, <2>2 DEF Holding
<1>13. /\ machine' \in Machines /\ machine'.elt = n3.elt /\ machine'.ptr = n3.ptr
       /\ \A v \in Scalars : \A y : Holding(n3, v, y) => Holding(machine', v, y)
  BY <1>10, <1>11, SettledKeeps DEF Index_Array
<1>14. target' = [target EXCEPT ![a] = e] /\ elt_type[a] = elt_type[A]
       /\ UNCHANGED <<val, element, agreed>>
  BY <1>1 DEF Index_Array
<1>15. ValuesTyped'
  BY <1>5, <1>6, <1>14 DEF ValuesTyped, TargetsTyped
<1>16. RestAgrees(machine)'
  <2>1. n2.ptr \in [Addrs \cup Formals -> Contents] /\ DOMAIN target = Addrs
    BY <1>5, <1>8 DEF Agrees, Machines, ValuesTyped
  <2>2. \A b \in Addrs : machine'.ptr[b] = target'[b]
    BY <1>8, <1>11, <1>13, <1>14, <2>1 DEF Agrees, RestAgrees
  <2>3. \A B \in Formals : machine'.ptr[B] = Element(B, 0)
    BY <1>8, <1>11, <1>13, <2>1, SymbolsAssumption DEF Agrees, RestAgrees
  <2> QED BY <1>8, <1>11, <1>13, <1>14, <2>2, <2>3 DEF Agrees, RestAgrees
<1>17. (\A v \in Scalars : Holding(machine, v, val[v]))'
  BY <1>12, <1>13, <1>14 DEF Holding
<1> QED BY <1>13, <1>14, <1>15, <1>16, <1>17 DEF IInv

-----------------------------------------------------------------------------
LEMMA InitInvariant == Init => IInv
<1> SUFFICES ASSUME Init PROVE IInv
  OBVIOUS
<1>1. ValuesTyped
  BY DEF Init, ValuesTyped, TargetsTyped
<1>2. val \in [Scalars -> Words] /\ element \in [Elements -> Words]
  BY DEF Init, Valuations, ElementValuations
<1>3. /\ machine.r = [r \in Registers |-> IF Holders(r) = {} THEN Junk
                                          ELSE val[CHOOSE v \in Holders(r) : TRUE]]
      /\ machine.mem = [v \in Scalars |-> IF is_var_in_memory(v) THEN val[v] ELSE Junk]
      /\ machine.elt = element
      /\ machine.ptr = [a \in Addrs \cup Formals |-> IF a \in Addrs THEN Junk
                                                     ELSE Element(a, 0)]
      /\ machine = [r |-> machine.r, mem |-> machine.mem, elt |-> machine.elt,
                    ptr |-> machine.ptr]
  BY DEF Init
<1>4. machine \in Machines
  <2>1. machine.r \in [Registers -> Contents]
    <3>1. \A r \in Registers : Holders(r) # {} => (CHOOSE v \in Holders(r) : TRUE) \in Scalars
      BY DEF Holders
    <3> QED BY <1>2, <1>3, <3>1 DEF Contents
  <2>2. machine.mem \in [Scalars -> Contents] /\ machine.elt \in [Elements -> Contents]
    BY <1>2, <1>3 DEF Contents
  <2>3. machine.ptr \in [Addrs \cup Formals -> Contents]
    BY <1>3, SymbolsAssumption DEF Contents
  <2> QED BY <1>3, <2>1, <2>2, <2>3 DEF Machines
<1>5. ASSUME NEW v \in Scalars PROVE Holding(machine, v, val[v])
  <2>1. CASE is_var_in_memory(v)
    BY <1>3, <2>1 DEF Holding
  <2>2. CASE ~is_var_in_memory(v)
    <3>1. find_register(v, 0) \in Registers
      BY <2>2, RegisterOfScalar
    <3>2. Holders(find_register(v, 0)) = {v}
      BY <2>2, RegisterOfScalar DEF Holders
    <3>3. machine.r[find_register(v, 0)] = val[v]
      BY <1>3, <3>1, <3>2
    <3> QED BY <2>2, <3>3 DEF Holding
  <2> QED BY <2>1, <2>2
<1>6. RestAgrees(machine)
  BY <1>3, SymbolsAssumption DEF RestAgrees, Init
<1> QED BY <1>1, <1>4, <1>5, <1>6 DEF IInv, Init

\* What an instruction observes is right, and it changes nothing.
LEMMA ObservationStep ==
  ASSUME IInv, agreed' = agreed, UNCHANGED <<machine, val, element, target>>
  PROVE  IInv'
<1>1. ValuesTyped'
  BY DEF IInv, ValuesTyped, TargetsTyped
<1>2. RestAgrees(machine)'
  BY DEF IInv, RestAgrees
<1> QED BY <1>1, <1>2 DEF IInv, Holding

LEMMA PassStep ==
  ASSUME IInv, NEW s \in Symbols, Pass(s)
  PROVE  IInv'
<1>1. Passed(machine, s) = Value(s)
  BY InvariantAgrees, OperandInT0 DEF Passed
<1> QED BY <1>1, ObservationStep DEF Pass, IInv

LEMMA PassArrayStep ==
  ASSUME IInv, NEW A \in Arrays, PassArray(A)
  PROVE  IInv'
<1>1. BaseOf(machine, A) = Element(A, 0)
  BY DEF BaseOf, IInv, RestAgrees
<1> QED BY <1>1, ObservationStep DEF PassArray, IInv

LEMMA IfStep ==
  ASSUME IInv, NEW op \in BoolOps, NEW s1 \in Symbols, NEW s2 \in Symbols, If(op, s1, s2)
  PROVE  IInv'
<1>1. PICK two : two = TwoOperands(machine, s1, s2)
  OBVIOUS
<1>2. two.x = Value(s1) /\ two.y = Value(s2)
  BY <1>1, InvariantAgrees, BothOperands
<1>3. agreed' = (agreed /\ Holds(op, two.x, two.y) = Holds(op, Value(s1), Value(s2)))
  BY <1>1 DEF If
<1>4. agreed' = agreed
  BY <1>2, <1>3 DEF IInv
<1> QED BY <1>4, ObservationStep DEF If

\* One step of the program, as long as no temporary has been bypassed.
LEMMA NextInvariant ==
  ASSUME Bypassed = FALSE, IInv, [Next]_vars
  PROVE  IInv'
<1>1. ValuesTyped /\ Agrees(machine)
  BY InvariantAgrees
<1>2. ASSUME NEW d \in Scalars, NEW s \in Symbols, Assign(d, s)
      PROVE  IInv'
  <2>1. PICK m : m = OP_Assign(machine, d, s)
    OBVIOUS
  <2>2. Assigned(m, d, Value(s))
    BY <1>1, <2>1, AssignInMemory, AssignInRegister
  <2>3. Value(s) \in Words
    BY <1>1, OperandValue
  <2> QED BY <1>2, <2>1, <2>2, <2>3, AssignmentStep DEF Assign
<1>3. ASSUME NEW d \in Scalars, NEW s \in Symbols, UMinus(d, s)
      PROVE  IInv'
  <2>1. PICK m : m = OP_UMinus(machine, d, s)
    OBVIOUS
  <2>2. Assigned(m, d, Negate(Value(s)))
    BY <1>1, <2>1, UMinusAssigns
  <2>3. Negate(Value(s)) \in Words
    BY <1>1, OperandValue, WordsAssumption
  <2> QED BY <1>3, <2>1, <2>2, <2>3, AssignmentStep DEF UMinus
<1>4. ASSUME NEW d \in Scalars, NEW op \in ArithOps, NEW s1 \in Symbols, NEW s2 \in Symbols,
             BinaryArithmetic(d, op, s1, s2)
      PROVE  IInv'
  <2>1. PICK m : m = OP_BinaryArithmetic(machine, d, op, s1, s2)
    OBVIOUS
  <2>2. PICK x : x = Arith(op, Value(s1), Value(s2))
    OBVIOUS
  <2>3. Assigned(m, d, x)
    BY <1>1, <2>1, <2>2, BinaryArithmeticAssigns
  <2>4. x \in Words
    BY <1>1, <2>2, OperandValue, WordsAssumption
  <2> QED BY <1>4, <2>1, <2>2, <2>3, <2>4, AssignmentStep DEF BinaryArithmetic
<1>5. ASSUME NEW d \in Scalars, NEW a \in Addrs, Deref(d, a)
      PROVE  IInv'
  <2>1. PICK m : m = OP_Deref(machine, d, a)
    OBVIOUS
  <2>2. target[a] # Junk /\ Type[d] = elt_type[a]
    BY <1>5 DEF Deref
  <2>3. Assigned(m, d, element[target[a]])
    BY <1>1, <2>1, <2>2, DerefAssigns
  <2>4. element[target[a]] \in Words
    BY <1>1, <2>2, TargetElement
  <2> QED BY <1>5, <2>1, <2>3, <2>4, AssignmentStep DEF Deref
<1>6. ASSUME NEW d \in Scalars, NEW t \in {"Int", "Char"}, NEW x \in ValuesOf(t),
             Retrieve(d, t, x)
      PROVE  IInv'
  <2>1. PICK m : m = OP_Retrieve(machine, d, x)
    OBVIOUS
  <2>2. x \in ValuesOf(Type[d]) /\ x \in Words
    BY <1>6, WordsAssumption DEF Retrieve, ValuesOf
  <2>3. Assigned(m, d, x)
    BY <1>1, <2>1, <2>2, RetrieveAssigns
  <2> QED BY <1>6, <2>1, <2>2, <2>3, AssignmentStep DEF Retrieve
<1>7. CASE UNCHANGED vars
  BY <1>7, ObservationStep DEF vars
<1>8. CASE Next
  BY <1>2, <1>3, <1>4, <1>5, <1>6, <1>8, AssignThroughStep, IndexArrayStep, PassStep,
     PassArrayStep, IfStep
     DEF Next
<1> QED BY <1>7, <1>8

LEMMA Invariance ==
  ASSUME Bypassed = FALSE
  PROVE  Spec => []IInv
<1>1. IInv /\ [Next]_vars => IInv'
  BY NextInvariant
<1> QED BY InitInvariant, <1>1, PTL DEF Spec

\* Whatever the places and types of its operands, the code of an instruction
\* leaves every variable, element and address with the value the
\* instruction gives it (print_instructions), when temporaries have not
\* been bypassed.
THEOREM TemplatesCorrect ==
  ASSUME Bypassed = FALSE
  PROVE  Spec => []LocationsAgree
<1>1. IInv => LocationsAgree
  BY DEF IInv, RestAgrees, Holding, LocationsAgree, Location
<1> QED BY <1>1, Invariance, PTL

\* What calls are passed, functions return and jumps depend on is right too.
THEOREM ObservationsCorrect ==
  ASSUME Bypassed = FALSE
  PROVE  Spec => []ObservationsAgree
<1>1. IInv => ObservationsAgree
  BY DEF IInv, ObservationsAgree
<1> QED BY <1>1, Invariance, PTL

\* A char in a register is always the byte that memory would have held:
\* without bypassing, no int is left in the register of a char.
THEOREM CharsStayNarrow ==
  ASSUME Bypassed = FALSE
  PROVE  Spec => []CharRegistersNarrow
<1>1. IInv => CharRegistersNarrow
  BY SymbolsAssumption
     DEF IInv, ValuesTyped, Valuations, ValuesOf, Holding, CharRegistersNarrow
<1> QED BY <1>1, Invariance, PTL

-----------------------------------------------------------------------------
(***************************************************************************)
(* The temporaries.                                                        *)
(***************************************************************************)

Places == [temp : Nat, node : Nat]

\* Temporary u waits in a free list of pool p.
IsFree(p, u) == \E t \in Types : \E i \in 1 .. Len(p.free[t]) : p.free[t][i] = u

\* The free list of a type holds temporaries of that type, each once.
PoolInv(p) ==
  /\ p \in [type : Seq(Types), holds : Seq(Nat), free : [Types -> Seq(Nat)]]
  /\ Len(p.holds) = Len(p.type)
  /\ \A t \in Types : \A i \in 1 .. Len(p.free[t]) :
       /\ p.free[t][i] \in 1 .. Len(p.type)
       /\ p.type[p.free[t][i]] = t
       /\ \A j \in 1 .. Len(p.free[t]) : p.free[t][i] = p.free[t][j] => i = j

\* The temporary of a place in the sequence q, if it has one, is its own, is
\* not free in p, and holds the value of its node.
Kept(p, q) ==
  /\ q \in Seq(Places)
  /\ \A i \in 1 .. Len(q) : q[i].temp # 0 =>
       /\ q[i].temp \in 1 .. Len(p.type)
       /\ ~IsFree(p, q[i].temp)
       /\ p.holds[q[i].temp] = q[i].node
       /\ \A j \in 1 .. Len(q) : q[j].temp = q[i].temp => j = i

TemporariesInv == PoolInv(pool) /\ Kept(pool, pending) /\ Len(pending) <= MaxPending

-----------------------------------------------------------------------------
\* What a step does to one free list.
Relisted(p, t, l) == [p EXCEPT !.free[t] = l]

LEMMA ListUpdated ==
  ASSUME NEW p, PoolInv(p), NEW t \in Types, NEW l \in Seq(Nat),
         NEW f, f = Relisted(p, t, l)
  PROVE  /\ f.type = p.type /\ f.holds = p.holds /\ f.free[t] = l
         /\ \A s \in Types \ {t} : f.free[s] = p.free[s]
         /\ f \in [type : Seq(Types), holds : Seq(Nat), free : [Types -> Seq(Nat)]]
<1>1. /\ p \in [type : Seq(Types), holds : Seq(Nat), free : [Types -> Seq(Nat)]]
      /\ p.free \in [Types -> Seq(Nat)]
  BY DEF PoolInv
<1>2. [p.free EXCEPT ![t] = l] \in [Types -> Seq(Nat)]
  BY <1>1
<1>3. f = [p EXCEPT !.free = [p.free EXCEPT ![t] = l]]
  BY <1>1 DEF Relisted
<1>4. f.type = p.type /\ f.holds = p.holds /\ f.free = [p.free EXCEPT ![t] = l]
  BY <1>1, <1>3
<1>5. f \in [type : Seq(Types), holds : Seq(Nat), free : [Types -> Seq(Nat)]]
  BY <1>1, <1>2, <1>3
<1>6. f.free[t] = l /\ \A s \in Types \ {t} : f.free[s] = p.free[s]
  BY <1>1, <1>4
<1> QED BY <1>4, <1>5, <1>6

\* What the invariant says of the free lists.
Lists(p, n, type) ==
  \A t \in Types : \A i \in 1 .. Len(p.free[t]) :
    /\ p.free[t][i] \in 1 .. n
    /\ type[p.free[t][i]] = t
    /\ \A j \in 1 .. Len(p.free[t]) : p.free[t][i] = p.free[t][j] => i = j

LEMMA PoolFacts ==
  ASSUME NEW p, PoolInv(p)
  PROVE  /\ p.type \in Seq(Types) /\ p.holds \in Seq(Nat) /\ p.free \in [Types -> Seq(Nat)]
         /\ Len(p.holds) = Len(p.type) /\ Len(p.type) \in Nat
         /\ \A s \in Types : p.free[s] \in Seq(Nat) /\ Len(p.free[s]) \in Nat
         /\ Lists(p, Len(p.type), p.type)
BY DEF PoolInv, Lists

LEMMA PoolIntro ==
  ASSUME NEW p, p \in [type : Seq(Types), holds : Seq(Nat), free : [Types -> Seq(Nat)]],
         Len(p.holds) = Len(p.type), Lists(p, Len(p.type), p.type)
  PROVE  PoolInv(p)
BY DEF PoolInv, Lists

\* A new temporary is of the type asked for, is not free and is no place's:
\* it was free before, or did not exist.
LEMMA CreateTemporary ==
  ASSUME NEW p, PoolInv(p), NEW t \in Types
  PROVE  LET c == create_temporary(p, t)
         IN  /\ PoolInv(c.pool)
             /\ c.temp \in 1 .. Len(c.pool.type) /\ c.pool.type[c.temp] = t
             /\ ~IsFree(c.pool, c.temp)
             /\ Len(p.type) <= Len(c.pool.type)
             /\ \A u \in 1 .. Len(p.type) : ~IsFree(p, u) =>
                  /\ u # c.temp
                  /\ ~IsFree(c.pool, u)
                  /\ c.pool.holds[u] = p.holds[u]
<1> DEFINE c == create_temporary(p, t)
           l == p.free[t]
           n == Len(p.type)
<1>1. /\ p.type \in Seq(Types) /\ p.holds \in Seq(Nat) /\ p.free \in [Types -> Seq(Nat)]
      /\ Len(p.holds) = n /\ n \in Nat /\ l \in Seq(Nat) /\ Len(l) \in Nat
      /\ Lists(p, n, p.type)
  BY PoolFacts
<1>2. CASE l # <<>>
  <2>1. c.temp = Head(l) /\ c.pool = [p EXCEPT !.free[t] = Tail(l)]
    BY <1>2 DEF create_temporary
  <2>2. /\ Len(l) >= 1 /\ c.temp = l[1]
        /\ Tail(l) \in Seq(Nat) /\ Len(Tail(l)) = Len(l) - 1
        /\ \A i \in 1 .. Len(l) - 1 : Tail(l)[i] = l[i + 1]
    BY <1>1, <1>2, <2>1
  <2> HIDE DEF c
  <2>3. /\ c.pool.type = p.type /\ c.pool.holds = p.holds
        /\ c.pool.free[t] = Tail(l)
        /\ \A s \in Types \ {t} : c.pool.free[s] = p.free[s]
        /\ c.pool \in [type : Seq(Types), holds : Seq(Nat), free : [Types -> Seq(Nat)]]
    <3>1. c.pool = Relisted(p, t, Tail(l))
      BY <2>1 DEF Relisted
    <3> HIDE DEF l
    <3> DEFINE f == Relisted(p, t, Tail(l))
    <3>2. /\ f.type = p.type /\ f.holds = p.holds /\ f.free[t] = Tail(l)
          /\ \A s \in Types \ {t} : f.free[s] = p.free[s]
          /\ f \in [type : Seq(Types), holds : Seq(Nat), free : [Types -> Seq(Nat)]]
      BY <2>2, ListUpdated
    <3> HIDE DEF f
    <3> QED BY <3>1, <3>2 DEF f
  <2>4. \A i \in 1 .. Len(c.pool.free[t]) :
          /\ i \in Int /\ i + 1 \in 1 .. Len(l) /\ i + 1 # 1
          /\ c.pool.free[t][i] = l[i + 1]
    BY <1>1, <2>2, <2>3
  <2>5. 1 \in 1 .. Len(l)
    BY <1>1, <2>2
  <2>6. \A i \in 1 .. Len(l) :
          /\ l[i] \in 1 .. n /\ p.type[l[i]] = t
          /\ \A j \in 1 .. Len(l) : l[i] = l[j] => i = j
    BY <1>1 DEF Lists
  <2>7. ASSUME NEW s \in Types, NEW i \in 1 .. Len(c.pool.free[s])
        PROVE  /\ c.pool.free[s][i] \in 1 .. n
               /\ p.type[c.pool.free[s][i]] = s
               /\ \A j \in 1 .. Len(c.pool.free[s]) :
                    c.pool.free[s][i] = c.pool.free[s][j] => i = j
               /\ c.pool.free[s][i] # c.temp
               /\ IsFree(p, c.pool.free[s][i])
    <3>1. CASE s = t
      <4> HIDE DEF l
      <4>1. /\ c.pool.free[t][i] = l[i + 1] /\ i + 1 \in 1 .. Len(l) /\ i + 1 # 1
        BY <2>4, <3>1
      <4>2. ASSUME NEW j \in 1 .. Len(c.pool.free[t]), c.pool.free[t][i] = c.pool.free[t][j]
            PROVE  i = j
        <5>1. i + 1 = j + 1 /\ i \in Int /\ j \in Int
          BY <2>4, <2>6, <3>1, <4>2
        <5> QED BY <5>1
      <4>3. l[i + 1] \in 1 .. n /\ p.type[l[i + 1]] = t /\ l[i + 1] # l[1]
        BY <2>5, <2>6, <4>1
      <4>4. IsFree(p, l[i + 1])
        BY <4>1 DEF IsFree, l
      <4> QED BY <2>2, <3>1, <4>1, <4>2, <4>3, <4>4
    <3>2. CASE s # t
      <4>1. c.pool.free[s] = p.free[s]
        BY <2>3, <3>2
      <4>2. /\ p.free[s][i] \in 1 .. n /\ p.type[p.free[s][i]] = s
            /\ \A j \in 1 .. Len(p.free[s]) : p.free[s][i] = p.free[s][j] => i = j
        BY <1>1, <4>1 DEF Lists
      <4>3. p.type[l[1]] = t
        BY <2>5, <2>6
      <4>4. IsFree(p, p.free[s][i])
        BY <4>1 DEF IsFree
      <4> QED BY <2>2, <3>2, <4>1, <4>2, <4>3, <4>4
    <3> QED BY <3>1, <3>2
  <2>8. \A u : IsFree(c.pool, u) => IsFree(p, u) /\ u # c.temp
    BY <2>7, SMTT(30) DEF IsFree
  <2>9. IsFree(p, c.temp) /\ c.temp \in 1 .. n /\ p.type[c.temp] = t
    BY <2>2, <2>5, <2>6 DEF IsFree
  <2>10. PoolInv(c.pool)
    <3>1. Lists(c.pool, n, p.type)
      BY <2>7 DEF Lists
    <3> QED BY <1>1, <2>3, <3>1, PoolIntro
  <2> QED BY <1>1, <2>3, <2>8, <2>9, <2>10 DEF c
<1>3. CASE l = <<>>
  <2>1. /\ c.temp = n + 1
        /\ c.pool = [p EXCEPT !.type = Append(p.type, t), !.holds = Append(p.holds, 0)]
    BY <1>3 DEF create_temporary
  <2>2. /\ Append(p.type, t) \in Seq(Types) /\ Append(p.holds, 0) \in Seq(Nat)
        /\ Len(Append(p.type, t)) = n + 1 /\ Len(Append(p.holds, 0)) = n + 1
        /\ Append(p.type, t)[n + 1] = t
        /\ \A u \in 1 .. n : Append(p.type, t)[u] = p.type[u] /\ Append(p.holds, 0)[u] = p.holds[u]
    <3>1. DOMAIN p.type = 1 .. n /\ DOMAIN p.holds = 1 .. n
      BY <1>1
    <3>2. \A u \in 1 .. n : u \in 1 .. n + 1
      BY <1>1
    <3> QED BY <1>1, <3>1, <3>2
  <2> HIDE DEF c
  <2>3. /\ c.pool.type = Append(p.type, t) /\ c.pool.holds = Append(p.holds, 0)
        /\ c.pool.free = p.free
        /\ c.pool \in [type : Seq(Types), holds : Seq(Nat), free : [Types -> Seq(Nat)]]
    <3>1. p \in [type : Seq(Types), holds : Seq(Nat), free : [Types -> Seq(Nat)]]
      BY DEF PoolInv
    <3> QED BY <2>1, <2>2, <3>1
  <2>4. \A u : IsFree(c.pool, u) <=> IsFree(p, u)
    BY <2>3 DEF IsFree
  <2>5. \A u : IsFree(p, u) => u \in 1 .. n
    BY <1>1 DEF IsFree, Lists
  <2>6. \A u \in 1 .. n : u \in 1 .. n + 1
    BY <1>1
  <2>7. ASSUME NEW s \in Types, NEW i \in 1 .. Len(p.free[s])
        PROVE  /\ p.free[s][i] \in 1 .. n + 1
               /\ c.pool.type[p.free[s][i]] = s
               /\ \A j \in 1 .. Len(p.free[s]) : p.free[s][i] = p.free[s][j] => i = j
    BY <1>1, <2>2, <2>3, <2>6, ZenonT(60) DEF Lists
  <2>8. PoolInv(c.pool)
    <3>1. Lists(c.pool, n + 1, c.pool.type)
      BY <2>3, <2>7, ZenonT(60) DEF Lists
    <3> QED BY <2>2, <2>3, <3>1, PoolIntro
  <2>9. c.temp \in 1 .. n + 1 /\ c.temp \notin 1 .. n
    BY <1>1, <2>1
  <2>10. ~IsFree(c.pool, c.temp)
    BY <2>4, <2>5, <2>9
  <2> QED BY <1>1, <2>1, <2>2, <2>3, <2>4, <2>8, <2>9, <2>10, SMTT(30) DEF c
<1> QED BY <1>2, <1>3

LEMMA WriteTemporary ==
  ASSUME NEW p, PoolInv(p), NEW u \in 1 .. Len(p.type), NEW n \in Nat
  PROVE  LET w == Written(p, u, n)
         IN  /\ PoolInv(w)
             /\ w.type = p.type
             /\ \A v : IsFree(w, v) <=> IsFree(p, v)
             /\ w.holds[u] = n
             /\ \A v \in 1 .. Len(p.type) : v # u => w.holds[v] = p.holds[v]
<1> DEFINE w == Written(p, u, n)
<1>1. /\ p.type \in Seq(Types) /\ p.holds \in Seq(Nat) /\ p.free \in [Types -> Seq(Nat)]
      /\ Len(p.holds) = Len(p.type) /\ Len(p.type) \in Nat /\ DOMAIN p.holds = 1 .. Len(p.type)
  BY DEF PoolInv
<1>2. w.type = p.type /\ w.free = p.free /\ w.holds = [p.holds EXCEPT ![u] = n]
  BY <1>1 DEF Written, PoolInv
<1>3. [p.holds EXCEPT ![u] = n] \in Seq(Nat) /\ Len([p.holds EXCEPT ![u] = n]) = Len(p.type)
  BY <1>1
<1>4. w \in [type : Seq(Types), holds : Seq(Nat), free : [Types -> Seq(Nat)]]
  BY <1>1, <1>2, <1>3 DEF Written, PoolInv
<1> HIDE DEF w
<1>5. PoolInv(w)
  BY <1>2, <1>3, <1>4 DEF PoolInv
<1>6. \A v : IsFree(w, v) <=> IsFree(p, v)
  BY <1>2 DEF IsFree
<1>7. w.holds[u] = n /\ \A v \in 1 .. Len(p.type) : v # u => w.holds[v] = p.holds[v]
  BY <1>1, <1>2
<1> QED BY <1>2, <1>5, <1>6, <1>7 DEF w

LEMMA FreeTemporary ==
  ASSUME NEW p, PoolInv(p), NEW u \in 1 .. Len(p.type), ~IsFree(p, u)
  PROVE  LET f == free_temporary(p, u)
         IN  /\ PoolInv(f)
             /\ f.type = p.type /\ f.holds = p.holds
             /\ \A v : IsFree(f, v) <=> v = u \/ IsFree(p, v)
<1> DEFINE f == free_temporary(p, u)
           t == p.type[u]
           n == Len(p.type)
           old == p.free[t]
           l == <<u>> \o old
<1>1. /\ p.type \in Seq(Types) /\ n \in Nat /\ t \in Types
      /\ Len(p.holds) = n /\ old \in Seq(Nat) /\ Len(old) \in Nat /\ u \in Nat
      /\ Lists(p, n, p.type)
  BY PoolFacts
<1>2. /\ l \in Seq(Nat) /\ Len(l) = Len(old) + 1 /\ l[1] = u
      /\ \A i \in 1 .. Len(old) : l[i + 1] = old[i]
  BY <1>1
<1>3. f = Relisted(p, t, l)
  BY DEF free_temporary, Relisted
<1>4. \A i \in 1 .. Len(l) :
        i = 1 \/ (i \in Int /\ i - 1 \in 1 .. Len(old) /\ l[i] = old[i - 1])
  <2> TAKE i \in 1 .. Len(l)
  <2>1. i = 1 \/ (i \in Int /\ i - 1 \in 1 .. Len(old) /\ (i - 1) + 1 = i)
    BY <1>1, <1>2
  <2> QED BY <1>2, <2>1
<1>5. \A i \in 1 .. Len(old) : i + 1 \in 1 .. Len(l) /\ l[i + 1] = old[i]
  BY <1>1, <1>2
<1>6. 1 \in 1 .. Len(l) /\ l[1] = u
  BY <1>1, <1>2, SMTT(30)
<1>7. \A i \in 1 .. Len(old) :
        /\ old[i] \in 1 .. n /\ p.type[old[i]] = t /\ old[i] # u
        /\ \A j \in 1 .. Len(old) : old[i] = old[j] => i = j
  BY <1>1 DEF Lists, IsFree
<1> HIDE DEF f, l
<1>8. /\ f.type = p.type /\ f.holds = p.holds /\ f.free[t] = l
      /\ \A s \in Types \ {t} : f.free[s] = p.free[s]
      /\ f \in [type : Seq(Types), holds : Seq(Nat), free : [Types -> Seq(Nat)]]
  BY <1>1, <1>2, <1>3, ListUpdated
<1> HIDE DEF old, t
<1>9. \A v : IsFree(f, v) <=> v = u \/ IsFree(p, v)
  <2>1. ASSUME NEW s \in Types, NEW i \in 1 .. Len(f.free[s])
        PROVE  f.free[s][i] = u \/ IsFree(p, f.free[s][i])
    <3>1. CASE s = t
      <4>1. l[i] = u \/ (i - 1 \in 1 .. Len(old) /\ l[i] = old[i - 1])
        BY <1>4, <1>6, <1>8, <3>1
      <4>2. \A j \in 1 .. Len(old) : IsFree(p, old[j])
        BY <1>1 DEF IsFree, old
      <4> QED BY <1>8, <3>1, <4>1, <4>2
    <3>2. CASE s # t
      BY <1>8, <3>2 DEF IsFree
    <3> QED BY <3>1, <3>2
  <2>2. IsFree(f, u)
    BY <1>1, <1>6, <1>8 DEF IsFree
  <2>3. ASSUME NEW s \in Types, NEW i \in 1 .. Len(p.free[s]) PROVE IsFree(f, p.free[s][i])
    <3>1. CASE s = t
      <4>1. i + 1 \in 1 .. Len(l) /\ l[i + 1] = p.free[s][i]
        BY <1>5, <3>1 DEF old
      <4> QED BY <1>1, <1>8, <4>1 DEF IsFree
    <3>2. CASE s # t
      BY <1>8, <3>2 DEF IsFree
    <3> QED BY <3>1, <3>2
  <2>4. ASSUME NEW v, IsFree(f, v) PROVE v = u \/ IsFree(p, v)
    BY <2>1, <2>4, SMTT(30) DEF IsFree
  <2>5. ASSUME NEW v, IsFree(p, v) PROVE IsFree(f, v)
    BY <2>3, <2>5 DEF IsFree
  <2> QED BY <2>2, <2>4, <2>5
<1>10. ASSUME NEW s \in Types, NEW i \in 1 .. Len(f.free[s])
      PROVE  /\ f.free[s][i] \in 1 .. n
             /\ p.type[f.free[s][i]] = s
             /\ \A j \in 1 .. Len(f.free[s]) : f.free[s][i] = f.free[s][j] => i = j
  <2>1. CASE s # t
    <3>1. f.free[s] = p.free[s]
      BY <1>8, <2>1
    <3> QED BY <1>1, <3>1 DEF Lists
  <2>2. CASE s = t
    <3>1. p.type[u] = t /\ u \in 1 .. n
      BY DEF t
    <3>2. f.free[s] = l
      BY <1>8, <2>2
    <3> HIDE DEF n
    <3>3. ASSUME NEW k \in 1 .. Len(l)
          PROVE  \/ k = 1 /\ l[k] = u
                 \/ k # 1 /\ l[k] # u /\ l[k] \in 1 .. n /\ p.type[l[k]] = t
      <4>1. CASE k = 1
        BY <1>6, <4>1
      <4>2. CASE k # 1
        <5>1. k - 1 \in 1 .. Len(old) /\ l[k] = old[k - 1]
          BY <1>4, <4>2
        <5> QED BY <1>7, <4>2, <5>1
      <4> QED BY <4>1, <4>2
    <3>4. ASSUME NEW j \in 1 .. Len(l), l[i] = l[j] PROVE i = j
      <4>1. i \in 1 .. Len(l)
        BY <3>2
      <4>2. CASE i = 1
        BY <3>3, <3>4, <4>1, <4>2
      <4>3. CASE j = 1
        BY <3>3, <3>4, <4>1, <4>3
      <4>4. CASE i # 1 /\ j # 1
        <5>1. /\ i - 1 \in 1 .. Len(old) /\ l[i] = old[i - 1] /\ i \in Int
              /\ j - 1 \in 1 .. Len(old) /\ l[j] = old[j - 1] /\ j \in Int
          BY <1>4, <4>1, <4>4
        <5>2. i - 1 = j - 1
          BY <1>7, <3>4, <5>1
        <5> QED BY <5>1, <5>2
      <4> QED BY <4>2, <4>3, <4>4
    <3>5. l[i] \in 1 .. n /\ p.type[l[i]] = t
      <4>1. i \in 1 .. Len(l)
        BY <3>2
      <4> QED BY <3>1, <3>3, <4>1
    <3> QED BY <2>2, <3>2, <3>4, <3>5
  <2> QED BY <2>1, <2>2
<1>11. PoolInv(f)
  <2>1. Lists(f, n, p.type)
    BY <1>10 DEF Lists
  <2> QED BY <1>1, <1>8, <2>1, PoolIntro
<1> QED BY <1>8, <1>9, <1>11 DEF f

-----------------------------------------------------------------------------
\* One step of free_temporaries, and all of them up to number n.
Freed(p, place) == IF place.temp = 0 THEN p ELSE free_temporary(p, place.temp)
AllFreed(g, n, p, places) ==
  g = [k \in 0 .. n |-> IF k = 0 THEN p ELSE Freed(g[k - 1], places[k])]

LEMMA FreedDefined ==
  ASSUME NEW p, NEW places, NEW n \in Nat
  PROVE  \E g : AllFreed(g, n, p, places)
<1> DEFINE T == {m \in Nat : \E g : AllFreed(g, m, p, places)}
<1>1. 0 \in T
  <2> DEFINE g == [k \in 0 .. 0 |-> p]
  <2>1. AllFreed(g, 0, p, places)
    BY DEF AllFreed
  <2> QED BY <2>1
<1>2. ASSUME NEW m \in Nat, m \in T PROVE m + 1 \in T
  <2>1. PICK g : AllFreed(g, m, p, places)
    BY <1>2
  <2> DEFINE h == [k \in 0 .. m + 1 |-> IF k = m + 1 THEN Freed(g[m], places[k]) ELSE g[k]]
  <2>2. ASSUME NEW k \in 0 .. m + 1
        PROVE  h[k] = IF k = 0 THEN p ELSE Freed(h[k - 1], places[k])
    <3>1. CASE k = m + 1
      <4>1. k # 0 /\ k - 1 = m /\ m \in 0 .. m + 1 /\ m # m + 1
        BY <3>1
      <4>2. h[k] = Freed(g[m], places[k]) /\ h[k - 1] = g[m]
        BY <3>1, <4>1
      <4> QED BY <4>1, <4>2
    <3>2. CASE k # m + 1
      <4>1. k \in 0 .. m /\ h[k] = g[k]
        BY <3>2
      <4>2. g[k] = IF k = 0 THEN p ELSE Freed(g[k - 1], places[k])
        BY <2>1, <4>1 DEF AllFreed
      <4>3. CASE k # 0
        <5>1. k - 1 \in 0 .. m + 1 /\ k - 1 # m + 1
          BY <4>1, <4>3
        <5>2. h[k - 1] = g[k - 1]
          BY <5>1
        <5> HIDE DEF h
        <5> QED BY <4>1, <4>2, <4>3, <5>2
      <4> QED BY <4>1, <4>2, <4>3
    <3> QED BY <3>1, <3>2
  <2>3. h = [k \in 0 .. m + 1 |-> h[k]]
    OBVIOUS
  <2> HIDE DEF h
  <2>4. AllFreed(h, m + 1, p, places)
    BY <2>2, <2>3 DEF AllFreed
  <2> QED BY <2>4
<1> HIDE DEF T
<1>3. \A m \in Nat : m \in T
  BY <1>1, <1>2, SetInduction
<1> QED BY <1>3 DEF T

\* Places that free_temporary may be called for.
Releasable(p, places) ==
  /\ places \in Seq(Places)
  /\ \A i \in 1 .. Len(places) : places[i].temp # 0 =>
       /\ places[i].temp \in 1 .. Len(p.type)
       /\ ~IsFree(p, places[i].temp)
       /\ \A j \in 1 .. Len(places) : places[j].temp = places[i].temp => j = i

LEMMA FreeTemporaries ==
  ASSUME NEW p, PoolInv(p), NEW places, Releasable(p, places)
  PROVE  LET f == free_temporaries(p, places)
         IN  /\ PoolInv(f)
             /\ f.type = p.type /\ f.holds = p.holds
             /\ \A v : IsFree(f, v) <=>
                  \/ IsFree(p, v)
                  \/ \E i \in 1 .. Len(places) : places[i].temp = v /\ v # 0
<1> DEFINE n == Len(places)
           g == CHOOSE h : AllFreed(h, n, p, places)
<1>1. n \in Nat
  BY DEF Releasable
<1>2. AllFreed(g, n, p, places)
  BY <1>1, FreedDefined
<1>3. free_temporaries(p, places) = g[n]
  BY DEF free_temporaries, AllFreed, Freed
<1> HIDE DEF g
<1> DEFINE Good(k) ==
             /\ PoolInv(g[k])
             /\ g[k].type = p.type /\ g[k].holds = p.holds
             /\ \A v : IsFree(g[k], v) <=>
                  \/ IsFree(p, v)
                  \/ \E i \in 1 .. k : places[i].temp = v /\ v # 0
           T == {k \in Nat : k <= n => Good(k)}
<1>4. 0 \in T
  <2>1. g[0] = p
    BY <1>1, <1>2 DEF AllFreed
  <2> QED BY <2>1
<1>5. ASSUME NEW k \in Nat, k \in T PROVE k + 1 \in T
  <2> SUFFICES ASSUME k + 1 <= n PROVE Good(k + 1)
    OBVIOUS
  <2>1. /\ k + 1 \in 1 .. n /\ k + 1 # 0 /\ k + 1 \in 0 .. n /\ (k + 1) - 1 = k
        /\ 1 .. k + 1 = 1 .. k \cup {k + 1} /\ k + 1 \notin 1 .. k /\ k <= n
        /\ \A i \in 1 .. k : i \in 1 .. n
    BY <1>1
  <2>2. Good(k)
    BY <1>5, <2>1
  <2>3. g[k + 1] = Freed(g[k], places[k + 1])
    BY <1>2, <2>1 DEF AllFreed
  <2> DEFINE u == places[k + 1].temp
  <2>4. CASE u = 0
    <3>1. g[k + 1] = g[k]
      BY <2>3, <2>4 DEF Freed
    <3>2. \A v : (\E i \in 1 .. k + 1 : places[i].temp = v /\ v # 0)
                   <=> \E i \in 1 .. k : places[i].temp = v /\ v # 0
      BY <2>1, <2>4
    <3> QED BY <2>2, <3>1, <3>2
  <2>5. CASE u # 0
    <3>1. g[k + 1] = free_temporary(g[k], u)
      BY <2>3, <2>5 DEF Freed
    <3>2. u \in 1 .. Len(p.type) /\ ~IsFree(p, u) /\ \A i \in 1 .. k : places[i].temp # u
      BY <2>1, <2>5 DEF Releasable
    <3>3. u \in 1 .. Len(g[k].type) /\ ~IsFree(g[k], u)
      BY <2>2, <3>2
    <3>4. /\ PoolInv(g[k + 1])
          /\ g[k + 1].type = p.type /\ g[k + 1].holds = p.holds
          /\ \A v : IsFree(g[k + 1], v) <=> v = u \/ IsFree(g[k], v)
      <4> HIDE DEF u
      <4> QED BY <2>2, <3>1, <3>3, FreeTemporary
    <3>5. \A v : (\E i \in 1 .. k + 1 : places[i].temp = v /\ v # 0)
                   <=> v = u \/ \E i \in 1 .. k : places[i].temp = v /\ v # 0
      BY <2>1, <2>5
    <3> QED BY <2>2, <3>4, <3>5
  <2> QED BY <2>4, <2>5
<1>6. n \in T
  <2> HIDE DEF T
  <2> QED BY <1>1, <1>4, <1>5, SetInduction
<1>7. Good(n)
  BY <1>1, <1>6
<1> QED BY <1>3, <1>7

-----------------------------------------------------------------------------
\* The result of a node is put in a temporary that no pending place has.
LEMMA ValueWritten ==
  ASSUME NEW p, PoolInv(p), NEW q, Kept(p, q), NEW t \in Types, NEW n \in Nat
  PROVE  LET c == create_temporary(p, t)
             w == Written(c.pool, c.temp, n)
         IN  /\ PoolInv(w) /\ Kept(w, q)
             /\ c.temp \in 1 .. Len(w.type) /\ ~IsFree(w, c.temp) /\ w.holds[c.temp] = n
             /\ \A u \in 1 .. Len(p.type) : ~IsFree(p, u) =>
                  u # c.temp /\ u \in 1 .. Len(w.type) /\ ~IsFree(w, u)
<1> DEFINE c == create_temporary(p, t)
           w == Written(c.pool, c.temp, n)
<1>1. /\ PoolInv(c.pool) /\ c.temp \in 1 .. Len(c.pool.type) /\ ~IsFree(c.pool, c.temp)
      /\ Len(p.type) <= Len(c.pool.type)
      /\ \A u \in 1 .. Len(p.type) : ~IsFree(p, u) =>
           u # c.temp /\ ~IsFree(c.pool, u) /\ c.pool.holds[u] = p.holds[u]
  BY CreateTemporary
<1>2. Len(p.type) \in Nat /\ Len(c.pool.type) \in Nat
  BY <1>1, PoolFacts
<1> HIDE DEF c
<1>3. /\ PoolInv(w) /\ w.type = c.pool.type
      /\ \A v : IsFree(w, v) <=> IsFree(c.pool, v)
      /\ w.holds[c.temp] = n
      /\ \A v \in 1 .. Len(c.pool.type) : v # c.temp => w.holds[v] = c.pool.holds[v]
  BY <1>1, WriteTemporary
<1> HIDE DEF w
<1>4. ASSUME NEW u \in 1 .. Len(p.type), ~IsFree(p, u)
      PROVE  /\ u # c.temp /\ u \in 1 .. Len(w.type) /\ ~IsFree(w, u)
             /\ w.holds[u] = p.holds[u]
  <2>1. u \in 1 .. Len(c.pool.type)
    BY <1>1, <1>2
  <2> QED BY <1>1, <1>3, <1>4, <2>1
<1>5. Kept(w, q)
  BY <1>4 DEF Kept
<1> QED BY <1>1, <1>3, <1>4, <1>5 DEF c, w

\* And stays there when the operands are freed.
LEMMA ValueDelivered ==
  ASSUME NEW p, PoolInv(p), NEW q, Kept(p, q), NEW t \in Types, NEW n \in Nat,
         NEW released, Releasable(p, released),
         \A i \in 1 .. Len(q) : q[i].temp # 0 =>
           \A j \in 1 .. Len(released) : released[j].temp # q[i].temp
  PROVE  LET c == create_temporary(p, t)
             r == free_temporaries(Written(c.pool, c.temp, n), released)
         IN  PoolInv(r) /\ Kept(r, Append(q, Place(c.temp, n)))
<1> DEFINE c == create_temporary(p, t)
           w == Written(c.pool, c.temp, n)
           r == free_temporaries(w, released)
           new == Append(q, Place(c.temp, n))
<1>1. /\ PoolInv(w) /\ Kept(w, q)
      /\ c.temp \in 1 .. Len(w.type) /\ ~IsFree(w, c.temp) /\ w.holds[c.temp] = n
      /\ \A u \in 1 .. Len(p.type) : ~IsFree(p, u) =>
           u # c.temp /\ u \in 1 .. Len(w.type) /\ ~IsFree(w, u)
  BY ValueWritten
<1> HIDE DEF w
<1>2. Releasable(w, released)
  BY <1>1 DEF Releasable
<1>3. /\ PoolInv(r) /\ r.type = w.type /\ r.holds = w.holds
      /\ \A v : IsFree(r, v) <=>
           \/ IsFree(w, v)
           \/ \E i \in 1 .. Len(released) : released[i].temp = v /\ v # 0
  BY <1>1, <1>2, FreeTemporaries
<1> HIDE DEF r
<1>4. \A j \in 1 .. Len(released) : released[j].temp # c.temp \/ released[j].temp = 0
  BY <1>1 DEF Releasable
<1>5. \A i \in 1 .. Len(q) : q[i].temp # c.temp \/ q[i].temp = 0
  BY <1>1 DEF Kept
<1>6. c.temp \in Nat /\ c.temp # 0
  BY <1>1
<1> HIDE DEF c
<1>7. /\ q \in Seq(Places) /\ Place(c.temp, n) \in Places
      /\ Place(c.temp, n).temp = c.temp /\ Place(c.temp, n).node = n
  BY <1>6 DEF Kept, Places, Place
<1>8. /\ new \in Seq(Places) /\ Len(new) = Len(q) + 1 /\ Len(q) \in Nat
      /\ new[Len(q) + 1] = Place(c.temp, n)
      /\ \A i \in 1 .. Len(q) : new[i] = q[i]
  BY <1>7
<1> HIDE DEF new
<1>9. \A i \in 1 .. Len(new) : i \in 1 .. Len(q) \/ i = Len(q) + 1
  BY <1>8
<1>10. ASSUME NEW i \in 1 .. Len(new), new[i].temp # 0
       PROVE  /\ new[i].temp \in 1 .. Len(r.type)
              /\ ~IsFree(r, new[i].temp)
              /\ r.holds[new[i].temp] = new[i].node
              /\ \A j \in 1 .. Len(new) : new[j].temp = new[i].temp => j = i
  <2>1. CASE i \in 1 .. Len(q)
    <3>1. new[i] = q[i]
      BY <1>8, <2>1
    <3>2. /\ q[i].temp \in 1 .. Len(w.type) /\ ~IsFree(w, q[i].temp)
          /\ w.holds[q[i].temp] = q[i].node
          /\ \A j \in 1 .. Len(q) : q[j].temp = q[i].temp => j = i
      BY <1>1, <1>10, <2>1, <3>1 DEF Kept
    <3>3. ~IsFree(r, q[i].temp)
      BY <1>3, <1>10, <2>1, <3>1, <3>2
    <3>4. ASSUME NEW j \in 1 .. Len(new), new[j].temp = new[i].temp PROVE j = i
      <4>1. j # Len(q) + 1
        BY <1>5, <1>7, <1>8, <1>10, <2>1, <3>1, <3>4
      <4> QED BY <1>8, <1>9, <3>1, <3>2, <3>4, <4>1
    <3> QED BY <1>3, <3>1, <3>2, <3>3, <3>4
  <2>2. CASE i = Len(q) + 1
    <3>1. new[i].temp = c.temp /\ new[i].node = n
      BY <1>7, <1>8, <2>2
    <3>2. ~IsFree(r, c.temp)
      BY <1>1, <1>3, <1>4, <1>6
    <3>3. ASSUME NEW j \in 1 .. Len(new), new[j].temp = c.temp PROVE j = i
      <4>1. j \notin 1 .. Len(q)
        BY <1>5, <1>6, <1>8, <3>3
      <4> QED BY <1>9, <2>2, <4>1
    <3> QED BY <1>1, <1>3, <3>1, <3>2, <3>3
  <2> QED BY <1>9, <2>1, <2>2
<1>11. Kept(r, new)
  BY <1>8, <1>10 DEF Kept
<1> QED BY <1>3, <1>11 DEF r, new, w, c

-----------------------------------------------------------------------------
\* The operands of a node are the topmost places; the others do not share
\* temporaries with them.
LEMMA Operands ==
  ASSUME TemporariesInv, NEW k \in Nat, k <= Len(pending)
  PROVE  /\ Kept(pool, Below(k)) /\ Len(Below(k)) = Len(pending) - k
         /\ Releasable(pool, Top(k))
         /\ \A i \in 1 .. Len(Below(k)) : Below(k)[i].temp # 0 =>
              \A j \in 1 .. Len(Top(k)) : Top(k)[j].temp # Below(k)[i].temp
<1> DEFINE n == Len(pending)
           b == Below(k)
           u == Top(k)
<1>1. pending \in Seq(Places) /\ n \in Nat /\ k \in 0 .. n
  BY DEF TemporariesInv, Kept
<1>2. /\ b \in Seq(Places) /\ Len(b) = n - k
      /\ \A i \in 1 .. Len(b) : i \in 1 .. n /\ b[i] = pending[i]
  BY <1>1 DEF Below
<1>3. /\ u \in Seq(Places) /\ Len(u) = k
      /\ \A i \in 1 .. Len(u) : i \in Int /\ n - k + i \in 1 .. n /\ u[i] = pending[n - k + i]
  <2>1. Len(u) = k
    BY <1>1 DEF Top
  <2>2. u = [i \in 1 .. k |-> pending[i + (n - k + 1) - 1]]
    BY <1>1 DEF Top
  <2>3. \A i \in 1 .. k : i \in Int /\ n - k + i \in 1 .. n /\ i + (n - k + 1) - 1 = n - k + i
    BY <1>1
  <2>4. \A i \in 1 .. k : u[i] = pending[n - k + i] /\ u[i] \in Places
    BY <1>1, <2>2, <2>3
  <2>5. u \in Seq(Places)
    BY <1>1, <2>2, <2>4
  <2> QED BY <2>1, <2>3, <2>4, <2>5
<1>4. \A i \in 1 .. n : pending[i].temp # 0 =>
        /\ pending[i].temp \in 1 .. Len(pool.type)
        /\ ~IsFree(pool, pending[i].temp)
        /\ pool.holds[pending[i].temp] = pending[i].node
        /\ \A j \in 1 .. n : pending[j].temp = pending[i].temp => j = i
  BY DEF TemporariesInv, Kept
<1> HIDE DEF b, u, n
<1>5. Kept(pool, b)
  BY <1>2, <1>4 DEF Kept
<1>6. Releasable(pool, u)
  <2> SUFFICES ASSUME NEW i \in 1 .. Len(u), u[i].temp # 0
               PROVE  /\ u[i].temp \in 1 .. Len(pool.type)
                      /\ ~IsFree(pool, u[i].temp)
                      /\ \A j \in 1 .. Len(u) : u[j].temp = u[i].temp => j = i
    BY <1>3 DEF Releasable
  <2>1. ASSUME NEW j \in 1 .. Len(u), u[j].temp = u[i].temp PROVE j = i
    <3>1. n - k + j = n - k + i
      BY <1>3, <1>4, <2>1, SMTT(30)
    <3> QED BY <1>1, <1>3, <3>1
  <2> QED BY <1>3, <1>4, <2>1
<1>7. ASSUME NEW i \in 1 .. Len(b), b[i].temp # 0, NEW j \in 1 .. Len(u),
             u[j].temp = b[i].temp
      PROVE  FALSE
  <2>1. i = n - k + j
    BY <1>2, <1>3, <1>4, <1>7, SMTT(30)
  <2> QED BY <1>1, <1>2, <1>3, <2>1
<1> QED BY <1>2, <1>5, <1>6, <1>7 DEF b, u, n

\* When they are freed first, nothing changes for the others.
LEMMA OperandsFreed ==
  ASSUME TemporariesInv, NEW k \in Nat, k <= Len(pending)
  PROVE  LET f == free_temporaries(pool, Top(k))
         IN  PoolInv(f) /\ Kept(f, Below(k))
<1> DEFINE f == free_temporaries(pool, Top(k))
           b == Below(k)
           u == Top(k)
<1>1. /\ Kept(pool, b) /\ Releasable(pool, u)
      /\ \A i \in 1 .. Len(b) : b[i].temp # 0 =>
           \A j \in 1 .. Len(u) : u[j].temp # b[i].temp
  BY Operands
<1>2. /\ PoolInv(f) /\ f.type = pool.type /\ f.holds = pool.holds
      /\ \A v : IsFree(f, v) <=>
           \/ IsFree(pool, v)
           \/ \E i \in 1 .. Len(u) : u[i].temp = v /\ v # 0
  BY <1>1, FreeTemporaries DEF TemporariesInv
<1> HIDE DEF f, b, u
<1>3. Kept(f, b)
  BY <1>1, <1>2 DEF Kept
<1> QED BY <1>2, <1>3 DEF f, b, u

\* There is a node that is not pending.
LEMMA FreshNode ==
  ASSUME TemporariesInv
  PROVE  Fresh \in Nodes /\ \A i \in DOMAIN pending : pending[i].node # Fresh
<1> DEFINE f == [i \in 1 .. Len(pending) |-> pending[i].node]
           S == {f[i] : i \in 1 .. Len(pending)}
<1>1. /\ pending \in Seq(Places) /\ DOMAIN pending = 1 .. Len(pending) /\ Len(pending) \in Nat
      /\ Len(pending) <= MaxPending /\ MaxPending \in Nat
  BY BoundsAssumption DEF TemporariesInv, Kept
<1>2. IsFiniteSet(1 .. Len(pending)) /\ Cardinality(1 .. Len(pending)) = Len(pending)
  <2>1. ASSUME NEW m \in Nat PROVE IsFiniteSet(1 .. m) /\ Cardinality(1 .. m) = m
    BY FS_Interval
  <2> QED BY <1>1, <2>1
<1>3. IsFiniteSet(Nodes) /\ Cardinality(Nodes) = MaxPending + 1
  <2>1. ASSUME NEW m \in Nat PROVE IsFiniteSet(1 .. m) /\ Cardinality(1 .. m) = m
    BY FS_Interval
  <2> QED BY <1>1, <2>1 DEF Nodes
<1>4. IsFiniteSet(S) /\ Cardinality(S) <= Len(pending)
  <2>1. f \in Surjection(1 .. Len(pending), S)
    BY DEF Surjection
  <2> HIDE DEF f, S
  <2> QED BY <1>2, <2>1, FS_Surjection
<1>5. ~(Nodes \subseteq S)
  BY <1>1, <1>3, <1>4, FS_Subset, FS_CardinalityType
<1>6. PICK n \in Nodes : n \notin S
  BY <1>5
<1>7. \A i \in DOMAIN pending : pending[i].node # n
  BY <1>1, <1>6
<1> QED BY <1>7 DEF Fresh

\* Putting the value of a node with k operands in a temporary keeps the
\* invariant, whether its operands are freed before or after.
LEMMA ProduceKeeps ==
  ASSUME TemporariesInv, NEW k \in Nat, k <= Len(pending), NEW t \in Types,
         NEW p, PoolInv(p), Kept(p, Below(k)),
         NEW released, Releasable(p, released),
         \A i \in 1 .. Len(Below(k)) : Below(k)[i].temp # 0 =>
           \A j \in 1 .. Len(released) : released[j].temp # Below(k)[i].temp,
         Produce(k, p, t, released)
  PROVE  TemporariesInv'
<1> DEFINE c == create_temporary(p, t)
           r == free_temporaries(Written(c.pool, c.temp, Fresh), released)
<1>1. Fresh \in Nat
  BY FreshNode, BoundsAssumption DEF Nodes
<1>2. pool' = r /\ pending' = Append(Below(k), Place(c.temp, Fresh)) /\ Len(pending) - k < MaxPending
  BY DEF Produce
<1>3. PoolInv(r) /\ Kept(r, Append(Below(k), Place(c.temp, Fresh)))
  BY <1>1, ValueDelivered
<1>4. Len(Below(k)) = Len(pending) - k /\ Below(k) \in Seq(Places) /\ Len(pending) \in Nat
  BY Operands DEF Kept, TemporariesInv
<1> HIDE DEF c, r
<1>5. Len(pending') = Len(Below(k)) + 1
  BY <1>2, <1>4
<1>6. Len(pending') <= MaxPending
  BY <1>2, <1>4, <1>5, BoundsAssumption
<1> QED BY <1>2, <1>3, <1>6 DEF TemporariesInv

-----------------------------------------------------------------------------
LEMMA EmptyPool == PoolInv(NoTemporaries)
<1>1. NoTemporaries \in [type : Seq(Types), holds : Seq(Nat), free : [Types -> Seq(Nat)]]
  BY DEF NoTemporaries
<1>2. \A t \in Types : Len(NoTemporaries.free[t]) = 0
  BY DEF NoTemporaries
<1>3. Len(NoTemporaries.type) = 0 /\ Len(NoTemporaries.holds) = 0
  BY DEF NoTemporaries
<1> QED BY <1>1, <1>2, <1>3 DEF PoolInv

LEMMA InitTemporaries == InitPool => TemporariesInv
BY EmptyPool, BoundsAssumption DEF InitPool, TemporariesInv, Kept

LEMMA NextTemporaries == TemporariesInv /\ [NextNode]_pool_vars => TemporariesInv'
<1> SUFFICES ASSUME TemporariesInv, [NextNode]_pool_vars PROVE TemporariesInv'
  OBVIOUS
<1>1. /\ PoolInv(pool) /\ Kept(pool, pending) /\ pending \in Seq(Places) /\ Len(pending) \in Nat
      /\ Fresh \in Nat
  BY FreshNode, BoundsAssumption DEF TemporariesInv, Kept, Nodes
<1>2. \A p : Kept(p, <<>>) /\ Releasable(p, <<>>)
  BY DEF Kept, Releasable
<1>3. ASSUME PoolInv(pool'), pending' = <<>> PROVE TemporariesInv'
  BY <1>2, <1>3, BoundsAssumption DEF TemporariesInv
<1>4. ValueTypes \subseteq Types /\ "Int" \in Types /\ "Addr" \in Types
  BY DEF Types, ValueTypes
<1>5. ASSUME NEW k \in Nat, k <= Len(pending), NEW t \in Types,
             \/ Produce(k, pool, t, Top(k))
             \/ Produce(k, free_temporaries(pool, Top(k)), t, <<>>)
      PROVE  TemporariesInv'
  <2>1. CASE Produce(k, pool, t, Top(k))
    BY <1>1, <1>5, <2>1, Operands, ProduceKeeps
  <2>2. CASE Produce(k, free_temporaries(pool, Top(k)), t, <<>>)
    <3>1. \A i \in 1 .. Len(<<>>) : FALSE
      OBVIOUS
    <3> QED BY <1>2, <1>5, <2>2, <3>1, OperandsFreed, ProduceKeeps
  <2> QED BY <1>5, <2>1, <2>2
<1>6. CASE Variable
  <2>1. pool' = pool /\ pending' = Append(pending, Place(0, 0)) /\ Len(pending) < MaxPending
    BY <1>6 DEF Variable
  <2>2. Place(0, 0) \in Places /\ Place(0, 0).temp = 0
    BY DEF Place, Places
  <2>3. /\ pending' \in Seq(Places) /\ Len(pending') = Len(pending) + 1
        /\ pending'[Len(pending) + 1] = Place(0, 0)
        /\ \A i \in 1 .. Len(pending) : pending'[i] = pending[i]
    BY <1>1, <2>1, <2>2
  <2>4. \A i \in 1 .. Len(pending') : pending'[i].temp # 0 =>
          i \in 1 .. Len(pending) /\ pending'[i] = pending[i]
    <3>1. \A i \in 1 .. Len(pending') : i \in 1 .. Len(pending) \/ i = Len(pending) + 1
      BY <1>1, <2>3
    <3> QED BY <2>2, <2>3, <3>1
  <2>5. Kept(pool, pending')
    BY <1>1, <2>3, <2>4 DEF Kept
  <2>6. Len(pending') <= MaxPending
    BY <1>1, <2>1, <2>3, BoundsAssumption
  <2> QED BY <1>1, <2>1, <2>5, <2>6 DEF TemporariesInv
<1>7. ASSUME NEW t \in ValueTypes, Constant(t) PROVE TemporariesInv'
  <2>1. Produce(0, pool, t, <<>>) /\ 0 <= Len(pending)
    BY <1>1, <1>7 DEF Constant
  <2>2. Kept(pool, Below(0))
    BY <1>1, Operands
  <2>3. \A i \in 1 .. Len(<<>>) : FALSE
    OBVIOUS
  <2> QED BY <1>1, <1>2, <1>4, <2>1, <2>2, <2>3, ProduceKeeps
<1>8. CASE UnaryMinus
  <2>1. Produce(1, pool, "Int", Top(1)) /\ 1 <= Len(pending)
    BY <1>1, <1>8 DEF UnaryMinus
  <2> QED BY <1>4, <1>5, <2>1
<1>9. CASE Binary
  <2>1. Produce(2, pool, "Int", Top(2)) /\ 2 <= Len(pending)
    BY <1>1, <1>9 DEF Binary
  <2> QED BY <1>4, <1>5, <2>1
<1>10. CASE IndexLocation
  <2>1. Produce(1, free_temporaries(pool, Top(1)), "Addr", <<>>) /\ 1 <= Len(pending)
    BY <1>1, <1>10 DEF IndexLocation
  <2> QED BY <1>4, <1>5, <2>1
<1>11. ASSUME NEW t \in ValueTypes, IndexValue(t) PROVE TemporariesInv'
  <2> DEFINE p == free_temporaries(pool, Top(1))
             w == Written(Indexed.pool, Indexed.temp, Fresh)
  <2>1. Produce(1, w, t, <<>>) /\ 1 <= Len(pending)
    BY <1>1, <1>11 DEF IndexValue
  <2>2. PoolInv(p) /\ Kept(p, Below(1))
    BY <2>1, OperandsFreed
  <2>3. Indexed = create_temporary(p, "Addr")
    BY DEF Indexed
  <2> HIDE DEF p
  <2>4. PoolInv(w) /\ Kept(w, Below(1))
    BY <1>1, <1>4, <2>2, <2>3, ValueWritten
  <2>5. \A i \in 1 .. Len(<<>>) : FALSE
    OBVIOUS
  <2> HIDE DEF w
  <2> QED BY <1>2, <1>4, <2>1, <2>4, <2>5, ProduceKeeps
<1>12. ASSUME NEW t \in ValueTypes, NEW n \in 0 .. MaxPending, Call(n, t) PROVE TemporariesInv'
  <2>1. Produce(n, free_temporaries(pool, Top(n)), t, <<>>) /\ n <= Len(pending) /\ n \in Nat
    BY <1>1, <1>12, BoundsAssumption DEF Call
  <2> QED BY <1>4, <1>5, <2>1
<1>13. ASSUME NEW t \in ValueTypes, CallStatement(t) PROVE TemporariesInv'
  <2> DEFINE p == free_temporaries(pool, pending)
             c == create_temporary(p, t)
  <2>1. /\ pending' = <<>>
        /\ pool' = p \/ pool' = Written(c.pool, c.temp, Fresh)
    BY <1>13 DEF CallStatement
  <2>2. PoolInv(p)
    <3>1. Releasable(pool, pending)
      BY <1>1 DEF Kept, Releasable
    <3> QED BY <1>1, <3>1, FreeTemporaries
  <2> HIDE DEF p
  <2>3. PoolInv(Written(c.pool, c.temp, Fresh))
    BY <1>1, <1>2, <1>4, <2>2, ValueWritten
  <2> HIDE DEF c
  <2> QED BY <1>3, <2>1, <2>2, <2>3
<1>14. CASE Assignment
  <2>1. pool' = free_temporaries(pool, Top(1)) /\ pending' = <<>> /\ 1 <= Len(pending)
    BY <1>1, <1>14 DEF Assignment
  <2> QED BY <1>3, <2>1, OperandsFreed
<1>15. CASE Compare
  BY <1>1, <1>3, <1>15 DEF Compare
<1>16. ASSUME NEW t \in ValueTypes, Return(t) PROVE TemporariesInv'
  <2> DEFINE c == create_temporary(pool, t)
  <2>1. pending' = <<>> /\ pool' = Written(c.pool, c.temp, Fresh)
    BY <1>16 DEF Return
  <2>2. PoolInv(Written(c.pool, c.temp, Fresh))
    BY <1>1, <1>4, ValueWritten
  <2> HIDE DEF c
  <2> QED BY <1>3, <2>1, <2>2
<1>17. CASE EndFunction
  BY <1>3, <1>17, EmptyPool DEF EndFunction
<1>18. CASE UNCHANGED pool_vars
  BY <1>18 DEF pool_vars, TemporariesInv
<1> QED BY <1>6, <1>7, <1>8, <1>9, <1>10, <1>11, <1>12, <1>13, <1>14, <1>15, <1>16, <1>17, <1>18
        DEF NextNode

LEMMA TemporariesAlways == PoolSpec => []TemporariesInv
BY InitTemporaries, NextTemporaries, PTL DEF PoolSpec

\* The instruction generated for a node finds in the temporaries of its
\* operands, which generate_function_code takes from their places, the values
\* put there, in a tree of any shape.
THEOREM OperandsStay == PoolSpec => []OperandsIntact
<1>1. TemporariesInv => OperandsIntact
  <2> SUFFICES ASSUME TemporariesInv, NEW i \in DOMAIN pending, pending[i].temp # 0
               PROVE  pool.holds[pending[i].temp] = pending[i].node
    BY DEF OperandsIntact
  <2>1. i \in 1 .. Len(pending)
    BY DEF TemporariesInv, Kept
  <2> QED BY <2>1 DEF TemporariesInv, Kept
<1> QED BY <1>1, TemporariesAlways, PTL

\* free_temporary is never called twice for a temporary before it is handed
\* out again, nor for one whose value is still to be read.
THEOREM TemporariesHaveOneRole == PoolSpec => []OneRole
<1>1. ASSUME TemporariesInv PROVE OneRole
  <2>1. \A t \in Types : DOMAIN pool.free[t] = 1 .. Len(pool.free[t])
    BY <1>1 DEF TemporariesInv, PoolInv
  <2>2. DOMAIN pending = 1 .. Len(pending)
    BY <1>1 DEF TemporariesInv, Kept
  <2>3. Lists(pool, Len(pool.type), pool.type)
    BY <1>1, PoolFacts DEF TemporariesInv
  <2>4. ASSUME NEW s \in Types, NEW t \in Types,
               NEW i \in DOMAIN pool.free[s], NEW j \in DOMAIN pool.free[t],
               pool.free[s][i] = pool.free[t][j]
        PROVE  s = t /\ i = j
    <3>1. i \in 1 .. Len(pool.free[s]) /\ j \in 1 .. Len(pool.free[t])
      BY <2>1
    <3>2. pool.type[pool.free[s][i]] = s /\ pool.type[pool.free[t][j]] = t
      BY <2>3, <3>1 DEF Lists
    <3>3. s = t
      BY <2>4, <3>2
    <3> QED BY <2>3, <2>4, <3>1, <3>3 DEF Lists
  <2>5. ASSUME NEW i \in DOMAIN pending, pending[i].temp # 0
        PROVE  /\ \A j \in DOMAIN pending : pending[j].temp = pending[i].temp => j = i
               /\ \A t \in Types : \A j \in DOMAIN pool.free[t] : pool.free[t][j] # pending[i].temp
    <3>1. /\ ~IsFree(pool, pending[i].temp)
          /\ \A j \in 1 .. Len(pending) : pending[j].temp = pending[i].temp => j = i
      BY <1>1, <2>2, <2>5 DEF TemporariesInv, Kept
    <3> QED BY <2>1, <2>2, <3>1 DEF IsFree
  <2> QED BY <2>4, <2>5 DEF OneRole
<1> QED BY <1>1, TemporariesAlways, PTL
=============================================================================
