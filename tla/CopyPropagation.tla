-------------------------- MODULE CopyPropagation ---------------------------
(***************************************************************************)
(* do_copy_propagation (code_optimization.c), one instruction per step.    *)
(*                                                                         *)
(* The instructions of a block arrive one by one, any legal instruction at *)
(* any point, so a behaviour is the pass over an arbitrary list of blocks. *)
(* Beside the symbol table fields the pass keeps, val records the values   *)
(* the source program's variables hold at this point of the block: it is   *)
(* what the rewritten operands are compared with.                          *)
(***************************************************************************)
EXTENDS Integers, FiniteSets

CONSTANTS
  Vars,          \* variables, temporaries and constants of a function
  Consts,        \* the constants among them (symtabnode.is_constant)
  Globals,       \* those of global scope
  Type,          \* symtabnode.type of each
  Addr,          \* t_Addr, the type of temporaries that hold an address
  ValuesOf(_),   \* the values a variable of a type can hold
  Convert(_, _), \* Convert(t, x): the value x leaves in a variable of type t
  Null,          \* NULL
  MaxLength      \* bound on the number of instructions of a block

ASSUME VarsAssumption ==
  /\ IsFiniteSet(Vars)
  /\ Consts \subseteq Vars
  /\ Globals \subseteq Vars \ Consts
  /\ Null \notin Vars
\* Storing a value in a variable of the type it came from changes nothing.
ASSUME ConvertAssumption ==
  \A v, w \in Vars : \A x \in ValuesOf(Type[w]) :
    /\ Convert(Type[v], x) \in ValuesOf(Type[v])
    /\ Type[v] = Type[w] => Convert(Type[v], x) = x
ASSUME LengthAssumption == MaxLength \in Nat

VARIABLES
  copies,  \* copied_from, copied_to and propagated_vars
  val,     \* the values of the variables in the source program
  length,  \* instructions of this block processed
  sound    \* every operand rewritten, and every assignment dropped so far
           \* in the pass left the program the value it had

vars == <<copies, val, length, sound>>

Valuations == {f \in [Vars -> UNION {ValuesOf(Type[v]) : v \in Vars}] :
                 \A v \in Vars : f[v] \in ValuesOf(Type[v])}

(***************************************************************************)
(* The lists of the pass.  copied_to[o] never holds a variable twice, so   *)
(* it is a set; propagated_vars may list a variable several times, so it   *)
(* is a count.  remove_from_list_of_variables dereferences NULL when the   *)
(* variable is not in the list: crashed.                                   *)
(***************************************************************************)
NoCopies == [from |-> [v \in Vars |-> Null], to |-> [v \in Vars |-> {}],
             listed |-> [v \in Vars |-> 0], crashed |-> FALSE]

Unlist(listed, o) == [listed EXCEPT ![o] = IF @ = 0 THEN 0 ELSE @ - 1]

\* Wrong on purpose: an original is listed once, however many its copies.
attach_listing_once(c, v, o) ==
  [from    |-> [c.from EXCEPT ![v] = o],
   to      |-> [c.to EXCEPT ![o] = @ \cup {v}],
   listed  |-> [c.listed EXCEPT ![o] = 1],
   crashed |-> c.crashed]

attach_variable_to_original(c, v, o) ==
  [from    |-> [c.from EXCEPT ![v] = o],
   to      |-> [c.to EXCEPT ![o] = @ \cup {v}],
   listed  |-> [c.listed EXCEPT ![o] = @ + 1],
   crashed |-> c.crashed]

detach_variable_from_original(c, v) ==
  LET o == c.from[v]
  IN  [from    |-> [c.from EXCEPT ![v] = Null],
       to      |-> [c.to EXCEPT ![o] = @ \ {v}],
       listed  |-> Unlist(c.listed, o),
       crashed |-> c.crashed \/ c.listed[o] = 0 \/ v \notin c.to[o]]

\* Wrong on purpose: the copies go on pointing to the original.
detach_one_way(c, o) ==
  [from    |-> c.from,
   to      |-> [c.to EXCEPT ![o] = {}],
   listed  |-> Unlist(c.listed, o),
   crashed |-> c.crashed \/ c.listed[o] = 0]

detach_copies_from_original(c, o) ==
  [from    |-> [v \in Vars |-> IF v \in c.to[o] THEN Null ELSE c.from[v]],
   to      |-> [c.to EXCEPT ![o] = {}],
   listed  |-> Unlist(c.listed, o),
   crashed |-> c.crashed \/ c.listed[o] = 0]

\* clear_propagated_vars: the loop detaches the copies of every variable
\* listed, until none is.
clear_propagated_vars(c) ==
  [from    |-> [v \in Vars |-> IF \E o \in Vars : c.listed[o] > 0 /\ v \in c.to[o]
                                 THEN Null ELSE c.from[v]],
   to      |-> [o \in Vars |-> IF c.listed[o] > 0 THEN {} ELSE c.to[o]],
   listed  |-> [o \in Vars |-> 0],
   crashed |-> c.crashed]

\* Wrong on purpose: the copies of a variable redefined are kept.
RedefineCopyOnly(c, d) ==
  IF c.from[d] # Null THEN detach_variable_from_original(c, d) ELSE c

\* The variable redefined stops being a copy, or stops having copies.
Redefine(c, d) ==
  IF c.from[d] # Null THEN detach_variable_from_original(c, d)
  ELSE IF c.to[d] # {} THEN detach_copies_from_original(c, d)
  ELSE c

Root(c, v) == IF c.from[v] # Null THEN c.from[v] ELSE v

\* What an assignment of s leaves in d.
Converted(d, s) == Convert(Type[d], val[s])

-----------------------------------------------------------------------------
Init ==
  /\ copies = NoCopies
  /\ val \in Valuations
  /\ length = 0
  /\ sound = TRUE

Continues == ~copies.crashed /\ length < MaxLength /\ length' = length + 1

\* An assignment both of whose sides stand for the same variable is dropped.
NullAssign(d, s) ==
  /\ Continues
  /\ Root(copies, d) = Root(copies, s)
  /\ sound' = (sound /\ (Type[d] = Addr \/ val[d] = Converted(d, s)))
  /\ UNCHANGED <<copies, val>>

\* OP_Assign.  With d of type t_Addr it stores through d, which keeps its
\* value, and is neither a copy nor, for the pass, any less a redefinition.
Assign(d, s) ==
  /\ Continues
  /\ Root(copies, d) # Root(copies, s)
  /\ LET c == Redefine(copies, d)
         propagated == IF Type[d] = Type[s]
                         THEN attach_variable_to_original(c, d, Root(c, s))
                         ELSE c
     IN  /\ copies' = propagated
         /\ sound' = (sound /\ val[Root(propagated, s)] = val[s])
  /\ val' = IF Type[d] = Addr THEN val
            ELSE [val EXCEPT ![d] = Converted(d, s)]

\* OP_UMinus, OP_BinaryArithmetic, OP_Deref, OP_Index_Array: d gets some
\* value x computed from the operands S.
Compute(d, S, x) ==
  /\ Continues
  /\ copies' = Redefine(copies, d)
  /\ sound' = (sound /\ \A s \in S : val[Root(copies', s)] = val[s])
  /\ val' = [val EXCEPT ![d] = x]

\* OP_Retrieve has no operand of its own: SRC1 is NULL.
Retrieve(d, x) == Compute(d, {}, x)

\* OP_If, OP_Param, OP_Return: operands are read, nothing is defined.
UseOnly(S) ==
  /\ Continues
  /\ sound' = (sound /\ \A s \in S : val[Root(copies, s)] = val[s])
  /\ UNCHANGED <<copies, val>>

\* OP_Call is a block leader (find_block_leaders), so it is the first
\* instruction of its block; the callee may write any global.
Call(after) ==
  /\ Continues
  /\ length = 0
  /\ \A v \in Vars \ Globals : after[v] = val[v]
  /\ val' = after
  /\ UNCHANGED <<copies, sound>>

\* The end of a block.  The next one in the list may be entered from
\* anywhere, with any values but the constants'.
EndBlock(before) ==
  /\ ~copies.crashed
  /\ copies' = clear_propagated_vars(copies)
  /\ \A v \in Consts : before[v] = val[v]
  /\ val' = before
  /\ length' = 0
  /\ UNCHANGED sound

\* An address temporary is written through or dereferenced, never copied:
\* generate_function_code leaves it in loc, not in place.
Places == {v \in Vars : Type[v] # Addr}

Operands == {S \in SUBSET Vars : Cardinality(S) \in 1 .. 2}

Next ==
  \/ \E d \in Vars \ Consts, s \in Places : NullAssign(d, s) \/ Assign(d, s)
  \/ \E d \in Vars \ Consts : \E x \in ValuesOf(Type[d]) :
       \/ Retrieve(d, x)
       \/ \E S \in Operands : Compute(d, S, x)
  \/ \E S \in Operands : UseOnly(S)
  \/ \E f \in Valuations : Call(f) \/ EndBlock(f)

Spec == Init /\ [][Next]_vars

-----------------------------------------------------------------------------
ListsType == [from : [Vars -> Vars \cup {Null}], to : [Vars -> SUBSET Vars],
              listed : [Vars -> Nat], crashed : BOOLEAN]

TypeOK ==
  /\ copies \in ListsType
  /\ val \in Valuations
  /\ length \in 0 .. MaxLength
  /\ sound \in BOOLEAN

\* The rewritten program computes what the source program does: every
\* operand replaced holds the value of the operand it replaces, and every
\* assignment dropped would have stored the value already there.
RewriteSound == sound

\* A copy recorded in the symbol table is a copy in the program: the two
\* variables have the same type and, at this point, the same value.
CopiesHold ==
  \A v \in Vars : copies.from[v] # Null =>
    Type[v] = Type[copies.from[v]] /\ val[v] = val[copies.from[v]]

\* copied_from and copied_to mirror each other, and propagation leaves no
\* chains: an original is not itself a copy.
Mirrored ==
  \A v, o \in Vars :
    /\ v \in copies.to[o] <=> copies.from[v] = o
    /\ copies.from[v] = o => copies.from[o] = Null

\* A variable is listed in propagated_vars at least once per live copy of it:
\* no removal from a list misses its target and dereferences NULL.
ListedPerCopy ==
  /\ ~copies.crashed
  /\ \A o \in Vars : copies.listed[o] >= Cardinality(copies.to[o])

\* No copy outlives its block: clear_propagated_vars reaches every copy
\* through propagated_vars, though detaching unlists an original only once.
ClearedAtLeader == length = 0 => copies = NoCopies
=============================================================================
