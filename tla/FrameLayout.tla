---------------------------- MODULE FrameLayout -----------------------------
(***************************************************************************)
(* The places of a function's variables in its frame                       *)
(* (fill_local_allocations and allocate of symbol-table.c): offsets in     *)
(* bytes from $fp, one entry of the local symbol table per step.  allocate *)
(* goes through a hash table, so that the order of the entries is taken to *)
(* be any.                                                                 *)
(***************************************************************************)
EXTENDS Integers, FiniteSets

CONSTANTS
  Entries,    \* the local symbol table: locals, temporaries and formals
  Formals,    \* those with symtabnode.formal
  position,   \* the place of each formal in the list of parameters, from 1
  Bytes,      \* those of type char or bool, or whose elements are chars
  num_elts    \* elements of an array, 1 for a scalar

ASSUME EntriesAssumption ==
  /\ Formals \subseteq Entries /\ Bytes \subseteq Entries
  /\ position \in [Formals -> Nat \ {0}]
  /\ \A v, w \in Formals : position[v] = position[w] => v = w
  /\ num_elts \in [Entries -> Nat]

VARIABLES
  pass,            \* t_1B, then t_4B, the sizes allocate is called with
  curr_fp_offset,
  fp_offset,       \* symtabnode.fp_offset
  allocated        \* the entries allocate has come to

layout_vars == <<pass, curr_fp_offset, fp_offset, allocated>>

Locals == Entries \ Formals
OfSize(t) == IF t = "t_1B" THEN Locals \cap Bytes ELSE Locals \ Bytes
byte_size(v) == IF v \in Bytes THEN num_elts[v] ELSE 4 * num_elts[v]

\* SymTabRecordFunInfo has placed the formals, above the two words an
\* activation begins with.
InitLayout ==
  /\ pass = "t_1B"
  /\ curr_fp_offset = 0
  /\ fp_offset = [v \in Entries |-> IF v \in Formals THEN 4 * (position[v] + 1) ELSE 0]
  /\ allocated = {}

\* Wrong on purpose: the offset before the entry is counted in.
allocate_before(v) ==
  /\ v \in OfSize(pass) \ allocated
  /\ curr_fp_offset' = curr_fp_offset + byte_size(v)
  /\ fp_offset' = [fp_offset EXCEPT ![v] = -curr_fp_offset]
  /\ allocated' = allocated \cup {v}
  /\ UNCHANGED pass

\* An entry of the size the pass is for.
allocate(v) ==
  /\ v \in OfSize(pass) \ allocated
  /\ curr_fp_offset' = curr_fp_offset + byte_size(v)
  /\ fp_offset' = [fp_offset EXCEPT ![v] = -curr_fp_offset']
  /\ allocated' = allocated \cup {v}
  /\ UNCHANGED pass

\* The next multiple of four.
Aligned(offset) == IF offset % 4 # 0 THEN 4 * (offset \div 4) + 4 ELSE offset

\* Between the two calls of allocate.
Align ==
  /\ pass = "t_1B"
  /\ OfSize(pass) \subseteq allocated
  /\ pass' = "t_4B"
  /\ curr_fp_offset' = Aligned(curr_fp_offset)
  /\ UNCHANGED <<fp_offset, allocated>>

NextLayout == Align \/ \E v \in Entries : allocate(v)

LayoutSpec == InitLayout /\ [][NextLayout]_layout_vars

-----------------------------------------------------------------------------
\* Type invariant of the layout.
LayoutTypeOK ==
  /\ pass \in {"t_1B", "t_4B"}
  /\ curr_fp_offset \in Nat
  /\ fp_offset \in [Entries -> Int]
  /\ allocated \subseteq Locals

\* The two entries share no byte.
Apart(v, w) ==
  \/ fp_offset[v] + byte_size(v) <= fp_offset[w]
  \/ fp_offset[w] + byte_size(w) <= fp_offset[v]

\* No two variables of an activation share a byte, formals included.
SlotsDisjoint ==
  \A v, w \in allocated \cup Formals : v # w =>
    Apart(v, w) \/ (v \in Formals /\ w \in Formals)

\* The function's byte_size, by which OP_Enter lowers $sp, covers them all.
SlotsInFrame ==
  \A v \in allocated : -curr_fp_offset <= fp_offset[v] /\ fp_offset[v] + byte_size(v) <= 0

\* What lw and sw access is at a multiple of four, and so is $sp after the
\* frame is taken.
WordsAligned ==
  /\ \A v \in allocated \ Bytes : fp_offset[v] % 4 = 0
  /\ pass = "t_4B" => curr_fp_offset % 4 = 0

\* The frame of a function, however its variables follow each other.
FrameSound == SlotsDisjoint /\ SlotsInFrame /\ WordsAligned
=============================================================================
