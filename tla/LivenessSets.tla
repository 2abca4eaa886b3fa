---------------------------- MODULE LivenessSets ----------------------------
(***************************************************************************)
(* The sets of find_in_and_out_liveness_sets (liveness_analysis.c) for a   *)
(* function p whose instruction i is in block[i], with graph edges and     *)
(* dead instructions.  The iteration is taken at its result: module        *)
(* Liveness has the iteration and shows that it ends in the least solution *)
(* of the equations.                                                       *)
(***************************************************************************)
EXTENDS ThreeAddress

\* The instructions of a block. A function entry that is a block on its own
\* has no last_instruction and is not walked, but it has no operand either.
Walked(block, b) == {i \in DOMAIN block : block[i] = b}
last_instruction(block, b) ==
  CHOOSE i \in Walked(block, b) : \A j \in Walked(block, b) : j <= i

\* Wrong on purpose: dead instructions are not passed over.
SkippedIfNull(p, dead, i) == NullAssignment(p[i])

\* Dead instructions are passed over, and so are assignments of a variable
\* to itself.
Skipped(p, dead, i) == i \in dead \/ NullAssignment(p[i])

\* The ids live before each instruction of a block, and after the last one,
\* given those live at its end.
LiveIn(p, block, dead, b, live_out) ==
  LET after == last_instruction(block, b) + 1
      live[i \in b .. after] ==
        IF i = after THEN live_out
        ELSE IF Skipped(p, dead, i) THEN live[i + 1]
        ELSE (live[i + 1] \ lhs_set(p[i])) \cup rhs_set(p[i])
  IN  live

\* find_def_and_use_sets: what a block writes before it reads it, and reads
\* before it writes it.
def_set(p, block, dead, b) ==
  LET after == last_instruction(block, b) + 1
      def[i \in b .. after] ==
        IF i = after THEN {}
        ELSE IF Skipped(p, dead, i) THEN def[i + 1]
        ELSE (lhs_set(p[i]) \cup def[i + 1]) \ rhs_set(p[i])
  IN  def[b]

use_set(p, block, dead, b) == LiveIn(p, block, dead, b, {})[b]

\* The least sets with in = use \cup (out \ def) and out the union of the
\* children's in, as pairs of a block and an id.
LeastIn(p, block, edges, dead) ==
  LET blocks == {block[i] : i \in DOMAIN block}
      use == UNION {{b} \X use_set(p, block, dead, b) : b \in blocks}
      def == UNION {{b} \X def_set(p, block, dead, b) : b \in blocks}
      before(q) == Parents(edges, q[1]) \X {q[2]}
      step[k \in Nat] ==
        IF k = 0 THEN use
        ELSE use \cup ((UNION {before(q) : q \in step[k - 1]}) \ def)
  IN  step[Cardinality(blocks)]

LeastOut(p, block, edges, dead) ==
  LET in == LeastIn(p, block, edges, dead)
  IN  [b \in {block[i] : i \in DOMAIN block} |->
         {q[2] : q \in {r \in in : r[1] \in Children(edges, b)}}]
-----------------------------------------------------------------------------
(***************************************************************************)
(* Liveness as paths of single instructions, the reference the sets are    *)
(* compared with.                                                          *)
(***************************************************************************)

\* Successors in the graph, whose edges may be more than control can take.
GraphSuccessors(block, edges, i) ==
  IF i + 1 \in DOMAIN block /\ block[i + 1] = block[i] THEN {i + 1}
  ELSE Children(edges, block[i])

\* The instructions from which the graph leads to one of goals, past none of
\* cuts on the way.
Reaching(p, block, edges, goals, cuts) ==
  LET before(i) == {j \in DOMAIN p : i \in GraphSuccessors(block, edges, j)}
      step[k \in Nat] ==
        IF k = 0 THEN goals
        ELSE goals \cup ((UNION {before(i) : i \in step[k - 1]}) \ cuts)
  IN  step[Len(p)]

\* The instructions from which variable v is read before it is written, by
\* instructions that are not dead along the graph. These are variables and
\* not the ids the sets above hold, which parameters share with the local
\* numbered 0. As there, an instruction whose destination is an address
\* reads it, the one that computes it included.
ReadFrom(p, block, edges, dead, v) ==
  LET kept == DOMAIN p \ dead
  IN  Reaching(p, block, edges,
               {i \in kept : v \in Operands(p[i]) \cup ({p[i].dest} \cap Addrs)},
               {i \in kept : v \in {p[i].dest} \ Addrs})
=============================================================================
