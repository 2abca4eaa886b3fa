------------------------------ MODULE Liveness ------------------------------
(***************************************************************************)
(* find_in_and_out_liveness_sets (liveness_analysis.c): round-robin        *)
(* iteration over the block list until a whole pass changes nothing.  Each *)
(* visit uses whatever in sets its successors have at that moment, some of *)
(* this pass, some of the previous one.                                    *)
(*                                                                         *)
(* The blocks are numbered in list order.  The control flow graph and the  *)
(* def and use sets (find_def_and_use_sets, module LivenessSets) are       *)
(* inputs chosen by Init.                                                  *)
(***************************************************************************)
EXTENDS Integers

CONSTANTS
  N,    \* number of blocks
  Vars  \* ids of the local variables

ASSUME NAssumption == N \in Nat \ {0}

Blocks == 1 .. N

VARIABLES
  children,   \* block.children
  def,        \* block.def
  use,        \* block.use
  in,         \* block.in
  out,        \* block.out
  pos,        \* the block block_list_node points to; N + 1 after the last
  converged,  \* the local of that name
  done        \* the outer loop has ended

input == <<children, def, use>>
vars == <<children, def, use, in, out, pos, converged, done>>

\* Wrong on purpose: the block counts among its own successors.
InOfSuccessorsAndSelf(b) == in[b] \cup UNION {in[c] : c \in children[b]}

\* get_in_set_from_sucessors
InOfSuccessors(b) == UNION {in[c] : c \in children[b]}

\* An instruction that defines and uses a variable makes it used, not
\* defined, so find_def_and_use_sets leaves the two sets disjoint.
DefUseSets == {s \in [def : SUBSET Vars, use : SUBSET Vars] : s.def \cap s.use = {}}

Init ==
  /\ children \in [Blocks -> SUBSET Blocks]
  /\ \E s \in [Blocks -> DefUseSets] :
       /\ def = [b \in Blocks |-> s[b].def]
       /\ use = [b \in Blocks |-> s[b].use]
  /\ in = use
  /\ out = [b \in Blocks |-> {}]
  /\ pos = 1
  /\ converged = TRUE
  /\ done = FALSE

\* The body of the inner loop, for the block at pos.
VisitBlock ==
  /\ ~done
  /\ pos \in Blocks
  /\ LET newOut == InOfSuccessors(pos)
         newIn == use[pos] \cup (newOut \ def[pos])
     IN  /\ out' = [out EXCEPT ![pos] = newOut]
         /\ in' = [in EXCEPT ![pos] = newIn]
         /\ converged' = (converged /\ out[pos] = newOut /\ in[pos] = newIn)
  /\ pos' = pos + 1
  /\ UNCHANGED <<children, def, use, done>>

NextPass ==
  /\ ~done
  /\ pos = N + 1
  /\ ~converged
  /\ pos' = 1
  /\ converged' = TRUE
  /\ UNCHANGED <<children, def, use, in, out, done>>

\* Wrong on purpose: one pass is taken to be enough.
FinishAtOnce ==
  /\ ~done /\ pos = N + 1
  /\ done' = TRUE
  /\ UNCHANGED <<children, def, use, in, out, pos, converged>>

Finish ==
  /\ ~done
  /\ pos = N + 1
  /\ converged
  /\ done' = TRUE
  /\ UNCHANGED <<children, def, use, in, out, pos, converged>>

Next == VisitBlock \/ NextPass \/ Finish

\* Sequential code: it runs until the loop ends.
Spec == Init /\ [][Next]_vars /\ WF_vars(Next)

-----------------------------------------------------------------------------
TypeOK ==
  /\ children \in [Blocks -> SUBSET Blocks]
  /\ def \in [Blocks -> SUBSET Vars]
  /\ use \in [Blocks -> SUBSET Vars]
  /\ in \in [Blocks -> SUBSET Vars]
  /\ out \in [Blocks -> SUBSET Vars]
  /\ pos \in 1 .. N + 1
  /\ converged \in BOOLEAN
  /\ done \in BOOLEAN

\* The data-flow equations of one block.
Equations(b) ==
  /\ out[b] = InOfSuccessors(b)
  /\ in[b] = use[b] \cup (out[b] \ def[b])

\* When the loop ends every block satisfies its equations, also the blocks
\* visited before a successor last changed.
SolvedAtEnd == done => \A b \in Blocks : Equations(b)

\* X is closed under the equations: no liveness can be added to it.
Closed(X) ==
  \A b \in Blocks :
    use[b] \cup ((UNION {X[c] : c \in children[b]}) \ def[b]) \subseteq X[b]

\* At every step the sets are below every closed assignment: the analysis
\* never calls live what some closed assignment calls dead, so dead code
\* elimination loses nothing to a needlessly large solution.
BelowEveryClosed ==
  \A X \in [Blocks -> SUBSET Vars] :
    Closed(X) => \A b \in Blocks :
                   /\ in[b] \subseteq X[b]
                   /\ out[b] \subseteq UNION {X[c] : c \in children[b]}

\* A path of the graph from b to a use of v with no definition before it.
LiveAtEntry(v, b) ==
  \E k \in 0 .. N - 1 : \E p \in [0 .. k -> Blocks] :
    /\ p[0] = b
    /\ \A i \in 0 .. k - 1 : p[i + 1] \in children[p[i]] /\ v \notin def[p[i]]
    /\ v \in use[p[k]]

\* The result means what liveness means: a variable is in in[b] exactly when
\* some path from b reads it before writing it.
ExactAtEnd == done => \A b \in Blocks : in[b] = {v \in Vars : LiveAtEntry(v, b)}

\* The sets only grow within a run of the analysis, which is why it ends.
OnlyGrow == [][\A b \in Blocks : in[b] \subseteq in'[b] /\ out[b] \subseteq out'[b]]_vars

\* The loop ends.
Terminates == <>done
=============================================================================
