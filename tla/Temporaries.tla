---------------------------- MODULE Temporaries -----------------------------
(***************************************************************************)
(* The temporaries generate_function_code (code_generation.c) keeps the    *)
(* values of subexpressions in, and their reuse through the free lists of  *)
(* symbol-table.c.                                                         *)
(*                                                                         *)
(* A tree is walked in postorder, so a behaviour is any sequence of nodes; *)
(* pending holds the places of the subtrees whose parent has not been      *)
(* generated.  The code of an expression has no jumps and is executed in   *)
(* the order it is generated: holds follows that execution.                *)
(***************************************************************************)
EXTENDS Integers, Sequences

CONSTANTS
  MaxTemporaries,  \* bound on the temporaries of a function
  MaxPending       \* bound on the places pending at once

ASSUME BoundsAssumption == MaxTemporaries \in Nat /\ MaxPending \in Nat

VARIABLES
  pool,    \* the temporaries of the function being generated
  pending  \* the places of finished subtrees, in the order of generation

pool_vars == <<pool, pending>>

ValueTypes == {"Int", "Char"}
Types == ValueTypes \cup {"Addr"}
Nodes == 1 .. MaxPending + 1

\* Temporaries are numbered as create_temporary makes them.  type and holds
\* give the type of each and the node that wrote it last; free the list of
\* each type.
NoTemporaries == [type |-> <<>>, holds |-> <<>>, free |-> [t \in Types |-> <<>>]]

\* Wrong on purpose: what is handed out stays at the head of its list.
create_and_keep_listed(p, t) ==
  IF p.free[t] # <<>> THEN [temp |-> Head(p.free[t]), pool |-> p]
  ELSE [temp |-> Len(p.type) + 1,
        pool |-> [p EXCEPT !.type = Append(@, t), !.holds = Append(@, 0)]]

\* create_temporary: the head of the free list, else a new one.
create_temporary(p, t) ==
  IF p.free[t] # <<>>
    THEN [temp |-> Head(p.free[t]), pool |-> [p EXCEPT !.free[t] = Tail(@)]]
    ELSE [temp |-> Len(p.type) + 1,
          pool |-> [p EXCEPT !.type = Append(@, t), !.holds = Append(@, 0)]]

\* A place: a temporary, or 0 for a variable or a string, and the node whose
\* value it has.
Place(temp, node) == [temp |-> temp, node |-> node]

\* free_temporary: it becomes the head of the list of its type.
free_temporary(p, temp) == [p EXCEPT !.free[p.type[temp]] = <<temp>> \o @]

\* One after the other, the places that are temporaries.
free_temporaries(p, places) ==
  LET freed[k \in 0 .. Len(places)] ==
        IF k = 0 THEN p
        ELSE IF places[k].temp = 0 THEN freed[k - 1]
        ELSE free_temporary(freed[k - 1], places[k].temp)
  IN  freed[Len(places)]

Written(p, temp, node) == [p EXCEPT !.holds[temp] = node]

\* The node being generated: one that is not the node of a pending place.
Fresh == CHOOSE n \in Nodes : \A i \in DOMAIN pending : pending[i].node # n

Top(k) == SubSeq(pending, Len(pending) - k + 1, Len(pending))
Below(k) == SubSeq(pending, 1, Len(pending) - k)

\* A place holding an address is an l-value: its node has a loc, no place.
IsLoc(e) == e.temp # 0 /\ pool.type[e.temp] = "Addr"
AreValues(places) == \A i \in DOMAIN places : ~IsLoc(places[i])

\* A node with k operands puts its value in a new temporary of type t, taken
\* from p; the temporaries of released are freed after that.
Produce(k, p, t, released) ==
  LET c == create_temporary(p, t)
  IN  /\ Len(pending) - k < MaxPending
      /\ c.temp <= MaxTemporaries
      /\ pool' = free_temporaries(Written(c.pool, c.temp, Fresh), released)
      /\ pending' = Append(Below(k), Place(c.temp, Fresh))

-----------------------------------------------------------------------------
InitPool == pool = NoTemporaries /\ pending = <<>>

\* Var, Stringcon.
Variable ==
  /\ Len(pending) < MaxPending
  /\ pending' = Append(pending, Place(0, 0))
  /\ UNCHANGED pool

\* Intcon, Charcon.
Constant(t) == Produce(0, pool, t, <<>>)

\* UnaryMinus: its operand is freed once the result has a place.
UnaryMinus ==
  /\ Len(pending) >= 1 /\ AreValues(Top(1))
  /\ Produce(1, pool, "Int", Top(1))

\* generate_binary_expr_code.
Binary ==
  /\ Len(pending) >= 2 /\ AreValues(Top(2))
  /\ Produce(2, pool, "Int", Top(2))

\* The address of an array element.  The subscript is freed before the
\* address has a place.
Indexed == create_temporary(free_temporaries(pool, Top(1)), "Addr")

\* ArraySubscript as an l-value: the address stays pending in loc.
IndexLocation ==
  /\ Len(pending) >= 1 /\ AreValues(Top(1))
  /\ Produce(1, free_temporaries(pool, Top(1)), "Addr", <<>>)

\* Wrong on purpose: the subscript is freed again once it is used.
IndexValueFreeing(t) ==
  /\ Len(pending) >= 1 /\ AreValues(Top(1)) /\ Indexed.temp <= MaxTemporaries
  /\ Produce(1, Written(Indexed.pool, Indexed.temp, Fresh), t, Top(1))

\* ArraySubscript as an r-value of element type t: OP_Deref loads it.  The
\* temporary of the address is not freed.
IndexValue(t) ==
  /\ Len(pending) >= 1 /\ AreValues(Top(1)) /\ Indexed.temp <= MaxTemporaries
  /\ Produce(1, Written(Indexed.pool, Indexed.temp, Fresh), t, <<>>)

\* FunCall in an expression, with n actuals.  All are generated, then passed
\* and freed, before the result is retrieved.
Call(n, t) ==
  /\ Len(pending) >= n
  /\ Produce(n, free_temporaries(pool, Top(n)), t, <<>>)

\* FunCall as a statement: the result, if any, is retrieved all the same and
\* its temporary is never freed.
CallStatement(t) ==
  /\ pending' = <<>>
  /\ LET p == free_temporaries(pool, pending)
         c == create_temporary(p, t)
     IN  \/ pool' = p
         \/ c.temp <= MaxTemporaries /\ pool' = Written(c.pool, c.temp, Fresh)

\* Assg: to a variable, which has no code, or to an array element, whose loc
\* is pending.  Only the place of the right-hand side is freed.
Assignment ==
  /\ \/ Len(pending) = 1
     \/ Len(pending) = 2 /\ IsLoc(pending[1])
  /\ AreValues(Top(1))
  /\ pool' = free_temporaries(pool, Top(1))
  /\ pending' = <<>>

\* The comparisons of generate_bool_expr_code, which free nothing.
Compare ==
  /\ Len(pending) = 2 /\ AreValues(pending)
  /\ pending' = <<>>
  /\ UNCHANGED pool

\* Return of an expression: it is copied to a temporary of the function's
\* type, and neither is freed.
Return(t) ==
  /\ Len(pending) = 1 /\ AreValues(pending)
  /\ LET c == create_temporary(pool, t)
     IN  c.temp <= MaxTemporaries /\ pool' = Written(c.pool, c.temp, Fresh)
  /\ pending' = <<>>

\* CleanupFnInfo.
EndFunction ==
  /\ pending = <<>>
  /\ pool' = NoTemporaries
  /\ UNCHANGED pending

NextNode ==
  \/ Variable \/ UnaryMinus \/ Binary \/ IndexLocation
  \/ Assignment \/ Compare \/ EndFunction
  \/ \E t \in ValueTypes :
       \/ Constant(t) \/ IndexValue(t) \/ CallStatement(t) \/ Return(t)
       \/ \E n \in 0 .. MaxPending : Call(n, t)

PoolSpec == InitPool /\ [][NextNode]_pool_vars

-----------------------------------------------------------------------------
\* The instruction generated for a node finds in each operand's temporary
\* the operand's value, however many subtrees came between: arguments of
\* calls, subscripts, addresses of array elements still to be stored to.
OperandsIntact ==
  \A i \in DOMAIN pending :
    pending[i].temp # 0 => pool.holds[pending[i].temp] = pending[i].node

\* A temporary waits in one place at most: it is never freed twice, and never
\* free while the value in it is still to be read.
OneRole ==
  /\ \A s, t \in Types : \A i \in DOMAIN pool.free[s], j \in DOMAIN pool.free[t] :
       pool.free[s][i] = pool.free[t][j] => s = t /\ i = j
  /\ \A i \in DOMAIN pending : pending[i].temp # 0 =>
       /\ \A j \in DOMAIN pending : pending[j].temp = pending[i].temp => j = i
       /\ \A t \in Types : \A j \in DOMAIN pool.free[t] : pool.free[t][j] # pending[i].temp
=============================================================================
