-------------------------- MODULE MCCallConvention --------------------------
(***************************************************************************)
(* Programs of three functions with chains of calls, calls to functions    *)
(* defined later, mutual and direct recursion; one $t and one $s register. *)
(***************************************************************************)
EXTENDS CallConvention, FiniteSets

CONSTANT MaxCalls  \* bound on the call edges of a program

Edges == {<<3, 1>>, <<3, 2>>, <<2, 1>>, <<1, 2>>, <<2, 2>>, <<1, 3>>}

All ==
  {[calls |-> c, regs |-> u, locals |-> l, expr |-> e] :
     c \in {d \in SUBSET Edges : Cardinality(d) <= MaxCalls},
     u \in [Functions -> SUBSET Regs], l \in {{1, 2, 3}, {2, 3}}, e \in {{1, 2, 3}, {3}, {}}}

WellFormed == {s \in All : \A h \in Functions : s.regs[h] # {} => h \in s.locals}

Sound == {s \in WellFormed : Covering(s) /\ PlainReturns(s)}
NotCovering == {s \in WellFormed : PlainReturns(s)}
WithExpressions == {s \in WellFormed : Covering(s)}
=============================================================================
