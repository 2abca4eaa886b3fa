----------------------------- MODULE MCLocalCode -----------------------------
(***************************************************************************)
(* The code of one function before control flow matters: the declarations  *)
(* the parser enters in the symbol table (SymbolTable), the bodies it      *)
(* accepts with the code generated for them, with and without the peephole *)
(* (CompiledBody), and copy propagation over blocks of any instructions    *)
(* (MCCopyPropagation).  They share no state, so that a behaviour drives   *)
(* one of them.                                                            *)
(*                                                                         *)
(* The bodies are those of SampleBodies.  Words have two bits and chars    *)
(* one, so that a char made of an int, and arithmetic, often wrap.         *)
(***************************************************************************)
EXTENDS MCCopyPropagation, SymbolTable, CompiledBody

VARIABLE driven

\* The identifiers of the sample bodies; p to t are parameters.
IdType == [x |-> "Int", c |-> "Char", a |-> "Array", s |-> "Array", f |-> "Func", g |-> "Func",
           h |-> "Func", w |-> "Func", u |-> "None", p |-> "Int", q |-> "Array", r |-> "Char",
           t |-> "Array"]
IdElements == [a |-> "Int", s |-> "Char", q |-> "Int", t |-> "Char", x |-> "None", c |-> "None"]
IdReturns == [f |-> "Int", g |-> "Char", h |-> "None", w |-> "None"]
IdFormals == [f |-> <<"p">>, g |-> <<"q", "r">>, h |-> <<"p">>, w |-> <<"t">>]
IdLengths == [a |-> 2, s |-> 1]
AddressOf(array) == IF array = "a" THEN 100 ELSE 200

TwoBits(n) == ((n + 2) % 4) - 2
OneBit(n) == ((n + 1) % 2) - 1
Minus(n) == TwoBits(-n)
ArithmeticOf(op, m, n) ==
  TwoBits(CASE op = "Plus" -> m + n [] op = "BinaryMinus" -> m - n [] op = "Mult" -> m * n
            [] op = "Div" -> 2 * m - n)
Compares(op, m, n) ==
  CASE op = "Equals" -> m = n [] op = "Neq" -> m # n [] op = "Leq" -> m <= n
    [] op = "Lt" -> m < n [] op = "Geq" -> m >= n [] op = "Gt" -> m > n
ReturnedBy(id, args) == TwoBits(args[Len(args)] + IF id = "f" THEN 1 ELSE -1)

\* Values of the scalars and of the elements of the arrays: x is less than,
\* equal to or greater than c.
SampleStores ==
  {(<<"x", 0>> :> m[1]) @@ (<<"c", 0>> :> m[2]) @@ (<<"a", 0>> :> 1) @@ (<<"a", 1>> :> -2)
     @@ (<<"s", 0>> :> 0) : m \in {<<-2, 0>>, <<0, 0>>, <<1, -1>>}}

Samples == INSTANCE SampleBodies
AllSamples == Samples!AllBodies

\* No parameter, an int, an array of chars, both, a name twice, a void one.
Lists ==
  LET p(name, t, is_array) == [name |-> name, type |-> t, is_array |-> is_array]
  IN  {<<>>, <<p("x", "Int", FALSE)>>, <<p("y", "Char", TRUE)>>,
       <<p("x", "Int", FALSE), p("y", "Char", TRUE)>>,
       <<p("x", "Int", FALSE), p("x", "Int", FALSE)>>, <<p("x", "None", FALSE)>>}

-----------------------------------------------------------------------------
MCInit ==
  /\ driven \in {"block", "body", "table"}
  /\ driven # "block" => val = [v \in Vars |-> 0]
  /\ Init
  /\ IF driven = "body" THEN body \in Bodies /\ optimised \in BOOLEAN
     ELSE body = Samples!NoBody /\ optimised = FALSE
  /\ Begin
  /\ InitTable

\* A block at its bound, a function that has returned or is not run, a
\* program at its bound.
Finished ==
  /\ CASE driven = "block" -> length = MaxLength
       [] driven = "body" -> pc = 0
       [] driven = "table" -> declarations = MaxDeclarations /\ at = "top"
  /\ UNCHANGED <<driven, vars, body_vars, table_vars>>

MCNext ==
  \/ Finished
  \/ driven = "block" /\ Next /\ UNCHANGED <<driven, body_vars, table_vars>>
  \/ driven = "body" /\ NextInBody /\ UNCHANGED <<driven, vars, table_vars>>
  \/ driven = "table" /\ NextTable /\ UNCHANGED <<driven, vars, body_vars>>

MCSpec == MCInit /\ [][MCNext]_<<driven, vars, body_vars, table_vars>>

=============================================================================
