-------------------------- MODULE MCCodeGeneration --------------------------
(***************************************************************************)
(* The two halves of code generation: which temporary an expression's      *)
(* value is put in, and the MIPS code that puts it there.  They share no   *)
(* state, so that a behaviour drives one of them.                          *)
(*                                                                         *)
(* Translation has an int and a char in memory, an int and a char in a     *)
(* register, a constant of each type, an array of two ints and a formal of *)
(* two chars, an address temporary for each.  Words are the integers from  *)
(* -1 to 1, and the char made of 1 is -1.                                  *)
(***************************************************************************)
EXTENDS Translation, Temporaries, TLC

VARIABLE driven

IntTyped == {"x", "y", "k", "ints", "p"}
TypeOf(v) == IF v \in IntTyped THEN "Int" ELSE "Char"

MCType == [v \in Symbols |-> TypeOf(v)]
MCelt_type == [v \in Arrays \cup Addrs |-> TypeOf(v)]
MCconst_val == ("k" :> 1) @@ ("l" :> -1)
MCLengths == [A \in Arrays |-> 2]
MCreg == ("x" :> NoReg) @@ ("y" :> 0) @@ ("c" :> NoReg) @@ ("d" :> 1)

MCWords == -1 .. 1
MCChars == -1 .. 0
MCNarrow(x) == IF x = 1 THEN -1 ELSE x
MCNegate(x) == -x
MCArith(op, x, y) == IF x - y \in MCWords THEN x - y ELSE 0
MCHolds(op, x, y) == IF op = "le" THEN x <= y ELSE x # y

MCInit ==
  /\ driven \in {"temporaries", "translation"}
  /\ driven # "translation" =>
       /\ val = [v \in Scalars |-> 0]
       /\ element = [e \in Elements |-> 0]
  /\ Init
  /\ InitPool

MCNext ==
  \/ driven = "temporaries" /\ NextNode /\ UNCHANGED <<driven, vars>>
  \/ driven = "translation" /\ Next /\ UNCHANGED <<driven, pool_vars>>

MCSpec == MCInit /\ [][MCNext]_<<driven, vars, pool_vars>>
=============================================================================
