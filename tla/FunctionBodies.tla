--------------------------- MODULE FunctionBodies ---------------------------
(***************************************************************************)
(* The functions the passes are model-checked on: BodyLength instructions  *)
(* between Enter and a final Return of x, labels at chosen places and,     *)
(* elsewhere, assignments, calls, an array access through an address and   *)
(* jumps to the labels.                                                    *)
(***************************************************************************)
EXTENDS ThreeAddress, TLC

CONSTANTS BodyLength, x, y, f, g, a,
  LabelCounts,  \* numbers of labels a function may have
  Plain         \* the instructions other than labels and jumps

LocalIds == (x :> 0) @@ (y :> 1) @@ (a :> 2)

Assign(d, s) == Instruction("Assign", d, s, Null, 0)
Label == Instruction("Label", Null, Null, Null, 0)

\* The address of an element of the global array g, and a store through it.
ArrayAccess == {Assign(a, x), Instruction("Index_Array", a, g, x, 0)}

\* labels: the positions of the labels, in the function with its Enter.
Bodies(labels) ==
  LET others == Plain \cup {Instruction("Goto", Null, Null, Null, t) : t \in labels}
                      \cup {Instruction("If", Null, x, y, t) : t \in labels}
  IN  {[i \in 2 .. BodyLength + 1 |-> IF i \in labels THEN Label ELSE b[i]] :
         b \in [(2 .. BodyLength + 1) \ labels -> others]}

MCPrograms ==
  {[i \in 1 .. BodyLength + 2 |->
      CASE i = 1 -> Instruction("Enter", Null, Null, Null, 0)
        [] i = BodyLength + 2 -> Instruction("Return", Null, x, Null, 0)
        [] OTHER -> b[i]] :
     b \in UNION {Bodies(labels) : labels \in
                    {l \in SUBSET (2 .. BodyLength + 1) : Cardinality(l) \in LabelCounts}}}
=============================================================================
