---------------------------- MODULE MCOptimizer -----------------------------
(***************************************************************************)
(* The optimizer on functions that assign the locals, copy between them,   *)
(* store through an address, and call a function that is already           *)
(* processed, one that is not, and println.                                *)
(***************************************************************************)
EXTENDS Optimizer, FunctionBodies

CONSTANTS parsed, unparsed, println

Callees == {parsed, println}
CalleeRegisters == (parsed :> {0, 1}) @@ (println :> {})

Call(h) == Instruction("Call", Null, h, Null, 0)

Body == {Assign(x, y), Assign(y, x), Assign(x, Null), Assign(g, y)}
          \cup ArrayAccess \cup {Call(parsed), Call(unparsed)}
=============================================================================
