----------------------------- MODULE MCDeadCode -----------------------------
(***************************************************************************)
(* Dead code elimination alone, on functions that assign their formal.     *)
(***************************************************************************)
EXTENDS DeadCode, FunctionBodies

AndFormal == {Assign(d, s) : d \in {x, f}, s \in {x, y, f, Null}}
=============================================================================
