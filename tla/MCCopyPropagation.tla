------------------------ MODULE MCCopyPropagation ---------------------------
(* Two int locals a and b, a char local c, an int global g, an int        *)
(* constant k and an address temporary p.  A char holds fewer values than *)
(* an int, so storing 1 in c truncates.                                   *)
EXTENDS CopyPropagation

MCType == [v \in Vars |-> IF v = "c" THEN "char" ELSE IF v = "p" THEN "addr" ELSE "int"]
MCValuesOf(t) == IF t = "int" THEN 0 .. 1 ELSE {0}
MCConvert(t, x) == IF t = "int" THEN x ELSE 0
=============================================================================
