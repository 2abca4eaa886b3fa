------------------------------ MODULE MCCalls -------------------------------
(***************************************************************************)
(* What a call may disturb: the registers (CallConvention), the words of   *)
(* the stack (StackFrames) and the bytes of a frame (FrameLayout).  They   *)
(* share no state, so that a behaviour drives one of them.                 *)
(***************************************************************************)
EXTENDS MCCallConvention, StackFrames, FrameLayout, TLC

VARIABLE driven

\* Two functions, with none, different and several $s registers, and with no,
\* one and two formals.
StackPrograms ==
  [num_formals : {[h \in 1 .. 2 |-> IF h = 1 THEN 0 ELSE k] : k \in 0 .. 2},
   saved : {<<0, 0>>, <<1, 0>>, <<1, 2>>, <<2, 1>>},
   words : {<<1, 1>>}, expr : {{}, {2}}]

\* A function with formals or a returned expression has no $s registers.
BareFrames == {p \in StackPrograms : \A h \in 1 .. 2 :
                 p.num_formals[h] > 0 \/ h \in p.expr => p.saved[h] = 0}

\* Chars that fill no word, and an array of no element.
LayoutElements == [c |-> 1, three |-> 3, five |-> 5, i |-> 1, ints |-> 2, none |-> 0,
                   f |-> 1, g |-> 1]
LayoutPosition == [f |-> 1, g |-> 2]

\* The components that are not driven stand still, in one state.
NoCalls == [calls |-> {}, regs |-> [h \in Functions |-> {}], locals |-> {}, expr |-> {}]
Leaves == [num_formals |-> <<0, 0>>, saved |-> <<0, 0>>, words |-> <<1, 1>>, expr |-> {}]

MCInit ==
  /\ \/ driven = "registers" /\ source \in Sources /\ prog = Leaves
     \/ driven = "stack" /\ prog \in Programs /\ source = NoCalls
     \/ driven = "layout" /\ prog = Leaves /\ source = NoCalls
  /\ Begin /\ EmptyStack /\ InitLayout

MCNext ==
  \/ driven = "registers" /\ Next /\ UNCHANGED <<driven, frame_vars, layout_vars>>
  \/ driven = "stack" /\ NextFrames /\ UNCHANGED <<driven, vars, layout_vars>>
  \/ driven = "layout" /\ NextLayout /\ UNCHANGED <<driven, vars, frame_vars>>

MCSpec == MCInit /\ [][MCNext]_<<driven, vars, frame_vars, layout_vars>>
=============================================================================
