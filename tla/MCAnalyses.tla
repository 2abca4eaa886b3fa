----------------------------- MODULE MCAnalyses -----------------------------
(***************************************************************************)
(* The two iterations over the block list, the liveness of                 *)
(* liveness_analysis.c and the dominators of control_flow.c.  They share   *)
(* nothing, so that a behaviour drives one of them: the first on every     *)
(* graph of N blocks; the second on functions of the shape the code        *)
(* generator emits, Enter, a body of BodyLength instructions whose jumps   *)
(* go to labels, and a final Return.                                       *)
(***************************************************************************)
EXTENDS Liveness, ControlFlow

CONSTANT BodyLength

VARIABLE driven

EmptyIds == <<>>

Plain(op) == Instruction(op, Null, Null, Null, 0)
Jump(op, t) == Instruction(op, Null, Null, Null, t)

Body == [1 .. BodyLength -> {Plain("Call"), Plain("Label"), Plain("Return")}
           \cup {Jump(op, t) : op \in Jumps, t \in 2 .. BodyLength + 1}]

MCPrograms ==
  {p \in {<<Plain("Enter")>> \o b \o <<Plain("Return")>> : b \in Body} : JumpsToLabels(p)}

\* The component that is not driven stands still, in one state.
Function == <<Plain("Enter"), Plain("Return")>>
LiveIdle ==
  /\ children = [b \in Blocks |-> {}]
  /\ def = children /\ use = children /\ in = children /\ out = children
  /\ pos = 1 /\ converged = TRUE /\ done = FALSE

MCInit ==
  \/ driven = "control_flow" /\ LiveIdle /\ InitGraph
  \/ driven = "liveness" /\ Init /\ prog = Function /\ Start

Drive == \/ driven = "control_flow" /\ Build /\ UNCHANGED <<driven, vars>>
         \/ driven = "liveness" /\ Next /\ UNCHANGED <<driven, graph_vars>>

MCNext == \/ Drive
          \/ /\ driven = "control_flow"
             /\ \E j \in DOMAIN prog : Execute(j)
             /\ UNCHANGED <<driven, vars>>

MCVars == <<driven, vars, graph_vars>>
MCSpec == MCInit /\ [][MCNext]_MCVars /\ WF_MCVars(Drive)

-----------------------------------------------------------------------------
\* Whichever iteration is driven comes to its end.
IterationsEnd == <>(IF driven = "liveness" THEN done ELSE pc # 0)
=============================================================================
