---------------------------- MODULE MCColorGraph ----------------------------
(***************************************************************************)
(* Two registers and six live ranges.  The graphs are those over the first *)
(* four, and those of two groups of three with one edge between them: it   *)
(* takes two groups for a spilled node to free nodes that are coloured     *)
(* while other nodes are still to be spilled.                              *)
(***************************************************************************)
EXTENDS ColorGraph

PairsOf(S) == {{n, m} : n, m \in S} \ {{n} : n \in S}

Graphs == SUBSET PairsOf({1, 2, 3, 4})
            \cup SUBSET (PairsOf({1, 2, 3}) \cup PairsOf({4, 5, 6}) \cup {{3, 4}})

\* Three of the live ranges may be expensive; two may be live across a call
\* to a function that uses register 0.
CostChoices == {[n \in Nodes |-> IF n \in S THEN 2 ELSE 1] : S \in SUBSET {1, 3, 5}}
PrefChoices == {[n \in Nodes |-> IF n \in S THEN {1} ELSE Regs] : S \in SUBSET {2, 3}}
=============================================================================
