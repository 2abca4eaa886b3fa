-------------------------- MODULE OptimizerProofs ---------------------------
(***************************************************************************)
(* Theorems about Optimizer for every function the code generator emits,   *)
(* every number of registers and every set of functions already processed: *)
(* dead code elimination changes no value that is read and leaves no       *)
(* instruction that is dead, the interference graph has an edge only where *)
(* a live range is written while the other may be read later, and a        *)
(* variable is read from its register with the value last assigned to it.  *)
(* Parameters share the id of one local, about which the passes are safe   *)
(* if no parameter is assigned, and exact if none is read either.          *)
(***************************************************************************)
EXTENDS Optimizer, LivenessSetsProofs

\* No parameter is assigned, since the code confuses one with the local of
\* id 0.  What is proved of the execution needs it.
FormalsKept == \A p \in Programs : AssignsNoFormal(p)

\* The walk of create_interference_graph_connections, as a function of what
\* it reads.
LiveNow(p, blk, dd, b, live_out) ==
  LET after == last_instruction(blk, b) + 1
      reads(i) == {id(v) : v \in (Operands(p[i]) \cap LocalScope) \ Addrs}
      live[i \in b .. after] ==
        IF i = after THEN live_out
        ELSE IF i \in dd THEN live[i + 1]
        ELSE (live[i + 1] \ lhs_set(p[i])) \cup reads(i)
  IN  live

LiveNowAfter(i) == LiveNow(prog, block, dead, block[i], out[block[i]])[i + 1]

-----------------------------------------------------------------------------
(***************************************************************************)
(* The inductive invariant.                                                *)
(***************************************************************************)

\* The graph is that of the function, and nothing happens before it is built.
GraphInv ==
  /\ prog \in Programs
  /\ AssignsNoFormal(prog)
  /\ global_enabled \in BOOLEAN
  /\ created_blocks # <<>> =>
       /\ created_blocks = Reverse(CreationOrder(prog))
       /\ block = BlockMap(prog)
       /\ edges = Edges(prog, block)
       /\ live_at_call = [i \in DOMAIN prog |-> live_at_call[i]]
  /\ created_blocks = <<>> => dce_out = <<>> /\ out = <<>>

\* What is marked dead is not live after it: the last analysis is a solution
\* for all that is marked since, and for the writes of block pos to come.
DeadInv ==
  /\ ~global_enabled \/ dce_out = <<>> => dead = {}
  /\ dce_out = <<>> => dce_pos = 0 /\ found = TRUE
  /\ dce_out # <<>> =>
       /\ Solution(prog, block, edges, dead, dce_out)
       /\ \A i \in dead : ~NullAssignment(prog[i]) =>
            /\ i \in DOMAIN prog
            /\ redefines_variable(prog[i])
            /\ prog[i].dest \in LocalScope
            /\ id(prog[i].dest) \notin LiveAfter(prog, block, dead, dce_out, i)

\* The blocks walked in this round hold no assignment of a variable to
\* itself that is not dead.
NullInv ==
  /\ dce_pos \in 0 .. Len(created_blocks)
  /\ dce_out # <<>> =>
       \A i \in DOMAIN prog :
         /\ NullAssignment(prog[i])
         /\ dce_pos = 0 \/ \E k \in 1 .. dce_pos - 1 : created_blocks[k] = block[i]
         => i \in dead

\* Register allocation starts when dead code elimination is over; what is
\* live after a write in a block walked since is a neighbour of it, and what
\* is live after a call is on its list.
AllocInv ==
  /\ out = <<>> => pos = 0 /\ reg = <<>>
  /\ out # <<>> =>
       /\ global_enabled => dce_out # <<>> /\ dce_pos = 0 /\ ~found
       /\ Solution(prog, block, edges, dead, out)
       /\ pos \in 1 .. Len(created_blocks) + 1
       /\ \A i \in DOMAIN prog \ dead :
            (\E k \in 1 .. pos - 1 : created_blocks[k] = block[i]) =>
              /\ prog[i].dest \in Alloc!LiveRanges =>
                   \A v \in Alloc!LiveRanges \ {prog[i].dest} :
                     id(v) \in LiveNowAfter(i) => {prog[i].dest, v} \in neighbors
              /\ prog[i].op = "Call" => live_at_call[i] = LiveNowAfter(i)

\* The colouring respects the graph.
ColourInv ==
  reg # <<>> =>
    /\ pos = Len(created_blocks) + 1
    /\ reg \in [Alloc!LiveRanges -> Alloc!Regs \cup {Alloc!NoReg}]
    /\ \A v, w \in Alloc!LiveRanges : {v, w} \in neighbors /\ v # w =>
         reg[v] # reg[w] \/ reg[v] = Alloc!NoReg

\* In the execution everything live has the value it has in the function as
\* written, and is in its register.
ExecutionInv ==
  /\ pc = 0 => LocalScope \cup Globals \subseteq agree /\ assigned = {}
               /\ holder = [r \in Alloc!Regs |-> Null]
  /\ pc # 0 =>
       /\ pc \in DOMAIN prog
       /\ reg # <<>>
       /\ Globals \cup Formals \subseteq agree
       /\ ~global_enabled => Locals \subseteq agree
       /\ global_enabled =>
            \A v \in Locals :
              id(v) \in LiveBefore(prog, block, dead, dce_out, pc) => v \in agree
       /\ DOMAIN holder = Alloc!Regs
       /\ \A v \in Alloc!LiveRanges \cap assigned :
            /\ id(v) \in LiveBefore(prog, block, dead, out, pc)
            /\ reg[v] # Alloc!NoReg
            => holder[reg[v]] = v

IInv == GraphInv /\ DeadInv /\ NullInv /\ AllocInv /\ ColourInv /\ ExecutionInv

-----------------------------------------------------------------------------
(***************************************************************************)
(* The operators and actions of DeadCode and Interference, in the names of *)
(* this module.                                                            *)
(***************************************************************************)
LEMMA DceOperators ==
  ASSUME NEW p, NEW bl, NEW ed, NEW de
  PROVE  /\ Dce!LeastOut(p, bl, ed, de) = LeastOut(p, bl, ed, de)
         /\ \A i : Dce!NullAssignment(p[i]) = NullAssignment(p[i])
         /\ \A i : Dce!redefines_variable(p[i]) = redefines_variable(p[i])
         /\ \A i : Dce!Operands(p[i]) = Operands(p[i])
         /\ \A i : Dce!Successors(p, i) = Successors(p, i)
<1>1. Dce!LeastOut(p, bl, ed, de) = LeastOut(p, bl, ed, de)
  BY DEF Dce!LeastOut, LeastOut, Dce!LeastIn, LeastIn, Dce!use_set, use_set, Dce!def_set, def_set,
    Dce!Children, Children, Dce!Parents, Parents, Dce!LiveIn, LiveIn,
    Dce!last_instruction, last_instruction, Dce!Walked, Walked, Dce!Skipped, Skipped,
    Dce!NullAssignment, NullAssignment, Dce!lhs_set, lhs_set, Dce!rhs_set, rhs_set,
    Dce!Operands, Operands, Dce!LocalScope, LocalScope, Dce!id, id, Dce!Cardinality, Cardinality
<1>2. \A i : Dce!NullAssignment(p[i]) = NullAssignment(p[i])
  BY DEF Dce!NullAssignment, NullAssignment
<1>3. \A i : Dce!redefines_variable(p[i]) = redefines_variable(p[i])
  BY DEF Dce!redefines_variable, redefines_variable
<1>4. \A i : Dce!Operands(p[i]) = Operands(p[i])
  BY DEF Dce!Operands, Operands
<1>5. \A i : Dce!Successors(p, i) = Successors(p, i)
  BY DEF Dce!Successors, Successors
<1> QED BY <1>1, <1>2, <1>3, <1>4, <1>5

LEMMA AllocLeastOut ==
  ASSUME NEW p, NEW bl, NEW ed, NEW de
  PROVE  Alloc!LeastOut(p, bl, ed, de) = LeastOut(p, bl, ed, de)
BY DEF Alloc!LeastOut, LeastOut, Alloc!LeastIn, LeastIn, Alloc!use_set, use_set,
  Alloc!def_set, def_set, Alloc!Children, Children, Alloc!Parents, Parents, Alloc!LiveIn, LiveIn,
  Alloc!last_instruction, last_instruction, Alloc!Walked, Walked, Alloc!Skipped, Skipped,
  Alloc!NullAssignment, NullAssignment, Alloc!lhs_set, lhs_set, Alloc!rhs_set, rhs_set,
  Alloc!Operands, Operands, Alloc!LocalScope, LocalScope, Alloc!id, id,
  Alloc!Cardinality, Cardinality

LEMMA AllocGraph ==
  ASSUME NEW p, NEW bl, NEW s
  PROVE  /\ Alloc!CreationOrder(p) = CreationOrder(p)
         /\ Alloc!Reverse(s) = Reverse(s)
         /\ Alloc!BlockMap(p) = BlockMap(p)
         /\ Alloc!Edges(p, bl) = Edges(p, bl)
<1>1. Alloc!CreationOrder(p) = CreationOrder(p)
  BY DEF Alloc!CreationOrder, CreationOrder, Alloc!Jumps, Jumps, Alloc!Cardinality, Cardinality
<1>2. Alloc!Reverse(s) = Reverse(s)
  BY DEF Alloc!Reverse, Reverse
<1>3. Alloc!BlockMap(p) = BlockMap(p)
  BY DEF Alloc!BlockMap, BlockMap, Alloc!Leaders, Leaders, Alloc!Jumps, Jumps
<1>4. Alloc!Edges(p, bl) = Edges(p, bl)
  BY DEF Alloc!Edges, Edges, Alloc!Jumps, Jumps
<1> QED BY <1>1, <1>2, <1>3, <1>4

LEMMA AllocOperators ==
  ASSUME NEW p
  PROVE  /\ \A i : Alloc!NullAssignment(p[i]) = NullAssignment(p[i])
         /\ \A i : Alloc!Operands(p[i]) = Operands(p[i])
         /\ \A i : Alloc!Successors(p, i) = Successors(p, i)
         /\ \A v : Alloc!id(v) = id(v)
         /\ \A bl, b : Alloc!Walked(bl, b) = Walked(bl, b)
BY DEF Alloc!NullAssignment, NullAssignment, Alloc!Operands, Operands,
  Alloc!Successors, Successors, Alloc!id, id, Alloc!Walked, Walked

LEMMA AllocLiveNow ==
  ASSUME NEW b
  PROVE  Alloc!live_now(b) = LiveNow(prog, block, dead, b, out[b])
BY DEF Alloc!live_now, LiveNow, Alloc!last_instruction, last_instruction, Alloc!Walked, Walked,
  Alloc!lhs_set, lhs_set, Alloc!Operands, Operands, Alloc!LocalScope, LocalScope, Alloc!id, id

LEMMA DceLiveIn ==
  ASSUME NEW p, NEW bl, NEW de, NEW b, NEW L
  PROVE  Dce!LiveIn(p, bl, de, b, L) = LiveIn(p, bl, de, b, L)
BY DEF Dce!LiveIn, LiveIn, Dce!last_instruction, last_instruction, Dce!Walked, Walked,
  Dce!Skipped, Skipped, Dce!NullAssignment, NullAssignment, Dce!lhs_set, lhs_set,
  Dce!rhs_set, rhs_set, Dce!Operands, Operands, Dce!LocalScope, LocalScope, Dce!id, id

\* build_control_flow_graph.
LEMMA BuildIs ==
  ASSUME Alloc!build_control_flow_graph
  PROVE  /\ created_blocks = <<>>
         /\ created_blocks' = Reverse(CreationOrder(prog))
         /\ block' = BlockMap(prog)
         /\ edges' = Edges(prog, block')
         /\ live_at_call' = [i \in DOMAIN prog |-> {}]
         /\ UNCHANGED <<prog, dead, out, pos, neighbors, reg, pc, holder, assigned>>
BY AllocGraph DEF Alloc!build_control_flow_graph

\* find_in_and_out_liveness_sets of either pass.
LEMMA FindDeadIs ==
  ASSUME Dce!find_in_and_out_liveness_sets
  PROVE  /\ created_blocks # <<>> /\ dce_pos = 0 /\ found
         /\ dce_out' = LeastOut(prog, block, edges, dead)
         /\ dce_pos' = 1 /\ found' = FALSE
         /\ UNCHANGED <<prog, created_blocks, block, edges, dead, pc, agree>>
BY DceOperators DEF Dce!find_in_and_out_liveness_sets, Dce!graph

LEMMA FindLiveIs ==
  ASSUME Alloc!find_in_and_out_liveness_sets
  PROVE  /\ created_blocks # <<>> /\ out = <<>>
         /\ out' = LeastOut(prog, block, edges, dead)
         /\ pos' = 1
         /\ UNCHANGED <<prog, dead, created_blocks, block, edges, neighbors, live_at_call,
                        reg, pc, holder, assigned>>
BY AllocLeastOut DEF Alloc!find_in_and_out_liveness_sets, Alloc!graph

\* remove_dead_instructions: what it marks in its block.
LEMMA RemoveIs ==
  ASSUME Dce!remove_dead_instructions
  PROVE  /\ dce_pos \in DOMAIN created_blocks
         /\ dead \subseteq dead'
         /\ \A i \in dead' \ dead :
              /\ i \in DOMAIN block /\ block[i] = created_blocks[dce_pos]
              /\ \/ NullAssignment(prog[i])
                 \/ /\ redefines_variable(prog[i])
                    /\ prog[i].dest \in LocalScope
                    /\ id(prog[i].dest) \notin LiveAfter(prog, block, dead, dce_out, i)
         /\ \A i \in DOMAIN block :
              block[i] = created_blocks[dce_pos] /\ NullAssignment(prog[i]) => i \in dead'
         /\ dce_pos' = IF dce_pos = Len(created_blocks) THEN 0 ELSE dce_pos + 1
         /\ found' \in BOOLEAN
         /\ found' = FALSE =>
              /\ ~found
              /\ \A i \in dead' \ dead : NullAssignment(prog[i])
              /\ \A i \in DOMAIN block \ dead' :
                   /\ block[i] = created_blocks[dce_pos]
                   /\ redefines_variable(prog[i])
                   /\ prog[i].dest \in LocalScope
                   => id(prog[i].dest) \in LiveAfter(prog, block, dead, dce_out, i)
         /\ UNCHANGED <<prog, created_blocks, block, edges, dce_out, pc, agree>>
<1> DEFINE b == created_blocks[dce_pos]
<1>1. dead' = dead \cup Dce!NewlyDead(b)
                \cup {i \in Walked(block, b) : NullAssignment(prog[i])}
  BY DEF Dce!remove_dead_instructions, Dce!Walked, Walked, Dce!NullAssignment, NullAssignment
<1>2. Dce!NewlyDead(b)
        = {i \in Walked(block, b) \ dead :
             /\ ~NullAssignment(prog[i])
             /\ redefines_variable(prog[i])
             /\ prog[i].dest \in LocalScope
             /\ id(prog[i].dest) \notin LiveIn(prog, block, dead, b, dce_out[b])[i + 1]}
  BY DceLiveIn DEF Dce!NewlyDead, Dce!Walked, Walked, Dce!NullAssignment, NullAssignment,
    Dce!redefines_variable, redefines_variable, Dce!LocalScope, LocalScope, Dce!id, id
<1> HIDE DEF b
<1>3. \A i \in dead' \ dead :
        /\ i \in DOMAIN block /\ block[i] = b
        /\ \/ NullAssignment(prog[i])
           \/ /\ redefines_variable(prog[i])
              /\ prog[i].dest \in LocalScope
              /\ id(prog[i].dest) \notin LiveAfter(prog, block, dead, dce_out, i)
  BY <1>1, <1>2 DEF Walked, LiveAfter
<1>4. \A i \in DOMAIN block : block[i] = b /\ NullAssignment(prog[i]) => i \in dead'
  BY <1>1 DEF Walked
<1>5. /\ dce_pos \in DOMAIN created_blocks
      /\ dce_pos' = IF dce_pos = Len(created_blocks) THEN 0 ELSE dce_pos + 1
      /\ found' \in BOOLEAN
      /\ UNCHANGED <<prog, created_blocks, block, edges, dce_out, pc, agree>>
  BY DEF Dce!remove_dead_instructions, Dce!graph
<1>6. ASSUME found' = FALSE
      PROVE  ~found /\ {i \in Walked(block, b) \ dead :
                           /\ ~NullAssignment(prog[i])
                           /\ redefines_variable(prog[i])
                           /\ prog[i].dest \in LocalScope
                           /\ id(prog[i].dest)
                                \notin LiveIn(prog, block, dead, b, dce_out[b])[i + 1]} = {}
  <2>1. found' = (found \/ Dce!NewlyDead(b) # {})
    BY DEF Dce!remove_dead_instructions, b
  <2> QED BY <1>2, <1>6, <2>1
<1>7. found' = FALSE =>
        /\ ~found
        /\ \A i \in dead' \ dead : NullAssignment(prog[i])
        /\ \A i \in DOMAIN block \ dead' :
             /\ block[i] = b
             /\ redefines_variable(prog[i])
             /\ prog[i].dest \in LocalScope
             => id(prog[i].dest) \in LiveAfter(prog, block, dead, dce_out, i)
  BY <1>1, <1>2, <1>6 DEF Walked, LiveAfter
<1> QED BY <1>1, <1>3, <1>4, <1>5, <1>7 DEF b

\* create_interference_graph_connections: what it records of its block.
LEMMA ConnectIs ==
  ASSUME Alloc!create_interference_graph_connections
  PROVE  /\ pos \in DOMAIN created_blocks
         /\ neighbors \subseteq neighbors'
         /\ \A i \in DOMAIN block \ dead :
              block[i] = created_blocks[pos] =>
                /\ prog[i].dest \in Alloc!LiveRanges =>
                     \A v \in Alloc!LiveRanges \ {prog[i].dest} :
                       id(v) \in LiveNowAfter(i) => {prog[i].dest, v} \in neighbors'
                /\ i \in DOMAIN prog /\ prog[i].op = "Call" => live_at_call'[i] = LiveNowAfter(i)
         /\ \A i \in DOMAIN prog :
              ~(i \in DOMAIN block /\ block[i] = created_blocks[pos]) =>
                live_at_call'[i] = live_at_call[i]
         /\ live_at_call' = [i \in DOMAIN prog |-> live_at_call'[i]]
         /\ \A e \in neighbors' \ neighbors :
              \E i \in DOMAIN block \ dead : \E w \in e \cap Alloc!LiveRanges :
                prog[i].dest \in e \ {w} /\ id(w) \in LiveNowAfter(i)
         /\ pos' = pos + 1
         /\ UNCHANGED <<prog, dead, created_blocks, block, edges, out, reg, pc, holder, assigned>>
<1> DEFINE b == created_blocks[pos]
           live == LiveNow(prog, block, dead, b, out[b])
           walked == Walked(block, b) \ dead
           calls == {i \in walked : prog[i].op = "Call"}
           joined(i) == {{prog[i].dest, v} : v \in Alloc!Named(live[i + 1]) \ {prog[i].dest}}
<1>1. /\ Alloc!live_now(b) = live
      /\ Alloc!Walked(block, b) = Walked(block, b)
  BY AllocLiveNow, AllocOperators
<1>2. neighbors' = neighbors \cup
                     UNION {joined(i) : i \in {j \in walked : prog[j].dest \in Alloc!LiveRanges}}
  <2> HIDE DEF live
  <2> QED BY <1>1 DEF Alloc!create_interference_graph_connections
<1>3. live_at_call' = [i \in DOMAIN prog |-> IF i \in calls THEN live[i + 1] ELSE live_at_call[i]]
  <2> HIDE DEF live
  <2> QED BY <1>1 DEF Alloc!create_interference_graph_connections
<1>4. /\ pos \in DOMAIN created_blocks
      /\ pos' = pos + 1
      /\ UNCHANGED <<prog, dead, created_blocks, block, edges, out, reg, pc, holder, assigned>>
  BY DEF Alloc!create_interference_graph_connections, Alloc!graph
<1>5. \A v : v \in Alloc!LiveRanges => \A ids : id(v) \in ids => v \in Alloc!Named(ids)
  BY AllocOperators DEF Alloc!Named
<1>6. \A i \in DOMAIN block : block[i] = b => i \in Walked(block, b) /\ live[i + 1] = LiveNowAfter(i)
  BY DEF Walked, LiveNowAfter
<1>7. \A i \in Walked(block, b) : i \in DOMAIN block /\ block[i] = b
  BY DEF Walked
<1> HIDE DEF b, live
<1>8. ASSUME NEW i \in DOMAIN block \ dead, block[i] = b, prog[i].dest \in Alloc!LiveRanges,
             NEW v \in Alloc!LiveRanges \ {prog[i].dest}, id(v) \in LiveNowAfter(i)
      PROVE  {prog[i].dest, v} \in neighbors'
  <2>1. i \in {j \in walked : prog[j].dest \in Alloc!LiveRanges}
    BY <1>6, <1>8
  <2>2. {prog[i].dest, v} \in joined(i)
    BY <1>5, <1>6, <1>8
  <2> HIDE DEF joined, walked
  <2> QED BY <1>2, <2>1, <2>2
<1>9. ASSUME NEW i \in DOMAIN block \ dead, block[i] = b, i \in DOMAIN prog, prog[i].op = "Call"
      PROVE  live_at_call'[i] = LiveNowAfter(i)
  BY <1>3, <1>6, <1>9
<1>10. ASSUME NEW i \in DOMAIN prog, ~(i \in DOMAIN block /\ block[i] = b)
       PROVE  live_at_call'[i] = live_at_call[i]
  BY <1>3, <1>7, <1>10
<1>11. live_at_call' = [i \in DOMAIN prog |-> live_at_call'[i]]
  BY <1>3
<1>12. ASSUME NEW e \in neighbors' \ neighbors
       PROVE  \E i \in DOMAIN block \ dead : \E w \in e \cap Alloc!LiveRanges :
                prog[i].dest \in e \ {w} /\ id(w) \in LiveNowAfter(i)
  <2>1. PICK i \in {j \in walked : prog[j].dest \in Alloc!LiveRanges} : e \in joined(i)
    <3> HIDE DEF walked, joined
    <3> QED BY <1>2, <1>12
  <2>2. i \in DOMAIN block \ dead /\ block[i] = b /\ i \in Walked(block, b)
    BY <1>7, <2>1
  <2>3. PICK w \in Alloc!Named(live[i + 1]) \ {prog[i].dest} : e = {prog[i].dest, w}
    BY <2>1
  <2>4. id(w) \in LiveNowAfter(i) /\ w \in Alloc!LiveRanges
    BY <1>6, <2>2, <2>3, AllocOperators DEF Alloc!Named
  <2> QED BY <2>2, <2>3, <2>4
<1> QED BY <1>2, <1>4, <1>8, <1>9, <1>10, <1>11, <1>12 DEF b

\* The walk of LiveNow over block b.
NowWalk(p, dd, b, last, live, L) ==
  /\ live[last + 1] = L
  /\ \A i \in b .. last :
       live[i] = IF i \in dd THEN live[i + 1]
                 ELSE (live[i + 1] \ lhs_set(p[i]))
                        \cup {id(v) : v \in (Operands(p[i]) \cap LocalScope) \ Addrs}

LEMMA LiveNowIs ==
  ASSUME NEW p, NEW blk, NEW dd, NEW b \in Int, NEW L,
         last_instruction(blk, b) \in Int, b <= last_instruction(blk, b)
  PROVE  NowWalk(p, dd, b, last_instruction(blk, b), LiveNow(p, blk, dd, b, L), L)
<1> DEFINE after == last_instruction(blk, b) + 1
           live == LiveNow(p, blk, dd, b, L)
           reads(i) == {id(v) : v \in (Operands(p[i]) \cap LocalScope) \ Addrs}
           K == [i \in b .. after |-> IF i \in dd THEN {} ELSE lhs_set(p[i])]
           G == [i \in b .. after |-> IF i \in dd THEN {} ELSE reads(i)]
           Walk(f) == [i \in b .. after |->
                         IF i = after THEN L
                         ELSE IF i \in dd THEN f[i + 1]
                         ELSE (f[i + 1] \ lhs_set(p[i])) \cup reads(i)]
<1>0. live = CHOOSE g : g = Walk(g)
  BY DEF LiveNow
<1> HIDE DEF reads
<1>1. after \in Int
  OBVIOUS
<1>2. PICK f : f = [i \in b .. after |->
                      IF i = after THEN L ELSE (f[i + 1] \ K[i]) \cup G[i]]
  <2> HIDE DEF after, K, G
  <2>1. WalkDefined(b, after, L, K, G)
    BY <1>1, BackwardWalk
  <2> QED BY <2>1 DEF WalkDefined
<1>3. f = Walk(f)
  <2> HIDE DEF after
  <2>1. \A i \in b .. after : (f[i + 1] \ K[i]) \cup G[i]
                                = IF i \in dd THEN f[i + 1]
                                  ELSE (f[i + 1] \ lhs_set(p[i])) \cup reads(i)
    OBVIOUS
  <2> HIDE DEF K, G
  <2> QED BY <1>2, <2>1
<1> HIDE DEF live, after, Walk
<1>5. live = Walk(live)
  BY <1>0, <1>3
<1>6. live[after] = L
  <2>1. after \in b .. after
    BY <1>1 DEF after
  <2> QED BY <2>1, <1>5 DEF Walk
<1>7. ASSUME NEW i \in b .. after - 1
      PROVE  live[i] = IF i \in dd THEN live[i + 1]
                       ELSE (live[i + 1] \ lhs_set(p[i])) \cup reads(i)
  <2>1. i \in b .. after /\ i # after
    BY <1>1
  <2> QED BY <2>1, <1>5 DEF Walk
<1>8. after - 1 = last_instruction(blk, b)
  BY DEF after
<1> QED BY <1>6, <1>7, <1>8 DEF live, after, reads, NowWalk

LEMMA IdUnique ==
  \A v, w \in Locals : id(v) = id(w) => v = w
BY VariablesAssumption DEF id

\* live_now misses no variable with a live range that is live.
LEMMA LiveNowCovers ==
  ASSUME NEW p, WellFormed(p), NEW blk, Partition(p, blk), NEW dd, NEW L,
         NEW b, BlockOf(p, blk, b),
         NEW v \in Alloc!LiveRanges
  PROVE  \A i \in b .. last_instruction(blk, b) + 1 :
           id(v) \in LiveIn(p, blk, dd, b, L)[i] => id(v) \in LiveNow(p, blk, dd, b, L)[i]
<1> DEFINE last == last_instruction(blk, b)
           live == LiveIn(p, blk, dd, b, L)
           now == LiveNow(p, blk, dd, b, L)
           reads(i) == {id(w) : w \in (Operands(p[i]) \cap LocalScope) \ Addrs}
           T == {i \in Int : id(v) \in live[i] => id(v) \in now[i]}
<1>1. b \in Int /\ last \in Int /\ b <= last /\ LiveWalk(p, dd, b, last, live, L)
  BY LiveInIs
<1>2. NowWalk(p, dd, b, last, now, L)
  BY <1>1, LiveNowIs
<1>3. v \in Locals /\ v \notin Addrs /\ Addrs \subseteq Locals
  BY VariablesAssumption DEF Alloc!LiveRanges
<1> HIDE DEF last, live, now
<1>4. last + 1 \in T /\ last + 1 \in Int
  BY <1>1, <1>2 DEF LiveWalk, NowWalk
<1>5. ASSUME NEW i \in b .. (last + 1) - 1, i + 1 \in T PROVE i \in T
  <2>1. i \in b .. last /\ i \in Int
    BY <1>1
  <2>2. live[i] = IF Skipped(p, dd, i) THEN live[i + 1]
                  ELSE (live[i + 1] \ lhs_set(p[i])) \cup rhs_set(p[i])
    BY <1>1, <2>1 DEF LiveWalk
  <2>3. now[i] = IF i \in dd THEN now[i + 1] ELSE (now[i + 1] \ lhs_set(p[i])) \cup reads(i)
    BY <1>2, <2>1 DEF NowWalk
  <2>4. id(v) \in rhs_set(p[i]) => id(v) \in reads(i)
    <3> SUFFICES ASSUME id(v) \in rhs_set(p[i]) PROVE id(v) \in reads(i)
      OBVIOUS
    <3>1. PICK w \in ({p[i].dest} \cap Addrs) \cup (Operands(p[i]) \cap LocalScope) : id(v) = id(w)
      BY DEF rhs_set
    <3>2. w \notin Addrs
      BY <1>3, <3>1, IdUnique
    <3> QED BY <3>1, <3>2
  <2>5. NullAssignment(p[i]) /\ id(v) \in lhs_set(p[i]) => id(v) \in reads(i)
    <3> SUFFICES ASSUME NullAssignment(p[i]), id(v) \in lhs_set(p[i]) PROVE id(v) \in reads(i)
      OBVIOUS
    <3>1. p[i].dest \in LocalScope \ Addrs /\ id(v) = id(p[i].dest)
      BY DEF lhs_set
    <3>2. p[i].dest \in Operands(p[i])
      <4>1. p[i].dest # Null
        BY <3>1, VariablesAssumption DEF LocalScope
      <4> QED BY <4>1 DEF NullAssignment, Operands
    <3> QED BY <3>1, <3>2
  <2> HIDE DEF reads
  <2>6. CASE i \in dd
    BY <1>5, <2>1, <2>2, <2>3, <2>6 DEF Skipped
  <2>7. CASE i \notin dd /\ NullAssignment(p[i])
    BY <1>5, <2>1, <2>2, <2>3, <2>5, <2>7 DEF Skipped
  <2>8. CASE i \notin dd /\ ~NullAssignment(p[i])
    BY <1>5, <2>1, <2>2, <2>3, <2>4, <2>8 DEF Skipped
  <2> QED BY <2>6, <2>7, <2>8
<1> HIDE DEF T
<1>6. \A i \in b .. last + 1 : i \in T
  BY <1>1, <1>4, <1>5, BackwardInduction
<1> QED BY <1>6 DEF T, last, live, now

\* colour_graph and the execution.
LEMMA ColourIs ==
  ASSUME Alloc!color_graph
  PROVE  /\ pos = Len(created_blocks) + 1 /\ reg = <<>>
         /\ reg' \in [Alloc!LiveRanges -> Alloc!Regs \cup {Alloc!NoReg}]
         /\ \A v, w \in Alloc!LiveRanges : {v, w} \in neighbors /\ v # w =>
              reg'[v] # reg'[w] \/ reg'[v] = Alloc!NoReg
         /\ UNCHANGED <<prog, dead, created_blocks, block, edges, out, pos, neighbors,
                        live_at_call, pc, holder, assigned>>
BY DEF Alloc!color_graph, Alloc!graph

\* One step of the execution, as to values.
LEMMA StepAgree ==
  ASSUME NEW j, Dce!Execute(j)
  PROVE  /\ pc # 0 /\ pc' = j /\ j \in Successors(prog, pc)
         /\ agree' = IF ~redefines_variable(prog[pc]) THEN agree
                     ELSE IF pc \notin dead THEN agree \cup {prog[pc].dest}
                     ELSE IF NullAssignment(prog[pc]) THEN agree
                     ELSE agree \ {prog[pc].dest}
         /\ UNCHANGED <<prog, created_blocks, block, edges, dead, dce_out, dce_pos, found>>
BY DceOperators DEF Dce!Execute, Dce!graph

\* One step of the execution, as to registers.
LEMMA StepHolder ==
  ASSUME NEW j, Alloc!Execute(j)
  PROVE  LET d == prog[pc].dest
             writes == d \in Alloc!LiveRanges /\ pc \notin dead
         IN  /\ assigned' = IF writes THEN assigned \cup {d} ELSE assigned
             /\ holder' = [r \in Alloc!Regs |->
                   IF writes /\ reg[d] = r THEN d
                   ELSE IF prog[pc].op = "Call" /\ r \in Alloc!Clobbered(pc) \ Alloc!Saved(pc)
                        THEN Null
                   ELSE holder[r]]
             /\ UNCHANGED <<out, pos, neighbors, live_at_call, reg>>
BY DEF Alloc!Execute

-----------------------------------------------------------------------------
(***************************************************************************)
(* The invariant holds and is preserved.                                   *)
(***************************************************************************)

\* What the proofs use of the graph.
LEMMA GraphFacts ==
  ASSUME GraphInv
  PROVE  /\ WellFormed(prog) /\ AssignsNoFormal(prog)
         /\ created_blocks # <<>> =>
              /\ Partition(prog, block) /\ DOMAIN block = DOMAIN prog
              /\ WalksAll(prog, created_blocks)
              /\ edges = Edges(prog, block)
<1>1. WellFormed(prog) /\ AssignsNoFormal(prog)
  BY ProgramsAssumption DEF GraphInv
<1> QED BY <1>1, BlockMapPartition, CreatedWalk DEF GraphInv, Partition

LEMMA InitInv ==
  ASSUME FormalsKept
  PROVE  Init => IInv
<1> SUFFICES ASSUME Init PROVE IInv
  OBVIOUS
<1> USE DEF Init, Dce!Start, Alloc!Start
<1>1. GraphInv
  BY DEF GraphInv, FormalsKept
<1>2. DeadInv /\ NullInv
  BY DEF DeadInv, NullInv
<1>3. AllocInv /\ ColourInv
  BY DEF AllocInv, ColourInv
<1>4. ExecutionInv
  BY DEF ExecutionInv, Dce!Variables, Dce!LocalScope, LocalScope
<1> QED BY <1>1, <1>2, <1>3, <1>4 DEF IInv

LEMMA BuildStep ==
  IInv /\ build_control_flow_graph => IInv'
<1> SUFFICES ASSUME IInv, build_control_flow_graph PROVE IInv'
  OBVIOUS
<1>1. /\ GraphInv /\ DeadInv /\ NullInv /\ AllocInv /\ ColourInv /\ ExecutionInv
      /\ UNCHANGED <<global_enabled, dce_vars>>
  BY DEF IInv, build_control_flow_graph
<1>2. /\ created_blocks = <<>>
      /\ created_blocks' = Reverse(CreationOrder(prog))
      /\ block' = BlockMap(prog)
      /\ edges' = Edges(prog, block')
      /\ live_at_call' = [i \in DOMAIN prog |-> {}]
      /\ UNCHANGED <<prog, dead, out, pos, neighbors, reg, pc, holder, assigned>>
  BY BuildIs DEF build_control_flow_graph
<1>3. /\ dce_out = <<>> /\ out = <<>> /\ dead = {} /\ dce_pos = 0 /\ found = TRUE
      /\ pos = 0 /\ reg = <<>> /\ pc = 0
  BY <1>1, <1>2 DEF GraphInv, DeadInv, AllocInv, ExecutionInv
<1>4. Len(created_blocks') \in Nat
  BY <1>1, <1>2, GraphFacts, CreatedWalk DEF WalksAll
<1>5. GraphInv'
  BY <1>1, <1>2, <1>3 DEF GraphInv, dce_vars
<1>6. DeadInv' /\ NullInv'
  BY <1>1, <1>2, <1>3, <1>4 DEF DeadInv, NullInv, dce_vars
<1>7. AllocInv' /\ ColourInv'
  BY <1>1, <1>2, <1>3 DEF AllocInv, ColourInv, dce_vars
<1>8. ExecutionInv'
  BY <1>1, <1>2, <1>3 DEF ExecutionInv, dce_vars
<1> QED BY <1>5, <1>6, <1>7, <1>8 DEF IInv

\* An analysis gives every block a set.
LEMMA LeastOutNotEmpty ==
  ASSUME NEW p, WellFormed(p), NEW blk, Partition(p, blk), NEW ed, NEW dd
  PROVE  LeastOut(p, blk, ed, dd) # <<>>
<1>1. DOMAIN LeastOut(p, blk, ed, dd) = {blk[i] : i \in DOMAIN blk}
  BY DEF LeastOut
<1>2. 1 \in DOMAIN blk
  BY LeadersType DEF Partition
<1>3. DOMAIN LeastOut(p, blk, ed, dd) # {}
  BY <1>1, <1>2
<1> QED BY <1>3

LEMMA FindDeadStep ==
  ASSUME IInv, global_enabled, out = <<>>, Dce!find_in_and_out_liveness_sets,
         UNCHANGED <<global_enabled, register_vars>>
  PROVE  IInv'
<1>1. GraphInv /\ DeadInv /\ NullInv /\ AllocInv /\ ColourInv /\ ExecutionInv
  BY DEF IInv
<1>2. /\ created_blocks # <<>> /\ dce_pos = 0 /\ found
      /\ dce_out' = LeastOut(prog, block, edges, dead)
      /\ dce_pos' = 1 /\ found' = FALSE
      /\ UNCHANGED <<prog, created_blocks, block, edges, dead, pc, agree>>
  BY FindDeadIs
<1>3. /\ WellFormed(prog) /\ Partition(prog, block) /\ edges = Edges(prog, block)
      /\ Len(created_blocks) \in Nat \ {0}
  BY <1>1, <1>2, GraphFacts DEF WalksAll
<1>4. dce_out' # <<>>
  BY <1>2, <1>3, LeastOutNotEmpty
<1>5. Solution(prog, block, edges, dead, dce_out')
  BY <1>2, <1>3, LeastOutSolution
<1>6. /\ reg = <<>> /\ pos = 0 /\ pc = 0
  BY <1>1 DEF AllocInv, ExecutionInv
<1>7. GraphInv'
  BY <1>1, <1>2 DEF GraphInv, register_vars
<1>8. ASSUME NEW i \in dead, ~NullAssignment(prog[i])
      PROVE  /\ i \in DOMAIN prog /\ redefines_variable(prog[i]) /\ prog[i].dest \in LocalScope
             /\ id(prog[i].dest) \notin LiveAfter(prog, block, dead, dce_out', i)
  <2>1. dce_out # <<>>
    BY <1>1, <1>8 DEF DeadInv
  <2>2. /\ Solution(prog, block, edges, dead, dce_out)
        /\ i \in DOMAIN prog /\ redefines_variable(prog[i]) /\ prog[i].dest \in LocalScope
        /\ id(prog[i].dest) \notin LiveAfter(prog, block, dead, dce_out, i)
    BY <1>1, <1>8, <2>1 DEF DeadInv
  <2>3. LiveAfter(prog, block, dead, dce_out', i) \subseteq LiveAfter(prog, block, dead, dce_out, i)
    BY <1>2, <1>3, <2>2, LeastOutShrinks
  <2> QED BY <2>2, <2>3
<1>9. DeadInv'
  BY <1>2, <1>4, <1>5, <1>8 DEF DeadInv
<1>10. NullInv'
  BY <1>2, <1>3 DEF NullInv
<1>11. AllocInv' /\ ColourInv'
  BY <1>1, <1>2, <1>6 DEF AllocInv, ColourInv, register_vars
<1>12. ExecutionInv'
  BY <1>1, <1>2, <1>6 DEF ExecutionInv, register_vars
<1> QED BY <1>7, <1>9, <1>10, <1>11, <1>12 DEF IInv

\* What comes before a place of a list is in the list.
LEMMA Earlier ==
  ASSUME NEW n \in Nat, NEW d \in 0 .. n, d # 0, NEW k \in 1 .. d - 1
  PROVE  k \in 1 .. n
  OBVIOUS

LEMMA RemoveStep ==
  ASSUME IInv, global_enabled, out = <<>>, Dce!remove_dead_instructions,
         UNCHANGED <<global_enabled, register_vars>>
  PROVE  IInv'
<1>1. GraphInv /\ DeadInv /\ NullInv /\ AllocInv /\ ColourInv /\ ExecutionInv
  BY DEF IInv
<1>2. /\ dce_pos \in DOMAIN created_blocks
      /\ dead \subseteq dead'
      /\ \A i \in dead' \ dead :
           /\ i \in DOMAIN block /\ block[i] = created_blocks[dce_pos]
           /\ \/ NullAssignment(prog[i])
              \/ /\ redefines_variable(prog[i])
                 /\ prog[i].dest \in LocalScope
                 /\ id(prog[i].dest) \notin LiveAfter(prog, block, dead, dce_out, i)
      /\ \A i \in DOMAIN block :
           block[i] = created_blocks[dce_pos] /\ NullAssignment(prog[i]) => i \in dead'
      /\ dce_pos' = IF dce_pos = Len(created_blocks) THEN 0 ELSE dce_pos + 1
      /\ found' \in BOOLEAN
      /\ UNCHANGED <<prog, created_blocks, block, edges, dce_out, pc, agree>>
  BY RemoveIs
<1>3. created_blocks # <<>>
  BY <1>2
<1>4. /\ WellFormed(prog) /\ Partition(prog, block) /\ edges = Edges(prog, block)
      /\ DOMAIN block = DOMAIN prog
      /\ Len(created_blocks) \in Nat \ {0} /\ DOMAIN created_blocks = 1 .. Len(created_blocks)
      /\ \A b \in Leaders(prog) : \E k \in DOMAIN created_blocks : created_blocks[k] = b
  BY <1>1, <1>3, GraphFacts DEF WalksAll
<1>5. dce_out # <<>>
  BY <1>1, <1>2, <1>4 DEF DeadInv
<1>6. /\ Solution(prog, block, Edges(prog, block), dead, dce_out)
      /\ \A i \in dead : ~NullAssignment(prog[i]) =>
           /\ i \in DOMAIN prog
           /\ redefines_variable(prog[i])
           /\ prog[i].dest \in LocalScope
           /\ id(prog[i].dest) \notin LiveAfter(prog, block, dead, dce_out, i)
  BY <1>1, <1>4, <1>5 DEF DeadInv
<1>7. /\ Solution(prog, block, Edges(prog, block), dead', dce_out)
      /\ \A i \in DOMAIN prog : LiveAfter(prog, block, dead', dce_out, i)
                                  \subseteq LiveAfter(prog, block, dead, dce_out, i)
  <2>1. ASSUME NEW i \in (dead' \ dead) \cap DOMAIN prog
        PROVE  \/ NullAssignment(prog[i])
               \/ lhs_set(prog[i]) \cap LiveAfter(prog, block, dead, dce_out, i) = {}
    <3>1. lhs_set(prog[i]) \subseteq {id(prog[i].dest)}
      BY DEF lhs_set
    <3> QED BY <1>2, <3>1
  <2> QED BY <1>2, <1>4, <1>6, <2>1, DeadWritesShrink
<1>8. /\ reg = <<>> /\ pos = 0 /\ pc = 0
  BY <1>1 DEF AllocInv, ExecutionInv
<1>9. GraphInv'
  BY <1>1, <1>2 DEF GraphInv, register_vars
<1>10. DeadInv'
  <2>1. ASSUME NEW i \in dead', ~NullAssignment(prog[i])
        PROVE  /\ i \in DOMAIN prog /\ redefines_variable(prog[i]) /\ prog[i].dest \in LocalScope
               /\ id(prog[i].dest) \notin LiveAfter(prog, block, dead', dce_out, i)
    BY <1>2, <1>4, <1>6, <1>7, <2>1
  <2> QED BY <1>2, <1>4, <1>5, <1>7, <2>1 DEF DeadInv
<1>11. NullInv'
  <2>1. /\ Len(created_blocks) \in Nat /\ DOMAIN created_blocks = 1 .. Len(created_blocks)
        /\ dce_pos' \in 0 .. Len(created_blocks)
    BY <1>2, <1>4
  <2>2. ASSUME NEW i \in DOMAIN prog, NullAssignment(prog[i]),
               dce_pos' = 0 \/ \E k \in 1 .. dce_pos' - 1 : created_blocks[k] = block[i]
        PROVE  i \in dead'
    <3>1. PICK k \in DOMAIN created_blocks : created_blocks[k] = block[i]
                                            /\ (dce_pos' = 0 \/ k \in 1 .. dce_pos' - 1)
      <4>1. CASE dce_pos' = 0
        <5>1. block[i] \in Leaders(prog)
          BY <1>4 DEF Partition
        <5> QED BY <1>4, <4>1, <5>1
      <4>2. CASE dce_pos' # 0
        <5>1. PICK k \in 1 .. dce_pos' - 1 : created_blocks[k] = block[i]
          BY <2>2, <4>2
        <5>2. k \in DOMAIN created_blocks
          BY <2>1, <4>2, <5>1, Earlier
        <5> QED BY <5>1, <5>2
      <4> QED BY <4>1, <4>2
    <3>2. k = dce_pos \/ k \in 1 .. dce_pos - 1
      BY <1>2, <1>4, <3>1
    <3>3. CASE k = dce_pos
      BY <1>2, <1>4, <2>2, <3>1, <3>3
    <3>4. CASE k \in 1 .. dce_pos - 1
      BY <1>1, <1>2, <1>5, <2>2, <3>1, <3>4 DEF NullInv
    <3> QED BY <3>2, <3>3, <3>4
  <2> QED BY <1>2, <2>1, <2>2 DEF NullInv
<1>12. AllocInv' /\ ColourInv'
  BY <1>1, <1>2, <1>8 DEF AllocInv, ColourInv, register_vars
<1>13. ExecutionInv'
  BY <1>1, <1>2, <1>8 DEF ExecutionInv, register_vars
<1> QED BY <1>9, <1>10, <1>11, <1>12, <1>13 DEF IInv

LEMMA FindLiveStep ==
  ASSUME IInv, ~global_enabled \/ (dce_pos = 0 /\ ~found),
         Alloc!find_in_and_out_liveness_sets, UNCHANGED <<global_enabled, dce_vars>>
  PROVE  IInv'
<1>1. GraphInv /\ DeadInv /\ NullInv /\ AllocInv /\ ColourInv /\ ExecutionInv
  BY DEF IInv
<1>2. /\ created_blocks # <<>> /\ out = <<>>
      /\ out' = LeastOut(prog, block, edges, dead)
      /\ pos' = 1
      /\ UNCHANGED <<prog, dead, created_blocks, block, edges, neighbors, live_at_call,
                     reg, pc, holder, assigned>>
  BY FindLiveIs
<1>3. /\ WellFormed(prog) /\ Partition(prog, block) /\ edges = Edges(prog, block)
      /\ Len(created_blocks) \in Nat \ {0}
  BY <1>1, <1>2, GraphFacts DEF WalksAll
<1>4. out' # <<>>
  BY <1>2, <1>3, LeastOutNotEmpty
<1>5. Solution(prog, block, edges, dead, out')
  BY <1>2, <1>3, LeastOutSolution
<1>6. reg = <<>> /\ pos = 0 /\ pc = 0
  BY <1>1, <1>2 DEF AllocInv, ExecutionInv
<1>7. global_enabled => dce_out # <<>> /\ dce_pos = 0 /\ ~found
  BY <1>1 DEF DeadInv
<1>8. GraphInv'
  BY <1>1, <1>2 DEF GraphInv, dce_vars
<1>9. DeadInv' /\ NullInv'
  BY <1>1, <1>2 DEF DeadInv, NullInv, dce_vars
<1>10. AllocInv'
  <2>1. pos' \in 1 .. Len(created_blocks) + 1 /\ 1 .. pos' - 1 = {}
    BY <1>2, <1>3
  <2>2. UNCHANGED <<created_blocks, block, edges, prog, dead, global_enabled, dce_out, dce_pos, found>>
    BY <1>2 DEF dce_vars
  <2> QED BY <1>4, <1>5, <1>7, <2>1, <2>2 DEF AllocInv
<1>11. ColourInv'
  BY <1>2, <1>6 DEF ColourInv
<1>12. ExecutionInv'
  BY <1>1, <1>2, <1>6 DEF ExecutionInv, dce_vars
<1> QED BY <1>8, <1>9, <1>10, <1>11, <1>12 DEF IInv

LEMMA ConnectStep ==
  ASSUME IInv, Alloc!create_interference_graph_connections,
         UNCHANGED <<global_enabled, dce_vars>>
  PROVE  IInv'
<1>1. GraphInv /\ DeadInv /\ NullInv /\ AllocInv /\ ColourInv /\ ExecutionInv
  BY DEF IInv
<1>2. /\ pos \in DOMAIN created_blocks
      /\ neighbors \subseteq neighbors'
      /\ \A i \in DOMAIN block \ dead :
           block[i] = created_blocks[pos] =>
             /\ prog[i].dest \in Alloc!LiveRanges =>
                  \A v \in Alloc!LiveRanges \ {prog[i].dest} :
                    id(v) \in LiveNowAfter(i) => {prog[i].dest, v} \in neighbors'
             /\ i \in DOMAIN prog /\ prog[i].op = "Call" => live_at_call'[i] = LiveNowAfter(i)
      /\ \A i \in DOMAIN prog :
           ~(i \in DOMAIN block /\ block[i] = created_blocks[pos]) =>
             live_at_call'[i] = live_at_call[i]
      /\ live_at_call' = [i \in DOMAIN prog |-> live_at_call'[i]]
      /\ pos' = pos + 1
      /\ UNCHANGED <<prog, dead, created_blocks, block, edges, out, reg, pc, holder, assigned>>
  BY ConnectIs
<1>3. created_blocks # <<>>
  BY <1>2
<1>4. /\ DOMAIN block = DOMAIN prog
      /\ Len(created_blocks) \in Nat \ {0} /\ DOMAIN created_blocks = 1 .. Len(created_blocks)
  BY <1>1, <1>3, GraphFacts DEF WalksAll
<1>5. out # <<>>
  BY <1>1, <1>2, <1>4 DEF AllocInv
<1>6. reg = <<>> /\ pc = 0
  BY <1>1, <1>2, <1>4 DEF ColourInv, ExecutionInv
<1>7. GraphInv'
  BY <1>1, <1>2, <1>3 DEF GraphInv, dce_vars
<1>8. DeadInv' /\ NullInv'
  BY <1>1, <1>2 DEF DeadInv, NullInv, dce_vars
<1>9. AllocInv'
  <2>1. /\ global_enabled => dce_out # <<>> /\ dce_pos = 0 /\ ~found
        /\ Solution(prog, block, edges, dead, out)
        /\ pos \in 1 .. Len(created_blocks) + 1
        /\ \A i \in DOMAIN prog \ dead :
             (\E k \in 1 .. pos - 1 : created_blocks[k] = block[i]) =>
               /\ prog[i].dest \in Alloc!LiveRanges =>
                    \A v \in Alloc!LiveRanges \ {prog[i].dest} :
                      id(v) \in LiveNowAfter(i) => {prog[i].dest, v} \in neighbors
               /\ prog[i].op = "Call" => live_at_call[i] = LiveNowAfter(i)
    BY <1>1, <1>5 DEF AllocInv
  <2>2. pos' \in 1 .. Len(created_blocks) + 1
    BY <1>2, <1>4
  <2>3. \A i : LiveNowAfter(i)' = LiveNowAfter(i)
    BY <1>2 DEF LiveNowAfter
  <2>4. ASSUME NEW i \in DOMAIN prog \ dead,
               \E k \in 1 .. pos' - 1 : created_blocks[k] = block[i]
        PROVE  /\ prog[i].dest \in Alloc!LiveRanges =>
                    \A v \in Alloc!LiveRanges \ {prog[i].dest} :
                      id(v) \in LiveNowAfter(i) => {prog[i].dest, v} \in neighbors'
               /\ prog[i].op = "Call" => live_at_call'[i] = LiveNowAfter(i)
    <3>1. CASE block[i] = created_blocks[pos]
      BY <1>2, <1>4, <3>1
    <3>2. CASE block[i] # created_blocks[pos]
      <4>1. \E k \in 1 .. pos - 1 : created_blocks[k] = block[i]
        BY <1>2, <1>4, <2>4, <3>2
      <4>2. live_at_call'[i] = live_at_call[i]
        BY <1>2, <3>2
      <4> QED BY <1>2, <2>1, <4>1, <4>2
    <3> QED BY <3>1, <3>2
  <2>5. \A i \in DOMAIN prog \ dead :
          (\E k \in 1 .. pos' - 1 : created_blocks[k] = block[i]) =>
            /\ prog[i].dest \in Alloc!LiveRanges =>
                 \A v \in Alloc!LiveRanges \ {prog[i].dest} :
                   id(v) \in LiveNowAfter(i)' => {prog[i].dest, v} \in neighbors'
            /\ prog[i].op = "Call" => live_at_call'[i] = LiveNowAfter(i)'
    BY <2>3, <2>4
  <2> QED BY <1>2, <1>5, <2>1, <2>2, <2>5 DEF AllocInv, dce_vars
<1>10. ColourInv'
  BY <1>2, <1>6 DEF ColourInv
<1>11. ExecutionInv'
  BY <1>1, <1>2, <1>6 DEF ExecutionInv, dce_vars
<1> QED BY <1>7, <1>8, <1>9, <1>10, <1>11 DEF IInv

LEMMA ColourStep ==
  ASSUME IInv, Alloc!color_graph, UNCHANGED <<global_enabled, dce_vars>>
  PROVE  IInv'
<1>1. GraphInv /\ DeadInv /\ NullInv /\ AllocInv /\ ColourInv /\ ExecutionInv
  BY DEF IInv
<1>2. /\ pos = Len(created_blocks) + 1 /\ reg = <<>>
      /\ reg' \in [Alloc!LiveRanges -> Alloc!Regs \cup {Alloc!NoReg}]
      /\ \A v, w \in Alloc!LiveRanges : {v, w} \in neighbors /\ v # w =>
           reg'[v] # reg'[w] \/ reg'[v] = Alloc!NoReg
      /\ UNCHANGED <<prog, dead, created_blocks, block, edges, out, pos, neighbors,
                     live_at_call, pc, holder, assigned>>
  BY ColourIs
<1>3. pc = 0
  BY <1>1, <1>2 DEF ExecutionInv
<1>4. out # <<>>
  <2>1. CASE created_blocks = <<>>
    BY <1>1, <1>2, <2>1 DEF GraphInv, AllocInv
  <2>2. CASE created_blocks # <<>>
    <3>1. Len(created_blocks) \in Nat \ {0}
      BY <1>1, <2>2, GraphFacts DEF WalksAll
    <3> QED BY <1>1, <1>2, <3>1 DEF AllocInv
  <2> QED BY <2>1, <2>2
<1>5. GraphInv' /\ DeadInv' /\ NullInv'
  BY <1>1, <1>2 DEF GraphInv, DeadInv, NullInv, dce_vars
<1>6. AllocInv'
  BY <1>1, <1>2, <1>4 DEF AllocInv, LiveNowAfter, dce_vars
<1>7. ColourInv'
  BY <1>2 DEF ColourInv, Alloc!LiveRanges, Alloc!Regs, Alloc!NoReg
<1>8. ExecutionInv'
  BY <1>1, <1>2, <1>3 DEF ExecutionInv, dce_vars
<1> QED BY <1>5, <1>6, <1>7, <1>8 DEF IInv

LEMMA EnterStep ==
  IInv /\ Enter => IInv'
<1> SUFFICES ASSUME IInv, Enter PROVE IInv'
  OBVIOUS
<1>1. GraphInv /\ DeadInv /\ NullInv /\ AllocInv /\ ColourInv /\ ExecutionInv
  BY DEF IInv
<1>2. /\ reg # <<>> /\ pc = 0 /\ pc' = 1
      /\ UNCHANGED <<global_enabled, dce_vars, prog, dead, created_blocks, block, edges, out, pos,
                     neighbors, live_at_call, reg, holder, assigned>>
  BY DEF Enter, Alloc!Enter, Alloc!graph
<1>3. 1 \in DOMAIN prog
  BY <1>1, GraphFacts DEF WellFormed
<1>4. GraphInv' /\ DeadInv' /\ NullInv'
  BY <1>1, <1>2 DEF GraphInv, DeadInv, NullInv, dce_vars
<1>5. AllocInv' /\ ColourInv'
  BY <1>1, <1>2 DEF AllocInv, ColourInv, LiveNowAfter, dce_vars
<1>6. ExecutionInv'
  <2>1. LocalScope \cup Globals \subseteq agree /\ assigned = {}
        /\ holder = [r \in Alloc!Regs |-> Null]
    BY <1>1, <1>2 DEF ExecutionInv
  <2> QED BY <1>2, <1>3, <2>1 DEF ExecutionInv, LocalScope, dce_vars
<1> QED BY <1>4, <1>5, <1>6 DEF IInv

\* What holds once the function is entered.
LEMMA EnteredFacts ==
  ASSUME IInv, pc # 0
  PROVE  /\ WellFormed(prog) /\ AssignsNoFormal(prog) /\ Partition(prog, block)
         /\ pc \in DOMAIN prog
         /\ global_enabled =>
              /\ Solution(prog, block, Edges(prog, block), dead, dce_out)
              /\ \A i \in DOMAIN prog : NullAssignment(prog[i]) => i \in dead
         /\ Solution(prog, block, Edges(prog, block), dead, out)
         /\ \A i \in dead : ~NullAssignment(prog[i]) =>
              /\ global_enabled
              /\ redefines_variable(prog[i])
              /\ prog[i].dest \in LocalScope
              /\ id(prog[i].dest) \notin LiveAfter(prog, block, dead, dce_out, i)
         /\ \A i \in DOMAIN prog \ dead :
              /\ prog[i].dest \in Alloc!LiveRanges =>
                   \A v \in Alloc!LiveRanges \ {prog[i].dest} :
                     id(v) \in LiveNowAfter(i) => {prog[i].dest, v} \in neighbors
              /\ prog[i].op = "Call" => live_at_call[i] = LiveNowAfter(i)
<1>1. GraphInv /\ DeadInv /\ NullInv /\ AllocInv /\ ColourInv /\ ExecutionInv
  BY DEF IInv
<1>2. reg # <<>> /\ pc \in DOMAIN prog
  BY <1>1 DEF ExecutionInv
<1>3. out # <<>> /\ pos = Len(created_blocks) + 1
  BY <1>1, <1>2 DEF AllocInv, ColourInv
<1>4. created_blocks # <<>>
  BY <1>1, <1>3 DEF GraphInv
<1>5. /\ WellFormed(prog) /\ AssignsNoFormal(prog)
      /\ Partition(prog, block) /\ edges = Edges(prog, block)
      /\ Len(created_blocks) \in Nat \ {0} /\ DOMAIN created_blocks = 1 .. Len(created_blocks)
      /\ \A b \in Leaders(prog) : \E k \in DOMAIN created_blocks : created_blocks[k] = b
  BY <1>1, <1>4, GraphFacts DEF WalksAll
<1>6. /\ global_enabled => dce_out # <<>> /\ dce_pos = 0
      /\ Solution(prog, block, edges, dead, out)
      /\ \A i \in DOMAIN prog \ dead :
           (\E k \in 1 .. pos - 1 : created_blocks[k] = block[i]) =>
             /\ prog[i].dest \in Alloc!LiveRanges =>
                  \A v \in Alloc!LiveRanges \ {prog[i].dest} :
                    id(v) \in LiveNowAfter(i) => {prog[i].dest, v} \in neighbors
             /\ prog[i].op = "Call" => live_at_call[i] = LiveNowAfter(i)
  BY <1>1, <1>3 DEF AllocInv
<1>7. \A i \in DOMAIN prog : \E k \in 1 .. pos - 1 : created_blocks[k] = block[i]
  <2>1. pos - 1 = Len(created_blocks)
    BY <1>3, <1>5
  <2> QED BY <1>5, <2>1 DEF Partition
<1>8. global_enabled =>
        /\ Solution(prog, block, Edges(prog, block), dead, dce_out)
        /\ \A i \in DOMAIN prog : NullAssignment(prog[i]) => i \in dead
  BY <1>1, <1>5, <1>6 DEF DeadInv, NullInv
<1>9. ASSUME NEW i \in dead, ~NullAssignment(prog[i])
      PROVE  /\ global_enabled
             /\ redefines_variable(prog[i])
             /\ prog[i].dest \in LocalScope
             /\ id(prog[i].dest) \notin LiveAfter(prog, block, dead, dce_out, i)
  BY <1>1, <1>9 DEF DeadInv
<1> QED BY <1>2, <1>5, <1>6, <1>7, <1>8, <1>9

\* Every local that is live agrees after a step, if it did before.
LEMMA LiveAgrees ==
  ASSUME IInv, pc # 0, global_enabled, NEW j \in DOMAIN prog, Dce!Execute(j),
         NEW v \in Locals, id(v) \in LiveBefore(prog, block, dead, dce_out, j)
  PROVE  v \in agree'
<1> DEFINE d == prog[pc].dest
           after == LiveAfter(prog, block, dead, dce_out, pc)
           before == LiveBefore(prog, block, dead, dce_out, pc)
<1>1. /\ WellFormed(prog) /\ AssignsNoFormal(prog) /\ Partition(prog, block)
      /\ pc \in DOMAIN prog
      /\ Solution(prog, block, Edges(prog, block), dead, dce_out)
      /\ pc \in dead /\ ~NullAssignment(prog[pc]) =>
           redefines_variable(prog[pc]) /\ d \in LocalScope /\ id(d) \notin after
  BY EnteredFacts
<1>2. /\ j \in Successors(prog, pc)
      /\ agree' = IF ~redefines_variable(prog[pc]) THEN agree
                  ELSE IF pc \notin dead THEN agree \cup {d}
                  ELSE IF NullAssignment(prog[pc]) THEN agree
                  ELSE agree \ {d}
  BY StepAgree
<1>3. \A w \in Locals : id(w) \in before => w \in agree
  BY DEF IInv, ExecutionInv
<1>4. id(v) \in after
  BY <1>1, <1>2, LiveFlow
<1>5. before = IF Skipped(prog, dead, pc) THEN after
               ELSE (after \ lhs_set(prog[pc])) \cup rhs_set(prog[pc])
  BY <1>1, LiveStep
<1> HIDE DEF after, before
<1>6. CASE pc \in dead /\ ~NullAssignment(prog[pc])
  <2>1. v # d /\ before = after
    BY <1>1, <1>4, <1>5, <1>6 DEF Skipped
  <2> QED BY <1>2, <1>3, <1>4, <2>1
<1>7. CASE NullAssignment(prog[pc])
  <2>1. v \in agree
    BY <1>3, <1>4, <1>5, <1>7 DEF Skipped
  <2> QED BY <1>2, <1>7, <2>1
<1>8. CASE pc \notin dead /\ ~NullAssignment(prog[pc])
  <2>1. CASE id(v) \in lhs_set(prog[pc])
    <3>1. d \in LocalScope /\ d \notin Addrs /\ id(v) = id(d) /\ d \notin Formals
      BY <1>1, <2>1 DEF lhs_set, AssignsNoFormal
    <3>2. d = v
      BY <3>1, IdUnique DEF LocalScope
    <3>3. redefines_variable(prog[pc])
      BY <3>1, <3>2, VariablesAssumption DEF redefines_variable
    <3> QED BY <1>2, <1>8, <3>2, <3>3
  <2>2. CASE id(v) \notin lhs_set(prog[pc])
    <3>1. v \in agree
      BY <1>3, <1>4, <1>5, <1>8, <2>2 DEF Skipped
    <3> QED BY <1>2, <1>8, <3>1
  <2> QED BY <2>1, <2>2
<1> QED BY <1>6, <1>7, <1>8

\* Every variable that is live is in its register after a step, if it was
\* before.
LEMMA LiveHeld ==
  ASSUME IInv, pc # 0, NEW j \in DOMAIN prog, j \in Successors(prog, pc), Alloc!Execute(j),
         NEW v \in Alloc!LiveRanges \cap assigned',
         id(v) \in LiveBefore(prog, block, dead, out, j), reg[v] # Alloc!NoReg
  PROVE  holder'[reg[v]] = v
<1> DEFINE d == prog[pc].dest
           after == LiveAfter(prog, block, dead, out, pc)
           before == LiveBefore(prog, block, dead, out, pc)
           writes == d \in Alloc!LiveRanges /\ pc \notin dead
           lost == Alloc!Clobbered(pc) \ Alloc!Saved(pc)
<1>1. /\ WellFormed(prog) /\ AssignsNoFormal(prog) /\ Partition(prog, block)
      /\ pc \in DOMAIN prog
      /\ Solution(prog, block, Edges(prog, block), dead, out)
      /\ pc \in dead /\ ~NullAssignment(prog[pc]) => d \in LocalScope
      /\ pc \notin dead =>
           /\ d \in Alloc!LiveRanges =>
                \A w \in Alloc!LiveRanges \ {d} :
                  id(w) \in LiveNowAfter(pc) => {d, w} \in neighbors
           /\ prog[pc].op = "Call" => live_at_call[pc] = LiveNowAfter(pc)
  BY EnteredFacts
<1>2. /\ assigned' = IF writes THEN assigned \cup {d} ELSE assigned
      /\ holder' = [r \in Alloc!Regs |->
            IF writes /\ reg[d] = r THEN d
            ELSE IF prog[pc].op = "Call" /\ r \in lost THEN Null
            ELSE holder[r]]
  BY StepHolder
<1>3. /\ \A w \in Alloc!LiveRanges \cap assigned :
           id(w) \in before /\ reg[w] # Alloc!NoReg => holder[reg[w]] = w
      /\ reg \in [Alloc!LiveRanges -> Alloc!Regs \cup {Alloc!NoReg}]
      /\ \A u, w \in Alloc!LiveRanges : {u, w} \in neighbors /\ u # w =>
           reg[u] # reg[w] \/ reg[u] = Alloc!NoReg
  BY DEF IInv, ExecutionInv, ColourInv
<1>4. id(v) \in after
  BY <1>1, LiveFlow
<1>5. id(v) \in LiveNowAfter(pc)
  <2>1. BlockOf(prog, block, block[pc])
    BY <1>1 DEF BlockOf
  <2>2. pc + 1 \in block[pc] .. last_instruction(block, block[pc]) + 1
    <3>1. block[pc] <= pc /\ pc <= last_instruction(block, block[pc])
          /\ block[pc] \in Nat /\ last_instruction(block, block[pc]) \in Nat
      BY <1>1, BlockIsInterval
    <3>2. pc \in Nat
      BY <1>1 DEF WellFormed
    <3> QED BY <3>1, <3>2
  <2> QED BY <1>1, <1>4, <2>1, <2>2, LiveNowCovers DEF LiveAfter, LiveNowAfter
<1>6. before = IF Skipped(prog, dead, pc) THEN after
               ELSE (after \ lhs_set(prog[pc])) \cup rhs_set(prog[pc])
  BY <1>1, LiveStep
<1>7. reg[v] \in Alloc!Regs
  BY <1>3
<1> HIDE DEF after, before
<1>8. CASE writes /\ v = d
  BY <1>2, <1>7, <1>8
<1>9. CASE ~(writes /\ v = d)
  <2>1. v \in assigned
    BY <1>2, <1>9
  <2>2. id(v) \in before
    <3>1. CASE Skipped(prog, dead, pc) \/ id(v) \notin lhs_set(prog[pc])
      BY <1>4, <1>6, <3>1
    <3>2. CASE ~Skipped(prog, dead, pc) /\ id(v) \in lhs_set(prog[pc])
      <4>1. d \in LocalScope /\ d \notin Addrs /\ id(v) = id(d) /\ d \notin Formals
        BY <1>1, <3>2 DEF lhs_set, AssignsNoFormal
      <4>2. v = d
        BY <4>1, IdUnique DEF LocalScope, Alloc!LiveRanges
      <4>3. pc \notin dead
        BY <3>2 DEF Skipped
      <4> QED BY <1>9, <4>2, <4>3
    <3> QED BY <3>1, <3>2
  <2>3. holder[reg[v]] = v
    BY <1>3, <2>1, <2>2
  <2>4. ~(writes /\ reg[d] = reg[v])
    <3> SUFFICES ASSUME writes PROVE reg[d] # reg[v]
      OBVIOUS
    <3>1. v # d
      BY <1>9
    <3>2. {d, v} \in neighbors
      BY <1>1, <1>5, <3>1
    <3>3. {v, d} = {d, v}
      OBVIOUS
    <3> QED BY <1>3, <3>1, <3>2, <3>3
  <2>5. ~(prog[pc].op = "Call" /\ reg[v] \in lost)
    <3> SUFFICES ASSUME prog[pc].op = "Call", reg[v] \in Alloc!Clobbered(pc)
                 PROVE  reg[v] \in Alloc!Saved(pc)
      OBVIOUS
    <3>1. pc \notin dead
      <4>1. d = Null /\ ~NullAssignment(prog[pc])
        BY <1>1 DEF WellFormed, NullAssignment
      <4> QED BY <1>1, <4>1, VariablesAssumption DEF LocalScope
    <3>2. v \in Alloc!Named(live_at_call[pc])
      BY <1>1, <1>5, <3>1, AllocOperators DEF Alloc!Named
    <3> QED BY <3>2 DEF Alloc!Clobbered, Alloc!Saved
  <2> QED BY <1>2, <1>7, <2>3, <2>4, <2>5
<1> QED BY <1>8, <1>9

LEMMA ExecuteStep ==
  ASSUME IInv, NEW j \in DOMAIN prog, Execute(j)
  PROVE  IInv'
<1>1. GraphInv /\ DeadInv /\ NullInv /\ AllocInv /\ ColourInv /\ ExecutionInv
  BY DEF IInv
<1>2. Dce!Execute(j) /\ Alloc!Execute(j) /\ global_enabled' = global_enabled
  BY DEF Execute
<1>3. /\ pc # 0 /\ pc' = j /\ j \in Successors(prog, pc)
      /\ agree' = IF ~redefines_variable(prog[pc]) THEN agree
                  ELSE IF pc \notin dead THEN agree \cup {prog[pc].dest}
                  ELSE IF NullAssignment(prog[pc]) THEN agree
                  ELSE agree \ {prog[pc].dest}
      /\ UNCHANGED <<prog, created_blocks, block, edges, dead, dce_out, dce_pos, found>>
  BY <1>2, StepAgree
<1>4. UNCHANGED <<out, pos, neighbors, live_at_call, reg>> /\ DOMAIN holder' = Alloc!Regs
  BY <1>2, StepHolder
<1>5. GraphInv' /\ DeadInv' /\ NullInv'
  BY <1>1, <1>2, <1>3, <1>4 DEF GraphInv, DeadInv, NullInv
<1>6. AllocInv' /\ ColourInv'
  BY <1>1, <1>2, <1>3, <1>4 DEF AllocInv, ColourInv, LiveNowAfter
<1>7. ExecutionInv'
  <2>1. /\ reg # <<>> /\ pc \in DOMAIN prog
        /\ Globals \cup Formals \subseteq agree
        /\ ~global_enabled => Locals \subseteq agree
    BY <1>1, <1>3 DEF ExecutionInv
  <2>2. pc' # 0
    BY <1>1, <1>3, GraphFacts DEF WellFormed
  <2>3. Globals \cup Formals \subseteq agree'
    <3>1. pc \in dead /\ ~NullAssignment(prog[pc]) =>
            prog[pc].dest \in LocalScope /\ prog[pc].dest \notin Formals
      BY <1>3, <2>1, EnteredFacts DEF AssignsNoFormal
    <3>2. pc \in dead /\ ~NullAssignment(prog[pc]) => prog[pc].dest \notin Globals \cup Formals
      BY <3>1, VariablesAssumption DEF LocalScope
    <3> QED BY <1>3, <2>1, <3>2
  <2>4. ~global_enabled => Locals \subseteq agree'
    <3>1. ~global_enabled => pc \notin dead
      BY <1>1 DEF DeadInv
    <3> QED BY <1>3, <2>1, <3>1
  <2>5. ASSUME global_enabled, NEW v \in Locals,
               id(v) \in LiveBefore(prog, block, dead, dce_out, j)
        PROVE  v \in agree'
    BY <1>2, <1>3, <2>5, LiveAgrees
  <2>6. ASSUME NEW v \in Alloc!LiveRanges \cap assigned',
               id(v) \in LiveBefore(prog, block, dead, out, j), reg[v] # Alloc!NoReg
        PROVE  holder'[reg[v]] = v
    BY <1>2, <1>3, <2>6, LiveHeld
  <2>7. /\ UNCHANGED <<prog, block, dead, dce_out, out, reg, global_enabled>>
        /\ pc' = j /\ j \in DOMAIN prog
    BY <1>2, <1>3, <1>4
  <2> QED BY <1>4, <2>1, <2>2, <2>3, <2>4, <2>5, <2>6, <2>7
       DEF ExecutionInv, Alloc!LiveRanges, Alloc!Regs, Alloc!NoReg
<1> QED BY <1>5, <1>6, <1>7 DEF IInv

LEMMA NextInv ==
  IInv /\ [Next]_vars => IInv'
<1> SUFFICES ASSUME IInv, [Next]_vars PROVE IInv'
  OBVIOUS
<1>1. CASE build_control_flow_graph
  BY <1>1, BuildStep
<1>2. CASE do_dead_code_elimination
  BY <1>2, FindDeadStep, RemoveStep DEF do_dead_code_elimination
<1>3. CASE optimize_register_allocation
  <2>1. /\ ~global_enabled \/ (dce_pos = 0 /\ ~found)
        /\ UNCHANGED <<global_enabled, dce_vars>>
        /\ \/ Alloc!find_in_and_out_liveness_sets
           \/ Alloc!create_interference_graph_connections
           \/ Alloc!color_graph
    BY <1>3 DEF optimize_register_allocation
  <2> QED BY <2>1, FindLiveStep, ConnectStep, ColourStep
<1>4. CASE Enter
  BY <1>4, EnterStep
<1>5. CASE \E j \in DOMAIN prog : Execute(j)
  BY <1>5, ExecuteStep
<1>6. CASE UNCHANGED vars
  <2> USE <1>6 DEF vars, dce_vars, register_vars
  <2>1. GraphInv' /\ DeadInv' /\ NullInv'
    BY DEF IInv, GraphInv, DeadInv, NullInv
  <2>2. AllocInv' /\ ColourInv'
    BY DEF IInv, AllocInv, ColourInv, LiveNowAfter
  <2>3. ExecutionInv'
    BY DEF IInv, ExecutionInv
  <2> QED BY <2>1, <2>2, <2>3 DEF IInv
<1> QED BY <1>1, <1>2, <1>3, <1>4, <1>5, <1>6 DEF Next, optimize_instructions

\* The invariant holds in every state of every behaviour.
THEOREM Invariance == FormalsKept => (Spec => []IInv)
<1> SUFFICES ASSUME FormalsKept PROVE Spec => []IInv
  OBVIOUS
<1>1. Init => IInv
  BY InitInv
<1>2. IInv /\ [Next]_vars => IInv'
  BY NextInv
<1> QED BY <1>1, <1>2, PTL DEF Spec

\* What remove_dead_instructions marks dead changes no value that is read:
\* without it the operands of every instruction have the same values.
THEOREM ValuesAgreeAlways ==
  ASSUME FormalsKept
  PROVE  Spec => []ValuesAgree
<1>1. IInv => ValuesAgree
  <2> SUFFICES ASSUME IInv PROVE ValuesAgree
    OBVIOUS
  <2>1. Globals \subseteq agree
    <3>1. CASE pc = 0
      BY <3>1 DEF IInv, ExecutionInv
    <3>2. CASE pc # 0
      BY <3>2 DEF IInv, ExecutionInv
    <3> QED BY <3>1, <3>2
  <2>2. ASSUME pc # 0, pc \notin dead,
               NEW v \in Operands(prog[pc]) \cup ({prog[pc].dest} \cap Addrs)
        PROVE  v \in agree
    <3>1. /\ WellFormed(prog) /\ Partition(prog, block) /\ pc \in DOMAIN prog
          /\ global_enabled => ~NullAssignment(prog[pc])
      BY <2>2, EnteredFacts
    <3>2. /\ Globals \cup Formals \subseteq agree
          /\ ~global_enabled => Locals \subseteq agree
          /\ global_enabled =>
               \A w \in Locals :
                 id(w) \in LiveBefore(prog, block, dead, dce_out, pc) => w \in agree
      BY <2>2 DEF IInv, ExecutionInv
    <3>3. v \in Locals \cup Formals \cup Globals
      BY <3>1, VariablesAssumption DEF WellFormed, LocalScope
    <3>4. CASE v \in Locals /\ global_enabled
      <4>1. id(v) \in rhs_set(prog[pc])
        BY <2>2, <3>4 DEF rhs_set, LocalScope
      <4>2. id(v) \in LiveBefore(prog, block, dead, dce_out, pc)
        BY <2>2, <3>1, <3>4, <4>1, LiveStep DEF Skipped
      <4> QED BY <3>2, <3>4, <4>2
    <3> QED BY <3>2, <3>3, <3>4
  <2>3. pc # 0 /\ pc \notin dead =>
          Dce!Operands(prog[pc]) \cup ({prog[pc].dest} \cap Addrs) \subseteq agree
    BY <2>2, DceOperators
  <2> QED BY <2>1, <2>3 DEF ValuesAgree, Dce!ValuesAgree
<1> QED BY <1>1, Invariance, PTL

\* A variable is read from its register with the value last assigned to it,
\* across calls as well: create_interference_graph_connections leaves out no
\* edge, color_graph respects them, and the caller saves what is live.
THEOREM ReadsOwnValueAlways ==
  ASSUME FormalsKept
  PROVE  Spec => []ReadsOwnValue
<1>1. IInv => ReadsOwnValue
  <2> SUFFICES ASSUME IInv, pc # 0, pc \notin dead, ~NullAssignment(prog[pc]),
                      NEW v \in Operands(prog[pc]) \cap Alloc!LiveRanges \cap assigned,
                      reg[v] # Alloc!NoReg
               PROVE  holder[reg[v]] = v
    BY AllocOperators DEF ReadsOwnValue, Alloc!ReadsOwnValue
  <2>1. WellFormed(prog) /\ Partition(prog, block) /\ pc \in DOMAIN prog
    BY EnteredFacts
  <2>2. id(v) \in rhs_set(prog[pc])
    BY DEF rhs_set, LocalScope, Alloc!LiveRanges
  <2>3. id(v) \in LiveBefore(prog, block, dead, out, pc)
    BY <2>1, <2>2, LiveStep DEF Skipped
  <2> QED BY <2>3 DEF IInv, ExecutionInv
<1> QED BY <1>1, Invariance, PTL

-----------------------------------------------------------------------------
(***************************************************************************)
(* The passes do no more than they have to: what is live is read on some   *)
(* path of the graph.                                                      *)
(***************************************************************************)

\* Register allocation joins only what is live where the other is written.
JoinedInv ==
  /\ out = <<>> => neighbors = {}
  /\ out # <<>> =>
       /\ out = LeastOut(prog, block, edges, dead)
       /\ \A e \in neighbors : \E i \in DOMAIN prog \ dead : \E w \in e \cap Alloc!LiveRanges :
            prog[i].dest \in e \ {w} /\ id(w) \in LiveNowAfter(i)

\* A round that has found nothing so far: the analysis it goes by was made
\* with marked, since when only assignments of variables to themselves have
\* been marked, and what is kept in the blocks walked is live after it.
QuietRound(marked) ==
  /\ dce_out = LeastOut(prog, block, edges, marked)
  /\ marked \subseteq dead
  /\ \A i \in dead \ marked : NullAssignment(prog[i])
  /\ \A i \in DOMAIN prog \ dead :
       /\ redefines_variable(prog[i])
       /\ prog[i].dest \in LocalScope
       /\ dce_pos = 0 \/ \E k \in 1 .. dce_pos - 1 : created_blocks[k] = block[i]
       => id(prog[i].dest) \in LiveAfter(prog, block, marked, dce_out, i)

RoundInv == ~found => \E marked \in SUBSET dead : QuietRound(marked)

LEMMA FindDeadQuiet ==
  ASSUME IInv, JoinedInv, RoundInv, global_enabled, out = <<>>,
         Dce!find_in_and_out_liveness_sets, UNCHANGED <<global_enabled, register_vars>>
  PROVE  JoinedInv' /\ RoundInv'
<1>1. /\ created_blocks # <<>> /\ dce_pos = 0 /\ found
      /\ dce_out' = LeastOut(prog, block, edges, dead)
      /\ dce_pos' = 1 /\ found' = FALSE
      /\ UNCHANGED <<prog, created_blocks, block, edges, dead, pc, agree>>
  BY FindDeadIs
<1>2. JoinedInv'
  BY DEF JoinedInv, register_vars
<1>3. QuietRound(dead)'
  <2>1. 1 .. dce_pos' - 1 = {} /\ dce_pos' # 0
    BY <1>1
  <2> QED BY <1>1, <2>1 DEF QuietRound
<1> QED BY <1>2, <1>3 DEF RoundInv

LEMMA RemoveQuiet ==
  ASSUME IInv, JoinedInv, RoundInv, global_enabled, out = <<>>,
         Dce!remove_dead_instructions, UNCHANGED <<global_enabled, register_vars>>
  PROVE  JoinedInv' /\ RoundInv'
<1>1. /\ dce_pos \in DOMAIN created_blocks
      /\ dead \subseteq dead'
      /\ dce_pos' = IF dce_pos = Len(created_blocks) THEN 0 ELSE dce_pos + 1
      /\ found' \in BOOLEAN
      /\ found' = FALSE =>
           /\ ~found
           /\ \A i \in dead' \ dead : NullAssignment(prog[i])
           /\ \A i \in DOMAIN block \ dead' :
                /\ block[i] = created_blocks[dce_pos]
                /\ redefines_variable(prog[i])
                /\ prog[i].dest \in LocalScope
                => id(prog[i].dest) \in LiveAfter(prog, block, dead, dce_out, i)
      /\ UNCHANGED <<prog, created_blocks, block, edges, dce_out, pc, agree>>
  BY RemoveIs
<1>2. created_blocks # <<>>
  BY <1>1
<1>3. /\ WellFormed(prog) /\ Partition(prog, block) /\ edges = Edges(prog, block)
      /\ DOMAIN block = DOMAIN prog
      /\ Len(created_blocks) \in Nat \ {0} /\ DOMAIN created_blocks = 1 .. Len(created_blocks)
  BY <1>2, GraphFacts DEF IInv, WalksAll
<1>4. JoinedInv'
  BY DEF JoinedInv, register_vars
<1>5. ASSUME found' = FALSE
      PROVE  \E marked \in SUBSET dead' : QuietRound(marked)'
  <2>1. PICK marked \in SUBSET dead : QuietRound(marked)
    BY <1>1, <1>5 DEF RoundInv
  <2>2. /\ dce_out = LeastOut(prog, block, edges, marked)
        /\ \A i \in dead \ marked : NullAssignment(prog[i])
    BY <2>1 DEF QuietRound
  <2>3. \A i \in DOMAIN prog : LiveAfter(prog, block, dead, dce_out, i)
                                 \subseteq LiveAfter(prog, block, marked, dce_out, i)
    <3>1. Solution(prog, block, edges, marked, dce_out)
      BY <1>3, <2>2, LeastOutSolution
    <3> QED BY <1>3, <2>2, <3>1, DeadWritesShrink
  <2>4. ASSUME NEW i \in DOMAIN prog \ dead', redefines_variable(prog[i]),
               prog[i].dest \in LocalScope,
               dce_pos' = 0 \/ \E k \in 1 .. dce_pos' - 1 : created_blocks[k] = block[i]
        PROVE  id(prog[i].dest) \in LiveAfter(prog, block, marked, dce_out, i)
    <3>1. CASE block[i] = created_blocks[dce_pos]
      <4>1. id(prog[i].dest) \in LiveAfter(prog, block, dead, dce_out, i)
        BY <1>1, <1>3, <1>5, <2>4, <3>1
      <4> QED BY <2>3, <4>1
    <3>2. CASE block[i] # created_blocks[dce_pos]
      <4>1. i \in DOMAIN prog \ dead
        BY <1>1
      <4>2. dce_pos = 0 \/ \E k \in 1 .. dce_pos - 1 : created_blocks[k] = block[i]
        <5>1. CASE dce_pos = Len(created_blocks)
          <6>1. PICK k \in 1 .. Len(created_blocks) : created_blocks[k] = block[i]
            <7>1. block[i] \in Leaders(prog)
              BY <1>3 DEF Partition
            <7>2. \A b \in Leaders(prog) : \E k \in DOMAIN created_blocks : created_blocks[k] = b
              BY <1>2, GraphFacts DEF IInv, WalksAll
            <7> QED BY <1>3, <7>1, <7>2
          <6>2. k \in 1 .. dce_pos - 1
            BY <1>3, <3>2, <5>1, <6>1
          <6> QED BY <6>1, <6>2
        <5>2. CASE dce_pos # Len(created_blocks)
          <6>1. dce_pos' = dce_pos + 1 /\ dce_pos \in Nat
            BY <1>1, <1>3, <5>2
          <6>2. PICK k \in 1 .. dce_pos' - 1 : created_blocks[k] = block[i]
            BY <2>4, <6>1
          <6>3. k \in 1 .. dce_pos - 1
            BY <3>2, <6>1, <6>2
          <6> QED BY <6>2, <6>3
        <5> QED BY <5>1, <5>2
      <4> QED BY <2>1, <2>4, <4>1, <4>2 DEF QuietRound
    <3> QED BY <3>1, <3>2
  <2>5. /\ marked \in SUBSET dead'
        /\ \A i \in dead' \ marked : NullAssignment(prog[i])
    BY <1>1, <1>5, <2>2
  <2>6. QuietRound(marked)'
    BY <1>1, <2>2, <2>4, <2>5 DEF QuietRound
  <2> QED BY <2>5, <2>6
<1>6. found' = TRUE \/ found' = FALSE
  BY <1>1
<1> QED BY <1>4, <1>5, <1>6 DEF RoundInv

LEMMA ConnectJoins ==
  ASSUME IInv, JoinedInv, RoundInv, Alloc!create_interference_graph_connections,
         UNCHANGED <<global_enabled, dce_vars>>
  PROVE  JoinedInv' /\ RoundInv'
<1>1. /\ pos \in DOMAIN created_blocks
      /\ \A e \in neighbors' \ neighbors :
           \E i \in DOMAIN block \ dead : \E w \in e \cap Alloc!LiveRanges :
             prog[i].dest \in e \ {w} /\ id(w) \in LiveNowAfter(i)
      /\ UNCHANGED <<prog, dead, created_blocks, block, edges, out, reg, pc, holder, assigned>>
  BY ConnectIs
<1>2. DOMAIN block = DOMAIN prog /\ out # <<>>
  <2>1. created_blocks # <<>>
    BY <1>1
  <2>2. DOMAIN block = DOMAIN prog /\ DOMAIN created_blocks = 1 .. Len(created_blocks)
    BY <2>1, GraphFacts DEF IInv, WalksAll
  <2> QED BY <1>1, <2>2 DEF IInv, AllocInv
<1>3. \A i : LiveNowAfter(i)' = LiveNowAfter(i)
  BY <1>1 DEF LiveNowAfter
<1>4. ASSUME NEW e \in neighbors'
      PROVE  \E i \in DOMAIN prog \ dead : \E w \in e \cap Alloc!LiveRanges :
               prog[i].dest \in e \ {w} /\ id(w) \in LiveNowAfter(i)'
  BY <1>1, <1>2, <1>3 DEF JoinedInv
<1>5. JoinedInv'
  BY <1>1, <1>2, <1>4 DEF JoinedInv
<1>6. RoundInv'
  BY <1>1 DEF RoundInv, QuietRound, dce_vars
<1> QED BY <1>5, <1>6

\* The steps that change nothing these speak of.
LEMMA SameExact ==
  ASSUME JoinedInv, RoundInv,
         UNCHANGED <<prog, created_blocks, block, edges, dead, found, dce_pos, dce_out,
                     out, neighbors>>
  PROVE  JoinedInv' /\ RoundInv'
BY DEF JoinedInv, RoundInv, QuietRound, LiveNowAfter

LEMMA NextExact ==
  ASSUME IInv, JoinedInv, RoundInv, [Next]_vars
  PROVE  JoinedInv' /\ RoundInv'
<1>1. CASE build_control_flow_graph
  <2>1. /\ created_blocks = <<>>
        /\ UNCHANGED <<prog, dead, out, pos, neighbors, reg, pc, holder, assigned>>
        /\ UNCHANGED dce_vars
    BY <1>1, BuildIs DEF build_control_flow_graph
  <2>2. dce_out = <<>> /\ out = <<>> /\ found = TRUE
    BY <2>1 DEF IInv, GraphInv, DeadInv
  <2> QED BY <2>1, <2>2 DEF JoinedInv, RoundInv, dce_vars
<1>2. CASE do_dead_code_elimination
  BY <1>2, FindDeadQuiet, RemoveQuiet DEF do_dead_code_elimination
<1>3. CASE optimize_register_allocation
  <2>1. UNCHANGED <<global_enabled, dce_vars>>
    BY <1>3 DEF optimize_register_allocation
  <2>2. CASE Alloc!find_in_and_out_liveness_sets
    <3>1. /\ out = <<>> /\ created_blocks # <<>>
          /\ out' = LeastOut(prog, block, edges, dead)
          /\ UNCHANGED <<prog, dead, created_blocks, block, edges, neighbors, live_at_call,
                         reg, pc, holder, assigned>>
      BY <2>2, FindLiveIs
    <3>2. out' # <<>>
      <4>1. WellFormed(prog) /\ Partition(prog, block)
        BY <3>1, GraphFacts DEF IInv
      <4> QED BY <3>1, <4>1, LeastOutNotEmpty
    <3>3. JoinedInv'
      BY <3>1, <3>2 DEF JoinedInv
    <3>4. RoundInv'
      BY <2>1, <3>1 DEF RoundInv, QuietRound, dce_vars
    <3> QED BY <3>3, <3>4
  <2>3. CASE Alloc!create_interference_graph_connections
    BY <2>1, <2>3, ConnectJoins
  <2>4. CASE Alloc!color_graph
    <3>1. UNCHANGED <<prog, dead, created_blocks, block, edges, out, neighbors>>
      BY <2>4, ColourIs
    <3> QED BY <2>1, <3>1, SameExact DEF dce_vars
  <2> QED BY <1>3, <2>2, <2>3, <2>4 DEF optimize_register_allocation
<1>4. CASE Enter
  <2>1. UNCHANGED <<prog, dead, created_blocks, block, edges, out, neighbors, dce_vars>>
    BY <1>4 DEF Enter, Alloc!Enter, Alloc!graph
  <2> QED BY <2>1, SameExact DEF dce_vars
<1>5. CASE \E j \in DOMAIN prog : Execute(j)
  <2>1. PICK j \in DOMAIN prog : Execute(j)
    BY <1>5
  <2>2. UNCHANGED <<prog, created_blocks, block, edges, dead, dce_out, dce_pos, found>>
    BY <2>1, StepAgree DEF Execute
  <2>3. UNCHANGED <<out, neighbors>>
    BY <2>1, StepHolder DEF Execute
  <2> QED BY <2>2, <2>3, SameExact
<1>6. CASE UNCHANGED vars
  BY <1>6, SameExact DEF vars, dce_vars, register_vars
<1> QED BY <1>1, <1>2, <1>3, <1>4, <1>5, <1>6 DEF Next, optimize_instructions

LEMMA SpecExact == FormalsKept => (Spec => [](IInv /\ JoinedInv /\ RoundInv))
<1> SUFFICES ASSUME FormalsKept PROVE Spec => [](IInv /\ JoinedInv /\ RoundInv)
  OBVIOUS
<1>1. Init => IInv /\ JoinedInv /\ RoundInv
  <2>1. Init => JoinedInv /\ RoundInv
    BY DEF Init, Dce!Start, Alloc!Start, JoinedInv, RoundInv
  <2> QED BY <2>1, InitInv
<1>2. IInv /\ JoinedInv /\ RoundInv /\ [Next]_vars => (IInv /\ JoinedInv /\ RoundInv)'
  BY NextInv, NextExact
<1> QED BY <1>1, <1>2, PTL DEF Spec

\* The references of the properties, in the names of this module.
LEMMA ReferenceOperators ==
  ASSUME NEW p, NEW bl, NEW ed, NEW de, NEW n, NEW i
  PROVE  /\ Dce!ReadFrom(p, bl, ed, de, n) = ReadFrom(p, bl, ed, de, n)
         /\ Dce!GraphSuccessors(bl, ed, i) = GraphSuccessors(bl, ed, i)
         /\ Alloc!ReadFrom(p, bl, ed, de, n) = ReadFrom(p, bl, ed, de, n)
         /\ Alloc!GraphSuccessors(bl, ed, i) = GraphSuccessors(bl, ed, i)
<1>1. Dce!ReadFrom(p, bl, ed, de, n) = ReadFrom(p, bl, ed, de, n)
  BY DEF Dce!ReadFrom, ReadFrom, Dce!Reaching, Reaching, Dce!GraphSuccessors, GraphSuccessors,
    Dce!Children, Children, Dce!Operands, Operands
<1>2. Alloc!ReadFrom(p, bl, ed, de, n) = ReadFrom(p, bl, ed, de, n)
  BY DEF Alloc!ReadFrom, ReadFrom, Alloc!Reaching, Reaching, Alloc!GraphSuccessors, GraphSuccessors,
    Alloc!Children, Children, Alloc!Operands, Operands
<1>3. /\ Dce!GraphSuccessors(bl, ed, i) = GraphSuccessors(bl, ed, i)
      /\ Alloc!GraphSuccessors(bl, ed, i) = GraphSuccessors(bl, ed, i)
  BY DEF Dce!GraphSuccessors, Alloc!GraphSuccessors, GraphSuccessors,
    Dce!Children, Alloc!Children, Children
<1> QED BY <1>1, <1>2, <1>3

\* Once the function is entered.
LEMMA EnteredExact ==
  ASSUME IInv, JoinedInv, RoundInv, pc # 0
  PROVE  /\ WellFormed(prog) /\ Partition(prog, block) /\ edges = Edges(prog, block)
         /\ out = LeastOut(prog, block, edges, dead)
         /\ \A e \in neighbors : \E i \in DOMAIN prog \ dead : \E w \in e \cap Alloc!LiveRanges :
              prog[i].dest \in e \ {w} /\ id(w) \in LiveNowAfter(i)
         /\ global_enabled => dce_pos = 0 /\ \E marked \in SUBSET dead : QuietRound(marked)
<1>1. reg # <<>>
  BY DEF IInv, ExecutionInv
<1>2. out # <<>>
  BY <1>1 DEF IInv, AllocInv
<1>3. created_blocks # <<>>
  BY <1>2 DEF IInv, GraphInv
<1>4. WellFormed(prog) /\ Partition(prog, block) /\ edges = Edges(prog, block)
  BY <1>3, GraphFacts DEF IInv
<1>5. global_enabled => dce_pos = 0 /\ ~found
  BY <1>2 DEF IInv, AllocInv
<1> QED BY <1>2, <1>4, <1>5 DEF JoinedInv, RoundInv

\* The variable is read after instruction i before it is written, on some path
\* of the graph.
ReadAfter(i, v) ==
  GraphSuccessors(block, edges, i) \cap ReadFrom(prog, block, edges, dead, v) # {}

\* No variable that is read has the id of v but v. The parameters all have id
\* 0, so that for the local numbered 0 this takes that none of them is read.
OwnId(v) == id(v) # 0 \/ ReadsNoFormal(prog)

\* What a kept instruction writes to a local is read later, unless the id of
\* the local is taken for that of a parameter.
WritesAreRead ==
  global_enabled /\ pc = 1 =>
    \A i \in DOMAIN prog \ dead :
      redefines_variable(prog[i]) /\ prog[i].dest \in LocalScope /\ OwnId(prog[i].dest)
        => ReadAfter(i, prog[i].dest)

\* What goes by ids, for a local.
LEMMA ReadAfterById ==
  ASSUME GraphInv, WellFormed(prog), NEW v \in Locals, NEW i
  PROVE  LET byId == GraphSuccessors(block, edges, i)
                       \cap ReadById(prog, block, edges, dead, id(v)) # {}
         IN  /\ ReadAfter(i, v) => byId
             /\ OwnId(v) /\ byId => ReadAfter(i, v)
<1>1. AssignsNoFormal(prog)
  BY DEF GraphInv
<1>2. /\ ReadFrom(prog, block, edges, dead, v) \subseteq ReadById(prog, block, edges, dead, id(v))
      /\ OwnId(v) => ReadFrom(prog, block, edges, dead, v)
                       = ReadById(prog, block, edges, dead, id(v))
  BY <1>1, ReadByIdIsRead DEF OwnId
<1> QED BY <1>2 DEF ReadAfter

\* The rounds of do_dead_code_elimination do not stop too early: in a function
\* that reads no parameter, what a kept instruction writes to a local is read
\* later by one that is kept too. (An address is read by the instructions that
\* have it for destination.) In any other function only writes to the local
\* numbered 0 may be left, since the parameters are numbered 0 too.
THEOREM NoDeadWriteIsLeft ==
  ASSUME FormalsKept
  PROVE  Spec => [](/\ WritesAreRead
                    /\ ReadsNoFormal(prog) => NoDeadWriteLeft)
<1>1. IInv /\ JoinedInv /\ RoundInv => WritesAreRead
  <2> SUFFICES ASSUME IInv, JoinedInv, RoundInv, global_enabled, pc = 1,
                      NEW i \in DOMAIN prog \ dead, OwnId(prog[i].dest),
                      redefines_variable(prog[i]), prog[i].dest \in LocalScope
               PROVE  ReadAfter(i, prog[i].dest)
    BY DEF WritesAreRead
  <2>1. /\ WellFormed(prog) /\ Partition(prog, block) /\ edges = Edges(prog, block)
        /\ dce_pos = 0 /\ \E marked \in SUBSET dead : QuietRound(marked)
    BY EnteredExact
  <2>2. PICK marked \in SUBSET dead : QuietRound(marked)
    BY <2>1
  <2>3. /\ \A k \in dead \ marked : NullAssignment(prog[k])
        /\ id(prog[i].dest) \in LiveAfter(prog, block, marked,
                                          LeastOut(prog, block, edges, marked), i)
    BY <2>1, <2>2 DEF QuietRound
  <2>4. GraphSuccessors(block, edges, i)
          \cap ReadById(prog, block, edges, dead, id(prog[i].dest)) # {}
    BY <2>1, <2>3, LiveIsRead
  <2>5. prog[i].dest \in Locals
    BY DEF LocalScope, IInv, GraphInv, AssignsNoFormal
  <2> QED BY <2>1, <2>4, <2>5, ReadAfterById DEF IInv
<1>2. WritesAreRead /\ ReadsNoFormal(prog) => NoDeadWriteLeft
  <2> SUFFICES ASSUME WritesAreRead, ReadsNoFormal(prog), global_enabled, pc = 1,
                      NEW i \in DOMAIN prog \ dead,
                      Dce!redefines_variable(prog[i]), prog[i].dest \in Dce!LocalScope
               PROVE  ReadAfter(i, prog[i].dest)
    BY ReferenceOperators DEF NoDeadWriteLeft, Dce!NoDeadWriteLeft, ReadAfter
  <2>1. redefines_variable(prog[i]) /\ prog[i].dest \in LocalScope
    BY DceOperators DEF Dce!LocalScope, LocalScope
  <2> QED BY <2>1 DEF WritesAreRead, OwnId
<1>3. IInv /\ JoinedInv /\ RoundInv
        => WritesAreRead /\ (ReadsNoFormal(prog) => NoDeadWriteLeft)
  BY <1>1, <1>2
<1> QED BY <1>3, SpecExact, PTL

\* The walk of create_interference_graph_connections goes backwards.
LEMMA LiveNowIsRead ==
  ASSUME IInv, JoinedInv, RoundInv, pc # 0, NEW i \in DOMAIN prog, NEW n \in LiveNowAfter(i)
  PROVE  GraphSuccessors(block, edges, i) \cap ReadById(prog, block, edges, dead, n) # {}
<1> DEFINE b == block[i]
           last == last_instruction(block, b)
           live == LiveNow(prog, block, dead, b, out[b])
<1>1. /\ WellFormed(prog) /\ Partition(prog, block) /\ edges = Edges(prog, block)
      /\ out = LeastOut(prog, block, edges, dead)
  BY EnteredExact
<1>2. BlockOf(prog, block, b) /\ b \in BlocksOf(block)
  BY <1>1 DEF BlockOf, BlocksOf, Partition
<1>3. b \in Nat /\ last \in Nat /\ b <= i /\ i <= last /\ i \in b .. last
  <2>1. b <= i /\ i <= last /\ b \in Nat /\ last \in Nat
    BY <1>1, BlockIsInterval
  <2>2. i \in Nat
    BY <1>1 DEF WellFormed
  <2> HIDE DEF b, last
  <2> QED BY <2>1, <2>2
<1>4. NowWalk(prog, dead, b, last, live, out[b])
  <2>1. b \in Int /\ last \in Int /\ b <= last
    BY <1>3
  <2> HIDE DEF b
  <2> QED BY <2>1, LiveNowIs DEF last, live
<1>5. n \in live[i + 1]
  BY DEF LiveNowAfter
<1>6. ReadByChildren(out[b], prog, block, edges, dead, b)
  BY <1>1, <1>2, LeastOutIsRead
<1> HIDE DEF b, last, live
<1>7. Backward(live, out[b], prog, dead, b, last)
  <2>1. live[last + 1] \subseteq out[b]
    BY <1>4 DEF NowWalk
  <2>2. ASSUME NEW k \in b .. last, NEW m \in live[k]
        PROVE  \/ m \in live[k + 1] /\ (k \in dead \/ m \notin lhs_set(prog[k]))
               \/ k \notin dead /\ m \in rhs_set(prog[k])
    <3>1. {id(v) : v \in (Operands(prog[k]) \cap LocalScope) \ Addrs} \subseteq rhs_set(prog[k])
      BY DEF rhs_set
    <3> QED BY <1>4, <2>2, <3>1 DEF NowWalk
  <2> QED BY <2>1, <2>2 DEF Backward
<1>8. \A k \in b .. last : \A m \in live[k + 1] :
        GraphSuccessors(block, edges, k) \cap ReadById(prog, block, edges, dead, m) # {}
  BY <1>1, <1>2, <1>6, <1>7, BackwardIsRead DEF last
<1> QED BY <1>3, <1>5, <1>8

\* An edge joins a variable to one that may be read after the former is
\* written, or whose id is taken for that of a parameter.
EdgesAreUsed ==
  pc = 1 =>
    \A e \in neighbors :
      \E i \in DOMAIN prog \ dead, w \in e :
        /\ prog[i].dest \in e \ {w}
        /\ OwnId(w) => ReadAfter(i, w)

\* create_interference_graph_connections joins no two variables in vain: in a
\* function that reads no parameter, one of them may be read after the other
\* is written. In any other function only edges to the local numbered 0 may be
\* in vain.
THEOREM EdgesAreJustified ==
  ASSUME FormalsKept
  PROVE  Spec => [](/\ EdgesAreUsed
                    /\ ReadsNoFormal(prog) => EdgesJustified)
<1>1. IInv /\ JoinedInv /\ RoundInv => EdgesAreUsed
  <2> SUFFICES ASSUME IInv, JoinedInv, RoundInv, pc = 1, NEW e \in neighbors
               PROVE  \E i \in DOMAIN prog \ dead, w \in e :
                        prog[i].dest \in e \ {w} /\ (OwnId(w) => ReadAfter(i, w))
    BY DEF EdgesAreUsed
  <2>1. PICK i \in DOMAIN prog \ dead : \E w \in e \cap Alloc!LiveRanges :
          prog[i].dest \in e \ {w} /\ id(w) \in LiveNowAfter(i)
    BY EnteredExact
  <2>2. PICK w \in e \cap Alloc!LiveRanges : prog[i].dest \in e \ {w} /\ id(w) \in LiveNowAfter(i)
    BY <2>1
  <2>3. GraphSuccessors(block, edges, i) \cap ReadById(prog, block, edges, dead, id(w)) # {}
    BY <2>2, LiveNowIsRead
  <2>4. w \in Locals
    BY <2>2, VariablesAssumption DEF Alloc!LiveRanges
  <2>5. WellFormed(prog)
    BY EnteredExact
  <2>6. OwnId(w) => ReadAfter(i, w)
    BY <2>3, <2>4, <2>5, ReadAfterById DEF IInv
  <2> QED BY <2>2, <2>6
<1>2. EdgesAreUsed /\ ReadsNoFormal(prog) => EdgesJustified
  <2> SUFFICES ASSUME EdgesAreUsed, ReadsNoFormal(prog) PROVE EdgesJustified
    OBVIOUS
  <2>1. ASSUME pc = 1, NEW e \in neighbors
        PROVE  \E i \in DOMAIN prog \ dead, w \in e :
                 /\ prog[i].dest \in e \ {w}
                 /\ Alloc!GraphSuccessors(block, edges, i)
                      \cap Alloc!ReadFrom(prog, block, edges, dead, w) # {}
    <3>1. PICK i \in DOMAIN prog \ dead, w \in e :
            prog[i].dest \in e \ {w} /\ (OwnId(w) => ReadAfter(i, w))
      BY <2>1 DEF EdgesAreUsed
    <3>2. OwnId(w)
      BY DEF OwnId
    <3> QED BY <3>1, <3>2, ReferenceOperators DEF ReadAfter
  <2> QED BY <2>1 DEF EdgesJustified, Alloc!EdgesJustified
<1>3. IInv /\ JoinedInv /\ RoundInv
        => EdgesAreUsed /\ (ReadsNoFormal(prog) => EdgesJustified)
  BY <1>1, <1>2
<1> QED BY <1>3, SpecExact, PTL

\* live_at_call holds all that is read after the call before it is written,
\* and no others, but for the one whose id is taken for that of a parameter.
CallsListRead ==
  pc = 1 =>
    \A i \in DOMAIN prog \ dead : prog[i].op = "Call" =>
      \A v \in Alloc!LiveRanges :
        /\ ReadAfter(i, v) => id(v) \in live_at_call[i]
        /\ id(v) \in live_at_call[i] /\ OwnId(v) => ReadAfter(i, v)

\* live_at_call misses no variable read after the call before it is written,
\* and in a function that reads no parameter it holds no other; in any other
\* function only the local numbered 0 may be listed in vain. Except when the
\* program assigns a variable to itself and dead code elimination does not
\* come first: the analysis passes over such an assignment, which reads its
\* variable.
THEOREM LiveAtCallsExact ==
  ASSUME FormalsKept
  PROVE  Spec => [](global_enabled \/ (\A i \in DOMAIN prog : ~NullAssignment(prog[i]))
                      => /\ CallsListRead
                         /\ ReadsNoFormal(prog) => LiveAtCallExact)
<1>1. ASSUME IInv, JoinedInv, RoundInv,
             global_enabled \/ \A i \in DOMAIN prog : ~NullAssignment(prog[i])
      PROVE  CallsListRead
  <2> SUFFICES ASSUME pc = 1, NEW i \in DOMAIN prog \ dead, prog[i].op = "Call",
                      NEW v \in Alloc!LiveRanges
               PROVE  /\ ReadAfter(i, v) => id(v) \in live_at_call[i]
                      /\ id(v) \in live_at_call[i] /\ OwnId(v) => ReadAfter(i, v)
    BY DEF CallsListRead
  <2> DEFINE byId == GraphSuccessors(block, edges, i)
                       \cap ReadById(prog, block, edges, dead, id(v)) # {}
  <2>1. /\ WellFormed(prog) /\ Partition(prog, block) /\ edges = Edges(prog, block)
        /\ Solution(prog, block, edges, dead, out)
        /\ \A k \in DOMAIN prog : NullAssignment(prog[k]) => k \in dead
        /\ live_at_call[i] = LiveNowAfter(i)
    BY <1>1, EnteredFacts, EnteredExact
  <2>2. v \in Locals
    BY VariablesAssumption DEF Alloc!LiveRanges
  <2>3. ASSUME id(v) \in live_at_call[i] PROVE byId
    BY <1>1, <2>1, <2>3, LiveNowIsRead
  <2>4. ASSUME byId PROVE id(v) \in live_at_call[i]
    <3>1. id(v) \in LiveAfter(prog, block, dead, out, i)
      BY <2>1, <2>4, ReadIsLive
    <3>2. BlockOf(prog, block, block[i])
      BY <2>1 DEF BlockOf
    <3>3. i + 1 \in block[i] .. last_instruction(block, block[i]) + 1
      <4>1. block[i] <= i /\ i <= last_instruction(block, block[i])
            /\ block[i] \in Nat /\ last_instruction(block, block[i]) \in Nat
        BY <2>1, BlockIsInterval
      <4>2. i \in Nat
        BY <2>1 DEF WellFormed
      <4> QED BY <4>1, <4>2
    <3>4. id(v) \in LiveNowAfter(i)
      BY <2>1, <3>1, <3>2, <3>3, LiveNowCovers DEF LiveAfter, LiveNowAfter
    <3> QED BY <2>1, <3>4
  <2>5. /\ ReadAfter(i, v) => byId
        /\ OwnId(v) /\ byId => ReadAfter(i, v)
    BY <1>1, <2>1, <2>2, ReadAfterById DEF IInv
  <2> HIDE DEF byId
  <2> QED BY <2>3, <2>4, <2>5
<1>2. CallsListRead /\ ReadsNoFormal(prog) => LiveAtCallExact
  <2> SUFFICES ASSUME CallsListRead, ReadsNoFormal(prog),
                      pc = 1, NEW i \in DOMAIN prog \ dead, prog[i].op = "Call",
                      NEW v \in Alloc!LiveRanges
               PROVE  id(v) \in live_at_call[i] <=> ReadAfter(i, v)
    BY AllocOperators, ReferenceOperators
    DEF LiveAtCallExact, Alloc!LiveAtCallExact, Alloc!Named, ReadAfter
  <2> QED BY DEF CallsListRead, OwnId
<1>3. IInv /\ JoinedInv /\ RoundInv
        => (global_enabled \/ (\A i \in DOMAIN prog : ~NullAssignment(prog[i]))
              => CallsListRead /\ (ReadsNoFormal(prog) => LiveAtCallExact))
  BY <1>1, <1>2
<1> QED BY <1>3, SpecExact, PTL
=============================================================================
