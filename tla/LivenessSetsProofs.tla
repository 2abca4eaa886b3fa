------------------------- MODULE LivenessSetsProofs -------------------------
(***************************************************************************)
(* What find_in_and_out_liveness_sets gives the passes that use it, for    *)
(* every function the code generator emits: the blocks are intervals, the  *)
(* use and def sets of a block are its backward walk, the rounds end in    *)
(* the least solution of the equations, and a variable is in no live set   *)
(* but for being read on some path.                                        *)
(*                                                                         *)
(* The walks and the rounds are recursive functions.  Their lemmas are by  *)
(* induction on sets of natural numbers (InductionProofs).                 *)
(***************************************************************************)
EXTENDS LivenessSets, InductionProofs, FiniteSetTheorems

-----------------------------------------------------------------------------
(***************************************************************************)
(* Backward reachability in a finite graph, by as many rounds as it has    *)
(* nodes: the least set that holds gen and, outside kill, what an edge     *)
(* leads from to the set.                                                  *)
(***************************************************************************)
Before(E, S) == {e[1] : e \in {d \in E : d[2] \in S}}

Rounds(f, gen, kill, E) ==
  f[0] = gen /\ \A k \in Nat : f[k + 1] = gen \cup (Before(E, f[k]) \ kill)

ClosedBefore(C, gen, kill, E) == gen \cup (Before(E, C) \ kill) \subseteq C

\* No round loses a node.
LEMMA RoundsGrow ==
  ASSUME NEW gen, NEW kill, NEW E, NEW f, Rounds(f, gen, kill, E)
  PROVE  \A k \in Nat : f[k] \subseteq f[k + 1]
<1> DEFINE T == {k \in Nat : f[k] \subseteq f[k + 1]}
<1>1. 0 \in T
  BY DEF Rounds
<1>2. ASSUME NEW k \in Nat, k \in T PROVE k + 1 \in T
  <2>1. Before(E, f[k]) \subseteq Before(E, f[k + 1])
    BY <1>2 DEF Before
  <2>2. f[k + 1] = gen \cup (Before(E, f[k]) \ kill)
    BY DEF Rounds
  <2>3. f[(k + 1) + 1] = gen \cup (Before(E, f[k + 1]) \ kill)
    BY DEF Rounds
  <2>4. f[k + 1] \subseteq f[(k + 1) + 1]
    BY <2>1, <2>2, <2>3
  <2> QED BY <2>4
<1> HIDE DEF T
<1>3. \A k \in Nat : k \in T
  BY <1>1, <1>2, SetInduction
<1> QED BY <1>3 DEF T

\* A round that adds nothing is the last one that matters, and every other
\* adds a node: there are at most as many as the graph has.
LEMMA RoundsEnd ==
  ASSUME NEW V, IsFiniteSet(V), NEW gen, NEW kill, NEW E,
         NEW f \in [Nat -> SUBSET V], Rounds(f, gen, kill, E)
  PROVE  f[Cardinality(V) + 1] = f[Cardinality(V)]
<1> DEFINE T == {k \in Nat : f[k + 1] = f[k] \/ Cardinality(f[k]) > k}
<1>0. \A k \in Nat : /\ IsFiniteSet(f[k]) /\ Cardinality(f[k]) \in Nat
                     /\ Cardinality(f[k]) <= Cardinality(V)
                     /\ Cardinality(f[k]) <= Cardinality(f[k + 1])
                     /\ f[k] # f[k + 1] => Cardinality(f[k]) # Cardinality(f[k + 1])
  <2> TAKE k \in Nat
  <2>1. f[k] \in SUBSET V /\ f[k + 1] \in SUBSET V /\ f[k] \in SUBSET f[k + 1]
    BY RoundsGrow
  <2>2. IsFiniteSet(f[k + 1])
    BY <2>1, FS_Subset
  <2> QED BY <2>1, <2>2, FS_Subset, FS_CardinalityType
<1>1. 0 \in T
  <2>1. CASE f[0] = {}
    <3>1. Before(E, f[0]) = {} /\ gen = {}
      BY <2>1 DEF Before, Rounds
    <3>2. f[0 + 1] = gen \cup (Before(E, f[0]) \ kill)
      BY DEF Rounds
    <3>3. f[0 + 1] = f[0]
      BY <2>1, <3>1, <3>2
    <3> QED BY <3>3
  <2>2. CASE f[0] # {}
    <3>1. Cardinality(f[0]) # 0
      BY <2>2, <1>0, FS_EmptySet
    <3> QED BY <3>1, <1>0
  <2> QED BY <2>1, <2>2
<1>2. ASSUME NEW k \in Nat, k \in T PROVE k + 1 \in T
  <2>1. CASE f[k + 1] = f[k]
    <3>1. f[(k + 1) + 1] = gen \cup (Before(E, f[k + 1]) \ kill)
      BY DEF Rounds
    <3>2. f[k + 1] = gen \cup (Before(E, f[k]) \ kill)
      BY DEF Rounds
    <3>3. f[(k + 1) + 1] = f[k + 1]
      BY <3>1, <3>2, <2>1
    <3> QED BY <3>3
  <2>2. CASE f[k + 1] # f[k]
    <3>1. Cardinality(f[k]) > k
      BY <2>2, <1>2
    <3>2. Cardinality(f[k + 1]) > Cardinality(f[k])
      BY <1>0, <2>2
    <3>3. Cardinality(f[k + 1]) > k + 1
      BY <3>1, <3>2, <1>0
    <3> QED BY <3>3
  <2> QED BY <2>1, <2>2
<1>3. \A k \in Nat : k \in T
  <2> HIDE DEF T
  <2> QED BY <1>1, <1>2, SetInduction
<1>4. Cardinality(V) \in Nat
  BY FS_CardinalityType
<1> QED BY <1>0, <1>3, <1>4

\* The rounds never leave a closed set.
LEMMA RoundsLeast ==
  ASSUME NEW gen, NEW kill, NEW E, NEW f, Rounds(f, gen, kill, E),
         NEW C, ClosedBefore(C, gen, kill, E)
  PROVE  \A k \in Nat : f[k] \subseteq C
<1> DEFINE T == {k \in Nat : f[k] \subseteq C}
<1>1. 0 \in T
  BY DEF Rounds, ClosedBefore
<1>2. ASSUME NEW k \in Nat, k \in T PROVE k + 1 \in T
  <2>1. Before(E, f[k]) \subseteq Before(E, C)
    BY <1>2 DEF Before
  <2>2. f[k + 1] = gen \cup (Before(E, f[k]) \ kill)
    BY DEF Rounds
  <2> QED BY <2>1, <2>2 DEF ClosedBefore
<1> HIDE DEF T
<1>3. \A k \in Nat : k \in T
  BY <1>1, <1>2, SetInduction
<1> QED BY <1>3 DEF T

-----------------------------------------------------------------------------
(***************************************************************************)
(* A walk over a block from its last instruction to its first defines what *)
(* is live before each: L after the last, and before instruction i what is *)
(* live after it less K[i], and G[i].                                      *)
(***************************************************************************)
WalkDefined(b, after, L, K, G) ==
  \E f : f = [i \in b .. after |-> IF i = after THEN L ELSE (f[i + 1] \ K[i]) \cup G[i]]

LEMMA BackwardWalk ==
  ASSUME NEW b \in Int, NEW after \in Int, NEW L, NEW K, NEW G
  PROVE  WalkDefined(b, after, L, K, G)
<1> DEFINE through(i) == {x \in L : \A k \in i .. after - 1 : x \notin K[k]}
           from(i, j) == {x \in G[j] : \A k \in i .. j - 1 : x \notin K[k]}
           rest(i) == UNION {from(i, j) : j \in i .. after - 1}
           w(i) == through(i) \cup rest(i)
           f == [i \in b .. after |-> w(i)]
<1>1. w(after) = L
  OBVIOUS
<1>2. ASSUME NEW i \in b .. after - 1 PROVE w(i) = (w(i + 1) \ K[i]) \cup G[i]
  <2>1. \A k : k \in i .. after - 1 <=> k = i \/ k \in i + 1 .. after - 1
    OBVIOUS
  <2>2. through(i) = through(i + 1) \ K[i]
    BY <2>1
  <2>3. from(i, i) = G[i]
    OBVIOUS
  <2>4. \A j \in i + 1 .. after - 1 : from(i, j) = from(i + 1, j) \ K[i]
    <3> TAKE j \in i + 1 .. after - 1
    <3>1. \A k : k \in i .. j - 1 <=> k = i \/ k \in i + 1 .. j - 1
      OBVIOUS
    <3> QED BY <3>1
  <2> HIDE DEF through, from
  <2>5. rest(i) = G[i] \cup (rest(i + 1) \ K[i])
    <3>1. ASSUME NEW x \in rest(i) PROVE x \in G[i] \cup (rest(i + 1) \ K[i])
      <4>1. PICK j \in i .. after - 1 : x \in from(i, j)
        OBVIOUS
      <4>2. CASE j = i
        BY <4>1, <4>2, <2>3
      <4>3. CASE j # i
        <5>1. j \in i + 1 .. after - 1
          BY <4>3
        <5> QED BY <5>1, <4>1, <2>4
      <4> QED BY <4>2, <4>3
    <3>2. ASSUME NEW x \in rest(i + 1), x \notin K[i] PROVE x \in rest(i)
      <4>1. PICK j \in i + 1 .. after - 1 : x \in from(i + 1, j)
        OBVIOUS
      <4>2. x \in from(i, j) /\ j \in i .. after - 1
        BY <4>1, <3>2, <2>4, <2>1
      <4> QED BY <4>2
    <3>3. G[i] \subseteq rest(i)
      BY <2>3, <2>1
    <3> HIDE DEF rest
    <3> QED BY <3>1, <3>2, <3>3
  <2> HIDE DEF rest
  <2> QED BY <2>2, <2>5
<1> HIDE DEF w
<1>3. f = [i \in b .. after |-> IF i = after THEN L ELSE (f[i + 1] \ K[i]) \cup G[i]]
  <2>1. ASSUME NEW i \in b .. after, i # after
        PROVE  f[i + 1] = w(i + 1) /\ f[i] = (f[i + 1] \ K[i]) \cup G[i]
    <3>1. i \in b .. after - 1 /\ i + 1 \in b .. after
      BY <2>1
    <3> QED BY <3>1, <1>2
  <2> HIDE DEF f
  <2>2. f = [i \in b .. after |-> f[i]] /\ (after \in b .. after => f[after] = L)
    BY <1>1 DEF f
  <2> QED BY <2>1, <2>2
<1> QED BY <1>3 DEF WalkDefined

\* live follows the walk over the instructions from b to last.
LiveWalk(p, dead, b, last, live, L) ==
  /\ live[last + 1] = L
  /\ \A i \in b .. last :
       live[i] = IF Skipped(p, dead, i) THEN live[i + 1]
                 ELSE (live[i + 1] \ lhs_set(p[i])) \cup rhs_set(p[i])

\* What LiveIn is: the recursive definition defines a function.
LEMMA LiveInWalk ==
  ASSUME NEW p, NEW block, NEW dead, NEW b \in Int, NEW L,
         last_instruction(block, b) \in Int, b <= last_instruction(block, b)
  PROVE  LiveWalk(p, dead, b, last_instruction(block, b), LiveIn(p, block, dead, b, L), L)
<1> DEFINE after == last_instruction(block, b) + 1
           live == LiveIn(p, block, dead, b, L)
           K == [i \in b .. after |-> IF Skipped(p, dead, i) THEN {} ELSE lhs_set(p[i])]
           G == [i \in b .. after |-> IF Skipped(p, dead, i) THEN {} ELSE rhs_set(p[i])]
           Walk(f) == [i \in b .. after |->
                         IF i = after THEN L
                         ELSE IF Skipped(p, dead, i) THEN f[i + 1]
                         ELSE (f[i + 1] \ lhs_set(p[i])) \cup rhs_set(p[i])]
<1>1. after \in Int
  OBVIOUS
<1>2. PICK f : f = [i \in b .. after |->
                      IF i = after THEN L ELSE (f[i + 1] \ K[i]) \cup G[i]]
  <2> HIDE DEF after, K, G
  <2>1. WalkDefined(b, after, L, K, G)
    BY <1>1, BackwardWalk
  <2> QED BY <2>1 DEF WalkDefined
<1>3. f = Walk(f)
  <2> HIDE DEF after
  <2>1. \A i \in b .. after : (f[i + 1] \ K[i]) \cup G[i]
                                = IF Skipped(p, dead, i) THEN f[i + 1]
                                  ELSE (f[i + 1] \ lhs_set(p[i])) \cup rhs_set(p[i])
    OBVIOUS
  <2> HIDE DEF K, G
  <2> QED BY <1>2, <2>1
<1>4. live = CHOOSE g : g = Walk(g)
  BY DEF LiveIn
<1> HIDE DEF live, after, Walk
<1>5. live = Walk(live)
  BY <1>3, <1>4
<1>6. live[after] = L
  <2>1. after \in b .. after
    BY <1>1 DEF after
  <2> QED BY <2>1, <1>5 DEF Walk
<1>7. ASSUME NEW i \in b .. after - 1
      PROVE  live[i] = IF Skipped(p, dead, i) THEN live[i + 1]
                       ELSE (live[i + 1] \ lhs_set(p[i])) \cup rhs_set(p[i])
  <2>1. i \in b .. after /\ i # after
    BY <1>1
  <2> QED BY <2>1, <1>5 DEF Walk
<1>8. after - 1 = last_instruction(block, b)
  BY DEF after
<1> QED BY <1>6, <1>7, <1>8 DEF live, after, LiveWalk

-----------------------------------------------------------------------------
(***************************************************************************)
(* Basic blocks.                                                           *)
(***************************************************************************)

\* The leaders of a function are instructions of it, and the first is one.
LEMMA LeadersType ==
  ASSUME NEW p, WellFormed(p)
  PROVE  Leaders(p) \subseteq DOMAIN p /\ 1 \in Leaders(p) /\ DOMAIN p \subseteq Nat
BY DEF WellFormed, Leaders, Jumps

\* BlockMap gives an instruction the last leader up to it.
Partition(p, block) ==
  /\ DOMAIN block = DOMAIN p
  /\ \A i \in DOMAIN p : /\ block[i] \in Leaders(p) /\ block[i] <= i
                         /\ \A c \in Leaders(p) : c <= i => c <= block[i]

LEMMA BlockMapPartition ==
  ASSUME NEW p, WellFormed(p)
  PROVE  Partition(p, BlockMap(p))
<1>1. ASSUME NEW i \in DOMAIN p
      PROVE  \E b \in Leaders(p) : b <= i /\ \A c \in Leaders(p) : c <= i => c <= b
  <2> DEFINE T == {c \in Leaders(p) : c <= i}
  <2>0. i \in Int /\ 1 <= i
    BY DEF WellFormed
  <2>1. T \in SUBSET Int /\ 1 \in T /\ i \in Int
    BY <2>0, LeadersType
  <2>2. PICK b \in T : \A c \in T : c <= b
    <3> HIDE DEF T
    <3>1. \A c \in T : c <= i
      BY DEF T
    <3> QED BY <2>1, <3>1, GreatestInteger
  <2> QED BY <2>2
<1> QED BY <1>1 DEF BlockMap, Partition

\* A leader is in its own block, and an instruction that is none in the
\* block of the one before.
LEMMA BlockOfLeader ==
  ASSUME NEW p, WellFormed(p), NEW block, Partition(p, block)
  PROVE  /\ \A b \in Leaders(p) : block[b] = b
         /\ \A i \in DOMAIN p \ Leaders(p) : i - 1 \in DOMAIN p /\ block[i] = block[i - 1]
<1>1. Leaders(p) \subseteq Nat
  BY LeadersType
<1>2. ASSUME NEW b \in Leaders(p) PROVE block[b] = b
  <2>1. b \in DOMAIN p /\ b \in Nat
    BY LeadersType
  <2>2. block[b] <= b /\ b <= block[b] /\ block[b] \in Nat
    BY <2>1, <1>1 DEF Partition
  <2> QED BY <2>1, <2>2
<1>3. ASSUME NEW i \in DOMAIN p \ Leaders(p) PROVE i - 1 \in DOMAIN p /\ block[i] = block[i - 1]
  <2>1. i \in Nat /\ i # 1 /\ i - 1 \in DOMAIN p
    BY LeadersType DEF WellFormed
  <2>2. block[i] \in Nat /\ block[i - 1] \in Nat /\ block[i] <= i /\ block[i] # i
    BY <1>1, <2>1 DEF Partition
  <2>3. block[i] <= i - 1
    BY <2>1, <2>2
  <2>4. block[i] <= block[i - 1]
    BY <2>1, <2>3 DEF Partition
  <2>5. block[i - 1] <= i - 1
    BY <2>1 DEF Partition
  <2>6. block[i - 1] <= i
    BY <2>1, <2>2, <2>5
  <2>7. block[i - 1] <= block[i]
    BY <2>1, <2>6 DEF Partition
  <2> QED BY <2>1, <2>2, <2>4, <2>7
<1> QED BY <1>2, <1>3

\* A block is an interval, from its leader to its last instruction.
LEMMA BlockIsInterval ==
  ASSUME NEW p, WellFormed(p), NEW block, Partition(p, block), NEW i \in DOMAIN p
  PROVE  LET b == block[i]
             last == last_instruction(block, b)
         IN  /\ b \in Nat /\ b \in DOMAIN p /\ block[b] = b
             /\ last \in Nat /\ last \in DOMAIN p /\ b <= last
             /\ b <= i /\ i <= last
             /\ Walked(block, b) = b .. last
<1> DEFINE b == block[i]
           last == last_instruction(block, b)
<1>1. /\ b \in Leaders(p) /\ b \in DOMAIN p /\ b \in Nat /\ b <= i /\ i \in Nat
      /\ DOMAIN p = 1 .. Len(p) /\ Len(p) \in Nat
  BY LeadersType DEF Partition, WellFormed
<1>2. block[b] = b
  BY <1>1, BlockOfLeader
<1>3. Walked(block, b) = {j \in DOMAIN p : block[j] = b}
  BY DEF Walked, Partition
<1>4. last \in Walked(block, b) /\ \A j \in Walked(block, b) : j <= last
  <2>1. Walked(block, b) \in SUBSET Int /\ i \in Walked(block, b)
        /\ \A j \in Walked(block, b) : j <= Len(p)
    BY <1>1, <1>3
  <2>2. \E j \in Walked(block, b) : \A k \in Walked(block, b) : k <= j
    <3>1. Len(p) \in Int /\ Walked(block, b) # {}
      BY <1>1, <2>1
    <3> HIDE DEF b
    <3> QED BY <2>1, <3>1, GreatestInteger
  <2> QED BY <2>2 DEF last_instruction
<1> HIDE DEF b, last
<1>5. last \in DOMAIN p /\ last \in Nat /\ i <= last /\ b <= last /\ block[last] = b
  BY <1>1, <1>2, <1>3, <1>4 DEF b
<1>6. ASSUME NEW j \in b .. last PROVE block[j] = b
  <2>1. j \in DOMAIN p /\ j \in Nat /\ b <= j /\ j <= last
    BY <1>1, <1>5
  <2>2. b <= block[j] /\ block[j] <= j /\ block[j] \in Leaders(p) /\ block[j] \in Nat
    BY <1>1, <2>1, LeadersType DEF Partition
  <2>3. block[j] <= last
    BY <2>1, <2>2, <1>5
  <2>4. block[j] <= block[last]
    BY <1>5, <2>2, <2>3 DEF Partition
  <2> QED BY <1>1, <1>5, <2>2, <2>4
<1>7. ASSUME NEW j \in Walked(block, b) PROVE j \in b .. last
  <2>1. j \in DOMAIN p /\ block[j] = b /\ j <= last /\ j \in Int
    BY <1>1, <1>3, <1>4
  <2>2. b <= j
    BY <2>1 DEF Partition
  <2> QED BY <1>1, <1>5, <2>1, <2>2
<1>8. b .. last \subseteq DOMAIN p
  BY <1>1, <1>5
<1>9. Walked(block, b) = b .. last
  BY <1>3, <1>6, <1>7, <1>8
<1> QED BY <1>1, <1>2, <1>5, <1>9 DEF b, last

\* The graph joins blocks.
LEMMA EdgesType ==
  ASSUME NEW p, WellFormed(p), NEW block, Partition(p, block)
  PROVE  \A e \in Edges(p, block) :
           /\ e = <<e[1], e[2]>>
           /\ e[1] \in {block[i] : i \in DOMAIN block}
           /\ e[2] \in {block[i] : i \in DOMAIN block} /\ e[2] \in DOMAIN p /\ block[e[2]] = e[2]
<1> TAKE e \in Edges(p, block)
<1>0. DOMAIN block = DOMAIN p
  BY DEF Partition
<1>1. CASE \E j \in DOMAIN p \ {1} : block[j] = j /\ e = <<block[j - 1], j>>
  <2>1. PICK j \in DOMAIN p \ {1} : block[j] = j /\ e = <<block[j - 1], j>>
    BY <1>1
  <2>2. j - 1 \in DOMAIN p
    BY DEF WellFormed
  <2> QED BY <1>0, <2>1, <2>2
<1>2. CASE \E j \in DOMAIN p : p[j].op \in Jumps /\ e = <<block[j], p[j].jump_to>>
  <2>1. PICK j \in DOMAIN p : p[j].op \in Jumps /\ e = <<block[j], p[j].jump_to>>
    BY <1>2
  <2>2. p[j].jump_to \in DOMAIN p /\ p[j].jump_to \in Leaders(p)
    BY <2>1 DEF WellFormed, Leaders
  <2>3. block[p[j].jump_to] = p[j].jump_to
    BY <2>2, BlockOfLeader
  <2> QED BY <1>0, <2>1, <2>2, <2>3
<1>3. \/ \E j \in DOMAIN p \ {1} : block[j] = j /\ e = <<block[j - 1], j>>
      \/ \E j \in DOMAIN p : p[j].op \in Jumps /\ e = <<block[j], p[j].jump_to>>
  BY <1>0 DEF Edges
<1> QED BY <1>1, <1>2, <1>3

\* Control goes to the next instruction of the block, or leaves its last one
\* along an edge of the graph.
LEMMA ControlFollowsGraph ==
  ASSUME NEW p, WellFormed(p), NEW block, Partition(p, block),
         NEW i \in DOMAIN p, NEW j \in DOMAIN p, j \in Successors(p, i)
  PROVE  \/ j = i + 1 /\ block[j] = block[i]
         \/ /\ i = last_instruction(block, block[i])
            /\ block[j] = j
            /\ <<block[i], j>> \in Edges(p, block)
<1>1. i \in Nat /\ j \in Nat /\ DOMAIN block = DOMAIN p
  BY DEF WellFormed, Partition
<1>2. ASSUME i + 1 \in DOMAIN p => block[i + 1] # block[i]
      PROVE  i = last_instruction(block, block[i])
  <2> DEFINE last == last_instruction(block, block[i])
  <2>1. last \in Nat /\ i <= last /\ last \in DOMAIN p /\ block[i] <= i
        /\ block[i] \in Nat /\ Walked(block, block[i]) = block[i] .. last
    BY BlockIsInterval
  <2> HIDE DEF last
  <2>2. CASE i + 1 <= last
    <3>1. i + 1 \in Walked(block, block[i])
      BY <1>1, <2>1, <2>2
    <3>2. i + 1 \in DOMAIN p /\ block[i + 1] = block[i]
      BY <1>1, <3>1 DEF Walked
    <3> QED BY <1>2, <3>2
  <2>3. CASE ~(i + 1 <= last)
    BY <1>1, <2>1, <2>3 DEF last
  <2> QED BY <2>2, <2>3
<1>3. CASE p[i].op \in Jumps /\ j = p[i].jump_to
  <2>1. j \in Leaders(p)
    BY <1>3 DEF Leaders
  <2>2. block[j] = j
    BY <2>1, BlockOfLeader
  <2>3. i # 1
    BY <1>3 DEF WellFormed, Jumps
  <2>4. <<block[i], j>> \in Edges(p, block)
    BY <1>1, <1>3, <2>3 DEF Edges
  <2>5. ASSUME i + 1 \in DOMAIN p PROVE block[i + 1] # block[i]
    <3>1. i + 1 \in Leaders(p)
      <4>1. (i + 1) - 1 = i /\ i + 1 > 1
        BY <1>1, <2>3 DEF WellFormed
      <4> QED BY <1>3, <2>5, <4>1 DEF Leaders
    <3>2. block[i + 1] = i + 1 /\ block[i] <= i /\ block[i] \in Nat
      BY <3>1, BlockOfLeader, LeadersType DEF Partition
    <3> QED BY <1>1, <3>2
  <2> QED BY <1>2, <2>2, <2>4, <2>5
<1>4. CASE j = i + 1 /\ block[j] # block[i] /\ ~(p[i].op \in Jumps /\ j = p[i].jump_to)
  <2>1. i = last_instruction(block, block[i])
    BY <1>2, <1>4
  <2>2. j \in Leaders(p)
    <3>1. j - 1 = i
      BY <1>1, <1>4
    <3> QED BY <1>4, <3>1, BlockOfLeader
  <2>3. block[j] = j
    BY <2>2, BlockOfLeader
  <2>4. j - 1 = i /\ j # 1 /\ p[i].jump_to # j
    BY <1>1, <1>4 DEF WellFormed
  <2>5. <<block[j - 1], j>> \in Edges(p, block)
    BY <1>1, <2>3, <2>4 DEF Edges
  <2> QED BY <2>1, <2>3, <2>4, <2>5
<1>5. j = i + 1 \/ (p[i].op \in Jumps /\ j = p[i].jump_to)
  BY DEF Successors, Jumps
<1> QED BY <1>3, <1>4, <1>5

-----------------------------------------------------------------------------
(***************************************************************************)
(* The liveness sets of a function.                                        *)
(***************************************************************************)

\* A block of a well-formed function, as the walks over it take it.
BlockOf(p, block, b) == \E i \in DOMAIN p : b = block[i]

\* What is live in block b of a well-formed function before instruction i.
LEMMA LiveInIs ==
  ASSUME NEW p, WellFormed(p), NEW block, Partition(p, block), NEW dead,
         NEW b, BlockOf(p, block, b), NEW L
  PROVE  /\ b \in Nat /\ last_instruction(block, b) \in Nat /\ b <= last_instruction(block, b)
         /\ Walked(block, b) = b .. last_instruction(block, b)
         /\ LiveWalk(p, dead, b, last_instruction(block, b), LiveIn(p, block, dead, b, L), L)
<1>1. PICK i \in DOMAIN p : b = block[i]
  BY DEF BlockOf
<1>2. /\ b \in Nat /\ last_instruction(block, b) \in Nat /\ b <= last_instruction(block, b)
      /\ Walked(block, b) = b .. last_instruction(block, b)
  BY <1>1, BlockIsInterval, ZenonT(60)
<1> QED BY <1>2, LiveInWalk

\* Less is live when less is live after the block and more of its writes are
\* dead, provided that what those write was not live.
LEMMA LiveInShrinks ==
  ASSUME NEW p, WellFormed(p), NEW block, Partition(p, block),
         NEW b, BlockOf(p, block, b),
         NEW L, NEW M, M \subseteq L, NEW dead, NEW more, dead \subseteq more,
         \A i \in Walked(block, b) : i \in more \ dead =>
           \/ NullAssignment(p[i])
           \/ lhs_set(p[i]) \cap LiveIn(p, block, dead, b, L)[i + 1] = {}
  PROVE  \A i \in b .. last_instruction(block, b) + 1 :
           LiveIn(p, block, more, b, M)[i] \subseteq LiveIn(p, block, dead, b, L)[i]
<1> DEFINE last == last_instruction(block, b)
           was == LiveIn(p, block, dead, b, L)
           is == LiveIn(p, block, more, b, M)
           T == {i \in Int : is[i] \subseteq was[i]}
<1>1. /\ b \in Nat /\ last \in Nat /\ b <= last /\ Walked(block, b) = b .. last
      /\ LiveWalk(p, dead, b, last, was, L)
      /\ LiveWalk(p, more, b, last, is, M)
  BY LiveInIs
<1>0. \A i \in b .. last : i \in more \ dead =>
        NullAssignment(p[i]) \/ lhs_set(p[i]) \cap was[i + 1] = {}
  BY <1>1
<1> HIDE DEF last, was, is
<1>3. last + 1 \in T /\ b \in Int /\ last + 1 \in Int
  BY <1>1 DEF LiveWalk
<1>4. ASSUME NEW i \in b .. (last + 1) - 1, i + 1 \in T PROVE i \in T
  <2>1. i \in b .. last /\ i \in Int /\ is[i + 1] \subseteq was[i + 1]
    BY <1>1, <1>4
  <2>2. is[i] = IF Skipped(p, more, i) THEN is[i + 1]
                ELSE (is[i + 1] \ lhs_set(p[i])) \cup rhs_set(p[i])
    BY <1>1, <2>1 DEF LiveWalk
  <2>3. was[i] = IF Skipped(p, dead, i) THEN was[i + 1]
                 ELSE (was[i + 1] \ lhs_set(p[i])) \cup rhs_set(p[i])
    BY <1>1, <2>1 DEF LiveWalk
  <2>4. CASE Skipped(p, dead, i)
    <3>1. Skipped(p, more, i)
      BY <2>4 DEF Skipped
    <3> QED BY <2>1, <2>2, <2>3, <2>4, <3>1
  <2>5. CASE ~Skipped(p, dead, i) /\ Skipped(p, more, i)
    <3>1. lhs_set(p[i]) \cap was[i + 1] = {}
      BY <1>0, <2>1, <2>5 DEF Skipped
    <3>2. is[i] = is[i + 1] /\ was[i] = (was[i + 1] \ lhs_set(p[i])) \cup rhs_set(p[i])
      BY <2>2, <2>3, <2>5
    <3> QED BY <2>1, <3>1, <3>2
  <2>6. CASE ~Skipped(p, dead, i) /\ ~Skipped(p, more, i)
    BY <2>1, <2>2, <2>3, <2>6
  <2> QED BY <2>4, <2>5, <2>6
<1> HIDE DEF T
<1>5. \A i \in b .. last + 1 : i \in T
  BY <1>3, <1>4, BackwardInduction
<1> QED BY <1>5 DEF T, last, was, is

\* The walk of def_set, before each instruction.
DefIn(p, block, dead, b) ==
  LET after == last_instruction(block, b) + 1
      def[i \in b .. after] ==
        IF i = after THEN {}
        ELSE IF Skipped(p, dead, i) THEN def[i + 1]
        ELSE (lhs_set(p[i]) \cup def[i + 1]) \ rhs_set(p[i])
  IN  def

DefWalk(p, dead, b, last, def) ==
  /\ def[last + 1] = {}
  /\ \A i \in b .. last :
       def[i] = IF Skipped(p, dead, i) THEN def[i + 1]
                ELSE (lhs_set(p[i]) \cup def[i + 1]) \ rhs_set(p[i])

LEMMA DefInIs ==
  ASSUME NEW p, WellFormed(p), NEW block, Partition(p, block), NEW dead,
         NEW b, BlockOf(p, block, b)
  PROVE  /\ DefWalk(p, dead, b, last_instruction(block, b), DefIn(p, block, dead, b))
         /\ def_set(p, block, dead, b) = DefIn(p, block, dead, b)[b]
<1> DEFINE last == last_instruction(block, b)
           after == last + 1
           def == DefIn(p, block, dead, b)
           K == [i \in b .. after |-> IF Skipped(p, dead, i) THEN {} ELSE rhs_set(p[i])]
           G == [i \in b .. after |-> IF Skipped(p, dead, i) THEN {}
                                      ELSE lhs_set(p[i]) \ rhs_set(p[i])]
           Walk(f) == [i \in b .. after |->
                         IF i = after THEN {}
                         ELSE IF Skipped(p, dead, i) THEN f[i + 1]
                         ELSE (lhs_set(p[i]) \cup f[i + 1]) \ rhs_set(p[i])]
<1>1. b \in Int /\ last \in Int /\ after \in Int /\ b <= last
  BY LiveInIs
<1>2. PICK f : f = [i \in b .. after |->
                      IF i = after THEN {} ELSE (f[i + 1] \ K[i]) \cup G[i]]
  <2> HIDE DEF after, K, G
  <2>1. WalkDefined(b, after, {}, K, G)
    BY <1>1, BackwardWalk
  <2> QED BY <2>1 DEF WalkDefined
<1>3. f = Walk(f)
  <2> HIDE DEF after
  <2>1. \A i \in b .. after : (f[i + 1] \ K[i]) \cup G[i]
                                = IF Skipped(p, dead, i) THEN f[i + 1]
                                  ELSE (lhs_set(p[i]) \cup f[i + 1]) \ rhs_set(p[i])
    OBVIOUS
  <2> HIDE DEF K, G
  <2> QED BY <1>2, <2>1
<1>4. def = CHOOSE g : g = Walk(g)
  BY DEF DefIn
<1>5. def_set(p, block, dead, b) = def[b]
  BY DEF def_set, DefIn
<1> HIDE DEF def, after, Walk
<1>6. def = Walk(def)
  BY <1>3, <1>4
<1>7. def[last + 1] = {}
  <2>1. after \in b .. after /\ after = last + 1
    BY <1>1 DEF after
  <2> QED BY <2>1, <1>6 DEF Walk
<1>8. ASSUME NEW i \in b .. last
      PROVE  def[i] = IF Skipped(p, dead, i) THEN def[i + 1]
                      ELSE (lhs_set(p[i]) \cup def[i + 1]) \ rhs_set(p[i])
  <2>1. i \in b .. after /\ i # after
    BY <1>1 DEF after
  <2> QED BY <2>1, <1>6 DEF Walk
<1> HIDE DEF last
<1>9. DefWalk(p, dead, b, last, def)
  BY <1>7, <1>8 DEF DefWalk
<1> QED BY <1>5, <1>9 DEF last, def

\* use_set and def_set sum a block up: what is live at its start is what it
\* reads first, and what is live at its end and it does not write first.
LEMMA UseAndDef ==
  ASSUME NEW p, WellFormed(p), NEW block, Partition(p, block), NEW dead,
         NEW b, BlockOf(p, block, b), NEW L
  PROVE  LiveIn(p, block, dead, b, L)[b]
           = use_set(p, block, dead, b) \cup (L \ def_set(p, block, dead, b))
<1> DEFINE last == last_instruction(block, b)
           live == LiveIn(p, block, dead, b, L)
           use == LiveIn(p, block, dead, b, {})
           def == DefIn(p, block, dead, b)
           T == {i \in Int : live[i] = use[i] \cup (L \ def[i])}
<1>1. /\ b \in Int /\ last \in Int /\ b <= last
      /\ LiveWalk(p, dead, b, last, live, L)
      /\ LiveWalk(p, dead, b, last, use, {})
  BY LiveInIs
<1>2. DefWalk(p, dead, b, last, def) /\ def_set(p, block, dead, b) = def[b]
  BY DefInIs
<1>3. use_set(p, block, dead, b) = use[b]
  BY DEF use_set
<1> HIDE DEF last, live, use, def
<1>4. last + 1 \in T /\ last + 1 \in Int
  BY <1>1, <1>2 DEF LiveWalk, DefWalk
<1>5. ASSUME NEW i \in b .. (last + 1) - 1, i + 1 \in T PROVE i \in T
  <2>1. i \in b .. last /\ i \in Int /\ live[i + 1] = use[i + 1] \cup (L \ def[i + 1])
    BY <1>1, <1>5
  <2>2. live[i] = IF Skipped(p, dead, i) THEN live[i + 1]
                  ELSE (live[i + 1] \ lhs_set(p[i])) \cup rhs_set(p[i])
    BY <1>1, <2>1 DEF LiveWalk
  <2>3. use[i] = IF Skipped(p, dead, i) THEN use[i + 1]
                 ELSE (use[i + 1] \ lhs_set(p[i])) \cup rhs_set(p[i])
    BY <1>1, <2>1 DEF LiveWalk
  <2>4. def[i] = IF Skipped(p, dead, i) THEN def[i + 1]
                 ELSE (lhs_set(p[i]) \cup def[i + 1]) \ rhs_set(p[i])
    BY <1>2, <2>1 DEF DefWalk
  <2>5. live[i] = use[i] \cup (L \ def[i])
    <3>1. CASE Skipped(p, dead, i)
      BY <2>1, <2>2, <2>3, <2>4, <3>1
    <3>2. CASE ~Skipped(p, dead, i)
      BY <2>1, <2>2, <2>3, <2>4, <3>2
    <3> QED BY <3>1, <3>2
  <2> QED BY <2>1, <2>5
<1> HIDE DEF T
<1>6. \A i \in b .. last + 1 : i \in T
  BY <1>1, <1>4, <1>5, BackwardInduction
<1>7. b \in T
  BY <1>1, <1>6
<1> QED BY <1>2, <1>3, <1>7 DEF T, live

BlocksOf(block) == {block[i] : i \in DOMAIN block}

LEMMA BlocksFinite ==
  ASSUME NEW p, WellFormed(p), NEW block, Partition(p, block)
  PROVE  /\ IsFiniteSet(BlocksOf(block)) /\ Cardinality(BlocksOf(block)) \in Nat
         /\ \A b \in BlocksOf(block) : BlockOf(p, block, b)
<1>1. BlocksOf(block) \in SUBSET (1 .. Len(p)) /\ Len(p) \in Int
  BY LeadersType DEF BlocksOf, Partition, WellFormed
<1>2. IsFiniteSet(1 .. Len(p))
  BY <1>1, FS_Interval
<1>3. \A b \in BlocksOf(block) : BlockOf(p, block, b)
  BY DEF BlocksOf, BlockOf, Partition
<1> QED BY <1>1, <1>2, <1>3, FS_Subset, FS_CardinalityType

\* The pairs of a block and an id it reads first, and writes first.
UsePairs(p, block, dead) ==
  UNION {{b} \X use_set(p, block, dead, b) : b \in BlocksOf(block)}
DefPairs(p, block, dead) ==
  UNION {{b} \X def_set(p, block, dead, b) : b \in BlocksOf(block)}

\* The rounds of LeastIn are those of an iteration.
InRound(p, block, edges, dead, S) ==
  UsePairs(p, block, dead)
    \cup ((UNION {Parents(edges, q[1]) \X {q[2]} : q \in S}) \ DefPairs(p, block, dead))

InRounds(f, p, block, edges, dead) ==
  /\ f[0] = UsePairs(p, block, dead)
  /\ \A k \in Nat : f[k + 1] = InRound(p, block, edges, dead, f[k])
  /\ LeastIn(p, block, edges, dead) = f[Cardinality(BlocksOf(block))]

LEMMA LeastInRounds ==
  ASSUME NEW p, WellFormed(p), NEW block, Partition(p, block), NEW dead,
         NEW edges, \A e \in edges : e = <<e[1], e[2]>> /\ e[1] \in BlocksOf(block)
  PROVE  \E X : \E f \in [Nat -> SUBSET (BlocksOf(block) \X X)] :
           InRounds(f, p, block, edges, dead)
<1> DEFINE B == BlocksOf(block)
           X == UNION {use_set(p, block, dead, b) : b \in B}
           S == SUBSET (B \X X)
           Step(s) == InRound(p, block, edges, dead, s)
           F == [s \in S |-> Step(s)]
           Steps(f) == [k \in Nat |-> IF k = 0 THEN UsePairs(p, block, dead) ELSE Step(f[k - 1])]
<1>1. UsePairs(p, block, dead) \in S
  BY DEF UsePairs
<1>2. ASSUME NEW s \in S PROVE Step(s) \in S
  <2>1. ASSUME NEW q \in s PROVE Parents(edges, q[1]) \X {q[2]} \subseteq B \X X
    <3>1. q[2] \in X
      OBVIOUS
    <3>2. Parents(edges, q[1]) \subseteq B
      BY DEF Parents
    <3> QED BY <3>1, <3>2
  <2>2. UNION {Parents(edges, q[1]) \X {q[2]} : q \in s} \subseteq B \X X
    BY <2>1
  <2> QED BY <1>1, <2>2 DEF InRound
<1>3. PICK f \in [Nat -> S] : f[0] = UsePairs(p, block, dead) /\ \A k \in Nat : f[k + 1] = F[f[k]]
  <2>1. F \in [S -> S]
    BY <1>2
  <2> HIDE DEF F, S
  <2> QED BY <1>1, <2>1, Iteration DEF Iterable
<1>4. f = Steps(f)
  <2>1. \A k \in Nat : f[k + 1] = Step(f[k])
    BY <1>3
  <2>2. ASSUME NEW k \in Nat, k # 0 PROVE f[k] = Step(f[k - 1])
    <3>1. k - 1 \in Nat /\ (k - 1) + 1 = k
      BY <2>2
    <3> HIDE DEF Step
    <3> QED BY <2>1, <3>1
  <2>3. f = [k \in Nat |-> f[k]]
    BY <1>3
  <2> HIDE DEF Step, S
  <2> QED BY <1>3, <2>2, <2>3
<1> DEFINE g == CHOOSE h : h = Steps(h)
<1>5. LeastIn(p, block, edges, dead) = g[Cardinality(B)]
  BY DEF LeastIn, InRound, UsePairs, DefPairs, BlocksOf
<1>6. g = Steps(g)
  <2> HIDE DEF Steps
  <2> QED BY <1>4
<1> HIDE DEF g
<1>7. g[0] = UsePairs(p, block, dead)
  BY <1>6
<1>8. ASSUME NEW k \in Nat PROVE g[k + 1] = Step(g[k])
  <2>1. k + 1 \in Nat /\ k + 1 # 0 /\ (k + 1) - 1 = k
    OBVIOUS
  <2> HIDE DEF Step
  <2> QED BY <1>6, <2>1
<1>9. g \in [Nat -> S]
  <2> DEFINE T == {k \in Nat : g[k] \in S}
  <2>1. 0 \in T
    BY <1>1, <1>7
  <2>2. ASSUME NEW k \in Nat, k \in T PROVE k + 1 \in T
    BY <2>2, <1>8, <1>2
  <2>3. \A k \in Nat : k \in T
    <3> HIDE DEF T
    <3> QED BY <2>1, <2>2, SetInduction
  <2>4. g = [k \in Nat |-> g[k]]
    <3> HIDE DEF Step
    <3> QED BY <1>6
  <2> QED BY <2>3, <2>4
<1>10. InRounds(g, p, block, edges, dead)
  BY <1>5, <1>7, <1>8 DEF InRounds
<1> QED BY <1>9, <1>10

\* Where id n is read first, where it is written first, and where the
\* pairs of in hold it.
Uses(p, block, dead, n) == {b \in BlocksOf(block) : n \in use_set(p, block, dead, b)}
Defs(p, block, dead, n) == {b \in BlocksOf(block) : n \in def_set(p, block, dead, b)}
Holding(in, block, n) == {b \in BlocksOf(block) : <<b, n>> \in in}

\* For each id LeastIn is the least solution of the equations.
LEMMA LeastInLeast ==
  ASSUME NEW p, WellFormed(p), NEW block, Partition(p, block), NEW dead,
         NEW edges, \A e \in edges : e = <<e[1], e[2]>> /\ e[1] \in BlocksOf(block),
         NEW n
  PROVE  LET I == Holding(LeastIn(p, block, edges, dead), block, n)
         IN  /\ ClosedBefore(I, Uses(p, block, dead, n), Defs(p, block, dead, n), edges)
             /\ \A C : ClosedBefore(C, Uses(p, block, dead, n), Defs(p, block, dead, n), edges)
                         => I \subseteq C
<1> DEFINE B == BlocksOf(block)
           gen == Uses(p, block, dead, n)
           kill == Defs(p, block, dead, n)
           N == Cardinality(B)
<1>0. PICK X : \E f \in [Nat -> SUBSET (B \X X)] : InRounds(f, p, block, edges, dead)
  BY LeastInRounds
<1>1. PICK f \in [Nat -> SUBSET (B \X X)] : InRounds(f, p, block, edges, dead)
  BY <1>0
<1> DEFINE s == [k \in Nat |-> Holding(f[k], block, n)]
<1>2. \A b, m : <<b, m>> \in UsePairs(p, block, dead) <=> b \in B /\ m \in use_set(p, block, dead, b)
  BY DEF UsePairs
<1>3. \A b, m : <<b, m>> \in DefPairs(p, block, dead) <=> b \in B /\ m \in def_set(p, block, dead, b)
  BY DEF DefPairs
<1>4. s[0] = gen
  BY <1>1, <1>2 DEF InRounds, Holding, Uses
<1>5. ASSUME NEW k \in Nat PROVE s[k + 1] = gen \cup (Before(edges, s[k]) \ kill)
  <2>1. f[k + 1] = InRound(p, block, edges, dead, f[k]) /\ f[k] \in SUBSET (B \X X)
    BY <1>1 DEF InRounds
  <2> DEFINE P == UNION {Parents(edges, q[1]) \X {q[2]} : q \in f[k]}
  <2>2. ASSUME NEW b PROVE <<b, n>> \in P <=> b \in Before(edges, s[k])
    <3>1. ASSUME <<b, n>> \in P PROVE b \in Before(edges, s[k])
      <4>1. PICK q \in f[k] : <<b, n>> \in Parents(edges, q[1]) \X {q[2]}
        BY <3>1
      <4>2. q = <<q[1], n>> /\ q[1] \in B /\ b \in Parents(edges, q[1])
        BY <2>1, <4>1
      <4>3. q[1] \in s[k]
        BY <4>2 DEF Holding
      <4> QED BY <4>2, <4>3 DEF Parents, Before
    <3>2. ASSUME b \in Before(edges, s[k]) PROVE <<b, n>> \in P
      <4>1. PICK e \in edges : e[1] = b /\ e[2] \in s[k]
        BY <3>2 DEF Before
      <4>2. <<e[2], n>> \in f[k]
        BY <4>1 DEF Holding
      <4>3. b \in Parents(edges, e[2])
        BY <4>1 DEF Parents
      <4> QED BY <4>2, <4>3
    <3> QED BY <3>1, <3>2
  <2> HIDE DEF P
  <2>3. f[k + 1] = UsePairs(p, block, dead) \cup (P \ DefPairs(p, block, dead))
    BY <2>1 DEF InRound, P
  <2>4. ASSUME NEW b PROVE b \in s[k + 1] <=> b \in gen \cup (Before(edges, s[k]) \ kill)
    <3>1. b \in s[k + 1] <=> b \in B /\ <<b, n>> \in f[k + 1]
      BY DEF Holding
    <3>2. <<b, n>> \in f[k + 1] <=> \/ b \in B /\ n \in use_set(p, block, dead, b)
                                    \/ /\ b \in Before(edges, s[k])
                                       /\ ~(b \in B /\ n \in def_set(p, block, dead, b))
      BY <2>2, <2>3, <1>2, <1>3
    <3>3. b \in Before(edges, s[k]) => b \in B
      BY DEF Before
    <3> HIDE DEF s, B
    <3> QED BY <3>1, <3>2, <3>3 DEF Uses, Defs, B
  <2> QED BY <2>4
<1>6. s \in [Nat -> SUBSET B]
  BY DEF Holding
<1>7. N \in Nat /\ IsFiniteSet(B)
  BY BlocksFinite
<1>8. Holding(LeastIn(p, block, edges, dead), block, n) = s[N]
  BY <1>1, <1>7 DEF InRounds
<1> HIDE DEF s, gen, kill
<1>9. Rounds(s, gen, kill, edges)
  BY <1>4, <1>5 DEF Rounds
<1>10. s[N + 1] = s[N]
  <2> HIDE DEF B
  <2> QED BY <1>6, <1>7, <1>9, RoundsEnd DEF N
<1>11. ClosedBefore(s[N], gen, kill, edges)
  BY <1>5, <1>7, <1>10 DEF ClosedBefore
<1>12. \A C : ClosedBefore(C, gen, kill, edges) => s[N] \subseteq C
  BY <1>7, <1>9, RoundsLeast
<1> QED BY <1>8, <1>11, <1>12 DEF gen, kill

\* What LeastIn holds are ids live at the start of blocks.
LEMMA LeastInType ==
  ASSUME NEW p, WellFormed(p), NEW block, Partition(p, block), NEW dead,
         NEW edges, \A e \in edges : e = <<e[1], e[2]>> /\ e[1] \in BlocksOf(block)
  PROVE  \A q \in LeastIn(p, block, edges, dead) : q = <<q[1], q[2]>> /\ q[1] \in BlocksOf(block)
<1>0. PICK X : \E f \in [Nat -> SUBSET (BlocksOf(block) \X X)] : InRounds(f, p, block, edges, dead)
  BY LeastInRounds
<1>1. PICK f \in [Nat -> SUBSET (BlocksOf(block) \X X)] : InRounds(f, p, block, edges, dead)
  BY <1>0
<1>2. Cardinality(BlocksOf(block)) \in Nat
  BY BlocksFinite
<1> QED BY <1>1, <1>2 DEF InRounds

\* out holds after every block what is live at the start of its children.
Solution(p, block, edges, dead, out) ==
  \A e \in edges : LiveIn(p, block, dead, e[2], out[e[2]])[e[2]] \subseteq out[e[1]]

\* LeastOut is a solution.
LEMMA LeastOutSolution ==
  ASSUME NEW p, WellFormed(p), NEW block, Partition(p, block), NEW dead,
         NEW edges, edges = Edges(p, block)
  PROVE  Solution(p, block, edges, dead, LeastOut(p, block, edges, dead))
<1> DEFINE B == BlocksOf(block)
           in == LeastIn(p, block, edges, dead)
           out == LeastOut(p, block, edges, dead)
<1>1. \A e \in edges : e = <<e[1], e[2]>> /\ e[1] \in B /\ e[2] \in B
  BY EdgesType DEF BlocksOf
<1>2. \A b \in B : \A n : n \in out[b] <=> \E e \in edges : e[1] = b /\ <<e[2], n>> \in in
  <2>1. \A q \in in : q = <<q[1], q[2]>>
    BY <1>1, LeastInType
  <2>2. \A b \in B : out[b] = {q[2] : q \in {r \in in : r[1] \in Children(edges, b)}}
    BY DEF LeastOut, BlocksOf
  <2> HIDE DEF in, out, B
  <2>3. ASSUME NEW b \in B, NEW n, n \in out[b] PROVE \E e \in edges : e[1] = b /\ <<e[2], n>> \in in
    <3>1. PICK q \in in : q[1] \in Children(edges, b) /\ n = q[2]
      BY <2>2, <2>3
    <3>2. PICK e \in edges : e[1] = b /\ e[2] = q[1]
      BY <3>1 DEF Children
    <3> QED BY <2>1, <3>1, <3>2
  <2>4. ASSUME NEW b \in B, NEW n, NEW e \in edges, e[1] = b, <<e[2], n>> \in in PROVE n \in out[b]
    <3>1. e[2] \in Children(edges, b)
      BY <2>4 DEF Children
    <3>2. <<e[2], n>> \in {r \in in : r[1] \in Children(edges, b)}
      BY <2>4, <3>1
    <3>3. <<e[2], n>>[2] = n
      OBVIOUS
    <3> QED BY <2>2, <3>2, <3>3
  <2> QED BY <2>3, <2>4
<1> HIDE DEF out
<1>3. ASSUME NEW b \in B, NEW n, n \in LiveIn(p, block, dead, b, out[b])[b]
      PROVE  <<b, n>> \in in
  <2>1. LiveIn(p, block, dead, b, out[b])[b]
          = use_set(p, block, dead, b) \cup (out[b] \ def_set(p, block, dead, b))
    <3>1. BlockOf(p, block, b)
      BY BlocksFinite
    <3> QED BY <3>1, UseAndDef
  <2> DEFINE I == Holding(in, block, n)
  <2>2. ClosedBefore(I, Uses(p, block, dead, n), Defs(p, block, dead, n), edges)
    BY <1>1, LeastInLeast
  <2>3. b \in I
    <3>1. CASE n \in use_set(p, block, dead, b)
      <4>1. b \in Uses(p, block, dead, n)
        BY <3>1 DEF Uses
      <4> HIDE DEF I
      <4> QED BY <2>2, <4>1 DEF ClosedBefore
    <3>2. CASE n \in out[b] /\ n \notin def_set(p, block, dead, b)
      <4>1. PICK e \in edges : e[1] = b /\ <<e[2], n>> \in in
        BY <1>2, <3>2
      <4>2. e[2] \in I
        BY <1>1, <4>1 DEF Holding
      <4>3. b \in Before(edges, I)
        BY <4>1, <4>2 DEF Before
      <4>4. b \notin Defs(p, block, dead, n)
        BY <3>2 DEF Defs
      <4> HIDE DEF I
      <4> QED BY <2>2, <4>3, <4>4 DEF ClosedBefore
    <3> QED BY <1>3, <2>1, <3>1, <3>2
  <2> QED BY <2>3 DEF Holding
<1> HIDE DEF in, B
<1>4. ASSUME NEW e \in edges, NEW n, n \in LiveIn(p, block, dead, e[2], out[e[2]])[e[2]]
      PROVE  n \in out[e[1]]
  <2>1. <<e[2], n>> \in in
    BY <1>1, <1>3, <1>4
  <2> QED BY <1>1, <1>2, <2>1
<1> QED BY <1>4 DEF Solution, out

\* LeastOut is within every solution.
LEMMA LeastOutLeast ==
  ASSUME NEW p, WellFormed(p), NEW block, Partition(p, block), NEW dead,
         NEW edges, edges = Edges(p, block),
         NEW sol, Solution(p, block, edges, dead, sol)
  PROVE  \A b \in BlocksOf(block) : LeastOut(p, block, edges, dead)[b] \subseteq sol[b]
<1> DEFINE B == BlocksOf(block)
           in == LeastIn(p, block, edges, dead)
           out == LeastOut(p, block, edges, dead)
<1>1. \A e \in edges : e = <<e[1], e[2]>> /\ e[1] \in B /\ e[2] \in B
  BY EdgesType DEF BlocksOf
<1> SUFFICES ASSUME NEW b \in B, NEW n \in out[b] PROVE n \in sol[b]
  OBVIOUS
<1> DEFINE I == Holding(in, block, n)
           C == {c \in B : n \in LiveIn(p, block, dead, c, sol[c])[c]}
<1>2. \A c \in B : LiveIn(p, block, dead, c, sol[c])[c]
                     = use_set(p, block, dead, c) \cup (sol[c] \ def_set(p, block, dead, c))
  <2> TAKE c \in B
  <2>1. BlockOf(p, block, c)
    BY BlocksFinite
  <2> QED BY <2>1, UseAndDef
<1>3. Uses(p, block, dead, n) \subseteq C
  BY <1>2 DEF Uses
<1>4. ASSUME NEW c \in Before(edges, C), c \notin Defs(p, block, dead, n) PROVE c \in C
  <2>1. PICK e \in edges : c = e[1] /\ e[2] \in C
    BY DEF Before
  <2>2. c \in B /\ n \in sol[c]
    BY <1>1, <2>1 DEF Solution
  <2>3. n \notin def_set(p, block, dead, c)
    BY <1>4, <2>2 DEF Defs
  <2> QED BY <1>2, <2>2, <2>3
<1>5. I \subseteq C
  <2>1. ClosedBefore(C, Uses(p, block, dead, n), Defs(p, block, dead, n), edges)
    <3> HIDE DEF C
    <3> QED BY <1>3, <1>4 DEF ClosedBefore
  <2> HIDE DEF C
  <2> QED BY <1>1, <2>1, LeastInLeast
<1>6. PICK q \in in : q[1] \in Children(edges, b) /\ n = q[2]
  BY DEF LeastOut, BlocksOf
<1>7. q = <<q[1], n>> /\ q[1] \in B
  BY <1>1, <1>6, LeastInType
<1>8. q[1] \in C
  BY <1>5, <1>6, <1>7 DEF Holding
<1>9. PICK e \in edges : e[1] = b /\ e[2] = q[1]
  BY <1>6 DEF Children
<1> QED BY <1>8, <1>9 DEF Solution

-----------------------------------------------------------------------------
(***************************************************************************)
(* Liveness from instruction to instruction.                               *)
(***************************************************************************)
LiveBefore(p, block, dead, out, i) == LiveIn(p, block, dead, block[i], out[block[i]])[i]
LiveAfter(p, block, dead, out, i) == LiveIn(p, block, dead, block[i], out[block[i]])[i + 1]

\* What is live before an instruction, from what is live after it.
LEMMA LiveStep ==
  ASSUME NEW p, WellFormed(p), NEW block, Partition(p, block), NEW dead, NEW out,
         NEW i \in DOMAIN p
  PROVE  LiveBefore(p, block, dead, out, i)
           = IF Skipped(p, dead, i) THEN LiveAfter(p, block, dead, out, i)
             ELSE (LiveAfter(p, block, dead, out, i) \ lhs_set(p[i])) \cup rhs_set(p[i])
<1> DEFINE b == block[i]
           last == last_instruction(block, b)
<1>1. BlockOf(p, block, b)
  BY DEF BlockOf
<1>2. LiveWalk(p, dead, b, last, LiveIn(p, block, dead, b, out[b]), out[b])
  BY <1>1, LiveInIs
<1>3. i \in b .. last
  <2>1. b <= i /\ i <= last /\ b \in Nat /\ last \in Nat
    BY BlockIsInterval
  <2>2. i \in Int
    BY DEF WellFormed
  <2> HIDE DEF b, last
  <2> QED BY <2>1, <2>2
<1> QED BY <1>2, <1>3 DEF LiveWalk, LiveBefore, LiveAfter

\* What is live where control goes was live after the instruction it left.
LEMMA LiveFlow ==
  ASSUME NEW p, WellFormed(p), NEW block, Partition(p, block), NEW dead, NEW out,
         Solution(p, block, Edges(p, block), dead, out),
         NEW i \in DOMAIN p, NEW j \in DOMAIN p, j \in Successors(p, i)
  PROVE  LiveBefore(p, block, dead, out, j) \subseteq LiveAfter(p, block, dead, out, i)
<1>1. CASE j = i + 1 /\ block[j] = block[i]
  BY <1>1 DEF LiveBefore, LiveAfter
<1>2. CASE /\ i = last_instruction(block, block[i])
           /\ block[j] = j
           /\ <<block[i], j>> \in Edges(p, block)
  <2>1. LiveIn(p, block, dead, j, out[j])[j] \subseteq out[block[i]]
    BY <1>2 DEF Solution
  <2>2. BlockOf(p, block, block[i])
    BY DEF BlockOf
  <2>3. LiveWalk(p, dead, block[i], last_instruction(block, block[i]),
                 LiveIn(p, block, dead, block[i], out[block[i]]), out[block[i]])
    BY <2>2, LiveInIs
  <2>4. LiveIn(p, block, dead, block[i], out[block[i]])[last_instruction(block, block[i]) + 1]
          = out[block[i]]
    BY <2>3 DEF LiveWalk
  <2> QED BY <1>2, <2>1, <2>4 DEF LiveBefore, LiveAfter
<1> QED BY <1>1, <1>2, ControlFollowsGraph

\* Writes of what is not live after them can be taken for dead: what was a
\* solution is one still, and nothing becomes live.
LEMMA DeadWritesShrink ==
  ASSUME NEW p, WellFormed(p), NEW block, Partition(p, block), NEW out,
         NEW dead, NEW more, dead \subseteq more,
         Solution(p, block, Edges(p, block), dead, out),
         \A i \in (more \ dead) \cap DOMAIN p :
           \/ NullAssignment(p[i])
           \/ lhs_set(p[i]) \cap LiveAfter(p, block, dead, out, i) = {}
  PROVE  /\ Solution(p, block, Edges(p, block), more, out)
         /\ \A i \in DOMAIN p : LiveAfter(p, block, more, out, i)
                                  \subseteq LiveAfter(p, block, dead, out, i)
<1>1. ASSUME NEW b, BlockOf(p, block, b)
      PROVE  \A i \in b .. last_instruction(block, b) + 1 :
               LiveIn(p, block, more, b, out[b])[i] \subseteq LiveIn(p, block, dead, b, out[b])[i]
  <2>1. ASSUME NEW i \in Walked(block, b), i \in more \ dead
        PROVE  \/ NullAssignment(p[i])
               \/ lhs_set(p[i]) \cap LiveIn(p, block, dead, b, out[b])[i + 1] = {}
    <3>1. i \in DOMAIN p /\ block[i] = b
      BY DEF Walked, Partition
    <3> QED BY <2>1, <3>1 DEF LiveAfter
  <2> QED BY <1>1, <2>1, LiveInShrinks
<1>2. ASSUME NEW e \in Edges(p, block)
      PROVE  LiveIn(p, block, more, e[2], out[e[2]])[e[2]] \subseteq out[e[1]]
  <2>1. BlockOf(p, block, e[2])
    BY EdgesType DEF BlockOf, Partition
  <2>2. e[2] \in e[2] .. last_instruction(block, e[2]) + 1
    <3>1. e[2] \in Nat /\ last_instruction(block, e[2]) \in Nat /\ e[2] <= last_instruction(block, e[2])
      BY <2>1, LiveInIs
    <3> QED BY <3>1
  <2> QED BY <1>1, <2>1, <2>2 DEF Solution
<1>3. ASSUME NEW i \in DOMAIN p
      PROVE  LiveAfter(p, block, more, out, i) \subseteq LiveAfter(p, block, dead, out, i)
  <2>1. BlockOf(p, block, block[i])
    BY DEF BlockOf
  <2>2. i + 1 \in block[i] .. last_instruction(block, block[i]) + 1
    <3>1. block[i] <= i /\ i <= last_instruction(block, block[i])
          /\ block[i] \in Nat /\ last_instruction(block, block[i]) \in Nat
      BY BlockIsInterval
    <3>2. i \in Nat
      BY DEF WellFormed
    <3> QED BY <3>1, <3>2
  <2> QED BY <1>1, <2>1, <2>2 DEF LiveAfter
<1> QED BY <1>2, <1>3 DEF Solution

\* An analysis that is made again finds no more live than the last one.
LEMMA LeastOutShrinks ==
  ASSUME NEW p, WellFormed(p), NEW block, Partition(p, block), NEW dead, NEW out,
         Solution(p, block, Edges(p, block), dead, out),
         NEW i \in DOMAIN p
  PROVE  LiveAfter(p, block, dead, LeastOut(p, block, Edges(p, block), dead), i)
           \subseteq LiveAfter(p, block, dead, out, i)
<1> DEFINE least == LeastOut(p, block, Edges(p, block), dead)
           b == block[i]
<1>1. BlockOf(p, block, b) /\ b \in BlocksOf(block)
  BY DEF BlockOf, BlocksOf, Partition
<1>2. least[b] \subseteq out[b]
  BY <1>1, LeastOutLeast
<1>3. i + 1 \in b .. last_instruction(block, b) + 1
  <2>1. b <= i /\ i <= last_instruction(block, b)
        /\ b \in Nat /\ last_instruction(block, b) \in Nat
    BY BlockIsInterval
  <2>2. i \in Nat
    BY DEF WellFormed
  <2> HIDE DEF b
  <2> QED BY <2>1, <2>2
<1> HIDE DEF least, b
<1>4. LiveIn(p, block, dead, b, least[b])[i + 1] \subseteq LiveIn(p, block, dead, b, out[b])[i + 1]
  BY <1>1, <1>2, <1>3, LiveInShrinks
<1> QED BY <1>4 DEF LiveAfter, least, b

-----------------------------------------------------------------------------
(***************************************************************************)
(* The list of blocks the passes walk.                                     *)
(***************************************************************************)

\* The codes and blocks CreationOrder sorts, and the first code of each block.
FoundBlocks(p) ==
  {<<2 * b, b>> : b \in {j \in DOMAIN p : p[j].op \in {"Enter", "Call"}}}
    \cup {<<2 * i, p[i].jump_to>> : i \in {j \in DOMAIN p : p[j].op \in Jumps}}
    \cup {<<2 * i + 1, i + 1>> : i \in {j \in DOMAIN p : p[j].op \in Jumps}}
FirstFound(p) ==
  {e \in FoundBlocks(p) : \A o \in FoundBlocks(p) : o[2] = e[2] => e[1] <= o[1]}
Rank(p, e) == Cardinality({o \in FirstFound(p) : o[1] < e[1]})

LEMMA FoundType ==
  ASSUME NEW p, WellFormed(p)
  PROVE  /\ \A e \in FoundBlocks(p) : e = <<e[1], e[2]>> /\ e[1] \in Nat /\ e[2] \in Nat
         /\ \A e, o \in FoundBlocks(p) : e[1] = o[1] => e = o
         /\ IsFiniteSet(FirstFound(p)) /\ Cardinality(FirstFound(p)) \in Nat
<1> DEFINE n == Len(p)
           F == FoundBlocks(p)
<1>1. /\ n \in Nat /\ DOMAIN p = 1 .. n
      /\ \A i \in DOMAIN p : p[i].op \in Jumps => p[i].jump_to \in DOMAIN p
  BY DEF WellFormed
<1>2. ASSUME NEW e \in F
      PROVE  \/ \E b \in 1 .. n : p[b].op \in {"Enter", "Call"} /\ e = <<2 * b, b>>
             \/ \E i \in 1 .. n : p[i].op \in Jumps /\ e = <<2 * i, p[i].jump_to>>
             \/ \E i \in 1 .. n : p[i].op \in Jumps /\ e = <<2 * i + 1, i + 1>>
  BY <1>1 DEF FoundBlocks
<1> HIDE DEF F, n
<1>3. ASSUME NEW e \in F
      PROVE  e = <<e[1], e[2]>> /\ e[1] \in 0 .. 2 * n + 1 /\ e[2] \in 0 .. n + 1
             /\ e[1] \in Nat /\ e[2] \in Nat
  <2>1. CASE \E b \in 1 .. n : p[b].op \in {"Enter", "Call"} /\ e = <<2 * b, b>>
    BY <1>1, <2>1
  <2>2. CASE \E i \in 1 .. n : p[i].op \in Jumps /\ e = <<2 * i, p[i].jump_to>>
    BY <1>1, <2>2
  <2>3. CASE \E i \in 1 .. n : p[i].op \in Jumps /\ e = <<2 * i + 1, i + 1>>
    BY <1>1, <2>3
  <2> QED BY <1>2, <2>1, <2>2, <2>3
<1>4. ASSUME NEW e \in F, NEW o \in F, e[1] = o[1] PROVE e = o
  <2>1. \A i, j \in Int : 2 * i # 2 * j + 1 /\ (2 * i = 2 * j => i = j)
                          /\ (2 * i + 1 = 2 * j + 1 => i = j)
    OBVIOUS
  <2>2. ASSUME NEW x, x \in {"Enter", "Call"} PROVE x \notin Jumps
    BY <2>2 DEF Jumps
  <2>3. CASE \E b \in 1 .. n : p[b].op \in {"Enter", "Call"} /\ e = <<2 * b, b>>
    BY <1>1, <1>2, <1>4, <2>1, <2>2, <2>3
  <2>4. CASE \E i \in 1 .. n : p[i].op \in Jumps /\ e = <<2 * i, p[i].jump_to>>
    BY <1>1, <1>2, <1>4, <2>1, <2>2, <2>4
  <2>5. CASE \E i \in 1 .. n : p[i].op \in Jumps /\ e = <<2 * i + 1, i + 1>>
    BY <1>1, <1>2, <1>4, <2>1, <2>2, <2>5
  <2> QED BY <1>2, <2>3, <2>4, <2>5
<1>5. IsFiniteSet(FirstFound(p))
  <2>1. FirstFound(p) \in SUBSET ((0 .. 2 * n + 1) \X (0 .. n + 1))
    BY <1>3 DEF FirstFound, F
  <2>2. IsFiniteSet(0 .. 2 * n + 1) /\ IsFiniteSet(0 .. n + 1)
    BY <1>1, FS_Interval
  <2>3. IsFiniteSet((0 .. 2 * n + 1) \X (0 .. n + 1))
    BY <2>2, FS_Product
  <2> QED BY <2>1, <2>3, FS_Subset
<1> QED BY <1>3, <1>4, <1>5, FS_CardinalityType DEF F

\* The rank of an element is its place, less one, and no other element's.
LEMMA RankUnique ==
  ASSUME NEW p, WellFormed(p), NEW e \in FirstFound(p)
  PROVE  /\ Rank(p, e) \in Nat /\ Rank(p, e) < Cardinality(FirstFound(p))
         /\ \A o \in FirstFound(p) : Rank(p, o) = Rank(p, e) => o = e
<1> DEFINE S == FirstFound(p)
           below(x) == {o \in S : o[1] < x[1]}
<1>1. /\ IsFiniteSet(S) /\ Cardinality(S) \in Nat
      /\ \A x \in S : x[1] \in Nat
      /\ \A x, y \in S : x[1] = y[1] => x = y
  BY FoundType DEF FirstFound
<1> HIDE DEF S
<1>2. ASSUME NEW x \in S PROVE Cardinality(below(x)) \in Nat /\ IsFiniteSet(below(x))
  <2>1. below(x) \in SUBSET S
    OBVIOUS
  <2> QED BY <2>1, <1>1, FS_Subset, FS_CardinalityType
<1>3. ASSUME NEW x \in S, NEW T \in SUBSET S, IsFiniteSet(T), Cardinality(T) \in Nat,
             x \in T, \A o \in S : o[1] < x[1] => o \in T
      PROVE  Cardinality(below(x)) < Cardinality(T)
  <2>1. below(x) \in SUBSET T
    BY <1>3
  <2>2. x \notin below(x)
    BY <1>1
  <2>3. below(x) # T
    BY <1>3, <2>2
  <2> HIDE DEF below
  <2>4. Cardinality(below(x)) <= Cardinality(T)
        /\ (Cardinality(T) = Cardinality(below(x)) => T = below(x))
    BY <1>3, <2>1, FS_Subset
  <2> QED BY <1>2, <1>3, <2>3, <2>4
<1>4. e \in S
  BY DEF S
<1>5. Cardinality(below(e)) < Cardinality(S)
  <2>1. S \in SUBSET S
    OBVIOUS
  <2> HIDE DEF below
  <2> QED BY <1>1, <1>3, <1>4, <2>1
<1>6. ASSUME NEW x \in S, NEW y \in S, x[1] < y[1]
      PROVE  Cardinality(below(x)) < Cardinality(below(y))
  <2>1. below(y) \in SUBSET S /\ x \in below(y) /\ \A o \in S : o[1] < x[1] => o \in below(y)
    BY <1>1, <1>6
  <2> HIDE DEF below
  <2> QED BY <1>2, <1>3, <2>1
<1>7. ASSUME NEW o \in S, Cardinality(below(o)) = Cardinality(below(e)) PROVE o = e
  <2>1. o[1] \in Nat /\ e[1] \in Nat
    BY <1>1, <1>4
  <2> HIDE DEF below
  <2>2. ~(o[1] < e[1]) /\ ~(e[1] < o[1])
    BY <1>2, <1>4, <1>6, <1>7
  <2> QED BY <1>1, <1>4, <2>1, <2>2
<1>8. \A o \in S : Rank(p, o) = Cardinality(below(o))
  BY DEF Rank, S
<1> HIDE DEF below
<1> QED BY <1>2, <1>4, <1>5, <1>7, <1>8 DEF S

\* Every block is in the list.
LEMMA EveryBlockCreated ==
  ASSUME NEW p, WellFormed(p), NEW b \in Leaders(p)
  PROVE  \E k \in 1 .. Cardinality(FirstFound(p)) : CreationOrder(p)[k] = b
<1>1. \E e \in FoundBlocks(p) : e[2] = b
  <2>1. CASE \E i \in DOMAIN p : p[i].op \in {"Enter", "Call"} /\ b = i
    <3>1. <<2 * b, b>> \in FoundBlocks(p)
      BY <2>1 DEF FoundBlocks
    <3> QED BY <3>1
  <2>2. CASE \E i \in DOMAIN p : p[i].op \in Jumps /\ b = p[i].jump_to
    <3>1. PICK i \in DOMAIN p : p[i].op \in Jumps /\ b = p[i].jump_to
      BY <2>2
    <3>2. <<2 * i, b>> \in FoundBlocks(p)
      BY <3>1 DEF FoundBlocks
    <3> QED BY <3>2
  <2>3. CASE b \in DOMAIN p /\ b > 1 /\ p[b - 1].op \in Jumps
    <3>1. b - 1 \in DOMAIN p /\ (b - 1) + 1 = b
      BY <2>3 DEF WellFormed
    <3>2. <<2 * (b - 1) + 1, (b - 1) + 1>> \in FoundBlocks(p)
      BY <2>3, <3>1 DEF FoundBlocks
    <3> QED BY <3>1, <3>2
  <2> QED BY <2>1, <2>2, <2>3 DEF Leaders
<1>2. PICK e \in FirstFound(p) : e[2] = b
  <2> DEFINE T == {e[1] : e \in {o \in FoundBlocks(p) : o[2] = b}}
  <2>1. T \in SUBSET Nat /\ T # {}
    BY <1>1, FoundType
  <2>2. PICK c \in T : \A d \in T : c <= d
    <3> HIDE DEF T
    <3> QED BY <2>1, LeastNatural
  <2>3. PICK e \in FoundBlocks(p) : e[2] = b /\ e[1] = c
    BY <2>2
  <2>4. \A o \in FoundBlocks(p) : o[2] = e[2] => e[1] <= o[1]
    BY <2>2, <2>3
  <2> QED BY <2>3, <2>4 DEF FirstFound
<1> DEFINE k == Rank(p, e) + 1
           chosen == CHOOSE o \in FirstFound(p) : Rank(p, o) = k - 1
<1>3. k \in 1 .. Cardinality(FirstFound(p)) /\ k - 1 = Rank(p, e)
  BY RankUnique, FoundType
<1>4. chosen = e
  BY <1>3, RankUnique
<1>5. CreationOrder(p)
        = [l \in 1 .. Cardinality(FirstFound(p)) |->
             (CHOOSE o \in FirstFound(p) : Rank(p, o) = l - 1)[2]]
  BY DEF CreationOrder, FirstFound, FoundBlocks, Rank
<1>6. CreationOrder(p)[k] = chosen[2]
  BY <1>3, <1>5
<1> QED BY <1>2, <1>3, <1>4, <1>6

\* The list the passes walk, from the block created last.
WalksAll(p, created_blocks) ==
  /\ Len(created_blocks) \in Nat \ {0}
  /\ DOMAIN created_blocks = 1 .. Len(created_blocks)
  /\ \A b \in Leaders(p) : \E k \in DOMAIN created_blocks : created_blocks[k] = b

LEMMA CreatedWalk ==
  ASSUME NEW p, WellFormed(p)
  PROVE  WalksAll(p, Reverse(CreationOrder(p)))
<1> DEFINE N == Cardinality(FirstFound(p))
           order == CreationOrder(p)
<1>1. N \in Nat
  BY FoundType
<1>2. order = [l \in 1 .. N |-> (CHOOSE o \in FirstFound(p) : Rank(p, o) = l - 1)[2]]
  BY DEF CreationOrder, FirstFound, FoundBlocks, Rank
<1>3. \A b \in Leaders(p) : \E k \in 1 .. N : order[k] = b
  BY EveryBlockCreated
<1> HIDE DEF order, N
<1>4. Len(order) = N
  BY <1>1, <1>2
<1>5. Reverse(order) = [i \in 1 .. N |-> order[(N - i) + 1]]
  BY <1>4 DEF Reverse
<1>6. Len(Reverse(order)) = N /\ DOMAIN Reverse(order) = 1 .. N
  BY <1>1, <1>5
<1>7. ASSUME NEW b \in Leaders(p)
      PROVE  \E k \in 1 .. N : Reverse(order)[k] = b
  <2>1. PICK k \in 1 .. N : order[k] = b
    BY <1>3
  <2>2. (N - k) + 1 \in 1 .. N /\ (N - ((N - k) + 1)) + 1 = k
    BY <1>1
  <2> QED BY <1>5, <2>1, <2>2
<1>8. N # 0
  <2>1. 1 \in Leaders(p)
    BY LeadersType
  <2> QED BY <1>3, <2>1
<1> QED BY <1>1, <1>6, <1>7, <1>8 DEF WalksAll, order

-----------------------------------------------------------------------------
(***************************************************************************)
(* Liveness as paths of instructions.                                      *)
(***************************************************************************)

\* The edges between instructions, and the instructions that read and write
\* id n.
Steps(p, block, edges) ==
  {e \in (DOMAIN p) \X (DOMAIN p) : e[2] \in GraphSuccessors(block, edges, e[1])}
Reads(p, dead, n) == {i \in DOMAIN p \ dead : n \in rhs_set(p[i])}
Kills(p, dead, n) == {i \in DOMAIN p \ dead : n \in lhs_set(p[i])}

LEMMA StepsAre ==
  ASSUME NEW p, NEW block, NEW edges
  PROVE  /\ \A j, i : <<j, i>> \in Steps(p, block, edges)
                       <=> /\ j \in DOMAIN p /\ i \in DOMAIN p
                           /\ i \in GraphSuccessors(block, edges, j)
         /\ \A e \in Steps(p, block, edges) : <<e[1], e[2]>> \in Steps(p, block, edges)
<1>1. ASSUME NEW j, NEW i
      PROVE  <<j, i>> \in Steps(p, block, edges)
               <=> j \in DOMAIN p /\ i \in DOMAIN p /\ i \in GraphSuccessors(block, edges, j)
  <2> DEFINE e == <<j, i>>
  <2>1. e \in (DOMAIN p) \X (DOMAIN p) <=> j \in DOMAIN p /\ i \in DOMAIN p
    OBVIOUS
  <2>2. e[1] = j /\ e[2] = i
    OBVIOUS
  <2>3. e \in Steps(p, block, edges)
          <=> e \in (DOMAIN p) \X (DOMAIN p) /\ e[2] \in GraphSuccessors(block, edges, e[1])
    <3> HIDE DEF e
    <3> QED BY DEF Steps
  <2> HIDE DEF e
  <2>4. e \in Steps(p, block, edges)
          <=> j \in DOMAIN p /\ i \in DOMAIN p /\ i \in GraphSuccessors(block, edges, j)
    BY <2>1, <2>2, <2>3
  <2> QED BY <2>4 DEF e
<1>2. ASSUME NEW e \in Steps(p, block, edges) PROVE <<e[1], e[2]>> \in Steps(p, block, edges)
  <2>1. e \in (DOMAIN p) \X (DOMAIN p)
    BY DEF Steps
  <2>2. e = <<e[1], e[2]>>
    BY <2>1
  <2> QED BY <2>2
<1> QED BY <1>1, <1>2

LEMMA LengthIsCardinality ==
  ASSUME NEW p, WellFormed(p)
  PROVE  IsFiniteSet(DOMAIN p) /\ Cardinality(DOMAIN p) = Len(p) /\ Len(p) \in Nat
<1>1. Len(p) \in Nat /\ DOMAIN p = 1 .. Len(p)
  BY DEF WellFormed
<1>2. IsFiniteSet(1 .. Len(p)) /\ Cardinality(1 .. Len(p)) = Len(p)
  <2>1. Cardinality(1 .. Len(p)) = IF 1 > Len(p) THEN 0 ELSE Len(p) - 1 + 1
    BY <1>1, FS_Interval
  <2>2. IsFiniteSet(1 .. Len(p))
    BY <1>1, FS_Interval
  <2> QED BY <1>1, <2>1, <2>2
<1> QED BY <1>1, <1>2

\* The rounds of Reaching are those of an iteration.
LEMMA ReachingRounds ==
  ASSUME NEW p, WellFormed(p), NEW block, NEW edges, NEW gen \in SUBSET (DOMAIN p), NEW kill
  PROVE  \E f \in [Nat -> SUBSET (DOMAIN p)] :
           /\ Rounds(f, gen, kill, Steps(p, block, edges))
           /\ Reaching(p, block, edges, gen, kill) = f[Len(p)]
<1> DEFINE D == DOMAIN p
           S == SUBSET D
           before(i) == {j \in DOMAIN p : i \in GraphSuccessors(block, edges, j)}
           Step(s) == gen \cup ((UNION {before(i) : i \in s}) \ kill)
           F == [s \in S |-> Step(s)]
           Walk(f) == [k \in Nat |-> IF k = 0 THEN gen ELSE Step(f[k - 1])]
<1>1. gen \in S
  OBVIOUS
<1>2. ASSUME NEW s \in S PROVE Step(s) \in S
  BY <1>1
<1>3. PICK f \in [Nat -> S] : f[0] = gen /\ \A k \in Nat : f[k + 1] = F[f[k]]
  <2>1. F \in [S -> S]
    BY <1>2
  <2> HIDE DEF F, S
  <2> QED BY <1>1, <2>1, Iteration DEF Iterable
<1>4. f = Walk(f)
  <2>1. \A k \in Nat : f[k + 1] = Step(f[k])
    BY <1>3
  <2>2. ASSUME NEW k \in Nat, k # 0 PROVE f[k] = Step(f[k - 1])
    <3>1. k - 1 \in Nat /\ (k - 1) + 1 = k
      BY <2>2
    <3> HIDE DEF Step
    <3> QED BY <2>1, <3>1
  <2>3. f = [k \in Nat |-> f[k]]
    BY <1>3
  <2> HIDE DEF Step, S
  <2> QED BY <1>3, <2>2, <2>3
<1> DEFINE g == CHOOSE h : h = Walk(h)
<1>5. Reaching(p, block, edges, gen, kill) = g[Len(p)]
  BY DEF Reaching
<1>6. g = Walk(g)
  <2> HIDE DEF Walk
  <2> QED BY <1>4
<1> HIDE DEF g
<1>7. g[0] = gen
  BY <1>6
<1>8. ASSUME NEW k \in Nat PROVE g[k + 1] = Step(g[k])
  <2>1. k + 1 \in Nat /\ k + 1 # 0 /\ (k + 1) - 1 = k
    OBVIOUS
  <2> HIDE DEF Step
  <2> QED BY <1>6, <2>1
<1>9. g \in [Nat -> S]
  <2> DEFINE T == {k \in Nat : g[k] \in S}
  <2>1. 0 \in T
    BY <1>1, <1>7
  <2>2. ASSUME NEW k \in Nat, k \in T PROVE k + 1 \in T
    <3>1. g[k] \in S /\ k + 1 \in Nat
      BY <2>2
    <3> HIDE DEF Step, S
    <3> QED BY <1>2, <1>8, <3>1
  <2>3. \A k \in Nat : k \in T
    <3> HIDE DEF T
    <3> QED BY <2>1, <2>2, SetInduction
  <2>4. g = [k \in Nat |-> g[k]]
    <3> HIDE DEF Step
    <3> QED BY <1>6
  <2> HIDE DEF S
  <2> QED BY <2>3, <2>4
<1>10. ASSUME NEW s \in S
       PROVE  Step(s) = gen \cup (Before(Steps(p, block, edges), s) \ kill)
  <2>1. UNION {before(i) : i \in s} = Before(Steps(p, block, edges), s)
    <3>1. ASSUME NEW j PROVE j \in UNION {before(i) : i \in s} <=> j \in Before(Steps(p, block, edges), s)
      <4>1. ASSUME NEW i \in s, j \in before(i) PROVE j \in Before(Steps(p, block, edges), s)
        <5>1. <<j, i>> \in {d \in Steps(p, block, edges) : d[2] \in s}
          BY <4>1, StepsAre
        <5> QED BY <5>1 DEF Before
      <4>2. ASSUME j \in Before(Steps(p, block, edges), s) PROVE \E i \in s : j \in before(i)
        <5>1. PICK e \in Steps(p, block, edges) : e[2] \in s /\ j = e[1]
          BY <4>2 DEF Before
        <5>2. <<j, e[2]>> \in Steps(p, block, edges)
          BY <5>1, StepsAre
        <5>3. j \in before(e[2])
          BY <5>2, StepsAre
        <5> QED BY <5>1, <5>3
      <4> QED BY <4>1, <4>2
    <3> QED BY <3>1
  <2> QED BY <2>1
<1>11. Rounds(g, gen, kill, Steps(p, block, edges))
  <2>1. ASSUME NEW k \in Nat
        PROVE  g[k + 1] = gen \cup (Before(Steps(p, block, edges), g[k]) \ kill)
    <3>1. g[k] \in S
      BY <1>9
    <3> HIDE DEF Step, S
    <3> QED BY <1>8, <1>10, <3>1
  <2> QED BY <1>7, <2>1 DEF Rounds
<1> QED BY <1>5, <1>9, <1>11

\* R holds gen, and what comes to R from outside kill.
ReachClosed(R, p, block, edges, gen, kill) ==
  /\ gen \subseteq R
  /\ \A i \in DOMAIN p \ kill :
       (\E j \in GraphSuccessors(block, edges, i) \cap DOMAIN p : j \in R) => i \in R

\* Reaching is the least such set: its rounds are enough.
LEMMA ReachingLeast ==
  ASSUME NEW p, WellFormed(p), NEW block, NEW edges, NEW gen \in SUBSET (DOMAIN p), NEW kill
  PROVE  /\ Reaching(p, block, edges, gen, kill) \subseteq DOMAIN p
         /\ ReachClosed(Reaching(p, block, edges, gen, kill), p, block, edges, gen, kill)
         /\ \A C : ReachClosed(C, p, block, edges, gen, kill)
                     => Reaching(p, block, edges, gen, kill) \subseteq C
<1> DEFINE E == Steps(p, block, edges)
           R == Reaching(p, block, edges, gen, kill)
<1>1. PICK f \in [Nat -> SUBSET (DOMAIN p)] : Rounds(f, gen, kill, E) /\ R = f[Len(p)]
  BY ReachingRounds
<1>2. /\ IsFiniteSet(DOMAIN p) /\ Cardinality(DOMAIN p) = Len(p) /\ Len(p) \in Nat
  BY LengthIsCardinality
<1> HIDE DEF E, R
<1>3. f[Cardinality(DOMAIN p) + 1] = f[Cardinality(DOMAIN p)]
  BY <1>1, <1>2, RoundsEnd
<1>4. R = gen \cup (Before(E, R) \ kill)
  <2>1. f[Len(p) + 1] = f[Len(p)]
    BY <1>2, <1>3
  <2>2. f[Len(p) + 1] = gen \cup (Before(E, f[Len(p)]) \ kill)
    BY <1>1, <1>2 DEF Rounds
  <2> QED BY <1>1, <2>1, <2>2
<1>5. ASSUME NEW C
      PROVE  ReachClosed(C, p, block, edges, gen, kill) => ClosedBefore(C, gen, kill, E)
  <2> SUFFICES ASSUME ReachClosed(C, p, block, edges, gen, kill), NEW i,
                      i \in gen \cup (Before(E, C) \ kill)
               PROVE  i \in C
    BY DEF ClosedBefore
  <2>1. CASE i \in gen
    BY <2>1 DEF ReachClosed
  <2>2. CASE i \in Before(E, C) \ kill
    <3>1. PICK e \in E : e[2] \in C /\ i = e[1]
      BY <2>2 DEF Before
    <3>2. i \in DOMAIN p /\ e[2] \in GraphSuccessors(block, edges, i) \cap DOMAIN p
      <4>1. <<i, e[2]>> \in E
        BY <3>1, StepsAre DEF E
      <4> QED BY <3>1, <4>1, StepsAre DEF E
    <3> QED BY <2>2, <3>1, <3>2 DEF ReachClosed
  <2> QED BY <2>1, <2>2
<1>6. ReachClosed(R, p, block, edges, gen, kill)
  <2>1. gen \subseteq R
    BY <1>4
  <2>2. ASSUME NEW i \in DOMAIN p \ kill, NEW j \in GraphSuccessors(block, edges, i) \cap DOMAIN p,
               j \in R
        PROVE  i \in R
    <3>1. <<i, j>> \in {d \in E : d[2] \in R}
      BY <2>2, StepsAre DEF E
    <3>2. i \in Before(E, R)
      BY <3>1 DEF Before
    <3> QED BY <1>4, <3>2
  <2> QED BY <2>1, <2>2 DEF ReachClosed
<1>7. R \subseteq DOMAIN p
  BY <1>1, <1>2
<1>8. ASSUME NEW C, ReachClosed(C, p, block, edges, gen, kill) PROVE R \subseteq C
  BY <1>1, <1>2, <1>5, <1>8, RoundsLeast
<1> QED BY <1>6, <1>7, <1>8 DEF R

\* The instructions from which id n is read before it is written: what the
\* sets of ids are exact about.
ReadById(p, block, edges, dead, n) ==
  Reaching(p, block, edges, Reads(p, dead, n), Kills(p, dead, n))

\* R holds what reads id n, and what comes to R without writing it.
ReadClosed(R, p, block, edges, dead, n) ==
  /\ \A i \in DOMAIN p \ dead : n \in rhs_set(p[i]) => i \in R
  /\ \A i \in DOMAIN p : /\ \E j \in GraphSuccessors(block, edges, i) \cap DOMAIN p : j \in R
                         /\ i \in dead \/ n \notin lhs_set(p[i])
                         => i \in R

\* ReadById is the least such set.
LEMMA ReadByIdLeast ==
  ASSUME NEW p, WellFormed(p), NEW block, NEW edges, NEW dead, NEW n
  PROVE  /\ ReadById(p, block, edges, dead, n) \subseteq DOMAIN p
         /\ ReadClosed(ReadById(p, block, edges, dead, n), p, block, edges, dead, n)
         /\ \A C : ReadClosed(C, p, block, edges, dead, n)
                     => ReadById(p, block, edges, dead, n) \subseteq C
<1>1. Reads(p, dead, n) \in SUBSET (DOMAIN p)
  BY DEF Reads
<1>2. \A C : ReadClosed(C, p, block, edges, dead, n)
               <=> ReachClosed(C, p, block, edges, Reads(p, dead, n), Kills(p, dead, n))
  <2>1. \A i \in DOMAIN p : i \notin Kills(p, dead, n) <=> i \in dead \/ n \notin lhs_set(p[i])
    BY DEF Kills
  <2>2. \A C : Reads(p, dead, n) \subseteq C
                 <=> \A i \in DOMAIN p \ dead : n \in rhs_set(p[i]) => i \in C
    BY DEF Reads
  <2> QED BY <2>1, <2>2 DEF ReadClosed, ReachClosed
<1> QED BY <1>1, <1>2, ReachingLeast DEF ReadById

\* A local that is read is read by its id, and the other way round unless
\* the id is that of the parameters and one of them is read.
LEMMA ReadByIdIsRead ==
  ASSUME NEW p, WellFormed(p), AssignsNoFormal(p), NEW block, NEW edges, NEW dead,
         NEW v \in Locals
  PROVE  /\ ReadFrom(p, block, edges, dead, v) \subseteq ReadById(p, block, edges, dead, id(v))
         /\ id(v) # 0 \/ ReadsNoFormal(p)
              => ReadFrom(p, block, edges, dead, v) = ReadById(p, block, edges, dead, id(v))
<1> DEFINE gen == {i \in DOMAIN p \ dead : v \in Operands(p[i]) \cup ({p[i].dest} \cap Addrs)}
           kill == {i \in DOMAIN p \ dead : v \in {p[i].dest} \ Addrs}
           R == Reaching(p, block, edges, Reads(p, dead, id(v)), Kills(p, dead, id(v)))
<1>0. /\ Addrs \subseteq Locals /\ v \in LocalScope /\ v \notin Formals
      /\ \A w \in Locals : id(w) = id(v) => w = v
      /\ \A w \in LocalScope : w \in Locals \/ (w \in Formals /\ id(w) = 0)
  BY VariablesAssumption DEF id, LocalScope
<1>1. kill = Kills(p, dead, id(v))
  <2> SUFFICES ASSUME NEW i \in DOMAIN p
               PROVE  v \in {p[i].dest} \ Addrs <=> id(v) \in lhs_set(p[i])
    BY DEF Kills
  <2>1. p[i].dest \notin Formals
    BY DEF AssignsNoFormal
  <2>2. ASSUME id(v) \in lhs_set(p[i]) PROVE v \in {p[i].dest} \ Addrs
    <3>1. PICK w \in ({p[i].dest} \cap LocalScope) \ Addrs : id(w) = id(v)
      BY <2>2 DEF lhs_set
    <3> QED BY <1>0, <2>1, <3>1
  <2>3. ASSUME v \in {p[i].dest} \ Addrs PROVE id(v) \in lhs_set(p[i])
    BY <1>0, <2>3 DEF lhs_set
  <2> QED BY <2>2, <2>3
<1>2. gen \subseteq Reads(p, dead, id(v))
  <2> SUFFICES ASSUME NEW i \in DOMAIN p, v \in Operands(p[i]) \cup ({p[i].dest} \cap Addrs)
               PROVE  id(v) \in rhs_set(p[i])
    BY DEF Reads
  <2> QED BY <1>0 DEF rhs_set
<1>3. ASSUME id(v) # 0 \/ ReadsNoFormal(p) PROVE gen = Reads(p, dead, id(v))
  <2> SUFFICES ASSUME NEW i \in DOMAIN p, id(v) \in rhs_set(p[i])
               PROVE  v \in Operands(p[i]) \cup ({p[i].dest} \cap Addrs)
    BY <1>2 DEF Reads
  <2>1. PICK w \in ({p[i].dest} \cap Addrs) \cup (Operands(p[i]) \cap LocalScope) : id(w) = id(v)
    BY DEF rhs_set
  <2>2. w \in Locals
    BY <1>0, <1>3, <2>1 DEF ReadsNoFormal
  <2> QED BY <1>0, <2>1, <2>2
<1>4. ReadFrom(p, block, edges, dead, v) = Reaching(p, block, edges, gen, kill)
  BY DEF ReadFrom
<1>5. gen \in SUBSET (DOMAIN p) /\ Reads(p, dead, id(v)) \in SUBSET (DOMAIN p)
  BY DEF Reads
<1> HIDE DEF gen, kill, R
<1>6. Reaching(p, block, edges, gen, kill) \subseteq R
  <2>1. ReachClosed(R, p, block, edges, Reads(p, dead, id(v)), kill)
    BY <1>1, <1>5, ReachingLeast DEF R
  <2>2. ReachClosed(R, p, block, edges, gen, kill)
    BY <1>2, <2>1 DEF ReachClosed
  <2> QED BY <1>5, <2>2, ReachingLeast
<1> QED BY <1>1, <1>3, <1>4, <1>6 DEF R, ReadById

\* Where the graph goes from an instruction of block b.
LEMMA GraphSuccessorsAre ==
  ASSUME NEW p, WellFormed(p), NEW block, Partition(p, block), NEW edges,
         NEW b, BlockOf(p, block, b), NEW i \in b .. last_instruction(block, b)
  PROVE  /\ i \in DOMAIN p /\ block[i] = b
         /\ i = last_instruction(block, b) => GraphSuccessors(block, edges, i) = Children(edges, b)
         /\ i # last_instruction(block, b) => GraphSuccessors(block, edges, i) = {i + 1}
<1> DEFINE last == last_instruction(block, b)
<1>1. /\ b \in Nat /\ last \in Nat /\ b <= last /\ Walked(block, b) = b .. last
  BY LiveInIs
<1> HIDE DEF last
<1>2. i \in DOMAIN block /\ block[i] = b
  BY <1>1 DEF Walked, last
<1>3. i + 1 \in DOMAIN block /\ block[i + 1] = b <=> i # last
  <2>1. i + 1 \in b .. last <=> i # last
    BY <1>1 DEF last
  <2>2. i + 1 \in Walked(block, b) <=> i + 1 \in DOMAIN block /\ block[i + 1] = b
    BY DEF Walked
  <2> QED BY <1>1, <2>1, <2>2
<1> QED BY <1>2, <1>3 DEF GraphSuccessors, Partition, last

\* live is live in block b going backwards: it comes from what is live after
\* an instruction that does not write it, or is read there. L is read from
\* some child of the block.
Backward(live, L, p, dead, b, last) ==
  /\ live[last + 1] \subseteq L
  /\ \A i \in b .. last : \A n \in live[i] :
       \/ n \in live[i + 1] /\ (i \in dead \/ n \notin lhs_set(p[i]))
       \/ i \notin dead /\ n \in rhs_set(p[i])

ReadByChildren(L, p, block, edges, dead, b) ==
  \A n \in L : \E c \in Children(edges, b) : c \in ReadById(p, block, edges, dead, n)

\* What is live going backwards is read on some path.
LEMMA BackwardIsRead ==
  ASSUME NEW p, WellFormed(p), NEW block, Partition(p, block), NEW edges, NEW dead,
         NEW b, BlockOf(p, block, b), NEW L, ReadByChildren(L, p, block, edges, dead, b),
         NEW live, Backward(live, L, p, dead, b, last_instruction(block, b))
  PROVE  \A i \in b .. last_instruction(block, b) :
           /\ \A n \in live[i] : i \in ReadById(p, block, edges, dead, n)
           /\ \A n \in live[i + 1] :
                GraphSuccessors(block, edges, i) \cap ReadById(p, block, edges, dead, n) # {}
<1> DEFINE last == last_instruction(block, b)
           R(n) == ReadById(p, block, edges, dead, n)
           Next(i) == GraphSuccessors(block, edges, i)
           T == {i \in Int : i \in b .. last => \A n \in live[i] : i \in R(n)}
<1>1. b \in Nat /\ last \in Nat /\ b <= last
  BY LiveInIs
<1>2. \A i \in b .. last : /\ i \in DOMAIN p
                           /\ i = last => Next(i) = Children(edges, b)
                           /\ i # last => Next(i) = {i + 1}
  BY GraphSuccessorsAre
<1>3. \A n : R(n) \subseteq DOMAIN p /\ ReadClosed(R(n), p, block, edges, dead, n)
  BY ReadByIdLeast
<1> HIDE DEF last, R, Next
<1>4. ASSUME NEW i \in b .. last, i + 1 \in T, NEW n \in live[i + 1]
      PROVE  \E j \in Next(i) : j \in R(n)
  <2>1. CASE i = last
    <3>1. n \in L
      BY <1>4, <2>1 DEF Backward, last
    <3> QED BY <1>2, <2>1, <3>1 DEF ReadByChildren, R
  <2>2. CASE i # last
    <3>1. i + 1 \in b .. last
      BY <1>1, <2>2
    <3>2. i + 1 \in R(n)
      BY <1>4, <3>1
    <3> QED BY <1>2, <2>2, <3>2
  <2> QED BY <2>1, <2>2
<1>5. ASSUME NEW i \in b .. last, i + 1 \in T
      PROVE  i \in T
  <2> SUFFICES ASSUME NEW n \in live[i] PROVE i \in R(n)
    BY <1>1
  <2>1. CASE n \in live[i + 1] /\ (i \in dead \/ n \notin lhs_set(p[i]))
    <3>1. PICK j \in Next(i) : j \in R(n)
      BY <1>4, <1>5, <2>1
    <3>2. j \in Next(i) \cap DOMAIN p
      BY <1>3, <3>1
    <3> QED BY <1>2, <1>3, <2>1, <3>1, <3>2 DEF ReadClosed, Next
  <2>2. CASE i \notin dead /\ n \in rhs_set(p[i])
    BY <1>2, <1>3, <2>2 DEF ReadClosed
  <2> QED BY <2>1, <2>2 DEF Backward, last
<1>6. last + 1 \in T
  BY <1>1
<1>7. \A i \in b .. last + 1 : i \in T
  <2>1. last + 1 \in Int /\ b \in Int
    BY <1>1
  <2>2. \A i \in b .. (last + 1) - 1 : i + 1 \in T => i \in T
    <3>1. (last + 1) - 1 = last
      BY <1>1
    <3> HIDE DEF T
    <3> QED BY <1>5, <3>1
  <2> HIDE DEF T
  <2> QED BY <1>6, <2>1, <2>2, BackwardInduction
<1>8. ASSUME NEW i \in b .. last
      PROVE  /\ \A n \in live[i] : i \in R(n)
             /\ \A n \in live[i + 1] : \E j \in Next(i) : j \in R(n)
  <2>1. i \in T /\ i + 1 \in T
    <3>1. i \in b .. last + 1 /\ i + 1 \in b .. last + 1
      BY <1>1
    <3> HIDE DEF T
    <3> QED BY <1>7, <3>1
  <2> QED BY <1>4, <2>1
<1> QED BY <1>8 DEF last, R, Next

\* An assignment of a variable to itself reads what it writes.
LEMMA NullAssignmentReads ==
  ASSUME NEW i, NullAssignment(i)
  PROVE  lhs_set(i) \subseteq rhs_set(i)
<1> SUFFICES ASSUME NEW v \in ({i.dest} \cap LocalScope) \ Addrs PROVE id(v) \in rhs_set(i)
  BY DEF lhs_set
<1>1. v = i.src1 /\ i.op = "Assign" /\ v # Null
  BY VariablesAssumption DEF NullAssignment, LocalScope
<1>2. v \in Operands(i) \cap LocalScope
  BY <1>1 DEF Operands
<1> QED BY <1>2 DEF rhs_set

\* The walk of LiveIn goes backwards, also when assignments of variables to
\* themselves are taken for dead that were not.
LEMMA LiveInBackward ==
  ASSUME NEW p, WellFormed(p), NEW block, Partition(p, block),
         NEW dead, NEW more, dead \subseteq more, \A i \in more \ dead : NullAssignment(p[i]),
         NEW b, BlockOf(p, block, b), NEW L
  PROVE  Backward(LiveIn(p, block, dead, b, L), L, p, more, b, last_instruction(block, b))
<1> DEFINE live == LiveIn(p, block, dead, b, L)
           last == last_instruction(block, b)
<1>1. LiveWalk(p, dead, b, last, live, L)
  BY LiveInIs
<1> HIDE DEF live, last
<1>2. live[last + 1] \subseteq L
  BY <1>1 DEF LiveWalk
<1>3. ASSUME NEW i \in b .. last, NEW n \in live[i]
      PROVE  \/ n \in live[i + 1] /\ (i \in more \/ n \notin lhs_set(p[i]))
             \/ i \notin more /\ n \in rhs_set(p[i])
  <2>1. CASE Skipped(p, dead, i)
    <3>1. n \in live[i + 1]
      BY <1>1, <1>3, <2>1 DEF LiveWalk
    <3>2. i \in more \/ lhs_set(p[i]) \subseteq rhs_set(p[i])
      BY <2>1, NullAssignmentReads DEF Skipped
    <3> QED BY <3>1, <3>2
  <2>2. CASE ~Skipped(p, dead, i)
    <3>1. i \notin more
      BY <2>2 DEF Skipped
    <3>2. live[i] = (live[i + 1] \ lhs_set(p[i])) \cup rhs_set(p[i])
      BY <1>1, <2>2 DEF LiveWalk
    <3> QED BY <1>3, <3>1, <3>2
  <2> QED BY <2>1, <2>2
<1> QED BY <1>2, <1>3 DEF Backward, live, last

\* What find_in_and_out_liveness_sets has live at the end of a block is read
\* from one of its children: nothing is live without being read.
LEMMA LeastOutIsRead ==
  ASSUME NEW p, WellFormed(p), NEW block, Partition(p, block),
         NEW dead, NEW more, dead \subseteq more, \A i \in more \ dead : NullAssignment(p[i]),
         NEW edges, edges = Edges(p, block), NEW b \in BlocksOf(block)
  PROVE  ReadByChildren(LeastOut(p, block, edges, dead)[b], p, block, edges, more, b)
<1> DEFINE least == LeastOut(p, block, edges, dead)
           R(n) == ReadById(p, block, edges, more, n)
           sol == [c \in BlocksOf(block) |->
                     {n \in least[c] : \E d \in Children(edges, c) : d \in R(n)}]
<1>1. Solution(p, block, edges, dead, least)
  BY LeastOutSolution
<1>2. \A c \in BlocksOf(block) : /\ sol[c] \subseteq least[c]
                                 /\ ReadByChildren(sol[c], p, block, edges, more, c)
  BY DEF ReadByChildren
<1> HIDE DEF least, sol
<1>3. ASSUME NEW e \in edges
      PROVE  LiveIn(p, block, dead, e[2], sol[e[2]])[e[2]] \subseteq sol[e[1]]
  <2> DEFINE c == e[2]
  <2>1. /\ e[1] \in BlocksOf(block) /\ c \in BlocksOf(block) /\ e = <<e[1], e[2]>>
        /\ BlockOf(p, block, c)
    <3>1. /\ e = <<e[1], e[2]>>
          /\ e[1] \in {block[i] : i \in DOMAIN block}
          /\ e[2] \in {block[i] : i \in DOMAIN block}
      BY EdgesType
    <3>2. e[1] \in BlocksOf(block) /\ e[2] \in BlocksOf(block)
      BY <3>1 DEF BlocksOf
    <3> QED BY <3>1, <3>2, BlocksFinite
  <2>2. c \in Children(edges, e[1])
    BY <2>1 DEF Children
  <2> HIDE DEF c
  <2>3. Backward(LiveIn(p, block, dead, c, sol[c]), sol[c], p, more, c, last_instruction(block, c))
    BY <2>1, LiveInBackward
  <2>4. c \in c .. last_instruction(block, c)
    <3>1. c \in Nat /\ last_instruction(block, c) \in Nat /\ c <= last_instruction(block, c)
      BY <2>1, LiveInIs
    <3> QED BY <3>1
  <2>5. \A n \in LiveIn(p, block, dead, c, sol[c])[c] : c \in R(n)
    BY <1>2, <2>1, <2>3, <2>4, BackwardIsRead
  <2>6. LiveIn(p, block, dead, c, sol[c])[c] \subseteq LiveIn(p, block, dead, c, least[c])[c]
    <3>1. c \in c .. last_instruction(block, c) + 1
      <4>1. c \in Nat /\ last_instruction(block, c) \in Nat /\ c <= last_instruction(block, c)
        BY <2>1, LiveInIs
      <4> QED BY <4>1
    <3>2. \A i \in c .. last_instruction(block, c) + 1 :
            LiveIn(p, block, dead, c, sol[c])[i] \subseteq LiveIn(p, block, dead, c, least[c])[i]
      <4>1. sol[c] \subseteq least[c]
        BY <1>2, <2>1
      <4> QED BY <2>1, <4>1, LiveInShrinks
    <3> QED BY <3>1, <3>2
  <2>7. LiveIn(p, block, dead, c, least[c])[c] \subseteq least[e[1]]
    BY <1>1 DEF Solution, c
  <2>8. LiveIn(p, block, dead, c, sol[c])[c] \subseteq sol[e[1]]
    <3>1. sol[e[1]] = {n \in least[e[1]] : \E d \in Children(edges, e[1]) : d \in R(n)}
      BY <2>1 DEF sol
    <3> HIDE DEF R
    <3> QED BY <2>2, <2>5, <2>6, <2>7, <3>1
  <2> QED BY <2>8 DEF c
<1>4. Solution(p, block, edges, dead, sol)
  BY <1>3 DEF Solution
<1>5. least[b] \subseteq sol[b]
  BY <1>4, LeastOutLeast DEF least
<1> QED BY <1>2, <1>5 DEF ReadByChildren, least

\* An id live after an instruction is read on some path of the graph from
\* there before it is written.
LEMMA LiveIsRead ==
  ASSUME NEW p, WellFormed(p), NEW block, Partition(p, block),
         NEW dead, NEW more, dead \subseteq more, \A i \in more \ dead : NullAssignment(p[i]),
         NEW edges, edges = Edges(p, block), NEW i \in DOMAIN p,
         NEW n \in LiveAfter(p, block, dead, LeastOut(p, block, edges, dead), i)
  PROVE  GraphSuccessors(block, edges, i) \cap ReadById(p, block, edges, more, n) # {}
<1> DEFINE b == block[i]
           L == LeastOut(p, block, edges, dead)[b]
<1>1. BlockOf(p, block, b) /\ b \in BlocksOf(block)
  BY DEF BlockOf, BlocksOf, Partition
<1>2. i \in b .. last_instruction(block, b)
  <2>1. b <= i /\ i <= last_instruction(block, b)
        /\ b \in Nat /\ last_instruction(block, b) \in Nat
    BY BlockIsInterval
  <2>2. i \in Nat
    BY DEF WellFormed
  <2> HIDE DEF b
  <2> QED BY <2>1, <2>2
<1>3. n \in LiveIn(p, block, dead, b, L)[i + 1]
  BY DEF LiveAfter
<1>4. ReadByChildren(L, p, block, edges, more, b)
  BY <1>1, LeastOutIsRead
<1> HIDE DEF b, L
<1>5. Backward(LiveIn(p, block, dead, b, L), L, p, more, b, last_instruction(block, b))
  BY <1>1, LiveInBackward
<1> QED BY <1>1, <1>2, <1>3, <1>4, <1>5, BackwardIsRead

\* What is live where the graph goes was live after the instruction it left.
LEMMA LiveGraphFlow ==
  ASSUME NEW p, WellFormed(p), NEW block, Partition(p, block), NEW dead, NEW out,
         NEW edges, edges = Edges(p, block), Solution(p, block, edges, dead, out),
         NEW i \in DOMAIN p, NEW j \in GraphSuccessors(block, edges, i)
  PROVE  LiveBefore(p, block, dead, out, j) \subseteq LiveAfter(p, block, dead, out, i)
<1> DEFINE b == block[i]
           last == last_instruction(block, b)
<1>1. /\ b \in Nat /\ last \in Nat /\ b <= i /\ i <= last /\ i \in b .. last
      /\ BlockOf(p, block, b)
  <2>1. b <= i /\ i <= last /\ b \in Nat /\ last \in Nat
    BY BlockIsInterval
  <2>2. i \in Nat
    BY DEF WellFormed
  <2>3. BlockOf(p, block, b)
    BY DEF BlockOf
  <2> HIDE DEF b, last
  <2> QED BY <2>1, <2>2, <2>3
<1>2. /\ i = last => GraphSuccessors(block, edges, i) = Children(edges, b)
      /\ i # last => GraphSuccessors(block, edges, i) = {i + 1}
  <2> HIDE DEF b
  <2> QED BY <1>1, GraphSuccessorsAre DEF last
<1>3. CASE i = last
  <2>1. <<b, j>> \in edges
    <3>1. PICK e \in edges : e[1] = b /\ e[2] = j
      BY <1>2, <1>3 DEF Children
    <3>2. e = <<e[1], e[2]>>
      BY EdgesType
    <3> QED BY <3>1, <3>2
  <2>2. block[j] = j
    <3> DEFINE e == <<b, j>>
    <3>1. e \in Edges(p, block) /\ e[2] = j
      BY <2>1
    <3> HIDE DEF e
    <3>2. block[e[2]] = e[2]
      BY <3>1, EdgesType
    <3> QED BY <3>1, <3>2
  <2>3. LiveIn(p, block, dead, j, out[j])[j] \subseteq out[b]
    <3> DEFINE e == <<b, j>>
    <3>1. e \in edges /\ e[1] = b /\ e[2] = j
      BY <2>1
    <3> HIDE DEF e, b
    <3> QED BY <3>1 DEF Solution
  <2>4. LiveIn(p, block, dead, b, out[b])[last + 1] = out[b]
    <3>1. LiveWalk(p, dead, b, last, LiveIn(p, block, dead, b, out[b]), out[b])
      BY <1>1, LiveInIs
    <3> QED BY <3>1 DEF LiveWalk
  <2> QED BY <1>3, <2>2, <2>3, <2>4 DEF LiveBefore, LiveAfter
<1>4. CASE i # last
  <2>1. j = i + 1
    BY <1>2, <1>4
  <2>2. i + 1 \in Walked(block, b)
    <3>1. Walked(block, b) = b .. last
      BY <1>1, LiveInIs
    <3> HIDE DEF b, last
    <3> QED BY <1>1, <1>4, <3>1
  <2>3. block[j] = b
    BY <2>1, <2>2 DEF Walked
  <2> QED BY <2>1, <2>3 DEF LiveBefore, LiveAfter
<1> QED BY <1>3, <1>4

\* What is read on some path is live, when every assignment of a variable to
\* itself is dead: the others are paths' reads that liveness passes over.
LEMMA ReadIsLive ==
  ASSUME NEW p, WellFormed(p), NEW block, Partition(p, block), NEW dead, NEW out,
         NEW edges, edges = Edges(p, block), Solution(p, block, edges, dead, out),
         \A i \in DOMAIN p : NullAssignment(p[i]) => i \in dead,
         NEW i \in DOMAIN p, NEW n,
         GraphSuccessors(block, edges, i) \cap ReadById(p, block, edges, dead, n) # {}
  PROVE  n \in LiveAfter(p, block, dead, out, i)
<1> DEFINE C == {k \in DOMAIN p : n \in LiveBefore(p, block, dead, out, k)}
<1>1. ASSUME NEW k \in DOMAIN p
      PROVE  LiveBefore(p, block, dead, out, k)
               = IF k \in dead THEN LiveAfter(p, block, dead, out, k)
                 ELSE (LiveAfter(p, block, dead, out, k) \ lhs_set(p[k])) \cup rhs_set(p[k])
  BY LiveStep DEF Skipped
<1>2. ASSUME NEW k \in DOMAIN p \ dead, n \in rhs_set(p[k]) PROVE k \in C
  BY <1>1, <1>2
<1>3. ASSUME NEW k \in DOMAIN p, NEW j \in GraphSuccessors(block, edges, k) \cap DOMAIN p, j \in C,
             k \in dead \/ n \notin lhs_set(p[k])
      PROVE  k \in C
  <2>1. n \in LiveAfter(p, block, dead, out, k)
    BY <1>3, LiveGraphFlow
  <2> QED BY <1>1, <1>3, <2>1
<1>4. ReadClosed(C, p, block, edges, dead, n)
  <2> HIDE DEF C
  <2> QED BY <1>2, <1>3 DEF ReadClosed
<1>5. ReadById(p, block, edges, dead, n) \subseteq C
  <2> HIDE DEF C
  <2> QED BY <1>4, ReadByIdLeast
<1>6. PICK j \in GraphSuccessors(block, edges, i) : j \in ReadById(p, block, edges, dead, n)
  OBVIOUS
<1>7. n \in LiveBefore(p, block, dead, out, j)
  BY <1>5, <1>6
<1> QED BY <1>6, <1>7, LiveGraphFlow
=============================================================================
