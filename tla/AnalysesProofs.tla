--------------------------- MODULE AnalysesProofs ---------------------------
(***************************************************************************)
(* Theorems about the two analyses of a function's flow graph.             *)
(*                                                                         *)
(* Liveness, for every number of blocks, every graph and every def and use *)
(* sets: when the loop ends the sets solve the data-flow equations, they   *)
(* are the least solution, they are exactly what the paths of the graph    *)
(* read before writing, and they only grow.                                *)
(*                                                                         *)
(* ControlFlow, for every function the code generator emits: the graph has *)
(* every transfer of control, and the dominators are those of the graph.   *)
(***************************************************************************)
EXTENDS Liveness, ControlFlow, LivenessSetsProofs

-----------------------------------------------------------------------------
(***************************************************************************)
(* Liveness: the invariant of the loop.                                    *)
(***************************************************************************)

\* While converged holds, the blocks already visited in this pass satisfy
\* their equations in the current state: nothing has changed since.
VisitedSolved ==
  /\ converged => \A b \in Blocks : b < pos => Equations(b)
  /\ done => pos = N + 1 /\ converged

\* Visiting a block can only add to its sets.
Growing ==
  \A b \in Blocks :
    /\ out[b] \subseteq InOfSuccessors(b)
    /\ in[b] \subseteq use[b] \cup (InOfSuccessors(b) \ def[b])

IInv == TypeOK /\ VisitedSolved /\ Growing /\ BelowEveryClosed

\* The initial sets satisfy the invariant.
LEMMA InitIInv == Init => IInv
<1> SUFFICES ASSUME Init PROVE IInv
  OBVIOUS
<1>1. PICK s \in [Blocks -> DefUseSets] :
        /\ def = [b \in Blocks |-> s[b].def]
        /\ use = [b \in Blocks |-> s[b].use]
  BY DEF Init
<1>2. TypeOK
  <2>1. \A b \in Blocks : s[b].def \subseteq Vars /\ s[b].use \subseteq Vars
    BY <1>1 DEF DefUseSets
  <2>2. def \in [Blocks -> SUBSET Vars] /\ use \in [Blocks -> SUBSET Vars]
    BY <1>1, <2>1
  <2>3. 1 \in 1 .. N + 1
    BY NAssumption
  <2> QED BY <2>2, <2>3 DEF Init, TypeOK
<1>3. VisitedSolved
  BY DEF Init, VisitedSolved, Blocks
<1>4. Growing
  BY DEF Init, Growing
<1>5. BelowEveryClosed
  BY DEF Init, BelowEveryClosed, Closed
<1> QED BY <1>2, <1>3, <1>4, <1>5 DEF IInv

\* Visiting a block adds to its sets and leaves the other blocks alone.
LEMMA VisitGrows ==
  ASSUME IInv, VisitBlock
  PROVE  \A b \in Blocks : in[b] \subseteq in'[b] /\ out[b] \subseteq out'[b]
BY DEF IInv, TypeOK, Growing, VisitBlock

\* Visiting a block preserves the invariant.
LEMMA VisitIInv ==
  ASSUME IInv, VisitBlock
  PROVE  IInv'
<1> DEFINE newOut == InOfSuccessors(pos)
           newIn == use[pos] \cup (newOut \ def[pos])
<1>1. /\ pos \in Blocks /\ pos' = pos + 1
      /\ out' = [out EXCEPT ![pos] = newOut]
      /\ in' = [in EXCEPT ![pos] = newIn]
      /\ converged' = (converged /\ out[pos] = newOut /\ in[pos] = newIn)
      /\ children' = children /\ def' = def /\ use' = use /\ done' = done /\ ~done
  BY DEF VisitBlock
<1>2. newOut \subseteq Vars /\ newIn \subseteq Vars
  BY <1>1 DEF IInv, TypeOK, InOfSuccessors
<1>3. TypeOK'
  BY <1>1, <1>2, NAssumption DEF IInv, TypeOK, Blocks
<1>4. VisitedSolved'
  <2> SUFFICES ASSUME converged', NEW b \in Blocks, b < pos'
               PROVE  Equations(b)'
    BY <1>1 DEF VisitedSolved
  <2>1. in' = in /\ out' = out
    BY <1>1 DEF IInv, TypeOK
  <2>2. CASE b = pos
    <3>1. out[pos] = newOut /\ in[pos] = newIn
      BY <1>1
    <3> QED BY <1>1, <2>1, <2>2, <3>1 DEF Equations, InOfSuccessors
  <2>3. CASE b # pos
    <3>1. b < pos
      BY <1>1, <2>3 DEF Blocks
    <3>2. Equations(b)
      BY <1>1, <3>1 DEF IInv, VisitedSolved
    <3> QED BY <1>1, <2>1, <3>2 DEF Equations, InOfSuccessors
  <2> QED BY <2>2, <2>3
<1>5. Growing'
  <2> SUFFICES ASSUME NEW b \in Blocks
               PROVE  /\ out'[b] \subseteq InOfSuccessors(b)'
                      /\ in'[b] \subseteq use[b] \cup (InOfSuccessors(b)' \ def[b])
    BY <1>1 DEF Growing
  <2>1. InOfSuccessors(b) \subseteq InOfSuccessors(b)'
    <3>1. \A c \in children[b] : c \in Blocks
      BY DEF IInv, TypeOK
    <3> QED BY <1>1, <3>1, VisitGrows DEF InOfSuccessors
  <2>2. CASE b = pos
    BY <1>1, <2>1, <2>2 DEF IInv, TypeOK
  <2>3. CASE b # pos
    BY <1>1, <2>1, <2>3 DEF IInv, TypeOK, Growing
  <2> QED BY <2>2, <2>3
<1>6. BelowEveryClosed'
  <2> SUFFICES ASSUME NEW X \in [Blocks -> SUBSET Vars], Closed(X), NEW b \in Blocks
               PROVE  /\ in'[b] \subseteq X[b]
                      /\ out'[b] \subseteq UNION {X[c] : c \in children[b]}
    BY <1>1 DEF BelowEveryClosed, Closed
  <2>1. \A c \in Blocks : in[c] \subseteq X[c]
                       /\ out[c] \subseteq UNION {X[d] : d \in children[c]}
    BY DEF IInv, BelowEveryClosed
  <2>2. newOut \subseteq UNION {X[c] : c \in children[pos]}
    <3>1. \A c \in children[pos] : c \in Blocks
      BY <1>1 DEF IInv, TypeOK
    <3> QED BY <2>1, <3>1 DEF InOfSuccessors
  <2>3. newIn \subseteq X[pos]
    BY <1>1, <2>2 DEF Closed
  <2> QED BY <1>1, <2>1, <2>2, <2>3 DEF IInv, TypeOK
<1> QED BY <1>3, <1>4, <1>5, <1>6 DEF IInv

\* The steps between passes, and stuttering, preserve the invariant.
LEMMA OtherStepsIInv ==
  ASSUME IInv, NextPass \/ Finish \/ UNCHANGED vars
  PROVE  IInv'
<1>1. UNCHANGED <<children, def, use, in, out>>
  BY DEF NextPass, Finish, vars
<1>2. TypeOK'
  <2>1. 1 \in 1 .. N + 1
    BY NAssumption
  <2>2. pos' \in 1 .. N + 1
    BY <2>1 DEF IInv, TypeOK, NextPass, Finish, vars
  <2>3. converged' \in BOOLEAN /\ done' \in BOOLEAN
    BY DEF IInv, TypeOK, NextPass, Finish, vars
  <2> QED BY <1>1, <2>2, <2>3 DEF IInv, TypeOK
<1>3. VisitedSolved'
  <2>1. CASE NextPass
    BY <2>1 DEF VisitedSolved, NextPass, Blocks
  <2>2. CASE Finish \/ UNCHANGED vars
    BY <1>1, <2>2 DEF IInv, VisitedSolved, Finish, vars, Equations, InOfSuccessors
  <2> QED BY <2>1, <2>2
<1>4. Growing' /\ BelowEveryClosed'
  BY <1>1 DEF IInv, Growing, InOfSuccessors, BelowEveryClosed, Closed
<1> QED BY <1>2, <1>3, <1>4 DEF IInv

LEMMA SpecIInv == Spec => []IInv
<1>1. IInv /\ [Next]_vars => IInv'
  BY VisitIInv, OtherStepsIInv DEF Next
<1> QED BY InitIInv, <1>1, PTL DEF Spec

\* Every state of the analysis is type-correct.
THEOREM TypeCorrect == Spec => []TypeOK
BY SpecIInv, PTL DEF IInv

\* When the loop of find_in_and_out_liveness_sets ends, in and out solve the
\* data-flow equations at every block.
THEOREM Solved == Spec => []SolvedAtEnd
<1>1. IInv => SolvedAtEnd
  BY NAssumption DEF IInv, VisitedSolved, SolvedAtEnd, Blocks
<1> QED BY SpecIInv, <1>1, PTL

\* The sets computed are below every closed assignment: with Solved, they
\* are the least solution of the equations.
THEOREM Least == Spec => []BelowEveryClosed
BY SpecIInv, PTL DEF IInv

\* No step of the analysis takes a variable out of a set.
THEOREM Monotone == Spec => OnlyGrow
<1>1. IInv /\ [Next]_vars
        => [\A b \in Blocks : in[b] \subseteq in'[b] /\ out[b] \subseteq out'[b]]_vars
  BY VisitGrows DEF Next, NextPass, Finish
<1> QED BY SpecIInv, <1>1, PTL DEF Spec, OnlyGrow
-----------------------------------------------------------------------------
(***************************************************************************)
(* The least solution is what the paths of the graph read.                 *)
(***************************************************************************)

\* p goes from b along k edges, defining v at none of the blocks it leaves,
\* to a block that uses v.
ReadsAlong(p, k, v, b) ==
  /\ p \in [0 .. k -> Blocks]
  /\ p[0] = b
  /\ \A i \in 0 .. k - 1 : p[i + 1] \in children[p[i]] /\ v \notin def[p[i]]
  /\ v \in use[p[k]]

\* LiveAtEntry without its bound on the length of the path.
ReadOnPath(v, b) == \E k \in Nat : \E p : ReadsAlong(p, k, v, b)

\* Sets that solve the equations hold every variable read on a path.
LEMMA SolutionHoldsReads ==
  ASSUME TypeOK, \A b \in Blocks : Equations(b),
         NEW v, NEW b \in Blocks, ReadOnPath(v, b)
  PROVE  v \in in[b]
<1>1. PICK k \in Nat : \E p : ReadsAlong(p, k, v, b)
  BY DEF ReadOnPath
<1>2. PICK p : ReadsAlong(p, k, v, b)
  BY <1>1
<1> DEFINE T == {i \in 0 .. k : v \in in[p[i]]}
<1>3. \A i \in 0 .. k : p[i] \in Blocks
  BY <1>2 DEF ReadsAlong
<1>4. k \in T
  BY <1>2, <1>3 DEF ReadsAlong, Equations
<1>5. T \in SUBSET Nat /\ T # {}
  BY <1>4
<1>6. PICK m \in T : \A i \in T : m <= i
  <2> HIDE DEF T
  <2> QED BY <1>5, LeastNatural
<1>7. CASE m = 0
  BY <1>2, <1>7 DEF ReadsAlong
<1>8. CASE m # 0
  <2> DEFINE c == p[m - 1]
             d == p[m]
  <2>1. m - 1 \in 0 .. k - 1 /\ m - 1 \in 0 .. k /\ (m - 1) + 1 = m /\ m \in 0 .. k
    BY <1>8
  <2>2. d \in children[c] /\ v \notin def[c] /\ c \in Blocks
    BY <1>2, <1>3, <2>1 DEF ReadsAlong
  <2>3. v \in in[d]
    OBVIOUS
  <2>4. v \in out[c]
    BY <2>2, <2>3 DEF Equations, InOfSuccessors
  <2>5. v \in in[c]
    BY <2>2, <2>4 DEF Equations
  <2>6. m - 1 \in T
    BY <2>1, <2>5
  <2> QED BY <1>6, <2>1, <2>6
<1> QED BY <1>7, <1>8

\* What is read from a successor is read from the block, unless it defines it.
LEMMA ReadExtended ==
  ASSUME TypeOK, NEW v, NEW b \in Blocks, NEW c \in children[b],
         v \notin def[b], ReadOnPath(v, c)
  PROVE  ReadOnPath(v, b)
<1>1. PICK k \in Nat : \E p : ReadsAlong(p, k, v, c)
  BY DEF ReadOnPath
<1>2. PICK p : ReadsAlong(p, k, v, c)
  BY <1>1
<1> DEFINE q == [i \in 0 .. k + 1 |-> IF i = 0 THEN b ELSE p[i - 1]]
<1>3. \A i \in 0 .. k : q[i + 1] = p[i]
  <2> SUFFICES ASSUME NEW i \in 0 .. k PROVE q[i + 1] = p[i]
    OBVIOUS
  <2>1. i + 1 \in 0 .. k + 1 /\ i + 1 # 0 /\ (i + 1) - 1 = i
    OBVIOUS
  <2> QED BY <2>1
<1>4. q[0] = b
  OBVIOUS
<1>5. q \in [0 .. k + 1 -> Blocks]
  <2> SUFFICES ASSUME NEW i \in 0 .. k + 1 PROVE q[i] \in Blocks
    OBVIOUS
  <2>1. CASE i = 0
    BY <2>1
  <2>2. CASE i # 0
    <3>1. i - 1 \in 0 .. k
      BY <2>2
    <3> QED BY <1>2, <2>2, <3>1 DEF ReadsAlong
  <2> QED BY <2>1, <2>2
<1>6. ASSUME NEW i \in 0 .. k
      PROVE  q[i + 1] \in children[q[i]] /\ v \notin def[q[i]]
  <2>1. CASE i = 0
    BY <1>2, <1>3, <1>4, <2>1 DEF ReadsAlong
  <2>2. CASE i # 0
    <3>1. i - 1 \in 0 .. k - 1 /\ i - 1 \in 0 .. k /\ (i - 1) + 1 = i
      BY <2>2
    <3>2. q[i + 1] = p[i] /\ q[i] = p[i - 1]
      BY <1>3, <3>1
    <3>3. p[(i - 1) + 1] \in children[p[i - 1]] /\ v \notin def[p[i - 1]]
      BY <1>2, <3>1 DEF ReadsAlong
    <3> QED BY <3>1, <3>2, <3>3
  <2> QED BY <2>1, <2>2
<1>7. v \in use[q[k + 1]]
  BY <1>2, <1>3 DEF ReadsAlong
<1>8. (k + 1) - 1 = k /\ k + 1 \in Nat
  OBVIOUS
<1>9. ReadsAlong(q, k + 1, v, b)
  <2> HIDE DEF q
  <2> QED BY <1>4, <1>5, <1>6, <1>7, <1>8 DEF ReadsAlong
<1> QED BY <1>8, <1>9 DEF ReadOnPath

\* A block that uses a variable reads it.
LEMMA UseIsRead ==
  ASSUME NEW b \in Blocks, NEW v \in use[b]
  PROVE  ReadOnPath(v, b)
<1> DEFINE q == [i \in 0 .. 0 |-> b]
<1>1. ReadsAlong(q, 0, v, b)
  BY DEF ReadsAlong
<1> QED BY <1>1 DEF ReadOnPath

\* The reads of the paths are closed under the equations.
LEMMA ReadsAreClosed ==
  ASSUME TypeOK
  PROVE  Closed([b \in Blocks |-> {v \in Vars : ReadOnPath(v, b)}])
<1> DEFINE X == [b \in Blocks |-> {v \in Vars : ReadOnPath(v, b)}]
<1> SUFFICES ASSUME NEW b \in Blocks,
                    NEW v \in use[b] \cup ((UNION {X[c] : c \in children[b]}) \ def[b])
             PROVE  v \in X[b]
  BY DEF Closed
<1>1. use[b] \subseteq Vars /\ children[b] \subseteq Blocks
  BY DEF TypeOK
<1>2. CASE v \in use[b]
  BY <1>1, <1>2, UseIsRead
<1>3. CASE v \in (UNION {X[c] : c \in children[b]}) \ def[b]
  <2>1. PICK c \in children[b] : v \in X[c]
    BY <1>3
  <2>2. v \in Vars /\ ReadOnPath(v, c)
    BY <1>1, <2>1
  <2>3. ReadOnPath(v, b)
    BY <1>3, <2>2, ReadExtended
  <2> QED BY <2>2, <2>3
<1> QED BY <1>2, <1>3

\* A path that comes twice to one block can be cut there.
LEMMA CutReads ==
  ASSUME NEW k \in Nat, NEW v, NEW b, NEW p, ReadsAlong(p, k, v, b),
         NEW i \in 0 .. k, NEW j \in 0 .. k, i < j, p[i] = p[j]
  PROVE  \E l \in Nat : l < k /\ \E q : ReadsAlong(q, l, v, b)
<1> DEFINE l == k - (j - i)
           q == [t \in 0 .. l |-> IF t <= i THEN p[t] ELSE p[t + (j - i)]]
<1>1. l \in Nat /\ l < k /\ i <= l /\ j - i \in Nat /\ 0 \in 0 .. l
  OBVIOUS
<1>2. \A t \in 0 .. l : t <= i => q[t] = p[t] /\ t \in 0 .. k
  BY <1>1
<1>3. \A t \in 0 .. l : i <= t => q[t] = p[t + (j - i)] /\ t + (j - i) \in 0 .. k
  <2> SUFFICES ASSUME NEW t \in 0 .. l, i <= t
               PROVE  q[t] = p[t + (j - i)] /\ t + (j - i) \in 0 .. k
    OBVIOUS
  <2>1. t + (j - i) \in 0 .. k
    OBVIOUS
  <2>2. CASE t = i
    <3>1. t + (j - i) = j
      BY <2>2
    <3> QED BY <2>1, <2>2, <3>1
  <2>3. CASE t # i
    <3>1. ~ (t <= i)
      BY <2>3
    <3> QED BY <2>1, <3>1
  <2> QED BY <2>2, <2>3
<1>4. q \in [0 .. l -> Blocks]
  <2> SUFFICES ASSUME NEW t \in 0 .. l PROVE q[t] \in Blocks
    OBVIOUS
  <2>1. \A u \in 0 .. k : p[u] \in Blocks
    BY DEF ReadsAlong
  <2>2. t <= i \/ i <= t
    OBVIOUS
  <2> HIDE DEF q, l
  <2> QED BY <1>2, <1>3, <2>1, <2>2
<1>5. q[0] = b
  <2>1. 0 <= i /\ 0 \in 0 .. l
    BY <1>1
  <2> HIDE DEF q, l
  <2> QED BY <1>2, <2>1 DEF ReadsAlong
<1>6. ASSUME NEW t \in 0 .. l - 1
      PROVE  q[t + 1] \in children[q[t]] /\ v \notin def[q[t]]
  <2>1. t \in 0 .. l /\ t + 1 \in 0 .. l
    BY <1>1
  <2>2. CASE t < i
    <3>1. t <= i /\ t + 1 <= i /\ t \in 0 .. k - 1
      BY <2>2
    <3>2. q[t] = p[t] /\ q[t + 1] = p[t + 1]
      <4> HIDE DEF q, l
      <4> QED BY <1>2, <2>1, <3>1
    <3> QED BY <3>1, <3>2 DEF ReadsAlong
  <2>3. CASE i <= t
    <3> DEFINE u == t + (j - i)
    <3>1. i <= t + 1 /\ u \in 0 .. k - 1 /\ (t + 1) + (j - i) = u + 1
      BY <2>3
    <3>2. q[t] = p[u] /\ q[t + 1] = p[u + 1]
      <4>1. q[t] = p[u]
        <5> HIDE DEF q, l
        <5> QED BY <1>3, <2>1, <2>3
      <4>2. q[t + 1] = p[(t + 1) + (j - i)]
        <5> HIDE DEF q, l
        <5> QED BY <1>3, <2>1, <3>1
      <4> HIDE DEF q
      <4> QED BY <3>1, <4>1, <4>2
    <3> HIDE DEF q, u
    <3> QED BY <3>1, <3>2 DEF ReadsAlong
  <2>4. t < i \/ i <= t
    OBVIOUS
  <2> QED BY <2>2, <2>3, <2>4
<1>7. v \in use[q[l]]
  <2>1. l \in 0 .. l /\ i <= l /\ l + (j - i) = k
    BY <1>1
  <2>2. q[l] = p[l + (j - i)]
    <3> HIDE DEF q, l
    <3> QED BY <1>3, <2>1
  <2>3. q[l] = p[k]
    <3> HIDE DEF q, l
    <3> QED BY <2>1, <2>2
  <2> HIDE DEF q, l
  <2> QED BY <2>3 DEF ReadsAlong
<1>8. ReadsAlong(q, l, v, b)
  <2> HIDE DEF q, l
  <2> QED BY <1>4, <1>5, <1>6, <1>7 DEF ReadsAlong
<1> HIDE DEF q, l
<1> QED BY <1>1, <1>8

\* A shortest path passes no block twice, so it has fewer edges than there
\* are blocks.
LEMMA ReadOnShortPath ==
  ASSUME NEW v, NEW b \in Blocks, ReadOnPath(v, b)
  PROVE  LiveAtEntry(v, b)
<1> DEFINE T == {n \in Nat : \E p : ReadsAlong(p, n, v, b)}
<1>1. T \in SUBSET Nat /\ T # {}
  BY DEF ReadOnPath
<1>2. PICK k \in T : \A n \in T : k <= n
  <2> HIDE DEF T
  <2> QED BY <1>1, LeastNatural
<1>3. PICK p : ReadsAlong(p, k, v, b)
  OBVIOUS
<1>4. k \in Nat /\ N \in Nat
  BY NAssumption
<1>5. k < N
  <2> SUFFICES ASSUME N <= k PROVE FALSE
    BY <1>4
  <2>1. IsFiniteSet(0 .. k) /\ Cardinality(0 .. k) = k + 1
    <3>1. /\ IsFiniteSet(0 .. k)
          /\ Cardinality(0 .. k) = IF 0 > k THEN 0 ELSE k - 0 + 1
      BY <1>4, FS_Interval
    <3> QED BY <1>4, <3>1
  <2>2. IsFiniteSet(Blocks) /\ Cardinality(Blocks) = N
    <3>1. /\ IsFiniteSet(1 .. N)
          /\ Cardinality(1 .. N) = IF 1 > N THEN 0 ELSE N - 1 + 1
      BY <1>4, FS_Interval
    <3> QED BY <3>1, NAssumption DEF Blocks
  <2>3. Cardinality(Blocks) < Cardinality(0 .. k)
    BY <1>4, <2>1, <2>2
  <2>4. p \in [0 .. k -> Blocks]
    BY <1>3 DEF ReadsAlong
  <2>5. \E x, y \in 0 .. k : x # y /\ p[x] = p[y]
    BY <2>1, <2>2, <2>3, <2>4, FS_PigeonHole
  <2>6. \E x, y \in 0 .. k : x < y /\ p[x] = p[y]
    BY <2>5
  <2>7. PICK i \in 0 .. k : \E y \in 0 .. k : i < y /\ p[i] = p[y]
    BY <2>6
  <2>8. PICK j \in 0 .. k : i < j /\ p[i] = p[j]
    BY <2>7
  <2>9. \E l \in Nat : l < k /\ \E q : ReadsAlong(q, l, v, b)
    BY <1>3, <1>4, <2>8, CutReads
  <2> QED BY <1>2, <1>4, <2>9
<1>6. k \in 0 .. N - 1
  BY <1>4, <1>5
<1> QED BY <1>3, <1>6 DEF LiveAtEntry, ReadsAlong

LEMMA LiveAtEntryIsRead ==
  ASSUME NEW v, NEW b, LiveAtEntry(v, b)
  PROVE  ReadOnPath(v, b)
<1>1. \A k \in 0 .. N - 1 : k \in Nat
  BY NAssumption
<1> QED BY <1>1 DEF LiveAtEntry, ReadOnPath, ReadsAlong

\* When the loop of find_in_and_out_liveness_sets ends, a variable is in the
\* in set of a block exactly when some path of the graph from the block
\* reads it before writing it.
THEOREM Exact == Spec => []ExactAtEnd
<1>1. ASSUME IInv PROVE ExactAtEnd
  <2> SUFFICES ASSUME done, NEW b \in Blocks
               PROVE  in[b] = {v \in Vars : LiveAtEntry(v, b)}
    BY DEF ExactAtEnd
  <2> DEFINE X == [c \in Blocks |-> {v \in Vars : ReadOnPath(v, c)}]
  <2>1. TypeOK /\ BelowEveryClosed /\ \A c \in Blocks : Equations(c)
    BY <1>1, NAssumption DEF IInv, VisitedSolved, Blocks
  <2>2. in[b] \subseteq Vars
    BY <2>1 DEF TypeOK
  <2>3. in[b] \subseteq X[b]
    <3>1. Closed(X)
      BY <2>1, ReadsAreClosed
    <3>2. X \in [Blocks -> SUBSET Vars]
      OBVIOUS
    <3> HIDE DEF X
    <3> QED BY <2>1, <3>1, <3>2 DEF BelowEveryClosed
  <2>4. ASSUME NEW v \in in[b] PROVE LiveAtEntry(v, b)
    <3>1. ReadOnPath(v, b)
      BY <2>3
    <3> QED BY <3>1, ReadOnShortPath
  <2>5. ASSUME NEW v \in Vars, LiveAtEntry(v, b) PROVE v \in in[b]
    BY <2>1, <2>5, LiveAtEntryIsRead, SolutionHoldsReads
  <2> QED BY <2>2, <2>4, <2>5
<1> QED BY SpecIInv, <1>1, PTL

-----------------------------------------------------------------------------
(***************************************************************************)
(* ControlFlow: the list of blocks.                                        *)
(***************************************************************************)

\* There is a block for every rank.
LEMMA RankOnto ==
  ASSUME NEW p, WellFormed(p), NEW l \in 0 .. Cardinality(FirstFound(p)) - 1
  PROVE  \E e \in FirstFound(p) : Rank(p, e) = l
<1> DEFINE S == FirstFound(p)
           n == Cardinality(S)
           R == (0 .. n - 1) \ {l}
           f == [e \in S |-> Rank(p, e)]
<1>1. IsFiniteSet(S) /\ n \in Nat /\ l \in 0 .. n - 1
  BY FoundType
<1>2. IsFiniteSet(0 .. n - 1) /\ Cardinality(0 .. n - 1) = n
  <2> HIDE DEF n
  <2>1. n - 1 \in Int /\ l <= n - 1 /\ 0 <= l /\ l \in Int
    BY <1>1
  <2>2. \A m \in Int : 0 <= m => IsFiniteSet(0 .. m) /\ Cardinality(0 .. m) = m + 1
    <3> TAKE m \in Int
    <3>1. IsFiniteSet(0 .. m) /\ Cardinality(0 .. m) = IF 0 > m THEN 0 ELSE m - 0 + 1
      BY FS_Interval
    <3> QED BY <3>1
  <2>3. 0 <= n - 1 /\ (n - 1) + 1 = n
    BY <1>1, <2>1
  <2> QED BY <2>1, <2>2, <2>3
<1>3. IsFiniteSet(R) /\ Cardinality(R) = n - 1
  <2> HIDE DEF n
  <2> QED BY <1>1, <1>2, FS_RemoveElement
<1> SUFFICES ASSUME \A e \in S : Rank(p, e) # l PROVE FALSE
  OBVIOUS
<1>4. f \in [S -> R]
  <2> SUFFICES ASSUME NEW e \in S PROVE Rank(p, e) \in R
    OBVIOUS
  <2>1. Rank(p, e) \in Nat /\ Rank(p, e) < n
    BY RankUnique
  <2> HIDE DEF n
  <2> QED BY <1>1, <2>1
<1>5. Cardinality(R) < Cardinality(S)
  <2> HIDE DEF R
  <2> QED BY <1>1, <1>3
<1>6. \E x, y \in S : x # y /\ f[x] = f[y]
  <2> HIDE DEF S, R, f
  <2> QED BY <1>1, <1>3, <1>4, <1>5, FS_PigeonHole
<1>7. \A x, y \in S : Rank(p, x) = Rank(p, y) => x = y
  BY RankUnique
<1> QED BY <1>6, <1>7

\* The list holds every block once, the function entry last.
Listed(p, list) ==
  /\ Len(list) \in Nat \ {0} /\ DOMAIN list = 1 .. Len(list)
  /\ \A k \in DOMAIN list : list[k] \in Leaders(p)
  /\ \A b \in Leaders(p) : \E k \in DOMAIN list : list[k] = b
  /\ \A k, l \in DOMAIN list : list[k] = list[l] => k = l
  /\ list[Len(list)] = 1

LEMMA BlocksListed ==
  ASSUME NEW p, WellFormed(p)
  PROVE  Listed(p, Reverse(CreationOrder(p)))
<1> DEFINE n == Cardinality(FirstFound(p))
           order == CreationOrder(p)
           list == Reverse(order)
           at(l) == CHOOSE o \in FirstFound(p) : Rank(p, o) = l - 1
<1>1. n \in Nat
  BY FoundType
<1>2. order = [l \in 1 .. n |-> at(l)[2]]
  BY DEF CreationOrder, FirstFound, FoundBlocks, Rank
<1>3. \A l \in 1 .. n : at(l) \in FirstFound(p) /\ Rank(p, at(l)) = l - 1
  <2> TAKE l \in 1 .. n
  <2>1. l - 1 \in 0 .. n - 1
    BY <1>1
  <2>2. \E o \in FirstFound(p) : Rank(p, o) = l - 1
    BY <2>1, RankOnto
  <2> QED BY <2>2
<1>4. WalksAll(p, list)
  BY CreatedWalk
<1> HIDE DEF at
<1>5. Len(order) = n
  <2> HIDE DEF order, n
  <2> QED BY <1>1, <1>2
<1>6. list = [k \in 1 .. n |-> order[(n - k) + 1]] /\ Len(list) = n
  <2>1. list = [k \in 1 .. n |-> order[(n - k) + 1]]
    BY <1>5 DEF Reverse
  <2> HIDE DEF list, order, n
  <2> QED BY <1>1, <2>1
<1> HIDE DEF order, list, n
<1>7. \A k \in 1 .. n : (n - k) + 1 \in 1 .. n /\ list[k] = at((n - k) + 1)[2]
  BY <1>1, <1>2, <1>6
<1>8. ASSUME NEW k \in 1 .. n PROVE list[k] \in Leaders(p)
  <2>1. at((n - k) + 1) \in FoundBlocks(p)
    BY <1>3, <1>7 DEF FirstFound
  <2>2. \A e \in FoundBlocks(p) : e[2] \in Leaders(p)
    <3> TAKE e \in FoundBlocks(p)
    <3>1. CASE e \in {<<2 * b, b>> : b \in {j \in DOMAIN p : p[j].op \in {"Enter", "Call"}}}
      BY <3>1 DEF Leaders
    <3>2. CASE e \in {<<2 * i, p[i].jump_to>> : i \in {j \in DOMAIN p : p[j].op \in Jumps}}
      BY <3>2 DEF Leaders
    <3>3. CASE e \in {<<2 * i + 1, i + 1>> : i \in {j \in DOMAIN p : p[j].op \in Jumps}}
      <4>1. PICK i \in DOMAIN p : p[i].op \in Jumps /\ e = <<2 * i + 1, i + 1>>
        BY <3>3
      <4>2. i + 1 \in DOMAIN p /\ i + 1 > 1 /\ (i + 1) - 1 = i
        <5>1. DOMAIN p = 1 .. Len(p) /\ Len(p) \in Nat /\ p[Len(p)].op = "Return"
          BY DEF WellFormed
        <5>2. i # Len(p)
          BY <4>1, <5>1 DEF Jumps
        <5> QED BY <5>1, <5>2
      <4> QED BY <4>1, <4>2 DEF Leaders
    <3> QED BY <3>1, <3>2, <3>3 DEF FoundBlocks
  <2> QED BY <1>7, <2>1, <2>2
<1>9. ASSUME NEW k \in 1 .. n, NEW l \in 1 .. n, list[k] = list[l] PROVE k = l
  <2> DEFINE e == at((n - k) + 1)
             o == at((n - l) + 1)
  <2>1. /\ e \in FirstFound(p) /\ o \in FirstFound(p) /\ e[2] = o[2]
        /\ Rank(p, e) = ((n - k) + 1) - 1 /\ Rank(p, o) = ((n - l) + 1) - 1
    BY <1>3, <1>7, <1>9
  <2> HIDE DEF e, o
  <2>2. /\ e \in FoundBlocks(p) /\ o \in FoundBlocks(p)
        /\ e[1] <= o[1] /\ o[1] <= e[1]
    BY <2>1 DEF FirstFound
  <2>3. e[1] = o[1]
    BY <2>2, FoundType
  <2>4. e = o
    BY <2>2, <2>3, FoundType
  <2> QED BY <1>1, <2>1, <2>4
<1>10. list[n] = 1
  <2> DEFINE e == <<2 * 1, 1>>
  <2>1. p[1].op = "Enter" /\ DOMAIN p = 1 .. Len(p) /\ Len(p) \in Nat /\ 1 \in DOMAIN p
    BY DEF WellFormed
  <2>2. e \in FoundBlocks(p)
    BY <2>1 DEF FoundBlocks
  <2>3. \A o \in FoundBlocks(p) : e[1] <= o[1]
    <3> TAKE o \in FoundBlocks(p)
    <3>1. \E i \in DOMAIN p : o[1] = 2 * i \/ o[1] = 2 * i + 1
      BY DEF FoundBlocks
    <3>2. PICK i \in DOMAIN p : o[1] = 2 * i \/ o[1] = 2 * i + 1
      BY <3>1
    <3>3. i \in Nat /\ 1 <= i
      BY <2>1
    <3>4. e[1] = 2
      OBVIOUS
    <3> HIDE DEF e
    <3> QED BY <3>2, <3>3, <3>4
  <2>4. e \in FirstFound(p) /\ e[2] = 1
    BY <2>2, <2>3 DEF FirstFound
  <2> HIDE DEF e
  <2>5. Rank(p, e) = 0
    <3>1. {o \in FirstFound(p) : o[1] < e[1]} = {}
      <4> SUFFICES ASSUME NEW o \in FirstFound(p), o[1] < e[1] PROVE FALSE
        OBVIOUS
      <4>1. o \in FoundBlocks(p) /\ e[1] <= o[1]
        BY <2>3 DEF FirstFound
      <4>2. o[1] \in Nat /\ e[1] \in Nat
        BY <4>1, <2>2, FoundType
      <4> QED BY <4>1, <4>2
    <3> QED BY <3>1, FS_EmptySet DEF Rank
  <2>6. n # 0 /\ n \in 1 .. n /\ (n - n) + 1 = 1
    BY <1>1, <1>4, <1>6 DEF WalksAll
  <2>7. list[n] = at(1)[2] /\ at(1) \in FirstFound(p) /\ Rank(p, at(1)) = 1 - 1
    BY <1>3, <1>7, <2>6
  <2>8. at(1) = e
    BY <2>4, <2>5, <2>7, RankUnique
  <2> QED BY <2>4, <2>7, <2>8
<1> QED BY <1>4, <1>6, <1>8, <1>9, <1>10 DEF Listed, WalksAll, list, order

\* The list is as long as there are blocks.
LEMMA ListLength ==
  ASSUME NEW p, WellFormed(p), NEW list, Listed(p, list)
  PROVE  /\ IsFiniteSet(Leaders(p)) /\ Cardinality(Leaders(p)) = Len(list)
         /\ ToSet(list) = Leaders(p)
<1>1. Len(list) \in Nat /\ DOMAIN list = 1 .. Len(list)
  BY DEF Listed
<1>2. IsFiniteSet(1 .. Len(list)) /\ Cardinality(1 .. Len(list)) = Len(list)
  <2>1. /\ IsFiniteSet(1 .. Len(list))
        /\ Cardinality(1 .. Len(list)) = IF 1 > Len(list) THEN 0 ELSE Len(list) - 1 + 1
    BY <1>1, FS_Interval
  <2> QED BY <1>1, <2>1
<1> DEFINE f == [k \in 1 .. Len(list) |-> list[k]]
<1>3. f \in [1 .. Len(list) -> Leaders(p)]
  BY <1>1 DEF Listed
<1>4. \A k, l \in 1 .. Len(list) : f[k] = f[l] => k = l
  BY <1>1 DEF Listed
<1>5. \A b \in Leaders(p) : \E k \in 1 .. Len(list) : f[k] = b
  BY <1>1 DEF Listed
<1>6. f \in Bijection(1 .. Len(list), Leaders(p))
  <2> HIDE DEF f
  <2> QED BY <1>3, <1>4, <1>5 DEF Bijection, Injection, Surjection, IsInjective
<1>7. ExistsBijection(1 .. Len(list), Leaders(p))
  BY <1>6 DEF ExistsBijection
<1>8. IsFiniteSet(Leaders(p)) /\ Cardinality(Leaders(p)) = Len(list)
  BY <1>2, <1>7, FS_Bijection
<1>9. ToSet(list) = Leaders(p)
  BY DEF ToSet, Listed
<1> QED BY <1>8, <1>9

\* The function entry is the one block without parents.
LEMMA OnlyEntryHasNoParents ==
  ASSUME NEW p, WellFormed(p), JumpsToLabels(p), NEW blk, Partition(p, blk)
  PROVE  /\ Parents(Edges(p, blk), 1) = {}
         /\ \A b \in Leaders(p) \ {1} : Parents(Edges(p, blk), b) # {}
         /\ \A b : Parents(Edges(p, blk), b) \subseteq Leaders(p)
<1>1. /\ DOMAIN p = 1 .. Len(p) /\ Len(p) \in Nat /\ 1 \in DOMAIN p /\ p[1].op = "Enter"
      /\ \A i \in DOMAIN p : p[i].op \notin Jumps => p[i].jump_to = 0
      /\ DOMAIN blk = DOMAIN p
  BY DEF WellFormed, Partition
<1>2. ASSUME NEW e \in Edges(p, blk) PROVE e[2] # 1 /\ e[1] \in Leaders(p)
  <2>1. CASE \E j \in DOMAIN p \ {1} : blk[j] = j /\ e = <<blk[j - 1], j>>
    <3>1. PICK j \in DOMAIN p \ {1} : blk[j] = j /\ e = <<blk[j - 1], j>>
      BY <2>1
    <3>2. j - 1 \in DOMAIN p
      BY <1>1
    <3> QED BY <3>1, <3>2 DEF Partition
  <2>2. CASE \E j \in DOMAIN p : p[j].op \in Jumps /\ e = <<blk[j], p[j].jump_to>>
    <3>1. PICK j \in DOMAIN p : p[j].op \in Jumps /\ e = <<blk[j], p[j].jump_to>>
      BY <2>2
    <3>2. p[p[j].jump_to].op = "Label"
      BY <3>1 DEF JumpsToLabels
    <3> QED BY <1>1, <3>1, <3>2 DEF Partition
  <2>3. \/ \E j \in DOMAIN p \ {1} : blk[j] = j /\ e = <<blk[j - 1], j>>
        \/ \E j \in DOMAIN p : p[j].op \in Jumps /\ e = <<blk[j], p[j].jump_to>>
    BY <1>1 DEF Edges
  <2> QED BY <2>1, <2>2, <2>3
<1>3. ASSUME NEW b \in Leaders(p) \ {1} PROVE \E e \in Edges(p, blk) : e[2] = b
  <2>1. b \in DOMAIN p \ {1} /\ b \in Nat /\ b - 1 \in DOMAIN p /\ blk[b] = b
    BY <1>1, LeadersType, BlockOfLeader
  <2>2. CASE p[b - 1].jump_to # b
    <3>1. <<blk[b - 1], b>> \in Edges(p, blk)
      BY <1>1, <2>1, <2>2 DEF Edges
    <3> QED BY <3>1
  <2>3. CASE p[b - 1].jump_to = b
    <3>1. p[b - 1].op \in Jumps
      BY <1>1, <2>1, <2>3
    <3>2. b - 1 # 1
      BY <1>1, <3>1 DEF Jumps
    <3>3. <<blk[b - 1], p[b - 1].jump_to>> \in Edges(p, blk)
      BY <1>1, <2>1, <3>1, <3>2 DEF Edges
    <3> QED BY <2>3, <3>3
  <2> QED BY <2>2, <2>3
<1> QED BY <1>2, <1>3 DEF Parents

-----------------------------------------------------------------------------
(***************************************************************************)
(* The inductive invariant.                                                *)
(***************************************************************************)

\* What is built is that of the function, part after part.
Built ==
  /\ prog \in Programs
  /\ created_blocks # <<>> => created_blocks = Reverse(CreationOrder(prog))
  /\ block # <<>> =>
       created_blocks # <<>> /\ block = BlockMap(prog) /\ edges = Edges(prog, block)
  /\ dominators # <<>> => block # <<>>
  /\ dominators = <<>> => node = 1 /\ pc = 0

Equation(b) == dominators[b] = {b} \cup get_dominators_from_predecessors(b)

\* While nothing has changed in this round, the blocks passed satisfy their
\* equations.
Iterating ==
  dominators # <<>> =>
    /\ dominators \in [GraphBlocks -> SUBSET GraphBlocks]
    /\ node \in 1 .. NumBlocks
    /\ dominators[1] = {1}
    /\ stable => \A k \in 1 .. node - 1 : Equation(created_blocks[k])

\* The function is executed when all blocks but the entry satisfy theirs.
Executing ==
  pc # 0 =>
    /\ dominators # <<>> /\ pc \in DOMAIN prog
    /\ stable /\ node = NumBlocks
    /\ dominators[block[pc]] \subseteq visited

FlowInv == Built /\ Iterating /\ Executing

\* No set has lost a dominator.
NoneLost ==
  dominators # <<>> =>
    \A d \in GraphBlocks : \A b \in GraphBlocks \ Avoiding(d) : d \in dominators[b]

-----------------------------------------------------------------------------
\* What the proofs use of what is built.
LEMMA FlowFacts ==
  ASSUME Built
  PROVE  /\ WellFormed(prog) /\ JumpsToLabels(prog)
         /\ created_blocks # <<>> =>
              /\ Listed(prog, created_blocks)
              /\ GraphBlocks = Leaders(prog) /\ IsFiniteSet(GraphBlocks)
              /\ NumBlocks = Cardinality(GraphBlocks) /\ NumBlocks \in Nat \ {0}
              /\ NumBlocks = Cardinality(Leaders(prog)) /\ 1 \in GraphBlocks
         /\ block # <<>> =>
              /\ created_blocks # <<>> /\ Partition(prog, block)
              /\ edges = Edges(prog, block) /\ block[1] = 1
              /\ Parents(edges, 1) = {}
              /\ \A b \in GraphBlocks \ {1} : Parents(edges, b) # {}
              /\ \A b : Parents(edges, b) \subseteq GraphBlocks
              /\ \A e \in edges : e = <<e[1], e[2]>> /\ e[1] \in GraphBlocks /\ e[2] \in GraphBlocks
<1>1. WellFormed(prog) /\ JumpsToLabels(prog)
  BY GraphAssumption DEF Built
<1>2. ASSUME created_blocks # <<>>
      PROVE  /\ Listed(prog, created_blocks)
             /\ GraphBlocks = Leaders(prog) /\ IsFiniteSet(GraphBlocks)
             /\ NumBlocks = Cardinality(GraphBlocks) /\ NumBlocks \in Nat \ {0}
             /\ NumBlocks = Cardinality(Leaders(prog)) /\ 1 \in GraphBlocks
  <2>1. Listed(prog, created_blocks)
    BY <1>1, <1>2, BlocksListed DEF Built
  <2>2. Len(created_blocks) \in Nat \ {0}
    BY <2>1 DEF Listed
  <2> QED BY <1>1, <2>1, <2>2, ListLength, LeadersType DEF GraphBlocks, NumBlocks
<1>3. ASSUME block # <<>>
      PROVE  /\ created_blocks # <<>> /\ Partition(prog, block)
             /\ edges = Edges(prog, block) /\ block[1] = 1
             /\ Parents(edges, 1) = {}
             /\ \A b \in GraphBlocks \ {1} : Parents(edges, b) # {}
             /\ \A b : Parents(edges, b) \subseteq GraphBlocks
             /\ \A e \in edges : e = <<e[1], e[2]>> /\ e[1] \in GraphBlocks /\ e[2] \in GraphBlocks
  <2>1. created_blocks # <<>> /\ Partition(prog, block) /\ edges = Edges(prog, block)
    BY <1>1, <1>3, BlockMapPartition DEF Built
  <2>2. block[1] = 1
    BY <1>1, <2>1, LeadersType, BlockOfLeader
  <2>3. GraphBlocks = Leaders(prog)
    BY <1>2, <2>1
  <2>4. \A i \in DOMAIN block : block[i] \in GraphBlocks
    BY <2>1, <2>3 DEF Partition
  <2>5. \A e \in edges : e = <<e[1], e[2]>> /\ e[1] \in GraphBlocks /\ e[2] \in GraphBlocks
    BY <1>1, <2>1, <2>4, EdgesType
  <2> QED BY <1>1, <2>1, <2>2, <2>3, <2>5, OnlyEntryHasNoParents
<1> QED BY <1>1, <1>2, <1>3

\* find_dominators' inner loop stops at the function entry, the last block
\* of the list.
LEMMA LoopStopsAtEntry ==
  ASSUME Built, Iterating, dominators # <<>>
  PROVE  /\ HasNext <=> node < NumBlocks
         /\ node < NumBlocks => created_blocks[node] \in GraphBlocks \ {1}
<1>1. /\ block # <<>> /\ created_blocks # <<>> /\ node \in 1 .. NumBlocks
      /\ Listed(prog, created_blocks) /\ NumBlocks \in Nat \ {0}
      /\ Parents(edges, 1) = {} /\ GraphBlocks = Leaders(prog)
      /\ \A b \in GraphBlocks \ {1} : Parents(edges, b) # {}
  BY FlowFacts DEF Built, Iterating
<1>2. created_blocks[NumBlocks] = 1 /\ DOMAIN created_blocks = 1 .. NumBlocks
  BY <1>1 DEF Listed, NumBlocks
<1>3. node < NumBlocks => created_blocks[node] \in GraphBlocks \ {1}
  <2> SUFFICES ASSUME node < NumBlocks PROVE created_blocks[node] \in GraphBlocks \ {1}
    OBVIOUS
  <2>1. NumBlocks \in DOMAIN created_blocks /\ node # NumBlocks /\ node \in DOMAIN created_blocks
    BY <1>1, <1>2
  <2>2. created_blocks[node] # created_blocks[NumBlocks]
    BY <1>1, <2>1 DEF Listed
  <2> QED BY <1>1, <1>2, <2>1, <2>2 DEF Listed
<1>4. CASE node < NumBlocks
  BY <1>1, <1>3, <1>4 DEF HasNext
<1>5. CASE node = NumBlocks
  BY <1>1, <1>2, <1>5 DEF HasNext
<1> QED BY <1>1, <1>3, <1>4, <1>5

LEMMA InitFlow == InitGraph => FlowInv /\ NoneLost
BY DEF InitGraph, Start, FlowInv, Built, Iterating, Executing, NoneLost

\* The first loop of find_dominators.
LEMMA InitDominatorsFlow ==
  ASSUME FlowInv, InitDominators
  PROVE  FlowInv'
<1>1. /\ block # <<>> /\ dominators = <<>>
      /\ dominators' = [b \in GraphBlocks |-> IF Parents(edges, b) = {} THEN {b} ELSE UniverseSet]
      /\ UNCHANGED <<prog, created_blocks, block, edges, node, stable, pc, visited>>
  BY DEF InitDominators, graph
<1>2. node = 1 /\ pc = 0
  BY <1>1 DEF FlowInv, Built
<1>3. /\ created_blocks # <<>> /\ Parents(edges, 1) = {} /\ 1 \in GraphBlocks
      /\ NumBlocks \in Nat \ {0} /\ Listed(prog, created_blocks)
  BY <1>1, FlowFacts DEF FlowInv
<1>4. UniverseSet \subseteq GraphBlocks
  BY <1>3 DEF UniverseSet, GraphBlocks, ToSet, Listed, NumBlocks
<1>5. dominators' \in [GraphBlocks -> SUBSET GraphBlocks] /\ dominators'[1] = {1}
  BY <1>1, <1>3, <1>4
<1>6. GraphBlocks' = GraphBlocks /\ NumBlocks' = NumBlocks
  BY <1>1 DEF GraphBlocks, NumBlocks
<1>7. Built'
  BY <1>1, <1>2 DEF FlowInv, Built
<1>8. Iterating'
  <2>1. \A k \in 1 .. node - 1 : FALSE
    BY <1>2
  <2>2. node \in 1 .. NumBlocks
    BY <1>2, <1>3
  <2> QED BY <1>1, <1>5, <1>6, <2>1, <2>2 DEF Iterating
<1> QED BY <1>1, <1>2, <1>7, <1>8 DEF FlowInv, Executing

\* One block of find_dominators' inner loop.
LEMMA UpdateDominatorsFlow ==
  ASSUME FlowInv, UpdateDominators
  PROVE  FlowInv'
<1> DEFINE b == created_blocks[node]
           new == {b} \cup get_dominators_from_predecessors(b)
<1>1. /\ pc = 0 /\ dominators # <<>> /\ HasNext
      /\ dominators' = [dominators EXCEPT ![b] = new]
      /\ stable' = (stable /\ new = dominators[b])
      /\ node' = node + 1
      /\ UNCHANGED <<prog, created_blocks, block, edges, pc, visited>>
  BY DEF UpdateDominators, graph
<1>2. /\ node < NumBlocks /\ b \in GraphBlocks \ {1}
      /\ dominators \in [GraphBlocks -> SUBSET GraphBlocks]
      /\ node \in 1 .. NumBlocks /\ dominators[1] = {1}
      /\ NumBlocks \in Nat \ {0} /\ 1 \in GraphBlocks
  BY <1>1, LoopStopsAtEntry, FlowFacts DEF FlowInv, Iterating, Built
<1>3. new \in SUBSET GraphBlocks
  BY <1>2 DEF get_dominators_from_predecessors
<1> HIDE DEF b, new
<1>4. dominators' \in [GraphBlocks -> SUBSET GraphBlocks] /\ dominators'[1] = {1}
  BY <1>1, <1>2, <1>3
<1>5. dominators' # <<>>
  BY <1>2, <1>4
<1>6. GraphBlocks' = GraphBlocks /\ NumBlocks' = NumBlocks /\ node' \in 1 .. NumBlocks
  BY <1>1, <1>2 DEF GraphBlocks, NumBlocks
<1>7. Built'
  BY <1>1, <1>5 DEF FlowInv, Built
<1>8. ASSUME stable', NEW k \in 1 .. node' - 1 PROVE Equation(created_blocks[k])'
  <2>1. stable /\ dominators' = dominators /\ new = dominators[b]
    BY <1>1, <1>2, <1>3, <1>8
  <2>2. CASE k = node
    <3>1. Equation(created_blocks[k])
      BY <2>1, <2>2 DEF Equation, b, new
    <3> QED BY <1>1, <2>1, <3>1 DEF Equation, get_dominators_from_predecessors, GraphBlocks
  <2>3. CASE k # node
    <3>1. k \in 1 .. node - 1
      BY <1>1, <1>2, <2>3
    <3>2. Equation(created_blocks[k])
      BY <1>1, <2>1, <3>1 DEF FlowInv, Iterating
    <3> QED BY <1>1, <2>1, <3>2 DEF Equation, get_dominators_from_predecessors, GraphBlocks
  <2> QED BY <2>2, <2>3
<1>9. Iterating'
  BY <1>1, <1>4, <1>6, <1>8 DEF Iterating
<1> QED BY <1>1, <1>7, <1>9 DEF FlowInv, Executing

\* An instruction is executed: control goes along the graph, and what
\* dominates the block come to dominates the block left, or is itself.
LEMMA ExecuteFlow ==
  ASSUME FlowInv, NEW j \in DOMAIN prog, Execute(j)
  PROVE  FlowInv'
<1>1. /\ pc # 0 /\ j \in Successors(prog, pc) /\ pc' = j
      /\ visited' = visited \cup {block[j]}
      /\ UNCHANGED <<prog, created_blocks, block, edges, dominators, node, stable>>
  BY DEF Execute, graph
<1>2. /\ dominators # <<>> /\ pc \in DOMAIN prog /\ stable /\ node = NumBlocks
      /\ dominators[block[pc]] \subseteq visited /\ block # <<>>
  BY <1>1 DEF FlowInv, Executing, Built
<1>3. /\ WellFormed(prog) /\ Partition(prog, block) /\ edges = Edges(prog, block)
      /\ GraphBlocks = Leaders(prog) /\ Listed(prog, created_blocks)
      /\ NumBlocks \in Nat \ {0} /\ created_blocks # <<>> /\ Parents(edges, 1) = {}
  BY <1>2, FlowFacts DEF FlowInv
<1>4. dominators[block[j]] \subseteq visited'
  <2>1. CASE block[j] = block[pc]
    BY <1>1, <1>2, <2>1
  <2>2. CASE block[j] = j /\ <<block[pc], j>> \in edges
    <3>1. block[pc] \in Parents(edges, j) /\ j \in GraphBlocks
      <4>1. <<block[pc], j>>[1] = block[pc] /\ <<block[pc], j>>[2] = j
        OBVIOUS
      <4>2. block[pc] \in Parents(edges, j)
        BY <2>2, <4>1 DEF Parents
      <4> QED BY <1>3, <2>2, <4>2 DEF Partition
    <3>2. PICK k \in DOMAIN created_blocks : created_blocks[k] = j
      BY <1>3, <3>1 DEF Listed
    <3>3. k \in 1 .. node - 1
      <4>1. k # NumBlocks
        BY <1>3, <3>1, <3>2 DEF Listed, NumBlocks
      <4>2. k \in 1 .. NumBlocks
        BY <1>3 DEF Listed, NumBlocks
      <4> QED BY <1>2, <1>3, <4>1, <4>2
    <3>4. Equation(j)
      BY <1>2, <3>2, <3>3 DEF FlowInv, Iterating
    <3>5. dominators[j] \subseteq {j} \cup dominators[block[pc]]
      BY <3>1, <3>4 DEF Equation, get_dominators_from_predecessors
    <3> QED BY <1>1, <1>2, <2>2, <3>5
  <2> QED BY <1>1, <1>2, <1>3, <2>1, <2>2, ControlFollowsGraph
<1>5. Built' /\ Iterating'
  BY <1>1, <1>2 DEF FlowInv, Built, Iterating, Equation, get_dominators_from_predecessors,
                    GraphBlocks, NumBlocks
<1>6. Executing'
  BY <1>1, <1>2, <1>4 DEF Executing, NumBlocks
<1> QED BY <1>5, <1>6 DEF FlowInv

LEMMA NextFlow ==
  ASSUME FlowInv, [NextGraph]_graph_vars
  PROVE  FlowInv'
<1>1. CASE find_block_leaders
  BY <1>1 DEF find_block_leaders, FlowInv, Built, Iterating, Executing
<1>2. CASE update_blocks
  BY <1>2 DEF update_blocks, FlowInv, Built, Iterating, Executing
<1>3. CASE InitDominators
  BY <1>3, InitDominatorsFlow
<1>4. CASE UpdateDominators
  BY <1>4, UpdateDominatorsFlow
<1>5. CASE NextRound
  <2>1. /\ pc = 0 /\ dominators # <<>> /\ node' = 1
        /\ UNCHANGED <<prog, created_blocks, block, edges, dominators, pc, visited>>
    BY <1>5 DEF NextRound, graph
  <2>2. 1 \in 1 .. NumBlocks /\ \A k \in 1 .. 1 - 1 : FALSE
    <3>1. NumBlocks \in Nat \ {0}
      BY <2>1, FlowFacts DEF FlowInv, Built
    <3> QED BY <3>1
  <2>3. GraphBlocks' = GraphBlocks /\ NumBlocks' = NumBlocks
    BY <2>1 DEF GraphBlocks, NumBlocks
  <2>4. Iterating'
    BY <2>1, <2>2, <2>3 DEF FlowInv, Iterating
  <2> QED BY <2>1, <2>4 DEF FlowInv, Built, Executing
<1>6. CASE Enter
  <2>1. /\ dominators # <<>> /\ ~HasNext /\ stable /\ pc' = 1 /\ visited' = {1}
        /\ UNCHANGED <<prog, created_blocks, block, edges, dominators, node, stable>>
    BY <1>6 DEF Enter, graph
  <2>2. /\ block # <<>> /\ block[1] = 1 /\ dominators[1] = {1} /\ NumBlocks \in Nat \ {0}
        /\ node \in 1 .. NumBlocks /\ WellFormed(prog)
    BY <2>1, FlowFacts DEF FlowInv, Built, Iterating
  <2>3. node = NumBlocks
    BY <2>1, <2>2, LoopStopsAtEntry DEF FlowInv
  <2>4. 1 \in DOMAIN prog
    BY <2>2, LeadersType
  <2>5. Built' /\ Iterating'
    BY <2>1 DEF FlowInv, Built, Iterating, Equation, get_dominators_from_predecessors,
                GraphBlocks, NumBlocks
  <2>6. Executing'
    BY <2>1, <2>2, <2>3, <2>4 DEF Executing, NumBlocks
  <2> QED BY <2>5, <2>6 DEF FlowInv
<1>7. CASE \E j \in DOMAIN prog : Execute(j)
  BY <1>7, ExecuteFlow
<1>8. CASE UNCHANGED graph_vars
  BY <1>8 DEF graph_vars, graph, FlowInv, Built, Iterating, Executing, Equation,
              get_dominators_from_predecessors, GraphBlocks, NumBlocks
<1> QED BY <1>1, <1>2, <1>3, <1>4, <1>5, <1>6, <1>7, <1>8 DEF NextGraph, Build

LEMMA SpecFlow == SpecGraph => []FlowInv
<1>1. InitGraph => FlowInv
  BY InitFlow
<1>2. FlowInv /\ [NextGraph]_graph_vars => FlowInv'
  BY NextFlow
<1> QED BY <1>1, <1>2, PTL DEF SpecGraph

\* An execution stays in a block, one instruction after the other, or goes
\* from its last instruction along an edge to a leader (find_block_leaders,
\* connect_blocks).
THEOREM GraphHasTransfers == SpecGraph => TransfersAreEdges
<1>1. ASSUME FlowInv, [NextGraph]_graph_vars
      PROVE  [pc # 0 /\ pc' # pc =>
                \/ block[pc'] = block[pc] /\ pc' = pc + 1
                \/ /\ pc' = block[pc']
                   /\ <<block[pc], pc'>> \in edges
                   /\ \A i \in DOMAIN prog : block[i] = block[pc] => i <= pc]_graph_vars
  <2> SUFFICES ASSUME pc # 0, pc' # pc
               PROVE  \/ block[pc'] = block[pc] /\ pc' = pc + 1
                      \/ /\ pc' = block[pc']
                         /\ <<block[pc], pc'>> \in edges
                         /\ \A i \in DOMAIN prog : block[i] = block[pc] => i <= pc
    OBVIOUS
  <2>1. PICK j \in DOMAIN prog : Execute(j)
    BY <1>1 DEF NextGraph, Build, find_block_leaders, update_blocks, InitDominators,
                UpdateDominators, NextRound, Enter, graph_vars
  <2>2. j \in Successors(prog, pc) /\ pc' = j /\ pc \in DOMAIN prog /\ block # <<>>
    BY <1>1, <2>1 DEF Execute, FlowInv, Executing, Built
  <2>3. WellFormed(prog) /\ Partition(prog, block) /\ edges = Edges(prog, block)
    BY <1>1, <2>2, FlowFacts DEF FlowInv
  <2>4. ASSUME pc = last_instruction(block, block[pc]), NEW i \in DOMAIN prog, block[i] = block[pc]
        PROVE  i <= pc
    BY <2>2, <2>3, <2>4, BlockIsInterval
  <2> QED BY <2>2, <2>3, <2>4, ControlFollowsGraph
<1> QED BY <1>1, SpecFlow, PTL DEF SpecGraph, TransfersAreEdges

\* find_dominators claims no dominator too many: every execution that comes
\* to a block has come through the blocks in its set.
THEOREM DominatorsNeverTooMany == SpecGraph => []DominatorsSound
<1>1. FlowInv => DominatorsSound
  BY DEF FlowInv, Executing, DominatorsSound
<1> QED BY <1>1, SpecFlow, PTL

-----------------------------------------------------------------------------
(***************************************************************************)
(* Nor does find_dominators miss a dominator.                              *)
(***************************************************************************)

\* One round of Avoiding.
Reached(d, known) == known \cup ((UNION {Children(edges, b) : b \in known}) \ {d})

\* Avoiding reaches all the blocks it can.
LEMMA AvoidingClosed ==
  ASSUME Built, block # <<>>, NEW d
  PROVE  /\ {1} \ {d} \subseteq Avoiding(d)
         /\ Reached(d, Avoiding(d)) = Avoiding(d)
<1> DEFINE S == SUBSET GraphBlocks
           gen == {1} \ {d}
           E == {<<e[2], e[1]>> : e \in edges}
           Step(s) == Reached(d, s)
           F == [s \in S |-> Step(s)]
           Iterated(f) == [k \in Nat |-> IF k = 0 THEN gen ELSE Step(f[k - 1])]
<1>1. /\ IsFiniteSet(GraphBlocks) /\ NumBlocks = Cardinality(GraphBlocks)
      /\ NumBlocks \in Nat /\ gen \in S
      /\ \A e \in edges : e = <<e[1], e[2]>> /\ e[2] \in GraphBlocks
  BY FlowFacts
<1>2. \A s : UNION {Children(edges, b) : b \in s} = Before(E, s)
  <2> TAKE s
  <2>1. ASSUME NEW c \in UNION {Children(edges, b) : b \in s} PROVE c \in Before(E, s)
    <3>1. PICK e \in edges : e[1] \in s /\ e[2] = c
      BY DEF Children
    <3>2. <<e[2], e[1]>> \in E /\ <<e[2], e[1]>>[2] = e[1] /\ <<e[2], e[1]>>[1] = c
      BY <3>1
    <3> QED BY <3>1, <3>2 DEF Before
  <2>2. ASSUME NEW c \in Before(E, s) PROVE c \in UNION {Children(edges, b) : b \in s}
    <3>1. PICK e \in edges : <<e[2], e[1]>>[2] \in s /\ <<e[2], e[1]>>[1] = c
      BY DEF Before
    <3>2. c \in Children(edges, e[1]) /\ e[1] \in s
      BY <3>1 DEF Children
    <3> QED BY <3>2
  <2> QED BY <2>1, <2>2
<1> HIDE DEF E
<1>3. ASSUME NEW s \in S PROVE Step(s) \in S
  BY <1>1 DEF Children, Reached
<1>4. PICK f \in [Nat -> S] : f[0] = gen /\ \A k \in Nat : f[k + 1] = F[f[k]]
  <2>1. F \in [S -> S]
    BY <1>3
  <2> HIDE DEF F, S
  <2> QED BY <1>1, <2>1, Iteration, SMTT(30) DEF Iterable
<1>5. f = Iterated(f)
  <2>1. \A k \in Nat : f[k + 1] = Step(f[k])
    BY <1>4
  <2>2. ASSUME NEW k \in Nat, k # 0 PROVE f[k] = Step(f[k - 1])
    <3>1. k - 1 \in Nat /\ (k - 1) + 1 = k
      BY <2>2
    <3> HIDE DEF Step
    <3> QED BY <2>1, <3>1
  <2>3. f = [k \in Nat |-> f[k]]
    BY <1>4
  <2> HIDE DEF Step, S
  <2> QED BY <1>4, <2>2, <2>3
<1> DEFINE g == CHOOSE h : h = Iterated(h)
<1>6. Avoiding(d) = g[NumBlocks]
  BY DEF Avoiding, Reached
<1>7. g = Iterated(g)
  <2> HIDE DEF Iterated
  <2> QED BY <1>5
<1> HIDE DEF g
<1>8. g[0] = gen
  BY <1>7
<1>9. ASSUME NEW k \in Nat PROVE g[k + 1] = Step(g[k])
  <2>1. k + 1 \in Nat /\ k + 1 # 0 /\ (k + 1) - 1 = k
    OBVIOUS
  <2> HIDE DEF Step
  <2> QED BY <1>7, <2>1
<1>10. g \in [Nat -> S]
  <2> DEFINE T == {k \in Nat : g[k] \in S}
  <2>1. 0 \in T
    BY <1>1, <1>8
  <2>2. ASSUME NEW k \in Nat, k \in T PROVE k + 1 \in T
    <3> HIDE DEF Step, S
    <3> QED BY <2>2, <1>9, <1>3
  <2>3. \A k \in Nat : k \in T
    <3> HIDE DEF T
    <3> QED BY <2>1, <2>2, SetInduction
  <2>4. g = [k \in Nat |-> g[k]]
    <3> HIDE DEF Step
    <3> QED BY <1>7
  <2> QED BY <2>3, <2>4
<1>11. ASSUME NEW k \in Nat PROVE g[k + 1] = g[k] \cup (Before(E, g[k]) \ {d})
  <2>1. UNION {Children(edges, b) : b \in g[k]} = Before(E, g[k])
    BY <1>2
  <2>2. Reached(d, g[k]) = g[k] \cup ((UNION {Children(edges, b) : b \in g[k]}) \ {d})
    BY DEF Reached
  <2>3. g[k + 1] = Reached(d, g[k])
    BY <1>9
  <2> QED BY <2>1, <2>2, <2>3
<1>12. \A k \in Nat : gen \subseteq g[k] /\ g[k] \subseteq gen \cup (Before(E, g[k]) \ {d})
  <2> DEFINE T == {k \in Nat : gen \subseteq g[k] /\ g[k] \subseteq gen \cup (Before(E, g[k]) \ {d})}
  <2>1. 0 \in T
    BY <1>8
  <2>2. ASSUME NEW k \in Nat, k \in T PROVE k + 1 \in T
    <3>1. g[k + 1] = g[k] \cup (Before(E, g[k]) \ {d})
      BY <1>11
    <3>2. Before(E, g[k]) \subseteq Before(E, g[k + 1])
      BY <3>1 DEF Before
    <3>3. gen \subseteq g[k] /\ g[k] \subseteq gen \cup (Before(E, g[k]) \ {d})
      BY <2>2
    <3> HIDE DEF gen
    <3>4. /\ gen \subseteq g[k + 1]
          /\ g[k + 1] \subseteq gen \cup (Before(E, g[k + 1]) \ {d})
      BY <3>1, <3>2, <3>3
    <3> QED BY <3>4
  <2> HIDE DEF T
  <2>3. \A k \in Nat : k \in T
    BY <2>1, <2>2, SetInduction
  <2> QED BY <2>3 DEF T
<1>13. Rounds(g, gen, {d}, E)
  <2> SUFFICES ASSUME NEW k \in Nat PROVE g[k + 1] = gen \cup (Before(E, g[k]) \ {d})
    BY <1>8 DEF Rounds
  <2>1. g[k + 1] = g[k] \cup (Before(E, g[k]) \ {d})
    BY <1>11
  <2>2. gen \subseteq g[k] /\ g[k] \subseteq gen \cup (Before(E, g[k]) \ {d})
    BY <1>12
  <2> HIDE DEF gen
  <2> QED BY <2>1, <2>2
<1>14. g[NumBlocks + 1] = g[NumBlocks]
  <2> HIDE DEF gen
  <2> QED BY <1>1, <1>10, <1>13, RoundsEnd
<1>15. g[NumBlocks + 1] = Step(g[NumBlocks])
  BY <1>1, <1>9
<1>16. gen \subseteq g[NumBlocks]
  BY <1>1, <1>12
<1> HIDE DEF gen
<1>17. Reached(d, Avoiding(d)) = Avoiding(d)
  BY <1>6, <1>14, <1>15
<1>18. gen \subseteq Avoiding(d)
  BY <1>6, <1>16
<1> QED BY <1>17, <1>18 DEF gen

\* What Avoiding leaves out: the entry only when it is what is avoided, and
\* another block only with its parents.
LEMMA LeftOut ==
  ASSUME Built, block # <<>>, NEW d, NEW b, b \notin Avoiding(d)
  PROVE  /\ b = 1 => d = 1
         /\ b # d => \A q \in Parents(edges, b) : q \notin Avoiding(d)
<1>1. b = 1 => d = 1
  BY AvoidingClosed
<1>2. ASSUME b # d, NEW q \in Parents(edges, b), q \in Avoiding(d) PROVE FALSE
  <2>1. b \in Children(edges, q)
    BY <1>2 DEF Parents, Children
  <2>2. ASSUME NEW known, q \in known PROVE b \in Reached(d, known)
    <3>1. b \in UNION {Children(edges, a) : a \in known}
      BY <2>1, <2>2
    <3> QED BY <3>1, <1>2 DEF Reached
  <2>3. b \in Reached(d, Avoiding(d))
    BY <2>2, <1>2
  <2> QED BY <2>3, AvoidingClosed
<1> QED BY <1>1, <1>2

\* The functions whose blocks create_full_set numbers all.
AllInFullSet(p) == (Cardinality(Leaders(p)) + 1) % BITS_PER_PARTITION # 0

LEMMA UniverseIsFull ==
  ASSUME Built, created_blocks # <<>>, AllInFullSet(prog)
  PROVE  UniverseSet = GraphBlocks
<1>1. (NumBlocks + 1) % BITS_PER_PARTITION # 0 /\ NumBlocks \in Nat \ {0}
  BY FlowFacts DEF AllInFullSet
<1>2. GraphBlocks = {created_blocks[k] : k \in 1 .. NumBlocks}
  BY FlowFacts DEF GraphBlocks, ToSet, NumBlocks, Listed
<1>3. {j \in 1 .. NumBlocks : \/ (NumBlocks + 1) % BITS_PER_PARTITION # 0
                              \/ NumBlocks - j < (NumBlocks + 1) - BITS_PER_PARTITION}
        = 1 .. NumBlocks
  BY <1>1
<1> QED BY <1>2, <1>3 DEF UniverseSet

LEMMA NextNoneLost ==
  ASSUME FlowInv, NoneLost, AllInFullSet(prog), [NextGraph]_graph_vars
  PROVE  NoneLost'
<1>1. CASE find_block_leaders \/ update_blocks
  BY <1>1 DEF find_block_leaders, update_blocks, FlowInv, Built, NoneLost
<1>2. CASE InitDominators
  <2>1. /\ block # <<>> /\ created_blocks # <<>>
        /\ dominators' = [b \in GraphBlocks |-> IF Parents(edges, b) = {} THEN {b} ELSE UniverseSet]
        /\ UNCHANGED <<created_blocks, edges>>
    BY <1>2 DEF InitDominators, graph, FlowInv, Built
  <2>2. /\ UniverseSet = GraphBlocks
        /\ \A b \in GraphBlocks \ {1} : Parents(edges, b) # {}
    BY <2>1, UniverseIsFull, FlowFacts DEF FlowInv
  <2>3. GraphBlocks' = GraphBlocks /\ \A d : Avoiding(d)' = Avoiding(d)
    BY <2>1 DEF GraphBlocks, Avoiding, NumBlocks
  <2> SUFFICES ASSUME NEW d \in GraphBlocks, NEW b \in GraphBlocks, b \notin Avoiding(d)
               PROVE  d \in dominators'[b]
    BY <2>3 DEF NoneLost
  <2>4. CASE b = 1
    <3>1. d = 1
      BY <2>1, <2>4, LeftOut DEF FlowInv
    <3> QED BY <2>1, <2>2, <2>4, <3>1
  <2>5. CASE b # 1
    BY <2>1, <2>2, <2>5
  <2> QED BY <2>4, <2>5
<1>3. CASE UpdateDominators
  <2> DEFINE c == created_blocks[node]
             new == {c} \cup get_dominators_from_predecessors(c)
  <2>1. /\ dominators # <<>> /\ HasNext /\ block # <<>>
        /\ dominators' = [dominators EXCEPT ![c] = new]
        /\ UNCHANGED <<created_blocks, edges>>
    BY <1>3 DEF UpdateDominators, graph, FlowInv, Built
  <2>2. /\ dominators \in [GraphBlocks -> SUBSET GraphBlocks] /\ c \in GraphBlocks
        /\ \A b : Parents(edges, b) \subseteq GraphBlocks
    BY <2>1, LoopStopsAtEntry, FlowFacts DEF FlowInv, Iterating
  <2>3. GraphBlocks' = GraphBlocks /\ \A d : Avoiding(d)' = Avoiding(d)
    BY <2>1 DEF GraphBlocks, Avoiding, NumBlocks
  <2>4. ASSUME NEW d \in GraphBlocks, c \notin Avoiding(d) PROVE d \in new
    <3>1. CASE c = d
      BY <3>1
    <3>2. CASE c # d
      <4>1. ASSUME NEW q \in Parents(edges, c) PROVE d \in dominators[q]
        <5>1. q \notin Avoiding(d)
          BY <2>1, <2>4, <3>2, LeftOut DEF FlowInv
        <5> QED BY <2>1, <2>2, <5>1 DEF NoneLost
      <4> QED BY <4>1 DEF get_dominators_from_predecessors
    <3> QED BY <3>1, <3>2
  <2> HIDE DEF c, new
  <2> SUFFICES ASSUME NEW d \in GraphBlocks, NEW b \in GraphBlocks, b \notin Avoiding(d)
               PROVE  d \in dominators'[b]
    BY <2>3 DEF NoneLost
  <2>5. CASE b = c
    BY <2>1, <2>2, <2>4, <2>5
  <2>6. CASE b # c
    BY <2>1, <2>2, <2>6 DEF NoneLost
  <2> QED BY <2>5, <2>6
<1>4. CASE \/ NextRound \/ Enter \/ UNCHANGED graph_vars
           \/ \E j \in DOMAIN prog : Execute(j)
  <2>1. UNCHANGED <<created_blocks, edges, dominators>>
    BY <1>4 DEF NextRound, Enter, Execute, graph_vars, graph
  <2>2. GraphBlocks' = GraphBlocks /\ \A d : Avoiding(d)' = Avoiding(d)
    BY <2>1 DEF GraphBlocks, Avoiding, NumBlocks
  <2> QED BY <2>1, <2>2 DEF NoneLost
<1> QED BY <1>1, <1>2, <1>3, <1>4 DEF NextGraph, Build

\* find_dominators is exact, as long as create_full_set has all the blocks:
\* the set of a block holds the blocks that every path of the graph from the
\* entry goes through, and only blocks that every execution has gone through.
THEOREM DominatorsAreExact ==
  ASSUME \A p \in Programs : AllInFullSet(p)
  PROVE  SpecGraph => []DominatorsExact
<1>1. InitGraph => FlowInv /\ NoneLost
  BY InitFlow
<1>2. FlowInv /\ NoneLost /\ [NextGraph]_graph_vars => (FlowInv /\ NoneLost)'
  BY NextFlow, NextNoneLost DEF FlowInv, Built
<1>3. FlowInv /\ NoneLost => DominatorsExact
  BY DEF FlowInv, Executing, DominatorsSound, NoneLost, DominatorsComplete, DominatorsExact
<1> QED BY <1>1, <1>2, <1>3, PTL DEF SpecGraph
=============================================================================
