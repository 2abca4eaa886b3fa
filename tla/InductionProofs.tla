-------------------------- MODULE InductionProofs ---------------------------
(***************************************************************************)
(* Induction and recursion on the natural numbers, over sets and functions *)
(* instead of operators, from the well-foundedness of <.                   *)
(***************************************************************************)
EXTENDS Integers, NaturalsInduction, WellFoundedInduction, TLAPS

\* Every nonempty set of natural numbers has a least element.
LEMMA LeastNatural ==
  ASSUME NEW T \in SUBSET Nat, T # {}
  PROVE  \E n \in T : \A m \in T : n <= m
<1>1. IsWellFoundedOn({e \in Nat \X Nat : e[1] < e[2]}, Nat)
  BY NatLessThanWellFounded DEF OpToRel
<1>2. PICK n \in T : \A m \in T : <<m, n>> \notin {e \in Nat \X Nat : e[1] < e[2]}
  BY <1>1, WFMin, Zenon
<1>3. ASSUME NEW m \in T PROVE n <= m
  <2>1. m \in Nat /\ n \in Nat
    OBVIOUS
  <2>2. <<m, n>> \notin {e \in Nat \X Nat : e[1] < e[2]}
    BY <1>2
  <2>3. ~ (m < n)
    BY <2>1, <2>2
  <2> QED BY <2>1, <2>3
<1> QED BY <1>3

\* A set of natural numbers that holds 0 and every successor holds them all.
LEMMA SetInduction ==
  ASSUME NEW T, 0 \in T, \A n \in Nat : n \in T => n + 1 \in T
  PROVE  \A n \in Nat : n \in T
<1> SUFFICES ASSUME Nat \ T # {} PROVE FALSE
  OBVIOUS
<1>1. PICK n \in Nat \ T : \A m \in Nat \ T : n <= m
  BY LeastNatural
<1>2. n # 0 /\ n - 1 \in Nat /\ n - 1 < n
  BY <1>1
<1>3. n - 1 \in T
  BY <1>1, <1>2
<1> QED BY <1>1, <1>2, <1>3

\* f iterates F from a up to n.
Iterates(f, n, a, F) == f[0] = a /\ \A k \in 0 .. n - 1 : f[k + 1] = F[f[k]]

\* Two iterations agree as far as both go.
LEMMA IteratesUnique ==
  ASSUME NEW n \in Nat, NEW m \in Nat, NEW a, NEW F, NEW f, NEW g,
         Iterates(f, n, a, F), Iterates(g, m, a, F)
  PROVE  \A k \in Nat : k <= n /\ k <= m => f[k] = g[k]
<1> DEFINE T == {k \in Nat : k <= n /\ k <= m => f[k] = g[k]}
<1>1. 0 \in T
  BY DEF Iterates
<1>2. ASSUME NEW k \in Nat, k \in T PROVE k + 1 \in T
  <2> SUFFICES ASSUME k + 1 <= n, k + 1 <= m PROVE f[k + 1] = g[k + 1]
    OBVIOUS
  <2>1. k \in 0 .. n - 1 /\ k \in 0 .. m - 1
    OBVIOUS
  <2>2. f[k] = g[k]
    BY <1>2, <2>1
  <2> QED BY <2>1, <2>2 DEF Iterates
<1> HIDE DEF T
<1>3. \A k \in Nat : k \in T
  BY <1>1, <1>2, SetInduction
<1> QED BY <1>3 DEF T

\* Iteration defines a function on the natural numbers.
Iterable(S, a, F) == \E f \in [Nat -> S] : f[0] = a /\ \A k \in Nat : f[k + 1] = F[f[k]]

LEMMA Iteration ==
  ASSUME NEW S, NEW a \in S, NEW F \in [S -> S]
  PROVE  Iterable(S, a, F)
<1> DEFINE T == {n \in Nat : \E f \in [0 .. n -> S] : Iterates(f, n, a, F)}
<1>1. 0 \in T
  <2>1. Iterates([k \in 0 .. 0 |-> a], 0, a, F)
    BY DEF Iterates
  <2>2. [k \in 0 .. 0 |-> a] \in [0 .. 0 -> S]
    OBVIOUS
  <2> QED BY <2>1, <2>2
<1>2. ASSUME NEW n \in Nat, n \in T PROVE n + 1 \in T
  <2>1. PICK f \in [0 .. n -> S] : Iterates(f, n, a, F)
    BY <1>2
  <2> DEFINE g == [k \in 0 .. n + 1 |-> IF k = n + 1 THEN F[f[n]] ELSE f[k]]
  <2>2. g \in [0 .. n + 1 -> S]
    OBVIOUS
  <2>3. ASSUME NEW k \in 0 .. (n + 1) - 1 PROVE g[k + 1] = F[g[k]]
    <3>1. CASE k = n
      BY <3>1
    <3>2. CASE k # n
      <4>1. k \in 0 .. n - 1 /\ k + 1 \in 0 .. n /\ k + 1 # n + 1 /\ k # n + 1
        BY <3>2
      <4> QED BY <4>1, <2>1 DEF Iterates
    <3> QED BY <3>1, <3>2
  <2>4. g[0] = a
    BY <2>1 DEF Iterates
  <2>5. Iterates(g, n + 1, a, F)
    BY <2>3, <2>4 DEF Iterates
  <2> QED BY <2>2, <2>5
<1>3. \A n \in Nat : n \in T
  <2> HIDE DEF T
  <2> QED BY <1>1, <1>2, SetInduction
<1> DEFINE c(n) == CHOOSE f \in [0 .. n -> S] : Iterates(f, n, a, F)
<1>4. \A n \in Nat : c(n) \in [0 .. n -> S] /\ Iterates(c(n), n, a, F)
  BY <1>3
<1> HIDE DEF c, T
<1> DEFINE f == [n \in Nat |-> c(n)[n]]
<1>5. f \in [Nat -> S]
  BY <1>4
<1>6. f[0] = a
  BY <1>4 DEF Iterates
<1>7. ASSUME NEW k \in Nat PROVE f[k + 1] = F[f[k]]
  <2>1. Iterates(c(k), k, a, F) /\ Iterates(c(k + 1), k + 1, a, F)
    BY <1>4
  <2>2. c(k)[k] = c(k + 1)[k]
    BY <2>1, IteratesUnique
  <2>3. c(k + 1)[k + 1] = F[c(k + 1)[k]]
    BY <2>1 DEF Iterates
  <2> QED BY <2>2, <2>3
<1> QED BY <1>5, <1>6, <1>7 DEF Iterable

\* Induction from the last element of an interval to its first.
LEMMA BackwardInduction ==
  ASSUME NEW b \in Int, NEW after \in Int, NEW T,
         after \in T, \A i \in b .. after - 1 : i + 1 \in T => i \in T
  PROVE  \A i \in b .. after : i \in T
<1> DEFINE U == {k \in Nat : after - k >= b => after - k \in T}
<1>1. 0 \in U
  OBVIOUS
<1>2. ASSUME NEW k \in Nat, k \in U PROVE k + 1 \in U
  <2> SUFFICES ASSUME after - (k + 1) >= b PROVE after - (k + 1) \in T
    OBVIOUS
  <2>1. after - k \in T /\ after - (k + 1) \in b .. after - 1 /\ (after - (k + 1)) + 1 = after - k
    BY <1>2
  <2> QED BY <2>1
<1>3. \A k \in Nat : k \in U
  <2> HIDE DEF U
  <2> QED BY <1>1, <1>2, SetInduction
<1>4. ASSUME NEW i \in b .. after PROVE i \in T
  <2>1. after - i \in Nat /\ after - (after - i) = i
    OBVIOUS
  <2>2. after - i \in U
    BY <1>3, <2>1
  <2> QED BY <2>1, <2>2
<1> QED BY <1>4

\* A nonempty bounded set of integers has a greatest element.
LEMMA GreatestInteger ==
  ASSUME NEW n \in Int, NEW T \in SUBSET Int, T # {}, \A i \in T : i <= n
  PROVE  \E i \in T : \A j \in T : j <= i
<1> DEFINE U == {k \in Nat : n - k \in T}
<1>1. PICK i \in T : TRUE
  OBVIOUS
<1>2. n - i \in U
  BY <1>1
<1>3. PICK k \in U : \A m \in U : k <= m
  <2> HIDE DEF U
  <2>1. U \in SUBSET Nat
    BY DEF U
  <2> QED BY <1>2, <2>1, LeastNatural
<1>4. ASSUME NEW j \in T PROVE j <= n - k
  <2>1. n - j \in U
    OBVIOUS
  <2>2. k <= n - j
    BY <1>3, <2>1
  <2> QED BY <2>2
<1> QED BY <1>3, <1>4

\* A function that calls itself last of all, with arguments of less and less
\* height, is defined.
TailRecursive(D, V, Stop, value, next) ==
  \E f \in [D -> V] : f = [x \in D |-> IF x \in Stop THEN value[x] ELSE f[next[x]]]

LEMMA TailRecursion ==
  ASSUME NEW D, NEW V, NEW Stop, NEW value \in [D -> V], NEW next \in [D -> D],
         NEW height \in [D -> Nat],
         \A x \in D : x \in Stop \/ height[next[x]] < height[x]
  PROVE  TailRecursive(D, V, Stop, value, next)
<1> DEFINE S == [D -> V]
           F == [g \in S |-> [x \in D |-> IF x \in Stop THEN value[x] ELSE g[next[x]]]]
<1>1. PICK it \in [Nat -> S] : it[0] = value /\ \A k \in Nat : it[k + 1] = F[it[k]]
  <2>1. F \in [S -> S]
    OBVIOUS
  <2> HIDE DEF F, S
  <2>2. value \in S
    BY DEF S
  <2>3. Iterable(S, value, F)
    BY <2>1, <2>2, Iteration
  <2> QED BY <2>3 DEF Iterable
<1>2. ASSUME NEW k \in Nat, NEW x \in D
      PROVE  it[k + 1][x] = IF x \in Stop THEN value[x] ELSE it[k][next[x]]
  <2>1. it[k] \in S /\ it[k + 1] = F[it[k]]
    BY <1>1
  <2>2. F[it[k]] = [y \in D |-> IF y \in Stop THEN value[y] ELSE it[k][next[y]]]
    BY <2>1
  <2> HIDE DEF F
  <2> QED BY <2>1, <2>2
<1> DEFINE T == {n \in Nat : \A x \in D : height[x] <= n => it[n + 1][x] = it[n][x]}
<1>3. 0 \in T
  <2> SUFFICES ASSUME NEW x \in D, height[x] <= 0 PROVE it[0 + 1][x] = it[0][x]
    OBVIOUS
  <2>1. x \in Stop
    <3>1. next[x] \in D /\ height[next[x]] \in Nat /\ height[x] \in Nat
      OBVIOUS
    <3> QED BY <3>1
  <2>2. it[0 + 1][x] = value[x]
    BY <2>1, <1>2
  <2> QED BY <2>2, <1>1
<1>4. ASSUME NEW n \in Nat, n \in T PROVE n + 1 \in T
  <2> SUFFICES ASSUME NEW x \in D, height[x] <= n + 1
               PROVE  it[(n + 1) + 1][x] = it[n + 1][x]
    OBVIOUS
  <2>1. CASE x \in Stop
    <3>1. it[n + 1][x] = value[x]
      BY <2>1, <1>2
    <3>2. n + 1 \in Nat
      OBVIOUS
    <3>3. it[(n + 1) + 1][x] = value[x]
      BY <2>1, <3>2, <1>2, Zenon
    <3> QED BY <3>1, <3>3
  <2>2. CASE x \notin Stop
    <3>1. next[x] \in D /\ height[next[x]] \in Nat /\ height[x] \in Nat
      OBVIOUS
    <3>2. height[next[x]] <= n
      BY <3>1, <2>2
    <3>3. it[n + 1][next[x]] = it[n][next[x]]
      BY <3>1, <3>2, <1>4
    <3> QED BY <3>3, <2>2, <1>2
  <2> QED BY <2>1, <2>2
<1>5. \A n \in Nat : n \in T
  <2> HIDE DEF T
  <2> QED BY <1>3, <1>4, SetInduction
<1> DEFINE U == {n \in Nat : \A x \in D : height[x] <= n => it[n][x] = it[height[x]][x]}
<1>6. 0 \in U
  <2> SUFFICES ASSUME NEW x \in D, height[x] <= 0 PROVE height[x] = 0
    OBVIOUS
  <2>1. height[x] \in Nat
    OBVIOUS
  <2> QED BY <2>1
<1>7. ASSUME NEW n \in Nat, n \in U PROVE n + 1 \in U
  <2> SUFFICES ASSUME NEW x \in D, height[x] <= n + 1, height[x] # n + 1
               PROVE  it[n + 1][x] = it[height[x]][x]
    OBVIOUS
  <2>1. height[x] <= n
    <3>1. height[x] \in Nat
      OBVIOUS
    <3> QED BY <3>1
  <2>2. n \in T
    BY <1>5
  <2>3. it[n + 1][x] = it[n][x]
    BY <2>1, <2>2
  <2> QED BY <2>1, <2>3, <1>7
<1>8. \A n \in Nat : n \in U
  <2> HIDE DEF U
  <2> QED BY <1>6, <1>7, SetInduction
<1> DEFINE f == [x \in D |-> it[height[x]][x]]
<1>9. f \in [D -> V]
  BY <1>1
<1>10. ASSUME NEW x \in D PROVE f[x] = IF x \in Stop THEN value[x] ELSE f[next[x]]
  <2>1. height[x] \in Nat /\ next[x] \in D /\ height[next[x]] \in Nat
    OBVIOUS
  <2>2. CASE height[x] = 0
    <3>1. x \in Stop
      BY <2>1, <2>2
    <3> QED BY <3>1, <2>2, <1>1
  <2>3. CASE height[x] # 0
    <3> DEFINE k == height[x] - 1
    <3>1. k \in Nat /\ k + 1 = height[x]
      BY <2>1, <2>3
    <3>2. it[height[x]][x] = IF x \in Stop THEN value[x] ELSE it[k][next[x]]
      <4> HIDE DEF k
      <4> QED BY <3>1, <1>2
    <3>3. x \notin Stop => it[k][next[x]] = it[height[next[x]]][next[x]]
      <4> SUFFICES ASSUME x \notin Stop PROVE it[k][next[x]] = it[height[next[x]]][next[x]]
        OBVIOUS
      <4>1. height[next[x]] <= k
        BY <2>1
      <4>2. k \in U
        BY <3>1, <1>8
      <4> QED BY <2>1, <4>1, <4>2
    <3> HIDE DEF k
    <3> QED BY <2>1, <3>2, <3>3
  <2> QED BY <2>2, <2>3
<1>11. f = [x \in D |-> f[x]]
  OBVIOUS
<1> HIDE DEF f
<1>12. f = [x \in D |-> IF x \in Stop THEN value[x] ELSE f[next[x]]]
  BY <1>10, <1>11
<1> QED BY <1>9, <1>12 DEF TailRecursive
=============================================================================
