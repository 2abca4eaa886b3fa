-------------------------- MODULE LocalCodeProofs ---------------------------
(***************************************************************************)
(* The code of one function before control flow matters.                   *)
(* CopyPropagation, for every set of variables, every typing and every     *)
(* length of block: the rewritten program computes what the source program *)
(* does, and no list operation dereferences NULL.  SymbolTable, for all    *)
(* names and signatures and any number of declarations: it implements      *)
(* Declarations.  CompiledBody, for every symbol table and every body of   *)
(* the grammar, nested as deep as may be: what is wrong is reported and    *)
(* nothing else, code is generated for the rest without following a NULL   *)
(* place, and that code, with the peephole or without, is left by a return *)
(* only.                                                                   *)
(***************************************************************************)
EXTENDS CopyPropagation, SymbolTable, CompiledBody, InductionProofs, SequenceTheorems, FiniteSetTheorems

\* What the three list fields always satisfy.
Lists(c) ==
  /\ c \in ListsType
  /\ c.crashed = FALSE
  /\ \A v, o \in Vars : /\ v \in c.to[o] <=> c.from[v] = o
                        /\ c.from[v] = o => c.from[o] = Null
  /\ \A o \in Vars : c.listed[o] >= Cardinality(c.to[o])

\* The copies of c hold for the values f.
Hold(c, f) ==
  \A v \in Vars : c.from[v] # Null => Type[v] = Type[c.from[v]] /\ f[v] = f[c.from[v]]

IInv ==
  /\ Lists(copies)
  /\ Hold(copies, val)
  /\ val \in Valuations
  /\ length \in 0 .. MaxLength
  /\ sound = TRUE
  /\ ClearedAtLeader

\* A finite copied_to list: its length is a natural number.
LEMMA ToFinite ==
  ASSUME NEW c, Lists(c), NEW o \in Vars
  PROVE  IsFiniteSet(c.to[o]) /\ Cardinality(c.to[o]) \in Nat /\ c.listed[o] \in Nat
<1>1. c.to[o] \subseteq Vars /\ c.listed[o] \in Nat
  BY DEF Lists, ListsType
<1> QED BY <1>1, VarsAssumption, FS_Subset, FS_CardinalityType

\* An original with a copy is listed: unlisting it does not crash.
LEMMA CopyListed ==
  ASSUME NEW c, Lists(c), NEW o \in Vars, NEW v \in c.to[o]
  PROVE  c.listed[o] \in Nat /\ c.listed[o] >= 1
<1>1. IsFiniteSet(c.to[o]) /\ Cardinality(c.to[o]) \in Nat /\ c.listed[o] \in Nat
  BY ToFinite
<1>2. Cardinality(c.to[o]) # 0
  BY <1>1, FS_EmptySet
<1>3. c.listed[o] >= Cardinality(c.to[o])
  BY DEF Lists
<1> QED BY <1>1, <1>2, <1>3

\* detach_variable_from_original keeps the lists consistent.
LEMMA DetachVariable ==
  ASSUME NEW c, Lists(c), NEW d \in Vars, c.from[d] # Null
  PROVE  /\ Lists(detach_variable_from_original(c, d))
         /\ detach_variable_from_original(c, d).from = [c.from EXCEPT ![d] = Null]
         /\ detach_variable_from_original(c, d).to[d] = {}
<1> SUFFICES ASSUME NEW r, r = detach_variable_from_original(c, d)
             PROVE  /\ Lists(r)
                    /\ r.from = [c.from EXCEPT ![d] = Null]
                    /\ r.to[d] = {}
  OBVIOUS
<1> DEFINE o == c.from[d]
<1>1. o \in Vars /\ d \in c.to[o] /\ c.from[o] = Null /\ o # d
  BY VarsAssumption DEF Lists, ListsType
<1>2. c.listed[o] \in Nat /\ c.listed[o] >= 1
  BY <1>1, CopyListed
<1>3. /\ r = [from |-> r.from, to |-> r.to, listed |-> r.listed, crashed |-> r.crashed]
      /\ r.from = [c.from EXCEPT ![d] = Null]
      /\ r.to = [c.to EXCEPT ![o] = c.to[o] \ {d}]
      /\ r.listed = [c.listed EXCEPT ![o] = c.listed[o] - 1]
      /\ r.crashed = FALSE
  <2>1. r.from = [c.from EXCEPT ![d] = Null] /\ r.to = [c.to EXCEPT ![o] = c.to[o] \ {d}]
    BY DEF detach_variable_from_original
  <2>2. r.listed = [c.listed EXCEPT ![o] = c.listed[o] - 1]
    BY <1>1, <1>2 DEF detach_variable_from_original, Unlist, Lists, ListsType
  <2>3. r.crashed = FALSE
    <3>1. c.listed[o] # 0 /\ c.crashed = FALSE
      BY <1>2 DEF Lists
    <3>2. r.crashed = (c.crashed \/ c.listed[o] = 0 \/ d \notin c.to[o])
      BY DEF detach_variable_from_original
    <3> QED BY <1>1, <3>1, <3>2, Zenon
  <2>4. r = [from |-> r.from, to |-> r.to, listed |-> r.listed, crashed |-> r.crashed]
    BY DEF detach_variable_from_original
  <2> QED BY <2>1, <2>2, <2>3, <2>4
<1>4. r \in ListsType
  <2>1. r.from \in [Vars -> Vars \cup {Null}] /\ r.to \in [Vars -> SUBSET Vars]
    BY <1>3 DEF Lists, ListsType
  <2>2. r.listed \in [Vars -> Nat]
    BY <1>1, <1>2, <1>3 DEF Lists, ListsType
  <2> QED BY <1>3, <2>1, <2>2 DEF ListsType
<1>5. \A v, w \in Vars : /\ v \in r.to[w] <=> r.from[v] = w
                         /\ r.from[v] = w => r.from[w] = Null
  BY <1>1, <1>3, VarsAssumption DEF Lists, ListsType
<1>6. \A w \in Vars : r.listed[w] >= Cardinality(r.to[w])
  <2> TAKE w \in Vars
  <2>1. CASE w = o
    <3>1. IsFiniteSet(c.to[o]) /\ Cardinality(c.to[o]) \in Nat
      BY <1>1, ToFinite
    <3>2. Cardinality(c.to[o] \ {d}) = Cardinality(c.to[o]) - 1
      BY <1>1, <3>1, FS_RemoveElement
    <3>3. c.listed[o] >= Cardinality(c.to[o])
      BY <1>1 DEF Lists
    <3>4. r.listed[w] = c.listed[o] - 1 /\ r.to[w] = c.to[o] \ {d}
      BY <1>1, <1>3, <2>1 DEF Lists, ListsType
    <3> QED BY <1>2, <3>1, <3>2, <3>3, <3>4
  <2>2. CASE w # o
    BY <1>3, <2>2 DEF Lists, ListsType
  <2> QED BY <2>1, <2>2
<1>7. r.to[d] = {}
  <2>1. \A v \in c.to[d] : v \in Vars /\ c.from[v] = d
    BY DEF Lists, ListsType
  <2>2. c.to[d] = {}
    BY <1>1, <2>1, VarsAssumption DEF Lists
  <2> QED BY <1>1, <1>3, <2>2 DEF Lists, ListsType
<1> QED BY <1>3, <1>4, <1>5, <1>6, <1>7 DEF Lists

\* detach_copies_from_original keeps the lists consistent.
LEMMA DetachCopies ==
  ASSUME NEW c, Lists(c), NEW d \in Vars, c.from[d] = Null, c.to[d] # {}
  PROVE  /\ Lists(detach_copies_from_original(c, d))
         /\ detach_copies_from_original(c, d).from
              = [v \in Vars |-> IF v \in c.to[d] THEN Null ELSE c.from[v]]
         /\ detach_copies_from_original(c, d).to[d] = {}
<1> SUFFICES ASSUME NEW r, r = detach_copies_from_original(c, d)
             PROVE  /\ Lists(r)
                    /\ r.from = [v \in Vars |-> IF v \in c.to[d] THEN Null ELSE c.from[v]]
                    /\ r.to[d] = {}
  OBVIOUS
<1>1. c.listed[d] \in Nat /\ c.listed[d] >= 1
  BY CopyListed
<1>2. /\ r = [from |-> r.from, to |-> r.to, listed |-> r.listed, crashed |-> r.crashed]
      /\ r.from = [v \in Vars |-> IF v \in c.to[d] THEN Null ELSE c.from[v]]
      /\ r.to = [c.to EXCEPT ![d] = {}]
      /\ r.listed = [c.listed EXCEPT ![d] = c.listed[d] - 1]
      /\ r.crashed = FALSE
  <2>1. r.listed = [c.listed EXCEPT ![d] = c.listed[d] - 1]
    BY <1>1 DEF detach_copies_from_original, Unlist, Lists, ListsType
  <2>2. r.crashed = FALSE
    <3>1. c.listed[d] # 0 /\ c.crashed = FALSE
      BY <1>1 DEF Lists
    <3>2. r.crashed = (c.crashed \/ c.listed[d] = 0)
      BY DEF detach_copies_from_original
    <3> QED BY <3>1, <3>2, Zenon
  <2> QED BY <2>1, <2>2 DEF detach_copies_from_original
<1>3. r \in ListsType
  <2>1. r.from \in [Vars -> Vars \cup {Null}] /\ r.to \in [Vars -> SUBSET Vars]
    BY <1>2 DEF Lists, ListsType
  <2>2. r.listed \in [Vars -> Nat]
    BY <1>1, <1>2 DEF Lists, ListsType
  <2> QED BY <1>2, <2>1, <2>2 DEF ListsType
<1>4. \A v, w \in Vars : /\ v \in r.to[w] <=> r.from[v] = w
                         /\ r.from[v] = w => r.from[w] = Null
  BY <1>2, VarsAssumption DEF Lists, ListsType
<1>5. \A w \in Vars : r.listed[w] >= Cardinality(r.to[w])
  <2> TAKE w \in Vars
  <2>1. CASE w = d
    <3>1. r.listed[w] = c.listed[d] - 1 /\ r.to[w] = {}
      BY <1>2, <2>1 DEF Lists, ListsType
    <3> QED BY <1>1, <3>1, FS_EmptySet
  <2>2. CASE w # d
    BY <1>2, <2>2 DEF Lists, ListsType
  <2> QED BY <2>1, <2>2
<1> QED BY <1>2, <1>3, <1>4, <1>5 DEF Lists, ListsType

\* After Redefine the variable is neither a copy nor an original; no copy
\* is added or changed, only dropped.
LEMMA RedefineLists ==
  ASSUME NEW c, Lists(c), NEW d \in Vars
  PROVE  /\ Lists(Redefine(c, d))
         /\ Redefine(c, d).from[d] = Null
         /\ Redefine(c, d).to[d] = {}
         /\ \A v \in Vars : Redefine(c, d).from[v] \in {Null, c.from[v]}
<1> c.from \in [Vars -> Vars \cup {Null}]
  BY DEF Lists, ListsType
<1>1. CASE c.from[d] # Null
  <2>1. Redefine(c, d) = detach_variable_from_original(c, d)
    BY <1>1 DEF Redefine
  <2>2. Redefine(c, d).from = [c.from EXCEPT ![d] = Null]
    BY <1>1, <2>1, DetachVariable
  <2> QED BY <1>1, <2>1, <2>2, DetachVariable
<1>2. CASE c.from[d] = Null /\ c.to[d] # {}
  <2>1. Redefine(c, d) = detach_copies_from_original(c, d)
    BY <1>2 DEF Redefine
  <2>2. Redefine(c, d).from = [v \in Vars |-> IF v \in c.to[d] THEN Null ELSE c.from[v]]
    BY <1>2, <2>1, DetachCopies
  <2> QED BY <1>2, <2>1, <2>2, DetachCopies
<1>3. CASE c.from[d] = Null /\ c.to[d] = {}
  BY <1>3 DEF Redefine
<1> QED BY <1>1, <1>2, <1>3

\* attach_variable_to_original keeps the lists consistent when the variable
\* is neither a copy nor an original, and the original is not a copy.
LEMMA AttachLists ==
  ASSUME NEW c, Lists(c), NEW d \in Vars, NEW o \in Vars,
         d # o, c.from[d] = Null, c.to[d] = {}, c.from[o] = Null
  PROVE  /\ Lists(attach_variable_to_original(c, d, o))
         /\ attach_variable_to_original(c, d, o).from = [c.from EXCEPT ![d] = o]
<1> SUFFICES ASSUME NEW r, r = attach_variable_to_original(c, d, o)
             PROVE  Lists(r) /\ r.from = [c.from EXCEPT ![d] = o]
  OBVIOUS
<1>1. /\ r = [from |-> r.from, to |-> r.to, listed |-> r.listed, crashed |-> r.crashed]
      /\ r.from = [c.from EXCEPT ![d] = o]
      /\ r.to = [c.to EXCEPT ![o] = c.to[o] \cup {d}]
      /\ r.listed = [c.listed EXCEPT ![o] = c.listed[o] + 1]
      /\ r.crashed = FALSE
  BY DEF attach_variable_to_original, Lists
<1>2. r \in ListsType
  <2>1. r.from \in [Vars -> Vars \cup {Null}] /\ r.to \in [Vars -> SUBSET Vars]
    BY <1>1 DEF Lists, ListsType
  <2>2. r.listed \in [Vars -> Nat]
    BY <1>1 DEF Lists, ListsType
  <2> QED BY <1>1, <2>1, <2>2 DEF ListsType
<1>3. \A v, w \in Vars : /\ v \in r.to[w] <=> r.from[v] = w
                         /\ r.from[v] = w => r.from[w] = Null
  BY <1>1, VarsAssumption DEF Lists, ListsType
<1>4. \A w \in Vars : r.listed[w] >= Cardinality(r.to[w])
  <2> TAKE w \in Vars
  <2>1. CASE w = o
    <3>1. IsFiniteSet(c.to[o]) /\ Cardinality(c.to[o]) \in Nat /\ c.listed[o] \in Nat
      BY ToFinite
    <3>2. Cardinality(c.to[o] \cup {d})
            = IF d \in c.to[o] THEN Cardinality(c.to[o]) ELSE Cardinality(c.to[o]) + 1
      BY <3>1, FS_AddElement
    <3>3. c.listed[o] >= Cardinality(c.to[o])
      BY DEF Lists
    <3>4. r.listed[w] = c.listed[o] + 1 /\ r.to[w] = c.to[o] \cup {d}
      BY <1>1, <2>1 DEF Lists, ListsType
    <3>5. Cardinality(r.to[w]) \in Nat /\ Cardinality(r.to[w]) <= Cardinality(c.to[o]) + 1
      BY <3>1, <3>2, <3>4
    <3> QED BY <3>1, <3>3, <3>4, <3>5
  <2>2. CASE w # o
    BY <1>1, <2>2 DEF Lists, ListsType
  <2> QED BY <2>1, <2>2
<1> QED BY <1>1, <1>2, <1>3, <1>4 DEF Lists

\* The end of a block leaves no copy and no listed variable.
LEMMA ClearedLists ==
  ASSUME NEW c, Lists(c)
  PROVE  clear_propagated_vars(c) = NoCopies
<1>1. ASSUME NEW v \in Vars, c.from[v] # Null
      PROVE  \E o \in Vars : c.listed[o] > 0 /\ v \in c.to[o]
  <2>1. c.from[v] \in Vars /\ v \in c.to[c.from[v]]
    BY <1>1 DEF Lists, ListsType
  <2> QED BY <2>1, CopyListed
<1>2. ASSUME NEW o \in Vars, ~ (c.listed[o] > 0)
      PROVE  c.to[o] = {}
  <2>1. \A v \in c.to[o] : FALSE
    BY <1>2, CopyListed
  <2> QED BY <2>1
<1>3. [v \in Vars |-> IF \E o \in Vars : c.listed[o] > 0 /\ v \in c.to[o]
                        THEN Null ELSE c.from[v]] = [v \in Vars |-> Null]
  BY <1>1
<1>4. [o \in Vars |-> IF c.listed[o] > 0 THEN {} ELSE c.to[o]] = [o \in Vars |-> {}]
  BY <1>2
<1> QED BY <1>3, <1>4 DEF clear_propagated_vars, NoCopies, Lists, ListsType

\* The root of a variable has its value and type, and is not itself a copy.
LEMMA RootValue ==
  ASSUME NEW c, Lists(c), NEW f, Hold(c, f), NEW v \in Vars
  PROVE  /\ Root(c, v) \in Vars /\ c.from[Root(c, v)] = Null
         /\ f[Root(c, v)] = f[v] /\ Type[Root(c, v)] = Type[v]
BY DEF Lists, ListsType, Hold, Root

\* The initial state satisfies the invariant: there are no copies.
LEMMA NoCopiesLists == Lists(NoCopies) /\ \A f : Hold(NoCopies, f)
<1>1. NoCopies \in ListsType
  BY DEF NoCopies, ListsType
<1>2. \A v, o \in Vars : /\ v \in NoCopies.to[o] <=> NoCopies.from[v] = o
                         /\ NoCopies.from[v] = o => NoCopies.from[o] = Null
  BY VarsAssumption DEF NoCopies
<1>3. \A o \in Vars : NoCopies.listed[o] >= Cardinality(NoCopies.to[o])
  BY FS_EmptySet DEF NoCopies
<1>4. NoCopies.crashed = FALSE
  BY DEF NoCopies
<1>5. \A f : Hold(NoCopies, f)
  BY DEF NoCopies, Hold
<1> QED BY <1>1, <1>2, <1>3, <1>4, <1>5 DEF Lists

LEMMA InitIInv == Init => IInv
BY NoCopiesLists, LengthAssumption DEF Init, IInv, ClearedAtLeader

\* After a redefinition the remaining copies hold, before and after the
\* variable changes its value.
LEMMA RedefineHold ==
  ASSUME IInv, NEW d \in Vars, NEW x
  PROVE  /\ Hold(Redefine(copies, d), val)
         /\ Hold(Redefine(copies, d), [val EXCEPT ![d] = x])
<1> DEFINE c == Redefine(copies, d)
<1>1. Lists(c) /\ c.from[d] = Null /\ c.to[d] = {}
      /\ \A v \in Vars : c.from[v] \in {Null, copies.from[v]}
  BY RedefineLists DEF IInv
<1>2. \A v \in Vars : c.from[v] # d
  BY <1>1 DEF Lists
<1>3. val \in [Vars -> UNION {ValuesOf(Type[v]) : v \in Vars}]
  BY DEF IInv, Valuations
<1>4. ASSUME NEW v \in Vars, c.from[v] # Null
      PROVE  /\ v # d /\ c.from[v] # d /\ c.from[v] \in Vars
             /\ Type[v] = Type[c.from[v]] /\ val[v] = val[c.from[v]]
  <2>1. c.from[v] = copies.from[v]
    BY <1>1, <1>4
  <2>2. c.from[v] \in Vars
    BY <1>1, <1>4 DEF Lists, ListsType
  <2> QED BY <1>1, <1>2, <1>4, <2>1, <2>2 DEF IInv, Hold
<1> QED BY <1>3, <1>4 DEF Hold

\* A value of its type in one variable makes a valuation of a valuation.
LEMMA Revalue ==
  ASSUME val \in Valuations, NEW d \in Vars, NEW x \in ValuesOf(Type[d])
  PROVE  [val EXCEPT ![d] = x] \in Valuations
BY DEF Valuations

\* Dropping a null assignment preserves the invariant.
LEMMA NullAssignIInv ==
  ASSUME IInv, NEW d \in Vars, NEW s \in Vars, NullAssign(d, s)
  PROVE  IInv'
<1>1. copies' = copies /\ val' = val /\ length' \in 1 .. MaxLength
  BY LengthAssumption DEF NullAssign, Continues, IInv
<1>2. val[d] = val[s] /\ Type[d] = Type[s]
  <2>1. val[Root(copies, d)] = val[d] /\ Type[Root(copies, d)] = Type[d]
    BY RootValue DEF IInv
  <2>2. val[Root(copies, s)] = val[s] /\ Type[Root(copies, s)] = Type[s]
    BY RootValue DEF IInv
  <2> QED BY <2>1, <2>2 DEF NullAssign
<1>3. val[s] \in ValuesOf(Type[s])
  BY DEF IInv, Valuations
<1>4. val[d] = Convert(Type[d], val[s])
  BY <1>2, <1>3, ConvertAssumption
<1>5. sound' = TRUE
  BY <1>4 DEF NullAssign, Converted, IInv
<1> QED BY <1>1, <1>5, LengthAssumption DEF IInv, Lists, Hold, Valuations, ClearedAtLeader

\* An assignment preserves the invariant.
LEMMA AssignIInv ==
  ASSUME IInv, NEW d \in Vars, NEW s \in Places, Assign(d, s)
  PROVE  IInv'
<1> DEFINE c == Redefine(copies, d)
           o == Root(c, s)
           p == IF Type[d] = Type[s] THEN attach_variable_to_original(c, d, o) ELSE c
<1>1. /\ copies' = p
      /\ sound' = (sound /\ val[Root(p, s)] = val[s])
      /\ val' = IF Type[d] = Addr THEN val ELSE [val EXCEPT ![d] = Convert(Type[d], val[s])]
      /\ length' \in 1 .. MaxLength
  BY LengthAssumption DEF Assign, Converted, Continues, IInv
<1>2. s \in Vars /\ s # d /\ Type[s] # Addr
  BY DEF Assign, Places
<1>3. Lists(c) /\ c.from[d] = Null /\ c.to[d] = {}
  BY RedefineLists DEF IInv
<1>4. Hold(c, val) /\ \A x : Hold(c, [val EXCEPT ![d] = x])
  BY RedefineHold
<1>5. o \in Vars /\ c.from[o] = Null /\ val[o] = val[s] /\ Type[o] = Type[s]
  BY <1>2, <1>3, <1>4, RootValue
<1>6. o # d
  <2>1. c.from[s] # d
    BY <1>2, <1>3 DEF Lists
  <2> QED BY <1>2, <2>1 DEF Root
<1>7. Lists(p) /\ (Type[d] = Type[s] => p.from = [c.from EXCEPT ![d] = o])
  BY <1>3, <1>5, <1>6, AttachLists
<1>8. c.from \in [Vars -> Vars \cup {Null}]
  BY <1>3 DEF Lists, ListsType
<1>9. val[s] \in ValuesOf(Type[s]) /\ val \in Valuations
  BY <1>2 DEF IInv, Valuations
<1>10. sound' = TRUE
  <2>1. p.from[s] = c.from[s]
    BY <1>2, <1>7, <1>8
  <2>2. Root(p, s) = o
    BY <2>1 DEF Root
  <2> QED BY <1>1, <1>5, <2>2 DEF IInv
<1>11. val' \in Valuations
  <2>1. Convert(Type[d], val[s]) \in ValuesOf(Type[d])
    BY <1>2, <1>9, ConvertAssumption
  <2> QED BY <1>1, <1>9, <2>1, Revalue
<1>12. Hold(p, val')
  <2>1. CASE Type[d] # Type[s]
    <3>1. p = c
      BY <2>1
    <3> QED BY <1>1, <1>4, <3>1
  <2>2. CASE Type[d] = Type[s]
    <3>1. val' = [val EXCEPT ![d] = val[s]]
      BY <1>1, <1>2, <1>9, <2>2, ConvertAssumption
    <3>2. Hold(c, val')
      BY <1>4, <3>1
    <3>3. val'[d] = val'[o] /\ Type[d] = Type[o]
      BY <1>5, <1>6, <1>9, <2>2, <3>1 DEF Valuations
    <3>4. p.from = [c.from EXCEPT ![d] = o]
      BY <1>7, <2>2
    <3> HIDE DEF p, c, o
    <3> QED BY <1>8, <3>2, <3>3, <3>4 DEF Hold
  <2> QED BY <2>1, <2>2
<1>13. Lists(copies') /\ Hold(copies', val')
  BY <1>1, <1>7, <1>12
<1>14. length' \in 0 .. MaxLength /\ ClearedAtLeader'
  BY <1>1, LengthAssumption DEF ClearedAtLeader
<1> QED BY <1>10, <1>11, <1>13, <1>14 DEF IInv, Lists, Hold, Valuations

\* Any other definition preserves the invariant.
LEMMA ComputeIInv ==
  ASSUME IInv, NEW d \in Vars, NEW S \in SUBSET Vars, NEW x \in ValuesOf(Type[d]),
         Compute(d, S, x)
  PROVE  IInv'
<1>1. /\ copies' = Redefine(copies, d)
      /\ val' = [val EXCEPT ![d] = x]
      /\ length' \in 1 .. MaxLength
  BY LengthAssumption DEF Compute, Continues, IInv
<1>2. Lists(copies')
  BY <1>1, RedefineLists DEF IInv
<1>3. Hold(copies', val) /\ Hold(copies', val')
  BY <1>1, RedefineHold
<1>4. sound' = TRUE
  <2>1. \A s \in S : val[Root(copies', s)] = val[s]
    BY <1>2, <1>3, RootValue
  <2>2. sound' = (sound /\ \A s \in S : val[Root(copies', s)] = val[s])
    BY DEF Compute
  <2> QED BY <2>1, <2>2, Zenon DEF IInv
<1>5. val' \in Valuations
  BY <1>1, Revalue DEF IInv
<1>6. length' \in 0 .. MaxLength /\ ClearedAtLeader'
  BY <1>1, LengthAssumption DEF ClearedAtLeader
<1> QED BY <1>2, <1>3, <1>4, <1>5, <1>6 DEF IInv, Lists, Hold, Valuations

\* Reading operands preserves the invariant.
LEMMA UseOnlyIInv ==
  ASSUME IInv, NEW S \in SUBSET Vars, UseOnly(S)
  PROVE  IInv'
<1>1. copies' = copies /\ val' = val /\ length' \in 1 .. MaxLength
  BY LengthAssumption DEF UseOnly, Continues, IInv
<1>2. sound' = TRUE
  <2>1. \A s \in S : val[Root(copies, s)] = val[s]
    BY RootValue DEF IInv
  <2>2. sound' = (sound /\ \A s \in S : val[Root(copies, s)] = val[s])
    BY DEF UseOnly
  <2> QED BY <2>1, <2>2, Zenon DEF IInv
<1> QED BY <1>1, <1>2 DEF IInv, ClearedAtLeader, Lists, Hold, Valuations

\* A call preserves the invariant: as a leader it finds no copies.
LEMMA CallIInv ==
  ASSUME IInv, NEW f \in Valuations, Call(f)
  PROVE  IInv'
<1>1. copies' = copies /\ copies = NoCopies /\ val' = f /\ sound' = TRUE
  BY DEF Call, IInv, ClearedAtLeader
<1>2. length' \in 1 .. MaxLength
  BY LengthAssumption DEF Call, Continues, IInv
<1>3. Lists(copies') /\ Hold(copies', val')
  BY <1>1, NoCopiesLists
<1> QED BY <1>1, <1>2, <1>3 DEF IInv, ClearedAtLeader, Lists, Hold, Valuations

\* Entering the next block preserves the invariant: nothing is left over.
LEMMA EndBlockIInv ==
  ASSUME IInv, NEW f \in Valuations, EndBlock(f)
  PROVE  IInv'
<1>1. copies' = NoCopies
  BY ClearedLists DEF EndBlock, IInv
<1>2. Lists(copies') /\ Hold(copies', val')
  BY <1>1, NoCopiesLists
<1>3. val' = f /\ length' = 0 /\ sound' = TRUE
  BY DEF EndBlock, IInv
<1> QED BY <1>1, <1>2, <1>3, LengthAssumption DEF IInv, ClearedAtLeader, Lists, Hold, Valuations

LEMMA SpecIInv == Spec => []IInv
<1>1. IInv /\ [Next]_vars => IInv'
  <2> SUFFICES ASSUME IInv, [Next]_vars PROVE IInv'
    OBVIOUS
  <2>1. ASSUME NEW d \in Vars, NEW s \in Places, NullAssign(d, s) PROVE IInv'
    BY <2>1, NullAssignIInv DEF Places
  <2>2. ASSUME NEW d \in Vars, NEW s \in Places, Assign(d, s) PROVE IInv'
    BY <2>2, AssignIInv
  <2>3. ASSUME NEW d \in Vars, NEW x \in ValuesOf(Type[d]), Retrieve(d, x) PROVE IInv'
    BY <2>3, ComputeIInv DEF Retrieve
  <2>4. ASSUME NEW d \in Vars, NEW x \in ValuesOf(Type[d]), NEW S \in Operands,
               Compute(d, S, x)
        PROVE  IInv'
    BY <2>4, ComputeIInv DEF Operands
  <2>5. ASSUME NEW S \in Operands, UseOnly(S) PROVE IInv'
    BY <2>5, UseOnlyIInv DEF Operands
  <2>6. ASSUME NEW f \in Valuations, Call(f) \/ EndBlock(f) PROVE IInv'
    BY <2>6, CallIInv, EndBlockIInv
  <2>7. ASSUME UNCHANGED vars PROVE IInv'
    BY <2>7 DEF vars, IInv, ClearedAtLeader, Lists, Hold, Valuations
  <2> QED BY <2>1, <2>2, <2>3, <2>4, <2>5, <2>6, <2>7 DEF Next
<1> QED BY InitIInv, <1>1, PTL DEF Spec

\* Every state of the pass is type-correct.
THEOREM TypeCorrect == Spec => []TypeOK
<1>1. IInv => TypeOK
  BY DEF IInv, Lists, TypeOK
<1> QED BY SpecIInv, <1>1, PTL

\* do_copy_propagation preserves what the program computes: operands are
\* replaced by variables of the same value, and only assignments of the
\* value already there are dropped.
THEOREM Sound == Spec => []RewriteSound
<1>1. IInv => RewriteSound
  BY DEF IInv, RewriteSound
<1> QED BY SpecIInv, <1>1, PTL

\* The copies recorded in the symbol table hold in the program.
THEOREM CopiesCorrect == Spec => [](CopiesHold /\ Mirrored)
<1>1. IInv => CopiesHold /\ Mirrored
  BY DEF IInv, Lists, Hold, CopiesHold, Mirrored
<1> QED BY SpecIInv, <1>1, PTL

\* No list operation of the pass looks for a variable that is not there:
\* propagated_vars has an original as often as it has copies.
THEOREM NoNullDereference == Spec => []ListedPerCopy
<1>1. IInv => ListedPerCopy
  BY DEF IInv, Lists, ListedPerCopy
<1> QED BY SpecIInv, <1>1, PTL

\* No copy survives the end of its block: clear_propagated_vars finds every
\* copy through propagated_vars.
THEOREM CopiesCleared == Spec => []ClearedAtLeader
<1>1. IInv => ClearedAtLeader
  BY DEF IInv
<1> QED BY SpecIInv, <1>1, PTL

-----------------------------------------------------------------------------
\* SymbolTable.  The entries of functions and of variables.
FunctionEntry(e) ==
  /\ e = [type |-> "Func", elt_type |-> e.elt_type, ret_type |-> e.ret_type, formals |-> e.formals,
          fn_proto_state |-> e.fn_proto_state, is_extern |-> e.is_extern, formal |-> e.formal,
          fp_offset |-> e.fp_offset, id |-> e.id]
  /\ e.formals \in Seq([type : {"Int", "Char", "Array"}, elt_type : Types])
  /\ \A i \in DOMAIN e.formals : e.formals[i].type = "Array" <=> e.formals[i].elt_type # "None"
  /\ e.fn_proto_state \in {"FN_PROTO", "FN_DEFINED"} /\ e.is_extern \in BOOLEAN

VariableEntry(e) == e.type # "Func" /\ e.formal = FALSE

\* Entries have the kind of their names.
GlobalScope ==
  /\ SymTab = [scope \in {"Local", "Global"} |-> SymTab[scope]]
  /\ \A scope \in {"Local", "Global"} :
       SymTab[scope] = [n \in DOMAIN SymTab[scope] |-> SymTab[scope][n]]
  /\ DOMAIN SymTab["Global"] \subseteq VariableNames \cup FunctionNames
  /\ \A n \in DOMAIN SymTab["Global"] :
       IF n \in FunctionNames THEN FunctionEntry(SymTab["Global"][n])
       ELSE VariableEntry(SymTab["Global"][n])

LocalVariables == {n \in DOMAIN SymTab["Local"] : VariableEntry(SymTab["Local"][n])}

\* The variables of a body are numbered; outside of it the scope is empty.
LocalScope ==
  /\ \A n \in DOMAIN SymTab["Local"] : SymTab["Local"][n].type # "Func" /\ SymTab["Local"][n].formal \in BOOLEAN
  /\ IsFiniteSet(LocalVariables) /\ local_var_id = Cardinality(LocalVariables)
  /\ at # "body" => DOMAIN SymTab["Local"] = {} /\ local_var_id = 0

\* The parser's globals carry the header that is being read.
Carried ==
  /\ at \in {"top", "header", "list", "body"}
  /\ CurrScope = IF at = "top" THEN "Global" ELSE "Local"
  /\ at \in {"header", "list"} =>
       /\ written = Heading(fnName, fnRetType, lptr, is_extern)
       /\ fnName \in FunctionNames /\ fnRetType \in ReturnTypes
       /\ lptr \in ParameterLists /\ is_extern \in BOOLEAN
       /\ CurrType = IF lptr = <<>> THEN fnRetType ELSE Last(lptr).type
  /\ at = "list" => lptr = <<>>

\* Each global variable waits for its place, or has it.
Placed ==
  LET all == data \o globals
  IN  /\ data \in Seq(VariableNames) /\ globals \in Seq(VariableNames)
      /\ ToSet(all) = DOMAIN SymTab["Global"] \ FunctionNames
      /\ \A i, j \in DOMAIN all : all[i] = all[j] => i = j

TableInv == reported \in BOOLEAN /\ (~reported => GlobalScope /\ LocalScope /\ Carried /\ Placed)

\* A void parameter stands alone; the functions of a list take none; global
\* variables and functions do not share names, nor does either have no name.
Plain ==
  /\ \A params \in ParameterLists : \A i \in DOMAIN params :
       params[i].type = "None" => Len(params) = 1
  /\ ~ParametersInLists
  /\ VariableNames \cap FunctionNames = {}
  /\ NoName \notin FunctionNames

-----------------------------------------------------------------------------
\* A table of two scopes.
IsTable(table) ==
  /\ table = [scope \in {"Local", "Global"} |-> table[scope]]
  /\ \A scope \in {"Local", "Global"} : table[scope] = [n \in DOMAIN table[scope] |-> table[scope][n]]

LEMMA WithEntryIs ==
  ASSUME NEW table, IsTable(table), NEW scope \in {"Local", "Global"}, NEW id, NEW entry
  PROVE  /\ IsTable(WithEntry(table, scope, id, entry))
         /\ DOMAIN WithEntry(table, scope, id, entry)[scope] = DOMAIN table[scope] \cup {id}
         /\ \A n \in DOMAIN table[scope] \cup {id} :
              WithEntry(table, scope, id, entry)[scope][n] = IF n = id THEN entry ELSE table[scope][n]
         /\ \A other \in {"Local", "Global"} \ {scope} :
              WithEntry(table, scope, id, entry)[other] = table[other]
<1> DEFINE t == WithEntry(table, scope, id, entry)
           new == [n \in DOMAIN table[scope] \cup {id} |-> IF n = id THEN entry ELSE table[scope][n]]
<1>1. t = [table EXCEPT ![scope] = new]
  BY DEF WithEntry
<1>2. t = [s \in {"Local", "Global"} |-> IF s = scope THEN new ELSE table[s]]
  BY <1>1 DEF IsTable
<1>3. new = [n \in DOMAIN new |-> new[n]] /\ DOMAIN new = DOMAIN table[scope] \cup {id}
  OBVIOUS
<1>4. \A n \in DOMAIN table[scope] \cup {id} : new[n] = IF n = id THEN entry ELSE table[scope][n]
  OBVIOUS
<1> HIDE DEF t, new
<1>5. \A s \in {"Local", "Global"} : t[s] = IF s = scope THEN new ELSE table[s]
  BY <1>2
<1>6. \A s \in {"Local", "Global"} : t[s] = [n \in DOMAIN t[s] |-> t[s][n]]
  BY <1>3, <1>5 DEF IsTable
<1>7. IsTable(t)
  BY <1>2, <1>6 DEF IsTable
<1> QED BY <1>3, <1>4, <1>5, <1>7 DEF t

\* The loop of RecordFormals, up to parameter k.
Entered(f, table, k) ==
  f = [i \in 0 .. k |-> IF i = 0 THEN [table |-> table, formals |-> <<>>, error |-> FALSE]
                        ELSE RecordFormal(f[i - 1], lptr[i], i)]

LEMMA EnteredDefined ==
  ASSUME NEW table
  PROVE  \A k \in Nat : \E f : Entered(f, table, k)
<1> DEFINE base == [table |-> table, formals |-> <<>>, error |-> FALSE]
           T == {k \in Nat : \E f : Entered(f, table, k)}
<1>1. 0 \in T
  <2> DEFINE f == [i \in 0 .. 0 |-> base]
  <2>1. f = [i \in 0 .. 0 |-> IF i = 0 THEN base ELSE RecordFormal(f[i - 1], lptr[i], i)]
    OBVIOUS
  <2> QED BY <2>1 DEF Entered
<1> HIDE DEF base
<1>2. ASSUME NEW k \in Nat, k \in T PROVE k + 1 \in T
  <2>1. PICK f : Entered(f, table, k)
    BY <1>2
  <2>2. \A i \in 0 .. k : f[i] = IF i = 0 THEN base ELSE RecordFormal(f[i - 1], lptr[i], i)
    BY <2>1 DEF Entered, base
  <2> DEFINE g == [i \in 0 .. k + 1 |-> IF i \in 0 .. k THEN f[i] ELSE RecordFormal(f[k], lptr[i], i)]
             step(i) == IF i = 0 THEN base ELSE RecordFormal(g[i - 1], lptr[i], i)
  <2>3. ASSUME NEW i \in 0 .. k + 1 PROVE g[i] = step(i)
    <3>1. CASE i = 0
      BY <2>2, <3>1
    <3>2. CASE i # 0
      <4>1. i - 1 \in 0 .. k /\ g[i - 1] = f[i - 1]
        BY <3>2
      <4>2. CASE i \in 0 .. k
        <5>1. g[i] = f[i]
          BY <4>2
        <5> HIDE DEF g
        <5> QED BY <2>2, <3>2, <4>1, <4>2, <5>1
      <4>3. CASE i \notin 0 .. k
        <5>1. g[i] = RecordFormal(f[k], lptr[i], i) /\ i - 1 = k
          BY <4>3
        <5> HIDE DEF g
        <5> QED BY <3>2, <4>1, <5>1
      <4> QED BY <4>2, <4>3
    <3> QED BY <3>1, <3>2
  <2>4. g = [i \in 0 .. k + 1 |-> g[i]]
    OBVIOUS
  <2> HIDE DEF g
  <2>5. g = [i \in 0 .. k + 1 |-> step(i)]
    BY <2>3, <2>4
  <2> QED BY <2>5 DEF Entered, base
<1> HIDE DEF T
<1>3. \A k \in Nat : k \in T
  BY <1>1, <1>2, SetInduction
<1> QED BY <1>3 DEF T

\* What the entries of the first k parameters are.
TypesOfEntry(p) == [type |-> IF p.is_array THEN "Array" ELSE p.type,
                    elt_type |-> IF p.is_array THEN p.type ELSE "None"]
Repeated(params, k) == \E i, j \in 1 .. k : i < j /\ params[i].name = params[j].name
FirstEntered(r, table, k) ==
  /\ r = [table |-> r.table, formals |-> r.formals, error |-> r.error]
  /\ r.error \in BOOLEAN
  /\ r.error <=> Repeated(lptr, k)
  /\ IsTable(r.table)
  /\ r.table["Global"] = table["Global"]
  /\ DOMAIN r.table["Local"] = {lptr[i].name : i \in 1 .. k}
  /\ ~r.error =>
       /\ \A i \in 1 .. k : r.table["Local"][lptr[i].name] = FormalEntry(Fresh, lptr[i], i)
       /\ r.formals = [i \in 1 .. k |-> TypesOfEntry(lptr[i])]

LEMMA EntryTypes ==
  ASSUME NEW p \in Parameters, NEW i
  PROVE  /\ FormalEntry(Fresh, p, i) =
              [Fresh EXCEPT !.formal = TRUE, !.type = TypesOfEntry(p).type,
                            !.elt_type = TypesOfEntry(p).elt_type, !.fp_offset = 4 * (i + 1)]
         /\ [type |-> FormalEntry(Fresh, p, i).type, elt_type |-> FormalEntry(Fresh, p, i).elt_type]
              = TypesOfEntry(p)
BY DEF FormalEntry, TypesOfEntry, Fresh

LEMMA EnteredNext ==
  ASSUME NEW table, NEW k \in Nat, NEW r, FirstEntered(r, table, k),
         lptr \in Seq(Parameters), k + 1 \in DOMAIN lptr, CurrScope = "Local", CurrType # "None"
  PROVE  FirstEntered(RecordFormal(r, lptr[k + 1], k + 1), table, k + 1)
<1> DEFINE p == lptr[k + 1]
           old == SymTabInsert(p.name, CurrScope, r.table)
           entry == FormalEntry(old, p, k + 1)
           t == WithEntry(r.table, "Local", p.name, entry)
           f == Append(r.formals, [type |-> entry.type, elt_type |-> entry.elt_type])
           e == (r.error \/ SymTabLookup(p.name, CurrScope, r.table))
           q == RecordFormal(r, p, k + 1)
<1>1. q = [table |-> t, formals |-> f, error |-> e]
  BY DEF RecordFormal
<1>2. q.table = t /\ q.formals = f /\ q.error = e /\ q = [table |-> q.table, formals |-> q.formals, error |-> q.error]
  <2> HIDE DEF t, f, e, q
  <2> QED BY <1>1
<1>3. p \in Parameters
  BY SeqDef
<1>4. /\ r.error \in BOOLEAN /\ (r.error <=> Repeated(lptr, k)) /\ IsTable(r.table)
      /\ r.table["Global"] = table["Global"]
      /\ DOMAIN r.table["Local"] = {lptr[i].name : i \in 1 .. k}
  BY DEF FirstEntered
<1>5. \A i \in 1 .. k + 1 : i \in 1 .. k \/ i = k + 1
  OBVIOUS
<1>6. e \in BOOLEAN /\ (e <=> Repeated(lptr, k + 1))
  <2>1. SymTabLookup(p.name, CurrScope, r.table) <=> \E i \in 1 .. k : lptr[i].name = p.name
    BY <1>4 DEF SymTabLookup
  <2>2. SymTabLookup(p.name, CurrScope, r.table) \in BOOLEAN
    BY DEF SymTabLookup
  <2>3. Repeated(lptr, k + 1) <=> Repeated(lptr, k) \/ \E i \in 1 .. k : lptr[i].name = p.name
    BY <1>5 DEF Repeated
  <2> QED BY <1>4, <2>1, <2>2, <2>3
<1>7. /\ IsTable(t) /\ DOMAIN t["Local"] = DOMAIN r.table["Local"] \cup {p.name}
      /\ \A n \in DOMAIN r.table["Local"] \cup {p.name} :
           t["Local"][n] = IF n = p.name THEN entry ELSE r.table["Local"][n]
      /\ t["Global"] = r.table["Global"]
  <2> HIDE DEF entry, p
  <2> QED BY <1>4, WithEntryIs
<1>8. DOMAIN t["Local"] = {lptr[i].name : i \in 1 .. k + 1}
  <2>1. 1 .. k + 1 = (1 .. k) \cup {k + 1}
    OBVIOUS
  <2>2. {lptr[i].name : i \in 1 .. k + 1} = {lptr[i].name : i \in 1 .. k} \cup {p.name}
    BY <2>1
  <2> HIDE DEF t
  <2> QED BY <1>4, <1>7, <2>2
<1>9. ASSUME ~e
      PROVE  /\ \A i \in 1 .. k + 1 : t["Local"][lptr[i].name] = FormalEntry(Fresh, lptr[i], i)
             /\ f = [i \in 1 .. k + 1 |-> TypesOfEntry(lptr[i])]
  <2>1. /\ ~r.error /\ p.name \notin DOMAIN r.table["Local"]
    BY <1>4, <1>9 DEF SymTabLookup
  <2>2. old = Fresh
    BY <2>1 DEF SymTabInsert, SymTabLookup
  <2>3. /\ \A i \in 1 .. k : r.table["Local"][lptr[i].name] = FormalEntry(Fresh, lptr[i], i)
        /\ r.formals = [i \in 1 .. k |-> TypesOfEntry(lptr[i])]
    BY <2>1 DEF FirstEntered
  <2>4. ASSUME NEW i \in 1 .. k + 1 PROVE t["Local"][lptr[i].name] = FormalEntry(Fresh, lptr[i], i)
    <3>1. CASE i = k + 1
      <4> HIDE DEF t
      <4> QED BY <1>7, <2>2, <3>1
    <3>2. CASE i \in 1 .. k
      <4>1. lptr[i].name \in DOMAIN r.table["Local"] /\ lptr[i].name # p.name
        BY <1>4, <2>1, <3>2
      <4> HIDE DEF t, p
      <4> QED BY <1>7, <2>3, <3>2, <4>1
    <3> QED BY <1>5, <3>1, <3>2
  <2>5. [type |-> entry.type, elt_type |-> entry.elt_type] = TypesOfEntry(p)
    <3> HIDE DEF p, old
    <3> QED BY <1>3, <2>2, EntryTypes
  <2>6. f = [i \in 1 .. k + 1 |-> TypesOfEntry(lptr[i])]
    <3> DEFINE Given(i) == TypesOfEntry(lptr[i])
    <3>1. f = Append([i \in 1 .. k |-> Given(i)], Given(k + 1))
      BY <2>3, <2>5
    <3> HIDE DEF Given
    <3>2. Append([i \in 1 .. k |-> Given(i)], Given(k + 1)) = [i \in 1 .. k + 1 |-> Given(i)]
      OBVIOUS
    <3> QED BY <3>1, <3>2 DEF Given
  <2> HIDE DEF t, f
  <2> QED BY <2>4, <2>6
<1> HIDE DEF t, f, e, q
<1>10. FirstEntered(q, table, k + 1)
  BY <1>2, <1>4, <1>6, <1>7, <1>8, <1>9 DEF FirstEntered
<1> QED BY <1>10 DEF q

\* RecordFormals reports the lists of parameters that are not in order, and
\* enters the others.
LEMMA FormalsRecorded ==
  ASSUME Plain, NEW table, IsTable(table), DOMAIN table["Local"] = {}, lptr \in ParameterLists,
         CurrScope = "Local", lptr # <<>> => CurrType = Last(lptr).type
  PROVE  /\ RecordFormals(table).error \in BOOLEAN
         /\ RecordFormals(table).error <=> ~Abstract!GoodParameters(lptr)
         /\ ~RecordFormals(table).error => FirstEntered(RecordFormals(table), table, Len(lptr))
<1>1. lptr \in Seq(Parameters)
  BY SignaturesAssumption
<1>2. PICK N \in Nat : N = Len(lptr) /\ DOMAIN lptr = 1 .. N
  BY <1>1
<1>3. \A i \in 1 .. N : lptr[i] \in Parameters
  BY <1>1, <1>2
<1> DEFINE base == [table |-> table, formals |-> <<>>, error |-> FALSE]
           after == CHOOSE f : Entered(f, table, N)
<1>4. Entered(after, table, N)
  BY EnteredDefined
<1>5. RecordFormals(table) = after[N]
  BY <1>2 DEF RecordFormals, Entered
<1> HIDE DEF after
<1>6. \A k \in 0 .. N : after[k] = IF k = 0 THEN base ELSE RecordFormal(after[k - 1], lptr[k], k)
  BY <1>4 DEF Entered
<1>7. FirstEntered(base, table, 0)
  <2>1. base = [table |-> base.table, formals |-> base.formals, error |-> base.error] /\ base.table = table
        /\ base.error = FALSE /\ base.formals = <<>>
    OBVIOUS
  <2> HIDE DEF base
  <2>2. ~Repeated(lptr, 0) /\ 1 .. 0 = {}
    BY DEF Repeated
  <2>3. <<>> = [i \in 1 .. 0 |-> TypesOfEntry(lptr[i])]
    OBVIOUS
  <2> QED BY <2>1, <2>2, <2>3 DEF FirstEntered
<1>8. Abstract!GoodParameters(lptr) <=>
        /\ \A i, j \in 1 .. N : lptr[i].name = lptr[j].name => i = j
        /\ \A i \in 1 .. N : lptr[i].type # "None"
  BY <1>2 DEF Abstract!GoodParameters
<1>9. CASE N = 0
  <2>1. after[N] = base /\ base.error = FALSE
    BY <1>6, <1>9
  <2>2. Abstract!GoodParameters(lptr)
    BY <1>8, <1>9
  <2> HIDE DEF base
  <2> QED BY <1>2, <1>5, <1>7, <1>9, <2>1, <2>2
<1>10. CASE N # 0 /\ CurrType = "None"
  <2> DEFINE T == {k \in Nat : k <= N => after[k] = [table |-> after[k].table, formals |-> after[k].formals,
                                                     error |-> after[k].error]}
  <2>1. 0 \in T
    <3>1. 0 \in 0 .. N
      OBVIOUS
    <3>2. after[0] = base
      BY <1>6, <3>1
    <3> QED BY <3>2
  <2>2. ASSUME NEW k \in Nat, k \in 0 .. N, k # 0, k - 1 \in T
        PROVE  /\ after[k] = [table |-> after[k].table, formals |-> after[k].formals, error |-> after[k].error]
               /\ after[k].error = TRUE
    <3> DEFINE done == after[k - 1]
    <3>1. after[k] = [done EXCEPT !.error = TRUE]
      BY <1>6, <1>10, <2>2 DEF RecordFormal
    <3>2. done = [table |-> done.table, formals |-> done.formals, error |-> done.error]
      BY <2>2
    <3> HIDE DEF done
    <3> QED BY <3>1, <3>2
  <2>3. ASSUME NEW k \in Nat, k \in T PROVE k + 1 \in T
    <3> SUFFICES ASSUME k + 1 <= N
                 PROVE  after[k + 1] = [table |-> after[k + 1].table, formals |-> after[k + 1].formals,
                                        error |-> after[k + 1].error]
      OBVIOUS
    <3>1. k + 1 \in 0 .. N /\ k + 1 # 0 /\ (k + 1) - 1 \in T /\ k + 1 \in Nat
      BY <2>3
    <3> HIDE DEF T
    <3> QED BY <2>2, <3>1
  <2> HIDE DEF T
  <2>4. \A k \in Nat : k \in T
    BY <2>1, <2>3, SetInduction
  <2>5. after[N].error = TRUE
    <3>1. N - 1 \in Nat /\ N \in 0 .. N
      BY <1>10
    <3> QED BY <1>10, <2>2, <2>4, <3>1
  <2>6. Last(lptr) = lptr[N] /\ lptr # <<>> /\ N \in 1 .. N
    BY <1>2, <1>10 DEF Last
  <2>7. lptr[N].type = "None"
    BY <1>10, <2>6
  <2> QED BY <1>5, <1>8, <2>5, <2>6, <2>7
<1>11. CASE N # 0 /\ CurrType # "None"
  <2> DEFINE T == {k \in Nat : k <= N => FirstEntered(after[k], table, k)}
  <2>1. 0 \in T
    <3>1. 0 \in 0 .. N
      OBVIOUS
    <3>2. after[0] = base
      BY <1>6, <3>1
    <3> QED BY <1>7, <3>2
  <2>2. ASSUME NEW k \in Nat, k \in T PROVE k + 1 \in T
    <3> SUFFICES ASSUME k + 1 <= N PROVE FirstEntered(after[k + 1], table, k + 1)
      OBVIOUS
    <3>1. k + 1 \in 0 .. N /\ k + 1 # 0 /\ (k + 1) - 1 = k /\ k <= N /\ k + 1 \in DOMAIN lptr
      BY <1>2
    <3>2. after[k + 1] = RecordFormal(after[k], lptr[k + 1], k + 1)
      BY <1>6, <3>1
    <3> QED BY <1>1, <1>11, <2>2, <3>1, <3>2, EnteredNext
  <2> HIDE DEF T
  <2>3. N \in T
    BY <2>1, <2>2, SetInduction
  <2>4. FirstEntered(after[N], table, N)
    BY <2>3 DEF T
  <2>5. \A i \in 1 .. N : lptr[i].type # "None"
    <3> SUFFICES ASSUME NEW i \in 1 .. N, lptr[i].type = "None" PROVE FALSE
      OBVIOUS
    <3>1. N = 1
      BY <1>2 DEF Plain
    <3>2. Last(lptr) = lptr[1] /\ i = 1 /\ lptr # <<>>
      BY <1>2, <3>1 DEF Last
    <3> QED BY <1>11, <3>2
  <2>6. Repeated(lptr, N) <=> ~ \A i, j \in 1 .. N : lptr[i].name = lptr[j].name => i = j
    <3>1. ASSUME NEW i \in 1 .. N, NEW j \in 1 .. N, lptr[i].name = lptr[j].name, i # j
          PROVE  Repeated(lptr, N)
      <4>1. i < j \/ j < i
        BY <3>1
      <4> QED BY <3>1, <4>1 DEF Repeated
    <3>2. Repeated(lptr, N) => \E i, j \in 1 .. N : lptr[i].name = lptr[j].name /\ i # j
      BY DEF Repeated
    <3> QED BY <3>1, <3>2
  <2> QED BY <1>2, <1>5, <1>8, <2>4, <2>5, <2>6 DEF FirstEntered
<1> QED BY <1>9, <1>10, <1>11

\* What is recorded of a function in order.
FunctionRecorded(done, isProto) ==
  /\ IsTable(done.table)
  /\ DOMAIN done.table["Global"] = DOMAIN SymTab["Global"] \cup {fnName}
  /\ \A n \in DOMAIN SymTab["Global"] \ {fnName} :
       done.table["Global"][n] = SymTab["Global"][n]
  /\ FunctionEntry(done.table["Global"][fnName])
  /\ done.table["Global"][fnName].ret_type = fnRetType
  /\ done.table["Global"][fnName].formals = [i \in 1 .. Len(lptr) |-> TypesOfEntry(lptr[i])]
  /\ done.table["Global"][fnName].fn_proto_state = IF isProto THEN "FN_PROTO" ELSE "FN_DEFINED"
  /\ done.table["Global"][fnName].is_extern = is_extern
  /\ DOMAIN done.table["Local"] = {lptr[i].name : i \in 1 .. Len(lptr)}
  /\ \A i \in 1 .. Len(lptr) : done.table["Local"][lptr[i].name] = FormalEntry(Fresh, lptr[i], i)

KnownFunction == SymTab["Global"][fnName]

\* SymTabRecordFunInfo reports a prototype of a name that is taken and a
\* definition unlike the prototype, besides parameters out of order.
LEMMA FunctionInfo ==
  ASSUME Plain, TableInv, ~reported, at \in {"header", "list"}, NEW isProto \in BOOLEAN
  PROVE  /\ SymTabRecordFunInfo(isProto).error \in BOOLEAN
         /\ SymTabRecordFunInfo(isProto).error <=>
              \/ ~Abstract!GoodParameters(lptr)
              \/ /\ fnName \in DOMAIN SymTab["Global"]
                 /\ \/ isProto
                    \/ KnownFunction.fn_proto_state # "FN_PROTO"
                    \/ UnlikePrototype(KnownFunction)
         /\ ~SymTabRecordFunInfo(isProto).error => FunctionRecorded(SymTabRecordFunInfo(isProto), isProto)
<1>1. /\ IsTable(SymTab) /\ DOMAIN SymTab["Local"] = {}
      /\ fnName \in FunctionNames /\ lptr \in ParameterLists /\ CurrScope = "Local"
      /\ is_extern \in BOOLEAN
      /\ lptr # <<>> => CurrType = Last(lptr).type
      /\ fnName \in DOMAIN SymTab["Global"] => FunctionEntry(KnownFunction)
  BY DEF TableInv, GlobalScope, LocalScope, Carried, IsTable, KnownFunction
<1>2. lptr \in Seq(Parameters) /\ Len(lptr) \in Nat /\ \A i \in 1 .. Len(lptr) : lptr[i] \in Parameters
  BY <1>1, SignaturesAssumption
<1> DEFINE known == SymTabLookup(fnName, "Global", SymTab)
           func == SymTabInsert(fnName, "Global", SymTab)
           again == ~(func.fn_proto_state = "FN_PROTO" /\ ~isProto)
           named == [func EXCEPT !.type = "Func", !.ret_type = fnRetType]
           entered == WithEntry(SymTab, "Global", fnName, named)
           added == RecordFormals(entered)
           old == added.table["Global"][fnName]
           recorded == [old EXCEPT !.formals = added.formals,
                                   !.fn_proto_state = IF isProto /\ @ # "FN_DEFINED" THEN "FN_PROTO"
                                                      ELSE "FN_DEFINED",
                                   !.is_extern = is_extern]
           t == WithEntry(added.table, "Global", fnName, recorded)
           e == added.error \/ (known /\ (again \/ UnlikePrototype(func)))
           done == SymTabRecordFunInfo(isProto)
<1>3. done = [table |-> t, error |-> e]
  BY DEF SymTabRecordFunInfo
<1>4. done.table = t /\ done.error = e
  <2> HIDE DEF t, e, done
  <2> QED BY <1>3
<1>5. (known <=> fnName \in DOMAIN SymTab["Global"]) /\ known \in BOOLEAN
      /\ func = IF known THEN KnownFunction ELSE Fresh
  BY DEF SymTabLookup, SymTabInsert, KnownFunction
<1> HIDE DEF known, func, done
<1>6. func = [type |-> func.type, elt_type |-> func.elt_type, ret_type |-> func.ret_type,
              formals |-> func.formals, fn_proto_state |-> func.fn_proto_state,
              is_extern |-> func.is_extern, formal |-> func.formal,
              fp_offset |-> func.fp_offset, id |-> func.id]
  <2>1. CASE known
    <3>1. KnownFunction = [type |-> "Func", elt_type |-> KnownFunction.elt_type,
                           ret_type |-> KnownFunction.ret_type, formals |-> KnownFunction.formals,
                           fn_proto_state |-> KnownFunction.fn_proto_state,
                           is_extern |-> KnownFunction.is_extern, formal |-> KnownFunction.formal,
                           fp_offset |-> KnownFunction.fp_offset, id |-> KnownFunction.id]
      BY <1>1, <1>5, <2>1 DEF FunctionEntry
    <3> QED BY <1>5, <2>1, <3>1
  <2>2. CASE ~known
    BY <1>5, <2>2 DEF Fresh
  <2> QED BY <2>1, <2>2
<1>7. /\ IsTable(entered) /\ entered["Global"][fnName] = named
      /\ DOMAIN entered["Global"] = DOMAIN SymTab["Global"] \cup {fnName}
      /\ \A n \in DOMAIN SymTab["Global"] \ {fnName} : entered["Global"][n] = SymTab["Global"][n]
      /\ DOMAIN entered["Local"] = {}
  <2> HIDE DEF named
  <2> QED BY <1>1, WithEntryIs
<1> HIDE DEF entered
<1>8. /\ added.error \in BOOLEAN /\ (added.error <=> ~Abstract!GoodParameters(lptr))
      /\ ~added.error => FirstEntered(added, entered, Len(lptr))
  BY <1>1, <1>7, FormalsRecorded
<1> HIDE DEF added
<1>9. e \in BOOLEAN
  BY <1>5, <1>8
<1>10. e <=> \/ ~Abstract!GoodParameters(lptr)
             \/ /\ fnName \in DOMAIN SymTab["Global"]
                /\ isProto \/ KnownFunction.fn_proto_state # "FN_PROTO" \/ UnlikePrototype(KnownFunction)
  <2>1. CASE known
    BY <1>5, <1>8, <2>1
  <2>2. CASE ~known
    BY <1>5, <1>8, <2>2
  <2> QED BY <2>1, <2>2
<1>11. ASSUME ~e PROVE FunctionRecorded(done, isProto)
  <2>1. /\ IsTable(added.table) /\ added.table["Global"] = entered["Global"]
        /\ DOMAIN added.table["Local"] = {lptr[i].name : i \in 1 .. Len(lptr)}
        /\ \A i \in 1 .. Len(lptr) : added.table["Local"][lptr[i].name] = FormalEntry(Fresh, lptr[i], i)
        /\ added.formals = [i \in 1 .. Len(lptr) |-> TypesOfEntry(lptr[i])]
    BY <1>8, <1>11 DEF FirstEntered
  <2>2. old = [type |-> "Func", elt_type |-> func.elt_type, ret_type |-> fnRetType,
               formals |-> func.formals, fn_proto_state |-> func.fn_proto_state,
               is_extern |-> func.is_extern, formal |-> func.formal,
               fp_offset |-> func.fp_offset, id |-> func.id]
    <3>1. old = named
      BY <1>7, <2>1
    <3> HIDE DEF old
    <3> QED BY <1>6, <3>1
  <2> HIDE DEF old
  <2>3. /\ recorded = [type |-> "Func", elt_type |-> recorded.elt_type, ret_type |-> recorded.ret_type,
                       formals |-> recorded.formals, fn_proto_state |-> recorded.fn_proto_state,
                       is_extern |-> recorded.is_extern, formal |-> recorded.formal,
                       fp_offset |-> recorded.fp_offset, id |-> recorded.id]
        /\ recorded.ret_type = fnRetType /\ recorded.formals = added.formals
        /\ recorded.is_extern = is_extern
        /\ recorded.fn_proto_state = IF isProto /\ func.fn_proto_state # "FN_DEFINED" THEN "FN_PROTO"
                                     ELSE "FN_DEFINED"
    <3> DEFINE state == IF isProto /\ func.fn_proto_state # "FN_DEFINED" THEN "FN_PROTO" ELSE "FN_DEFINED"
    <3>1. old.fn_proto_state = func.fn_proto_state
      BY <2>2
    <3>2. recorded = [old EXCEPT !.formals = added.formals, !.fn_proto_state = state, !.is_extern = is_extern]
      BY <3>1
    <3> HIDE DEF state, recorded
    <3>3. recorded = [type |-> "Func", elt_type |-> func.elt_type, ret_type |-> fnRetType,
                      formals |-> added.formals, fn_proto_state |-> state,
                      is_extern |-> is_extern, formal |-> func.formal,
                      fp_offset |-> func.fp_offset, id |-> func.id]
      BY <2>2, <3>2
    <3> QED BY <3>3 DEF state
  <2>4. isProto => func.fn_proto_state = "FN_PROTO"
    <3>1. isProto => ~known
      BY <1>11
    <3> QED BY <1>5, <3>1 DEF Fresh
  <2> HIDE DEF recorded
  <2>5. recorded.fn_proto_state = IF isProto THEN "FN_PROTO" ELSE "FN_DEFINED"
    BY <2>3, <2>4
  <2>6. /\ recorded.formals \in Seq([type : {"Int", "Char", "Array"}, elt_type : Types])
        /\ \A i \in DOMAIN recorded.formals :
             recorded.formals[i].type = "Array" <=> recorded.formals[i].elt_type # "None"
    <3>1. Abstract!GoodParameters(lptr)
      BY <1>8, <1>11
    <3>2. \A i \in 1 .. Len(lptr) : lptr[i].type # "None"
      BY <1>2, <3>1 DEF Abstract!GoodParameters
    <3>3. ASSUME NEW i \in 1 .. Len(lptr)
          PROVE  /\ TypesOfEntry(lptr[i]) \in [type : {"Int", "Char", "Array"}, elt_type : Types]
                 /\ TypesOfEntry(lptr[i]).type = "Array" <=> TypesOfEntry(lptr[i]).elt_type # "None"
      <4>1. lptr[i].type \in {"Int", "Char"} /\ lptr[i].is_array \in BOOLEAN
        BY <1>2, <3>2 DEF Parameters, Types
      <4> QED BY <4>1 DEF TypesOfEntry, Types
    <3>4. PICK N \in Nat : N = Len(lptr)
      BY <1>2
    <3> QED BY <2>1, <2>3, <3>3, <3>4
  <2>7. FunctionEntry(recorded)
    BY <1>1, <2>3, <2>5, <2>6 DEF FunctionEntry
  <2>8. /\ IsTable(t) /\ DOMAIN t["Global"] = DOMAIN SymTab["Global"] \cup {fnName}
        /\ t["Global"][fnName] = recorded /\ t["Local"] = added.table["Local"]
        /\ \A n \in DOMAIN SymTab["Global"] \ {fnName} : t["Global"][n] = SymTab["Global"][n]
    BY <1>7, <2>1, WithEntryIs
  <2> HIDE DEF t
  <2> QED BY <1>4, <2>1, <2>3, <2>5, <2>7, <2>8 DEF FunctionRecorded
<1> HIDE DEF e
<1> QED BY <1>4, <1>9, <1>10, <1>11 DEF done

-----------------------------------------------------------------------------
\* What entries stand for.
LEMMA ObjectKinds ==
  ASSUME NEW e
  PROVE  /\ FunctionEntry(e) => Object(e).kind # "variable"
         /\ e.type # "Func" /\ e.formal \in BOOLEAN => (Object(e).kind = "variable" <=> VariableEntry(e))
<1>1. CASE e.type = "Func"
  BY <1>1 DEF Object, FunctionEntry, VariableEntry
<1>2. CASE e.type # "Func" /\ e.formal = TRUE
  <2>1. Object(e).kind = "formal"
    BY <1>2 DEF Object
  <2>2. ~FunctionEntry(e)
    BY <1>2 DEF FunctionEntry
  <2> QED BY <1>2, <2>1, <2>2 DEF VariableEntry
<1>3. CASE e.type # "Func" /\ e.formal = FALSE
  <2>1. Object(e).kind = "variable"
    BY <1>3 DEF Object
  <2>2. ~FunctionEntry(e)
    BY <1>3 DEF FunctionEntry
  <2> QED BY <1>3, <2>1, <2>2 DEF VariableEntry
<1>4. CASE e.type # "Func" /\ e.formal \notin BOOLEAN
  BY <1>4 DEF FunctionEntry
<1> QED BY <1>1, <1>2, <1>3, <1>4

LEMMA NewVariable ==
  ASSUME NEW ty \in Types \ {"None"}, NEW is_array \in BOOLEAN, NEW e,
         e.type = IF is_array THEN "Array" ELSE ty,
         e.elt_type = IF is_array THEN ty ELSE "None",
         e.formal = FALSE
  PROVE  /\ VariableEntry(e) /\ e.type # "Func" /\ e.formal \in BOOLEAN
         /\ Object(e) = Abstract!Variable(ty, is_array, e.id)
<1>1. e.type # "Func"
  BY DEF Types
<1>2. TypeOf(e) = ty /\ IsArray(e) = is_array
  BY DEF TypeOf, IsArray
<1>3. Object(e) = Abstract!Variable(ty, is_array, e.id)
  BY <1>1, <1>2 DEF Object, Abstract!Variable
<1> QED BY <1>1, <1>3 DEF VariableEntry

\* A table without errors, as its client sees it.
LEMMA ObjectsAre ==
  ASSUME ~reported, NEW scope \in {"Local", "Global"}
  PROVE  /\ DOMAIN Objects(scope) = DOMAIN SymTab[scope]
         /\ \A n \in DOMAIN SymTab[scope] : Objects(scope)[n] = Object(SymTab[scope][n])
BY DEF Objects

LEMMA AbstractCardinality == \A T : Abstract!Cardinality(T) = Cardinality(T)
BY DEF Cardinality, Abstract!Cardinality, IsFiniteSet, Abstract!IsFiniteSet

LEMMA NumberOfLocals ==
  ASSUME TableInv, ~reported
  PROVE  Abstract!NumberOfVariables = local_var_id
<1>1. {n \in DOMAIN Objects("Local") : Objects("Local")[n].kind = "variable"} = LocalVariables
  <2>1. \A n \in DOMAIN SymTab["Local"] :
          Objects("Local")[n].kind = "variable" <=> VariableEntry(SymTab["Local"][n])
    BY ObjectsAre, ObjectKinds DEF TableInv, LocalScope
  <2> QED BY <2>1, ObjectsAre DEF LocalVariables
<1> QED BY <1>1, AbstractCardinality DEF Abstract!NumberOfVariables, TableInv, LocalScope

\* Nothing is asked after an error.
LEMMA Failing == reported' = TRUE => Abstract!Fail
BY DEF Abstract!Fail, Abstract!None, Objects, BeingRead, InBody, Placement, Heading, NoName

LEMMA AfterFailure ==
  ASSUME reported = TRUE, reported' = TRUE
  PROVE  UNCHANGED Abstract!vars
BY DEF Abstract!vars, Objects, BeingRead, InBody, Placement

LEMMA InitDeclarations == InitTable => TableInv /\ Abstract!Init
<1> SUFFICES ASSUME InitTable PROVE TableInv /\ Abstract!Init
  OBVIOUS
<1>1. SymTab["Local"] = <<>> /\ SymTab["Global"] = <<>> /\ ~reported /\ at = "top"
  BY DEF InitTable
<1>2. GlobalScope
  BY <1>1 DEF InitTable, GlobalScope
<1>3. LocalScope
  <2>1. LocalVariables = {}
    BY <1>1 DEF LocalVariables
  <2> QED BY <1>1, <2>1, FS_EmptySet DEF LocalScope, InitTable
<1>4. Carried
  BY DEF InitTable, Carried
<1>5. Placed
  BY DEF InitTable, Placed, ToSet
<1>6. Objects("Global") = <<>> /\ Objects("Local") = <<>>
  BY <1>1 DEF Objects
<1>7. Placement = <<>>
  BY DEF InitTable, Placement, ToSet
<1> QED BY <1>1, <1>2, <1>3, <1>4, <1>5, <1>6, <1>7
       DEF TableInv, Abstract!Init, Abstract!None, BeingRead, InBody, Heading, NoName, InitTable

\* The table after a variable in order.
LEMMA VariableEntered ==
  ASSUME TableInv, ~reported, reported' = FALSE, NEW id, NEW ty \in Types, NEW is_array \in BOOLEAN,
         id_decl(id, ty, is_array)
  PROVE  /\ ty # "None" /\ id \notin DOMAIN SymTab[CurrScope]
         /\ IsTable(SymTab')
         /\ DOMAIN SymTab'[CurrScope] = DOMAIN SymTab[CurrScope] \cup {id}
         /\ \A n \in DOMAIN SymTab[CurrScope] : SymTab'[CurrScope][n] = SymTab[CurrScope][n]
         /\ VariableEntry(SymTab'[CurrScope][id])
         /\ SymTab'[CurrScope][id].type # "Func" /\ SymTab'[CurrScope][id].formal \in BOOLEAN
         /\ Object(SymTab'[CurrScope][id]) =
              Abstract!Variable(ty, is_array, IF CurrScope = "Local" THEN local_var_id ELSE 0)
         /\ \A other \in {"Local", "Global"} \ {CurrScope} : SymTab'[other] = SymTab[other]
<1>1. ty # "None" /\ ~SymTabLookup(id, CurrScope, SymTab)
  BY DEF id_decl
<1>2. id \notin DOMAIN SymTab[CurrScope] /\ SymTabInsert(id, CurrScope, SymTab) = Fresh
  BY <1>1 DEF SymTabLookup, SymTabInsert
<1> DEFINE old == SymTabInsert(id, CurrScope, SymTab)
           kind == IF is_array THEN "Array" ELSE ty
           elements == IF is_array THEN ty ELSE "None"
           plain == [old EXCEPT !.type = kind,
                                !.formal = FALSE,
                                !.is_extern = IF is_array THEN @ ELSE FALSE,
                                !.elt_type = elements]
           number == IF CurrScope = "Local" THEN local_var_id ELSE 0
           entry == fill_id(plain)
<1>3. SymTab' = WithEntry(SymTab, CurrScope, id, entry)
  BY <1>1 DEF id_decl
<1>4. /\ plain.type = kind /\ plain.formal = FALSE /\ plain.elt_type = elements /\ plain.id = 0
      /\ {"type", "formal", "elt_type", "id"} \subseteq DOMAIN plain
  <2>1. old.id = 0 /\ {"type", "formal", "elt_type", "id", "is_extern"} \subseteq DOMAIN old
    BY <1>2 DEF Fresh
  <2> HIDE DEF kind, elements, old
  <2> QED BY <2>1
<1>5. entry.type = kind /\ entry.formal = FALSE /\ entry.elt_type = elements /\ entry.id = number
  <2> HIDE DEF plain, kind, elements
  <2> QED BY <1>4 DEF fill_id
<1> HIDE DEF entry, number
<1>6. VariableEntry(entry) /\ entry.type # "Func" /\ entry.formal \in BOOLEAN
      /\ Object(entry) = Abstract!Variable(ty, is_array, number)
  BY <1>1, <1>5, NewVariable
<1>7. IsTable(SymTab) /\ CurrScope \in {"Local", "Global"}
  BY DEF TableInv, GlobalScope, IsTable, Carried
<1> QED BY <1>1, <1>2, <1>3, <1>6, <1>7, WithEntryIs DEF number

\* One more object in a scope.
LEMMA OneMore ==
  ASSUME ~reported, reported' = FALSE, NEW scope \in {"Local", "Global"}, NEW id, NEW object,
         IsTable(SymTab'), DOMAIN SymTab'[scope] = DOMAIN SymTab[scope] \cup {id},
         \A n \in DOMAIN SymTab[scope] \ {id} : SymTab'[scope][n] = SymTab[scope][n],
         Object(SymTab'[scope][id]) = object
  PROVE  Objects(scope)' = Abstract!With(Objects(scope), id, object)
<1>1. Objects(scope)' = [n \in DOMAIN SymTab'[scope] |-> Object(SymTab'[scope][n])]
  BY DEF Objects
<1>2. Objects(scope) = [n \in DOMAIN SymTab[scope] |-> Object(SymTab[scope][n])]
  BY DEF Objects
<1>3. \A n \in DOMAIN SymTab[scope] \cup {id} :
        Object(SymTab'[scope][n]) = IF n = id THEN object ELSE Objects(scope)[n]
  BY <1>2
<1>4. DOMAIN Objects(scope) = DOMAIN SymTab[scope]
  BY <1>2
<1> QED BY <1>1, <1>3, <1>4 DEF Abstract!With

LEMMA SameObjects ==
  ASSUME ~reported, reported' = FALSE, NEW scope \in {"Local", "Global"}, SymTab'[scope] = SymTab[scope]
  PROVE  Objects(scope)' = Objects(scope)
BY DEF Objects

LEMMA GlobalDeclared ==
  ASSUME Plain, TableInv, ~reported, NEW id \in VariableNames, NEW ty \in Types,
         NEW is_array \in BOOLEAN, GlobalVariable(id, ty, is_array)
  PROVE  TableInv' /\ BeingRead = Abstract!None /\ Abstract!Declare(id, ty, is_array)
<1>1. /\ at = "top" /\ at' = "top" /\ CurrScope = "Global" /\ CurrScope' = "Global" /\ reported' \in BOOLEAN
      /\ id_decl(id, ty, is_array)
  BY DEF GlobalVariable, id_decl, TableInv, Carried
<1>2. BeingRead = Abstract!None /\ ~InBody
  BY <1>1 DEF BeingRead, Abstract!None, InBody, Heading, NoName
<1>3. DOMAIN Objects("Global") = DOMAIN SymTab["Global"]
  BY ObjectsAre
<1>4. CASE reported' = TRUE
  <2>1. id \in DOMAIN Objects("Global") \/ ty = "None"
    BY <1>1, <1>3, <1>4 DEF id_decl, SymTabLookup
  <2>2. TableInv'
    BY <1>4 DEF TableInv
  <2> QED BY <1>2, <1>4, <2>1, <2>2, Failing DEF Abstract!Declare
<1>5. CASE reported' = FALSE
  <2>1. /\ ty # "None" /\ id \notin DOMAIN SymTab["Global"] /\ IsTable(SymTab')
        /\ DOMAIN SymTab'["Global"] = DOMAIN SymTab["Global"] \cup {id}
        /\ \A n \in DOMAIN SymTab["Global"] : SymTab'["Global"][n] = SymTab["Global"][n]
        /\ VariableEntry(SymTab'["Global"][id])
        /\ Object(SymTab'["Global"][id]) = Abstract!Variable(ty, is_array, 0)
        /\ SymTab'["Local"] = SymTab["Local"]
    BY <1>1, <1>5, VariableEntered, ZenonT(60)
  <2>2. Objects("Global")' = Abstract!With(Objects("Global"), id, Abstract!Variable(ty, is_array, 0))
    BY <1>5, <2>1, OneMore
  <2>3. Objects("Local")' = Objects("Local")
    BY <1>5, <2>1, SameObjects
  <2>4. UNCHANGED <<BeingRead, InBody, Placement, reported>>
    <3>1. reported = FALSE /\ UNCHANGED <<at, written, data>>
      BY <1>1 DEF id_decl, TableInv
    <3> QED BY <1>5, <3>1 DEF BeingRead, InBody, Placement
  <2>5. Abstract!Declare(id, ty, is_array)
    BY <1>2, <1>3, <2>1, <2>2, <2>3, <2>4 DEF Abstract!Declare
  <2>6. id \notin FunctionNames
    BY DEF Plain
  <2>7. GlobalScope'
    <3>1. GlobalScope
      BY DEF TableInv
    <3>2. \A n \in DOMAIN SymTab'["Global"] :
            IF n \in FunctionNames THEN FunctionEntry(SymTab'["Global"][n])
            ELSE VariableEntry(SymTab'["Global"][n])
      BY <2>1, <2>6, <3>1 DEF GlobalScope
    <3>3. DOMAIN SymTab'["Global"] \subseteq VariableNames \cup FunctionNames
      BY <2>1, <3>1 DEF GlobalScope
    <3> QED BY <2>1, <3>2, <3>3 DEF GlobalScope, IsTable
  <2>8. LocalScope'
    <3>1. UNCHANGED local_var_id
      BY <1>1, <2>1 DEF id_decl, TableInv, LocalScope
    <3>2. LocalVariables' = LocalVariables
      BY <2>1 DEF LocalVariables
    <3> QED BY <1>1, <2>1, <3>1, <3>2 DEF TableInv, LocalScope
  <2>9. Carried'
    BY <1>1 DEF Carried
  <2>10. Placed'
    <3>1. data' = data /\ globals' = Append(globals, id)
      BY <1>1, <2>1 DEF id_decl, collect_global
    <3>2. /\ data \in Seq(VariableNames) /\ globals \in Seq(VariableNames)
          /\ ToSet(data \o globals) = DOMAIN SymTab["Global"] \ FunctionNames
          /\ \A i, j \in DOMAIN (data \o globals) : (data \o globals)[i] = (data \o globals)[j] => i = j
      BY DEF TableInv, Placed
    <3> DEFINE all == data \o globals
    <3>3. all \in Seq(VariableNames) /\ data \o Append(globals, id) = Append(all, id)
      BY <3>2
    <3>4. id \notin ToSet(all)
      BY <2>1, <3>2
    <3> HIDE DEF all
    <3>5. /\ ToSet(Append(all, id)) = ToSet(all) \cup {id}
          /\ \A i, j \in DOMAIN Append(all, id) : Append(all, id)[i] = Append(all, id)[j] => i = j
      <4>1. PICK k \in Nat : k = Len(all) /\ DOMAIN all = 1 .. k
        BY <3>3
      <4>2. /\ DOMAIN Append(all, id) = 1 .. k + 1 /\ Append(all, id)[k + 1] = id
            /\ \A i \in 1 .. k : Append(all, id)[i] = all[i]
        BY <3>3, <4>1
      <4>3. \A i \in 1 .. k : all[i] # id
        BY <3>4, <4>1 DEF ToSet
      <4>4. \A i, j \in 1 .. k : all[i] = all[j] => i = j
        BY <3>2, <4>1 DEF all
      <4>5. \A i \in 1 .. k + 1 : i \in 1 .. k \/ i = k + 1
        OBVIOUS
      <4>6. \A i, j \in 1 .. k + 1 : Append(all, id)[i] = Append(all, id)[j] => i = j
        BY <4>2, <4>3, <4>4, <4>5
      <4>7. ToSet(Append(all, id)) = ToSet(all) \cup {id}
        BY <4>1, <4>2, <4>5 DEF ToSet
      <4> QED BY <4>2, <4>6, <4>7
    <3>6. globals' \in Seq(VariableNames)
      BY <3>1, <3>2
    <3>7. ToSet(Append(all, id)) = DOMAIN SymTab'["Global"] \ FunctionNames
      BY <2>1, <2>6, <3>2, <3>5 DEF all
    <3>8. data' \o globals' = Append(all, id) /\ data' \in Seq(VariableNames)
      BY <3>1, <3>2, <3>3 DEF all
    <3> QED BY <3>5, <3>6, <3>7, <3>8 DEF Placed
  <2> QED BY <1>2, <1>5, <2>5, <2>7, <2>8, <2>9, <2>10 DEF TableInv
<1> QED BY <1>1, <1>4, <1>5

LEMMA LocalDeclared ==
  ASSUME TableInv, ~reported, NEW id, NEW ty \in Types,
         NEW is_array \in BOOLEAN, LocalVariable(id, ty, is_array)
  PROVE  TableInv' /\ BeingRead = Abstract!None /\ Abstract!Declare(id, ty, is_array)
<1>1. /\ at = "body" /\ at' = "body" /\ CurrScope = "Local" /\ CurrScope' = "Local" /\ reported' \in BOOLEAN
      /\ id_decl(id, ty, is_array)
  BY DEF LocalVariable, id_decl, TableInv, Carried
<1>2. BeingRead = Abstract!None /\ InBody
  BY <1>1 DEF BeingRead, Abstract!None, InBody, Heading, NoName
<1>3. DOMAIN Objects("Local") = DOMAIN SymTab["Local"]
  BY ObjectsAre
<1>4. CASE reported' = TRUE
  <2>1. id \in DOMAIN Objects("Local") \/ ty = "None"
    BY <1>1, <1>3, <1>4 DEF id_decl, SymTabLookup
  <2>2. TableInv'
    BY <1>4 DEF TableInv
  <2> QED BY <1>2, <1>4, <2>1, <2>2, Failing DEF Abstract!Declare
<1>5. CASE reported' = FALSE
  <2>1. /\ ty # "None" /\ id \notin DOMAIN SymTab["Local"] /\ IsTable(SymTab')
        /\ DOMAIN SymTab'["Local"] = DOMAIN SymTab["Local"] \cup {id}
        /\ \A n \in DOMAIN SymTab["Local"] : SymTab'["Local"][n] = SymTab["Local"][n]
        /\ VariableEntry(SymTab'["Local"][id])
        /\ SymTab'["Local"][id].type # "Func" /\ SymTab'["Local"][id].formal \in BOOLEAN
        /\ Object(SymTab'["Local"][id]) = Abstract!Variable(ty, is_array, local_var_id)
        /\ SymTab'["Global"] = SymTab["Global"]
    BY <1>1, <1>5, VariableEntered, ZenonT(60)
  <2>2. Objects("Local")' = Abstract!With(Objects("Local"), id, Abstract!Variable(ty, is_array, local_var_id))
    BY <1>5, <2>1, OneMore
  <2>3. Objects("Global")' = Objects("Global")
    BY <1>5, <2>1, SameObjects
  <2>4. UNCHANGED <<BeingRead, InBody, Placement, reported>>
    <3>1. reported = FALSE /\ UNCHANGED <<at, written, data>>
      BY <1>1 DEF id_decl, TableInv
    <3> QED BY <1>5, <3>1 DEF BeingRead, InBody, Placement
  <2>5. Abstract!Declare(id, ty, is_array)
    BY <1>2, <1>3, <2>1, <2>2, <2>3, <2>4, NumberOfLocals DEF Abstract!Declare
  <2>6. GlobalScope'
    BY <2>1 DEF TableInv, GlobalScope, IsTable
  <2>7. LocalScope'
    <3>1. local_var_id' = local_var_id + 1
      BY <1>1, <2>1 DEF id_decl
    <3>2. LocalVariables' = LocalVariables \cup {id} /\ id \notin LocalVariables
      BY <2>1 DEF LocalVariables
    <3>3. IsFiniteSet(LocalVariables) /\ local_var_id = Cardinality(LocalVariables)
      BY DEF TableInv, LocalScope
    <3>4. IsFiniteSet(LocalVariables \cup {id}) /\ Cardinality(LocalVariables \cup {id}) = local_var_id + 1
      BY <3>2, <3>3, FS_AddElement
    <3>5. \A n \in DOMAIN SymTab'["Local"] :
            SymTab'["Local"][n].type # "Func" /\ SymTab'["Local"][n].formal \in BOOLEAN
      BY <2>1 DEF TableInv, LocalScope
    <3> QED BY <1>1, <3>1, <3>2, <3>4, <3>5 DEF LocalScope
  <2>8. Carried'
    BY <1>1 DEF Carried
  <2>9. Placed'
    <3>1. data' = data /\ globals' = globals
      BY <1>1, <2>1 DEF id_decl, collect_global
    <3> QED BY <2>1, <3>1 DEF TableInv, Placed
  <2> QED BY <1>2, <1>5, <2>5, <2>6, <2>7, <2>8, <2>9 DEF TableInv
<1> QED BY <1>1, <1>4, <1>5

LEMMA HeaderRead ==
  ASSUME TableInv, ~reported, NEW name \in FunctionNames, NEW params \in ParameterLists,
         NEW ret \in ReturnTypes, NEW extern \in BOOLEAN, Header(ret, name, params, extern)
  PROVE  TableInv' /\ Abstract!Read
<1>1. /\ at = "top" /\ at' = "header" /\ CurrScope' = "Local" /\ reported = FALSE /\ reported' = FALSE
      /\ fnRetType' = ret /\ fnName' = name /\ lptr' = params /\ is_extern' = extern
      /\ CurrType' = IF params = <<>> THEN ret ELSE Last(params).type
      /\ written' = Heading(name, ret, params, extern)
      /\ UNCHANGED <<SymTab, local_var_id, globals, data>>
  BY DEF Header, TableInv
<1>2. BeingRead = Abstract!None /\ ~InBody
  BY <1>1 DEF BeingRead, Abstract!None, InBody, Heading, NoName
<1>3. BeingRead' \in Headings
  BY <1>1 DEF BeingRead, Headings
<1>4. UNCHANGED <<InBody, Placement, reported>>
  BY <1>1 DEF InBody, Placement
<1>5. Objects("Global")' = Objects("Global") /\ Objects("Local")' = Objects("Local")
  BY <1>1 DEF Objects
<1>6. Abstract!Read
  BY <1>2, <1>3, <1>4, <1>5 DEF Abstract!Read
<1>7. GlobalScope' /\ Placed'
  BY <1>1 DEF TableInv, GlobalScope, Placed
<1>8. LocalScope'
  <2>1. LocalVariables' = LocalVariables
    BY <1>1 DEF LocalVariables
  <2> QED BY <1>1, <2>1 DEF TableInv, LocalScope
<1>9. Carried'
  BY <1>1 DEF Carried
<1> QED BY <1>1, <1>6, <1>7, <1>8, <1>9 DEF TableInv

\* What a recorded function stands for.
LEMMA FunctionObject ==
  ASSUME NEW done, NEW isProto \in BOOLEAN, FunctionRecorded(done, isProto),
         lptr \in Seq(Parameters), Abstract!GoodParameters(lptr)
  PROVE  Object(done.table["Global"][fnName]) =
           Abstract!Function(IF isProto THEN "prototype" ELSE "function",
                             Heading(fnName, fnRetType, lptr, is_extern))
<1> DEFINE e == done.table["Global"][fnName]
           h == Heading(fnName, fnRetType, lptr, is_extern)
           takes == [i \in DOMAIN e.formals |-> <<TypeOf(e.formals[i]), IsArray(e.formals[i])>>]
<1>1. PICK N \in Nat : N = Len(lptr) /\ DOMAIN lptr = 1 .. N /\ \A i \in 1 .. N : lptr[i] \in Parameters
  OBVIOUS
<1>2. /\ e.type = "Func" /\ e.ret_type = fnRetType /\ e.is_extern = is_extern
      /\ e.formals = [i \in 1 .. N |-> TypesOfEntry(lptr[i])]
      /\ e.fn_proto_state = IF isProto THEN "FN_PROTO" ELSE "FN_DEFINED"
  BY <1>1 DEF FunctionRecorded, FunctionEntry
<1>3. ASSUME NEW i \in 1 .. N
      PROVE  TypeOf(TypesOfEntry(lptr[i])) = lptr[i].type /\ IsArray(TypesOfEntry(lptr[i])) = lptr[i].is_array
  <2>1. lptr[i].type # "None" /\ lptr[i].is_array \in BOOLEAN
    BY <1>1 DEF Abstract!GoodParameters, Parameters
  <2> QED BY <2>1 DEF TypeOf, IsArray, TypesOfEntry
<1>4. h.ret = fnRetType /\ h.extern = is_extern /\ h.params = lptr
  BY DEF Heading
<1> HIDE DEF e, h
<1>5. takes = [i \in DOMAIN h.params |-> <<h.params[i].type, h.params[i].is_array>>]
  BY <1>1, <1>2, <1>3, <1>4
<1>6. Object(e) = [kind |-> IF e.fn_proto_state = "FN_DEFINED" THEN "function" ELSE "prototype",
                   ret |-> e.ret_type, extern |-> e.is_extern, takes |-> takes]
  BY <1>2 DEF Object
<1> HIDE DEF takes
<1>7. Object(e) = Abstract!Function(IF isProto THEN "prototype" ELSE "function", h)
  BY <1>2, <1>4, <1>5, <1>6 DEF Abstract!Function
<1> QED BY <1>7 DEF e, h

\* The global scope with a function recorded.
LEMMA FunctionScope ==
  ASSUME Plain, TableInv, ~reported, at \in {"header", "list"},
         NEW done, NEW isProto \in BOOLEAN, FunctionRecorded(done, isProto), Abstract!GoodParameters(lptr),
         IsTable(SymTab'), SymTab'["Global"] = done.table["Global"], reported' = FALSE
  PROVE  /\ GlobalScope'
         /\ DOMAIN SymTab'["Global"] \ FunctionNames = DOMAIN SymTab["Global"] \ FunctionNames
         /\ Objects("Global")' =
              Abstract!With(Objects("Global"), fnName,
                            Abstract!Function(IF isProto THEN "prototype" ELSE "function", BeingRead))
<1>1. /\ DOMAIN SymTab'["Global"] = DOMAIN SymTab["Global"] \cup {fnName}
      /\ \A n \in DOMAIN SymTab["Global"] \ {fnName} : SymTab'["Global"][n] = SymTab["Global"][n]
      /\ FunctionEntry(SymTab'["Global"][fnName])
  BY DEF FunctionRecorded
<1>2. fnName \in FunctionNames /\ BeingRead = Heading(fnName, fnRetType, lptr, is_extern)
      /\ lptr \in Seq(Parameters)
  BY SignaturesAssumption DEF TableInv, Carried, BeingRead
<1>3. DOMAIN SymTab'["Global"] \subseteq VariableNames \cup FunctionNames
  BY <1>1, <1>2 DEF TableInv, GlobalScope
<1>4. \A n \in DOMAIN SymTab'["Global"] :
        IF n \in FunctionNames THEN FunctionEntry(SymTab'["Global"][n])
        ELSE VariableEntry(SymTab'["Global"][n])
  BY <1>1, <1>2 DEF TableInv, GlobalScope
<1>5. GlobalScope'
  BY <1>3, <1>4 DEF GlobalScope, IsTable
<1>6. Object(SymTab'["Global"][fnName]) =
        Abstract!Function(IF isProto THEN "prototype" ELSE "function", BeingRead)
  BY <1>2, FunctionObject
<1>7. Objects("Global")' =
        Abstract!With(Objects("Global"), fnName,
                      Abstract!Function(IF isProto THEN "prototype" ELSE "function", BeingRead))
  BY <1>1, <1>6, OneMore
<1> QED BY <1>1, <1>2, <1>5, <1>7

LEMMA NoParameters == Abstract!GoodParameters(<<>>)
BY DEF Abstract!GoodParameters

LEMMA PrototypeListed ==
  ASSUME Plain, TableInv, ~reported, NEW name \in FunctionNames, NEW params \in ParameterLists,
         Comma(name, params)
  PROVE  TableInv' /\ BeingRead # Abstract!None /\ \E h \in Headings : Abstract!Prototype(h)
<1> DEFINE done == SymTabRecordFunInfo(TRUE)
           h == Heading(name, fnRetType, <<>>, is_extern)
<1>1. /\ at \in {"header", "list"} /\ at' = "list" /\ reported = FALSE
      /\ params = <<>> /\ lptr = <<>>
      /\ CurrScope = "Local" /\ CurrType = fnRetType
      /\ fnName \in FunctionNames /\ fnRetType \in ReturnTypes /\ is_extern \in BOOLEAN
      /\ BeingRead = Heading(fnName, fnRetType, <<>>, is_extern)
      /\ written = Heading(fnName, fnRetType, <<>>, is_extern)
      /\ ~InBody
  BY DEF Comma, Plain, TableInv, Carried, BeingRead, InBody
<1>2. /\ SymTab' = done.table
      /\ reported' = (reported \/ done.error \/ SymTabLookupAll(name, done.table))
      /\ CurrScope' = "Local" /\ CurrType' = CurrType /\ fnRetType' = CurrType /\ fnName' = name
      /\ lptr' = <<>>
      /\ written' = Heading(name, written.ret, params, is_extern)
      /\ UNCHANGED <<is_extern, local_var_id, globals, data>>
  BY <1>1 DEF Comma
<1>3. Abstract!GoodParameters(lptr)
  BY <1>1, NoParameters
<1>4. /\ done.error \in BOOLEAN /\ (done.error <=> fnName \in DOMAIN SymTab["Global"])
      /\ ~done.error => FunctionRecorded(done, TRUE)
  <2> HIDE DEF done
  <2> QED BY <1>1, <1>3, FunctionInfo DEF done
<1> HIDE DEF done
<1>5. BeingRead # Abstract!None /\ h # Abstract!None
  BY <1>1 DEF Heading, Abstract!None, Plain, NoName
<1>6. h \in Headings
  BY <1>1, <1>2 DEF Headings
<1>7. /\ h.name = name /\ h.ret = BeingRead.ret /\ h.extern = BeingRead.extern /\ BeingRead.name = fnName
      /\ BeingRead.params = <<>>
  BY <1>1 DEF Heading
<1>8. written' = h
  BY <1>1, <1>2 DEF Heading
<1>9. DOMAIN Objects("Global") = DOMAIN SymTab["Global"]
  BY ObjectsAre
<1> HIDE DEF h
<1>10. ~done.error => (SymTabLookupAll(name, done.table) <=> name \in DOMAIN SymTab["Global"] \/ name = fnName)
  <2> SUFFICES ASSUME ~done.error
               PROVE  SymTabLookupAll(name, done.table) <=> name \in DOMAIN SymTab["Global"] \/ name = fnName
    OBVIOUS
  <2>1. DOMAIN done.table["Local"] = {} /\ DOMAIN done.table["Global"] = DOMAIN SymTab["Global"] \cup {fnName}
    BY <1>1, <1>4 DEF FunctionRecorded
  <2> QED BY <2>1 DEF SymTabLookupAll, SymTabLookup
<1>11. SymTabLookupAll(name, done.table) \in BOOLEAN
  BY DEF SymTabLookupAll
<1>12. CASE reported' = TRUE
  <2>1. fnName \in DOMAIN SymTab["Global"] \/ name \in DOMAIN SymTab["Global"] \/ name = fnName
    BY <1>1, <1>2, <1>4, <1>10, <1>11, <1>12
  <2>2. TableInv'
    BY <1>12 DEF TableInv
  <2> QED BY <1>5, <1>6, <1>7, <1>9, <1>12, <2>1, <2>2, Failing DEF Abstract!Prototype
<1>13. CASE reported' = FALSE
  <2>1. ~done.error /\ name \notin DOMAIN SymTab["Global"] /\ name # fnName
        /\ fnName \notin DOMAIN SymTab["Global"]
    BY <1>1, <1>2, <1>4, <1>10, <1>11, <1>13
  <2>2. FunctionRecorded(done, TRUE) /\ IsTable(SymTab')
    BY <1>2, <1>4, <2>1 DEF FunctionRecorded
  <2>3. /\ GlobalScope'
        /\ DOMAIN SymTab'["Global"] \ FunctionNames = DOMAIN SymTab["Global"] \ FunctionNames
        /\ Objects("Global")' = Abstract!With(Objects("Global"), fnName, Abstract!Function("prototype", BeingRead))
    <3>1. SymTab'["Global"] = done.table["Global"]
      BY <1>2
    <3> QED BY <1>1, <1>3, <1>13, <2>2, <3>1, FunctionScope
  <2>4. DOMAIN SymTab'["Local"] = {} /\ DOMAIN SymTab["Local"] = {} /\ local_var_id = 0
    BY <1>1, <1>2, <2>2 DEF FunctionRecorded, TableInv, LocalScope
  <2>5. Objects("Local")' = Objects("Local")
    BY <1>1, <1>13, <2>4 DEF Objects
  <2>6. BeingRead' = h
    BY <1>1, <1>8, <1>13 DEF BeingRead
  <2>7. UNCHANGED <<InBody, Placement, reported>>
    BY <1>1, <1>2, <1>13 DEF InBody, Placement
  <2>8. Abstract!Prototype(h)
    BY <1>3, <1>1, <1>7, <1>9, <2>1, <2>3, <2>5, <2>6, <2>7 DEF Abstract!Prototype
  <2>9. LocalScope'
    <3>1. LocalVariables' = {}
      BY <2>4 DEF LocalVariables
    <3> QED BY <1>1, <1>2, <2>4, <3>1, FS_EmptySet DEF LocalScope
  <2>10. Carried'
    BY <1>1, <1>2, <1>8 DEF Carried, h
  <2>11. Placed'
    BY <1>2, <2>3 DEF TableInv, Placed
  <2> QED BY <1>5, <1>6, <1>13, <2>3, <2>8, <2>9, <2>10, <2>11 DEF TableInv
<1>14. reported' \in BOOLEAN
  BY <1>1, <1>2, <1>4, <1>11
<1> QED BY <1>12, <1>13, <1>14

LEMMA PrototypeEnds ==
  ASSUME Plain, TableInv, ~reported, Semicolon
  PROVE  TableInv' /\ BeingRead # Abstract!None /\ Abstract!Prototype(Abstract!None)
<1> DEFINE done == SymTabRecordFunInfo(TRUE)
<1>1. /\ at \in {"header", "list"} /\ at' = "top" /\ reported = FALSE
      /\ CurrScope' = "Global" /\ local_var_id' = 0
      /\ fnName \in FunctionNames
      /\ BeingRead = Heading(fnName, fnRetType, lptr, is_extern)
      /\ ~InBody
      /\ reported' = (reported \/ done.error)
      /\ SymTab' = [done.table EXCEPT !["Local"] = <<>>]
      /\ UNCHANGED <<globals, data>>
  BY DEF Semicolon, CleanupFnInfo, TableInv, Carried, BeingRead, InBody
<1>2. /\ done.error \in BOOLEAN
      /\ done.error <=> ~Abstract!GoodParameters(lptr) \/ fnName \in DOMAIN SymTab["Global"]
      /\ ~done.error => FunctionRecorded(done, TRUE)
  <2> HIDE DEF done
  <2> QED BY <1>1, FunctionInfo DEF done
<1> HIDE DEF done
<1>3. BeingRead # Abstract!None /\ BeingRead.name = fnName /\ BeingRead.params = lptr
  BY <1>1 DEF Heading, Abstract!None, Plain, NoName
<1>4. DOMAIN Objects("Global") = DOMAIN SymTab["Global"]
  BY ObjectsAre
<1>5. CASE reported' = TRUE
  <2>1. fnName \in DOMAIN SymTab["Global"] \/ ~Abstract!GoodParameters(lptr)
    BY <1>1, <1>2, <1>5
  <2>2. TableInv'
    BY <1>5 DEF TableInv
  <2> QED BY <1>3, <1>4, <1>5, <2>1, <2>2, Failing DEF Abstract!Prototype
<1>6. CASE reported' = FALSE
  <2>1. Abstract!GoodParameters(lptr) /\ fnName \notin DOMAIN SymTab["Global"] /\ FunctionRecorded(done, TRUE)
    BY <1>1, <1>2, <1>6
  <2>2. IsTable(SymTab') /\ SymTab'["Global"] = done.table["Global"] /\ SymTab'["Local"] = <<>>
    <3>1. IsTable(done.table)
      BY <2>1 DEF FunctionRecorded
    <3>2. SymTab' = [scope \in {"Local", "Global"} |-> IF scope = "Local" THEN <<>> ELSE done.table[scope]]
      BY <1>1, <3>1 DEF IsTable
    <3>3. <<>> = [n \in DOMAIN <<>> |-> <<>>[n]]
      OBVIOUS
    <3> QED BY <3>1, <3>2, <3>3 DEF IsTable
  <2>3. /\ GlobalScope'
        /\ DOMAIN SymTab'["Global"] \ FunctionNames = DOMAIN SymTab["Global"] \ FunctionNames
        /\ Objects("Global")' = Abstract!With(Objects("Global"), fnName, Abstract!Function("prototype", BeingRead))
    BY <1>1, <1>6, <2>1, <2>2, FunctionScope
  <2>4. DOMAIN SymTab'["Local"] = {} /\ DOMAIN SymTab["Local"] = {}
    BY <1>1, <2>2 DEF TableInv, LocalScope
  <2>5. Objects("Local")' = Objects("Local")
    BY <1>1, <1>6, <2>4 DEF Objects
  <2>6. BeingRead' = Abstract!None
    BY <1>1 DEF BeingRead, Abstract!None, Heading, NoName
  <2>7. UNCHANGED <<InBody, Placement, reported>>
    BY <1>1, <1>6 DEF InBody, Placement
  <2>8. Abstract!Prototype(Abstract!None)
    BY <1>1, <1>3, <1>4, <2>1, <2>3, <2>5, <2>6, <2>7 DEF Abstract!Prototype
  <2>9. LocalScope'
    <3>1. LocalVariables' = {}
      BY <2>4 DEF LocalVariables
    <3> QED BY <1>1, <2>4, <3>1, FS_EmptySet DEF LocalScope
  <2>10. Carried'
    BY <1>1 DEF Carried
  <2>11. Placed'
    BY <1>1, <2>3 DEF TableInv, Placed
  <2> QED BY <1>3, <1>6, <2>3, <2>8, <2>9, <2>10, <2>11 DEF TableInv
<1>7. reported' \in BOOLEAN
  BY <1>1, <1>2
<1> QED BY <1>5, <1>6, <1>7

\* A definition completes what is known of its name if it is like the
\* prototype.
LEMMA CompletesIs ==
  ASSUME Plain, TableInv, ~reported, at = "header", ~is_extern
  PROVE  Abstract!Completes(BeingRead) <=>
           ~(/\ fnName \in DOMAIN SymTab["Global"]
             /\ KnownFunction.fn_proto_state # "FN_PROTO" \/ UnlikePrototype(KnownFunction))
<1> DEFINE h == [BeingRead EXCEPT !.extern = FALSE]
           f == KnownFunction
<1>1. /\ BeingRead = Heading(fnName, fnRetType, lptr, is_extern) /\ lptr \in Seq(Parameters)
      /\ fnName \in FunctionNames
  BY SignaturesAssumption DEF TableInv, Carried, BeingRead
<1>2. h.ret = fnRetType /\ h.params = lptr /\ h.extern = FALSE /\ BeingRead.name = fnName /\ h.name = fnName
  BY <1>1 DEF Heading
<1>3. DOMAIN Objects("Global") = DOMAIN SymTab["Global"]
  BY ObjectsAre
<1>4. ASSUME fnName \in DOMAIN SymTab["Global"]
      PROVE  Objects("Global")[fnName] = Abstract!Function("prototype", h) <=>
               ~(f.fn_proto_state # "FN_PROTO" \/ UnlikePrototype(f))
  <2>1. FunctionEntry(f) /\ Objects("Global")[fnName] = Object(f)
    BY <1>1, <1>4, ObjectsAre DEF TableInv, GlobalScope, KnownFunction
  <2> DEFINE takes == [i \in DOMAIN f.formals |-> <<TypeOf(f.formals[i]), IsArray(f.formals[i])>>]
             wanted == [i \in DOMAIN h.params |-> <<h.params[i].type, h.params[i].is_array>>]
             no == FALSE
  <2>2. f.type = "Func" /\ f.is_extern \in BOOLEAN /\ f.fn_proto_state \in {"FN_PROTO", "FN_DEFINED"}
        /\ f.formals \in Seq([type : {"Int", "Char", "Array"}, elt_type : Types])
        /\ \A i \in DOMAIN f.formals : f.formals[i].type = "Array" <=> f.formals[i].elt_type # "None"
    BY <2>1 DEF FunctionEntry
  <2> HIDE DEF f, h
  <2>3. Object(f) = [kind |-> IF f.fn_proto_state = "FN_DEFINED" THEN "function" ELSE "prototype",
                     ret |-> f.ret_type, extern |-> f.is_extern, takes |-> takes]
    BY <2>2 DEF Object
  <2>4. Abstract!Function("prototype", h) =
          [kind |-> "prototype", ret |-> fnRetType, extern |-> no, takes |-> wanted]
    BY <1>2 DEF Abstract!Function
  <2> HIDE DEF takes, wanted, no
  <2>5. Object(f) = Abstract!Function("prototype", h) <=>
          /\ f.fn_proto_state = "FN_PROTO" /\ f.ret_type = fnRetType /\ f.is_extern = FALSE /\ takes = wanted
    <3>1. Object(f) = Abstract!Function("prototype", h) <=>
            /\ f.fn_proto_state = "FN_PROTO" /\ f.ret_type = fnRetType /\ f.is_extern = no /\ takes = wanted
      BY <2>2, <2>3, <2>4
    <3> QED BY <3>1 DEF no
  <2>6. PICK m \in Nat : m = Len(f.formals) /\ DOMAIN f.formals = 1 .. m
    BY <2>2
  <2>7. PICK n \in Nat : n = Len(lptr) /\ DOMAIN lptr = 1 .. n
    BY <1>1
  <2>8. ASSUME NEW i \in (1 .. m) \cap (1 .. n)
        PROVE  takes[i] = wanted[i] <=> ~Mismatch(f.formals[i], lptr[i])
    <3>1. lptr[i].type \in Types /\ lptr[i].is_array \in BOOLEAN /\ lptr[i] = h.params[i]
      <4>1. lptr[i] \in Parameters
        BY <1>1, <2>7, <2>8
      <4> QED BY <1>2, <4>1 DEF Parameters
    <3>2. takes[i] = <<TypeOf(f.formals[i]), IsArray(f.formals[i])>>
          /\ wanted[i] = <<lptr[i].type, lptr[i].is_array>>
      BY <1>2, <2>6, <2>7, <2>8 DEF takes, wanted
    <3>3. IsArray(f.formals[i]) \in BOOLEAN
      BY DEF IsArray
    <3>4. takes[i] = wanted[i] <=>
            TypeOf(f.formals[i]) = lptr[i].type /\ (IsArray(f.formals[i]) <=> lptr[i].is_array)
      BY <3>1, <3>2, <3>3
    <3>5. Mismatch(f.formals[i], lptr[i]) <=>
            ~(TypeOf(f.formals[i]) = lptr[i].type /\ (IsArray(f.formals[i]) <=> lptr[i].is_array))
      BY <3>1, <3>3 DEF Mismatch, TypeOf, IsArray
    <3> QED BY <3>4, <3>5
  <2>9. takes = wanted <=> m = n /\ \A i \in (1 .. m) \cap (1 .. n) : takes[i] = wanted[i]
    <3>1. DOMAIN takes = 1 .. m /\ DOMAIN wanted = 1 .. n
      BY <1>2, <2>6, <2>7 DEF takes, wanted
    <3>2. takes = [i \in 1 .. m |-> takes[i]] /\ wanted = [i \in 1 .. n |-> wanted[i]]
      BY <1>2, <2>6, <2>7 DEF takes, wanted
    <3>3. 1 .. m = 1 .. n => m = n
      <4>1. \A k \in Nat : k \in 1 .. m <=> k # 0 /\ k <= m
        OBVIOUS
      <4>2. \A k \in Nat : k \in 1 .. n <=> k # 0 /\ k <= n
        OBVIOUS
      <4> QED BY <4>1, <4>2
    <3>4. takes = wanted => m = n
      BY <3>1, <3>3
    <3>5. m = n /\ (\A i \in (1 .. m) \cap (1 .. n) : takes[i] = wanted[i]) => takes = wanted
      BY <3>2
    <3> QED BY <3>4, <3>5
  <2>10. UnlikePrototype(f) <=> \/ \E i \in (1 .. m) \cap (1 .. n) : Mismatch(f.formals[i], lptr[i])
                                \/ m # n \/ fnRetType # f.ret_type \/ f.is_extern
    BY <2>6, <2>7 DEF UnlikePrototype
  <2> QED BY <2>1, <2>2, <2>5, <2>8, <2>9, <2>10
<1> HIDE DEF h
<1>5. Abstract!Completes(BeingRead) <=>
        (fnName \in DOMAIN SymTab["Global"] => Objects("Global")[fnName] = Abstract!Function("prototype", h))
  BY <1>2, <1>3 DEF Abstract!Completes, h
<1> QED BY <1>4, <1>5

LEMMA DefinitionOpens ==
  ASSUME Plain, TableInv, ~reported, OpenBody
  PROVE  TableInv' /\ Abstract!Open
<1> DEFINE done == SymTabRecordFunInfo(FALSE)
<1>1. /\ at = "header" /\ at' = "body" /\ reported = FALSE /\ is_extern = FALSE
      /\ CurrScope = "Local" /\ fnName \in FunctionNames
      /\ BeingRead = Heading(fnName, fnRetType, lptr, is_extern)
      /\ reported' = (reported \/ done.error)
      /\ SymTab' = done.table
      /\ UNCHANGED <<CurrScope, globals, data, local_var_id>>
  BY DEF OpenBody, TableInv, Carried, BeingRead
<1>2. /\ done.error \in BOOLEAN
      /\ done.error <=> ~Abstract!GoodParameters(lptr) \/ ~Abstract!Completes(BeingRead)
      /\ ~done.error => FunctionRecorded(done, FALSE)
  <2>1. /\ done.error \in BOOLEAN
        /\ done.error <=> \/ ~Abstract!GoodParameters(lptr)
                          \/ /\ fnName \in DOMAIN SymTab["Global"]
                             /\ KnownFunction.fn_proto_state # "FN_PROTO" \/ UnlikePrototype(KnownFunction)
        /\ ~done.error => FunctionRecorded(done, FALSE)
    <3> HIDE DEF done
    <3> QED BY <1>1, FunctionInfo DEF done
  <2> HIDE DEF done
  <2> QED BY <1>1, <2>1, CompletesIs
<1> HIDE DEF done
<1>3. BeingRead # Abstract!None /\ BeingRead.name = fnName /\ BeingRead.params = lptr
  BY <1>1 DEF Heading, Abstract!None, Plain, NoName
<1>4. CASE reported' = TRUE
  <2>1. ~Abstract!Completes(BeingRead) \/ ~Abstract!GoodParameters(lptr)
    BY <1>1, <1>2, <1>4
  <2>2. TableInv'
    BY <1>4 DEF TableInv
  <2> QED BY <1>3, <1>4, <2>1, <2>2, Failing DEF Abstract!Open
<1>5. CASE reported' = FALSE
  <2>1. Abstract!GoodParameters(lptr) /\ Abstract!Completes(BeingRead) /\ FunctionRecorded(done, FALSE)
    BY <1>1, <1>2, <1>5
  <2>2. IsTable(SymTab') /\ SymTab'["Global"] = done.table["Global"]
    BY <1>1, <2>1 DEF FunctionRecorded
  <2>3. /\ GlobalScope'
        /\ DOMAIN SymTab'["Global"] \ FunctionNames = DOMAIN SymTab["Global"] \ FunctionNames
        /\ Objects("Global")' = Abstract!With(Objects("Global"), fnName, Abstract!Function("function", BeingRead))
    BY <1>1, <1>5, <2>1, <2>2, FunctionScope
  <2>4. PICK N \in Nat : N = Len(lptr) /\ DOMAIN lptr = 1 .. N /\ \A i \in 1 .. N : lptr[i] \in Parameters
    BY <1>1, SignaturesAssumption DEF TableInv, Carried
  <2>5. /\ DOMAIN SymTab'["Local"] = {lptr[i].name : i \in 1 .. N}
        /\ \A i \in 1 .. N : SymTab'["Local"][lptr[i].name] = FormalEntry(Fresh, lptr[i], i)
    BY <1>1, <2>1, <2>4 DEF FunctionRecorded
  <2>6. ASSUME NEW i \in 1 .. N
        PROVE  LET e == FormalEntry(Fresh, lptr[i], i)
               IN  e.type # "Func" /\ e.formal = TRUE /\ Object(e) = Abstract!Formal(lptr[i], i)
    <3> DEFINE e == FormalEntry(Fresh, lptr[i], i)
    <3>1. lptr[i].type # "None" /\ lptr[i].type \in Types /\ lptr[i].is_array \in BOOLEAN
      BY <2>1, <2>4 DEF Abstract!GoodParameters, Parameters
    <3>2. /\ e.type = IF lptr[i].is_array THEN "Array" ELSE lptr[i].type
          /\ e.elt_type = IF lptr[i].is_array THEN lptr[i].type ELSE "None"
          /\ e.formal = TRUE /\ e.fp_offset = 4 * (i + 1)
      BY DEF FormalEntry, Fresh
    <3> HIDE DEF e
    <3>3. e.type # "Func"
      BY <3>1, <3>2 DEF Types
    <3>4. TypeOf(e) = lptr[i].type /\ IsArray(e) = lptr[i].is_array
      BY <3>1, <3>2 DEF TypeOf, IsArray
    <3>5. e.fp_offset \div 4 - 1 = i
      BY <3>2
    <3>6. Object(e) = Abstract!Formal(lptr[i], i)
      BY <3>2, <3>3, <3>4, <3>5 DEF Object, Abstract!Formal
    <3> QED BY <3>2, <3>3, <3>6 DEF e
  <2>7. Objects("Local")' = Abstract!Formals(lptr)
    <3> DEFINE Named(n) == CHOOSE j \in DOMAIN lptr : lptr[j].name = n
    <3>1. ASSUME NEW n \in {lptr[i].name : i \in DOMAIN lptr}
          PROVE  Object(SymTab'["Local"][n]) = Abstract!Formal(lptr[Named(n)], Named(n))
      <4>1. Named(n) \in 1 .. N /\ lptr[Named(n)].name = n
        BY <2>4, <3>1
      <4> HIDE DEF Named
      <4>2. SymTab'["Local"][n] = FormalEntry(Fresh, lptr[Named(n)], Named(n))
        BY <2>5, <4>1
      <4> QED BY <2>6, <4>1, <4>2
    <3>2. Objects("Local")' = [n \in DOMAIN SymTab'["Local"] |-> Object(SymTab'["Local"][n])]
      BY <1>5 DEF Objects
    <3>3. Objects("Local")' = [n \in {lptr[i].name : i \in DOMAIN lptr} |-> Abstract!Formal(lptr[Named(n)], Named(n))]
      <4> HIDE DEF Named
      <4> QED BY <2>4, <2>5, <3>1, <3>2
    <3> QED BY <3>3 DEF Abstract!Formals
  <2>8. /\ InBody' = TRUE /\ BeingRead' = Abstract!None
        /\ UNCHANGED <<Placement, reported>>
    BY <1>1, <1>5 DEF InBody, BeingRead, Abstract!None, Heading, NoName, Placement
  <2>9. Abstract!Open
    BY <1>3, <2>1, <2>3, <2>7, <2>8 DEF Abstract!Open
  <2>10. LocalScope'
    <3>1. \A n \in DOMAIN SymTab'["Local"] :
            SymTab'["Local"][n].type # "Func" /\ SymTab'["Local"][n].formal = TRUE
      BY <2>5, <2>6
    <3>2. LocalVariables' = {}
      BY <3>1 DEF LocalVariables, VariableEntry
    <3>3. local_var_id' = 0
      BY <1>1 DEF TableInv, LocalScope
    <3> QED BY <1>1, <3>1, <3>2, <3>3, FS_EmptySet DEF LocalScope
  <2>11. Carried'
    BY <1>1 DEF Carried
  <2>12. Placed'
    BY <1>1, <2>3 DEF TableInv, Placed
  <2> QED BY <1>5, <2>3, <2>9, <2>10, <2>11, <2>12 DEF TableInv
<1>6. reported' \in BOOLEAN
  BY <1>1, <1>2
<1> QED BY <1>4, <1>5, <1>6

LEMMA DefinitionCloses ==
  ASSUME TableInv, ~reported, CloseBody
  PROVE  TableInv' /\ Abstract!Close
<1>1. /\ at = "body" /\ at' = "top" /\ reported = FALSE /\ reported' = FALSE
      /\ CurrScope' = "Global" /\ local_var_id' = 0
      /\ data' = data \o globals /\ globals' = <<>>
      /\ SymTab' = [SymTab EXCEPT !["Local"] = <<>>]
  BY DEF CloseBody, CleanupFnInfo, TableInv, OP_Global
<1>2. SymTab'["Global"] = SymTab["Global"] /\ SymTab'["Local"] = <<>> /\ IsTable(SymTab')
  <2>1. SymTab' = [scope \in {"Local", "Global"} |-> IF scope = "Local" THEN <<>> ELSE SymTab[scope]]
    BY <1>1 DEF TableInv, GlobalScope
  <2>2. <<>> = [n \in DOMAIN <<>> |-> <<>>[n]]
    OBVIOUS
  <2> QED BY <2>1, <2>2 DEF TableInv, GlobalScope, IsTable
<1> DEFINE all == data \o globals
<1>3. /\ data \in Seq(VariableNames) /\ globals \in Seq(VariableNames) /\ all \in Seq(VariableNames)
      /\ ToSet(all) = DOMAIN SymTab["Global"] \ FunctionNames
      /\ \A i, j \in DOMAIN all : all[i] = all[j] => i = j
  BY DEF TableInv, Placed
<1> HIDE DEF all
<1>4. Objects("Global")' = Objects("Global") /\ Objects("Local")' = <<>>
  BY <1>1, <1>2 DEF Objects
<1>5. {m \in DOMAIN Objects("Global") : Objects("Global")[m].kind = "variable"} = ToSet(all)
  <2>1. ASSUME NEW m \in DOMAIN SymTab["Global"]
        PROVE  Objects("Global")[m].kind = "variable" <=> m \notin FunctionNames
    <3>1. /\ m \in FunctionNames => FunctionEntry(SymTab["Global"][m])
          /\ m \notin FunctionNames => VariableEntry(SymTab["Global"][m])
      BY DEF TableInv, GlobalScope
    <3>2. Objects("Global")[m] = Object(SymTab["Global"][m])
      BY ObjectsAre
    <3>3. VariableEntry(SymTab["Global"][m]) => Object(SymTab["Global"][m]).kind = "variable"
      BY ObjectKinds DEF VariableEntry
    <3>4. FunctionEntry(SymTab["Global"][m]) => Object(SymTab["Global"][m]).kind # "variable"
      BY ObjectKinds
    <3> QED BY <3>1, <3>2, <3>3, <3>4
  <2> QED BY <1>3, <2>1, ObjectsAre
<1>6. Placement' = [n \in ToSet(all) |-> 1]
  <2>1. ASSUME NEW n \in ToSet(all) PROVE Cardinality({i \in DOMAIN all : all[i] = n}) = 1
    <3>1. PICK i \in DOMAIN all : all[i] = n
      BY <2>1 DEF ToSet
    <3>2. {j \in DOMAIN all : all[j] = n} = {i}
      BY <1>3, <3>1
    <3> QED BY <3>2, FS_Singleton
  <2>2. Placement' = [n \in ToSet(all) |-> Cardinality({i \in DOMAIN all : all[i] = n})]
    BY <1>1 DEF Placement, all
  <2> QED BY <2>1, <2>2
<1>7. InBody = TRUE /\ InBody' = FALSE /\ UNCHANGED <<BeingRead, reported>>
  BY <1>1 DEF InBody, BeingRead
<1>8. Abstract!Close
  BY <1>4, <1>5, <1>6, <1>7 DEF Abstract!Close
<1>9. GlobalScope'
  BY <1>2 DEF TableInv, GlobalScope, IsTable
<1>10. LocalScope'
  <2>1. LocalVariables' = {}
    BY <1>2 DEF LocalVariables
  <2> QED BY <1>1, <1>2, <2>1, FS_EmptySet DEF LocalScope
<1>11. Carried'
  BY <1>1 DEF Carried
<1>12. Placed'
  <2>1. data' \o globals' = all /\ data' \in Seq(VariableNames) /\ globals' \in Seq(VariableNames)
    BY <1>1, <1>3 DEF all
  <2> QED BY <1>2, <1>3, <2>1 DEF Placed
<1> QED BY <1>1, <1>8, <1>9, <1>10, <1>11, <1>12 DEF TableInv

LEMMA NextDeclarations ==
  ASSUME Plain, TableInv, [NextTable]_table_vars
  PROVE  TableInv' /\ [Abstract!Next]_(Abstract!vars)
<1>1. CASE UNCHANGED table_vars
  <2>1. TableInv'
    BY <1>1 DEF table_vars, TableInv, GlobalScope, LocalScope, LocalVariables, Carried, Placed
  <2>2. UNCHANGED Abstract!vars
    BY <1>1 DEF table_vars, Abstract!vars, Objects, BeingRead, InBody, Placement
  <2> QED BY <2>1, <2>2
<1>2. CASE NextTable /\ reported
  <2>1. reported = TRUE /\ reported' = TRUE
    BY <1>2 DEF NextTable, GlobalVariable, LocalVariable, id_decl, Header, Comma, Semicolon, OpenBody,
                CloseBody, TableInv
  <2>2. TableInv'
    BY <2>1 DEF TableInv
  <2> QED BY <2>1, <2>2, AfterFailure
<1>3. CASE NextTable /\ ~reported
  <2>1. ASSUME NEW id \in VariableNames, NEW ty \in Types, NEW is_array \in BOOLEAN,
               GlobalVariable(id, ty, is_array)
        PROVE  TableInv' /\ Abstract!Next
    BY <1>3, <2>1, GlobalDeclared DEF Abstract!Next
  <2>2. ASSUME NEW id \in VariableNames \cup FunctionNames, NEW ty \in Types, NEW is_array \in BOOLEAN,
               LocalVariable(id, ty, is_array)
        PROVE  TableInv' /\ Abstract!Next
    BY <1>3, <2>2, LocalDeclared DEF Abstract!Next
  <2>3. ASSUME NEW name \in FunctionNames, NEW params \in ParameterLists, NEW ret \in ReturnTypes,
               NEW extern \in BOOLEAN, Header(ret, name, params, extern)
        PROVE  TableInv' /\ Abstract!Next
    BY <1>3, <2>3, HeaderRead DEF Abstract!Next
  <2>4. ASSUME NEW name \in FunctionNames, NEW params \in ParameterLists, Comma(name, params)
        PROVE  TableInv' /\ Abstract!Next
    BY <1>3, <2>4, PrototypeListed DEF Abstract!Next
  <2>5. ASSUME Semicolon PROVE TableInv' /\ Abstract!Next
    BY <1>3, <2>5, PrototypeEnds DEF Abstract!Next
  <2>6. ASSUME OpenBody PROVE TableInv' /\ Abstract!Next
    BY <1>3, <2>6, DefinitionOpens DEF Abstract!Next
  <2>7. ASSUME CloseBody PROVE TableInv' /\ Abstract!Next
    BY <1>3, <2>7, DefinitionCloses DEF Abstract!Next
  <2> QED BY <1>3, <2>1, <2>2, <2>3, <2>4, <2>5, <2>6, <2>7 DEF NextTable
<1> QED BY <1>1, <1>2, <1>3

\* The symbol table implements Declarations for any names, signatures and
\* numbers of declarations, in programs that are plain.
THEOREM TableIsDeclarations == ASSUME Plain PROVE TableSpec => ImplementsDeclarations
<1>1. InitTable => TableInv /\ Abstract!Init
  BY InitDeclarations
<1>2. TableInv /\ [NextTable]_table_vars => TableInv' /\ [Abstract!Next]_(Abstract!vars)
  BY NextDeclarations
<1> QED BY <1>1, <1>2, PTL DEF TableSpec, ImplementsDeclarations, Abstract!Spec

-----------------------------------------------------------------------------
(***************************************************************************)
(* The parser's checks.                                                    *)
(***************************************************************************)
LEMMA DepthIsNatural == MaxDepth \in Nat
BY TableAssumption, Zenon

\* The levels of the grammar are defined.
LEMMA PhraseLevels ==
  PhrasesTo = [n \in 0 .. MaxDepth |-> IF n = 0 THEN {} ELSE PhrasesOver(PhrasesTo[n - 1])]
<1> DEFINE IsLevels(f, n) == f = [m \in 0 .. n |-> IF m = 0 THEN {} ELSE PhrasesOver(f[m - 1])]
           T == {n \in Nat : \E f : IsLevels(f, n)}
<1>1. 0 \in T
  <2> DEFINE f == [m \in 0 .. 0 |-> {}]
  <2>1. \A m \in 0 .. 0 : m = 0
    OBVIOUS
  <2>2. IsLevels(f, 0)
    BY <2>1
  <2> QED BY <2>2
<1>2. ASSUME NEW n \in Nat, n \in T PROVE n + 1 \in T
  <2>1. PICK f : IsLevels(f, n)
    BY <1>2
  <2> DEFINE g == [m \in 0 .. n + 1 |-> IF m = 0 THEN {} ELSE PhrasesOver(f[m - 1])]
  <2>2. ASSUME NEW m \in 0 .. n PROVE g[m] = f[m]
    <3>1. f[m] = IF m = 0 THEN {} ELSE PhrasesOver(f[m - 1])
      BY <2>1
    <3>2. m \in 0 .. n + 1
      OBVIOUS
    <3> QED BY <3>1, <3>2
  <2>3. ASSUME NEW m \in 0 .. n + 1, m # 0 PROVE g[m] = PhrasesOver(g[m - 1])
    <3>1. m - 1 \in 0 .. n
      BY <2>3
    <3>2. g[m - 1] = f[m - 1]
      BY <2>2, <3>1
    <3> QED BY <3>2, <2>3
  <2>4. IsLevels(g, n + 1)
    BY <2>3
  <2> HIDE DEF g
  <2> QED BY <2>4
<1>3. \A n \in Nat : n \in T
  <2> HIDE DEF T
  <2> QED BY <1>1, <1>2, SetInduction
<1>4. MaxDepth \in T
  BY <1>3, DepthIsNatural
<1> QED BY <1>4 DEF PhrasesTo

LEMMA NodeLevels ==
  NodesTo = [n \in 0 .. MaxDepth + 2 |-> IF n = 0 THEN {} ELSE NodesOver(NodesTo[n - 1])]
<1> DEFINE IsLevels(f, n) == f = [m \in 0 .. n |-> IF m = 0 THEN {} ELSE NodesOver(f[m - 1])]
           T == {n \in Nat : \E f : IsLevels(f, n)}
<1>1. 0 \in T
  <2> DEFINE f == [m \in 0 .. 0 |-> {}]
  <2>1. \A m \in 0 .. 0 : m = 0
    OBVIOUS
  <2>2. IsLevels(f, 0)
    BY <2>1
  <2> QED BY <2>2
<1>2. ASSUME NEW n \in Nat, n \in T PROVE n + 1 \in T
  <2>1. PICK f : IsLevels(f, n)
    BY <1>2
  <2> DEFINE g == [m \in 0 .. n + 1 |-> IF m = 0 THEN {} ELSE NodesOver(f[m - 1])]
  <2>2. ASSUME NEW m \in 0 .. n PROVE g[m] = f[m]
    <3>1. f[m] = IF m = 0 THEN {} ELSE NodesOver(f[m - 1])
      BY <2>1
    <3>2. m \in 0 .. n + 1
      OBVIOUS
    <3> QED BY <3>1, <3>2
  <2>3. ASSUME NEW m \in 0 .. n + 1, m # 0 PROVE g[m] = NodesOver(g[m - 1])
    <3>1. m - 1 \in 0 .. n
      BY <2>3
    <3>2. g[m - 1] = f[m - 1]
      BY <2>2, <3>1
    <3> QED BY <3>2, <2>3
  <2>4. IsLevels(g, n + 1)
    BY <2>3
  <2> HIDE DEF g
  <2> QED BY <2>4
<1>3. \A n \in Nat : n \in T
  <2> HIDE DEF T
  <2> QED BY <1>1, <1>2, SetInduction
<1>4. MaxDepth + 2 \in Nat
  BY DepthIsNatural
<1>5. MaxDepth + 2 \in T
  <2> HIDE DEF T
  <2> QED BY <1>3, <1>4
<1> QED BY <1>5 DEF NodesTo

\* What a phrase is, and what its parts are.
LEMMA PhraseOfLevel ==
  ASSUME NEW n \in 1 .. MaxDepth, NEW p \in PhrasesTo[n]
  PROVE  p \in PhrasesOver(PhrasesTo[n - 1]) /\ p.kids \in Seq(PhrasesTo[n - 1])
<1>1. n \in 0 .. MaxDepth /\ n # 0
  BY DepthIsNatural
<1>2. PhrasesTo[n] = PhrasesOver(PhrasesTo[n - 1])
  BY <1>1, PhraseLevels
<1> QED BY <1>2 DEF PhrasesOver

LEMMA LevelZero == PhrasesTo[0] = {} /\ NodesTo[0] = {}
<1>1. 0 \in 0 .. MaxDepth /\ 0 \in 0 .. MaxDepth + 2
  BY DepthIsNatural
<1> QED BY <1>1, PhraseLevels, NodeLevels

\* Deeper levels hold what the others do.
LEMMA PhrasesOverMonotone ==
  ASSUME NEW S, NEW U, S \subseteq U
  PROVE  PhrasesOver(S) \subseteq PhrasesOver(U)
<1>1. ASSUME NEW s \in Seq(S) PROVE s \in Seq(U)
  <2>1. Len(s) \in Nat /\ s \in [1 .. Len(s) -> S]
    OBVIOUS
  <2>2. s \in [1 .. Len(s) -> U]
    BY <2>1
  <2> QED BY <2>1, <2>2
<1> QED BY <1>1 DEF PhrasesOver

LEMMA PhraseLevelsGrow ==
  \A n \in 0 .. MaxDepth - 1 : PhrasesTo[n] \subseteq PhrasesTo[n + 1]
<1> DEFINE T == {n \in Nat : n < MaxDepth => PhrasesTo[n] \subseteq PhrasesTo[n + 1]}
<1>1. 0 \in T
  BY LevelZero
<1>2. ASSUME NEW n \in Nat, n \in T PROVE n + 1 \in T
  <2> SUFFICES ASSUME n + 1 < MaxDepth PROVE PhrasesTo[n + 1] \subseteq PhrasesTo[(n + 1) + 1]
    OBVIOUS
  <2>1. n + 1 \in 0 .. MaxDepth /\ n + 1 # 0 /\ (n + 1) - 1 = n
        /\ (n + 1) + 1 \in 0 .. MaxDepth /\ (n + 1) + 1 # 0 /\ ((n + 1) + 1) - 1 = n + 1
    BY DepthIsNatural
  <2>2. PhrasesTo[n + 1] = PhrasesOver(PhrasesTo[n])
    BY <2>1, PhraseLevels
  <2>3. PhrasesTo[(n + 1) + 1] = PhrasesOver(PhrasesTo[n + 1])
    BY <2>1, PhraseLevels
  <2>4. PhrasesTo[n] \subseteq PhrasesTo[n + 1]
    BY <1>2, DepthIsNatural
  <2> QED BY <2>2, <2>3, <2>4, PhrasesOverMonotone
<1>3. \A n \in Nat : n \in T
  <2> HIDE DEF T
  <2> QED BY <1>1, <1>2, SetInduction
<1> QED BY <1>3, DepthIsNatural

LEMMA PhrasesInGrammar ==
  \A n \in 0 .. MaxDepth : PhrasesTo[n] \subseteq Grammar
<1> DEFINE T == {n \in 0 .. MaxDepth : PhrasesTo[n] \subseteq Grammar}
<1>1. MaxDepth \in T
  BY DepthIsNatural DEF Grammar
<1>2. \A n \in 0 .. MaxDepth - 1 : n + 1 \in T => n \in T
  BY PhraseLevelsGrow, DepthIsNatural
<1>3. \A n \in 0 .. MaxDepth : n \in T
  <2> HIDE DEF T
  <2>1. 0 \in Int /\ MaxDepth \in Int
    BY DepthIsNatural
  <2> QED BY <1>1, <1>2, <2>1, BackwardInduction
<1> QED BY <1>3

LEMMA PartsInGrammar ==
  ASSUME NEW p \in Grammar, NEW i \in DOMAIN p.kids
  PROVE  p.kids[i] \in Grammar
<1>1. MaxDepth # 0
  BY LevelZero DEF Grammar
<1>2. MaxDepth \in 1 .. MaxDepth /\ MaxDepth - 1 \in 0 .. MaxDepth
  BY <1>1, DepthIsNatural
<1>3. p.kids \in Seq(PhrasesTo[MaxDepth - 1])
  BY <1>2, PhraseOfLevel DEF Grammar
<1>4. p.kids[i] \in PhrasesTo[MaxDepth - 1]
  BY <1>3
<1> QED BY <1>2, <1>4, PhrasesInGrammar

\* What holds of a phrase whenever it holds of its parts holds of every phrase.
LEMMA GrammarInduction ==
  ASSUME NEW H,
         \A p \in Grammar : (\A i \in DOMAIN p.kids : p.kids[i] \in H) => p \in H
  PROVE  \A p \in Grammar : p \in H
<1> DEFINE T == {n \in Nat : n <= MaxDepth => PhrasesTo[n] \subseteq H}
<1>1. 0 \in T
  BY LevelZero
<1>2. ASSUME NEW n \in Nat, n \in T PROVE n + 1 \in T
  <2> SUFFICES ASSUME n + 1 <= MaxDepth, NEW p \in PhrasesTo[n + 1] PROVE p \in H
    OBVIOUS
  <2>1. n + 1 \in 1 .. MaxDepth /\ (n + 1) - 1 = n /\ n <= MaxDepth /\ n + 1 \in 0 .. MaxDepth
    BY DepthIsNatural
  <2>2. p.kids \in Seq(PhrasesTo[n])
    BY <2>1, PhraseOfLevel
  <2>3. \A i \in DOMAIN p.kids : p.kids[i] \in H
    BY <1>2, <2>1, <2>2
  <2>4. p \in Grammar
    BY <2>1, PhrasesInGrammar
  <2> QED BY <2>3, <2>4
<1>3. \A n \in Nat : n \in T
  <2> HIDE DEF T
  <2> QED BY <1>1, <1>2, SetInduction
<1> QED BY <1>3, DepthIsNatural DEF Grammar

LEMMA TreesDefined ==
  ASSUME NEW ret PROVE Trees(ret) = [p \in Grammar |-> Reduced(p, [i \in DOMAIN p.kids |-> Trees(ret)[p.kids[i]]], ret)]
<1> DEFINE Defines(f, n) == f = [p \in PhrasesTo[n] |-> Reduced(p, [i \in DOMAIN p.kids |-> f[p.kids[i]]], ret)]
           T == {n \in Nat : n <= MaxDepth => \E f : Defines(f, n)}
<1>1. 0 \in T
  <2> DEFINE f == [p \in PhrasesTo[0] |-> {}]
  <2>1. Defines(f, 0)
    BY LevelZero
  <2> HIDE DEF f
  <2> QED BY <2>1
<1>2. ASSUME NEW n \in Nat, n \in T PROVE n + 1 \in T
  <2> SUFFICES ASSUME n + 1 <= MaxDepth PROVE \E f : Defines(f, n + 1)
    OBVIOUS
  <2>1. n + 1 \in 1 .. MaxDepth /\ (n + 1) - 1 = n /\ n \in 0 .. MaxDepth - 1 /\ n <= MaxDepth
    BY DepthIsNatural
  <2>2. PICK f : Defines(f, n)
    BY <1>2, <2>1
  <2> DEFINE g == [p \in PhrasesTo[n + 1] |-> Reduced(p, [i \in DOMAIN p.kids |-> f[p.kids[i]]], ret)]
  <2>3. ASSUME NEW p \in PhrasesTo[n] PROVE g[p] = f[p]
    <3>1. p \in PhrasesTo[n + 1]
      BY <2>1, PhraseLevelsGrow
    <3>2. f[p] = Reduced(p, [i \in DOMAIN p.kids |-> f[p.kids[i]]], ret)
      BY <2>2
    <3> QED BY <3>1, <3>2
  <2>4. ASSUME NEW p \in PhrasesTo[n + 1]
        PROVE  Reduced(p, [i \in DOMAIN p.kids |-> f[p.kids[i]]], ret) = Reduced(p, [i \in DOMAIN p.kids |-> g[p.kids[i]]], ret)
    <3>1. p.kids \in Seq(PhrasesTo[n])
      BY <2>1, PhraseOfLevel
    <3>2. \A i \in DOMAIN p.kids : f[p.kids[i]] = g[p.kids[i]]
      <4> HIDE DEF g
      <4> QED BY <2>3, <3>1
    <3> HIDE DEF g
    <3>3. [i \in DOMAIN p.kids |-> f[p.kids[i]]] = [i \in DOMAIN p.kids |-> g[p.kids[i]]]
      BY <3>2
    <3> QED BY <3>2, <3>3
  <2>5. g = [p \in PhrasesTo[n + 1] |-> Reduced(p, [i \in DOMAIN p.kids |-> g[p.kids[i]]], ret)]
    <3> DEFINE h == [p \in PhrasesTo[n + 1] |-> Reduced(p, [i \in DOMAIN p.kids |-> g[p.kids[i]]], ret)]
    <3>1. \A p \in PhrasesTo[n + 1] : g[p] = h[p]
      BY <2>4
    <3> QED BY <3>1
  <2> HIDE DEF g
  <2> QED BY <2>5
<1>3. \A n \in Nat : n \in T
  <2> HIDE DEF T
  <2> QED BY <1>1, <1>2, SetInduction
<1>4. \E f : Defines(f, MaxDepth)
  BY <1>3, DepthIsNatural
<1> QED BY <1>4 DEF Trees, Grammar

LEMMA MeaningsDefined ==
  ASSUME NEW ret PROVE Meanings(ret) = [p \in Grammar |-> Denoted(p, [i \in DOMAIN p.kids |-> Meanings(ret)[p.kids[i]]], ret)]
<1> DEFINE Defines(f, n) == f = [p \in PhrasesTo[n] |-> Denoted(p, [i \in DOMAIN p.kids |-> f[p.kids[i]]], ret)]
           T == {n \in Nat : n <= MaxDepth => \E f : Defines(f, n)}
<1>1. 0 \in T
  <2> DEFINE f == [p \in PhrasesTo[0] |-> {}]
  <2>1. Defines(f, 0)
    BY LevelZero
  <2> HIDE DEF f
  <2> QED BY <2>1
<1>2. ASSUME NEW n \in Nat, n \in T PROVE n + 1 \in T
  <2> SUFFICES ASSUME n + 1 <= MaxDepth PROVE \E f : Defines(f, n + 1)
    OBVIOUS
  <2>1. n + 1 \in 1 .. MaxDepth /\ (n + 1) - 1 = n /\ n \in 0 .. MaxDepth - 1 /\ n <= MaxDepth
    BY DepthIsNatural
  <2>2. PICK f : Defines(f, n)
    BY <1>2, <2>1
  <2> DEFINE g == [p \in PhrasesTo[n + 1] |-> Denoted(p, [i \in DOMAIN p.kids |-> f[p.kids[i]]], ret)]
  <2>3. ASSUME NEW p \in PhrasesTo[n] PROVE g[p] = f[p]
    <3>1. p \in PhrasesTo[n + 1]
      BY <2>1, PhraseLevelsGrow
    <3>2. f[p] = Denoted(p, [i \in DOMAIN p.kids |-> f[p.kids[i]]], ret)
      BY <2>2
    <3> QED BY <3>1, <3>2
  <2>4. ASSUME NEW p \in PhrasesTo[n + 1]
        PROVE  Denoted(p, [i \in DOMAIN p.kids |-> f[p.kids[i]]], ret) = Denoted(p, [i \in DOMAIN p.kids |-> g[p.kids[i]]], ret)
    <3>1. p.kids \in Seq(PhrasesTo[n])
      BY <2>1, PhraseOfLevel
    <3>2. \A i \in DOMAIN p.kids : f[p.kids[i]] = g[p.kids[i]]
      <4> HIDE DEF g
      <4> QED BY <2>3, <3>1
    <3> HIDE DEF g
    <3>3. [i \in DOMAIN p.kids |-> f[p.kids[i]]] = [i \in DOMAIN p.kids |-> g[p.kids[i]]]
      BY <3>2
    <3> QED BY <3>2, <3>3
  <2>5. g = [p \in PhrasesTo[n + 1] |-> Denoted(p, [i \in DOMAIN p.kids |-> g[p.kids[i]]], ret)]
    <3> DEFINE h == [p \in PhrasesTo[n + 1] |-> Denoted(p, [i \in DOMAIN p.kids |-> g[p.kids[i]]], ret)]
    <3>1. \A p \in PhrasesTo[n + 1] : g[p] = h[p]
      BY <2>4
    <3> QED BY <3>1
  <2> HIDE DEF g
  <2> QED BY <2>5
<1>3. \A n \in Nat : n \in T
  <2> HIDE DEF T
  <2> QED BY <1>1, <1>2, SetInduction
<1>4. \E f : Defines(f, MaxDepth)
  BY <1>3, DepthIsNatural
<1> QED BY <1>4 DEF Meanings, Grammar

LEMMA LaxCallsDefined ==
   LaxCalls = [p \in Grammar |-> (LaxlyPassed(p) \/ \E i \in DOMAIN p.kids : LaxCalls[p.kids[i]])]
<1> DEFINE Defines(f, n) == f = [p \in PhrasesTo[n] |-> (LaxlyPassed(p) \/ \E i \in DOMAIN p.kids : f[p.kids[i]])]
           T == {n \in Nat : n <= MaxDepth => \E f : Defines(f, n)}
<1>1. 0 \in T
  <2> DEFINE f == [p \in PhrasesTo[0] |-> {}]
  <2>1. Defines(f, 0)
    BY LevelZero
  <2> HIDE DEF f
  <2> QED BY <2>1
<1>2. ASSUME NEW n \in Nat, n \in T PROVE n + 1 \in T
  <2> SUFFICES ASSUME n + 1 <= MaxDepth PROVE \E f : Defines(f, n + 1)
    OBVIOUS
  <2>1. n + 1 \in 1 .. MaxDepth /\ (n + 1) - 1 = n /\ n \in 0 .. MaxDepth - 1 /\ n <= MaxDepth
    BY DepthIsNatural
  <2>2. PICK f : Defines(f, n)
    BY <1>2, <2>1
  <2> DEFINE g == [p \in PhrasesTo[n + 1] |-> (LaxlyPassed(p) \/ \E i \in DOMAIN p.kids : f[p.kids[i]])]
  <2>3. ASSUME NEW p \in PhrasesTo[n] PROVE g[p] = f[p]
    <3>1. p \in PhrasesTo[n + 1]
      BY <2>1, PhraseLevelsGrow
    <3>2. f[p] = (LaxlyPassed(p) \/ \E i \in DOMAIN p.kids : f[p.kids[i]])
      BY <2>2
    <3> QED BY <3>1, <3>2
  <2>4. ASSUME NEW p \in PhrasesTo[n + 1]
        PROVE  (LaxlyPassed(p) \/ \E i \in DOMAIN p.kids : f[p.kids[i]]) = (LaxlyPassed(p) \/ \E i \in DOMAIN p.kids : g[p.kids[i]])
    <3>1. p.kids \in Seq(PhrasesTo[n])
      BY <2>1, PhraseOfLevel
    <3>2. \A i \in DOMAIN p.kids : f[p.kids[i]] = g[p.kids[i]]
      <4> HIDE DEF g
      <4> QED BY <2>3, <3>1
    <3> HIDE DEF g
    <3>3. [i \in DOMAIN p.kids |-> f[p.kids[i]]] = [i \in DOMAIN p.kids |-> g[p.kids[i]]]
      BY <3>2
    <3> QED BY <3>2, <3>3
  <2>5. g = [p \in PhrasesTo[n + 1] |-> (LaxlyPassed(p) \/ \E i \in DOMAIN p.kids : g[p.kids[i]])]
    <3> DEFINE h == [p \in PhrasesTo[n + 1] |-> (LaxlyPassed(p) \/ \E i \in DOMAIN p.kids : g[p.kids[i]])]
    <3>1. \A p \in PhrasesTo[n + 1] : g[p] = h[p]
      BY <2>4
    <3> QED BY <3>1
  <2> HIDE DEF g
  <2> QED BY <2>5
<1>3. \A n \in Nat : n \in T
  <2> HIDE DEF T
  <2> QED BY <1>1, <1>2, SetInduction
<1>4. \E f : Defines(f, MaxDepth)
  BY <1>3, DepthIsNatural
<1> QED BY <1>4 DEF LaxCalls, Grammar

-----------------------------------------------------------------------------
\* The recursive functions, one step at a time.
LEMMA PhraseShape ==
  ASSUME NEW p \in Grammar
  PROVE  /\ p.ntype \in Expressions \cup Tests \cup Statements
         /\ p.sym \in Names \cup {""} /\ p.val \in Int /\ p.kids \in Seq(Grammar)
         /\ WellFormed(p) /\ NamesKnown(p)
<1>1. MaxDepth # 0
  BY LevelZero DEF Grammar
<1>2. MaxDepth \in 1 .. MaxDepth
  BY <1>1, DepthIsNatural
<1>3. p \in PhrasesOver(PhrasesTo[MaxDepth - 1])
  BY <1>2, PhraseOfLevel DEF Grammar
<1>4. p.kids \in Seq(PhrasesTo[MaxDepth - 1])
  BY <1>2, PhraseOfLevel DEF Grammar
<1>5. p.kids \in Seq(Grammar)
  <2>1. Len(p.kids) \in Nat /\ DOMAIN p.kids = 1 .. Len(p.kids)
        /\ p.kids = [i \in 1 .. Len(p.kids) |-> p.kids[i]]
    BY <1>4
  <2>2. p.kids = [i \in 1 .. Len(p.kids) |-> p.kids[i]]
        /\ \A i \in 1 .. Len(p.kids) : p.kids[i] \in Grammar
    BY <2>1, PartsInGrammar
  <2>3. p.kids \in [1 .. Len(p.kids) -> Grammar]
    BY <2>2
  <2> QED BY <2>1, <2>3
<1> QED BY <1>3, <1>5 DEF PhrasesOver

LEMMA TreeStep ==
  ASSUME NEW ret, NEW p \in Grammar
  PROVE  Tree(p, ret) = Reduced(p, [i \in DOMAIN p.kids |-> Tree(p.kids[i], ret)], ret)
BY TreesDefined DEF Tree

LEMMA MeaningStep ==
  ASSUME NEW ret, NEW p \in Grammar
  PROVE  Meaning(p, ret) = Denoted(p, [i \in DOMAIN p.kids |-> Meaning(p.kids[i], ret)], ret)
BY MeaningsDefined DEF Meaning

LEMMA LaxCallStep ==
  ASSUME NEW p \in Grammar
  PROVE  LaxCall(p) <=> LaxlyPassed(p) \/ \E i \in DOMAIN p.kids : LaxCall(p.kids[i])
BY LaxCallsDefined DEF LaxCall

\* The parts of a phrase, by the kind of phrase.
LEMMA PartsOfPhrase ==
  ASSUME NEW p \in Grammar
  PROVE  /\ p.ntype \in Literals \cup {"NULL", "Var"} => p.kids = <<>>
         /\ p.ntype \in {"ArraySubscript", "UnaryMinus"} =>
              Len(p.kids) = 1 /\ p.kids[1].ntype \in Expressions
         /\ p.ntype \in Arithmetic \cup Comparisons =>
              Len(p.kids) = 2 /\ p.kids[1].ntype \in Expressions /\ p.kids[2].ntype \in Expressions
         /\ p.ntype \in Connectives =>
              Len(p.kids) = 2 /\ p.kids[1].ntype \in Tests /\ p.kids[2].ntype \in Tests
         /\ p.ntype = "LogicalNot" => Len(p.kids) = 1 /\ p.kids[1].ntype \in Tests
         /\ p.ntype = "Assg" =>
              Len(p.kids) = 2 /\ p.kids[1].ntype \in Variables /\ p.kids[2].ntype \in Expressions
         /\ p.ntype = "Return" => Len(p.kids) = 1 /\ p.kids[1].ntype \in Expressions \cup {"NULL"}
         /\ p.ntype = "If" =>
              /\ Len(p.kids) = 3 /\ p.kids[1].ntype \in Tests
              /\ p.kids[2].ntype \in Statements /\ p.kids[3].ntype \in Statements
         /\ p.ntype = "While" =>
              Len(p.kids) = 2 /\ p.kids[1].ntype \in Tests /\ p.kids[2].ntype \in Statements
         /\ p.ntype = "For" =>
              /\ Len(p.kids) = 4 /\ p.kids[1].ntype \in {"Assg", "NULL"}
              /\ p.kids[2].ntype \in Tests \cup {"NULL"} /\ p.kids[3].ntype \in {"Assg", "NULL"}
              /\ p.kids[4].ntype \in Statements
         /\ p.ntype \in Calls => \A i \in DOMAIN p.kids : p.kids[i].ntype \in Expressions
         /\ p.ntype = "STnodeList" => \A i \in DOMAIN p.kids : p.kids[i].ntype \in Statements
<1> DEFINE n == Len(p.kids)
           parts == Parts(p.ntype, n)
<1>0. p.kids \in Seq(Grammar)
  BY PhraseShape
<1>1. n \in Nat /\ DOMAIN p.kids = 1 .. n
  BY <1>0
<1>2. n = Len(parts) /\ \A i \in DOMAIN parts : p.kids[i].ntype \in parts[i]
  BY PhraseShape DEF WellFormed
<1>3. ASSUME p.ntype \in Literals \cup {"NULL", "Var"} PROVE p.kids = <<>>
  <2>1. parts = <<>>
    BY <1>3 DEF Parts, Literals, Arithmetic, Comparisons, Connectives, Calls
  <2> QED BY <2>1, <1>0, <1>2
<1>4. ASSUME p.ntype \in {"ArraySubscript", "UnaryMinus"}
      PROVE  Len(p.kids) = 1 /\ p.kids[1].ntype \in Expressions
  <2>1. parts = <<Expressions>>
    BY <1>4 DEF Parts, Literals, Arithmetic, Comparisons, Connectives, Calls
  <2> QED BY <2>1, <1>2
<1>5. ASSUME p.ntype \in Arithmetic \cup Comparisons
      PROVE Len(p.kids) = 2 /\ p.kids[1].ntype \in Expressions /\ p.kids[2].ntype \in Expressions
  <2>1. parts = <<Expressions, Expressions>>
    BY <1>5 DEF Parts, Literals, Arithmetic, Comparisons, Connectives, Calls
  <2> QED BY <2>1, <1>2
<1>6. ASSUME p.ntype \in Connectives
      PROVE  Len(p.kids) = 2 /\ p.kids[1].ntype \in Tests /\ p.kids[2].ntype \in Tests
  <2>1. parts = <<Tests, Tests>>
    BY <1>6 DEF Parts, Literals, Arithmetic, Comparisons, Connectives, Calls
  <2> QED BY <2>1, <1>2
<1>7. ASSUME p.ntype = "LogicalNot" PROVE Len(p.kids) = 1 /\ p.kids[1].ntype \in Tests
  <2>1. parts = <<Tests>>
    BY <1>7 DEF Parts, Literals, Arithmetic, Comparisons, Connectives, Calls
  <2> QED BY <2>1, <1>2
<1>8. ASSUME p.ntype = "Assg"
      PROVE Len(p.kids) = 2 /\ p.kids[1].ntype \in Variables /\ p.kids[2].ntype \in Expressions
  <2>1. parts = <<Variables, Expressions>>
    BY <1>8 DEF Parts, Literals, Arithmetic, Comparisons, Connectives, Calls
  <2> QED BY <2>1, <1>2
<1>9. ASSUME p.ntype = "Return"
      PROVE  Len(p.kids) = 1 /\ p.kids[1].ntype \in Expressions \cup {"NULL"}
  <2>1. parts = <<Expressions \cup {"NULL"}>>
    BY <1>9 DEF Parts, Literals, Arithmetic, Comparisons, Connectives, Calls
  <2> QED BY <2>1, <1>2
<1>10. ASSUME p.ntype = "If"
       PROVE  /\ Len(p.kids) = 3 /\ p.kids[1].ntype \in Tests
              /\ p.kids[2].ntype \in Statements /\ p.kids[3].ntype \in Statements
  <2>1. parts = <<Tests, Statements, Statements>>
    BY <1>10 DEF Parts, Literals, Arithmetic, Comparisons, Connectives, Calls
  <2> QED BY <2>1, <1>2
<1>11. ASSUME p.ntype = "While"
       PROVE  Len(p.kids) = 2 /\ p.kids[1].ntype \in Tests /\ p.kids[2].ntype \in Statements
  <2>1. parts = <<Tests, Statements>>
    BY <1>11 DEF Parts, Literals, Arithmetic, Comparisons, Connectives, Calls
  <2> QED BY <2>1, <1>2
<1>12. ASSUME p.ntype = "For"
       PROVE  /\ Len(p.kids) = 4 /\ p.kids[1].ntype \in {"Assg", "NULL"}
              /\ p.kids[2].ntype \in Tests \cup {"NULL"} /\ p.kids[3].ntype \in {"Assg", "NULL"}
              /\ p.kids[4].ntype \in Statements
  <2>1. parts = <<{"Assg", "NULL"}, Tests \cup {"NULL"}, {"Assg", "NULL"}, Statements>>
    BY <1>12 DEF Parts, Literals, Arithmetic, Comparisons, Connectives, Calls
  <2> QED BY <2>1, <1>2
<1>13. ASSUME p.ntype \in Calls PROVE \A i \in DOMAIN p.kids : p.kids[i].ntype \in Expressions
  <2>1. parts = [i \in 1 .. n |-> Expressions]
    BY <1>13 DEF Parts, Literals, Arithmetic, Comparisons, Connectives, Calls
  <2> QED BY <2>1, <1>1, <1>2
<1>14. ASSUME p.ntype = "STnodeList" PROVE \A i \in DOMAIN p.kids : p.kids[i].ntype \in Statements
  <2>1. parts = [i \in 1 .. n |-> Statements]
    BY <1>14 DEF Parts, Literals, Arithmetic, Comparisons, Connectives, Calls
  <2> QED BY <2>1, <1>1, <1>2
<1> HIDE DEF n, parts
<1> QED BY <1>3, <1>4, <1>5, <1>6, <1>7, <1>8, <1>9, <1>10, <1>11, <1>12, <1>13, <1>14

\* Every phrase has the parts of its kind: a call's are its actuals.
LEMMA KidsOfPhrase ==
  ASSUME NEW p \in Grammar
  PROVE  /\ DOMAIN p.kids = 1 .. Len(p.kids) /\ Len(p.kids) \in Nat
         /\ \A i \in DOMAIN p.kids : p.kids[i] \in Grammar
<1>1. p.kids \in Seq(Grammar)
  BY PhraseShape
<1> QED BY <1>1

-----------------------------------------------------------------------------
\* The rule of each kind of phrase.
LEMMA ReducedCases ==
  ASSUME NEW p, NEW k, NEW ret
  PROVE  /\ p.ntype = "NULL" => Reduced(p, k, ret) = NULL
         /\ p.ntype = "Intcon" => Reduced(p, k, ret) = Node("Intcon", "Int", "", p.val, <<>>, FALSE)
         /\ p.ntype = "Charcon" => Reduced(p, k, ret) = Node("Charcon", "Char", "", p.val, <<>>, FALSE)
         /\ p.ntype = "Stringcon" => Reduced(p, k, ret) = Node("Stringcon", "Array", "", p.val, <<>>, FALSE)
         /\ p.ntype = "Var" => Reduced(p, k, ret) = variable(p.sym)
         /\ p.ntype = "ArraySubscript" => Reduced(p, k, ret) = subscripted(p.sym, k[1])
         /\ p.ntype \in {"UnaryMinus", "LogicalNot"} => Reduced(p, k, ret) = SynTreeUnExp(p.ntype, k[1])
         /\ p.ntype \in Arithmetic \cup Comparisons \cup Connectives => Reduced(p, k, ret) = SynTreeBinExp(p.ntype, k[1], k[2])
         /\ p.ntype = "FunCall" => Reduced(p, k, ret) = fun_call(p.sym, k)
         /\ p.ntype = "ProcCall" => Reduced(p, k, ret) = proc_call(p.sym, k)
         /\ p.ntype = "Assg" => Reduced(p, k, ret) = assignment(k[1], k[2])
         /\ p.ntype = "Return" => Reduced(p, k, ret) = return(ret, k[1])
         /\ p.ntype \in {"If", "While"} => Reduced(p, k, ret) = tested(p.ntype, k[1], k)
         /\ p.ntype = "For" => Reduced(p, k, ret) = tested("For", k[2], k)
         /\ p.ntype = "STnodeList" => Reduced(p, k, ret) = IF k = <<>> THEN NULL ELSE Node("STnodeList", "None", "", 0, k, FALSE)
<1>1. p.ntype = "NULL" => Reduced(p, k, ret) = NULL
  BY DEF Reduced, Literals, Arithmetic, Comparisons, Connectives, Calls, Tests, Statements, Variables
<1>2. p.ntype = "Intcon" => Reduced(p, k, ret) = Node("Intcon", "Int", "", p.val, <<>>, FALSE)
  BY DEF Reduced, Literals, Arithmetic, Comparisons, Connectives, Calls, Tests, Statements, Variables
<1>3. p.ntype = "Charcon" => Reduced(p, k, ret) = Node("Charcon", "Char", "", p.val, <<>>, FALSE)
  BY DEF Reduced, Literals, Arithmetic, Comparisons, Connectives, Calls, Tests, Statements, Variables
<1>4. p.ntype = "Stringcon" => Reduced(p, k, ret) = Node("Stringcon", "Array", "", p.val, <<>>, FALSE)
  BY DEF Reduced, Literals, Arithmetic, Comparisons, Connectives, Calls, Tests, Statements, Variables
<1>5. p.ntype = "Var" => Reduced(p, k, ret) = variable(p.sym)
  BY DEF Reduced, Literals, Arithmetic, Comparisons, Connectives, Calls, Tests, Statements, Variables
<1>6. p.ntype = "ArraySubscript" => Reduced(p, k, ret) = subscripted(p.sym, k[1])
  BY DEF Reduced, Literals, Arithmetic, Comparisons, Connectives, Calls, Tests, Statements, Variables
<1>7. p.ntype \in {"UnaryMinus", "LogicalNot"} => Reduced(p, k, ret) = SynTreeUnExp(p.ntype, k[1])
  BY DEF Reduced, Literals, Arithmetic, Comparisons, Connectives, Calls, Tests, Statements, Variables
<1>8. p.ntype \in Arithmetic \cup Comparisons \cup Connectives => Reduced(p, k, ret) = SynTreeBinExp(p.ntype, k[1], k[2])
  BY DEF Reduced, Literals, Arithmetic, Comparisons, Connectives, Calls, Tests, Statements, Variables
<1>9. p.ntype = "FunCall" => Reduced(p, k, ret) = fun_call(p.sym, k)
  BY DEF Reduced, Literals, Arithmetic, Comparisons, Connectives, Calls, Tests, Statements, Variables
<1>10. p.ntype = "ProcCall" => Reduced(p, k, ret) = proc_call(p.sym, k)
  BY DEF Reduced, Literals, Arithmetic, Comparisons, Connectives, Calls, Tests, Statements, Variables
<1>11. p.ntype = "Assg" => Reduced(p, k, ret) = assignment(k[1], k[2])
  BY DEF Reduced, Literals, Arithmetic, Comparisons, Connectives, Calls, Tests, Statements, Variables
<1>12. p.ntype = "Return" => Reduced(p, k, ret) = return(ret, k[1])
  BY DEF Reduced, Literals, Arithmetic, Comparisons, Connectives, Calls, Tests, Statements, Variables
<1>13. p.ntype \in {"If", "While"} => Reduced(p, k, ret) = tested(p.ntype, k[1], k)
  BY DEF Reduced, Literals, Arithmetic, Comparisons, Connectives, Calls, Tests, Statements, Variables
<1>14. p.ntype = "For" => Reduced(p, k, ret) = tested("For", k[2], k)
  BY DEF Reduced, Literals, Arithmetic, Comparisons, Connectives, Calls, Tests, Statements, Variables
<1>15. p.ntype = "STnodeList" => Reduced(p, k, ret) = IF k = <<>> THEN NULL ELSE Node("STnodeList", "None", "", 0, k, FALSE)
  BY DEF Reduced, Literals, Arithmetic, Comparisons, Connectives, Calls, Tests, Statements, Variables
<1> QED BY <1>1, <1>2, <1>3, <1>4, <1>5, <1>6, <1>7, <1>8, <1>9, <1>10, <1>11, <1>12, <1>13, <1>14, <1>15

LEMMA DenotesCases ==
  ASSUME NEW p
  PROVE  /\ p.ntype \in {"Intcon", "UnaryMinus"} \cup Arithmetic => Denotes(p) = "Int"
         /\ p.ntype = "Charcon" => Denotes(p) = "Char"
         /\ p.ntype = "Stringcon" => Denotes(p) = "Array"
         /\ p.ntype = "Var" => Denotes(p) = type[p.sym]
         /\ p.ntype = "ArraySubscript" => Denotes(p) = elt_type[p.sym]
         /\ p.ntype = "FunCall" => Denotes(p) = ret_type[p.sym]
         /\ p.ntype \in Tests => Denotes(p) = "Bool"
         /\ p.ntype \in Statements => Denotes(p) = "None"
<1>1. p.ntype \in {"Intcon", "UnaryMinus"} \cup Arithmetic => Denotes(p) = "Int"
  BY DEF Denotes, Literals, Arithmetic, Comparisons, Connectives, Calls, Tests, Statements, Variables
<1>2. p.ntype = "Charcon" => Denotes(p) = "Char"
  BY DEF Denotes, Literals, Arithmetic, Comparisons, Connectives, Calls, Tests, Statements, Variables
<1>3. p.ntype = "Stringcon" => Denotes(p) = "Array"
  BY DEF Denotes, Literals, Arithmetic, Comparisons, Connectives, Calls, Tests, Statements, Variables
<1>4. p.ntype = "Var" => Denotes(p) = type[p.sym]
  BY DEF Denotes, Literals, Arithmetic, Comparisons, Connectives, Calls, Tests, Statements, Variables
<1>5. p.ntype = "ArraySubscript" => Denotes(p) = elt_type[p.sym]
  BY DEF Denotes, Literals, Arithmetic, Comparisons, Connectives, Calls, Tests, Statements, Variables
<1>6. p.ntype = "FunCall" => Denotes(p) = ret_type[p.sym]
  BY DEF Denotes, Literals, Arithmetic, Comparisons, Connectives, Calls, Tests, Statements, Variables
<1>7. p.ntype \in Tests => Denotes(p) = "Bool"
  BY DEF Denotes, Literals, Arithmetic, Comparisons, Connectives, Calls, Tests, Statements, Variables
<1>8. p.ntype \in Statements => Denotes(p) = "None"
  BY DEF Denotes, Literals, Arithmetic, Comparisons, Connectives, Calls, Tests, Statements, Variables
<1> QED BY <1>1, <1>2, <1>3, <1>4, <1>5, <1>6, <1>7, <1>8

LEMMA AllowedCases ==
  ASSUME NEW p, NEW k, NEW ret
  PROVE  /\ p.ntype \in Literals \cup {"NULL", "STnodeList"} => (Allowed(p, k, ret) <=> TRUE)
         /\ p.ntype = "Var" => (Allowed(p, k, ret) <=> (type[p.sym] # "None"))
         /\ p.ntype = "ArraySubscript" => (Allowed(p, k, ret) <=> (type[p.sym] = "Array" /\ k[1] \in Numeric))
         /\ p.ntype = "FunCall" => (Allowed(p, k, ret) <=> FitsAll(p, k, Results))
         /\ p.ntype = "ProcCall" => (Allowed(p, k, ret) <=> FitsAll(p, k, {"None"}))
         /\ p.ntype \in Arithmetic \cup Comparisons \cup {"UnaryMinus", "Assg"} => (Allowed(p, k, ret) <=> (\A i \in DOMAIN k : k[i] \in Numeric))
         /\ p.ntype \in Connectives \cup {"LogicalNot"} => (Allowed(p, k, ret) <=> (\A i \in DOMAIN k : k[i] = "Bool"))
         /\ p.ntype = "Return" => (Allowed(p, k, ret) <=> (IF ret = "None" THEN p.kids[1].ntype = "NULL" ELSE k[1] \in Numeric))
         /\ p.ntype \in {"If", "While"} => (Allowed(p, k, ret) <=> (k[1] = "Bool"))
         /\ p.ntype = "For" => (Allowed(p, k, ret) <=> (k[2] \in {"Bool", "None"}))
<1>1. p.ntype \in Literals \cup {"NULL", "STnodeList"} => (Allowed(p, k, ret) <=> TRUE)
  BY DEF Allowed, Literals, Arithmetic, Comparisons, Connectives, Calls, Tests, Statements, Variables
<1>2. p.ntype = "Var" => (Allowed(p, k, ret) <=> (type[p.sym] # "None"))
  BY DEF Allowed, Literals, Arithmetic, Comparisons, Connectives, Calls, Tests, Statements, Variables
<1>3. p.ntype = "ArraySubscript" => (Allowed(p, k, ret) <=> (type[p.sym] = "Array" /\ k[1] \in Numeric))
  BY DEF Allowed, Literals, Arithmetic, Comparisons, Connectives, Calls, Tests, Statements, Variables
<1>4. p.ntype = "FunCall" => (Allowed(p, k, ret) <=> FitsAll(p, k, Results))
  BY DEF Allowed, Literals, Arithmetic, Comparisons, Connectives, Calls, Tests, Statements, Variables
<1>5. p.ntype = "ProcCall" => (Allowed(p, k, ret) <=> FitsAll(p, k, {"None"}))
  BY DEF Allowed, Literals, Arithmetic, Comparisons, Connectives, Calls, Tests, Statements, Variables
<1>6. p.ntype \in Arithmetic \cup Comparisons \cup {"UnaryMinus", "Assg"} => (Allowed(p, k, ret) <=> (\A i \in DOMAIN k : k[i] \in Numeric))
  BY DEF Allowed, Literals, Arithmetic, Comparisons, Connectives, Calls, Tests, Statements, Variables
<1>7. p.ntype \in Connectives \cup {"LogicalNot"} => (Allowed(p, k, ret) <=> (\A i \in DOMAIN k : k[i] = "Bool"))
  BY DEF Allowed, Literals, Arithmetic, Comparisons, Connectives, Calls, Tests, Statements, Variables
<1>8. p.ntype = "Return" => (Allowed(p, k, ret) <=> (IF ret = "None" THEN p.kids[1].ntype = "NULL" ELSE k[1] \in Numeric))
  BY DEF Allowed, Literals, Arithmetic, Comparisons, Connectives, Calls, Tests, Statements, Variables
<1>9. p.ntype \in {"If", "While"} => (Allowed(p, k, ret) <=> (k[1] = "Bool"))
  BY DEF Allowed, Literals, Arithmetic, Comparisons, Connectives, Calls, Tests, Statements, Variables
<1>10. p.ntype = "For" => (Allowed(p, k, ret) <=> (k[2] \in {"Bool", "None"}))
  BY DEF Allowed, Literals, Arithmetic, Comparisons, Connectives, Calls, Tests, Statements, Variables
<1> QED BY <1>1, <1>2, <1>3, <1>4, <1>5, <1>6, <1>7, <1>8, <1>9, <1>10

-----------------------------------------------------------------------------
\* The trees of expressions and tests.
LEMMA NodeFields ==
  ASSUME NEW ntype, NEW etype, NEW sym, NEW v, NEW kids, NEW failed \in BOOLEAN
  PROVE  LET t == Node(ntype, etype, sym, v, kids, failed)
         IN  /\ t.ntype = ntype /\ t.etype = etype /\ t.sym = sym /\ t.val = v /\ t.kids = kids
             /\ t.reported \in BOOLEAN
             /\ t.reported <=> failed \/ \E i \in DOMAIN kids : kids[i].reported
BY DEF Node

LEMMA ErrorNode ==
  /\ mkErrorNode.ntype = "Error" /\ mkErrorNode.etype = "Error" /\ mkErrorNode.reported
  /\ FollowsNULL.ntype = "Crash" /\ FollowsNULL.reported
  /\ NULL.ntype = "NULL" /\ NULL.etype = "None" /\ NULL.kids = <<>> /\ ~NULL.reported
<1>2. mkErrorNode.ntype = "Error" /\ mkErrorNode.etype = "Error" /\ mkErrorNode.reported
  <2>1. mkErrorNode.ntype = "Error" /\ mkErrorNode.etype = "Error"
    BY DEF Node, mkErrorNode
  <2>2. mkErrorNode.reported
    BY DEF Node, mkErrorNode
  <2> QED BY <2>1, <2>2
<1>3. FollowsNULL.ntype = "Crash" /\ FollowsNULL.reported
  <2>1. FollowsNULL.ntype = "Crash"
    BY DEF Node, FollowsNULL
  <2>2. FollowsNULL.reported
    BY DEF Node, FollowsNULL
  <2> QED BY <2>1, <2>2
<1>4. NULL.ntype = "NULL" /\ NULL.etype = "None" /\ NULL.kids = <<>> /\ ~NULL.reported
  <2>1. NULL.ntype = "NULL" /\ NULL.etype = "None" /\ NULL.kids = <<>>
    BY DEF Node, NULL
  <2>2. NULL.reported = (FALSE \/ \E i \in DOMAIN <<>> : <<>>[i].reported)
    BY DEF Node, NULL
  <2>3. DOMAIN <<>> = {}
    OBVIOUS
  <2>4. ~NULL.reported
    BY <2>2, <2>3
  <2> QED BY <2>1, <2>4
<1> QED BY <1>2, <1>3, <1>4

\* What the symbol table holds for a name.
LEMMA TableEntry ==
  ASSUME NEW id \in Names
  PROVE  /\ type[id] \in {"Int", "Char", "None", "Array", "Func"}
         /\ type[id] = "Array" => elt_type[id] \in {"Int", "Char"}
         /\ type[id] = "Func" => ret_type[id] \in {"Int", "Char", "None"}
         /\ type[id] = "Func" =>
              formals[id] \in Seq({f \in Names : type[f] \in {"Int", "Char", "Array"}})
<1>1. Numeric \cup {"Array"} = {"Int", "Char", "Array"}
  BY DEF Numeric
<1> QED BY TableAssumption, <1>1, Zenon DEF Results, Numeric

PartTrees(p, ret) == [i \in DOMAIN p.kids |-> Tree(p.kids[i], ret)]

ExpressionTree(p, ret) ==
  LET t == Tree(p, ret)
  IN  /\ t = Tree(p, "None")
      /\ t.ntype # "NULL"
      /\ t.etype = "Error" \/ t.ntype = "Error" => t = mkErrorNode
      /\ ~t.reported => t.etype = Denotes(p) /\ t.ntype = p.ntype

LEMMA ErrorTree ==
  ASSUME NEW ret, NEW p, Tree(p, ret) = mkErrorNode, Tree(p, "None") = mkErrorNode
  PROVE  ExpressionTree(p, ret)
BY ErrorNode DEF ExpressionTree

LEMMA NodeTree ==
  ASSUME NEW ret, NEW p, NEW etype, NEW sym, NEW v, NEW kids, NEW own \in BOOLEAN,
         Tree(p, ret) = Node(p.ntype, etype, sym, v, kids, own), Tree(p, "None") = Tree(p, ret),
         p.ntype \notin {"NULL", "Error"}, etype # "Error", etype = Denotes(p)
  PROVE  ExpressionTree(p, ret)
BY NodeFields DEF ExpressionTree

LEMMA UnaryTree ==
  ASSUME NEW ntype \in {"UnaryMinus", "LogicalNot"}, NEW e,
         e.etype = "Error" \/ e.ntype = "Error" => e = mkErrorNode
  PROVE  SynTreeUnExp(ntype, e) =
           IF e.etype \in (IF ntype = "UnaryMinus" THEN Numeric ELSE {"Bool"})
           THEN mkExprNode(ntype, IF ntype = "UnaryMinus" THEN "Int" ELSE "Bool", <<e>>)
           ELSE mkErrorNode
BY ErrorNode DEF SynTreeUnExp, Numeric

LEMMA BinaryTree ==
  ASSUME NEW ntype \in Arithmetic \cup Comparisons \cup Connectives, NEW e1, NEW e2,
         e1.etype = "Error" \/ e1.ntype = "Error" => e1 = mkErrorNode,
         e2.etype = "Error" \/ e2.ntype = "Error" => e2 = mkErrorNode
  PROVE  SynTreeBinExp(ntype, e1, e2) =
           IF /\ e1.etype \in (IF ntype \in Connectives THEN {"Bool"} ELSE Numeric)
              /\ e2.etype \in (IF ntype \in Connectives THEN {"Bool"} ELSE Numeric)
           THEN mkExprNode(ntype, IF ntype \in Arithmetic THEN "Int" ELSE "Bool", <<e1, e2>>)
           ELSE mkErrorNode
BY ErrorNode DEF SynTreeBinExp, Numeric

LEMMA ExpressionKinds ==
  /\ Expressions \cup Tests
       = Literals \cup {"Var", "ArraySubscript", "FunCall", "UnaryMinus", "LogicalNot"}
           \cup (Arithmetic \cup Comparisons \cup Connectives)
  /\ "NULL" \notin Expressions \cup Tests /\ "Error" \notin Expressions \cup Tests
  /\ \A t \in Arithmetic : t \notin Connectives /\ t \notin Comparisons /\ t \notin Tests
  /\ \A t \in Comparisons \cup Connectives : t \notin Arithmetic /\ t \in Tests
  /\ (Expressions \cup Tests) \cap Statements = {}
BY DEF Expressions, Tests, Literals, Variables, Arithmetic, Comparisons, Connectives, Statements

LEMMA ExpressionTrees ==
  ASSUME NEW ret
  PROVE  \A p \in Grammar : p.ntype \in Expressions \cup Tests => ExpressionTree(p, ret)
<1> DEFINE H == {p \in Grammar : p.ntype \in Expressions \cup Tests => ExpressionTree(p, ret)}
<1> SUFFICES ASSUME NEW p \in Grammar, \A i \in DOMAIN p.kids : p.kids[i] \in H,
                    p.ntype \in Expressions \cup Tests
             PROVE  ExpressionTree(p, ret)
  <2>1. \A q \in Grammar : (\A i \in DOMAIN q.kids : q.kids[i] \in H) => q \in H
    OBVIOUS
  <2> HIDE DEF H
  <2>2. \A q \in Grammar : q \in H
    BY <2>1, GrammarInduction
  <2> QED BY <2>2 DEF H
<1> DEFINE k == PartTrees(p, ret)
           k0 == PartTrees(p, "None")
<1>1. Tree(p, ret) = Reduced(p, k, ret) /\ Tree(p, "None") = Reduced(p, k0, "None")
  BY TreeStep DEF PartTrees
<1>2. \A i \in DOMAIN p.kids : p.kids[i].ntype \in Expressions \cup Tests
  BY PartsOfPhrase, KidsOfPhrase, ExpressionKinds DEF Calls, Literals, Variables
<1>3. \A i \in DOMAIN p.kids : ExpressionTree(p.kids[i], ret)
  BY <1>2
<1>4. k0 = k
  BY <1>3 DEF PartTrees, ExpressionTree
<1>5. \A i \in DOMAIN p.kids :
         k[i].etype = "Error" \/ k[i].ntype = "Error" => k[i] = mkErrorNode
  BY <1>3 DEF PartTrees, ExpressionTree
<1> HIDE DEF k, k0, H
<1>6. CASE p.ntype \in Literals
  <2>1. p.ntype = "Intcon" \/ p.ntype = "Charcon" \/ p.ntype = "Stringcon"
    BY <1>6 DEF Literals
  <2>2. CASE p.ntype = "Intcon"
    <3>1. Reduced(p, k, ret) = Node("Intcon", "Int", "", p.val, <<>>, FALSE)
          /\ Reduced(p, k0, "None") = Node("Intcon", "Int", "", p.val, <<>>, FALSE)
      BY <2>2, ReducedCases, ZenonT(60)
    <3>2. Denotes(p) = "Int"
      BY <2>2, DenotesCases
    <3> QED BY <3>1, <3>2, <2>2, <1>1, NodeTree
  <2>3. CASE p.ntype = "Charcon"
    <3>1. Reduced(p, k, ret) = Node("Charcon", "Char", "", p.val, <<>>, FALSE)
          /\ Reduced(p, k0, "None") = Node("Charcon", "Char", "", p.val, <<>>, FALSE)
      BY <2>3, ReducedCases, ZenonT(60)
    <3>2. Denotes(p) = "Char"
      BY <2>3, DenotesCases
    <3> QED BY <3>1, <3>2, <2>3, <1>1, NodeTree
  <2>4. CASE p.ntype = "Stringcon"
    <3>1. Reduced(p, k, ret) = Node("Stringcon", "Array", "", p.val, <<>>, FALSE)
          /\ Reduced(p, k0, "None") = Node("Stringcon", "Array", "", p.val, <<>>, FALSE)
      BY <2>4, ReducedCases, ZenonT(60)
    <3>2. Denotes(p) = "Array"
      BY <2>4, DenotesCases
    <3> QED BY <3>1, <3>2, <2>4, <1>1, NodeTree
  <2> QED BY <2>1, <2>2, <2>3, <2>4
<1>7. CASE p.ntype = "Var"
  <2>1. p.sym \in Names
    BY <1>7, PhraseShape DEF NamesKnown, Variables
  <2>2. Tree(p, ret) = variable(p.sym) /\ Tree(p, "None") = variable(p.sym)
    <3>1. Reduced(p, k, ret) = variable(p.sym)
      BY <1>7, ReducedCases, ZenonT(60)
    <3>2. Reduced(p, k0, "None") = variable(p.sym)
      BY <1>7, ReducedCases, ZenonT(60)
    <3> QED BY <3>1, <3>2, <1>1
  <2>3. Denotes(p) = type[p.sym] /\ type[p.sym] # "Error"
    BY <1>7, <2>1, DenotesCases, TableEntry
  <2> QED BY <2>2, <2>3, <1>7, ErrorTree, NodeTree DEF variable, mkSymTabRefNode
<1>8. CASE p.ntype = "ArraySubscript"
  <2>1. p.sym \in Names
    BY <1>8, PhraseShape DEF NamesKnown, Variables
  <2>2. Tree(p, ret) = subscripted(p.sym, k[1]) /\ Tree(p, "None") = subscripted(p.sym, k[1])
    BY <1>1, <1>4, <1>8, ReducedCases
  <2>3. Denotes(p) = elt_type[p.sym] /\ (type[p.sym] = "Array" => elt_type[p.sym] # "Error")
    BY <1>8, <2>1, DenotesCases, TableEntry
  <2> QED BY <2>2, <2>3, <1>8, ErrorTree, NodeTree DEF subscripted, mkSymTabRefNode
<1>9. CASE p.ntype = "FunCall"
  <2>1. p.sym \in Names
    BY <1>9, PhraseShape DEF NamesKnown, Calls
  <2>2. Tree(p, ret) = fun_call(p.sym, k) /\ Tree(p, "None") = fun_call(p.sym, k)
    BY <1>1, <1>4, <1>9, ReducedCases
  <2>3. Denotes(p) = ret_type[p.sym] /\ (type[p.sym] = "Func" => ret_type[p.sym] # "Error")
    BY <1>9, <2>1, DenotesCases, TableEntry
  <2> QED BY <2>2, <2>3, <1>9, ErrorTree, NodeTree DEF fun_call, mkSymTabRefNode
<1>10. CASE p.ntype \in {"UnaryMinus", "LogicalNot"}
  <2>1. 1 \in DOMAIN p.kids
    BY <1>10, PartsOfPhrase, KidsOfPhrase
  <2>2. Tree(p, ret) = SynTreeUnExp(p.ntype, k[1]) /\ Tree(p, "None") = SynTreeUnExp(p.ntype, k[1])
    BY <1>1, <1>4, <1>10, ReducedCases
  <2>3. Denotes(p) = IF p.ntype = "UnaryMinus" THEN "Int" ELSE "Bool"
    BY <1>10, DenotesCases DEF Tests
  <2>4. \/ Tree(p, ret) = mkErrorNode
        \/ Tree(p, ret) = Node(p.ntype, Denotes(p), "", 0, <<k[1]>>, FALSE)
    BY <2>1, <2>2, <2>3, <1>5, <1>10, UnaryTree DEF mkExprNode
  <2> QED BY <2>2, <2>3, <2>4, <1>10, ErrorTree, NodeTree
<1>11. CASE p.ntype \in Arithmetic \cup Comparisons \cup Connectives
  <2>1. 1 \in DOMAIN p.kids /\ 2 \in DOMAIN p.kids
    BY <1>11, PartsOfPhrase, KidsOfPhrase
  <2>2. Tree(p, ret) = SynTreeBinExp(p.ntype, k[1], k[2]) /\ Tree(p, "None") = Tree(p, ret)
    BY <1>1, <1>4, <1>11, ReducedCases, ZenonT(60)
  <2>3. Denotes(p) = IF p.ntype \in Arithmetic THEN "Int" ELSE "Bool"
    BY <1>11, DenotesCases, ExpressionKinds
  <2>4. \/ Tree(p, ret) = mkErrorNode
        \/ Tree(p, ret) = Node(p.ntype, Denotes(p), "", 0, <<k[1], k[2]>>, FALSE)
    BY <2>1, <2>2, <2>3, <1>5, <1>11, BinaryTree, ZenonT(60) DEF mkExprNode
  <2>5. p.ntype \notin {"NULL", "Error"} /\ Denotes(p) # "Error"
    BY <2>3, ExpressionKinds
  <2> QED BY <2>2, <2>4, <2>5, ErrorTree, NodeTree
<1> QED BY <1>6, <1>7, <1>8, <1>9, <1>10, <1>11, ExpressionKinds

\* The node of a phrase that is not reported.
Kind(p) ==
  IF p.ntype = "ProcCall" THEN "FunCall"
  ELSE IF p.ntype = "STnodeList" /\ p.kids = <<>> THEN "NULL" ELSE p.ntype
NodeType(p, ret) ==
  IF p.ntype = "Return" /\ ret # "None" THEN Tree(p.kids[1], ret).etype ELSE Denotes(p)
Named(p) == IF p.ntype \in Variables \cup Calls THEN p.sym ELSE ""
Valued(p) == IF p.ntype \in Literals THEN p.val ELSE 0
NodeOver(p, ret, own) ==
  Node(Kind(p), NodeType(p, ret), Named(p), Valued(p), PartTrees(p, ret), own)

LEMMA NodeCases ==
  ASSUME NEW ret, NEW p
  PROVE  /\ p.ntype \in Literals =>
              Kind(p) = p.ntype /\ NodeType(p, ret) = Denotes(p) /\ Named(p) = "" /\ Valued(p) = p.val
         /\ p.ntype \in Variables \cup {"FunCall"} =>
              Kind(p) = p.ntype /\ NodeType(p, ret) = Denotes(p) /\ Named(p) = p.sym /\ Valued(p) = 0
         /\ p.ntype = "ProcCall" =>
              Kind(p) = "FunCall" /\ NodeType(p, ret) = Denotes(p) /\ Named(p) = p.sym /\ Valued(p) = 0
         /\ p.ntype \in Tests \cup Arithmetic \cup {"UnaryMinus", "NULL", "Assg", "If", "While", "For"} =>
              Kind(p) = p.ntype /\ NodeType(p, ret) = Denotes(p) /\ Named(p) = "" /\ Valued(p) = 0
         /\ p.ntype = "STnodeList" =>
              /\ Kind(p) = IF p.kids = <<>> THEN "NULL" ELSE "STnodeList"
              /\ NodeType(p, ret) = Denotes(p) /\ Named(p) = "" /\ Valued(p) = 0
         /\ p.ntype = "Return" => Kind(p) = "Return" /\ Named(p) = "" /\ Valued(p) = 0
BY DEF Kind, NodeType, Named, Valued, Literals, Variables, Calls, Tests, Comparisons, Connectives,
       Arithmetic

\* A report goes up, and a tree that is not reported is made of the trees of
\* the parts.
OverItsParts(p, ret) ==
  LET t == Tree(p, ret)
  IN  /\ t.reported \in BOOLEAN
      /\ (\E i \in DOMAIN p.kids : Tree(p.kids[i], ret).reported) => t.reported
      /\ ~t.reported => t = NodeOver(p, ret, FALSE)

LEMMA ErrorOverParts ==
  ASSUME NEW ret, NEW p, Tree(p, ret) \in {mkErrorNode, FollowsNULL}
  PROVE  OverItsParts(p, ret)
<1>1. mkErrorNode.reported = TRUE /\ FollowsNULL.reported = TRUE
  BY ErrorNode DEF mkErrorNode, FollowsNULL, Node
<1> QED BY <1>1 DEF OverItsParts

LEMMA ReportedOverParts ==
  ASSUME NEW ret, NEW p, Tree(p, ret) = mkErrorNode
  PROVE  OverItsParts(p, ret)
BY ErrorOverParts

LEMMA NodeOverParts ==
  ASSUME NEW ret, NEW p, NEW own \in BOOLEAN, Tree(p, ret) = NodeOver(p, ret, own)
  PROVE  OverItsParts(p, ret)
<1> DEFINE k == PartTrees(p, ret)
<1>1. \A i \in DOMAIN p.kids : k[i] = Tree(p.kids[i], ret)
  BY DEF PartTrees
<1>2. DOMAIN k = DOMAIN p.kids
  BY DEF PartTrees
<1> HIDE DEF k
<1>3. Tree(p, ret).reported = (own \/ \E i \in DOMAIN k : k[i].reported)
  BY DEF NodeOver, Node, k
<1>4. Tree(p, ret).reported <=> own \/ \E i \in DOMAIN p.kids : Tree(p.kids[i], ret).reported
  BY <1>1, <1>2, <1>3
<1>5. ~Tree(p, ret).reported => own = FALSE
  BY <1>4
<1> QED BY <1>3, <1>4, <1>5 DEF OverItsParts

LEMMA ShortSequences ==
  ASSUME NEW p \in Grammar, NEW ret
  PROVE  /\ Len(p.kids) = 0 => PartTrees(p, ret) = <<>>
         /\ Len(p.kids) = 1 => PartTrees(p, ret) = <<PartTrees(p, ret)[1]>>
         /\ Len(p.kids) = 2 => PartTrees(p, ret) = <<PartTrees(p, ret)[1], PartTrees(p, ret)[2]>>
<1> DEFINE k == PartTrees(p, ret)
<1>1. k = [i \in 1 .. Len(p.kids) |-> k[i]]
  BY KidsOfPhrase DEF PartTrees
<1> HIDE DEF k
<1>2. Len(p.kids) = 0 => k = <<>>
  BY <1>1
<1>3. Len(p.kids) = 1 => k = <<k[1]>>
  BY <1>1
<1>4. Len(p.kids) = 2 => k = <<k[1], k[2]>>
  BY <1>1
<1> QED BY <1>2, <1>3, <1>4 DEF k

LEMMA TreesOverParts ==
  ASSUME NEW ret, NEW p \in Grammar
  PROVE  OverItsParts(p, ret)
<1> DEFINE k == PartTrees(p, ret)
<1>1. Tree(p, ret) = Reduced(p, k, ret)
  BY TreeStep DEF PartTrees
<1>2. \A i \in DOMAIN p.kids : p.kids[i].ntype \in Expressions \cup Tests =>
         (k[i].etype = "Error" \/ k[i].ntype = "Error" => k[i] = mkErrorNode)
  BY ExpressionTrees, KidsOfPhrase DEF PartTrees, ExpressionTree
<1>0. \A own : NodeOver(p, ret, own) = Node(Kind(p), NodeType(p, ret), Named(p), Valued(p), k, own)
  BY DEF NodeOver
<1>30. 1 \in DOMAIN p.kids => k[1] = Tree(p.kids[1], ret)
  BY DEF PartTrees
<1> HIDE DEF k
<1>3. CASE p.ntype = "NULL"
  <2>1. k = <<>>
    BY <1>3, PartsOfPhrase, ShortSequences DEF k
  <2>2. Tree(p, ret) = Node("NULL", "None", "", 0, k, FALSE)
    BY <1>3, <1>1, <2>1, ReducedCases DEF NULL
  <2>3. Denotes(p) = "None"
    BY <1>3, DenotesCases DEF Statements
  <2>4. Tree(p, ret) = NodeOver(p, ret, FALSE)
    BY <2>2, <2>3, <1>0, <1>3, NodeCases
  <2> QED BY <2>4, NodeOverParts
<1>4. CASE p.ntype \in Literals
  <2>1. k = <<>>
    BY <1>4, PartsOfPhrase, ShortSequences DEF k
  <2>2. p.ntype = "Intcon" \/ p.ntype = "Charcon" \/ p.ntype = "Stringcon"
    BY <1>4 DEF Literals
  <2>3. Reduced(p, k, ret) = Node(p.ntype, Denotes(p), "", p.val, k, FALSE)
    <3>1. CASE p.ntype = "Intcon"
      <4>1. Denotes(p) = "Int"
        BY <3>1, DenotesCases
      <4> QED BY <2>1, <3>1, <4>1, ReducedCases
    <3>2. CASE p.ntype = "Charcon"
      <4>1. Denotes(p) = "Char"
        BY <3>2, DenotesCases
      <4> QED BY <2>1, <3>2, <4>1, ReducedCases
    <3>3. CASE p.ntype = "Stringcon"
      <4>1. Denotes(p) = "Array"
        BY <3>3, DenotesCases
      <4> QED BY <2>1, <3>3, <4>1, ReducedCases
    <3> QED BY <2>2, <3>1, <3>2, <3>3
  <2>4. Tree(p, ret) = NodeOver(p, ret, FALSE)
    BY <2>3, <1>0, <1>1, <1>4, NodeCases
  <2> QED BY <2>4, NodeOverParts
<1>5. CASE p.ntype = "Var"
  <2>1. k = <<>>
    BY <1>5, PartsOfPhrase, ShortSequences DEF k
  <2>2. Tree(p, ret) = variable(p.sym)
    BY <1>5, <1>1, ReducedCases, ZenonT(60)
  <2>3. Tree(p, ret) = mkErrorNode \/ Tree(p, ret) = Node("Var", type[p.sym], p.sym, 0, k, FALSE)
    BY <2>1, <2>2 DEF variable, mkSymTabRefNode
  <2>4. Denotes(p) = type[p.sym]
    BY <1>5, DenotesCases
  <2>5. Tree(p, ret) = mkErrorNode \/ Tree(p, ret) = NodeOver(p, ret, FALSE)
    BY <2>3, <2>4, <1>0, <1>5, NodeCases DEF Variables
  <2>8. CASE Tree(p, ret) = mkErrorNode
    BY <2>8, ReportedOverParts
  <2>9. CASE Tree(p, ret) = NodeOver(p, ret, FALSE)
    BY <2>9, NodeOverParts
  <2> QED BY <2>5, <2>8, <2>9
<1>6. CASE p.ntype = "ArraySubscript"
  <2>1. k = <<k[1]>>
    BY <1>6, PartsOfPhrase, ShortSequences DEF k
  <2>2. Tree(p, ret) = subscripted(p.sym, k[1])
    BY <1>6, <1>1, ReducedCases
  <2>3. \/ Tree(p, ret) = mkErrorNode
        \/ Tree(p, ret) = Node("ArraySubscript", elt_type[p.sym], p.sym, 0, k, FALSE)
    BY <2>1, <2>2 DEF subscripted, mkSymTabRefNode
  <2>4. Denotes(p) = elt_type[p.sym]
    BY <1>6, DenotesCases
  <2>5. Tree(p, ret) = mkErrorNode \/ Tree(p, ret) = NodeOver(p, ret, FALSE)
    BY <2>3, <2>4, <1>0, <1>6, NodeCases DEF Variables
  <2>8. CASE Tree(p, ret) = mkErrorNode
    BY <2>8, ReportedOverParts
  <2>9. CASE Tree(p, ret) = NodeOver(p, ret, FALSE)
    BY <2>9, NodeOverParts
  <2> QED BY <2>5, <2>8, <2>9
<1>7. CASE p.ntype = "FunCall"
  <2>2. Tree(p, ret) = fun_call(p.sym, k)
    BY <1>7, <1>1, ReducedCases
  <2>3. Tree(p, ret) = mkErrorNode \/ Tree(p, ret) = Node("FunCall", ret_type[p.sym], p.sym, 0, k, FALSE)
    BY <2>2 DEF fun_call, mkSymTabRefNode
  <2>4. Denotes(p) = ret_type[p.sym]
    BY <1>7, DenotesCases
  <2>5. Tree(p, ret) = mkErrorNode \/ Tree(p, ret) = NodeOver(p, ret, FALSE)
    BY <2>3, <2>4, <1>0, <1>7, NodeCases
  <2>8. CASE Tree(p, ret) = mkErrorNode
    BY <2>8, ReportedOverParts
  <2>9. CASE Tree(p, ret) = NodeOver(p, ret, FALSE)
    BY <2>9, NodeOverParts
  <2> QED BY <2>5, <2>8, <2>9
<1>8. CASE p.ntype = "ProcCall"
  <2>2. Tree(p, ret) = proc_call(p.sym, k)
    BY <1>8, <1>1, ReducedCases
  <2>3. \/ Tree(p, ret) = mkErrorNode \/ Tree(p, ret) = FollowsNULL
        \/ Tree(p, ret) = Node("FunCall", "None", p.sym, 0, k, FALSE)
    BY <2>2 DEF proc_call, mkSymTabRefNode
  <2>4. Denotes(p) = "None"
    BY <1>8, DenotesCases DEF Statements
  <2>5. \/ Tree(p, ret) = mkErrorNode \/ Tree(p, ret) = FollowsNULL
        \/ Tree(p, ret) = NodeOver(p, ret, FALSE)
    BY <2>3, <2>4, <1>0, <1>8, NodeCases
  <2>8. CASE Tree(p, ret) = mkErrorNode \/ Tree(p, ret) = FollowsNULL
    BY <2>8, ErrorOverParts
  <2>9. CASE Tree(p, ret) = NodeOver(p, ret, FALSE)
    BY <2>9, NodeOverParts
  <2> QED BY <2>5, <2>8, <2>9
<1>9. CASE p.ntype \in {"UnaryMinus", "LogicalNot"}
  <2>1. k = <<k[1]>> /\ 1 \in DOMAIN p.kids
        /\ p.kids[1].ntype \in Expressions \cup Tests
    BY <1>9, PartsOfPhrase, ShortSequences, KidsOfPhrase DEF k
  <2>2. Tree(p, ret) = SynTreeUnExp(p.ntype, k[1])
    BY <1>9, <1>1, ReducedCases
  <2>3. k[1].etype = "Error" \/ k[1].ntype = "Error" => k[1] = mkErrorNode
    BY <2>1, <1>2
  <2>4. \/ Tree(p, ret) = mkErrorNode
        \/ Tree(p, ret) = Node(p.ntype, IF p.ntype = "UnaryMinus" THEN "Int" ELSE "Bool", "", 0, k, FALSE)
    BY <2>1, <2>2, <2>3, <1>9, UnaryTree DEF mkExprNode
  <2>6. Denotes(p) = IF p.ntype = "UnaryMinus" THEN "Int" ELSE "Bool"
    BY <1>9, DenotesCases DEF Tests
  <2>7. Kind(p) = p.ntype /\ NodeType(p, ret) = Denotes(p) /\ Named(p) = "" /\ Valued(p) = 0
    BY <1>9, NodeCases DEF Tests
  <2>5. Tree(p, ret) = mkErrorNode \/ Tree(p, ret) = NodeOver(p, ret, FALSE)
    BY <2>4, <2>6, <2>7, <1>0
  <2>8. CASE Tree(p, ret) = mkErrorNode
    BY <2>8, ReportedOverParts
  <2>9. CASE Tree(p, ret) = NodeOver(p, ret, FALSE)
    BY <2>9, NodeOverParts
  <2> QED BY <2>5, <2>8, <2>9
<1>10. CASE p.ntype \in Arithmetic \cup Comparisons \cup Connectives
  <2>1. k = <<k[1], k[2]>> /\ 1 \in DOMAIN p.kids /\ 2 \in DOMAIN p.kids
        /\ p.kids[1].ntype \in Expressions \cup Tests /\ p.kids[2].ntype \in Expressions \cup Tests
    BY <1>10, PartsOfPhrase, ShortSequences, KidsOfPhrase DEF k
  <2>2. Tree(p, ret) = SynTreeBinExp(p.ntype, k[1], k[2])
    BY <1>10, <1>1, ReducedCases
  <2>3. /\ k[1].etype = "Error" \/ k[1].ntype = "Error" => k[1] = mkErrorNode
        /\ k[2].etype = "Error" \/ k[2].ntype = "Error" => k[2] = mkErrorNode
    BY <2>1, <1>2
  <2>4. \/ Tree(p, ret) = mkErrorNode
        \/ Tree(p, ret) = Node(p.ntype, IF p.ntype \in Arithmetic THEN "Int" ELSE "Bool", "", 0,
                               <<k[1], k[2]>>, FALSE)
    BY <2>2, <2>3, <1>10, BinaryTree DEF mkExprNode
  <2>6. Denotes(p) = IF p.ntype \in Arithmetic THEN "Int" ELSE "Bool"
    BY <1>10, DenotesCases, ExpressionKinds
  <2>7. Kind(p) = p.ntype /\ NodeType(p, ret) = Denotes(p) /\ Named(p) = "" /\ Valued(p) = 0
    BY <1>10, NodeCases DEF Tests
  <2>5. Tree(p, ret) = mkErrorNode \/ Tree(p, ret) = NodeOver(p, ret, FALSE)
    BY <2>1, <2>4, <2>6, <2>7, <1>0
  <2>8. CASE Tree(p, ret) = mkErrorNode
    BY <2>8, ReportedOverParts
  <2>9. CASE Tree(p, ret) = NodeOver(p, ret, FALSE)
    BY <2>9, NodeOverParts
  <2> QED BY <2>5, <2>8, <2>9
<1>11. CASE p.ntype = "Assg"
  <2>1. k = <<k[1], k[2]>> /\ 1 \in DOMAIN p.kids /\ 2 \in DOMAIN p.kids
        /\ p.kids[1].ntype \in Expressions \cup Tests /\ p.kids[2].ntype \in Expressions \cup Tests
    BY <1>11, PartsOfPhrase, ShortSequences, KidsOfPhrase DEF k, Variables, Expressions
  <2>2. Tree(p, ret) = assignment(k[1], k[2])
    BY <1>11, <1>1, ReducedCases
  <2>3. /\ k[1].etype = "Error" \/ k[1].ntype = "Error" => k[1] = mkErrorNode
        /\ k[2].etype = "Error" \/ k[2].ntype = "Error" => k[2] = mkErrorNode
    BY <2>1, <1>2
  <2>4. Tree(p, ret) = mkErrorNode \/ Tree(p, ret) = Node("Assg", "None", "", 0, k, FALSE)
    BY <2>1, <2>2, <2>3 DEF assignment, mkExprNode
  <2>6. Denotes(p) = "None"
    BY <1>11, DenotesCases DEF Statements
  <2>5. Tree(p, ret) = mkErrorNode \/ Tree(p, ret) = NodeOver(p, ret, FALSE)
    BY <2>4, <2>6, <1>0, <1>11, NodeCases
  <2>8. CASE Tree(p, ret) = mkErrorNode
    BY <2>8, ReportedOverParts
  <2>9. CASE Tree(p, ret) = NodeOver(p, ret, FALSE)
    BY <2>9, NodeOverParts
  <2> QED BY <2>5, <2>8, <2>9
<1>12. CASE p.ntype = "Return"
  <2>1. k = <<k[1]>> /\ 1 \in DOMAIN p.kids
    BY <1>12, PartsOfPhrase, ShortSequences, KidsOfPhrase DEF k
  <2>2. Tree(p, ret) = return(ret, k[1])
    BY <1>12, <1>1, ReducedCases
  <2>3. \/ Tree(p, ret) = mkErrorNode
        \/ Tree(p, ret) = Node("Return", IF ret = "None" THEN "None" ELSE k[1].etype, "", 0, k, FALSE)
    BY <2>1, <2>2 DEF return, mkExprNode
  <2>6. Denotes(p) = "None"
    BY <1>12, DenotesCases DEF Statements
  <2>7. NodeType(p, ret) = IF ret = "None" THEN "None" ELSE k[1].etype
    BY <2>1, <2>6, <1>12, <1>30 DEF NodeType
  <2>5. Tree(p, ret) = mkErrorNode \/ Tree(p, ret) = NodeOver(p, ret, FALSE)
    BY <2>3, <2>7, <1>0, <1>12, NodeCases
  <2>8. CASE Tree(p, ret) = mkErrorNode
    BY <2>8, ReportedOverParts
  <2>9. CASE Tree(p, ret) = NodeOver(p, ret, FALSE)
    BY <2>9, NodeOverParts
  <2> QED BY <2>5, <2>8, <2>9
<1>13. CASE p.ntype \in {"If", "While", "For"}
  <2>1. Tree(p, ret) = tested(p.ntype, k[1], k) \/ Tree(p, ret) = tested(p.ntype, k[2], k)
    BY <1>13, <1>1, ReducedCases, ZenonT(60)
  <2>2. \E own \in BOOLEAN : Tree(p, ret) = Node(p.ntype, "None", "", 0, k, own)
    BY <2>1 DEF tested
  <2>3. Denotes(p) = "None"
    BY <1>13, DenotesCases DEF Statements
  <2>4. \E own \in BOOLEAN : Tree(p, ret) = NodeOver(p, ret, own)
    BY <2>2, <2>3, <1>0, <1>13, NodeCases
  <2> QED BY <2>4, NodeOverParts
<1>14. CASE p.ntype = "STnodeList"
  <2>1. p.kids = <<>> <=> k = <<>>
    <3>1. p.kids = <<>> => k = <<>>
      BY ShortSequences DEF k
    <3>2. k = <<>> => DOMAIN p.kids = {}
      BY DEF k, PartTrees
    <3>3. DOMAIN p.kids = {} => p.kids = <<>>
      <4>1. p.kids \in Seq(Grammar)
        BY PhraseShape
      <4> QED BY <4>1
    <3> QED BY <3>1, <3>2, <3>3
  <2>2. Reduced(p, k, ret) = IF k = <<>> THEN NULL ELSE Node("STnodeList", "None", "", 0, k, FALSE)
    BY <1>14, ReducedCases
  <2>3. Tree(p, ret) = Node(IF p.kids = <<>> THEN "NULL" ELSE "STnodeList", "None", "", 0, k, FALSE)
    BY <2>1, <2>2, <1>1 DEF NULL
  <2>4. Denotes(p) = "None"
    BY <1>14, DenotesCases DEF Statements
  <2>5. Tree(p, ret) = NodeOver(p, ret, FALSE)
    BY <2>3, <2>4, <1>0, <1>14, NodeCases
  <2> QED BY <2>5, NodeOverParts
<1> QED BY <1>3, <1>4, <1>5, <1>6, <1>7, <1>8, <1>9, <1>10, <1>11, <1>12, <1>13, <1>14,
           PhraseShape, ExpressionKinds DEF Statements

-----------------------------------------------------------------------------
\* The type checks against the typing rules.
PartMeanings(p, ret) == [i \in DOMAIN p.kids |-> Meaning(p.kids[i], ret)]

\* Each part of p means something, and its tree is as the rules say.
PartsAreRight(p, ret) ==
  \A i \in DOMAIN p.kids :
    LET q == p.kids[i]
        t == Tree(q, ret)
    IN  /\ ~t.reported
        /\ Meaning(q, ret) # "Wrong"
        /\ q.ntype \in Expressions \cup Tests =>
             t.etype = Meaning(q, ret) /\ t.ntype = q.ntype /\ t = Tree(q, "None")
        /\ q.ntype = "NULL" => t = NULL /\ Meaning(q, ret) = "None"

LEMMA NodeUnreported ==
  ASSUME NEW ret, NEW p, NEW ntype, NEW etype, NEW sym, NEW v,
         Tree(p, ret) = Node(ntype, etype, sym, v, PartTrees(p, ret), FALSE),
         PartsAreRight(p, ret)
  PROVE  ~Tree(p, ret).reported
<1>1. \A i \in DOMAIN p.kids : ~PartTrees(p, ret)[i].reported
  BY DEF PartTrees, PartsAreRight
<1>2. DOMAIN PartTrees(p, ret) = DOMAIN p.kids
  BY DEF PartTrees
<1> DEFINE k == PartTrees(p, ret)
<1> HIDE DEF k
<1>3. Tree(p, ret) = Node(ntype, etype, sym, v, k, FALSE)
  BY DEF k
<1>4. ~\E i \in DOMAIN k : k[i].reported
  BY <1>1, <1>2 DEF k
<1>5. Tree(p, ret).reported = (FALSE \/ \E i \in DOMAIN k : k[i].reported)
  BY <1>3 DEF Node
<1> QED BY <1>4, <1>5

LEMMA VariableTree ==
  ASSUME NEW ret, NEW p \in Grammar, p.ntype = "Var", ~Tree(p, ret).reported
  PROVE  Tree(p, ret) = Node("Var", type[p.sym], p.sym, 0, <<>>, FALSE)
<1>1. Tree(p, ret) = Reduced(p, PartTrees(p, ret), ret)
  BY TreeStep DEF PartTrees
<1>2. Reduced(p, PartTrees(p, ret), ret) = variable(p.sym)
  BY ReducedCases, ZenonT(60)
<1> QED BY <1>1, <1>2, ErrorNode DEF variable, mkSymTabRefNode

LEMMA MeaningIsDenoted ==
  ASSUME NEW ret, NEW p \in Grammar, Meaning(p, ret) # "Wrong"
  PROVE  Meaning(p, ret) = Denotes(p) /\ Allowed(p, PartMeanings(p, ret), ret)
BY MeaningStep DEF PartMeanings, Denoted

LEMMA ArrayMeanings ==
  ASSUME NEW ret, NEW q \in Grammar, q.ntype \in Expressions, Meaning(q, ret) = "Array"
  PROVE  q.ntype = "Stringcon" \/ (q.ntype = "Var" /\ type[q.sym] = "Array")
<1>1. Denotes(q) = "Array" /\ Allowed(q, PartMeanings(q, ret), ret)
  BY MeaningIsDenoted
<1>2. CASE q.ntype \in {"Intcon", "UnaryMinus"} \cup Arithmetic
  BY <1>1, <1>2, DenotesCases
<1>3. CASE q.ntype = "Charcon"
  BY <1>1, <1>3, DenotesCases
<1>4. CASE q.ntype = "Var"
  BY <1>1, <1>4, DenotesCases
<1>5. CASE q.ntype = "ArraySubscript"
  <2>1. q.sym \in Names
    BY <1>5, PhraseShape DEF NamesKnown, Variables
  <2>2. type[q.sym] = "Array"
    BY <1>1, <1>5, AllowedCases
  <2>3. elt_type[q.sym] = "Array"
    BY <1>1, <1>5, DenotesCases
  <2> QED BY <2>1, <2>2, <2>3, TableEntry
<1>6. CASE q.ntype = "FunCall"
  <2>1. q.sym \in Names
    BY <1>6, PhraseShape DEF NamesKnown, Calls
  <2>2. type[q.sym] = "Func"
    BY <1>1, <1>6, AllowedCases DEF FitsAll
  <2>3. ret_type[q.sym] = "Array"
    BY <1>1, <1>6, DenotesCases
  <2> QED BY <2>1, <2>2, <2>3, TableEntry
<1> QED BY <1>2, <1>3, <1>4, <1>5, <1>6 DEF Expressions, Literals, Variables

LEMMA MeaningsOfNames ==
  ASSUME NEW ret, NEW p \in Grammar, Allowed(p, PartMeanings(p, ret), ret)
  PROVE  Denotes(p) # "Wrong"
<1>1. CASE p.ntype \in {"Intcon", "UnaryMinus"} \cup Arithmetic \/ p.ntype \in {"Charcon", "Stringcon"}
           \/ p.ntype \in Tests \/ p.ntype \in Statements
  BY <1>1, DenotesCases
<1>4. CASE p.ntype = "Var"
  <2>1. p.sym \in Names
    BY <1>4, PhraseShape DEF NamesKnown, Variables
  <2> QED BY <2>1, <1>4, DenotesCases, TableEntry
<1>5. CASE p.ntype = "ArraySubscript"
  <2>1. p.sym \in Names
    BY <1>5, PhraseShape DEF NamesKnown, Variables
  <2>2. type[p.sym] = "Array"
    BY <1>5, AllowedCases
  <2>3. Denotes(p) = elt_type[p.sym]
    BY <1>5, DenotesCases
  <2> QED BY <2>1, <2>2, <2>3, TableEntry
<1>6. CASE p.ntype = "FunCall"
  <2>1. p.sym \in Names
    BY <1>6, PhraseShape DEF NamesKnown, Calls
  <2>2. type[p.sym] = "Func"
    BY <1>6, AllowedCases DEF FitsAll
  <2>3. Denotes(p) = ret_type[p.sym]
    BY <1>6, DenotesCases
  <2> QED BY <2>1, <2>2, <2>3, TableEntry
<1> QED BY <1>1, <1>4, <1>5, <1>6, PhraseShape DEF Expressions, Literals, Variables

LEMMA ActualsFit ==
  ASSUME NEW ret, NEW p \in Grammar, p.ntype \in Calls, PartsAreRight(p, ret),
         type[p.sym] = "Func", Len(p.kids) = Len(formals[p.sym])
  PROVE  /\ (\A i \in DOMAIN p.kids : Fits(p, i, Meaning(p.kids[i], ret)))
              => ActualsMatchFormals(p.sym, PartTrees(p, ret))
         /\ ActualsMatchFormals(p.sym, PartTrees(p, ret))
              => LaxlyPassed(p) \/ \A i \in DOMAIN p.kids : Fits(p, i, Meaning(p.kids[i], ret))
<1> DEFINE k == PartTrees(p, ret)
<1>1. Len(k) = Len(p.kids) /\ DOMAIN k = DOMAIN p.kids /\ \A i \in DOMAIN p.kids : k[i] = Tree(p.kids[i], ret)
  BY KidsOfPhrase DEF PartTrees
<1>2. \A i \in DOMAIN p.kids : p.kids[i].ntype \in Expressions /\ p.kids[i] \in Grammar
  BY PartsOfPhrase, KidsOfPhrase
<1>3. \A i \in DOMAIN p.kids :
         /\ ~k[i].reported /\ k[i].etype = Meaning(p.kids[i], ret) /\ k[i].ntype = p.kids[i].ntype
         /\ k[i] = Tree(p.kids[i], "None")
  BY <1>1, <1>2 DEF PartsAreRight
<1>4. \A i \in DOMAIN p.kids : p.kids[i].ntype = "Var" => k[i].sym = p.kids[i].sym
  <2> SUFFICES ASSUME NEW i \in DOMAIN p.kids, p.kids[i].ntype = "Var" PROVE k[i].sym = p.kids[i].sym
    OBVIOUS
  <2>1. k[i] = Node("Var", type[p.kids[i].sym], p.kids[i].sym, 0, <<>>, FALSE)
    BY <1>1, <1>2, <1>3, VariableTree
  <2> QED BY <2>1 DEF Node
<1> HIDE DEF k
<1>5. ASSUME \A i \in DOMAIN p.kids : Fits(p, i, Meaning(p.kids[i], ret))
      PROVE  ActualsMatchFormals(p.sym, k)
  <2> SUFFICES ASSUME NEW i \in DOMAIN k, type[formals[p.sym][i]] = "Array", k[i].etype = "Array"
               PROVE  IF k[i].ntype = "Stringcon" THEN elt_type[formals[p.sym][i]] = "Char"
                      ELSE elt_type[formals[p.sym][i]] = elt_type[k[i].sym]
    BY <1>1 DEF ActualsMatchFormals
  <2>1. Fits(p, i, Meaning(p.kids[i], ret))
    BY <1>5, <1>1
  <2> QED BY <2>1, <1>1, <1>3, <1>4 DEF Fits
<1>6. ASSUME ActualsMatchFormals(p.sym, k), ~LaxlyPassed(p), NEW i \in DOMAIN p.kids
      PROVE  Fits(p, i, Meaning(p.kids[i], ret))
  <2> DEFINE f == formals[p.sym][i]
  <2>1. i <= Len(formals[p.sym])
    BY KidsOfPhrase
  <2>2. IF type[f] = "Array" THEN k[i].etype = "Array" ELSE k[i].etype \in Numeric
    BY <1>6, <1>3, <2>1 DEF LaxlyPassed
  <2>3. CASE type[f] # "Array"
    BY <2>2, <2>3, <1>3 DEF Fits
  <2>4. CASE type[f] = "Array"
    <3>1. \/ p.kids[i].ntype = "Stringcon"
          \/ p.kids[i].ntype = "Var" /\ type[p.kids[i].sym] = "Array"
      BY <2>2, <2>4, <1>2, <1>3, ArrayMeanings
    <3>2. IF k[i].ntype = "Stringcon" THEN elt_type[f] = "Char" ELSE elt_type[f] = elt_type[k[i].sym]
      BY <1>6, <1>1, <2>2, <2>4 DEF ActualsMatchFormals
    <3>3. CASE p.kids[i].ntype = "Stringcon"
      BY <3>2, <3>3, <2>4, <1>3 DEF Fits
    <3>4. CASE p.kids[i].ntype # "Stringcon"
      BY <3>1, <3>2, <3>4, <2>4, <1>3, <1>4 DEF Fits
    <3> QED BY <3>3, <3>4
  <2> QED BY <2>3, <2>4
<1> QED BY <1>5, <1>6 DEF k

\* Where the parts are right, a phrase is reported unless its rule allows
\* them, up to lax calls.
LEMMA ReportedUnlessAllowed ==
  ASSUME NEW ret, NEW p \in Grammar, PartsAreRight(p, ret)
  PROVE  /\ Allowed(p, PartMeanings(p, ret), ret) => ~Tree(p, ret).reported
         /\ ~Allowed(p, PartMeanings(p, ret), ret) => Tree(p, ret).reported \/ LaxlyPassed(p)
<1> DEFINE k == PartTrees(p, ret)
           m == PartMeanings(p, ret)
           Goal == /\ Allowed(p, m, ret) => ~Tree(p, ret).reported
                   /\ ~Allowed(p, m, ret) => Tree(p, ret).reported \/ LaxlyPassed(p)
<1> SUFFICES Goal
  OBVIOUS
<1>1. Tree(p, ret) = Reduced(p, k, ret)
  BY TreeStep DEF PartTrees
<1>2. \A i \in DOMAIN p.kids :
         /\ p.kids[i].ntype \in Expressions \cup Tests =>
              k[i].etype = m[i] /\ k[i].ntype = p.kids[i].ntype
         /\ p.kids[i].ntype = "NULL" => k[i] = NULL /\ m[i] = "None"
         /\ m[i] # "Wrong"
         /\ m[i] = Meaning(p.kids[i], ret)
  BY DEF PartsAreRight, PartTrees, PartMeanings
<1>3. DOMAIN m = DOMAIN p.kids /\ DOMAIN k = DOMAIN p.kids
  BY DEF PartMeanings, PartTrees
<1>4. \A i \in DOMAIN p.kids :
         p.kids[i].ntype \in Expressions \cup Tests => m[i] # "Error" /\ k[i].ntype \notin {"Error", "NULL"}
  <2>1. \A q \in Grammar : q.ntype \in Expressions \cup Tests => ExpressionTree(q, ret)
    BY ExpressionTrees
  <2> SUFFICES ASSUME NEW i \in DOMAIN p.kids, p.kids[i].ntype \in Expressions \cup Tests
               PROVE  m[i] # "Error" /\ k[i].ntype \notin {"Error", "NULL"}
    OBVIOUS
  <2>2. ExpressionTree(p.kids[i], ret) /\ k[i] = Tree(p.kids[i], ret) /\ ~k[i].reported
    BY <2>1, KidsOfPhrase DEF PartTrees, PartsAreRight
  <2>3. k[i] # mkErrorNode
    BY <2>2, ErrorNode
  <2> QED BY <2>2, <2>3, <1>2 DEF ExpressionTree
<1>5. mkErrorNode.reported /\ FollowsNULL.reported /\ NULL.ntype = "NULL" /\ NULL.etype = "None"
      /\ ~NULL.reported
  BY ErrorNode
<1> HIDE DEF k, m
<1>6. ASSUME NEW ntype, NEW etype, NEW sym, NEW v, Tree(p, ret) = Node(ntype, etype, sym, v, k, FALSE)
      PROVE  ~Tree(p, ret).reported
  BY <1>6, NodeUnreported DEF k
<1>10. CASE p.ntype \in Literals
  <2>1. k = <<>> /\ Allowed(p, m, ret)
    BY <1>10, PartsOfPhrase, ShortSequences, AllowedCases DEF k
  <2>2. p.ntype = "Intcon" \/ p.ntype = "Charcon" \/ p.ntype = "Stringcon"
    BY <1>10 DEF Literals
  <2>3. \E etype : Reduced(p, k, ret) = Node(p.ntype, etype, "", p.val, k, FALSE)
    BY <2>1, <2>2, ReducedCases
  <2> QED BY <2>1, <2>3, <1>1, <1>6
<1>11. CASE p.ntype = "NULL"
  <2>1. Allowed(p, m, ret)
    BY <1>11, AllowedCases
  <2>2. Tree(p, ret) = NULL
    BY <1>11, <1>1, ReducedCases
  <2> QED BY <2>1, <2>2, <1>5
<1>12. CASE p.ntype = "STnodeList"
  <2>1. Allowed(p, m, ret)
    BY <1>12, AllowedCases
  <2>2. Tree(p, ret) = NULL \/ Tree(p, ret) = Node("STnodeList", "None", "", 0, k, FALSE)
    BY <1>12, <1>1, ReducedCases
  <2> QED BY <2>1, <2>2, <1>5, <1>6
<1>13. CASE p.ntype = "Var"
  <2>1. k = <<>> /\ (Allowed(p, m, ret) <=> type[p.sym] # "None")
    BY <1>13, PartsOfPhrase, ShortSequences, AllowedCases DEF k
  <2>2. Tree(p, ret) = variable(p.sym)
    BY <1>13, <1>1, ReducedCases, ZenonT(60)
  <2>3. Tree(p, ret) = IF type[p.sym] = "None" THEN mkErrorNode
                       ELSE Node("Var", type[p.sym], p.sym, 0, k, FALSE)
    BY <2>1, <2>2 DEF variable, mkSymTabRefNode
  <2> QED BY <2>1, <2>3, <1>5, <1>6
<1>14. CASE p.ntype = "ArraySubscript"
  <2>1. k = <<k[1]>> /\ (Allowed(p, m, ret) <=> type[p.sym] = "Array" /\ m[1] \in Numeric)
    BY <1>14, PartsOfPhrase, ShortSequences, AllowedCases DEF k
  <2>2. Tree(p, ret) = subscripted(p.sym, k[1])
    BY <1>14, <1>1, ReducedCases
  <2>3. k[1].etype = m[1] /\ m[1] # "Error"
    BY <1>2, <1>4, <1>14, PartsOfPhrase, KidsOfPhrase
  <2>4. Tree(p, ret) = IF type[p.sym] = "Array" /\ m[1] \in Numeric
                       THEN Node("ArraySubscript", elt_type[p.sym], p.sym, 0, k, FALSE) ELSE mkErrorNode
    BY <2>1, <2>2, <2>3 DEF subscripted, mkSymTabRefNode
  <2> QED BY <2>1, <2>4, <1>5, <1>6
<1>15. CASE p.ntype \in Calls
  <2> DEFINE fit == \A i \in DOMAIN p.kids : Fits(p, i, Meaning(p.kids[i], ret))
             match == ActualsMatchFormals(p.sym, k)
             results == IF p.ntype = "FunCall" THEN Results ELSE {"None"}
             same == Len(p.kids) = Len(formals[p.sym])
  <2>1. Allowed(p, m, ret)
          <=> type[p.sym] = "Func" /\ ret_type[p.sym] \in results /\ same /\ fit
    BY <1>2, <1>15, AllowedCases DEF FitsAll, Calls
  <2>2. p.sym \in Names
    BY <1>15, PhraseShape DEF NamesKnown
  <2>3. type[p.sym] = "Func" /\ p.ntype = "FunCall" => ret_type[p.sym] \in results
    BY <2>2, TableEntry DEF Results, Numeric
  <2>4. match => same
    <3>1. Len(k) = Len(p.kids)
      BY KidsOfPhrase DEF k, PartTrees
    <3> QED BY <3>1 DEF ActualsMatchFormals
  <2>5. type[p.sym] = "Func" /\ same => (fit => match) /\ (match => LaxlyPassed(p) \/ fit)
    BY <1>15, ActualsFit DEF k
  <2>6. Tree(p, ret) = IF p.ntype = "FunCall" THEN fun_call(p.sym, k) ELSE proc_call(p.sym, k)
    BY <1>1, <1>15, ReducedCases DEF Calls
  <2> HIDE DEF fit, same
  <2>7. \/ /\ type[p.sym] = "Func" /\ ret_type[p.sym] \in results /\ match
           /\ Tree(p, ret) = Node("FunCall", ret_type[p.sym], p.sym, 0, k, FALSE)
        \/ /\ ~(type[p.sym] = "Func" /\ ret_type[p.sym] \in results /\ match)
           /\ Tree(p, ret) = mkErrorNode \/ Tree(p, ret) = FollowsNULL
    BY <2>3, <2>6 DEF fun_call, proc_call, mkSymTabRefNode
  <2> HIDE DEF match, results
  <2>8. CASE /\ type[p.sym] = "Func" /\ ret_type[p.sym] \in results /\ match
             /\ Tree(p, ret) = Node("FunCall", ret_type[p.sym], p.sym, 0, k, FALSE)
    <3>1. ~Tree(p, ret).reported
      BY <2>8, <1>6
    <3> QED BY <3>1, <2>1, <2>4, <2>5, <2>8
  <2>9. CASE /\ ~(type[p.sym] = "Func" /\ ret_type[p.sym] \in results /\ match)
             /\ Tree(p, ret) = mkErrorNode \/ Tree(p, ret) = FollowsNULL
    <3>1. Tree(p, ret).reported
      BY <2>9, <1>5
    <3> QED BY <3>1, <2>1, <2>5, <2>9
  <2> QED BY <2>7, <2>8, <2>9
<1>16. CASE p.ntype \in {"UnaryMinus", "LogicalNot"}
  <2>1. k = <<k[1]>> /\ DOMAIN m = {1} /\ 1 \in DOMAIN p.kids
        /\ p.kids[1].ntype \in Expressions \cup Tests
    BY <1>16, <1>3, PartsOfPhrase, ShortSequences, KidsOfPhrase DEF k
  <2>2. Tree(p, ret) = SynTreeUnExp(p.ntype, k[1])
    BY <1>16, <1>1, ReducedCases
  <2>3. k[1].etype = m[1] /\ k[1].ntype # "Error"
    BY <2>1, <1>2, <1>4
  <2>4. Allowed(p, m, ret) <=> m[1] \in (IF p.ntype = "UnaryMinus" THEN Numeric ELSE {"Bool"})
    <3>1. CASE p.ntype = "UnaryMinus"
      BY <2>1, <3>1, AllowedCases
    <3>2. CASE p.ntype = "LogicalNot"
      BY <2>1, <3>2, AllowedCases
    <3> QED BY <3>1, <3>2, <1>16
  <2>5. Tree(p, ret) =
          IF m[1] \in (IF p.ntype = "UnaryMinus" THEN Numeric ELSE {"Bool"})
          THEN Node(p.ntype, IF p.ntype = "UnaryMinus" THEN "Int" ELSE "Bool", "", 0, k, FALSE)
          ELSE mkErrorNode
    BY <2>1, <2>2, <2>3 DEF SynTreeUnExp, mkExprNode
  <2> QED BY <2>4, <2>5, <1>5, <1>6
<1>17. CASE p.ntype \in Arithmetic \cup Comparisons \cup Connectives
  <2>1. k = <<k[1], k[2]>> /\ DOMAIN m = {1, 2} /\ 1 \in DOMAIN p.kids /\ 2 \in DOMAIN p.kids
        /\ p.kids[1].ntype \in Expressions \cup Tests /\ p.kids[2].ntype \in Expressions \cup Tests
    BY <1>17, <1>3, PartsOfPhrase, ShortSequences, KidsOfPhrase DEF k
  <2>2. Tree(p, ret) = SynTreeBinExp(p.ntype, k[1], k[2])
    BY <1>17, <1>1, ReducedCases
  <2>3. k[1].etype = m[1] /\ k[1].ntype # "Error" /\ k[2].etype = m[2] /\ k[2].ntype # "Error"
    BY <2>1, <1>2, <1>4
  <2> DEFINE wanted == IF p.ntype \in Connectives THEN {"Bool"} ELSE Numeric
  <2>4. Allowed(p, m, ret) <=> m[1] \in wanted /\ m[2] \in wanted
    <3>1. CASE p.ntype \in Arithmetic \cup Comparisons
      <4>1. p.ntype \notin Connectives
        BY <3>1 DEF Arithmetic, Comparisons, Connectives
      <4> QED BY <2>1, <3>1, <4>1, AllowedCases
    <3>2. CASE p.ntype \in Connectives
      BY <2>1, <3>2, AllowedCases
    <3> QED BY <3>1, <3>2, <1>17
  <2>5. Tree(p, ret) =
          IF m[1] \in wanted /\ m[2] \in wanted
          THEN Node(p.ntype, IF p.ntype \in Arithmetic THEN "Int" ELSE "Bool", "", 0, k, FALSE)
          ELSE mkErrorNode
    BY <2>1, <2>2, <2>3 DEF SynTreeBinExp, mkExprNode
  <2> QED BY <2>4, <2>5, <1>5, <1>6
<1>18. CASE p.ntype = "Assg"
  <2>1. k = <<k[1], k[2]>> /\ DOMAIN m = {1, 2} /\ 1 \in DOMAIN p.kids /\ 2 \in DOMAIN p.kids
        /\ p.kids[1].ntype \in Expressions \cup Tests /\ p.kids[2].ntype \in Expressions \cup Tests
    BY <1>18, <1>3, PartsOfPhrase, ShortSequences, KidsOfPhrase DEF k, Variables, Expressions
  <2>2. Tree(p, ret) = assignment(k[1], k[2])
    BY <1>18, <1>1, ReducedCases
  <2>3. k[1].etype = m[1] /\ k[1].ntype # "Error" /\ k[2].etype = m[2] /\ k[2].ntype # "Error"
    BY <2>1, <1>2, <1>4
  <2>4. Allowed(p, m, ret) <=> m[1] \in Numeric /\ m[2] \in Numeric
    BY <2>1, <1>18, AllowedCases
  <2>5. Tree(p, ret) = IF m[1] \in Numeric /\ m[2] \in Numeric
                       THEN Node("Assg", "None", "", 0, k, FALSE) ELSE mkErrorNode
    BY <2>1, <2>2, <2>3 DEF assignment, mkExprNode
  <2> QED BY <2>4, <2>5, <1>5, <1>6
<1>19. CASE p.ntype = "Return"
  <2>1. k = <<k[1]>> /\ 1 \in DOMAIN p.kids /\ p.kids[1].ntype \in Expressions \cup {"NULL"}
    BY <1>19, PartsOfPhrase, ShortSequences, KidsOfPhrase DEF k
  <2>2. Tree(p, ret) = return(ret, k[1])
    BY <1>19, <1>1, ReducedCases
  <2>3. /\ k[1].etype = m[1] /\ k[1].etype # "Error"
        /\ k[1].ntype = "NULL" <=> p.kids[1].ntype = "NULL"
    BY <2>1, <1>2, <1>4, <1>5
  <2>4. Allowed(p, m, ret) <=> IF ret = "None" THEN p.kids[1].ntype = "NULL" ELSE m[1] \in Numeric
    BY <1>19, AllowedCases
  <2>5. p.kids[1].ntype = "NULL" => m[1] \notin Numeric
    BY <2>1, <1>2 DEF Numeric
  <2>6. \E etype :
          Tree(p, ret) = IF IF ret = "None" THEN p.kids[1].ntype = "NULL" ELSE m[1] \in Numeric
                         THEN Node("Return", etype, "", 0, k, FALSE) ELSE mkErrorNode
    BY <2>1, <2>2, <2>3, <2>5 DEF return, mkExprNode
  <2> QED BY <2>4, <2>6, <1>5, <1>6
<1>20. CASE p.ntype \in {"If", "While"}
  <2>1. 1 \in DOMAIN p.kids /\ p.kids[1].ntype \in Tests
    BY <1>20, PartsOfPhrase, KidsOfPhrase
  <2>2. Tree(p, ret) = tested(p.ntype, k[1], k)
    BY <1>20, <1>1, ReducedCases
  <2>3. m[1] = "Bool"
    <3>1. p.kids[1] \in Grammar /\ Meaning(p.kids[1], ret) # "Wrong"
      BY <2>1, <1>2, KidsOfPhrase
    <3>2. Meaning(p.kids[1], ret) = "Bool"
      BY <3>1, <2>1, MeaningIsDenoted, DenotesCases
    <3> QED BY <3>2, <2>1, <1>2
  <2>4. k[1].etype = "Bool"
    BY <2>1, <2>3, <1>2
  <2>5. Tree(p, ret) = Node(p.ntype, "None", "", 0, k, FALSE)
    BY <2>2, <2>4 DEF tested
  <2>6. Allowed(p, m, ret)
    BY <2>3, <1>20, AllowedCases
  <2> QED BY <2>5, <2>6, <1>6
<1>21. CASE p.ntype = "For"
  <2>1. 2 \in DOMAIN p.kids /\ p.kids[2].ntype \in Tests \cup {"NULL"}
    BY <1>21, PartsOfPhrase, KidsOfPhrase
  <2>2. Tree(p, ret) = tested(p.ntype, k[2], k)
    BY <1>21, <1>1, ReducedCases, ZenonT(60)
  <2>3. p.kids[2].ntype \in Tests => m[2] = "Bool"
    <3>1. p.kids[2] \in Grammar /\ Meaning(p.kids[2], ret) # "Wrong"
      BY <2>1, <1>2, KidsOfPhrase
    <3>2. p.kids[2].ntype \in Tests => Meaning(p.kids[2], ret) = "Bool"
      BY <3>1, <2>1, MeaningIsDenoted, DenotesCases
    <3> QED BY <3>2, <2>1, <1>2
  <2>4. (k[2].etype = "Bool" /\ m[2] = "Bool") \/ (k[2].ntype = "NULL" /\ m[2] = "None")
    <3>1. CASE p.kids[2].ntype \in Tests
      <4>1. k[2].etype = m[2]
        BY <3>1, <2>1, <1>2
      <4>2. m[2] = "Bool"
        BY <3>1, <2>3
      <4>3. k[2].etype = "Bool"
        BY <4>1, <4>2
      <4> QED BY <4>2, <4>3
    <3>2. CASE p.kids[2].ntype = "NULL"
      <4>1. k[2] = NULL /\ m[2] = "None"
        BY <3>2, <2>1, <1>2
      <4> QED BY <4>1, <1>5
    <3> QED BY <3>1, <3>2, <2>1
  <2>5. Tree(p, ret) = Node(p.ntype, "None", "", 0, k, FALSE)
    BY <2>2, <2>4 DEF tested
  <2>6. Allowed(p, m, ret)
    BY <2>4, <1>21, AllowedCases
  <2> QED BY <2>5, <2>6, <1>6
<1> QED
  BY <1>10, <1>11, <1>12, <1>13, <1>14, <1>15, <1>16, <1>17, <1>18, <1>19, <1>20, <1>21,
     PhraseShape DEF Expressions, Tests, Statements, Variables, Calls

-----------------------------------------------------------------------------
\* Every phrase is reported exactly when it means nothing, up to lax calls.
Checked(p, ret) ==
  /\ Tree(p, ret).reported => Meaning(p, ret) = "Wrong"
  /\ Meaning(p, ret) = "Wrong" => Tree(p, ret).reported \/ LaxCall(p)

LEMMA NullPhrase ==
  ASSUME NEW ret, NEW q \in Grammar, q.ntype = "NULL"
  PROVE  Tree(q, ret) = NULL /\ Meaning(q, ret) = "None"
<1>1. Tree(q, ret) = NULL
  <2>1. Tree(q, ret) = Reduced(q, [i \in DOMAIN q.kids |-> Tree(q.kids[i], ret)], ret)
    BY TreeStep
  <2>2. \A k : Reduced(q, k, ret) = NULL
    BY ReducedCases
  <2> QED BY <2>1, <2>2
<1>2. Denotes(q) = "None"
  BY DenotesCases DEF Statements
<1>3. \A m : Allowed(q, m, ret)
  BY AllowedCases
<1>4. q.kids = <<>>
  BY PartsOfPhrase
<1>5. \A i \in DOMAIN [i \in DOMAIN q.kids |-> Meaning(q.kids[i], ret)] : FALSE
  BY <1>4
<1> QED BY <1>1, <1>2, <1>3, <1>5, MeaningStep DEF Denoted

THEOREM ChecksAreExact ==
  ASSUME NEW ret
  PROVE  \A p \in Grammar : Checked(p, ret)
<1> DEFINE H == {p \in Grammar : Checked(p, ret)}
<1> SUFFICES ASSUME NEW p \in Grammar, \A i \in DOMAIN p.kids : p.kids[i] \in H
             PROVE  Checked(p, ret)
  <2>1. \A q \in Grammar : (\A i \in DOMAIN q.kids : q.kids[i] \in H) => q \in H
    OBVIOUS
  <2> HIDE DEF H
  <2>2. \A q \in Grammar : q \in H
    BY <2>1, GrammarInduction
  <2> QED BY <2>2 DEF H
<1> DEFINE m == PartMeanings(p, ret)
<1>1. \A i \in DOMAIN p.kids : p.kids[i] \in Grammar /\ Checked(p.kids[i], ret) /\ m[i] = Meaning(p.kids[i], ret)
  BY DEF PartMeanings
<1>2. DOMAIN m = DOMAIN p.kids
  BY DEF PartMeanings
<1>3. Meaning(p, ret) = Denoted(p, m, ret)
  BY MeaningStep DEF PartMeanings
<1> HIDE DEF H
<1>4. CASE \E i \in DOMAIN p.kids : Meaning(p.kids[i], ret) = "Wrong"
  <2>1. PICK i \in DOMAIN p.kids : Meaning(p.kids[i], ret) = "Wrong"
    BY <1>4
  <2>2. Meaning(p, ret) = "Wrong"
    BY <2>1, <1>1, <1>2, <1>3 DEF Denoted
  <2>3. Tree(p.kids[i], ret).reported \/ LaxCall(p.kids[i])
    BY <2>1, <1>1 DEF Checked
  <2>4. Tree(p.kids[i], ret).reported => Tree(p, ret).reported
    BY TreesOverParts DEF OverItsParts
  <2>5. LaxCall(p.kids[i]) => LaxCall(p)
    BY LaxCallStep
  <2> QED BY <2>2, <2>3, <2>4, <2>5 DEF Checked
<1>5. CASE \A i \in DOMAIN p.kids : Meaning(p.kids[i], ret) # "Wrong"
  <2>1. PartsAreRight(p, ret)
    <3> SUFFICES ASSUME NEW i \in DOMAIN p.kids
                 PROVE  LET q == p.kids[i]
                            t == Tree(q, ret)
                        IN  /\ ~t.reported
                            /\ Meaning(q, ret) # "Wrong"
                            /\ q.ntype \in Expressions \cup Tests =>
                                 t.etype = Meaning(q, ret) /\ t.ntype = q.ntype /\ t = Tree(q, "None")
                            /\ q.ntype = "NULL" => t = NULL /\ Meaning(q, ret) = "None"
      BY DEF PartsAreRight
    <3> DEFINE q == p.kids[i]
    <3>1. q \in Grammar /\ Meaning(q, ret) # "Wrong" /\ ~Tree(q, ret).reported
      BY <1>1, <1>5 DEF Checked
    <3>2. Meaning(q, ret) = Denotes(q)
      BY <3>1, MeaningIsDenoted
    <3>3. q.ntype \in Expressions \cup Tests => ExpressionTree(q, ret)
      BY <3>1, ExpressionTrees
    <3>4. q.ntype = "NULL" => Tree(q, ret) = NULL /\ Meaning(q, ret) = "None"
      BY <3>1, NullPhrase
    <3> QED BY <3>1, <3>2, <3>3, <3>4 DEF ExpressionTree
  <2>2. /\ Allowed(p, m, ret) => ~Tree(p, ret).reported
        /\ ~Allowed(p, m, ret) => Tree(p, ret).reported \/ LaxlyPassed(p)
    BY <2>1, ReportedUnlessAllowed
  <2>3. Allowed(p, m, ret) => Denotes(p) # "Wrong"
    BY MeaningsOfNames
  <2>4. Meaning(p, ret) = "Wrong" <=> ~Allowed(p, m, ret)
    BY <1>1, <1>2, <1>3, <1>5, <2>3 DEF Denoted
  <2>5. LaxlyPassed(p) => LaxCall(p)
    BY LaxCallStep
  <2> QED BY <2>2, <2>4, <2>5 DEF Checked
<1> QED BY <1>4, <1>5

\* The function and its code are those it starts with.
LEMMA BodyStep ==
  ASSUME NextInBody
  PROVE  UNCHANGED <<body, optimised, code, dead>>
BY DEF NextInBody, RunAssign, RunAssignThrough, RunUMinus, RunBinaryArithmetic, RunIndex_Array,
       RunDeref, RunParam, RunCall, RunRetrieve, RunIf, RunGoto, RunPass, RunReturn, Fixed

THEOREM BodySpecChecksExact == BodySpec => []ChecksExact
<1>1. InitBody => body \in Bodies
  BY DEF InitBody
<1>2. body \in Bodies /\ [NextInBody]_body_vars => (body \in Bodies)'
  BY BodyStep DEF body_vars
<1>3. body \in Bodies => ChecksExact
  <2> SUFFICES ASSUME body \in Bodies PROVE ChecksExact
    OBVIOUS
  <2>1. body.phrase \in Grammar
    BY BodiesAssumption
  <2>2. Checked(body.phrase, body.ret)
    BY <2>1, ChecksAreExact
  <2> QED BY <2>2 DEF ChecksExact, Checked
<1> QED BY <1>1, <1>2, <1>3, PTL DEF BodySpec

-----------------------------------------------------------------------------
\* What means something is built of what means something.
LEMMA SoundParts ==
  ASSUME NEW ret, NEW p \in Grammar, Meaning(p, ret) # "Wrong"
  PROVE  /\ Meaning(p, ret) = Denotes(p) /\ Allowed(p, PartMeanings(p, ret), ret)
         /\ Tree(p, ret) = NodeOver(p, ret, FALSE) /\ ~Tree(p, ret).reported
         /\ \A i \in DOMAIN p.kids : Meaning(p.kids[i], ret) # "Wrong"
<1>1. Checked(p, ret)
  BY ChecksAreExact
<1>2. ~Tree(p, ret).reported
  BY <1>1 DEF Checked
<1>3. \A i \in DOMAIN p.kids : PartMeanings(p, ret)[i] # "Wrong"
  <2>1. Denoted(p, PartMeanings(p, ret), ret) # "Wrong"
    BY MeaningStep DEF PartMeanings
  <2>2. DOMAIN PartMeanings(p, ret) = DOMAIN p.kids
    BY DEF PartMeanings
  <2> QED BY <2>1, <2>2 DEF Denoted
<1>4. \A i \in DOMAIN p.kids : Meaning(p.kids[i], ret) # "Wrong"
  BY <1>3 DEF PartMeanings
<1> QED BY <1>2, <1>4, TreesOverParts, MeaningIsDenoted DEF OverItsParts

NodeTypes == Results \cup {"Array", "Func", "Bool"}

\* The types of the operands of what means something.
LEMMA SoundTypes ==
  ASSUME NEW ret \in Results, NEW p \in Grammar, Meaning(p, ret) # "Wrong"
  PROVE  /\ Denotes(p) \in NodeTypes
         /\ NodeType(p, ret) \in NodeTypes
         /\ p.ntype \in Variables \cup Calls => p.sym \in Names
         /\ p.ntype = "ArraySubscript" =>
              type[p.sym] = "Array" /\ elt_type[p.sym] \in Numeric /\ Meaning(p.kids[1], ret) \in Numeric
         /\ p.ntype = "UnaryMinus" => Meaning(p.kids[1], ret) \in Numeric
         /\ p.ntype \in Arithmetic \cup Comparisons \cup {"Assg"} =>
              Meaning(p.kids[1], ret) \in Numeric /\ Meaning(p.kids[2], ret) \in Numeric
         /\ p.ntype \in Calls =>
              /\ type[p.sym] = "Func" /\ ret_type[p.sym] \in Results /\ Denotes(p) = ret_type[p.sym]
              /\ Len(p.kids) = Len(formals[p.sym])
              /\ \A i \in DOMAIN p.kids : Fits(p, i, Meaning(p.kids[i], ret))
         /\ p.ntype = "Return" =>
              IF ret = "None" THEN p.kids[1].ntype = "NULL"
              ELSE Meaning(p.kids[1], ret) \in Numeric
<1> DEFINE m == PartMeanings(p, ret)
<1>1. Allowed(p, m, ret)
  BY SoundParts
<1>2. \A i \in DOMAIN p.kids : m[i] = Meaning(p.kids[i], ret)
  BY DEF PartMeanings
<1>3. DOMAIN m = DOMAIN p.kids
  BY DEF PartMeanings
<1>4. p.ntype \in Variables \cup Calls => p.sym \in Names
  BY PhraseShape DEF NamesKnown
<1> HIDE DEF m
<1>5. ASSUME p.ntype = "ArraySubscript"
      PROVE  type[p.sym] = "Array" /\ elt_type[p.sym] \in Numeric /\ Meaning(p.kids[1], ret) \in Numeric
  <2>1. 1 \in DOMAIN p.kids
    BY <1>5, PartsOfPhrase, KidsOfPhrase
  <2>2. type[p.sym] = "Array" /\ m[1] \in Numeric
    BY <1>1, <1>5, AllowedCases
  <2>3. elt_type[p.sym] \in Numeric
    BY <1>4, <1>5, <2>2, TableEntry DEF Variables, Numeric
  <2> QED BY <2>1, <2>2, <2>3, <1>2
<1>6. ASSUME p.ntype = "UnaryMinus" PROVE Meaning(p.kids[1], ret) \in Numeric
  <2>1. 1 \in DOMAIN p.kids
    BY <1>6, PartsOfPhrase, KidsOfPhrase
  <2>2. \A i \in DOMAIN m : m[i] \in Numeric
    BY <1>1, <1>6, AllowedCases
  <2> QED BY <2>1, <2>2, <1>2, <1>3
<1>7. ASSUME p.ntype \in Arithmetic \cup Comparisons \cup {"Assg"}
      PROVE  Meaning(p.kids[1], ret) \in Numeric /\ Meaning(p.kids[2], ret) \in Numeric
  <2>1. 1 \in DOMAIN p.kids /\ 2 \in DOMAIN p.kids
    BY <1>7, PartsOfPhrase, KidsOfPhrase
  <2>2. \A i \in DOMAIN m : m[i] \in Numeric
    BY <1>1, <1>7, AllowedCases
  <2> QED BY <2>1, <2>2, <1>2, <1>3
<1>8. ASSUME p.ntype \in Calls
      PROVE  /\ type[p.sym] = "Func" /\ ret_type[p.sym] \in Results /\ Denotes(p) = ret_type[p.sym]
             /\ Len(p.kids) = Len(formals[p.sym])
             /\ \A i \in DOMAIN p.kids : Fits(p, i, Meaning(p.kids[i], ret))
  <2>1. \/ p.ntype = "FunCall" /\ FitsAll(p, m, Results) /\ Denotes(p) = ret_type[p.sym]
        \/ p.ntype = "ProcCall" /\ FitsAll(p, m, {"None"}) /\ Denotes(p) = "None"
    BY <1>1, <1>8, AllowedCases, DenotesCases DEF Calls, Statements
  <2> QED BY <2>1, <1>2 DEF FitsAll, Results
<1>9. ASSUME p.ntype = "Return"
      PROVE  IF ret = "None" THEN p.kids[1].ntype = "NULL" ELSE Meaning(p.kids[1], ret) \in Numeric
  <2>1. 1 \in DOMAIN p.kids
    BY <1>9, PartsOfPhrase, KidsOfPhrase
  <2> QED BY <2>1, <1>1, <1>2, <1>9, AllowedCases
<1>10. Denotes(p) \in NodeTypes
  <2>1. CASE p.ntype \in {"Intcon", "UnaryMinus"} \cup Arithmetic \/ p.ntype \in {"Charcon", "Stringcon"}
             \/ p.ntype \in Tests \/ p.ntype \in Statements
    BY <2>1, DenotesCases DEF NodeTypes, Results, Numeric
  <2>2. CASE p.ntype = "Var"
    BY <2>2, <1>4, DenotesCases, TableEntry DEF Variables, NodeTypes, Results, Numeric
  <2>3. CASE p.ntype = "ArraySubscript"
    <3>1. Denotes(p) = elt_type[p.sym]
      BY <2>3, DenotesCases
    <3> QED BY <3>1, <2>3, <1>5 DEF NodeTypes, Results
  <2>4. CASE p.ntype = "FunCall"
    BY <2>4, <1>8 DEF Calls, NodeTypes
  <2> QED BY <2>1, <2>2, <2>3, <2>4, PhraseShape DEF Expressions, Literals, Variables
<1>11. NodeType(p, ret) \in NodeTypes
  <2>1. CASE p.ntype = "Return" /\ ret # "None"
    <3>1. p.kids[1] \in Grammar /\ p.kids[1].ntype \in Expressions \cup {"NULL"}
      BY <2>1, PartsOfPhrase, KidsOfPhrase
    <3>2. Meaning(p.kids[1], ret) \in Numeric
      BY <2>1, <1>9
    <3>3. p.kids[1].ntype # "NULL"
      BY <3>1, <3>2, NullPhrase DEF Numeric
    <3>4. ExpressionTree(p.kids[1], ret)
      BY <3>1, <3>3, ExpressionTrees
    <3>5. Meaning(p.kids[1], ret) # "Wrong"
      BY <3>2 DEF Numeric
    <3>6. ~Tree(p.kids[1], ret).reported /\ Meaning(p.kids[1], ret) = Denotes(p.kids[1])
      BY <3>1, <3>5, SoundParts
    <3> QED BY <2>1, <3>2, <3>4, <3>6 DEF ExpressionTree, NodeType, NodeTypes, Results
  <2>2. CASE ~(p.ntype = "Return" /\ ret # "None")
    BY <2>2, <1>10 DEF NodeType
  <2> QED BY <2>1, <2>2
<1> QED BY <1>4, <1>5, <1>6, <1>7, <1>8, <1>9, <1>10, <1>11

\* The value of an operand is known where its type is.
LEMMA SoundOperand ==
  ASSUME NEW ret, NEW q \in Grammar, q.ntype \in Expressions \cup Tests, Meaning(q, ret) # "Wrong"
  PROVE  Tree(q, ret).etype = Meaning(q, ret) /\ Tree(q, ret).ntype = q.ntype
<1>1. ExpressionTree(q, ret) /\ ~Tree(q, ret).reported /\ Meaning(q, ret) = Denotes(q)
  BY ExpressionTrees, SoundParts
<1> QED BY <1>1 DEF ExpressionTree

-----------------------------------------------------------------------------
\* The levels of trees.
LEMMA NodesOverMonotone ==
  ASSUME NEW S, NEW U, S \subseteq U
  PROVE  NodesOver(S) \subseteq NodesOver(U)
<1>1. ASSUME NEW s \in Seq(S) PROVE s \in Seq(U)
  <2>1. Len(s) \in Nat /\ s \in [1 .. Len(s) -> S]
    OBVIOUS
  <2>2. s \in [1 .. Len(s) -> U]
    BY <2>1
  <2> QED BY <2>1, <2>2
<1> QED BY <1>1 DEF NodesOver

LEMMA NodeLevelsGrow ==
  \A n \in 0 .. MaxDepth + 1 : NodesTo[n] \subseteq NodesTo[n + 1]
<1> DEFINE T == {n \in Nat : n < MaxDepth + 2 => NodesTo[n] \subseteq NodesTo[n + 1]}
<1>1. 0 \in T
  BY LevelZero
<1>2. ASSUME NEW n \in Nat, n \in T PROVE n + 1 \in T
  <2> SUFFICES ASSUME n + 1 < MaxDepth + 2 PROVE NodesTo[n + 1] \subseteq NodesTo[(n + 1) + 1]
    OBVIOUS
  <2>1. n + 1 \in 0 .. MaxDepth + 2 /\ n + 1 # 0 /\ (n + 1) - 1 = n
        /\ (n + 1) + 1 \in 0 .. MaxDepth + 2 /\ (n + 1) + 1 # 0 /\ ((n + 1) + 1) - 1 = n + 1
    BY DepthIsNatural
  <2>2. NodesTo[n + 1] = NodesOver(NodesTo[n])
    BY <2>1, NodeLevels
  <2>3. NodesTo[(n + 1) + 1] = NodesOver(NodesTo[n + 1])
    BY <2>1, NodeLevels
  <2>4. NodesTo[n] \subseteq NodesTo[n + 1]
    BY <1>2, DepthIsNatural
  <2> QED BY <2>2, <2>3, <2>4, NodesOverMonotone
<1>3. \A n \in Nat : n \in T
  <2> HIDE DEF T
  <2> QED BY <1>1, <1>2, SetInduction
<1> SUFFICES ASSUME NEW n \in 0 .. MaxDepth + 1 PROVE NodesTo[n] \subseteq NodesTo[n + 1]
  OBVIOUS
<1>4. n \in Nat /\ n < MaxDepth + 2
  BY DepthIsNatural
<1> QED BY <1>3, <1>4

LEMMA NodeOfLevel ==
  ASSUME NEW n \in 1 .. MaxDepth + 2
  PROVE  NodesTo[n] = NodesOver(NodesTo[n - 1])
<1>1. n \in 0 .. MaxDepth + 2 /\ n # 0
  BY DepthIsNatural
<1> QED BY <1>1, NodeLevels

\* A phrase that means something has a tree no deeper than itself.
LEMMA TreesInNodes ==
  ASSUME NEW ret \in Results
  PROVE  \A n \in 0 .. MaxDepth : \A p \in PhrasesTo[n] :
           Meaning(p, ret) # "Wrong" => Tree(p, ret) \in NodesTo[n]
<1> DEFINE T == {n \in Nat : n <= MaxDepth =>
                   \A p \in PhrasesTo[n] : Meaning(p, ret) # "Wrong" => Tree(p, ret) \in NodesTo[n]}
<1>1. 0 \in T
  BY LevelZero
<1>2. ASSUME NEW n \in Nat, n \in T PROVE n + 1 \in T
  <2> SUFFICES ASSUME n + 1 <= MaxDepth, NEW p \in PhrasesTo[n + 1], Meaning(p, ret) # "Wrong"
               PROVE  Tree(p, ret) \in NodesTo[n + 1]
    OBVIOUS
  <2>1. n + 1 \in 1 .. MaxDepth /\ n + 1 \in 1 .. MaxDepth + 2 /\ (n + 1) - 1 = n /\ n <= MaxDepth
        /\ n + 1 \in 0 .. MaxDepth
    BY DepthIsNatural
  <2>2. p \in Grammar
    BY <2>1, PhrasesInGrammar
  <2>3. p.kids \in Seq(PhrasesTo[n])
    BY <2>1, PhraseOfLevel
  <2>4. \A i \in DOMAIN p.kids : Tree(p.kids[i], ret) \in NodesTo[n]
    <3> SUFFICES ASSUME NEW i \in DOMAIN p.kids PROVE Tree(p.kids[i], ret) \in NodesTo[n]
      OBVIOUS
    <3>1. p.kids[i] \in PhrasesTo[n]
      BY <2>3
    <3>2. Meaning(p.kids[i], ret) # "Wrong"
      BY <2>2, SoundParts
    <3> QED BY <1>2, <2>1, <3>1, <3>2
  <2>5. PartTrees(p, ret) \in Seq(NodesTo[n])
    <3>1. Len(p.kids) \in Nat /\ DOMAIN p.kids = 1 .. Len(p.kids)
      BY <2>2, KidsOfPhrase
    <3>2. PartTrees(p, ret) \in [1 .. Len(p.kids) -> NodesTo[n]]
      BY <2>4, <3>1 DEF PartTrees
    <3> QED BY <3>1, <3>2
  <2>6. Tree(p, ret) = NodeOver(p, ret, FALSE) /\ ~Tree(p, ret).reported
    BY <2>2, SoundParts
  <2>7. /\ Kind(p) \in Expressions \cup Tests \cup Statements
        /\ NodeType(p, ret) \in Results \cup {"Array", "Func", "Bool"}
        /\ Named(p) \in Names \cup {""} /\ Valued(p) \in Int
    <3>1. p.ntype \in Expressions \cup Tests \cup Statements /\ p.val \in Int
          /\ p.sym \in Names \cup {""}
      BY <2>2, PhraseShape
    <3>2. Kind(p) \in Expressions \cup Tests \cup Statements
      BY <3>1 DEF Kind, Expressions, Statements
    <3>3. NodeType(p, ret) \in Results \cup {"Array", "Func", "Bool"}
      BY <2>2, SoundTypes DEF NodeTypes
    <3>4. Named(p) \in Names \cup {""}
      BY <3>1 DEF Named
    <3>5. Valued(p) \in Int
      <4>1. CASE p.ntype \in Literals
        BY <3>1, <4>1 DEF Valued
      <4>2. CASE p.ntype \notin Literals
        <5>1. Valued(p) = 0
          BY <4>2 DEF Valued
        <5> QED BY <5>1
      <4> QED BY <4>1, <4>2
    <3> QED BY <3>2, <3>3, <3>4, <3>5
  <2>8. Tree(p, ret).reported = FALSE
    BY <2>2, <2>6, TreesOverParts DEF OverItsParts
  <2>9. Tree(p, ret) \in NodesOver(NodesTo[n])
    <3> DEFINE k == PartTrees(p, ret)
               d == Kind(p)
               e == NodeType(p, ret)
               y == Named(p)
               v == Valued(p)
    <3>1. Tree(p, ret) = Node(d, e, y, v, k, FALSE)
      BY <2>6 DEF NodeOver
    <3>2. d \in Expressions \cup Tests \cup Statements /\ e \in Results \cup {"Array", "Func", "Bool"}
          /\ y \in Names \cup {""} /\ v \in Int /\ k \in Seq(NodesTo[n])
      BY <2>5, <2>7
    <3> HIDE DEF k, d, e, y, v
    <3>3. Tree(p, ret) = [ntype |-> d, etype |-> e, sym |-> y, val |-> v, kids |-> k,
                          reported |-> Tree(p, ret).reported]
      BY <3>1 DEF Node
    <3>4. Tree(p, ret) = [ntype |-> d, etype |-> e, sym |-> y, val |-> v, kids |-> k,
                          reported |-> FALSE]
      BY <3>3, <2>8
    <3>5. [ntype |-> d, etype |-> e, sym |-> y, val |-> v, kids |-> k, reported |-> FALSE]
            \in NodesOver(NodesTo[n])
      BY <3>2, Zenon DEF NodesOver
    <3> QED BY <3>4, <3>5
  <2> QED BY <2>1, <2>9, NodeOfLevel
<1>3. \A n \in Nat : n \in T
  <2> HIDE DEF T
  <2> QED BY <1>1, <1>2, SetInduction
<1> QED BY <1>3, DepthIsNatural

-----------------------------------------------------------------------------
\* The code of each level.
LEMMA GeneratorLevels ==
  ASSUME NEW ret
  PROVE  Generators(ret) =
           [n \in 0 .. MaxDepth + 2 |->
             IF n = 0 THEN <<>>
             ELSE [x \in RequestsTo(n) |-> CodeFor(Generators(ret)[n - 1], ret, x)]]
<1> DEFINE Level(f, m) ==
             IF m = 0 THEN <<>> ELSE [x \in RequestsTo(m) |-> CodeFor(f[m - 1], ret, x)]
           IsLevels(f, n) == f = [m \in 0 .. n |-> Level(f, m)]
           T == {n \in Nat : \E f : IsLevels(f, n)}
<1>1. 0 \in T
  <2> DEFINE f == [m \in 0 .. 0 |-> <<>>]
  <2>1. \A m \in 0 .. 0 : m = 0
    OBVIOUS
  <2>2. IsLevels(f, 0)
    BY <2>1
  <2> HIDE DEF IsLevels, f
  <2> QED BY <2>2
<1>2. ASSUME NEW n \in Nat, n \in T PROVE n + 1 \in T
  <2>1. PICK f : IsLevels(f, n)
    BY <1>2
  <2> DEFINE g == [m \in 0 .. n + 1 |-> Level(f, m)]
  <2>2. ASSUME NEW m \in 0 .. n PROVE g[m] = f[m]
    <3>1. f[m] = Level(f, m)
      BY <2>1
    <3>2. m \in 0 .. n + 1
      OBVIOUS
    <3> HIDE DEF Level
    <3> QED BY <3>1, <3>2
  <2>3. ASSUME NEW m \in 0 .. n + 1 PROVE Level(f, m) = Level(g, m)
    <3>1. CASE m = 0
      BY <3>1
    <3>2. CASE m # 0
      <4>1. m - 1 \in 0 .. n
        BY <3>2
      <4>2. g[m - 1] = f[m - 1]
        BY <2>2, <4>1
      <4> HIDE DEF g
      <4> QED BY <4>2
    <3> QED BY <3>1, <3>2
  <2>4. IsLevels(g, n + 1)
    <3> HIDE DEF Level
    <3> QED BY <2>3
  <2> HIDE DEF g, IsLevels
  <2> QED BY <2>4
<1>3. \A n \in Nat : n \in T
  <2> HIDE DEF T
  <2> QED BY <1>1, <1>2, SetInduction
<1>4. MaxDepth + 2 \in Nat
  BY DepthIsNatural
<1>5. \E f : IsLevels(f, MaxDepth + 2)
  BY <1>3, <1>4
<1> QED BY <1>5 DEF Generators

LEMMA GeneratorStep ==
  ASSUME NEW ret, NEW n \in 1 .. MaxDepth + 2, NEW x \in RequestsTo(n)
  PROVE  Generators(ret)[n][x] = CodeFor(Generators(ret)[n - 1], ret, x)
<1>1. n \in 0 .. MaxDepth + 2 /\ n # 0
  BY DepthIsNatural
<1> DEFINE G == Generators(ret)
<1>2. G = [m \in 0 .. MaxDepth + 2 |->
             IF m = 0 THEN <<>> ELSE [y \in RequestsTo(m) |-> CodeFor(G[m - 1], ret, y)]]
  BY GeneratorLevels
<1> HIDE DEF G
<1>3. G[n] = [y \in RequestsTo(n) |-> CodeFor(G[n - 1], ret, y)]
  BY <1>1, <1>2
<1>4. G[n][x] = CodeFor(G[n - 1], ret, x)
  BY <1>3
<1> QED BY <1>4 DEF G

-----------------------------------------------------------------------------
\* Operands, code and results.  A jump lands at a label of the code, or leaves
\* it for one of the labels in out.
Sane(o) == is_temporary(o) => o[2] \in Nat
IsCode(c) == c \in Seq({c[i] : i \in DOMAIN c})
IsInstruction(x) == x = Instruction(x.op, x.src1, x.src2, x.dest, x.it, x.label)
LabelsIn(c) == {c[i].label : i \in {j \in DOMAIN c : c[j].op = "Label"}}
Lands(c, out) ==
  \A i \in DOMAIN c : /\ IsInstruction(c[i])
                      /\ c[i].op \in {"Goto", "If"} => c[i].label \in out \cup LabelsIn(c)

Good(r, out) ==
  /\ r = Result(r.code, r.pool, r.place, r.loc, r.ok)
  /\ r.ok
  /\ r.pool \in Pools /\ Sane(r.place) /\ Sane(r.loc) /\ IsCode(r.code) /\ Lands(r.code, out)

LEMMA SaneOperands ==
  /\ Sane(None)
  /\ \A id : Sane(Var(id))
  /\ \A t, v : Sane(constant(t, v))
  /\ \A v : Sane(<<"string", v>>) /\ <<"string", v>> # None /\ \A t : constant(t, v) # None
  /\ \A id \in Names : Var(id) # None
<1>1. Sane(None)
  BY DEF Sane, is_temporary, temporaries, None
<1>2. ASSUME NEW id PROVE Sane(Var(id))
  BY DEF Sane, Var
<1>3. ASSUME NEW t, NEW v PROVE Sane(constant(t, v)) /\ constant(t, v) # None
  BY DEF Sane, is_temporary, temporaries, constant, None
<1>4. ASSUME NEW v PROVE Sane(<<"string", v>>) /\ <<"string", v>> # None
  BY DEF Sane, is_temporary, temporaries, None
<1>5. ASSUME NEW id \in Names PROVE Var(id) # None
  <2>1. id # ""
    BY TableAssumption, Zenon
  <2> QED BY <2>1 DEF Var, None
<1> QED BY <1>1, <1>2, <1>3, <1>4, <1>5

LEMMA TemporaryOfPool ==
  ASSUME NEW pool \in Pools, NEW t \in {"Int", "Char", "Addr"}
  PROVE  LET new == create_temporary(pool, t)
         IN  new.pool \in Pools /\ Sane(new.place) /\ new.place # None
<1>1. pool.count \in Nat /\ pool.free[t] \in Seq(Nat)
  BY DEF Pools
<1>2. ASSUME NEW i \in Nat PROVE Sane(temporary(t, i)) /\ temporary(t, i) # None
  BY DEF Sane, temporary, None
<1>3. CASE pool.free[t] # <<>>
  <2>1. Head(pool.free[t]) \in Nat /\ Tail(pool.free[t]) \in Seq(Nat)
    BY <1>1, <1>3
  <2>2. [pool EXCEPT !.free[t] = Tail(pool.free[t])] \in Pools
    BY <2>1 DEF Pools
  <2> QED BY <1>2, <1>3, <2>1, <2>2 DEF create_temporary
<1>4. CASE pool.free[t] = <<>>
  <2>1. pool.count + 1 \in Nat
    BY <1>1
  <2>2. pool.free \in [{"Int", "Char", "Addr"} -> Seq(Nat)]
    BY DEF Pools
  <2>3. [pool EXCEPT !.count = pool.count + 1] = [count |-> pool.count + 1, free |-> pool.free]
    <3>1. pool = [count |-> pool.count, free |-> pool.free]
      BY DEF Pools
    <3> DEFINE n == pool.count + 1
    <3> HIDE DEF n
    <3>2. [pool EXCEPT !.count = n] = [count |-> n, free |-> pool.free]
      BY <3>1
    <3> QED BY <3>2 DEF n
  <2>4. [pool EXCEPT !.count = pool.count + 1] \in Pools
    BY <2>1, <2>2, <2>3, Zenon DEF Pools
  <2> QED BY <1>1, <1>2, <1>4, <2>4 DEF create_temporary
<1> QED BY <1>3, <1>4

LEMMA FreedToPool ==
  ASSUME NEW pool \in Pools, NEW o, Sane(o)
  PROVE  free_temporary(pool, o) \in Pools
<1> DEFINE t == IF o[1] = "Int temporary" THEN "Int" ELSE IF o[1] = "Char temporary" THEN "Char" ELSE "Addr"
<1>1. CASE ~is_temporary(o)
  BY <1>1 DEF free_temporary
<1>2. CASE is_temporary(o)
  <2>1. o[2] \in Nat
    BY <1>2 DEF Sane
  <2>2. t \in {"Int", "Char", "Addr"}
    OBVIOUS
  <2> HIDE DEF t
  <2>3. pool.free[t] \in Seq(Nat)
    BY <2>2 DEF Pools
  <2>4. <<o[2]>> \o pool.free[t] \in Seq(Nat)
    BY <2>1, <2>3
  <2>5. [pool EXCEPT !.free[t] = <<o[2]>> \o pool.free[t]] \in Pools
    BY <2>2, <2>4 DEF Pools
  <2> QED BY <1>2, <2>5 DEF free_temporary, t
<1> QED BY <1>1, <1>2

LEMMA EmptyPool == NoTemporaries \in Pools
BY DEF NoTemporaries, Pools

\* Code is a sequence.
LEMMA CodeLength ==
  ASSUME NEW c
  PROVE  IsCode(c) <=> Len(c) \in Nat /\ c = [i \in 1 .. Len(c) |-> c[i]]
<1>1. ASSUME IsCode(c) PROVE Len(c) \in Nat /\ c = [i \in 1 .. Len(c) |-> c[i]]
  BY <1>1 DEF IsCode
<1>2. ASSUME Len(c) \in Nat, c = [i \in 1 .. Len(c) |-> c[i]] PROVE IsCode(c)
  <2>1. DOMAIN c = 1 .. Len(c)
    BY <1>2
  <2>2. c \in [1 .. Len(c) -> {c[i] : i \in DOMAIN c}]
    BY <1>2, <2>1
  <2> QED BY <1>2, <2>2 DEF IsCode
<1> QED BY <1>1, <1>2

LEMMA SequenceIsCode ==
  ASSUME NEW S, NEW c \in Seq(S)
  PROVE  IsCode(c)
<1>1. Len(c) \in Nat /\ c = [i \in 1 .. Len(c) |-> c[i]]
  OBVIOUS
<1> QED BY <1>1, CodeLength

LEMMA CodeParts ==
  /\ IsCode(<<>>)
  /\ \A x : IsCode(<<x>>)
  /\ \A x, y : IsCode(<<x, y>>)
  /\ \A c, d : IsCode(c) /\ IsCode(d) => IsCode(c \o d)
  /\ \A c, x : IsCode(c) => IsCode(Append(c, x))
<1>1. IsCode(<<>>)
  BY DEF IsCode
<1>2. ASSUME NEW x PROVE IsCode(<<x>>)
  BY DEF IsCode
<1>3. ASSUME NEW x, NEW y PROVE IsCode(<<x, y>>)
  BY DEF IsCode
<1>4. ASSUME NEW c, NEW d, IsCode(c), IsCode(d) PROVE IsCode(c \o d)
  <2> DEFINE S == {c[i] : i \in DOMAIN c} \cup {d[i] : i \in DOMAIN d}
  <2>1. c \in Seq(S)
    <3>1. c \in [1 .. Len(c) -> S] /\ Len(c) \in Nat
      BY <1>4, CodeLength
    <3> HIDE DEF S
    <3> QED BY <3>1
  <2>2. d \in Seq(S)
    <3>1. d \in [1 .. Len(d) -> S] /\ Len(d) \in Nat
      BY <1>4, CodeLength
    <3> HIDE DEF S
    <3> QED BY <3>1
  <2> HIDE DEF S
  <2>3. c \o d \in Seq(S)
    BY <2>1, <2>2
  <2> QED BY <2>3, SequenceIsCode
<1>5. ASSUME NEW c, NEW x, IsCode(c) PROVE IsCode(Append(c, x))
  <2> DEFINE S == {c[i] : i \in DOMAIN c} \cup {x}
  <2>1. c \in Seq(S)
    <3>1. c \in [1 .. Len(c) -> S] /\ Len(c) \in Nat
      BY <1>5, CodeLength
    <3> HIDE DEF S
    <3> QED BY <3>1
  <2>2. x \in S
    OBVIOUS
  <2> HIDE DEF S
  <2>3. Append(c, x) \in Seq(S)
    BY <2>1, <2>2
  <2> QED BY <2>3, SequenceIsCode
<1> QED BY <1>1, <1>2, <1>3, <1>4, <1>5

\* The instructions of code put together.
LEMMA BothParts ==
  ASSUME NEW c, NEW d, IsCode(c), IsCode(d)
  PROVE  /\ Len(c) \in Nat /\ DOMAIN c = 1 .. Len(c) /\ Len(d) \in Nat /\ DOMAIN d = 1 .. Len(d)
         /\ Len(c \o d) = Len(c) + Len(d) /\ DOMAIN (c \o d) = 1 .. Len(c) + Len(d)
         /\ \A i \in 1 .. Len(c) : (c \o d)[i] = c[i]
         /\ \A i \in 1 .. Len(d) : (c \o d)[Len(c) + i] = d[i]
<1> DEFINE S == {c[i] : i \in DOMAIN c} \cup {d[i] : i \in DOMAIN d}
<1>1. c \in [1 .. Len(c) -> S] /\ Len(c) \in Nat
  BY CodeLength
<1>2. d \in [1 .. Len(d) -> S] /\ Len(d) \in Nat
  BY CodeLength
<1> HIDE DEF S
<1>3. c \in Seq(S)
  BY <1>1
<1>4. d \in Seq(S)
  BY <1>2
<1> QED BY <1>3, <1>4

LEMMA AppendIsBoth ==
  ASSUME NEW c, NEW x, IsCode(c)
  PROVE  Append(c, x) = c \o <<x>>
<1> DEFINE S == {c[i] : i \in DOMAIN c} \cup {x}
<1>1. c \in [1 .. Len(c) -> S] /\ Len(c) \in Nat
  BY CodeLength
<1>2. x \in S
  OBVIOUS
<1> HIDE DEF S
<1>3. c \in Seq(S)
  BY <1>1
<1> QED BY <1>2, <1>3

LEMMA LabelsTogether ==
  ASSUME NEW c, NEW d, IsCode(c), IsCode(d)
  PROVE  LabelsIn(c) \subseteq LabelsIn(c \o d) /\ LabelsIn(d) \subseteq LabelsIn(c \o d)
<1>1. /\ Len(c) \in Nat /\ DOMAIN c = 1 .. Len(c) /\ Len(d) \in Nat /\ DOMAIN d = 1 .. Len(d)
      /\ Len(c \o d) = Len(c) + Len(d) /\ DOMAIN (c \o d) = 1 .. Len(c) + Len(d)
      /\ \A i \in 1 .. Len(c) : (c \o d)[i] = c[i]
      /\ \A i \in 1 .. Len(d) : (c \o d)[Len(c) + i] = d[i]
  BY BothParts
<1>2. ASSUME NEW i \in DOMAIN c, c[i].op = "Label" PROVE c[i].label \in LabelsIn(c \o d)
  <2>1. i \in DOMAIN (c \o d) /\ (c \o d)[i] = c[i]
    BY <1>1
  <2> QED BY <1>2, <2>1 DEF LabelsIn
<1>3. ASSUME NEW i \in DOMAIN d, d[i].op = "Label" PROVE d[i].label \in LabelsIn(c \o d)
  <2>1. Len(c) + i \in DOMAIN (c \o d) /\ (c \o d)[Len(c) + i] = d[i]
    BY <1>1
  <2> QED BY <1>3, <2>1 DEF LabelsIn
<1> QED BY <1>2, <1>3 DEF LabelsIn

LEMMA LandsTogether ==
  ASSUME NEW c, NEW d, IsCode(c), IsCode(d), NEW out,
         Lands(c, out \cup LabelsIn(d)), Lands(d, out \cup LabelsIn(c))
  PROVE  Lands(c \o d, out)
<1>1. /\ Len(c) \in Nat /\ DOMAIN c = 1 .. Len(c) /\ Len(d) \in Nat /\ DOMAIN d = 1 .. Len(d)
      /\ Len(c \o d) = Len(c) + Len(d) /\ DOMAIN (c \o d) = 1 .. Len(c) + Len(d)
      /\ \A i \in 1 .. Len(c) : (c \o d)[i] = c[i]
      /\ \A i \in 1 .. Len(d) : (c \o d)[Len(c) + i] = d[i]
  BY BothParts
<1>2. LabelsIn(c) \subseteq LabelsIn(c \o d) /\ LabelsIn(d) \subseteq LabelsIn(c \o d)
  BY LabelsTogether
<1> SUFFICES ASSUME NEW i \in DOMAIN (c \o d)
             PROVE  /\ IsInstruction((c \o d)[i])
                    /\ (c \o d)[i].op \in {"Goto", "If"} => (c \o d)[i].label \in out \cup LabelsIn(c \o d)
  BY DEF Lands
<1>3. CASE i <= Len(c)
  <2>1. i \in DOMAIN c /\ (c \o d)[i] = c[i]
    BY <1>1, <1>3
  <2> QED BY <1>2, <2>1 DEF Lands
<1>4. CASE i > Len(c)
  <2>1. i - Len(c) \in 1 .. Len(d) /\ Len(c) + (i - Len(c)) = i
    BY <1>1, <1>4
  <2>2. i - Len(c) \in DOMAIN d /\ (c \o d)[i] = d[i - Len(c)]
    BY <1>1, <2>1
  <2> QED BY <1>2, <2>2 DEF Lands
<1> QED BY <1>1, <1>3, <1>4

LEMMA LandsMore ==
  ASSUME NEW c, NEW out, NEW more, Lands(c, out), out \subseteq more \cup LabelsIn(c)
  PROVE  Lands(c, more)
BY DEF Lands

LEMMA InstructionFields ==
  ASSUME NEW op, NEW src1, NEW src2, NEW dest, NEW it, NEW label
  PROVE  /\ IsInstruction(Instruction(op, src1, src2, dest, it, label))
         /\ Instruction(op, src1, src2, dest, it, label).op = op
         /\ Instruction(op, src1, src2, dest, it, label).label = label
BY DEF IsInstruction, Instruction

LEMMA JumpFields ==
  ASSUME NEW label
  PROVE  LET x == create_jump_instruction(label)
             y == LabelInstruction(label)
         IN  /\ IsInstruction(x) /\ x.op = "Goto" /\ x.label = label
             /\ IsInstruction(y) /\ y.op = "Label" /\ y.label = label
BY DEF create_jump_instruction, LabelInstruction, Instruction, IsInstruction

LEMMA OneInstruction ==
  ASSUME NEW x, IsInstruction(x), NEW out, x.op \in {"Goto", "If"} => x.label \in out
  PROVE  IsCode(<<x>>) /\ Lands(<<x>>, out) /\ (x.op = "Label" => x.label \in LabelsIn(<<x>>))
<1>1. DOMAIN <<x>> = 1 .. 1 /\ <<x>>[1] = x
  OBVIOUS
<1>2. \A i \in 1 .. 1 : i = 1
  OBVIOUS
<1>3. Lands(<<x>>, out)
  BY <1>1, <1>2 DEF Lands
<1>4. x.op = "Label" => x.label \in LabelsIn(<<x>>)
  <2>1. 1 \in DOMAIN <<x>>
    OBVIOUS
  <2> QED BY <1>1, <2>1 DEF LabelsIn
<1> QED BY <1>3, <1>4, CodeParts

\* An instruction that is not a jump.
NotJump(x) == IsInstruction(x) /\ x.op \notin {"Goto", "If"}

LEMMA PlainInstructions ==
  /\ \A op, src1, src2, dest, it, label :
       op \notin {"Goto", "If"} => NotJump(Instruction(op, src1, src2, dest, it, label))
  /\ \A op, src1, src2, dest :
       op \notin {"Goto", "If"} => NotJump(create_instruction(op, src1, src2, dest))
  /\ \A label : NotJump(LabelInstruction(label))
<1>1. ASSUME NEW op, NEW src1, NEW src2, NEW dest, NEW it, NEW label, op \notin {"Goto", "If"}
      PROVE  NotJump(Instruction(op, src1, src2, dest, it, label))
  <2> DEFINE x == Instruction(op, src1, src2, dest, it, label)
  <2>1. IsInstruction(x) /\ x.op = op
    BY InstructionFields
  <2> HIDE DEF x
  <2>2. NotJump(x)
    BY <1>1, <2>1 DEF NotJump
  <2> QED BY <2>2 DEF x
<1>2. \A label : NotJump(LabelInstruction(label))
  BY <1>1 DEF LabelInstruction
<1> QED BY <1>1, <1>2 DEF create_instruction

LEMMA PlainAppended ==
  ASSUME NEW c, IsCode(c), NEW out, Lands(c, out), NEW x, NotJump(x)
  PROVE  IsCode(Append(c, x)) /\ Lands(Append(c, x), out)
<1>1. IsCode(<<x>>) /\ Lands(<<x>>, out \cup LabelsIn(c))
  BY OneInstruction DEF NotJump
<1>2. Lands(c, out \cup LabelsIn(<<x>>))
  BY LandsMore
<1>3. Lands(c \o <<x>>, out)
  BY <1>1, <1>2, LandsTogether
<1> QED BY <1>3, AppendIsBoth, CodeParts

LEMMA NoInstruction == \A out : IsCode(<<>>) /\ Lands(<<>>, out)
BY CodeParts DEF Lands

\* Results made of results.
LEMMA GoodResult ==
  ASSUME NEW code1, NEW pool \in Pools, NEW place, NEW loc, NEW out,
         IsCode(code1), Lands(code1, out), Sane(place), Sane(loc)
  PROVE  Good(Result(code1, pool, place, loc, TRUE), out)
BY DEF Good, Result

LEMMA GoodStart ==
  ASSUME NEW pool \in Pools, NEW out
  PROVE  Good(Start(pool), out)
<1>1. Start(pool) = Result(<<>>, pool, None, None, TRUE)
  BY DEF Start
<1> QED BY <1>1, NoInstruction, SaneOperands, GoodResult

LEMMA GoodMore ==
  ASSUME NEW r, NEW out, NEW more, Good(r, out), out \subseteq more \cup LabelsIn(r.code)
  PROVE  Good(r, more)
BY LandsMore DEF Good

LEMMA GoodThen ==
  ASSUME NEW before, NEW next, NEW out, Good(before, out), Good(next, out)
  PROVE  /\ Good(Then(before, next), out)
         /\ Then(before, next).place = next.place /\ Then(before, next).loc = next.loc
         /\ Then(before, next).pool = next.pool /\ Then(before, next).code = before.code \o next.code
         /\ LabelsIn(before.code) \subseteq LabelsIn(Then(before, next).code)
<1>1. before.ok /\ next.ok /\ IsCode(before.code) /\ IsCode(next.code)
      /\ Lands(before.code, out) /\ Lands(next.code, out)
  BY DEF Good
<1>2. next.pool \in Pools /\ Sane(next.place) /\ Sane(next.loc)
  BY DEF Good
<1>3. IsCode(before.code \o next.code)
  BY <1>1, CodeParts
<1>4. Lands(before.code \o next.code, out)
  <2>1. Lands(before.code, out \cup LabelsIn(next.code))
    BY <1>1, LandsMore
  <2>2. Lands(next.code, out \cup LabelsIn(before.code))
    BY <1>1, LandsMore
  <2> QED BY <1>1, <2>1, <2>2, LandsTogether
<1>5. (before.ok /\ next.ok) = TRUE
  BY <1>1
<1>6. Then(before, next) = Result(before.code \o next.code, next.pool, next.place, next.loc, TRUE)
  BY <1>5 DEF Then
<1>7. Good(Then(before, next), out)
  BY <1>2, <1>3, <1>4, <1>6, GoodResult
<1>8. LabelsIn(before.code) \subseteq LabelsIn(before.code \o next.code)
  BY <1>1, LabelsTogether
<1>9. /\ Then(before, next).place = next.place /\ Then(before, next).loc = next.loc
      /\ Then(before, next).pool = next.pool /\ Then(before, next).code = before.code \o next.code
  BY DEF Then, Result
<1> QED BY <1>7, <1>8, <1>9

LEMMA GoodEmit ==
  ASSUME NEW before, NEW instructions, NEW out, IsCode(instructions),
         Good(before, out \cup LabelsIn(instructions)),
         Lands(instructions, out \cup LabelsIn(before.code))
  PROVE  /\ Good(Emit(before, instructions), out) /\ Emit(before, instructions).pool = before.pool
         /\ Emit(before, instructions).code = before.code \o instructions
         /\ LabelsIn(before.code) \subseteq LabelsIn(Emit(before, instructions).code)
         /\ LabelsIn(instructions) \subseteq LabelsIn(Emit(before, instructions).code)
<1>1. before.pool \in Pools /\ IsCode(before.code) /\ before.ok
      /\ Lands(before.code, out \cup LabelsIn(instructions))
  BY DEF Good
<1>2. IsCode(before.code \o instructions) /\ Lands(before.code \o instructions, out)
  BY <1>1, CodeParts, LandsTogether
<1>3. before.ok = TRUE
  <2>1. before = Result(before.code, before.pool, before.place, before.loc, before.ok)
    BY DEF Good
  <2> QED BY <1>1
<1>4. Emit(before, instructions) = Result(before.code \o instructions, before.pool, None, None, TRUE)
  BY <1>3 DEF Emit
<1>5. Good(Emit(before, instructions), out)
  BY <1>1, <1>2, <1>4, GoodResult, SaneOperands
<1>6. /\ LabelsIn(before.code) \subseteq LabelsIn(before.code \o instructions)
      /\ LabelsIn(instructions) \subseteq LabelsIn(before.code \o instructions)
  BY <1>1, LabelsTogether
<1>7. Emit(before, instructions).pool = before.pool
      /\ Emit(before, instructions).code = before.code \o instructions
  BY DEF Emit, Result
<1> QED BY <1>5, <1>6, <1>7

\* A label that is emitted is no longer outside.
LEMMA GoodLabel ==
  ASSUME NEW before, NEW label, NEW out, Good(before, out \cup {label})
  PROVE  LET r == Emit(before, <<LabelInstruction(label)>>)
         IN  Good(r, out) /\ LabelsIn(before.code) \subseteq LabelsIn(r.code)
<1> DEFINE x == LabelInstruction(label)
<1>1. IsInstruction(x) /\ x.op = "Label" /\ x.label = label
  BY JumpFields
<1> HIDE DEF x
<1>2. IsCode(<<x>>) /\ Lands(<<x>>, out \cup LabelsIn(before.code)) /\ label \in LabelsIn(<<x>>)
  BY <1>1, OneInstruction
<1>3. Good(before, out \cup LabelsIn(<<x>>))
  BY <1>2, GoodMore
<1>4. Good(Emit(before, <<x>>), out) /\ LabelsIn(before.code) \subseteq LabelsIn(Emit(before, <<x>>).code)
  BY <1>2, <1>3, GoodEmit
<1> QED BY <1>4 DEF x

LEMMA GoodJump ==
  ASSUME NEW before, NEW label, NEW out, Good(before, out), label \in out
  PROVE  LET r == Emit(before, <<create_jump_instruction(label)>>)
         IN  Good(r, out) /\ LabelsIn(before.code) \subseteq LabelsIn(r.code)
<1> DEFINE x == create_jump_instruction(label)
<1>1. IsInstruction(x) /\ x.op = "Goto" /\ x.label = label
  BY JumpFields
<1> HIDE DEF x
<1>2. IsCode(<<x>>) /\ Lands(<<x>>, out \cup LabelsIn(before.code))
  BY <1>1, OneInstruction
<1>3. Good(before, out \cup LabelsIn(<<x>>))
  BY GoodMore
<1>4. Good(Emit(before, <<x>>), out) /\ LabelsIn(before.code) \subseteq LabelsIn(Emit(before, <<x>>).code)
  BY <1>2, <1>3, GoodEmit
<1> QED BY <1>4 DEF x

LEMMA TwoInstructions ==
  ASSUME NEW x, IsInstruction(x), NEW y, IsInstruction(y), NEW out,
         x.op \in {"Goto", "If"} => x.label \in out, y.op \in {"Goto", "If"} => y.label \in out
  PROVE  /\ IsCode(<<x, y>>) /\ Lands(<<x, y>>, out)
         /\ y.op = "Label" => y.label \in LabelsIn(<<x, y>>)
<1>1. DOMAIN <<x, y>> = 1 .. 2 /\ <<x, y>>[1] = x /\ <<x, y>>[2] = y
  OBVIOUS
<1>2. \A i \in 1 .. 2 : i = 1 \/ i = 2
  OBVIOUS
<1>3. Lands(<<x, y>>, out)
  BY <1>1, <1>2 DEF Lands
<1>4. y.op = "Label" => y.label \in LabelsIn(<<x, y>>)
  <2>1. 2 \in DOMAIN <<x, y>>
    OBVIOUS
  <2> QED BY <1>1, <2>1 DEF LabelsIn
<1> QED BY <1>3, <1>4, CodeParts

LEMMA GoodJumpAndLabel ==
  ASSUME NEW before, NEW away, NEW label, NEW out, Good(before, out \cup {label}), away \in out
  PROVE  LET r == Emit(before, <<create_jump_instruction(away), LabelInstruction(label)>>)
         IN  Good(r, out) /\ LabelsIn(before.code) \subseteq LabelsIn(r.code) /\ label \in LabelsIn(r.code)
<1> DEFINE x == create_jump_instruction(away)
           y == LabelInstruction(label)
           z == <<x, y>>
<1>1. IsInstruction(x) /\ x.op = "Goto" /\ x.label = away
      /\ IsInstruction(y) /\ y.op = "Label" /\ y.label = label
  BY JumpFields
<1> HIDE DEF x, y
<1>2. IsCode(z) /\ Lands(z, out \cup LabelsIn(before.code)) /\ label \in LabelsIn(z)
  BY <1>1, TwoInstructions
<1> HIDE DEF z
<1>3. Good(before, out \cup LabelsIn(z))
  BY <1>2, GoodMore
<1>4. /\ Good(Emit(before, z), out) /\ LabelsIn(before.code) \subseteq LabelsIn(Emit(before, z).code)
      /\ LabelsIn(z) \subseteq LabelsIn(Emit(before, z).code)
  BY <1>2, <1>3, GoodEmit
<1> QED BY <1>2, <1>4 DEF x, y, z

LEMMA GoodDelivered ==
  ASSUME NEW before, NEW out, Good(before, out), NEW t \in {"Int", "Char"}, NEW op, NEW src1, NEW src2, NEW it,
         Sane(src1), Sane(src2), op \notin {"Goto", "If"}
  PROVE  /\ Good(Delivered(before, TRUE, t, op, src1, src2, it), out)
         /\ Delivered(before, TRUE, t, op, src1, src2, it).place # None
<1> DEFINE new == create_temporary(before.pool, t)
           pool == free_temporary(free_temporary(new.pool, src1), src2)
           x == Instruction(op, src1, src2, new.place, it, <<>>)
           code1 == Append(before.code, x)
<1>1. before.pool \in Pools /\ IsCode(before.code) /\ before.ok /\ Lands(before.code, out)
  BY DEF Good
<1>2. new.pool \in Pools /\ Sane(new.place) /\ new.place # None
  BY <1>1, TemporaryOfPool
<1>3. pool \in Pools
  <2> HIDE DEF new
  <2> QED BY <1>2, FreedToPool
<1>4. IsCode(code1) /\ Lands(code1, out)
  <2>1. NotJump(x)
    BY PlainInstructions
  <2> HIDE DEF x
  <2> QED BY <1>1, <2>1, PlainAppended
<1>5. (before.ok /\ TRUE) = TRUE
  BY <1>1
<1>6. Delivered(before, TRUE, t, op, src1, src2, it) = Result(code1, pool, new.place, None, before.ok /\ TRUE)
  BY DEF Delivered
<1> HIDE DEF new, pool, code1
<1>7. Delivered(before, TRUE, t, op, src1, src2, it) = Result(code1, pool, new.place, None, TRUE)
  BY <1>5, <1>6
<1>8. Result(code1, pool, new.place, None, TRUE).place = new.place
  BY DEF Result
<1> QED BY <1>2, <1>3, <1>4, <1>7, <1>8, GoodResult, SaneOperands

-----------------------------------------------------------------------------
\* Parts in order.
OrderStep(gen, nodes, lr, path, before, i) ==
  LET r == generate_function_code(gen, nodes[i], lr[i], Append(path, i), before.all.pool)
  IN  [all |-> Then(before.all, r), each |-> Append(before.each, r)]

IsOrder(f, n, gen, nodes, lr, path, pool) ==
  f = [i \in 0 .. n |-> IF i = 0 THEN [all |-> Start(pool), each |-> <<>>]
                        ELSE OrderStep(gen, nodes, lr, path, f[i - 1], i)]

LEMMA OrderDefined ==
  ASSUME NEW gen, NEW nodes, Len(nodes) \in Nat, NEW lr, NEW path, NEW pool
  PROVE  \E f : /\ IsOrder(f, Len(nodes), gen, nodes, lr, path, pool)
                /\ InOrder(gen, nodes, lr, path, pool) = f[Len(nodes)]
<1> DEFINE Level(f, i) == IF i = 0 THEN [all |-> Start(pool), each |-> <<>>]
                          ELSE OrderStep(gen, nodes, lr, path, f[i - 1], i)
           IsLevels(f, n) == f = [i \in 0 .. n |-> Level(f, i)]
           T == {n \in Nat : \E f : IsLevels(f, n)}
<1>1. 0 \in T
  <2> DEFINE f == [m \in 0 .. 0 |-> [all |-> Start(pool), each |-> <<>>]]
  <2>1. \A m \in 0 .. 0 : m = 0
    OBVIOUS
  <2>2. IsLevels(f, 0)
    BY <2>1
  <2> HIDE DEF IsLevels, f
  <2> QED BY <2>2
<1>2. ASSUME NEW n \in Nat, n \in T PROVE n + 1 \in T
  <2>1. PICK f : IsLevels(f, n)
    BY <1>2
  <2> DEFINE g == [m \in 0 .. n + 1 |-> Level(f, m)]
  <2>2. ASSUME NEW m \in 0 .. n PROVE g[m] = f[m]
    <3>1. f[m] = Level(f, m)
      BY <2>1
    <3>2. m \in 0 .. n + 1
      OBVIOUS
    <3> HIDE DEF Level
    <3> QED BY <3>1, <3>2
  <2>3. ASSUME NEW m \in 0 .. n + 1 PROVE Level(f, m) = Level(g, m)
    <3>1. CASE m = 0
      BY <3>1
    <3>2. CASE m # 0
      <4>1. m - 1 \in 0 .. n
        BY <3>2
      <4>2. g[m - 1] = f[m - 1]
        BY <2>2, <4>1
      <4> HIDE DEF g
      <4> QED BY <4>2
    <3> QED BY <3>1, <3>2
  <2>4. IsLevels(g, n + 1)
    <3> HIDE DEF Level
    <3> QED BY <2>3
  <2> HIDE DEF g, IsLevels
  <2> QED BY <2>4
<1>3. \A n \in Nat : n \in T
  <2> HIDE DEF T
  <2> QED BY <1>1, <1>2, SetInduction
<1>4. \E f : IsOrder(f, Len(nodes), gen, nodes, lr, path, pool)
  BY <1>3 DEF IsOrder
<1> DEFINE F == CHOOSE f : IsOrder(f, Len(nodes), gen, nodes, lr, path, pool)
<1>5. InOrder(gen, nodes, lr, path, pool) = F[Len(nodes)]
  BY DEF InOrder, IsOrder, OrderStep
<1>6. IsOrder(F, Len(nodes), gen, nodes, lr, path, pool)
  BY <1>4
<1> QED BY <1>5, <1>6

\* One of several results is what is generated for its node.
EachGenerated(gen, nodes, lr, each, n) ==
  /\ Len(each) = n /\ IsCode(each)
  /\ \A i \in 1 .. n : \E path \in Labels, pool \in Pools :
       each[i] = gen[Request(nodes[i], lr[i], <<>>, <<>>, path, pool)]

LEMMA GoodOrder ==
  ASSUME NEW gen, NEW nodes, Len(nodes) \in Nat, NEW lr, NEW path \in Labels, NEW pool \in Pools,
         \A i \in 1 .. Len(nodes) : \A here \in Labels, from \in Pools :
           Good(gen[Request(nodes[i], lr[i], <<>>, <<>>, here, from)], {}),
         NEW f, IsOrder(f, Len(nodes), gen, nodes, lr, path, pool)
  PROVE  \A i \in 0 .. Len(nodes) :
           Good(f[i].all, {}) /\ EachGenerated(gen, nodes, lr, f[i].each, i)
<1> DEFINE H(i) == Good(f[i].all, {}) /\ EachGenerated(gen, nodes, lr, f[i].each, i)
           T == {i \in Nat : i <= Len(nodes) => H(i)}
<1>2. 0 \in T
  <2>1. f[0] = [all |-> Start(pool), each |-> <<>>]
    BY DEF IsOrder
  <2>2. Good(f[0].all, {})
    BY <2>1, GoodStart
  <2>3. EachGenerated(gen, nodes, lr, f[0].each, 0)
    BY <2>1, CodeParts DEF EachGenerated
  <2> QED BY <2>2, <2>3
<1>3. ASSUME NEW i \in Nat, i \in T PROVE i + 1 \in T
  <2> SUFFICES ASSUME i + 1 <= Len(nodes) PROVE H(i + 1)
    OBVIOUS
  <2>1. i + 1 \in 0 .. Len(nodes) /\ i + 1 # 0 /\ (i + 1) - 1 = i /\ i + 1 \in 1 .. Len(nodes)
    OBVIOUS
  <2>2. f[i + 1] = OrderStep(gen, nodes, lr, path, f[i], i + 1)
    BY <2>1 DEF IsOrder
  <2>3. Good(f[i].all, {}) /\ EachGenerated(gen, nodes, lr, f[i].each, i)
    BY <1>3
  <2> DEFINE here == Append(path, i + 1)
             from == f[i].all.pool
             r == gen[Request(nodes[i + 1], lr[i + 1], <<>>, <<>>, here, from)]
             e == f[i].each
  <2>4. here \in Labels /\ from \in Pools
    BY <2>3 DEF Labels, Good
  <2>5. Good(r, {})
    BY <2>1, <2>4
  <2>6. f[i + 1].all = Then(f[i].all, r) /\ f[i + 1].each = Append(e, r)
    BY <2>2 DEF OrderStep, generate_function_code
  <2>7. Good(f[i + 1].all, {})
    <3> HIDE DEF r
    <3>1. Good(Then(f[i].all, r), {})
      BY <2>3, <2>5, GoodThen
    <3> QED BY <2>6, <3>1
  <2>8. EachGenerated(gen, nodes, lr, Append(e, r), i + 1)
    <3>1. Len(e) = i /\ IsCode(e)
      BY <2>3 DEF EachGenerated
    <3>2. IsCode(Append(e, r))
      BY <3>1, CodeParts
    <3>3. Len(Append(e, r)) = i + 1 /\ Append(e, r)[i + 1] = r
          /\ \A j \in 1 .. i : Append(e, r)[j] = e[j]
      <4>1. e \in Seq({e[j] : j \in DOMAIN e} \cup {r})
        <5> DEFINE S == {e[j] : j \in DOMAIN e} \cup {r}
        <5>1. e \in [1 .. Len(e) -> S] /\ Len(e) \in Nat
          BY <3>1, CodeLength
        <5> HIDE DEF S
        <5>2. e \in Seq(S)
          BY <5>1
        <5> QED BY <5>2 DEF S
      <4> HIDE DEF e, r
      <4> QED BY <3>1, <4>1
    <3>4. \A j \in 1 .. i : \E p1 \in Labels, p2 \in Pools :
            e[j] = gen[Request(nodes[j], lr[j], <<>>, <<>>, p1, p2)]
      BY <2>3 DEF EachGenerated
    <3> SUFFICES ASSUME NEW j \in 1 .. i + 1
                 PROVE  \E p1 \in Labels, p2 \in Pools :
                          Append(e, r)[j] = gen[Request(nodes[j], lr[j], <<>>, <<>>, p1, p2)]
      BY <3>2, <3>3 DEF EachGenerated
    <3>5. CASE j = i + 1
      BY <3>3, <3>5, <2>4
    <3>6. CASE j # i + 1
      <4>1. j \in 1 .. i
        BY <3>6
      <4> QED BY <3>3, <3>4, <4>1
    <3> QED BY <3>5, <3>6
  <2> QED BY <2>6, <2>7, <2>8
<1>4. \A i \in Nat : i \in T
  <2> HIDE DEF T
  <2> QED BY <1>2, <1>3, SetInduction
<1> SUFFICES ASSUME NEW i \in 0 .. Len(nodes) PROVE H(i)
  OBVIOUS
<1>5. i \in Nat /\ i <= Len(nodes)
  OBVIOUS
<1> QED BY <1>4, <1>5

LEMMA GoodInOrder ==
  ASSUME NEW gen, NEW nodes, Len(nodes) \in Nat, NEW lr, NEW path \in Labels, NEW pool \in Pools,
         \A i \in 1 .. Len(nodes) : \A here \in Labels, from \in Pools :
           Good(gen[Request(nodes[i], lr[i], <<>>, <<>>, here, from)], {})
  PROVE  /\ Good(InOrder(gen, nodes, lr, path, pool).all, {})
         /\ EachGenerated(gen, nodes, lr, InOrder(gen, nodes, lr, path, pool).each, Len(nodes))
<1>1. PICK f : /\ IsOrder(f, Len(nodes), gen, nodes, lr, path, pool)
               /\ InOrder(gen, nodes, lr, path, pool) = f[Len(nodes)]
  BY OrderDefined
<1>2. Len(nodes) \in 0 .. Len(nodes)
  OBVIOUS
<1> QED BY <1>1, <1>2, GoodOrder

\* The code of several nodes ends in the code of the last.
EndsIn(r, gen, node, lr) ==
  \E before : \E here \in Labels, from \in Pools :
    Good(before, {}) /\ r = Then(before, gen[Request(node, lr, <<>>, <<>>, here, from)])

LEMMA LastInOrder ==
  ASSUME NEW gen, NEW nodes, Len(nodes) \in Nat \ {0}, NEW lr, NEW path \in Labels, NEW pool \in Pools,
         \A i \in 1 .. Len(nodes) : \A here \in Labels, from \in Pools :
           Good(gen[Request(nodes[i], lr[i], <<>>, <<>>, here, from)], {})
  PROVE  EndsIn(InOrder(gen, nodes, lr, path, pool).all, gen, nodes[Len(nodes)], lr[Len(nodes)])
<1>1. PICK f : /\ IsOrder(f, Len(nodes), gen, nodes, lr, path, pool)
               /\ InOrder(gen, nodes, lr, path, pool) = f[Len(nodes)]
  BY OrderDefined
<1> DEFINE n == Len(nodes)
           before == f[n - 1].all
           here == Append(path, n)
           from == before.pool
<1>2. n \in 0 .. n /\ n - 1 \in 0 .. n /\ n # 0
  OBVIOUS
<1>3. Good(before, {})
  BY <1>1, <1>2, GoodOrder
<1>4. here \in Labels /\ from \in Pools
  BY <1>3 DEF Labels, Good
<1>5. f[n] = OrderStep(gen, nodes, lr, path, f[n - 1], n)
  BY <1>1, <1>2 DEF IsOrder
<1>6. f[n].all = Then(before, gen[Request(nodes[n], lr[n], <<>>, <<>>, here, from)])
  BY <1>5 DEF OrderStep, generate_function_code
<1> QED BY <1>1, <1>3, <1>4, <1>6 DEF EndsIn

\* Temporaries freed.
LEMMA GoodFreed ==
  ASSUME NEW places, Len(places) \in Nat, \A i \in 1 .. Len(places) : Sane(places[i]),
         NEW pool \in Pools
  PROVE  FreedAll(pool, places) \in Pools
<1> DEFINE Level(f, i) == IF i = 0 THEN pool ELSE free_temporary(f[i - 1], places[i])
           IsLevels(f, n) == f = [i \in 0 .. n |-> Level(f, i)]
           T == {n \in Nat : \E f : IsLevels(f, n)}
<1>1. 0 \in T
  <2> DEFINE f == [m \in 0 .. 0 |-> pool]
  <2>1. \A m \in 0 .. 0 : m = 0
    OBVIOUS
  <2>2. IsLevels(f, 0)
    BY <2>1
  <2> HIDE DEF IsLevels, f
  <2> QED BY <2>2
<1>2. ASSUME NEW n \in Nat, n \in T PROVE n + 1 \in T
  <2>1. PICK f : IsLevels(f, n)
    BY <1>2
  <2> DEFINE g == [m \in 0 .. n + 1 |-> Level(f, m)]
  <2>2. ASSUME NEW m \in 0 .. n PROVE g[m] = f[m]
    <3>1. f[m] = Level(f, m)
      BY <2>1
    <3>2. m \in 0 .. n + 1
      OBVIOUS
    <3> HIDE DEF Level
    <3> QED BY <3>1, <3>2
  <2>3. ASSUME NEW m \in 0 .. n + 1 PROVE Level(f, m) = Level(g, m)
    <3>1. CASE m = 0
      BY <3>1
    <3>2. CASE m # 0
      <4>1. m - 1 \in 0 .. n
        BY <3>2
      <4>2. g[m - 1] = f[m - 1]
        BY <2>2, <4>1
      <4> HIDE DEF g
      <4> QED BY <4>2
    <3> QED BY <3>1, <3>2
  <2>4. IsLevels(g, n + 1)
    <3> HIDE DEF Level
    <3> QED BY <2>3
  <2> HIDE DEF g, IsLevels
  <2> QED BY <2>4
<1>3. \A n \in Nat : n \in T
  <2> HIDE DEF T
  <2> QED BY <1>1, <1>2, SetInduction
<1>4. \E f : IsLevels(f, Len(places))
  BY <1>3
<1> DEFINE F == CHOOSE f : IsLevels(f, Len(places))
<1>5. FreedAll(pool, places) = F[Len(places)]
  BY DEF FreedAll
<1>6. IsLevels(F, Len(places))
  BY <1>4
<1>7. \A f : IsLevels(f, Len(places)) => \A i \in Nat : i <= Len(places) => f[i] \in Pools
  <2> SUFFICES ASSUME NEW f, IsLevels(f, Len(places))
               PROVE  \A i \in Nat : i <= Len(places) => f[i] \in Pools
    OBVIOUS
  <2> DEFINE U == {i \in Nat : i <= Len(places) => f[i] \in Pools}
  <2>1. 0 \in U
    OBVIOUS
  <2>2. ASSUME NEW i \in Nat, i \in U PROVE i + 1 \in U
    <3> SUFFICES ASSUME i + 1 <= Len(places) PROVE f[i + 1] \in Pools
      OBVIOUS
    <3>1. f[i + 1] = free_temporary(f[i], places[i + 1])
      OBVIOUS
    <3>2. f[i] \in Pools /\ Sane(places[i + 1])
      BY <2>2
    <3> QED BY <3>1, <3>2, FreedToPool
  <2>3. \A i \in Nat : i \in U
    <3> HIDE DEF U
    <3> QED BY <2>1, <2>2, SetInduction
  <2> QED BY <2>3
<1> HIDE DEF IsLevels, F
<1> QED BY <1>5, <1>6, <1>7

-----------------------------------------------------------------------------
\* The code of what means something.
EndsInReturn(c) == Len(c) \in DOMAIN c /\ c[Len(c)].op = "Return"

GoodValue(r, p, lr, ret) ==
  /\ Good(r, {})
  /\ p.ntype = "Return" => EndsInReturn(r.code)
  /\ lr = "R" /\ p.ntype \in Expressions /\ Meaning(p, ret) # "None" => r.place # None
  /\ p.ntype \in {"Var", "Stringcon"} => r.place # None

\* The generators of trees less than n deep do.
GoodLevel(n, ret) ==
  \A p \in Grammar : Meaning(p, ret) # "Wrong" /\ Tree(p, ret) \in NodesTo[n] =>
    /\ p.ntype \notin Tests =>
         \A lr \in {"L", "R"}, path \in Labels, pool \in Pools :
           GoodValue(generate_function_code(Generators(ret)[n], Tree(p, ret), lr, path, pool), p, lr, ret)
    /\ p.ntype \in Tests =>
         \A yes \in Labels, no \in Labels, path \in Labels, pool \in Pools :
           Good(generate_bool_expr_code(Generators(ret)[n], Tree(p, ret), yes, no, path, pool), {yes, no})

\* The tree of p is t, gen generates for its parts.
Context(p, t, gen, ret) ==
  /\ ret \in Results /\ p \in Grammar /\ Meaning(p, ret) # "Wrong"
  /\ t = NodeOver(p, ret, FALSE)
  /\ \A i \in DOMAIN p.kids :
       /\ p.kids[i].ntype \notin Tests =>
            \A lr \in {"L", "R"}, path \in Labels, pool \in Pools :
              GoodValue(generate_function_code(gen, Tree(p.kids[i], ret), lr, path, pool), p.kids[i], lr, ret)
       /\ p.kids[i].ntype \in Tests =>
            \A yes \in Labels, no \in Labels, path \in Labels, pool \in Pools :
              Good(generate_bool_expr_code(gen, Tree(p.kids[i], ret), yes, no, path, pool), {yes, no})

LEMMA LabelPaths ==
  ASSUME NEW path \in Labels
  PROVE  /\ \A i \in Int : Append(path, i) \in Labels
         /\ Append(path, 1) \in Labels /\ Append(path, 2) \in Labels
         /\ Label(path, "then") \in Labels /\ Label(path, "else") \in Labels
         /\ Label(path, "after") \in Labels /\ Label(path, "body") \in Labels
         /\ Label(path, "next") \in Labels
BY DEF Labels, Label

LEMMA RequestFields ==
  ASSUME NEW node, NEW mode, NEW yes, NEW no, NEW path, NEW pool
  PROVE  LET x == Request(node, mode, yes, no, path, pool)
         IN  /\ x.node = node /\ x.mode = mode /\ x.yes = yes /\ x.no = no
             /\ x.path = path /\ x.pool = pool
BY DEF Request

\* Where the levels below are good, a node and its parts are in context.
LEMMA LevelBelow ==
  ASSUME NEW ret \in Results, NEW n \in 1 .. MaxDepth + 2, GoodLevel(n - 1, ret),
         NEW p \in Grammar, Meaning(p, ret) # "Wrong", Tree(p, ret) \in NodesTo[n]
  PROVE  Context(p, Tree(p, ret), Generators(ret)[n - 1], ret)
<1>1. Tree(p, ret) = NodeOver(p, ret, FALSE) /\ \A i \in DOMAIN p.kids : Meaning(p.kids[i], ret) # "Wrong"
  BY SoundParts
<1>2. Tree(p, ret).kids \in Seq(NodesTo[n - 1])
  <2>1. Tree(p, ret) \in NodesOver(NodesTo[n - 1])
    BY NodeOfLevel
  <2> QED BY <2>1 DEF NodesOver
<1>3. Tree(p, ret).kids = PartTrees(p, ret)
  BY <1>1 DEF NodeOver, Node
<1>4. \A i \in DOMAIN p.kids : Tree(p.kids[i], ret) \in NodesTo[n - 1] /\ p.kids[i] \in Grammar
  <2> SUFFICES ASSUME NEW i \in DOMAIN p.kids
               PROVE  Tree(p.kids[i], ret) \in NodesTo[n - 1] /\ p.kids[i] \in Grammar
    OBVIOUS
  <2> DEFINE k == PartTrees(p, ret)
  <2>1. i \in DOMAIN k /\ k[i] = Tree(p.kids[i], ret)
    BY DEF PartTrees
  <2>2. k \in Seq(NodesTo[n - 1])
    BY <1>2, <1>3
  <2> HIDE DEF k
  <2>3. k[i] \in NodesTo[n - 1]
    BY <2>1, <2>2
  <2> QED BY <2>1, <2>3, KidsOfPhrase
<1> QED BY <1>1, <1>4 DEF Context, GoodLevel

LEMMA ContextNode ==
  ASSUME NEW p, NEW t, NEW gen, NEW ret, Context(p, t, gen, ret)
  PROVE  /\ t.ntype = Kind(p) /\ t.etype = NodeType(p, ret) /\ t.sym = Named(p) /\ t.val = Valued(p)
         /\ Len(t.kids) = Len(p.kids) /\ Len(p.kids) \in Nat
         /\ DOMAIN t.kids = 1 .. Len(p.kids) /\ DOMAIN p.kids = 1 .. Len(p.kids)
         /\ \A i \in DOMAIN p.kids : t.kids[i] = Tree(p.kids[i], ret)
<1>1. t = NodeOver(p, ret, FALSE) /\ p \in Grammar
  BY DEF Context
<1>2. t.ntype = Kind(p) /\ t.etype = NodeType(p, ret) /\ t.sym = Named(p) /\ t.val = Valued(p)
      /\ t.kids = PartTrees(p, ret)
  BY <1>1 DEF NodeOver, Node
<1>3. Len(p.kids) \in Nat /\ DOMAIN p.kids = 1 .. Len(p.kids)
  BY <1>1, KidsOfPhrase
<1>4. Len(PartTrees(p, ret)) = Len(p.kids) /\ DOMAIN PartTrees(p, ret) = 1 .. Len(p.kids)
      /\ \A i \in DOMAIN p.kids : PartTrees(p, ret)[i] = Tree(p.kids[i], ret)
  BY <1>3 DEF PartTrees
<1> QED BY <1>2, <1>3, <1>4

\* The parts of a node, in order.
LEMMA PartsInOrder ==
  ASSUME NEW p, NEW t, NEW gen, NEW ret, Context(p, t, gen, ret),
         \A i \in DOMAIN p.kids : p.kids[i].ntype \notin Tests,
         NEW lr, \A i \in DOMAIN p.kids : lr[i] \in {"L", "R"},
         NEW path \in Labels, NEW pool \in Pools
  PROVE  /\ Good(InOrder(gen, t.kids, lr, path, pool).all, {})
         /\ Len(InOrder(gen, t.kids, lr, path, pool).each) = Len(p.kids)
         /\ IsCode(InOrder(gen, t.kids, lr, path, pool).each)
         /\ \A i \in DOMAIN p.kids :
              GoodValue(InOrder(gen, t.kids, lr, path, pool).each[i], p.kids[i], lr[i], ret)
<1> DEFINE r == InOrder(gen, t.kids, lr, path, pool)
<1>1. Len(t.kids) = Len(p.kids) /\ Len(p.kids) \in Nat /\ DOMAIN p.kids = 1 .. Len(p.kids)
      /\ \A i \in DOMAIN p.kids : t.kids[i] = Tree(p.kids[i], ret)
  BY ContextNode
<1>2. \A i \in 1 .. Len(t.kids) : \A here \in Labels, from \in Pools :
         GoodValue(gen[Request(t.kids[i], lr[i], <<>>, <<>>, here, from)], p.kids[i], lr[i], ret)
  BY <1>1 DEF Context, generate_function_code
<1>3. Good(r.all, {}) /\ EachGenerated(gen, t.kids, lr, r.each, Len(t.kids))
  <2>1. \A i \in 1 .. Len(t.kids) : \A here \in Labels, from \in Pools :
          Good(gen[Request(t.kids[i], lr[i], <<>>, <<>>, here, from)], {})
    BY <1>2 DEF GoodValue
  <2> QED BY <2>1, <1>1, GoodInOrder
<1> HIDE DEF r
<1>4. Len(r.each) = Len(p.kids) /\ IsCode(r.each)
  BY <1>1, <1>3 DEF EachGenerated
<1>5. \A i \in DOMAIN p.kids : GoodValue(r.each[i], p.kids[i], lr[i], ret)
  BY <1>1, <1>2, <1>3 DEF EachGenerated
<1> QED BY <1>3, <1>4, <1>5 DEF r

\* The code of operands, by their type.
PlaceOf(o, pool) == Result(<<>>, pool, o, None, TRUE)
ConstantCode(node, pool) ==
  Delivered(Start(pool), TRUE, node.etype, "Assign", constant(node.etype, node.val), None, "")
UnaryCode(node, v) ==
  Delivered(v.all, v.each[1].place # None, node.etype, "UMinus", v.each[1].place, None, "")
BinaryCode(node, v) ==
  Delivered(v.all, v.each[1].place # None /\ v.each[2].place # None, node.etype,
            "BinaryArithmetic", v.each[1].place, v.each[2].place, node.ntype)

ListCode(gen, node, lr, path, pool) ==
  Emit(InOrder(gen, node.kids, [i \in DOMAIN node.kids |-> lr], path, pool).all, <<>>)

\* The code of a node, by its type.
LEMMA CodeOfNull ==
  ASSUME NEW gen, NEW ret, NEW node, NEW lr, NEW path, NEW pool, node.ntype = "NULL"
  PROVE  CodeOf(gen, ret, node, lr, path, pool) =
           Start(pool)
BY DEF CodeOf, Arithmetic, PlaceOf, ConstantCode, UnaryCode, BinaryCode

LEMMA CodeOfVar ==
  ASSUME NEW gen, NEW ret, NEW node, NEW lr, NEW path, NEW pool, node.ntype = "Var"
  PROVE  CodeOf(gen, ret, node, lr, path, pool) =
           PlaceOf(Var(node.sym), pool)
BY DEF CodeOf, Arithmetic, PlaceOf, ConstantCode, UnaryCode, BinaryCode

LEMMA CodeOfConstant ==
  ASSUME NEW gen, NEW ret, NEW node, NEW path, NEW pool, node.ntype \in {"Intcon", "Charcon"}
  PROVE  CodeOf(gen, ret, node, "R", path, pool) =
           ConstantCode(node, pool)
BY DEF CodeOf, Arithmetic, PlaceOf, ConstantCode, UnaryCode, BinaryCode

LEMMA CodeOfLocation ==
  ASSUME NEW gen, NEW ret, NEW node, NEW path, NEW pool, node.ntype \in {"Intcon", "Charcon"}
  PROVE  CodeOf(gen, ret, node, "L", path, pool) = Start(pool)
BY DEF CodeOf, Arithmetic, PlaceOf, ConstantCode, UnaryCode, BinaryCode

LEMMA CodeOfString ==
  ASSUME NEW gen, NEW ret, NEW node, NEW lr, NEW path, NEW pool, node.ntype = "Stringcon"
  PROVE  CodeOf(gen, ret, node, lr, path, pool) =
           PlaceOf(<<"string", node.val>>, pool)
BY DEF CodeOf, Arithmetic, PlaceOf, ConstantCode, UnaryCode, BinaryCode

LEMMA CodeOfUnary ==
  ASSUME NEW gen, NEW ret, NEW node, NEW lr, NEW path, NEW pool, node.ntype = "UnaryMinus"
  PROVE  CodeOf(gen, ret, node, lr, path, pool) =
           UnaryCode(node, Values(gen, node, path, pool))
BY DEF CodeOf, Arithmetic, PlaceOf, ConstantCode, UnaryCode, BinaryCode

LEMMA CodeOfBinary ==
  ASSUME NEW gen, NEW ret, NEW node, NEW lr, NEW path, NEW pool, node.ntype \in Arithmetic
  PROVE  CodeOf(gen, ret, node, lr, path, pool) =
           BinaryCode(node, Values(gen, node, path, pool))
BY DEF CodeOf, Arithmetic, PlaceOf, ConstantCode, UnaryCode, BinaryCode

LEMMA CodeOfCall ==
  ASSUME NEW gen, NEW ret, NEW node, NEW lr, NEW path, NEW pool, node.ntype = "FunCall"
  PROVE  CodeOf(gen, ret, node, lr, path, pool) =
           FunCallCode(gen, node, path, pool)
BY DEF CodeOf, Arithmetic, PlaceOf, ConstantCode, UnaryCode, BinaryCode

LEMMA CodeOfAssg ==
  ASSUME NEW gen, NEW ret, NEW node, NEW lr, NEW path, NEW pool, node.ntype = "Assg"
  PROVE  CodeOf(gen, ret, node, lr, path, pool) =
           AssgCode(gen, node, path, pool)
BY DEF CodeOf, Arithmetic, PlaceOf, ConstantCode, UnaryCode, BinaryCode

LEMMA CodeOfSubscript ==
  ASSUME NEW gen, NEW ret, NEW node, NEW lr, NEW path, NEW pool, node.ntype = "ArraySubscript"
  PROVE  CodeOf(gen, ret, node, lr, path, pool) =
           SubscriptCode(gen, node, lr, path, pool)
BY DEF CodeOf, Arithmetic, PlaceOf, ConstantCode, UnaryCode, BinaryCode

LEMMA CodeOfReturn ==
  ASSUME NEW gen, NEW ret, NEW node, NEW lr, NEW path, NEW pool, node.ntype = "Return"
  PROVE  CodeOf(gen, ret, node, lr, path, pool) =
           ReturnCode(gen, ret, node, path, pool)
BY DEF CodeOf, Arithmetic, PlaceOf, ConstantCode, UnaryCode, BinaryCode

LEMMA CodeOfIf ==
  ASSUME NEW gen, NEW ret, NEW node, NEW lr, NEW path, NEW pool, node.ntype = "If"
  PROVE  CodeOf(gen, ret, node, lr, path, pool) =
           IfCode(gen, node, lr, path, pool)
BY DEF CodeOf, Arithmetic, PlaceOf, ConstantCode, UnaryCode, BinaryCode

LEMMA CodeOfWhile ==
  ASSUME NEW gen, NEW ret, NEW node, NEW lr, NEW path, NEW pool, node.ntype = "While"
  PROVE  CodeOf(gen, ret, node, lr, path, pool) =
           WhileCode(gen, node, lr, path, pool)
BY DEF CodeOf, Arithmetic, PlaceOf, ConstantCode, UnaryCode, BinaryCode

LEMMA CodeOfFor ==
  ASSUME NEW gen, NEW ret, NEW node, NEW lr, NEW path, NEW pool, node.ntype = "For"
  PROVE  CodeOf(gen, ret, node, lr, path, pool) =
           ForCode(gen, node, lr, path, pool)
BY DEF CodeOf, Arithmetic, PlaceOf, ConstantCode, UnaryCode, BinaryCode

LEMMA CodeOfList ==
  ASSUME NEW gen, NEW ret, NEW node, NEW lr, NEW path, NEW pool, node.ntype = "STnodeList"
  PROVE  CodeOf(gen, ret, node, lr, path, pool) =
           ListCode(gen, node, lr, path, pool)
BY DEF CodeOf, Arithmetic, ListCode, PlaceOf, ConstantCode, UnaryCode, BinaryCode

-----------------------------------------------------------------------------
\* What is generated for the parts of a node.
LEMMA NotTests == (Expressions \cup Statements) \cap Tests = {}
BY DEF Expressions, Statements, Tests, Literals, Variables, Calls, Arithmetic, Comparisons, Connectives

LEMMA ValuePart ==
  ASSUME NEW p, NEW t, NEW gen, NEW ret, Context(p, t, gen, ret),
         NEW i \in DOMAIN p.kids, p.kids[i].ntype \notin Tests,
         NEW lr \in {"L", "R"}, NEW path \in Labels, NEW pool \in Pools
  PROVE  LET r == generate_function_code(gen, t.kids[i], lr, path, pool)
         IN  GoodValue(r, p.kids[i], lr, ret) /\ Good(r, {}) /\ r.pool \in Pools
<1>1. t.kids[i] = Tree(p.kids[i], ret)
  BY ContextNode
<1>2. GoodValue(generate_function_code(gen, Tree(p.kids[i], ret), lr, path, pool), p.kids[i], lr, ret)
  BY DEF Context
<1> QED BY <1>1, <1>2 DEF GoodValue, Good

LEMMA TestPart ==
  ASSUME NEW p, NEW t, NEW gen, NEW ret, Context(p, t, gen, ret),
         NEW i \in DOMAIN p.kids, p.kids[i].ntype \in Tests,
         NEW yes \in Labels, NEW no \in Labels, NEW path \in Labels, NEW pool \in Pools
  PROVE  LET r == generate_bool_expr_code(gen, t.kids[i], yes, no, path, pool)
         IN  Good(r, {yes, no}) /\ r.pool \in Pools
<1>1. t.kids[i] = Tree(p.kids[i], ret)
  BY ContextNode
<1>2. Good(generate_bool_expr_code(gen, Tree(p.kids[i], ret), yes, no, path, pool), {yes, no})
  BY DEF Context
<1> QED BY <1>1, <1>2 DEF Good

-----------------------------------------------------------------------------
\* Tests.
Joined(gen, node, a_yes, a_no, yes, no, path, pool) ==
  LET a == generate_bool_expr_code(gen, node.kids[1], a_yes, a_no, Append(path, 1), pool)
      b == generate_bool_expr_code(gen, node.kids[2], yes, no, Append(path, 2), a.pool)
  IN  Then(Emit(a, <<LabelInstruction(Label(path, "next"))>>), b)

Compared(gen, node, yes, no, path, pool) ==
  LET operands == Values(gen, node, path, pool)
  IN  Emit(operands.all,
           <<Instruction("If", operands.each[1].place, operands.each[2].place, None, node.ntype, yes),
             create_jump_instruction(no)>>)

LEMMA TestCodeCases ==
  ASSUME NEW gen, NEW node, NEW yes, NEW no, NEW path, NEW pool
  PROVE  /\ node.ntype = "LogicalAnd" =>
              TestCode(gen, node, yes, no, path, pool) = Joined(gen, node, Label(path, "next"), no, yes, no, path, pool)
         /\ node.ntype = "LogicalOr" =>
              TestCode(gen, node, yes, no, path, pool) = Joined(gen, node, yes, Label(path, "next"), yes, no, path, pool)
         /\ node.ntype = "LogicalNot" =>
              TestCode(gen, node, yes, no, path, pool)
                = generate_bool_expr_code(gen, node.kids[1], no, yes, Append(path, 1), pool)
         /\ node.ntype \in Comparisons =>
              TestCode(gen, node, yes, no, path, pool) = Compared(gen, node, yes, no, path, pool)
<1>1. node.ntype = "LogicalAnd" =>
         TestCode(gen, node, yes, no, path, pool) = Joined(gen, node, Label(path, "next"), no, yes, no, path, pool)
  BY DEF TestCode, Joined, Comparisons
<1>2. node.ntype = "LogicalOr" =>
         TestCode(gen, node, yes, no, path, pool) = Joined(gen, node, yes, Label(path, "next"), yes, no, path, pool)
  BY DEF TestCode, Joined, Comparisons
<1>3. node.ntype = "LogicalNot" =>
         TestCode(gen, node, yes, no, path, pool)
           = generate_bool_expr_code(gen, node.kids[1], no, yes, Append(path, 1), pool)
  BY DEF TestCode, Comparisons
<1>4. node.ntype \in Comparisons =>
         TestCode(gen, node, yes, no, path, pool) = Compared(gen, node, yes, no, path, pool)
  BY DEF TestCode, Compared, Comparisons
<1> QED BY <1>1, <1>2, <1>3, <1>4

LEMMA GoodJoined ==
  ASSUME NEW p, NEW t, NEW gen, NEW ret, Context(p, t, gen, ret), p.ntype \in Connectives,
         NEW a_yes \in Labels, NEW a_no \in Labels, NEW yes \in Labels, NEW no \in Labels,
         NEW path \in Labels, NEW pool \in Pools,
         {a_yes, a_no} \subseteq {yes, no, Label(path, "next")}
  PROVE  Good(Joined(gen, t, a_yes, a_no, yes, no, path, pool), {yes, no})
<1> DEFINE next == Label(path, "next")
           a == generate_bool_expr_code(gen, t.kids[1], a_yes, a_no, Append(path, 1), pool)
           b == generate_bool_expr_code(gen, t.kids[2], yes, no, Append(path, 2), a.pool)
           e == Emit(a, <<LabelInstruction(next)>>)
<1>1. p \in Grammar /\ Append(path, 1) \in Labels /\ Append(path, 2) \in Labels
  BY LabelPaths DEF Context
<1>2. 1 \in DOMAIN p.kids /\ 2 \in DOMAIN p.kids /\ p.kids[1].ntype \in Tests /\ p.kids[2].ntype \in Tests
  BY <1>1, PartsOfPhrase, KidsOfPhrase
<1>3. Good(a, {a_yes, a_no}) /\ a.pool \in Pools
  BY <1>1, <1>2, TestPart
<1>4. Joined(gen, t, a_yes, a_no, yes, no, path, pool) = Then(e, b)
  BY DEF Joined
<1> HIDE DEF a, next
<1>5. Good(b, {yes, no})
  BY <1>1, <1>2, <1>3, TestPart
<1>6. Good(e, {yes, no})
  <2>1. Good(a, {yes, no} \cup {next})
    <3>1. {a_yes, a_no} \subseteq ({yes, no} \cup {next}) \cup LabelsIn(a.code)
      BY DEF next
    <3> QED BY <1>3, <3>1, GoodMore
  <2> QED BY <2>1, GoodLabel
<1> HIDE DEF b, e
<1> QED BY <1>4, <1>5, <1>6, GoodThen

LEMMA GoodTests ==
  ASSUME NEW p, NEW t, NEW gen, NEW ret, Context(p, t, gen, ret), p.ntype \in Tests,
         NEW yes \in Labels, NEW no \in Labels, NEW path \in Labels, NEW pool \in Pools
  PROVE  Good(TestCode(gen, t, yes, no, path, pool), {yes, no})
<1>1. p \in Grammar /\ Append(path, 1) \in Labels /\ Label(path, "next") \in Labels
  <2>1. p \in Grammar
    BY DEF Context
  <2> QED BY <2>1, LabelPaths
<1>2. t.ntype = p.ntype
  BY ContextNode, NodeCases
<1>3. CASE p.ntype \in Connectives
  <2>1. Good(Joined(gen, t, Label(path, "next"), no, yes, no, path, pool), {yes, no})
        /\ Good(Joined(gen, t, yes, Label(path, "next"), yes, no, path, pool), {yes, no})
    BY <1>1, <1>3, GoodJoined
  <2> QED BY <1>2, <1>3, <2>1, TestCodeCases DEF Connectives
<1>4. CASE p.ntype = "LogicalNot"
  <2>1. 1 \in DOMAIN p.kids /\ p.kids[1].ntype \in Tests
    BY <1>1, <1>4, PartsOfPhrase, KidsOfPhrase
  <2>2. Good(generate_bool_expr_code(gen, t.kids[1], no, yes, Append(path, 1), pool), {no, yes})
    BY <1>1, <2>1, TestPart
  <2>3. {no, yes} = {yes, no}
    OBVIOUS
  <2> QED BY <1>2, <1>4, <2>2, <2>3, TestCodeCases
<1>5. CASE p.ntype \in Comparisons
  <2> DEFINE lr == [i \in DOMAIN t.kids |-> "R"]
             v == Values(gen, t, path, pool)
             code1 == <<Instruction("If", v.each[1].place, v.each[2].place, None, t.ntype, yes),
                        create_jump_instruction(no)>>
  <2>1. \A i \in DOMAIN p.kids : p.kids[i].ntype \notin Tests /\ lr[i] \in {"L", "R"}
    <3>1. DOMAIN p.kids = 1 .. 2 /\ p.kids[1].ntype \in Expressions /\ p.kids[2].ntype \in Expressions
      BY <1>1, <1>5, PartsOfPhrase, KidsOfPhrase
    <3>2. DOMAIN t.kids = DOMAIN p.kids
      BY ContextNode
    <3> QED BY <3>1, <3>2, NotTests
  <2> HIDE DEF lr
  <2>2. Good(InOrder(gen, t.kids, lr, path, pool).all, {})
    BY <2>1, PartsInOrder
  <2>3. v = InOrder(gen, t.kids, lr, path, pool)
    BY DEF Values, lr
  <2>4. Compared(gen, t, yes, no, path, pool) = Emit(v.all, code1)
    BY DEF Compared
  <2>5. IsCode(code1) /\ Lands(code1, {yes, no} \cup LabelsIn(v.all.code))
    <3> DEFINE x == Instruction("If", v.each[1].place, v.each[2].place, None, t.ntype, yes)
               y == create_jump_instruction(no)
    <3>1. IsInstruction(x) /\ x.label = yes
      BY InstructionFields
    <3>2. IsInstruction(y) /\ y.label = no
      BY JumpFields
    <3> HIDE DEF x, y, v
    <3>3. IsCode(<<x, y>>) /\ Lands(<<x, y>>, {yes, no} \cup LabelsIn(v.all.code))
      BY <3>1, <3>2, TwoInstructions
    <3> QED BY <3>3 DEF x, y
  <2> HIDE DEF v, code1
  <2>6. Good(v.all, {yes, no} \cup LabelsIn(code1))
    BY <2>2, <2>3, GoodMore
  <2>7. Good(Emit(v.all, code1), {yes, no})
    BY <2>5, <2>6, GoodEmit
  <2> QED BY <1>2, <1>5, <2>4, <2>7, TestCodeCases
<1> QED BY <1>3, <1>4, <1>5 DEF Tests

-----------------------------------------------------------------------------
\* Expressions.
LEMMA GoodLeaves ==
  ASSUME NEW p, NEW t, NEW gen, NEW ret, Context(p, t, gen, ret),
         p.ntype \in Literals \cup {"Var"} \/ Kind(p) = "NULL",
         NEW lr \in {"L", "R"}, NEW path \in Labels, NEW pool \in Pools
  PROVE  GoodValue(CodeOf(gen, ret, t, lr, path, pool), p, lr, ret)
<1> DEFINE c == CodeOf(gen, ret, t, lr, path, pool)
<1> SUFFICES GoodValue(c, p, lr, ret)
  OBVIOUS
<1>1. p \in Grammar /\ ret \in Results /\ Meaning(p, ret) # "Wrong"
  BY DEF Context
<1>2. t.ntype = Kind(p) /\ t.etype = NodeType(p, ret) /\ t.sym = Named(p)
  BY ContextNode
<1>3. CASE Kind(p) = "NULL"
  <2>1. c = Start(pool)
    BY <1>2, <1>3, CodeOfNull
  <2>2. p.ntype \notin Expressions
    BY <1>3 DEF Kind, Expressions, Literals, Variables, Arithmetic
  <2>3. p.ntype \notin {"Var", "Stringcon", "Return"}
    BY <1>3 DEF Kind
  <2> QED BY <2>1, <2>2, <2>3, GoodStart DEF GoodValue
<1>4. CASE p.ntype = "Var"
  <2>1. t.ntype = "Var" /\ t.sym = p.sym /\ p.sym \in Names
    BY <1>1, <1>2, <1>4, NodeCases, SoundTypes DEF Variables
  <2>2. c = PlaceOf(Var(p.sym), pool)
    BY <2>1, CodeOfVar
  <2>3. Good(c, {})
    BY <2>2, GoodResult, NoInstruction, SaneOperands DEF PlaceOf
  <2>4. c.place = Var(p.sym) /\ Var(p.sym) # None
    BY <2>1, <2>2, SaneOperands DEF Result, PlaceOf
  <2> HIDE DEF c
  <2> QED BY <1>4, <2>3, <2>4 DEF GoodValue
<1>5. CASE p.ntype = "Stringcon"
  <2>1. t.ntype = "Stringcon"
    BY <1>2, <1>5, NodeCases DEF Literals
  <2> DEFINE o == <<"string", t.val>>
  <2>2. Sane(o) /\ o # None
    BY SaneOperands
  <2>3. c = PlaceOf(o, pool)
    BY <2>1, CodeOfString
  <2> HIDE DEF o
  <2>4. Good(c, {})
    BY <2>2, <2>3, GoodResult, NoInstruction, SaneOperands DEF PlaceOf
  <2>5. c.place = o
    BY <2>3 DEF Result, PlaceOf
  <2> HIDE DEF c
  <2> QED BY <1>5, <2>2, <2>4, <2>5 DEF GoodValue
<1>6. CASE p.ntype \in {"Intcon", "Charcon"}
  <2>1. t.ntype \in {"Intcon", "Charcon"} /\ t.etype = Denotes(p)
    BY <1>2, <1>6, NodeCases DEF Literals
  <2>2. t.etype \in {"Int", "Char"}
    BY <2>1, <1>6, DenotesCases
  <2>3. CASE lr = "L"
    <3>1. c = Start(pool)
      <4>1. t.ntype \in {"Intcon", "Charcon"}
        BY <2>1
      <4> QED BY <2>3, <4>1, CodeOfLocation
    <3> HIDE DEF c
    <3> QED BY <1>6, <2>3, <3>1, GoodStart DEF GoodValue
  <2>4. CASE lr = "R"
    <3> DEFINE o == constant(t.etype, t.val)
    <3>1. Sane(o) /\ Sane(None)
      BY SaneOperands
    <3>2. c = ConstantCode(t, pool)
      <4>1. t.ntype \in {"Intcon", "Charcon"}
        BY <2>1
      <4> QED BY <2>4, <4>1, CodeOfConstant
    <3>3. c = Delivered(Start(pool), TRUE, t.etype, "Assign", o, None, "")
      BY <3>2 DEF ConstantCode
    <3> HIDE DEF o
    <3>4. Good(c, {}) /\ c.place # None
      BY <2>2, <3>1, <3>3, GoodStart, GoodDelivered
    <3> HIDE DEF c
    <3> QED BY <1>6, <3>4 DEF GoodValue
  <2> QED BY <2>3, <2>4
<1> QED BY <1>3, <1>4, <1>5, <1>6 DEF Literals

LEMMA GoodValues ==
  ASSUME NEW p, NEW t, NEW gen, NEW ret, Context(p, t, gen, ret),
         p.ntype \in Arithmetic \cup Comparisons \cup {"UnaryMinus"},
         NEW path \in Labels, NEW pool \in Pools
  PROVE  LET v == Values(gen, t, path, pool)
         IN  /\ Good(v.all, {})
             /\ \A i \in DOMAIN p.kids : Sane(v.each[i].place) /\ v.each[i].place # None
<1> DEFINE lr == [i \in DOMAIN t.kids |-> "R"]
           v == InOrder(gen, t.kids, lr, path, pool)
<1>1. p \in Grammar /\ ret \in Results /\ Meaning(p, ret) # "Wrong"
  BY DEF Context
<1>2. DOMAIN t.kids = DOMAIN p.kids
  BY ContextNode
<1>3. \A i \in DOMAIN p.kids : p.kids[i].ntype \in Expressions /\ Meaning(p.kids[i], ret) \in Numeric
  <2>1. CASE p.ntype \in Arithmetic \cup Comparisons
    <3>1. DOMAIN p.kids = 1 .. 2 /\ p.kids[1].ntype \in Expressions /\ p.kids[2].ntype \in Expressions
      BY <1>1, <2>1, PartsOfPhrase, KidsOfPhrase
    <3>2. Meaning(p.kids[1], ret) \in Numeric /\ Meaning(p.kids[2], ret) \in Numeric
      BY <1>1, <2>1, SoundTypes
    <3> QED BY <3>1, <3>2
  <2>2. CASE p.ntype = "UnaryMinus"
    <3>1. DOMAIN p.kids = 1 .. 1 /\ p.kids[1].ntype \in Expressions
      BY <1>1, <2>2, PartsOfPhrase, KidsOfPhrase
    <3>2. Meaning(p.kids[1], ret) \in Numeric
      BY <1>1, <2>2, SoundTypes
    <3> QED BY <3>1, <3>2
  <2> QED BY <2>1, <2>2
<1>4. \A i \in DOMAIN p.kids : p.kids[i].ntype \notin Tests /\ lr[i] = "R" /\ Meaning(p.kids[i], ret) # "None"
  BY <1>2, <1>3, NotTests DEF Numeric
<1>5. \A i \in DOMAIN p.kids : lr[i] \in {"L", "R"}
  BY <1>4
<1> HIDE DEF lr
<1>6. Good(v.all, {}) /\ \A i \in DOMAIN p.kids : GoodValue(v.each[i], p.kids[i], lr[i], ret)
  BY <1>4, <1>5, PartsInOrder
<1>7. v = Values(gen, t, path, pool)
  BY DEF Values, lr
<1> HIDE DEF v
<1>8. \A i \in DOMAIN p.kids : Sane(v.each[i].place) /\ v.each[i].place # None
  BY <1>3, <1>4, <1>6 DEF GoodValue, Good
<1> QED BY <1>6, <1>7, <1>8

LEMMA GoodOperators ==
  ASSUME NEW p, NEW t, NEW gen, NEW ret, Context(p, t, gen, ret),
         p.ntype \in Arithmetic \cup {"UnaryMinus"},
         NEW lr \in {"L", "R"}, NEW path \in Labels, NEW pool \in Pools
  PROVE  GoodValue(CodeOf(gen, ret, t, lr, path, pool), p, lr, ret)
<1> DEFINE c == CodeOf(gen, ret, t, lr, path, pool)
           v == Values(gen, t, path, pool)
<1> SUFFICES GoodValue(c, p, lr, ret)
  OBVIOUS
<1>1. p \in Grammar
  BY DEF Context
<1>2. t.ntype = p.ntype /\ t.etype = "Int"
  <2>1. Kind(p) = p.ntype /\ NodeType(p, ret) = Denotes(p)
    BY NodeCases
  <2>2. Denotes(p) = "Int"
    BY DenotesCases
  <2> QED BY <2>1, <2>2, ContextNode
<1>3. Good(v.all, {}) /\ \A i \in DOMAIN p.kids : Sane(v.each[i].place) /\ v.each[i].place # None
  BY GoodValues
<1>4. Good(c, {}) /\ c.place # None
  <2>1. CASE p.ntype = "UnaryMinus"
    <3>1. 1 \in DOMAIN p.kids
      BY <1>1, <2>1, PartsOfPhrase, KidsOfPhrase
    <3>2. c = UnaryCode(t, v)
      BY <1>2, <2>1, CodeOfUnary
    <3>3. (v.each[1].place # None) = TRUE
      BY <1>3, <3>1
    <3> HIDE DEF v, c
    <3>4. c = Delivered(v.all, TRUE, "Int", "UMinus", v.each[1].place, None, "")
      BY <1>2, <3>2, <3>3 DEF UnaryCode
    <3> QED BY <1>3, <3>1, <3>4, GoodDelivered, SaneOperands
  <2>2. CASE p.ntype \in Arithmetic
    <3>1. 1 \in DOMAIN p.kids /\ 2 \in DOMAIN p.kids
      BY <1>1, <2>2, PartsOfPhrase, KidsOfPhrase
    <3>2. c = BinaryCode(t, v)
      BY <1>2, <2>2, CodeOfBinary
    <3>3. (v.each[1].place # None /\ v.each[2].place # None) = TRUE
      BY <1>3, <3>1
    <3> HIDE DEF v, c
    <3>4. c = Delivered(v.all, TRUE, "Int", "BinaryArithmetic", v.each[1].place, v.each[2].place, t.ntype)
      BY <1>2, <3>2, <3>3 DEF BinaryCode
    <3> QED BY <1>3, <3>1, <3>4, GoodDelivered
  <2> QED BY <2>1, <2>2
<1> HIDE DEF c
<1> QED BY <1>4 DEF GoodValue, Arithmetic

-----------------------------------------------------------------------------
\* An element of an array.
LEMMA GoodSubscript ==
  ASSUME NEW p, NEW t, NEW gen, NEW ret, Context(p, t, gen, ret), p.ntype = "ArraySubscript",
         NEW lr \in {"L", "R"}, NEW path \in Labels, NEW pool \in Pools
  PROVE  GoodValue(CodeOf(gen, ret, t, lr, path, pool), p, lr, ret)
<1> DEFINE index == generate_function_code(gen, t.kids[1], "R", Append(path, 1), pool)
           freed == free_temporary(index.pool, index.place)
           address == create_temporary(freed, "Addr")
           value == create_temporary(address.pool, elt_type[t.sym])
           indexed == Append(index.code, create_instruction("Index_Array", index.place, Var(t.sym),
                                                            address.place))
           loaded == Append(indexed, create_instruction("Deref", address.place, None, value.place))
           ok == index.ok /\ index.place # None
           c == CodeOf(gen, ret, t, lr, path, pool)
<1>1. p \in Grammar /\ ret \in Results /\ Meaning(p, ret) # "Wrong"
  BY DEF Context
<1>2. t.ntype = "ArraySubscript" /\ t.sym = p.sym
  <2>1. Kind(p) = "ArraySubscript" /\ Named(p) = p.sym
    BY NodeCases DEF Variables
  <2> QED BY <2>1, ContextNode
<1>3. elt_type[t.sym] \in {"Int", "Char"} /\ Meaning(p.kids[1], ret) \in Numeric
  BY <1>1, <1>2, SoundTypes DEF Numeric
<1>4. 1 \in DOMAIN p.kids /\ p.kids[1].ntype \in Expressions /\ p.kids[1].ntype \notin Tests
  BY <1>1, PartsOfPhrase, KidsOfPhrase, NotTests
<1>5. Append(path, 1) \in Labels
  BY LabelPaths
<1>6. GoodValue(index, p.kids[1], "R", ret) /\ Good(index, {}) /\ index.pool \in Pools
  BY <1>4, <1>5, ValuePart
<1>7. c = SubscriptCode(gen, t, lr, path, pool)
  BY <1>2, CodeOfSubscript
<1>8. c = IF lr = "L" THEN Result(indexed, address.pool, None, address.place, ok)
          ELSE Result(loaded, value.pool, value.place, None, ok)
  BY <1>7 DEF SubscriptCode
<1> SUFFICES GoodValue(c, p, lr, ret)
  OBVIOUS
<1> HIDE DEF index, c
<1>9. index.place # None /\ Sane(index.place) /\ index.ok /\ IsCode(index.code) /\ Lands(index.code, {})
  BY <1>3, <1>4, <1>6 DEF GoodValue, Good, Numeric
<1>10. freed \in Pools
  BY <1>6, <1>9, FreedToPool
<1> HIDE DEF freed
<1>11. address.pool \in Pools /\ Sane(address.place)
  BY <1>10, TemporaryOfPool
<1> HIDE DEF address
<1>12. value.pool \in Pools /\ Sane(value.place) /\ value.place # None
  BY <1>3, <1>11, TemporaryOfPool
<1> HIDE DEF value
<1>13. IsCode(indexed) /\ Lands(indexed, {}) /\ IsCode(loaded) /\ Lands(loaded, {})
  <2>1. IsCode(indexed) /\ Lands(indexed, {})
    BY <1>9, PlainInstructions, PlainAppended
  <2> HIDE DEF indexed
  <2> QED BY <2>1, PlainInstructions, PlainAppended
<1>14. ok = TRUE
  BY <1>9
<1> HIDE DEF indexed, loaded, ok
<1>15. CASE lr = "L"
  <2>1. c = Result(indexed, address.pool, None, address.place, TRUE)
    BY <1>8, <1>14, <1>15
  <2>2. Good(c, {})
    BY <2>1, <1>11, <1>13, GoodResult, SaneOperands
  <2> QED BY <2>2, <1>15 DEF GoodValue
<1>16. CASE lr = "R"
  <2>1. c = Result(loaded, value.pool, value.place, None, TRUE)
    BY <1>8, <1>14, <1>16
  <2>2. Good(c, {})
    BY <2>1, <1>12, <1>13, GoodResult, SaneOperands
  <2>3. c.place = value.place
    BY <2>1 DEF Result
  <2> QED BY <2>2, <2>3, <1>12 DEF GoodValue
<1> QED BY <1>15, <1>16

-----------------------------------------------------------------------------
\* Simple statements.
LEMMA GoodAssg ==
  ASSUME NEW p, NEW t, NEW gen, NEW ret, Context(p, t, gen, ret), p.ntype = "Assg",
         NEW lr \in {"L", "R"}, NEW path \in Labels, NEW pool \in Pools
  PROVE  GoodValue(CodeOf(gen, ret, t, lr, path, pool), p, lr, ret)
<1> DEFINE both == InOrder(gen, t.kids, <<"L", "R">>, path, pool)
           dest == IF t.kids[1].ntype = "ArraySubscript" THEN both.each[1].loc ELSE both.each[1].place
           src == both.each[2].place
           freed == free_temporary(both.all.pool, src)
           assigned == Append(both.all.code, create_instruction("Assign", src, None, dest))
           ok == both.all.ok /\ src # None
           c == CodeOf(gen, ret, t, lr, path, pool)
<1>1. p \in Grammar /\ ret \in Results /\ Meaning(p, ret) # "Wrong"
  BY DEF Context
<1>2. t.ntype = "Assg"
  <2>1. Kind(p) = "Assg"
    BY NodeCases
  <2> QED BY <2>1, ContextNode
<1>3. Meaning(p.kids[2], ret) \in Numeric
  BY <1>1, SoundTypes
<1>4. DOMAIN p.kids = 1 .. 2 /\ p.kids[1].ntype \in Expressions /\ p.kids[2].ntype \in Expressions
  BY <1>1, PartsOfPhrase, KidsOfPhrase DEF Expressions
<1>5. \A i \in DOMAIN p.kids : p.kids[i].ntype \notin Tests /\ <<"L", "R">>[i] \in {"L", "R"}
  BY <1>4, NotTests
<1>6. Good(both.all, {}) /\ \A i \in DOMAIN p.kids : GoodValue(both.each[i], p.kids[i], <<"L", "R">>[i], ret)
  BY <1>5, PartsInOrder
<1>7. GoodValue(both.each[2], p.kids[2], "R", ret)
  BY <1>4, <1>6
<1>8. c = AssgCode(gen, t, path, pool)
  BY <1>2, CodeOfAssg
<1>9. c = Result(assigned, freed, None, None, ok)
  BY <1>8 DEF AssgCode
<1> SUFFICES GoodValue(c, p, lr, ret)
  OBVIOUS
<1> HIDE DEF both, c
<1>10. both.all.pool \in Pools /\ IsCode(both.all.code) /\ Lands(both.all.code, {}) /\ both.all.ok
  BY <1>6 DEF Good
<1>11. src # None /\ Sane(src)
  BY <1>3, <1>4, <1>7 DEF GoodValue, Good, Numeric
<1>12. freed \in Pools
  BY <1>10, <1>11, FreedToPool
<1>13. IsCode(assigned) /\ Lands(assigned, {})
  BY <1>10, PlainInstructions, PlainAppended
<1>14. ok = TRUE
  BY <1>10, <1>11
<1> HIDE DEF freed, assigned, ok
<1>15. c = Result(assigned, freed, None, None, TRUE)
  BY <1>9, <1>14
<1>16. Good(c, {})
  BY <1>12, <1>13, <1>15, GoodResult, SaneOperands
<1> QED BY <1>16, ExpressionKinds DEF GoodValue, Statements

\* Code followed by code that ends in a return does.
LEMMA CodeAfter ==
  ASSUME NEW c, NEW d, NEW out, IsCode(c), IsCode(d), Lands(c, out), Lands(d, out)
  PROVE  /\ IsCode(c \o d) /\ Lands(c \o d, out)
         /\ EndsInReturn(d) => EndsInReturn(c \o d)
<1>1. IsCode(c \o d)
  BY CodeParts
<1>2. Lands(c \o d, out)
  <2>1. Lands(c, out \cup LabelsIn(d)) /\ Lands(d, out \cup LabelsIn(c))
    BY LandsMore
  <2> QED BY <2>1, LandsTogether
<1>3. ASSUME EndsInReturn(d) PROVE EndsInReturn(c \o d)
  <2>1. /\ Len(c) \in Nat /\ Len(d) \in Nat /\ DOMAIN d = 1 .. Len(d)
        /\ Len(c \o d) = Len(c) + Len(d) /\ DOMAIN (c \o d) = 1 .. Len(c) + Len(d)
        /\ \A i \in 1 .. Len(d) : (c \o d)[Len(c) + i] = d[i]
    BY BothParts
  <2>2. Len(d) \in 1 .. Len(d) /\ d[Len(d)].op = "Return"
    BY <1>3, <2>1 DEF EndsInReturn
  <2> DEFINE e == c \o d
  <2> HIDE DEF e
  <2>3. Len(e) \in DOMAIN e /\ e[Len(e)] = d[Len(d)]
    BY <2>1, <2>2 DEF e
  <2>4. EndsInReturn(e)
    BY <2>2, <2>3 DEF EndsInReturn
  <2> QED BY <2>4 DEF e
<1> QED BY <1>1, <1>2, <1>3

LEMMA ReturnOnly ==
  ASSUME NEW pool \in Pools
  PROVE  LET only == <<create_instruction("Leave", None, None, None),
                       create_instruction("Return", None, None, None)>>
         IN  Good(Emit(Start(pool), only), {}) /\ EndsInReturn(Emit(Start(pool), only).code)
<1> DEFINE x == create_instruction("Leave", None, None, None)
           y == create_instruction("Return", None, None, None)
           only == <<x, y>>
<1>1. NotJump(x) /\ NotJump(y) /\ y.op = "Return"
  <2>1. NotJump(x) /\ NotJump(y)
    BY PlainInstructions
  <2>2. y.op = "Return"
    BY DEF create_instruction, Instruction
  <2> QED BY <2>1, <2>2
<1> HIDE DEF x, y
<1>2. IsCode(only) /\ Lands(only, {} \cup LabelsIn(Start(pool).code)) /\ EndsInReturn(only)
  BY <1>1, TwoInstructions DEF NotJump, EndsInReturn
<1> HIDE DEF only
<1>3. Start(pool).code = <<>>
  BY DEF Start, Result
<1>4. Good(Start(pool), {} \cup LabelsIn(only))
  BY GoodStart
<1>5. Good(Emit(Start(pool), only), {}) /\ Emit(Start(pool), only).code = <<>> \o only
  BY <1>2, <1>3, <1>4, GoodEmit
<1>6. EndsInReturn(<<>> \o only)
  <2>1. IsCode(<<>>) /\ Lands(<<>>, {}) /\ Lands(only, {} \cup LabelsIn(<<>>))
    BY <1>2, <1>3, NoInstruction
  <2>2. LabelsIn(<<>>) = {}
    BY DEF LabelsIn
  <2> QED BY <1>2, <2>1, <2>2, CodeAfter
<1> QED BY <1>5, <1>6 DEF only, x, y

LEMMA GoodReturn ==
  ASSUME NEW p, NEW t, NEW gen, NEW ret, Context(p, t, gen, ret), p.ntype = "Return",
         NEW lr \in {"L", "R"}, NEW path \in Labels, NEW pool \in Pools
  PROVE  GoodValue(CodeOf(gen, ret, t, lr, path, pool), p, lr, ret)
<1> DEFINE leave == create_instruction("Leave", None, None, None)
           value == generate_function_code(gen, t.kids[1], "R", Append(path, 1), pool)
           new == create_temporary(value.pool, ret)
           last == <<create_instruction("Assign", value.place, None, new.place),
                     create_instruction("Return", new.place, None, None)>>
           only == <<leave, create_instruction("Return", None, None, None)>>
           c == CodeOf(gen, ret, t, lr, path, pool)
<1>1. p \in Grammar /\ ret \in Results /\ Meaning(p, ret) # "Wrong"
  BY DEF Context
<1>2. t.ntype = "Return" /\ 1 \in DOMAIN p.kids /\ t.kids[1] = Tree(p.kids[1], ret) /\ p.kids[1] \in Grammar
      /\ p.kids[1].ntype \in Expressions \cup {"NULL"}
  <2>1. Kind(p) = "Return"
    BY NodeCases
  <2>2. 1 \in DOMAIN p.kids /\ p.kids[1] \in Grammar /\ p.kids[1].ntype \in Expressions \cup {"NULL"}
    BY <1>1, PartsOfPhrase, KidsOfPhrase
  <2> QED BY <2>1, <2>2, ContextNode
<1>3. c = ReturnCode(gen, ret, t, path, pool)
  BY <1>2, CodeOfReturn
<1>4. Good(c, {}) /\ EndsInReturn(c.code)
  <2>1. CASE ret = "None"
    <3>1. t.kids[1].ntype = "NULL"
      BY <1>1, <1>2, <2>1, SoundTypes, NullPhrase, ErrorNode
    <3>2. c = Emit(Start(pool), only)
      BY <1>3, <3>1 DEF ReturnCode
    <3>3. Good(Emit(Start(pool), only), {}) /\ EndsInReturn(Emit(Start(pool), only).code)
      BY ReturnOnly
    <3> HIDE DEF c, only
    <3> QED BY <3>2, <3>3
  <2>2. CASE ret # "None"
    <3>1. Meaning(p.kids[1], ret) \in Numeric
      BY <1>1, <2>2, SoundTypes
    <3>2. p.kids[1].ntype \in Expressions /\ p.kids[1].ntype \notin Tests
      <4>1. p.kids[1].ntype # "NULL"
        BY <1>2, <3>1, NullPhrase DEF Numeric
      <4> QED BY <1>2, <4>1, NotTests
    <3>3. t.kids[1].ntype # "NULL"
      BY <1>2, <3>1, <3>2, SoundOperand, ExpressionKinds DEF Numeric
    <3>4. Append(path, 1) \in Labels
      BY LabelPaths
    <3>5. Good(value, {}) /\ value.pool \in Pools
      BY <1>2, <3>2, <3>4, ValuePart
    <3>6. c = Result(<<leave>> \o value.code \o last, new.pool, None, None, value.ok)
      BY <1>3, <3>3 DEF ReturnCode
    <3>7. ret \in {"Int", "Char"}
      BY <1>1, <2>2 DEF Results, Numeric
    <3> HIDE DEF c, value
    <3>8. new.pool \in Pools
      BY <3>5, <3>7, TemporaryOfPool
    <3>9. IsCode(value.code) /\ Lands(value.code, {}) /\ value.ok = TRUE
      <4>1. IsCode(value.code) /\ Lands(value.code, {}) /\ value.ok
        BY <3>5 DEF Good
      <4>2. value = Result(value.code, value.pool, value.place, value.loc, value.ok)
        BY <3>5 DEF Good
      <4> QED BY <4>1
    <3> DEFINE code1 == <<leave>> \o value.code \o last
    <3>10. IsCode(code1) /\ Lands(code1, {}) /\ EndsInReturn(code1)
      <4> DEFINE x == create_instruction("Assign", value.place, None, new.place)
                 y == create_instruction("Return", new.place, None, None)
      <4>1. NotJump(leave) /\ NotJump(x) /\ NotJump(y) /\ y.op = "Return"
        <5>1. NotJump(leave) /\ NotJump(x) /\ NotJump(y)
          BY PlainInstructions
        <5>2. y.op = "Return"
          BY DEF create_instruction, Instruction
        <5> QED BY <5>1, <5>2
      <4> HIDE DEF leave, x, y, value, new
      <4>2. IsCode(<<leave>>) /\ Lands(<<leave>>, {}) /\ IsCode(<<x, y>>) /\ Lands(<<x, y>>, {})
            /\ EndsInReturn(<<x, y>>)
        BY <4>1, OneInstruction, TwoInstructions DEF NotJump, EndsInReturn
      <4> DEFINE l == <<leave>>
                 z == <<x, y>>
      <4> HIDE DEF l, z
      <4>3. IsCode(l \o value.code) /\ Lands(l \o value.code, {})
        <5>1. IsCode(l) /\ Lands(l, {})
          BY <4>2 DEF l
        <5> QED BY <5>1, <3>9, CodeAfter
      <4>4. IsCode(z) /\ Lands(z, {}) /\ EndsInReturn(z)
        BY <4>2 DEF z
      <4>5. LET d == (l \o value.code) \o z IN IsCode(d) /\ Lands(d, {}) /\ EndsInReturn(d)
        BY <4>3, <4>4, CodeAfter
      <4> QED BY <4>5 DEF l, z, x, y
    <3> HIDE DEF new, code1
    <3>11. c = Result(code1, new.pool, None, None, TRUE)
      BY <3>6, <3>9 DEF code1
    <3>12. c.code = code1
      BY <3>11 DEF Result
    <3>13. Good(c, {})
      BY <3>8, <3>10, <3>11, GoodResult, SaneOperands
    <3>14. EndsInReturn(c.code)
      BY <3>10, <3>12, Zenon
    <3> QED BY <3>13, <3>14
  <2> QED BY <2>1, <2>2
<1> SUFFICES GoodValue(c, p, lr, ret)
  OBVIOUS
<1> HIDE DEF c
<1> QED BY <1>4, ExpressionKinds DEF GoodValue, Statements

-----------------------------------------------------------------------------
\* Calls.
ByAddress(node, i) == IF type[formals[node.sym][i]] = "Array" THEN "L" ELSE "R"

LEMMA GoodActuals ==
  ASSUME NEW p, NEW t, NEW gen, NEW ret, Context(p, t, gen, ret), p.ntype \in Calls,
         NEW path \in Labels, NEW pool \in Pools
  PROVE  LET args == generate_function_args_code(gen, t, path, pool)
         IN  /\ Good(args.all, {}) /\ IsCode(args.each)
             /\ \A i \in DOMAIN args.each : args.each[i].place # None /\ Sane(args.each[i].place)
<1> DEFINE lr == [i \in DOMAIN t.kids |-> ByAddress(t, i)]
           args == InOrder(gen, t.kids, lr, path, pool)
<1>1. p \in Grammar /\ ret \in Results /\ Meaning(p, ret) # "Wrong"
  BY DEF Context
<1>2. t.sym = p.sym /\ DOMAIN t.kids = DOMAIN p.kids
  <2>1. Named(p) = p.sym
    BY DEF Named
  <2> QED BY <2>1, ContextNode
<1>3. \A i \in DOMAIN p.kids : p.kids[i].ntype \in Expressions /\ p.kids[i].ntype \notin Tests
  BY <1>1, PartsOfPhrase, NotTests
<1>4. \A i \in DOMAIN p.kids : lr[i] = ByAddress(p, i) /\ lr[i] \in {"L", "R"}
  BY <1>2 DEF ByAddress
<1>5. \A i \in DOMAIN p.kids : Fits(p, i, Meaning(p.kids[i], ret))
  BY <1>1, SoundTypes
<1>6. args = generate_function_args_code(gen, t, path, pool)
  BY DEF generate_function_args_code, ByAddress
<1> HIDE DEF lr
<1>7. /\ Good(args.all, {}) /\ Len(args.each) = Len(p.kids) /\ IsCode(args.each)
      /\ \A i \in DOMAIN p.kids : GoodValue(args.each[i], p.kids[i], lr[i], ret)
  BY <1>3, <1>4, PartsInOrder
<1>8. DOMAIN args.each = DOMAIN p.kids
  <2>1. DOMAIN args.each = 1 .. Len(args.each)
    BY <1>7, CodeLength
  <2>2. DOMAIN p.kids = 1 .. Len(p.kids)
    BY <1>1, KidsOfPhrase
  <2> QED BY <1>7, <2>1, <2>2
<1> HIDE DEF args
<1>9. ASSUME NEW i \in DOMAIN p.kids PROVE args.each[i].place # None /\ Sane(args.each[i].place)
  <2>1. GoodValue(args.each[i], p.kids[i], lr[i], ret)
    BY <1>7
  <2>2. Sane(args.each[i].place)
    BY <2>1 DEF GoodValue, Good
  <2>3. CASE type[formals[p.sym][i]] = "Array"
    <3>1. p.kids[i].ntype \in {"Stringcon", "Var"}
      BY <1>5, <2>3 DEF Fits
    <3> QED BY <2>1, <2>2, <3>1 DEF GoodValue
  <2>4. CASE type[formals[p.sym][i]] # "Array"
    <3>1. Meaning(p.kids[i], ret) \in Numeric
      BY <1>5, <2>4 DEF Fits
    <3>2. lr[i] = "R"
      BY <1>4, <2>4 DEF ByAddress
    <3> QED BY <1>3, <2>1, <2>2, <3>1, <3>2 DEF GoodValue, Numeric
  <2> QED BY <2>3, <2>4
<1> QED BY <1>6, <1>7, <1>8, <1>9

LEMMA AllPlain ==
  ASSUME NEW c, \A i \in DOMAIN c : NotJump(c[i]), NEW out
  PROVE  Lands(c, out)
BY DEF NotJump, Lands

LEMMA GoodCall ==
  ASSUME NEW p, NEW t, NEW gen, NEW ret, Context(p, t, gen, ret), p.ntype \in Calls,
         NEW lr \in {"L", "R"}, NEW path \in Labels, NEW pool \in Pools
  PROVE  GoodValue(CodeOf(gen, ret, t, lr, path, pool), p, lr, ret)
<1> DEFINE args == generate_function_args_code(gen, t, path, pool)
           passing == [i \in DOMAIN args.each |->
                         IF args.each[i].place # None THEN args.each[i].place ELSE args.each[i].loc]
           params == Reverse([i \in DOMAIN passing |->
                                create_instruction("Param", passing[i], None, None)])
           freed == FreedAll(args.all.pool, passing)
           called == args.all.code \o Append(params, create_instruction("Call", Var(t.sym), None, None))
           ok == args.all.ok /\ \A i \in DOMAIN passing : passing[i] # None
           new == create_temporary(freed, ret_type[t.sym])
           retrieved == Append(called, create_instruction("Retrieve", None, None, new.place))
           c == CodeOf(gen, ret, t, lr, path, pool)
<1>1. p \in Grammar /\ ret \in Results /\ Meaning(p, ret) # "Wrong"
  BY DEF Context
<1>2. t.ntype = "FunCall" /\ t.sym = p.sym
  <2>1. Kind(p) = "FunCall" /\ Named(p) = p.sym
    BY NodeCases DEF Calls
  <2> QED BY <2>1, ContextNode
<1>3. ret_type[t.sym] \in {"Int", "Char", "None"} /\ Meaning(p, ret) = ret_type[t.sym]
  <2>1. ret_type[p.sym] \in Results /\ Denotes(p) = ret_type[p.sym]
    BY <1>1, SoundTypes
  <2>2. Meaning(p, ret) = Denotes(p)
    BY <1>1, SoundParts
  <2> QED BY <1>2, <2>1, <2>2 DEF Results, Numeric
<1>4. c = FunCallCode(gen, t, path, pool)
  BY <1>2, CodeOfCall
<1>5. c = IF ret_type[t.sym] = "None" THEN Result(called, freed, None, None, ok)
          ELSE Result(retrieved, new.pool, new.place, None, ok)
  BY <1>4 DEF FunCallCode
<1> SUFFICES GoodValue(c, p, lr, ret)
  OBVIOUS
<1>6. Good(args.all, {}) /\ IsCode(args.each)
      /\ \A i \in DOMAIN args.each : args.each[i].place # None /\ Sane(args.each[i].place)
  BY GoodActuals
<1> HIDE DEF args, c
<1>7. args.all.pool \in Pools /\ IsCode(args.all.code) /\ Lands(args.all.code, {}) /\ args.all.ok
  BY <1>6 DEF Good
<1>8. Len(args.each) \in Nat /\ DOMAIN args.each = 1 .. Len(args.each)
  BY <1>6, CodeLength
<1>9. passing = [i \in 1 .. Len(args.each) |-> args.each[i].place]
  BY <1>6, <1>8
<1> HIDE DEF passing
<1>10. Len(passing) = Len(args.each) /\ DOMAIN passing = 1 .. Len(passing)
  BY <1>8, <1>9
<1>11. \A i \in DOMAIN passing : passing[i] # None /\ Sane(passing[i])
  BY <1>6, <1>8, <1>9
<1>12. IsCode(params) /\ Lands(params, {})
  <2> DEFINE s == [i \in DOMAIN passing |-> create_instruction("Param", passing[i], None, None)]
  <2>1. Len(s) = Len(passing) /\ Len(s) \in Nat /\ DOMAIN s = 1 .. Len(s)
    BY <1>8, <1>10
  <2>0. \A i \in DOMAIN s : NotJump(s[i])
    BY PlainInstructions
  <2> HIDE DEF s
  <2>2. Reverse(s) = [i \in 1 .. Len(s) |-> s[(Len(s) - i) + 1]]
    BY DEF Reverse
  <2>3. Len(Reverse(s)) = Len(s)
    BY <2>1, <2>2
  <2>4. Reverse(s) = [i \in 1 .. Len(Reverse(s)) |-> Reverse(s)[i]]
    BY <2>2, <2>3
  <2>5. IsCode(Reverse(s))
    BY <2>1, <2>3, <2>4, CodeLength
  <2>6. \A i \in DOMAIN Reverse(s) : NotJump(Reverse(s)[i])
    <3> SUFFICES ASSUME NEW i \in 1 .. Len(s) PROVE NotJump(Reverse(s)[i])
      BY <2>2
    <3>1. (Len(s) - i) + 1 \in DOMAIN s
      BY <2>1
    <3>2. Reverse(s)[i] = s[(Len(s) - i) + 1]
      BY <2>2
    <3> QED BY <2>0, <3>1, <3>2
  <2>7. Lands(Reverse(s), {})
    BY <2>6, AllPlain
  <2> QED BY <2>5, <2>7 DEF s
<1> HIDE DEF params
<1>13. IsCode(called) /\ Lands(called, {})
  <2> DEFINE d == Append(params, create_instruction("Call", Var(t.sym), None, None))
  <2>1. IsCode(d) /\ Lands(d, {})
    BY <1>12, PlainInstructions, PlainAppended
  <2> HIDE DEF d
  <2>2. IsCode(args.all.code \o d) /\ Lands(args.all.code \o d, {})
    BY <1>7, <2>1, CodeAfter
  <2> QED BY <2>2 DEF d
<1>14. freed \in Pools
  BY <1>7, <1>8, <1>10, <1>11, GoodFreed
<1>15. ok = TRUE
  BY <1>7, <1>11
<1> HIDE DEF freed, called, ok
<1>16. CASE ret_type[t.sym] = "None"
  <2>1. c = Result(called, freed, None, None, TRUE)
    BY <1>5, <1>15, <1>16
  <2>2. Good(c, {})
    BY <2>1, <1>13, <1>14, GoodResult, SaneOperands
  <2> QED BY <2>2, <1>3, <1>16 DEF GoodValue, Calls
<1>17. CASE ret_type[t.sym] # "None"
  <2>1. new.pool \in Pools /\ Sane(new.place) /\ new.place # None
    BY <1>3, <1>14, <1>17, TemporaryOfPool
  <2>2. IsCode(retrieved) /\ Lands(retrieved, {})
    BY <1>13, PlainInstructions, PlainAppended
  <2> HIDE DEF new, retrieved
  <2>3. c = Result(retrieved, new.pool, new.place, None, TRUE)
    BY <1>5, <1>15, <1>17
  <2>4. Good(c, {})
    BY <2>1, <2>2, <2>3, GoodResult, SaneOperands
  <2>5. c.place = new.place
    BY <2>3 DEF Result
  <2> QED BY <2>1, <2>4, <2>5 DEF GoodValue, Calls
<1> QED BY <1>16, <1>17

-----------------------------------------------------------------------------
\* Statements made of statements.
LEMMA StatementPart ==
  ASSUME NEW p, NEW t, NEW gen, NEW ret, Context(p, t, gen, ret),
         NEW i \in DOMAIN p.kids, p.kids[i].ntype \in Statements,
         NEW lr \in {"L", "R"}, NEW path \in Labels, NEW before, NEW out, Good(before, out)
  PROVE  LET r == Then(before, generate_function_code(gen, t.kids[i], lr, Append(path, i), before.pool))
         IN  Good(r, out) /\ LabelsIn(before.code) \subseteq LabelsIn(r.code)
<1> DEFINE r == generate_function_code(gen, t.kids[i], lr, Append(path, i), before.pool)
<1>1. i \in Int
  <2>1. p \in Grammar
    BY DEF Context
  <2> QED BY <2>1, KidsOfPhrase
<1>2. Append(path, i) \in Labels /\ before.pool \in Pools /\ p.kids[i].ntype \notin Tests
  BY <1>1, LabelPaths, NotTests DEF Good
<1>3. Good(r, {})
  BY <1>2, ValuePart
<1> HIDE DEF r
<1>4. Good(r, out)
  BY <1>3, GoodMore
<1>5. Good(Then(before, r), out) /\ LabelsIn(before.code) \subseteq LabelsIn(Then(before, r).code)
  BY <1>4, GoodThen
<1> QED BY <1>5 DEF r

LEMMA TestThen ==
  ASSUME NEW p, NEW t, NEW gen, NEW ret, Context(p, t, gen, ret),
         NEW i \in DOMAIN p.kids, p.kids[i].ntype \in Tests,
         NEW yes \in Labels, NEW no \in Labels, NEW path \in Labels,
         NEW before, NEW out, Good(before, out), yes \in out, no \in out
  PROVE  LET r == Then(before, generate_bool_expr_code(gen, t.kids[i], yes, no, Append(path, i), before.pool))
         IN  Good(r, out) /\ LabelsIn(before.code) \subseteq LabelsIn(r.code)
<1> DEFINE r == generate_bool_expr_code(gen, t.kids[i], yes, no, Append(path, i), before.pool)
<1>1. i \in Int
  <2>1. p \in Grammar
    BY DEF Context
  <2> QED BY <2>1, KidsOfPhrase
<1>2. Append(path, i) \in Labels /\ before.pool \in Pools
  BY <1>1, LabelPaths DEF Good
<1>3. Good(r, {yes, no})
  BY <1>2, TestPart
<1> HIDE DEF r
<1>4. Good(r, out)
  <2>1. {yes, no} \subseteq out \cup LabelsIn(r.code)
    OBVIOUS
  <2> QED BY <1>3, <2>1, GoodMore
<1>5. Good(Then(before, r), out) /\ LabelsIn(before.code) \subseteq LabelsIn(Then(before, r).code)
  BY <1>4, GoodThen
<1> QED BY <1>5 DEF r

LEMMA StatementValue ==
  ASSUME NEW c, NEW p, NEW lr, NEW ret, Good(c, {}), p.ntype \in Statements, p.ntype # "Return"
  PROVE  GoodValue(c, p, lr, ret)
BY ExpressionKinds DEF GoodValue, Statements

\* The test jumps over the first part, to the second if there is one.
LEMMA GoodIf ==
  ASSUME NEW p, NEW t, NEW gen, NEW ret, Context(p, t, gen, ret), p.ntype = "If",
         NEW lr \in {"L", "R"}, NEW path \in Labels, NEW pool \in Pools
  PROVE  Good(IfCode(gen, t, lr, path, pool), {})
<1> DEFINE otherwise == t.kids[3].ntype # "NULL"
           yes == Label(path, "then")
           else == Label(path, "else")
           after == Label(path, "after")
           no == Label(path, IF otherwise THEN "else" ELSE "after")
           test == generate_bool_expr_code(gen, t.kids[1], yes, no, Append(path, 1), pool)
           first == Emit(test, <<LabelInstruction(yes)>>)
           second == Then(first, generate_function_code(gen, t.kids[2], lr, Append(path, 2), first.pool))
           third == Emit(second, <<create_jump_instruction(after), LabelInstruction(else)>>)
           last == Then(third, generate_function_code(gen, t.kids[3], lr, Append(path, 3), third.pool))
           before == IF otherwise THEN last ELSE second
           c == Emit(before, <<LabelInstruction(after)>>)
<1>1. p \in Grammar
  BY DEF Context
<1>2. /\ 1 \in DOMAIN p.kids /\ 2 \in DOMAIN p.kids /\ 3 \in DOMAIN p.kids
      /\ p.kids[1].ntype \in Tests /\ p.kids[2].ntype \in Statements /\ p.kids[3].ntype \in Statements
  BY <1>1, PartsOfPhrase, KidsOfPhrase
<1>3. yes \in Labels /\ no \in Labels /\ Append(path, 1) \in Labels
  BY LabelPaths
<1>4. IfCode(gen, t, lr, path, pool) = c
  BY DEF IfCode
<1>0. no = IF otherwise THEN else ELSE after
  OBVIOUS
<1>5. Good(test, {yes, no})
  BY <1>2, <1>3, TestPart
<1> HIDE DEF test, yes, no, else, after
<1>6. Good(first, {no})
  <2>1. Good(test, {no} \cup {yes})
    <3>1. {yes, no} \subseteq ({no} \cup {yes}) \cup LabelsIn(test.code)
      OBVIOUS
    <3> QED BY <1>5, <3>1, GoodMore
  <2> QED BY <2>1, GoodLabel
<1> HIDE DEF first
<1>7. Good(second, {no})
  BY <1>2, <1>6, StatementPart
<1> HIDE DEF second
<1>8. Good(before, {after})
  <2>1. CASE otherwise
    <3>1. Good(second, {after} \cup {else})
      <4>1. {no} \subseteq ({after} \cup {else}) \cup LabelsIn(second.code)
        BY <1>0, <2>1
      <4> QED BY <1>7, <4>1, GoodMore
    <3>2. Good(third, {after})
      BY <3>1, GoodJumpAndLabel
    <3> HIDE DEF third
    <3>3. Good(last, {after})
      BY <1>2, <3>2, StatementPart
    <3> QED BY <2>1, <3>3
  <2>2. CASE ~otherwise
    BY <1>0, <1>7, <2>2
  <2> QED BY <2>1, <2>2
<1> HIDE DEF before
<1>9. Good(c, {})
  <2>1. Good(before, {} \cup {after})
    BY <1>8
  <2> QED BY <2>1, GoodLabel
<1> QED BY <1>4, <1>9

LEMMA GoodWhile ==
  ASSUME NEW p, NEW t, NEW gen, NEW ret, Context(p, t, gen, ret), p.ntype = "While",
         NEW lr \in {"L", "R"}, NEW path \in Labels, NEW pool \in Pools
  PROVE  Good(WhileCode(gen, t, lr, path, pool), {})
<1> DEFINE top == Label(path, "body")
           test_at == Label(path, "eval")
           after == Label(path, "after")
           head == Emit(Start(pool), <<create_jump_instruction(test_at), LabelInstruction(top)>>)
           block == Then(head, generate_function_code(gen, t.kids[2], lr, Append(path, 2), head.pool))
           eval == Emit(block, <<LabelInstruction(test_at)>>)
           test == Then(eval, generate_bool_expr_code(gen, t.kids[1], top, after, Append(path, 1), eval.pool))
           c == Emit(test, <<LabelInstruction(after)>>)
<1>1. p \in Grammar
  BY DEF Context
<1>2. /\ 1 \in DOMAIN p.kids /\ 2 \in DOMAIN p.kids
      /\ p.kids[1].ntype \in Tests /\ p.kids[2].ntype \in Statements
  BY <1>1, PartsOfPhrase, KidsOfPhrase
<1>3. top \in Labels /\ after \in Labels
  BY LabelPaths
<1>4. WhileCode(gen, t, lr, path, pool) = c
  <2>1. head.pool = pool
    BY DEF Emit, Start, Result
  <2> QED BY <2>1 DEF WhileCode
<1> HIDE DEF top, test_at, after
<1>5. Good(head, {test_at, after}) /\ top \in LabelsIn(head.code)
  <2>1. Good(Start(pool), {test_at, after} \cup {top}) /\ test_at \in {test_at, after}
    BY GoodStart
  <2> QED BY <2>1, GoodJumpAndLabel
<1> HIDE DEF head
<1>6. Good(block, {test_at, after}) /\ top \in LabelsIn(block.code)
  BY <1>2, <1>5, StatementPart
<1> HIDE DEF block
<1>7. Good(eval, {after}) /\ top \in LabelsIn(eval.code)
  <2>1. Good(block, {after} \cup {test_at})
    <3>1. {test_at, after} \subseteq ({after} \cup {test_at}) \cup LabelsIn(block.code)
      OBVIOUS
    <3> QED BY <1>6, <3>1, GoodMore
  <2> QED BY <1>6, <2>1, GoodLabel
<1> HIDE DEF eval
<1>8. Good(test, {top, after}) /\ top \in LabelsIn(test.code)
  <2>1. Good(eval, {top, after})
    <3>1. {after} \subseteq {top, after} \cup LabelsIn(eval.code)
      OBVIOUS
    <3> QED BY <1>7, <3>1, GoodMore
  <2>2. top \in {top, after} /\ after \in {top, after}
    OBVIOUS
  <2> QED BY <1>2, <1>3, <1>7, <2>1, <2>2, TestThen
<1> HIDE DEF test
<1>9. Good(c, {})
  <2>1. Good(test, {} \cup {after})
    <3>1. {top, after} \subseteq ({} \cup {after}) \cup LabelsIn(test.code)
      BY <1>8
    <3> QED BY <1>8, <3>1, GoodMore
  <2> QED BY <2>1, GoodLabel
<1> QED BY <1>4, <1>9

LEMMA GoodFor ==
  ASSUME NEW p, NEW t, NEW gen, NEW ret, Context(p, t, gen, ret), p.ntype = "For",
         NEW lr \in {"L", "R"}, NEW path \in Labels, NEW pool \in Pools
  PROVE  Good(ForCode(gen, t, lr, path, pool), {})
<1> DEFINE top == Label(path, "body")
           test_at == Label(path, "eval")
           after == Label(path, "after")
           init == generate_function_code(gen, t.kids[1], lr, Append(path, 1), pool)
           head == Emit(init, <<create_jump_instruction(test_at), LabelInstruction(top)>>)
           block == Then(head, generate_function_code(gen, t.kids[4], lr, Append(path, 4), head.pool))
           update == Then(block, generate_function_code(gen, t.kids[3], lr, Append(path, 3), block.pool))
           eval == Emit(update, <<LabelInstruction(test_at)>>)
           jump == Emit(eval, <<create_jump_instruction(top)>>)
           tests == Then(eval, generate_bool_expr_code(gen, t.kids[2], top, after, Append(path, 2), eval.pool))
           test == IF t.kids[2].ntype = "NULL" THEN jump ELSE tests
           c == Emit(test, <<LabelInstruction(after)>>)
<1>1. p \in Grammar /\ ret \in Results
  BY DEF Context
<1>2. /\ 1 \in DOMAIN p.kids /\ 2 \in DOMAIN p.kids /\ 3 \in DOMAIN p.kids /\ 4 \in DOMAIN p.kids
      /\ p.kids[1].ntype \in Statements /\ p.kids[3].ntype \in Statements
      /\ p.kids[4].ntype \in Statements /\ p.kids[2].ntype \in Tests \cup {"NULL"}
      /\ p.kids[2] \in Grammar
  <2>1. /\ Len(p.kids) = 4 /\ p.kids[1].ntype \in {"Assg", "NULL"}
        /\ p.kids[2].ntype \in Tests \cup {"NULL"} /\ p.kids[3].ntype \in {"Assg", "NULL"}
        /\ p.kids[4].ntype \in Statements
    BY <1>1, PartsOfPhrase
  <2>2. {"Assg", "NULL"} \subseteq Statements
    BY DEF Statements
  <2> QED BY <2>1, <2>2, <1>1, KidsOfPhrase
<1>3. top \in Labels /\ after \in Labels /\ Append(path, 1) \in Labels
  BY LabelPaths
<1>4. ForCode(gen, t, lr, path, pool) = c
  BY DEF ForCode
<1>5. Good(init, {})
  BY <1>2, <1>3, ValuePart, NotTests
<1> HIDE DEF init, top, test_at, after
<1>6. Good(head, {test_at, after}) /\ top \in LabelsIn(head.code)
  <2>1. Good(init, {test_at, after} \cup {top})
    <3>1. {} \subseteq ({test_at, after} \cup {top}) \cup LabelsIn(init.code)
      OBVIOUS
    <3> QED BY <1>5, <3>1, GoodMore
  <2>2. test_at \in {test_at, after}
    OBVIOUS
  <2> QED BY <2>1, <2>2, GoodJumpAndLabel
<1> HIDE DEF head
<1>7. Good(block, {test_at, after}) /\ top \in LabelsIn(block.code)
  BY <1>2, <1>6, StatementPart
<1> HIDE DEF block
<1>8. Good(update, {test_at, after}) /\ top \in LabelsIn(update.code)
  BY <1>2, <1>7, StatementPart
<1> HIDE DEF update
<1>9. Good(eval, {top, after}) /\ top \in LabelsIn(eval.code)
  <2>1. Good(update, {top, after} \cup {test_at})
    <3>1. {test_at, after} \subseteq ({top, after} \cup {test_at}) \cup LabelsIn(update.code)
      OBVIOUS
    <3> QED BY <1>8, <3>1, GoodMore
  <2> QED BY <1>8, <2>1, GoodLabel
<1> HIDE DEF eval
<1>0. top \in {top, after} /\ after \in {top, after}
  OBVIOUS
<1>10. Good(test, {top, after}) /\ top \in LabelsIn(test.code)
  <2>1. CASE t.kids[2].ntype = "NULL"
    <3>1. Good(jump, {top, after}) /\ LabelsIn(eval.code) \subseteq LabelsIn(jump.code)
      BY <1>0, <1>9, GoodJump
    <3> QED BY <1>9, <2>1, <3>1
  <2>2. CASE t.kids[2].ntype # "NULL"
    <3>1. p.kids[2].ntype \in Tests
      <4>1. t.kids[2] = Tree(p.kids[2], ret)
        BY <1>2, ContextNode
      <4> QED BY <1>1, <1>2, <2>2, <4>1, NullPhrase, ErrorNode
    <3>2. Good(tests, {top, after}) /\ LabelsIn(eval.code) \subseteq LabelsIn(tests.code)
      BY <1>0, <1>2, <1>3, <1>9, <3>1, TestThen
    <3> QED BY <1>9, <2>2, <3>2
  <2> QED BY <2>1, <2>2
<1> HIDE DEF test
<1>11. Good(c, {})
  <2>1. Good(test, {} \cup {after})
    <3>1. {top, after} \subseteq ({} \cup {after}) \cup LabelsIn(test.code)
      BY <1>10
    <3> QED BY <1>10, <3>1, GoodMore
  <2> QED BY <2>1, GoodLabel
<1> QED BY <1>4, <1>11

LEMMA GoodStatements ==
  ASSUME NEW p, NEW t, NEW gen, NEW ret, Context(p, t, gen, ret), Kind(p) = "STnodeList",
         NEW lr \in {"L", "R"}, NEW path \in Labels, NEW pool \in Pools
  PROVE  Good(CodeOf(gen, ret, t, lr, path, pool), {})
<1> DEFINE all == [i \in DOMAIN t.kids |-> lr]
           r == InOrder(gen, t.kids, all, path, pool).all
<1>1. p \in Grammar /\ p.ntype = "STnodeList" /\ t.ntype = "STnodeList" /\ DOMAIN t.kids = DOMAIN p.kids
  <2>1. p \in Grammar /\ p.ntype = "STnodeList"
    BY DEF Context, Kind
  <2> QED BY <2>1, ContextNode
<1>2. \A i \in DOMAIN p.kids : p.kids[i].ntype \notin Tests /\ all[i] \in {"L", "R"}
  BY <1>1, PartsOfPhrase, NotTests
<1>3. CodeOf(gen, ret, t, lr, path, pool) = Emit(r, <<>>)
  <2>1. t.ntype = "STnodeList"
    BY <1>1
  <2>2. CodeOf(gen, ret, t, lr, path, pool) = ListCode(gen, t, lr, path, pool)
    BY <2>1, CodeOfList
  <2> QED BY <2>2 DEF ListCode
<1> HIDE DEF all
<1>4. Good(r, {})
  BY <1>2, PartsInOrder
<1> HIDE DEF r
<1>5. Good(Emit(r, <<>>), {})
  <2>1. Good(r, {} \cup LabelsIn(<<>>))
    BY <1>4, GoodMore
  <2> QED BY <2>1, NoInstruction, GoodEmit
<1> QED BY <1>3, <1>5

-----------------------------------------------------------------------------
\* Every level.
LEMMA GoodCode ==
  ASSUME NEW p, NEW t, NEW gen, NEW ret, Context(p, t, gen, ret), p.ntype \notin Tests,
         NEW lr \in {"L", "R"}, NEW path \in Labels, NEW pool \in Pools
  PROVE  GoodValue(CodeOf(gen, ret, t, lr, path, pool), p, lr, ret)
<1> DEFINE c == CodeOf(gen, ret, t, lr, path, pool)
<1>1. p \in Grammar
  BY DEF Context
<1>2. \/ p.ntype \in Literals \cup {"Var"} \/ Kind(p) = "NULL"
      \/ p.ntype \in Arithmetic \cup {"UnaryMinus"} \/ p.ntype = "ArraySubscript" \/ p.ntype \in Calls
      \/ p.ntype \in {"Assg", "Return", "If", "While", "For"} \/ Kind(p) = "STnodeList"
  <2>1. p.ntype \in Expressions \cup Statements
    BY <1>1, PhraseShape
  <2>2. p.ntype \in {"NULL", "STnodeList"} => Kind(p) \in {"NULL", "STnodeList"}
    BY DEF Kind
  <2> QED BY <2>1, <2>2 DEF Expressions, Statements, Variables, Calls
<1>3. CASE p.ntype \in {"If", "While", "For"} \/ Kind(p) = "STnodeList"
  <2>1. p.ntype \in Statements /\ p.ntype # "Return" /\ t.ntype = Kind(p)
    BY <1>3, ContextNode DEF Statements, Kind
  <2>2. Kind(p) = "STnodeList" => Good(c, {})
    BY GoodStatements
  <2>3. p.ntype = "If" => Good(c, {})
    <3> SUFFICES ASSUME p.ntype = "If" PROVE Good(c, {})
      OBVIOUS
    <3>1. t.ntype = "If"
      BY <2>1 DEF Kind
    <3> QED BY <3>1, CodeOfIf, GoodIf
  <2>4. p.ntype = "While" => Good(c, {})
    <3> SUFFICES ASSUME p.ntype = "While" PROVE Good(c, {})
      OBVIOUS
    <3>1. t.ntype = "While"
      BY <2>1 DEF Kind
    <3> QED BY <3>1, CodeOfWhile, GoodWhile
  <2>5. p.ntype = "For" => Good(c, {})
    <3> SUFFICES ASSUME p.ntype = "For" PROVE Good(c, {})
      OBVIOUS
    <3>1. t.ntype = "For"
      BY <2>1 DEF Kind
    <3> QED BY <3>1, CodeOfFor, GoodFor
  <2>6. Good(c, {})
    BY <1>3, <2>2, <2>3, <2>4, <2>5
  <2> QED BY <2>1, <2>6, StatementValue
<1>4. CASE p.ntype \in Literals \cup {"Var"} \/ Kind(p) = "NULL"
  BY <1>4, GoodLeaves
<1>5. CASE p.ntype \in Arithmetic \cup {"UnaryMinus"} \/ p.ntype = "ArraySubscript" \/ p.ntype \in Calls
  BY <1>5, GoodOperators, GoodSubscript, GoodCall
<1>6. CASE p.ntype \in {"Assg", "Return"}
  BY <1>6, GoodAssg, GoodReturn
<1> QED BY <1>2, <1>3, <1>4, <1>5, <1>6

LEMMA RequestOfLevel ==
  ASSUME NEW n, NEW node \in NodesTo[n], NEW mode \in {"R", "L", "B"}, NEW yes \in Labels, NEW no \in Labels,
         NEW path \in Labels, NEW pool \in Pools
  PROVE  Request(node, mode, yes, no, path, pool) \in RequestsTo(n)
BY DEF Request, RequestsTo

LEMMA GeneratedAt ==
  ASSUME NEW ret, NEW n \in 1 .. MaxDepth + 2, NEW node \in NodesTo[n]
  PROVE  /\ \A lr \in {"L", "R"}, path \in Labels, pool \in Pools :
              generate_function_code(Generators(ret)[n], node, lr, path, pool)
                = CodeOf(Generators(ret)[n - 1], ret, node, lr, path, pool)
         /\ \A yes \in Labels, no \in Labels, path \in Labels, pool \in Pools :
              generate_bool_expr_code(Generators(ret)[n], node, yes, no, path, pool)
                = TestCode(Generators(ret)[n - 1], node, yes, no, path, pool)
<1> DEFINE G == Generators(ret)[n]
           H == Generators(ret)[n - 1]
<1>1. ASSUME NEW lr \in {"L", "R"}, NEW path \in Labels, NEW pool \in Pools
      PROVE  generate_function_code(G, node, lr, path, pool) = CodeOf(H, ret, node, lr, path, pool)
  <2> DEFINE x == Request(node, lr, <<>>, <<>>, path, pool)
  <2>1. <<>> \in Labels
    BY DEF Labels
  <2>2. x \in RequestsTo(n)
    BY <2>1, RequestOfLevel
  <2>3. x.node = node /\ x.mode = lr /\ x.path = path /\ x.pool = pool
    BY RequestFields
  <2>4. generate_function_code(G, node, lr, path, pool) = G[x]
    BY DEF generate_function_code
  <2> HIDE DEF x
  <2>5. G[x] = CodeFor(H, ret, x)
    BY <2>2, GeneratorStep
  <2> HIDE DEF G, H
  <2>6. lr # "B"
    OBVIOUS
  <2>7. CodeFor(H, ret, x) = CodeOf(H, ret, node, lr, path, pool)
    BY <2>3, <2>6 DEF CodeFor
  <2> QED BY <2>4, <2>5, <2>7
<1>2. ASSUME NEW yes \in Labels, NEW no \in Labels, NEW path \in Labels, NEW pool \in Pools
      PROVE  generate_bool_expr_code(G, node, yes, no, path, pool) = TestCode(H, node, yes, no, path, pool)
  <2> DEFINE x == Request(node, "B", yes, no, path, pool)
  <2>1. x \in RequestsTo(n)
    BY RequestOfLevel
  <2>2. x.node = node /\ x.mode = "B" /\ x.yes = yes /\ x.no = no /\ x.path = path /\ x.pool = pool
    BY RequestFields
  <2>3. generate_bool_expr_code(G, node, yes, no, path, pool) = G[x]
    BY DEF generate_bool_expr_code
  <2> HIDE DEF x
  <2>4. G[x] = CodeFor(H, ret, x)
    BY <2>1, GeneratorStep
  <2> HIDE DEF G, H
  <2>5. CodeFor(H, ret, x) = TestCode(H, node, yes, no, path, pool)
    BY <2>2 DEF CodeFor
  <2> QED BY <2>3, <2>4, <2>5
<1> QED BY <1>1, <1>2

LEMMA GoodLevels ==
  ASSUME NEW ret \in Results
  PROVE  \A n \in 0 .. MaxDepth + 2 : GoodLevel(n, ret)
<1> DEFINE T == {n \in Nat : n <= MaxDepth + 2 => GoodLevel(n, ret)}
<1>1. 0 \in T
  <2>1. NodesTo[0] = {}
    BY LevelZero
  <2> QED BY <2>1 DEF GoodLevel
<1>2. ASSUME NEW n \in Nat, n \in T PROVE n + 1 \in T
  <2> SUFFICES ASSUME n + 1 <= MaxDepth + 2 PROVE GoodLevel(n + 1, ret)
    OBVIOUS
  <2>1. n + 1 \in 1 .. MaxDepth + 2 /\ (n + 1) - 1 = n
    BY DepthIsNatural
  <2>2. GoodLevel(n, ret)
    BY <1>2, DepthIsNatural
  <2> DEFINE G == Generators(ret)[n + 1]
             H == Generators(ret)[n]
  <2> SUFFICES ASSUME NEW p \in Grammar, Meaning(p, ret) # "Wrong", Tree(p, ret) \in NodesTo[n + 1]
               PROVE  /\ p.ntype \notin Tests =>
                           \A lr \in {"L", "R"}, path \in Labels, pool \in Pools :
                             GoodValue(generate_function_code(G, Tree(p, ret), lr, path, pool), p, lr, ret)
                      /\ p.ntype \in Tests =>
                           \A yes \in Labels, no \in Labels, path \in Labels, pool \in Pools :
                             Good(generate_bool_expr_code(G, Tree(p, ret), yes, no, path, pool), {yes, no})
    BY DEF GoodLevel
  <2> DEFINE t == Tree(p, ret)
  <2>3. Context(p, t, H, ret)
    <3>1. GoodLevel((n + 1) - 1, ret)
      BY <2>1, <2>2
    <3>2. Context(p, t, Generators(ret)[(n + 1) - 1], ret)
      BY <2>1, <3>1, LevelBelow
    <3> QED BY <2>1, <3>2
  <2>4. /\ \A lr \in {"L", "R"}, path \in Labels, pool \in Pools :
             generate_function_code(G, t, lr, path, pool) = CodeOf(H, ret, t, lr, path, pool)
        /\ \A yes \in Labels, no \in Labels, path \in Labels, pool \in Pools :
             generate_bool_expr_code(G, t, yes, no, path, pool) = TestCode(H, t, yes, no, path, pool)
    BY <2>1, GeneratedAt
  <2> HIDE DEF G, H, t
  <2>5. ASSUME p.ntype \notin Tests, NEW lr \in {"L", "R"}, NEW path \in Labels, NEW pool \in Pools
        PROVE  GoodValue(generate_function_code(G, t, lr, path, pool), p, lr, ret)
    BY <2>3, <2>4, <2>5, GoodCode
  <2>6. ASSUME p.ntype \in Tests, NEW yes \in Labels, NEW no \in Labels, NEW path \in Labels, NEW pool \in Pools
        PROVE  Good(generate_bool_expr_code(G, t, yes, no, path, pool), {yes, no})
    BY <2>3, <2>4, <2>6, GoodTests
  <2> QED BY <2>5, <2>6 DEF t
<1>3. \A n \in Nat : n \in T
  <2> HIDE DEF T
  <2> QED BY <1>1, <1>2, SetInduction
<1> SUFFICES ASSUME NEW n \in 0 .. MaxDepth + 2 PROVE GoodLevel(n, ret)
  OBVIOUS
<1>4. n \in Nat /\ n <= MaxDepth + 2
  BY DepthIsNatural
<1> QED BY <1>3, <1>4

-----------------------------------------------------------------------------
\* The return appended to a body.
End == mkExprNode("Return", "None", <<NULL>>)

LEMMA LevelsUp ==
  /\ NodesTo[MaxDepth] \subseteq NodesTo[MaxDepth + 1]
  /\ NodesTo[MaxDepth + 1] \subseteq NodesTo[MaxDepth + 2]
<1>1. MaxDepth \in 0 .. MaxDepth + 1 /\ MaxDepth + 1 \in 0 .. MaxDepth + 1
      /\ (MaxDepth + 1) + 1 = MaxDepth + 2
  BY DepthIsNatural
<1> QED BY <1>1, NodeLevelsGrow

LEMMA SomeDepth ==
  ASSUME NEW p \in Grammar
  PROVE  MaxDepth \in 1 .. MaxDepth + 2
<1>1. MaxDepth # 0
  <2> SUFFICES ASSUME MaxDepth = 0 PROVE FALSE
    OBVIOUS
  <2>1. p \in PhrasesTo[0]
    BY DEF Grammar
  <2> QED BY <2>1, LevelZero
<1> QED BY <1>1, DepthIsNatural

LEMMA SequencesOf ==
  ASSUME NEW S, NEW x \in S
  PROVE  <<x>> \in Seq(S) /\ \A s \in Seq(S) : Append(s, x) \in Seq(S)
OBVIOUS

LEMMA EndNode ==
  ASSUME NEW p \in Grammar
  PROVE  /\ End \in NodesTo[MaxDepth + 1] /\ End \in NodesTo[MaxDepth + 2]
         /\ End.ntype = "Return" /\ End.kids[1].ntype = "NULL"
<1>1. MaxDepth \in 1 .. MaxDepth + 2 /\ MaxDepth + 1 \in 1 .. MaxDepth + 2 /\ (MaxDepth + 1) - 1 = MaxDepth
  BY SomeDepth, DepthIsNatural
<1>2. NULL = [ntype |-> "NULL", etype |-> "None", sym |-> "", val |-> 0, kids |-> <<>>, reported |-> FALSE]
  <2>1. (FALSE \/ \E i \in DOMAIN <<>> : <<>>[i].reported) = FALSE
    OBVIOUS
  <2> QED BY <2>1 DEF NULL, Node
<1>3. \A S : NULL \in NodesOver(S)
  <2> SUFFICES ASSUME NEW S PROVE NULL \in NodesOver(S)
    OBVIOUS
  <2>1. "NULL" \in Expressions \cup Tests \cup Statements /\ "None" \in Results \cup {"Array", "Func", "Bool"}
        /\ "" \in Names \cup {""} /\ 0 \in Int /\ <<>> \in Seq(S) /\ FALSE \in {FALSE}
    BY DEF Statements, Results
  <2> QED BY <1>2, <2>1, Zenon DEF NodesOver
<1>4. NULL \in NodesTo[MaxDepth]
  BY <1>1, <1>3, NodeOfLevel
<1>5. End = [ntype |-> "Return", etype |-> "None", sym |-> "", val |-> 0, kids |-> <<NULL>>, reported |-> FALSE]
  <2> DEFINE k == <<NULL>>
  <2>1. DOMAIN k = 1 .. 1 /\ k[1] = NULL
    OBVIOUS
  <2>2. ~NULL.reported
    BY ErrorNode
  <2> HIDE DEF k
  <2>3. (FALSE \/ \E i \in DOMAIN k : k[i].reported) = FALSE
    BY <2>1, <2>2
  <2>4. End = [ntype |-> "Return", etype |-> "None", sym |-> "", val |-> 0, kids |-> k,
               reported |-> FALSE \/ \E i \in DOMAIN k : k[i].reported]
    BY DEF End, mkExprNode, Node, k
  <2> QED BY <2>3, <2>4 DEF k
<1>6. End \in NodesOver(NodesTo[MaxDepth])
  <2>1. <<NULL>> \in Seq(NodesTo[MaxDepth])
    BY <1>4, SequencesOf
  <2>2. "Return" \in Expressions \cup Tests \cup Statements /\ "None" \in Results \cup {"Array", "Func", "Bool"}
        /\ "" \in Names \cup {""} /\ 0 \in Int /\ FALSE \in {FALSE}
    BY DEF Statements, Results
  <2> QED BY <1>5, <2>1, <2>2, Zenon DEF NodesOver
<1>7. End \in NodesTo[MaxDepth + 1]
  BY <1>1, <1>6, NodeOfLevel
<1> QED BY <1>5, <1>7, LevelsUp, ErrorNode

\* Its code follows no place and ends in a return.
LEMMA GoodEnd ==
  ASSUME NEW ret, NEW p \in Grammar, NEW n \in {MaxDepth + 1, MaxDepth + 2},
         NEW lr \in {"L", "R"}, NEW path \in Labels, NEW pool \in Pools
  PROVE  LET c == generate_function_code(Generators(ret)[n], End, lr, path, pool)
         IN  Good(c, {}) /\ EndsInReturn(c.code)
<1> DEFINE only == <<create_instruction("Leave", None, None, None),
                     create_instruction("Return", None, None, None)>>
           H == Generators(ret)[n - 1]
           c == generate_function_code(Generators(ret)[n], End, lr, path, pool)
<1>1. n \in 1 .. MaxDepth + 2 /\ End \in NodesTo[n]
  BY EndNode, DepthIsNatural
<1>2. c = CodeOf(H, ret, End, lr, path, pool)
  BY <1>1, GeneratedAt
<1>3. End.ntype = "Return" /\ End.kids[1].ntype = "NULL"
  BY EndNode
<1> HIDE DEF H
<1>4. CodeOf(H, ret, End, lr, path, pool) = ReturnCode(H, ret, End, path, pool)
  BY <1>3, CodeOfReturn
<1>5. ReturnCode(H, ret, End, path, pool) = Emit(Start(pool), only)
  BY <1>3 DEF ReturnCode
<1>6. Good(Emit(Start(pool), only), {}) /\ EndsInReturn(Emit(Start(pool), only).code)
  BY ReturnOnly
<1> HIDE DEF only, c
<1>7. Good(c, {}) /\ EndsInReturn(c.code)
  BY <1>2, <1>4, <1>5, <1>6
<1> QED BY <1>7 DEF c

-----------------------------------------------------------------------------
\* A body that means something and does not end in an empty statement.
LEMMA LastStatement ==
  ASSUME NEW ret \in Results, NEW p \in Grammar, p.ntype = "STnodeList", Meaning(p, ret) # "Wrong",
         p.kids # <<>>, ~LastIsEmpty(p)
  PROVE  /\ Len(p.kids) \in DOMAIN p.kids
         /\ Tree(p.kids[Len(p.kids)], ret).ntype # "NULL"
<1> DEFINE q == p.kids[Len(p.kids)]
<1>1. Len(p.kids) \in DOMAIN p.kids
  BY KidsOfPhrase
<1>2. q \in Grammar /\ Meaning(q, ret) # "Wrong" /\ q.ntype \in Statements
  BY <1>1, KidsOfPhrase, SoundParts, PartsOfPhrase
<1>3. Tree(q, "None").ntype # "NULL"
  BY DEF LastIsEmpty
<1> HIDE DEF q
<1>4. q.ntype # "NULL"
  BY <1>2, <1>3, NullPhrase, ErrorNode
<1>5. q.ntype = "STnodeList" => q.kids # <<>>
  <2> SUFFICES ASSUME q.ntype = "STnodeList", q.kids = <<>> PROVE FALSE
    OBVIOUS
  <2> DEFINE k == [i \in DOMAIN q.kids |-> Tree(q.kids[i], "None")]
  <2>1. k = <<>>
    OBVIOUS
  <2>2. Tree(q, "None") = Reduced(q, k, "None")
    BY <1>2, TreeStep
  <2> HIDE DEF k
  <2>3. Tree(q, "None") = NULL
    BY <2>1, <2>2, ReducedCases
  <2> QED BY <1>3, <2>3, ErrorNode
<1>6. Kind(q) # "NULL"
  BY <1>4, <1>5 DEF Kind
<1>7. Tree(q, ret) = NodeOver(q, ret, FALSE)
  BY <1>2, SoundParts
<1>8. Tree(q, ret).ntype # "NULL"
  BY <1>6, <1>7 DEF NodeOver, Node
<1> QED BY <1>1, <1>8 DEF q

\* A list of statements that ends in one whose code ends in a return.
LEMMA ReturnAtEnd ==
  ASSUME NEW ret \in Results, NEW full \in NodesOver(NodesTo[MaxDepth + 1]), full.ntype = "STnodeList",
         Len(full.kids) # 0,
         \A i \in 1 .. Len(full.kids) : \A here \in Labels, from \in Pools :
           LET c == generate_function_code(Generators(ret)[MaxDepth + 1], full.kids[i], "R", here, from)
           IN  Good(c, {}) /\ (i = Len(full.kids) => EndsInReturn(c.code))
  PROVE  LET c == generate_function_code(Generators(ret)[MaxDepth + 2], full, "R", <<>>, NoTemporaries)
         IN  Good(c, {}) /\ EndsInReturn(c.code)
<1> DEFINE G == Generators(ret)[MaxDepth + 2]
           H == Generators(ret)[MaxDepth + 1]
           m == Len(full.kids)
           lr == [i \in DOMAIN full.kids |-> "R"]
           r == InOrder(H, full.kids, lr, <<>>, NoTemporaries).all
           c == generate_function_code(G, full, "R", <<>>, NoTemporaries)
           none == <<>>
<1>1. <<>> \in Labels /\ NoTemporaries \in Pools /\ "R" \in {"L", "R"}
  BY EmptyPool DEF Labels
<1>2. MaxDepth + 2 \in 1 .. MaxDepth + 2 /\ (MaxDepth + 2) - 1 = MaxDepth + 1
  BY DepthIsNatural
<1>3. full \in NodesTo[MaxDepth + 2]
  BY <1>2, NodeOfLevel
<1>4. c = CodeOf(H, ret, full, "R", <<>>, NoTemporaries)
  <2>1. c = CodeOf(Generators(ret)[(MaxDepth + 2) - 1], ret, full, "R", <<>>, NoTemporaries)
    BY <1>1, <1>2, <1>3, GeneratedAt
  <2> QED BY <1>2, <2>1
<1>5. m \in Nat \ {0} /\ DOMAIN full.kids = 1 .. m
  <2>1. full.kids \in Seq(NodesTo[MaxDepth + 1])
    BY DEF NodesOver
  <2> QED BY <2>1
<1>6. \A i \in 1 .. m : lr[i] = "R"
  BY <1>5
<1> HIDE DEF H, G, c
<1>7. CodeOf(H, ret, full, "R", <<>>, NoTemporaries) = Emit(r, <<>>)
  <2>1. CodeOf(H, ret, full, "R", <<>>, NoTemporaries) = ListCode(H, full, "R", <<>>, NoTemporaries)
    BY CodeOfList
  <2> QED BY <2>1 DEF ListCode
<1>8. c = Emit(r, none)
  BY <1>4, <1>7
<1> HIDE DEF lr, none
<1>9. \A i \in 1 .. m : \A here \in Labels, from \in Pools :
        LET g == H[Request(full.kids[i], lr[i], <<>>, <<>>, here, from)]
        IN  Good(g, {}) /\ (i = m => EndsInReturn(g.code))
  BY <1>6 DEF H, generate_function_code
<1>10. PICK before : \E here \in Labels, from \in Pools :
         Good(before, {}) /\ r = Then(before, H[Request(full.kids[m], lr[m], <<>>, <<>>, here, from)])
  <2>1. \A i \in 1 .. m : \A here \in Labels, from \in Pools :
          Good(H[Request(full.kids[i], lr[i], <<>>, <<>>, here, from)], {})
    BY <1>9
  <2> DEFINE k == full.kids
             pool == NoTemporaries
  <2>2. none \in Labels /\ pool \in Pools /\ r = InOrder(H, k, lr, none, pool).all
    BY <1>1 DEF none
  <2>3. Len(k) \in Nat \ {0} /\ \A i \in 1 .. Len(k) : \A here \in Labels, from \in Pools :
          Good(H[Request(k[i], lr[i], <<>>, <<>>, here, from)], {})
    BY <1>5, <2>1
  <2> HIDE DEF r, k, pool
  <2>4. EndsIn(InOrder(H, k, lr, none, pool).all, H, k[Len(k)], lr[Len(k)])
    BY <2>2, <2>3, LastInOrder
  <2> QED BY <2>2, <2>4 DEF k, EndsIn
<1>11. PICK here \in Labels, from \in Pools :
         Good(before, {}) /\ r = Then(before, H[Request(full.kids[m], lr[m], <<>>, <<>>, here, from)])
  BY <1>10
<1> DEFINE g == H[Request(full.kids[m], lr[m], <<>>, <<>>, here, from)]
<1>12. Good(g, {}) /\ EndsInReturn(g.code)
  BY <1>5, <1>9
<1> HIDE DEF g, r
<1>13. Good(r, {}) /\ r.code = before.code \o g.code
  BY <1>11, <1>12, GoodThen, ZenonT(60) DEF g
<1>14. EndsInReturn(r.code)
  <2>1. IsCode(before.code) /\ IsCode(g.code) /\ Lands(before.code, {}) /\ Lands(g.code, {})
    BY <1>11, <1>12 DEF Good
  <2> QED BY <1>12, <1>13, <2>1, CodeAfter
<1>15. IsCode(none) /\ Lands(none, {} \cup LabelsIn(r.code))
  BY NoInstruction DEF none
<1>16. Good(Emit(r, none), {}) /\ Emit(r, none).code = r.code \o none
  <2>1. Good(r, {} \cup LabelsIn(none))
    BY <1>13, GoodMore
  <2> QED BY <1>15, <2>1, GoodEmit
<1>17. r.code \o none = r.code
  <2> DEFINE d == r.code
             S == {d[i] : i \in DOMAIN d}
  <2>1. d \in Seq(S)
    BY <1>13 DEF Good, IsCode
  <2> HIDE DEF d, S
  <2>2. d \o none = d
    BY <2>1 DEF none
  <2> QED BY <2>2 DEF d
<1>18. Good(c, {}) /\ EndsInReturn(c.code)
  BY <1>8, <1>14, <1>16, <1>17
<1> QED BY <1>18 DEF c, G

LEMMA NotCrash ==
  ASSUME NEW ret \in Results, NEW p \in Grammar, p.ntype = "STnodeList", Meaning(p, ret) # "Wrong",
         ~LastIsEmpty(p)
  PROVE  AppendReturn(Tree(p, ret)).ntype # "Crash"
<1> DEFINE t == Tree(p, ret)
<1>1. t.ntype = Kind(p) /\ t.kids = PartTrees(p, ret)
  <2>1. t = NodeOver(p, ret, FALSE)
    BY SoundParts
  <2> QED BY <2>1 DEF NodeOver, Node
<1>2. CASE p.kids = <<>>
  <2>1. t.ntype = "NULL"
    BY <1>1, <1>2 DEF Kind
  <2>2. AppendReturn(t) = End
    BY <2>1 DEF AppendReturn, End
  <2> QED BY <2>2, EndNode
<1>3. CASE p.kids # <<>>
  <2> DEFINE m == Len(p.kids)
  <2>1. t.ntype = "STnodeList"
    BY <1>1, <1>3 DEF Kind
  <2>2. Len(t.kids) = m /\ t.kids[m] = Tree(p.kids[m], ret)
    <3>1. DOMAIN p.kids = 1 .. m /\ m \in Nat /\ m \in DOMAIN p.kids
      BY <1>3, KidsOfPhrase, LastStatement
    <3> HIDE DEF m
    <3>2. Len(PartTrees(p, ret)) = m /\ PartTrees(p, ret)[m] = Tree(p.kids[m], ret)
      BY <3>1 DEF PartTrees
    <3> QED BY <1>1, <3>2
  <2>3. t.kids[Len(t.kids)].ntype # "NULL"
    BY <1>3, <2>2, LastStatement
  <2>4. AppendReturn(t).ntype = "STnodeList"
    BY <2>1, <2>3 DEF AppendReturn
  <2> QED BY <2>4
<1> QED BY <1>2, <1>3

LEMMA GoodBody ==
  ASSUME NEW ret \in Results, NEW p \in Grammar, p.ntype = "STnodeList", Meaning(p, ret) # "Wrong",
         AppendReturn(Tree(p, ret)).ntype # "Crash"
  PROVE  LET full == AppendReturn(Tree(p, ret))
             c == generate_function_code(Generators(ret)[MaxDepth + 2], full, "R", <<>>, NoTemporaries)
         IN  Good(c, {}) /\ EndsInReturn(c.code)
<1> DEFINE t == Tree(p, ret)
           full == AppendReturn(t)
           G == Generators(ret)[MaxDepth + 2]
           H == Generators(ret)[MaxDepth + 1]
           Wanted(x) == Good(generate_function_code(G, x, "R", <<>>, NoTemporaries), {})
                        /\ EndsInReturn(generate_function_code(G, x, "R", <<>>, NoTemporaries).code)
<1> SUFFICES Wanted(full)
  OBVIOUS
<1>1. <<>> \in Labels /\ NoTemporaries \in Pools /\ "R" \in {"L", "R"}
  BY EmptyPool DEF Labels
<1>2. MaxDepth + 2 \in 1 .. MaxDepth + 2 /\ MaxDepth + 2 \in 0 .. MaxDepth + 2
      /\ MaxDepth + 1 \in 0 .. MaxDepth + 2 /\ (MaxDepth + 2) - 1 = MaxDepth + 1
      /\ MaxDepth \in 0 .. MaxDepth
  BY DepthIsNatural
<1>3. t = NodeOver(p, ret, FALSE) /\ t.ntype = Kind(p) /\ t.kids = PartTrees(p, ret)
  <2>1. t = NodeOver(p, ret, FALSE)
    BY SoundParts
  <2> QED BY <2>1 DEF NodeOver, Node
<1>4. t \in NodesTo[MaxDepth + 2]
  <2>1. t \in NodesTo[MaxDepth]
    BY <1>2, TreesInNodes DEF Grammar
  <2> QED BY <2>1, LevelsUp
<1>5. CASE p.kids = <<>>
  <2>1. t.ntype = "NULL"
    BY <1>3, <1>5 DEF Kind
  <2>2. full = End
    BY <2>1 DEF AppendReturn, End
  <2>3. Wanted(End)
    BY <1>1, GoodEnd
  <2> HIDE DEF full, Wanted
  <2> QED BY <2>2, <2>3
<1>6. CASE p.kids # <<>>
  <2> DEFINE m == Len(p.kids)
             last == t.kids[Len(t.kids)]
  <2>1. t.ntype = "STnodeList"
    BY <1>3, <1>6 DEF Kind
  <2>2. Len(t.kids) = m /\ m \in Nat /\ DOMAIN t.kids = 1 .. m /\ DOMAIN p.kids = 1 .. m
        /\ \A i \in DOMAIN p.kids : t.kids[i] = Tree(p.kids[i], ret)
    <3>1. DOMAIN p.kids = 1 .. m /\ m \in Nat
      BY KidsOfPhrase
    <3> HIDE DEF m
    <3>2. Len(PartTrees(p, ret)) = m /\ DOMAIN PartTrees(p, ret) = 1 .. m
          /\ \A i \in DOMAIN p.kids : PartTrees(p, ret)[i] = Tree(p.kids[i], ret)
      BY <3>1 DEF PartTrees
    <3> QED BY <1>3, <3>1, <3>2
  <2>3. last.ntype # "NULL"
    <3> SUFFICES ASSUME last.ntype = "NULL" PROVE FALSE
      OBVIOUS
    <3>1. full = FollowsNULL
      BY <2>1 DEF AppendReturn
    <3>2. FollowsNULL.ntype = "Crash"
      BY DEF FollowsNULL, Node
    <3> QED BY <3>1, <3>2
  <2>4. t.kids \in Seq(NodesTo[MaxDepth + 1]) /\ t \in NodesOver(NodesTo[MaxDepth + 1])
    <3>1. t \in NodesOver(NodesTo[MaxDepth + 1])
      BY <1>2, <1>4, NodeOfLevel
    <3> QED BY <3>1 DEF NodesOver
  \* Each statement, the last of them among those that end in a return.
  <2>5. ASSUME NEW i \in 1 .. m, NEW here \in Labels, NEW from \in Pools
        PROVE  LET c == generate_function_code(H, t.kids[i], "R", here, from)
               IN  Good(c, {}) /\ (t.kids[i].ntype = "Return" => EndsInReturn(c.code))
    <3> DEFINE q == p.kids[i]
    <3>1. i \in DOMAIN p.kids /\ t.kids[i] = Tree(q, ret)
      BY <2>2
    <3>2. q \in Grammar /\ Meaning(q, ret) # "Wrong" /\ q.ntype \notin Tests
      BY <3>1, KidsOfPhrase, SoundParts, PartsOfPhrase, NotTests
    <3>3. Tree(q, ret) \in NodesTo[MaxDepth + 1]
      <4>1. Tree(q, ret) \in NodesTo[MaxDepth]
        BY <1>2, <3>2, TreesInNodes DEF Grammar
      <4> QED BY <4>1, LevelsUp
    <3>4. GoodLevel(MaxDepth + 1, ret)
      BY <1>2, GoodLevels
    <3>5. GoodValue(generate_function_code(H, Tree(q, ret), "R", here, from), q, "R", ret)
      BY <1>1, <3>2, <3>3, <3>4 DEF GoodLevel
    <3>6. Tree(q, ret).ntype = "Return" => q.ntype = "Return"
      <4>1. Tree(q, ret) = NodeOver(q, ret, FALSE)
        BY <3>2, SoundParts
      <4>2. Tree(q, ret).ntype = Kind(q)
        BY <4>1 DEF NodeOver, Node
      <4> QED BY <4>2 DEF Kind
    <3> HIDE DEF q, H, t
    <3> QED BY <3>1, <3>5, <3>6 DEF GoodValue
  <2>6. CASE last.ntype = "Return"
    <3>1. full = t
      BY <2>1, <2>3, <2>6 DEF AppendReturn
    <3>2. Len(t.kids) # 0
      <4>1. p.kids \in Seq(Grammar)
        BY PhraseShape
      <4>2. m # 0
        BY <1>6, <4>1
      <4> QED BY <2>2, <4>2
    <3>3. \A i \in 1 .. Len(t.kids) : \A here \in Labels, from \in Pools :
            LET c == generate_function_code(H, t.kids[i], "R", here, from)
            IN  Good(c, {}) /\ (i = Len(t.kids) => EndsInReturn(c.code))
      BY <2>2, <2>5, <2>6
    <3>4. Wanted(t)
      BY <2>1, <2>4, <3>2, <3>3, ReturnAtEnd
    <3> HIDE DEF full, Wanted
    <3> QED BY <3>1, <3>4
  <2>7. CASE last.ntype # "Return"
    <3> DEFINE kids == Append(t.kids, End)
    <3>1. full = [t EXCEPT !.kids = kids]
      BY <2>1, <2>3, <2>7 DEF AppendReturn, End
    <3>2. kids \in Seq(NodesTo[MaxDepth + 1])
      <4>1. End \in NodesTo[MaxDepth + 1]
        BY EndNode
      <4> QED BY <2>4, <4>1, SequencesOf
    <3>3. Len(kids) = m + 1 /\ kids[m + 1] = End /\ \A i \in 1 .. m : kids[i] = t.kids[i]
      <4>1. t.kids \in Seq(NodesTo[MaxDepth + 1]) /\ Len(t.kids) = m /\ m \in Nat
        BY <2>2, <2>4
      <4> HIDE DEF m, t
      <4> QED BY <4>1
    <3> HIDE DEF kids, t, m, H
    <3>4. full \in NodesOver(NodesTo[MaxDepth + 1]) /\ full.ntype = "STnodeList" /\ full.kids = kids
      BY <2>1, <2>4, <3>1, <3>2 DEF NodesOver
    <3>5. Len(full.kids) # 0
      BY <2>2, <3>3, <3>4
    <3>6. \A i \in 1 .. Len(full.kids) : \A here \in Labels, from \in Pools :
            LET c == generate_function_code(H, full.kids[i], "R", here, from)
            IN  Good(c, {}) /\ (i = Len(full.kids) => EndsInReturn(c.code))
      <4> SUFFICES ASSUME NEW i \in 1 .. m + 1, NEW here \in Labels, NEW from \in Pools
                   PROVE  LET c == generate_function_code(H, kids[i], "R", here, from)
                          IN  Good(c, {}) /\ (i = m + 1 => EndsInReturn(c.code))
        BY <3>3, <3>4
      <4>1. CASE i = m + 1
        <5>1. LET c == generate_function_code(H, End, "R", here, from)
              IN  Good(c, {}) /\ EndsInReturn(c.code)
          BY <1>1, GoodEnd DEF H
        <5> QED BY <3>3, <4>1, <5>1
      <4>2. CASE i # m + 1
        <5>1. i \in 1 .. m
          BY <2>2, <4>2
        <5> QED BY <2>5, <3>3, <4>2, <5>1
      <4> QED BY <4>1, <4>2
    <3> HIDE DEF full
    <3>7. Wanted(full)
      BY <3>4, <3>5, <3>6, ReturnAtEnd DEF H
    <3> QED BY <3>7
  <2> QED BY <2>6, <2>7
<1> QED BY <1>5, <1>6

-----------------------------------------------------------------------------
\* The peephole keeps the length of the code, what each instruction is and
\* that jumps land; an instruction made dead is a jump or an assignment.
Walk(f, i) == Peeped(f[i - 1], i)
IsWalk(f, n, c) == f = [i \in 0 .. n |-> IF i = 0 THEN [code |-> c, dead |-> {}] ELSE Walk(f, i)]
SameKind(x, y, labels) ==
  /\ IsInstruction(x) /\ x.op = y.op
  /\ x.op = "Label" => x.label = y.label
  /\ x.op \in {"Goto", "If"} => x.label \in labels
Walked(q, c) ==
  /\ q = [code |-> q.code, dead |-> q.dead] /\ IsCode(q.code) /\ Len(q.code) = Len(c)
  /\ \A i \in 1 .. Len(c) : SameKind(q.code[i], c[i], LabelsIn(c))
  /\ \A i \in q.dead \cap 1 .. Len(c) : c[i].op \in {"Goto", "Assign"}

LEMMA WalkDefined ==
  ASSUME NEW c, Len(c) \in Nat
  PROVE  \E f : IsWalk(f, Len(c), c) /\ run_peephole_optimization(c) = f[Len(c)]
<1> DEFINE Level(f, i) == IF i = 0 THEN [code |-> c, dead |-> {}] ELSE Walk(f, i)
           IsLevels(f, n) == f = [i \in 0 .. n |-> Level(f, i)]
           T == {n \in Nat : \E f : IsLevels(f, n)}
<1>1. 0 \in T
  <2> DEFINE f == [m \in 0 .. 0 |-> [code |-> c, dead |-> {}]]
  <2>1. \A m \in 0 .. 0 : m = 0
    OBVIOUS
  <2>2. IsLevels(f, 0)
    BY <2>1
  <2> HIDE DEF IsLevels, f
  <2> QED BY <2>2
<1>2. ASSUME NEW n \in Nat, n \in T PROVE n + 1 \in T
  <2>1. PICK f : IsLevels(f, n)
    BY <1>2
  <2> DEFINE g == [m \in 0 .. n + 1 |-> Level(f, m)]
  <2>2. ASSUME NEW m \in 0 .. n PROVE g[m] = f[m]
    <3>1. f[m] = Level(f, m)
      BY <2>1
    <3>2. m \in 0 .. n + 1
      OBVIOUS
    <3> HIDE DEF Level
    <3> QED BY <3>1, <3>2
  <2>3. ASSUME NEW m \in 0 .. n + 1 PROVE Level(f, m) = Level(g, m)
    <3>1. CASE m = 0
      BY <3>1
    <3>2. CASE m # 0
      <4>1. m - 1 \in 0 .. n
        BY <3>2
      <4>2. g[m - 1] = f[m - 1]
        BY <2>2, <4>1
      <4> HIDE DEF g
      <4> QED BY <3>2, <4>2 DEF Walk
    <3> QED BY <3>1, <3>2
  <2>4. IsLevels(g, n + 1)
    <3> HIDE DEF Level
    <3> QED BY <2>3
  <2> HIDE DEF g, IsLevels
  <2> QED BY <2>4
<1>3. \A n \in Nat : n \in T
  <2> HIDE DEF T
  <2> QED BY <1>1, <1>2, SetInduction
<1>4. \E f : IsWalk(f, Len(c), c)
  BY <1>3 DEF IsWalk
<1> DEFINE F == CHOOSE f : IsWalk(f, Len(c), c)
<1>5. run_peephole_optimization(c) = F[Len(c)]
  BY DEF run_peephole_optimization, IsWalk, Walk
<1>6. IsWalk(F, Len(c), c)
  BY <1>4
<1> QED BY <1>5, <1>6

LEMMA FunctionIsCode ==
  ASSUME NEW n \in Nat, NEW d, DOMAIN d = 1 .. n, d = [i \in 1 .. n |-> d[i]]
  PROVE  IsCode(d) /\ Len(d) = n
<1> DEFINE S == {d[i] : i \in 1 .. n}
<1>1. d \in [1 .. n -> S]
  OBVIOUS
<1> HIDE DEF S
<1>2. d \in Seq(S) /\ Len(d) = n
  BY <1>1
<1> QED BY <1>2, SequenceIsCode

\* One instruction changed.
LEMMA OneChanged ==
  ASSUME NEW q, NEW c, Walked(q, c), NEW j, NEW x,
         j \in 1 .. Len(c) => SameKind(x, c[j], LabelsIn(c)),
         NEW d, d = [q.code EXCEPT ![j] = x],
         NEW dead1, \A i \in dead1 \cap 1 .. Len(c) : c[i].op \in {"Goto", "Assign"}
  PROVE  Walked([code |-> d, dead |-> dead1], c)
<1> DEFINE n == Len(c)
           r == [code |-> d, dead |-> dead1]
<1>1. n \in Nat /\ DOMAIN q.code = 1 .. n /\ q.code = [i \in 1 .. n |-> q.code[i]]
  BY CodeLength DEF Walked
<1> HIDE DEF n
<1>2. DOMAIN d = 1 .. n /\ d = [i \in 1 .. n |-> d[i]]
      /\ \A i \in 1 .. n : d[i] = IF i = j THEN x ELSE q.code[i]
  BY <1>1
<1>3. IsCode(d) /\ Len(d) = n
  BY <1>1, <1>2, FunctionIsCode
<1>4. \A i \in 1 .. n : SameKind(d[i], c[i], LabelsIn(c))
  BY <1>2 DEF Walked, n
<1>5. r.code = d /\ r.dead = dead1 /\ r = [code |-> d, dead |-> dead1]
  OBVIOUS
<1> HIDE DEF r
<1>6. Walked(r, c)
  BY <1>3, <1>4, <1>5 DEF Walked, n
<1> QED BY <1>6 DEF r

\* A jump whose condition is inverted, to another label.
Bent(k, v, label) == [k EXCEPT !.it = v, !.label = label]

LEMMA JumpBent ==
  ASSUME NEW k, IsInstruction(k), NEW v, NEW label
  PROVE  IsInstruction(Bent(k, v, label)) /\ Bent(k, v, label).op = k.op /\ Bent(k, v, label).label = label
<1> DEFINE j == [k EXCEPT !.it = v]
           m == [j EXCEPT !.label = label]
<1>1. j = Instruction(k.op, k.src1, k.src2, k.dest, v, k.label)
  BY DEF IsInstruction, Instruction
<1> HIDE DEF j
<1>2. m = Instruction(k.op, k.src1, k.src2, k.dest, v, label)
  BY <1>1 DEF Instruction
<1> HIDE DEF m
<1>3. IsInstruction(m) /\ m.op = k.op /\ m.label = label
  BY <1>2, InstructionFields
<1> QED BY <1>3 DEF m, j, Bent

LEMMA PeepedKeeps ==
  ASSUME NEW c, NEW q, Walked(q, c), NEW i \in 1 .. Len(c)
  PROVE  Walked(Peeped(q, i), c)
<1> DEFINE r == Peeped(q, i)
           k == q.code[i]
           previous == q.code[i - 1]
           next == q.code[i + 1]
           m == [k EXCEPT !.it = invert_boolean_operator(@), !.label = next.label]
           bent == [q.code EXCEPT ![i].it = invert_boolean_operator(@), ![i].label = next.label]
           moved == [q.code EXCEPT ![i - 1].dest = k.dest]
           Dead(d) == \A j \in d \cap 1 .. Len(c) : c[j].op \in {"Goto", "Assign"}
<1> SUFFICES Walked(r, c)
  OBVIOUS
<1>1. Len(c) \in Nat /\ Len(q.code) = Len(c) /\ DOMAIN q.code = 1 .. Len(c)
      /\ \A j \in 1 .. Len(c) : SameKind(q.code[j], c[j], LabelsIn(c))
  BY CodeLength DEF Walked
<1>2. Dead(q.dead) /\ q = [code |-> q.code, dead |-> q.dead]
  BY DEF Walked
<1>3. \A d : r = [code |-> q.code, dead |-> d] /\ Dead(d) => Walked(r, c)
  <2> HIDE DEF r
  <2> QED BY DEF Walked
<1>4. CASE k.op = "Goto"
  <2>1. r = q \/ r = [q EXCEPT !.dead = @ \cup {i}]
    BY <1>4 DEF Peeped
  <2>2. Dead(q.dead \cup {i})
    BY <1>1, <1>2, <1>4 DEF SameKind
  <2>3. [q EXCEPT !.dead = @ \cup {i}] = [code |-> q.code, dead |-> q.dead \cup {i}]
    BY <1>2
  <2> HIDE DEF r, Dead
  <2> QED BY <1>2, <1>3, <2>1, <2>2, <2>3
<1>5. CASE k.op = "If"
  <2>1. \/ r = q
        \/ /\ i < Len(q.code) /\ next.op = "Goto"
           /\ r = [code |-> bent, dead |-> q.dead \cup {i + 1}]
    BY <1>5 DEF Peeped
  <2>2. CASE i < Len(q.code) /\ next.op = "Goto" /\ r = [code |-> bent, dead |-> q.dead \cup {i + 1}]
    <3>1. i + 1 \in 1 .. Len(c)
      BY <1>1, <2>2
    <3>2. c[i + 1].op = "Goto" /\ next.label \in LabelsIn(c)
      BY <1>1, <2>2, <3>1 DEF SameKind
    <3>3. SameKind(m, c[i], LabelsIn(c))
      <4>1. IsInstruction(k) /\ k.op = c[i].op
        BY <1>1 DEF SameKind
      <4> DEFINE v == invert_boolean_operator(k.it)
                 label == next.label
      <4>2. m = Bent(k, v, label)
        BY DEF Bent
      <4> HIDE DEF k, v, label
      <4>3. IsInstruction(Bent(k, v, label)) /\ Bent(k, v, label).op = k.op /\ Bent(k, v, label).label = label
        BY <4>1, JumpBent
      <4>4. IsInstruction(m) /\ m.op = k.op /\ m.label = next.label
        BY <4>2, <4>3 DEF label
      <4> HIDE DEF m
      <4> QED BY <1>5, <3>2, <4>1, <4>4 DEF SameKind
    <3>4. bent = [q.code EXCEPT ![i] = m]
      <4> DEFINE f == q.code
      <4>1. i \in DOMAIN f
        BY <1>1
      <4> HIDE DEF f
      <4>2. bent = [q.code EXCEPT ![i] = [q.code[i] EXCEPT !.it = invert_boolean_operator(@), !.label = next.label]]
        BY <4>1 DEF f
      <4> QED BY <4>2
    <3>5. Dead(q.dead \cup {i + 1})
      BY <1>2, <3>2
    <3>6. \A j \in (q.dead \cup {i + 1}) \cap 1 .. Len(c) : c[j].op \in {"Goto", "Assign"}
      BY <3>5
    <3> HIDE DEF bent, m, r
    <3>7. Walked([code |-> bent, dead |-> q.dead \cup {i + 1}], c)
      BY <3>3, <3>4, <3>6, OneChanged
    <3> QED BY <2>2, <3>7
  <2> QED BY <2>1, <2>2
<1>6. CASE k.op = "Assign"
  <2>1. \E d \in {q.dead, q.dead \cup {i}} :
          r = [code |-> q.code, dead |-> d] \/ r = [code |-> moved, dead |-> d]
    BY <1>6 DEF Peeped
  <2>2. Dead(q.dead) /\ Dead(q.dead \cup {i})
    BY <1>1, <1>2, <1>6 DEF SameKind
  <2>3. ASSUME NEW d \in {q.dead, q.dead \cup {i}}, r = [code |-> moved, dead |-> d] PROVE Walked(r, c)
    <3> DEFINE x == [previous EXCEPT !.dest = k.dest]
    <3>1. i - 1 \in 1 .. Len(c) => SameKind(x, c[i - 1], LabelsIn(c))
      <4> SUFFICES ASSUME i - 1 \in 1 .. Len(c) PROVE SameKind(x, c[i - 1], LabelsIn(c))
        OBVIOUS
      <4>1. SameKind(previous, c[i - 1], LabelsIn(c))
        BY <1>1
      <4> HIDE DEF previous, k
      <4>2. IsInstruction(x) /\ x.op = previous.op /\ x.label = previous.label
        BY <4>1 DEF SameKind, IsInstruction, Instruction
      <4> HIDE DEF x
      <4> QED BY <4>1, <4>2 DEF SameKind
    <3>2. moved = [q.code EXCEPT ![i - 1] = x]
      OBVIOUS
    <3>3. Dead(d)
      BY <2>2
    <3> HIDE DEF moved, x, r
    <3> QED BY <2>3, <3>1, <3>2, <3>3, OneChanged
  <2>4. ASSUME NEW d \in {q.dead, q.dead \cup {i}}, r = [code |-> q.code, dead |-> d] PROVE Walked(r, c)
    <3>1. Dead(d)
      BY <2>2
    <3> HIDE DEF r, Dead
    <3> QED BY <1>3, <2>4, <3>1
  <2> HIDE DEF r, moved
  <2> QED BY <2>1, <2>3, <2>4
<1>7. CASE k.op \notin {"Goto", "If", "Assign"}
  <2>1. r = q
    BY <1>7 DEF Peeped
  <2> QED BY <2>1
<1> QED BY <1>4, <1>5, <1>6, <1>7

LEMMA PeepholeKeeps ==
  ASSUME NEW c, IsCode(c), Lands(c, {})
  PROVE  Walked(run_peephole_optimization(c), c)
<1>1. Len(c) \in Nat /\ DOMAIN c = 1 .. Len(c)
  BY CodeLength
<1>2. PICK f : IsWalk(f, Len(c), c) /\ run_peephole_optimization(c) = f[Len(c)]
  BY <1>1, WalkDefined
<1> DEFINE T == {i \in Nat : i <= Len(c) => Walked(f[i], c)}
<1>3. 0 \in T
  <2>1. f[0] = [code |-> c, dead |-> {}]
    BY <1>1, <1>2 DEF IsWalk
  <2>2. \A i \in 1 .. Len(c) : SameKind(c[i], c[i], LabelsIn(c))
    BY <1>1 DEF Lands, SameKind
  <2>3. Walked(f[0], c)
    BY <2>1, <2>2 DEF Walked
  <2> QED BY <2>3
<1>4. ASSUME NEW i \in Nat, i \in T PROVE i + 1 \in T
  <2> SUFFICES ASSUME i + 1 <= Len(c) PROVE Walked(f[i + 1], c)
    OBVIOUS
  <2>1. i + 1 \in 1 .. Len(c)
    BY <1>1
  <2>2. f[i + 1] = Peeped(f[i], i + 1)
    <3>1. i + 1 \in 0 .. Len(c) /\ i + 1 # 0 /\ (i + 1) - 1 = i
      BY <1>1
    <3> QED BY <1>2, <3>1 DEF IsWalk, Walk
  <2>3. Walked(f[i], c)
    BY <1>1, <1>4
  <2> QED BY <2>1, <2>2, <2>3, PeepedKeeps
<1>5. \A i \in Nat : i \in T
  <2> HIDE DEF T
  <2> QED BY <1>3, <1>4, SetInduction
<1>6. Walked(f[Len(c)], c)
  BY <1>1, <1>5
<1> QED BY <1>2, <1>6

-----------------------------------------------------------------------------
\* Code is closed when its jumps land and it ends in a return that is not dead.
Closed(c, dead1) ==
  /\ IsCode(c) /\ Len(c) \in DOMAIN c /\ c[Len(c)].op = "Return" /\ Len(c) \notin dead1
  /\ \A i \in DOMAIN c : c[i].op \in {"Goto", "If"} => c[i].label \in LabelsIn(c)

\* The code of a body that means something.
LEMMA ClosedBody ==
  ASSUME NEW ret \in Results, NEW p \in Grammar, p.ntype = "STnodeList", Meaning(p, ret) # "Wrong",
         AppendReturn(Tree(p, ret)).ntype # "Crash", NEW optimise \in BOOLEAN
  PROVE  LET o == LocallyOptimised(FunctionCode(ret, Tree(p, ret)), optimise)
         IN  Closed(o.code, o.dead)
<1> DEFINE t == Tree(p, ret)
           full == AppendReturn(t)
           r == generate_function_code(Generators(ret)[MaxDepth + 2], full, "R", <<>>, NoTemporaries)
           x == create_instruction("Enter", None, None, None)
           enter == <<x>>
           g == FunctionCode(ret, t)
           o == LocallyOptimised(g, optimise)
<1>1. ~t.reported
  BY SoundParts
<1>2. Good(r, {}) /\ EndsInReturn(r.code)
  BY GoodBody
<1>3. g = [r EXCEPT !.code = enter \o r.code]
  BY <1>1 DEF FunctionCode, Generated
<1>4. IsCode(enter) /\ Lands(enter, {})
  <2>1. NotJump(x)
    BY PlainInstructions
  <2> HIDE DEF x
  <2> QED BY <2>1, OneInstruction DEF NotJump
<1> HIDE DEF r, enter, g
<1>5. r = Result(r.code, r.pool, r.place, r.loc, r.ok) /\ r.ok /\ IsCode(r.code) /\ Lands(r.code, {})
  BY <1>2 DEF Good
<1>6. g.code = enter \o r.code /\ g.ok
  <2>1. g.code = enter \o r.code /\ g.ok = r.ok
    BY <1>3, <1>5 DEF Result
  <2> QED BY <1>5, <2>1
<1> DEFINE c == enter \o r.code
<1>7. IsCode(c) /\ Lands(c, {}) /\ EndsInReturn(c)
  BY <1>2, <1>4, <1>5, CodeAfter
<1> HIDE DEF c
<1>8. Closed(o.code, o.dead)
  <2>1. DOMAIN c = 1 .. Len(c) /\ Len(c) \in 1 .. Len(c) /\ c[Len(c)].op = "Return"
    BY <1>7, CodeLength DEF EndsInReturn
  <2>2. CASE optimise
    <3> DEFINE q == run_peephole_optimization(c)
    <3>1. o = q
      BY <1>6, <2>2 DEF LocallyOptimised, c
    <3>2. Walked(q, c)
      BY <1>7, PeepholeKeeps
    <3> HIDE DEF q, o
    <3>3. IsCode(q.code) /\ Len(q.code) = Len(c) /\ DOMAIN q.code = DOMAIN c
          /\ \A i \in DOMAIN c : SameKind(q.code[i], c[i], LabelsIn(c))
      BY <2>1, <3>2, CodeLength DEF Walked
    <3>4. LabelsIn(c) \subseteq LabelsIn(q.code)
      <4> SUFFICES ASSUME NEW i \in DOMAIN c, c[i].op = "Label" PROVE c[i].label \in LabelsIn(q.code)
        BY DEF LabelsIn
      <4>1. i \in DOMAIN q.code /\ q.code[i].op = "Label" /\ q.code[i].label = c[i].label
        BY <3>3 DEF SameKind
      <4> QED BY <4>1 DEF LabelsIn
    <3>5. \A i \in DOMAIN q.code : q.code[i].op \in {"Goto", "If"} => q.code[i].label \in LabelsIn(q.code)
      BY <3>3, <3>4 DEF SameKind
    <3>6. Len(c) \in DOMAIN c /\ q.code[Len(c)].op = "Return" /\ Len(c) \notin q.dead
      BY <2>1, <3>2, <3>3 DEF SameKind, Walked
    <3>7. Closed(q.code, q.dead)
      BY <3>3, <3>5, <3>6 DEF Closed
    <3> QED BY <3>1, <3>7
  <2>3. CASE ~optimise
    <3>1. o.code = c /\ o.dead = {}
      BY <1>6, <2>3 DEF LocallyOptimised, c
    <3>2. \A i \in DOMAIN c : c[i].op \in {"Goto", "If"} => c[i].label \in LabelsIn(c)
      BY <1>7 DEF Lands
    <3> HIDE DEF o
    <3> QED BY <1>7, <2>1, <3>1, <3>2 DEF Closed
  <2> QED BY <2>2, <2>3
<1> QED BY <1>8 DEF g

LEMMA BodyHasCode ==
  ASSUME NEW ret \in Results, NEW p \in Grammar, p.ntype = "STnodeList", Meaning(p, ret) # "Wrong",
         ~LastIsEmpty(p), NEW optimise \in BOOLEAN
  PROVE  LocallyOptimised(FunctionCode(ret, Tree(p, ret)), optimise).code # <<>>
<1> DEFINE o == LocallyOptimised(FunctionCode(ret, Tree(p, ret)), optimise)
<1>1. Closed(o.code, o.dead)
  BY NotCrash, ClosedBody
<1> HIDE DEF o
<1>2. DOMAIN o.code # {}
  BY <1>1 DEF Closed
<1>3. o.code # <<>>
  BY <1>2
<1> QED BY <1>3 DEF o

-----------------------------------------------------------------------------
InClosed == pc = 0 \/ (Closed(code, dead) /\ pc \in DOMAIN code)

LEMMA JumpLands ==
  ASSUME Closed(code, dead), NEW label \in LabelsIn(code)
  PROVE  PositionOf(label) \in DOMAIN code
<1> DEFINE here == {i \in DOMAIN code : code[i].op = "Label" /\ code[i].label = label}
<1>1. here # {}
  BY DEF LabelsIn
<1>2. PositionOf(label) = CHOOSE i \in here : TRUE
  BY <1>1 DEF PositionOf
<1>3. PositionOf(label) \in here
  BY <1>1, <1>2
<1> QED BY <1>3

\* Where a step goes: on, from an instruction that is not a live return, to
\* a label it jumps to, or out of the function.
LEMMA StepInCode ==
  ASSUME NextInBody
  PROVE  /\ pc # 0 /\ UNCHANGED <<code, dead>>
         /\ \/ pc' = 0
            \/ pc' = pc + 1 /\ (pc \in dead \/ current.op # "Return")
            \/ current.op \in {"Goto", "If"} /\ pc' = PositionOf(current.label)
<1> USE DEF Running, Advance, Fixed
<1>1. CASE RunAssign
  BY <1>1 DEF RunAssign
<1>2. CASE RunAssignThrough
  BY <1>2 DEF RunAssignThrough
<1>3. CASE RunUMinus
  BY <1>3 DEF RunUMinus
<1>4. CASE RunBinaryArithmetic
  BY <1>4 DEF RunBinaryArithmetic
<1>5. CASE RunIndex_Array
  BY <1>5 DEF RunIndex_Array
<1>6. CASE RunDeref
  BY <1>6 DEF RunDeref
<1>7. CASE RunParam
  BY <1>7 DEF RunParam
<1>8. CASE RunCall
  BY <1>8 DEF RunCall
<1>9. CASE RunRetrieve
  BY <1>9 DEF RunRetrieve
<1>10. CASE RunIf
  BY <1>10 DEF RunIf
<1>11. CASE RunGoto
  BY <1>11 DEF RunGoto
<1>12. CASE RunPass
  BY <1>12 DEF RunPass
<1>13. CASE RunReturn
  BY <1>13 DEF RunReturn
<1> QED BY <1>1, <1>2, <1>3, <1>4, <1>5, <1>6, <1>7, <1>8, <1>9, <1>10, <1>11, <1>12, <1>13 DEF NextInBody

LEMMA InClosedStep == InClosed /\ [NextInBody]_body_vars => InClosed'
<1> SUFFICES ASSUME InClosed, [NextInBody]_body_vars PROVE InClosed'
  OBVIOUS
<1>1. CASE NextInBody
  <2>1. /\ pc # 0 /\ code' = code /\ dead' = dead
        /\ \/ pc' = 0
           \/ pc' = pc + 1 /\ (pc \in dead \/ current.op # "Return")
           \/ current.op \in {"Goto", "If"} /\ pc' = PositionOf(current.label)
    BY <1>1, StepInCode
  <2>2. Closed(code, dead) /\ pc \in DOMAIN code
    BY <2>1 DEF InClosed
  <2>3. Closed(code, dead)'
    BY <2>1, <2>2 DEF Closed, IsCode, LabelsIn
  <2>4. CASE pc' = pc + 1 /\ (pc \in dead \/ current.op # "Return")
    <3>1. DOMAIN code = 1 .. Len(code) /\ Len(code) \in Nat
      BY <2>2, CodeLength DEF Closed
    <3>2. pc # Len(code)
      BY <2>2, <2>4 DEF Closed, current
    <3>3. pc + 1 \in DOMAIN code
      BY <2>2, <3>1, <3>2
    <3> QED BY <2>1, <2>3, <2>4, <3>3 DEF InClosed
  <2>5. CASE current.op \in {"Goto", "If"} /\ pc' = PositionOf(current.label)
    <3>1. current.label \in LabelsIn(code)
      BY <2>2, <2>5 DEF Closed, current
    <3>2. PositionOf(current.label) \in DOMAIN code
      BY <2>2, <3>1, JumpLands
    <3> QED BY <2>1, <2>3, <2>5, <3>2 DEF InClosed
  <2>6. CASE pc' = 0
    BY <2>6 DEF InClosed
  <2> QED BY <2>1, <2>4, <2>5, <2>6
<1>2. CASE UNCHANGED body_vars
  <2>1. code' = code /\ dead' = dead /\ pc' = pc
    BY <1>2 DEF body_vars
  <2> QED BY <2>1 DEF InClosed, Closed, IsCode, LabelsIn
<1> QED BY <1>1, <1>2

LEMMA InClosedInit == InitBody => InClosed
<1> SUFFICES ASSUME InitBody, pc # 0 PROVE Closed(code, dead) /\ pc \in DOMAIN code
  BY DEF InClosed
<1> DEFINE t == Tree(body.phrase, body.ret)
           g == FunctionCode(body.ret, t)
           o == LocallyOptimised(g, optimised)
<1>1. body \in Bodies /\ optimised \in BOOLEAN /\ BeginWith(t, g, o)
  BY DEF InitBody, Begin
<1>2. body.ret \in Results /\ body.phrase \in Grammar /\ body.phrase.ntype = "STnodeList"
  BY <1>1, BodiesAssumption
<1>3. code = o.code /\ dead = o.dead /\ pc = 1
      /\ g.ok /\ ~t.reported /\ Meaning(body.phrase, body.ret) # "Wrong"
  BY <1>1 DEF BeginWith
<1>4. AppendReturn(t).ntype # "Crash"
  <2> SUFFICES ASSUME AppendReturn(t).ntype = "Crash" PROVE FALSE
    OBVIOUS
  <2>1. g = [code |-> <<>>, ok |-> FALSE]
    BY <1>3 DEF FunctionCode
  <2> QED BY <1>3, <2>1
<1>5. Closed(o.code, o.dead)
  BY <1>1, <1>2, <1>3, <1>4, ClosedBody
<1> HIDE DEF o
<1>6. Closed(code, dead)
  BY <1>3, <1>5
<1>7. 1 \in DOMAIN code
  <2>1. DOMAIN code = 1 .. Len(code) /\ Len(code) \in 1 .. Len(code)
    BY <1>6, CodeLength DEF Closed
  <2> QED BY <2>1
<1> QED BY <1>3, <1>6, <1>7

\* The code of a body that is run, with the peephole or without, is never
\* left but by a return: whatever the body, the operations and the values,
\* every jump taken goes to a label that is in the code, and the code does
\* not fall off its end.
THEOREM BodySpecStaysInCode == BodySpec => []StaysInCode
<1>1. InClosed => StaysInCode
  BY DEF InClosed, StaysInCode
<1> QED BY <1>1, InClosedInit, InClosedStep, PTL DEF BodySpec

\* The generator never follows a place that is NULL for a body that is not
\* reported, up to lax calls and bodies that end in an empty statement, and
\* what it makes stays in its code.
THEOREM BodySpecGeneratorSafe == BodySpec => []GeneratorSafe
<1> DEFINE Followed == code = <<>> /\ ~Tree(body.phrase, body.ret).reported =>
                         LaxCall(body.phrase) \/ LastIsEmpty(body.phrase)
<1>1. InitBody => Followed
  <2> SUFFICES ASSUME InitBody, code = <<>>, ~Tree(body.phrase, body.ret).reported,
                      ~LaxCall(body.phrase), ~LastIsEmpty(body.phrase)
               PROVE  FALSE
    OBVIOUS
  <2>1. body \in Bodies /\ optimised \in BOOLEAN /\ Begin
    BY DEF InitBody
  <2>2. body.ret \in Results /\ body.phrase \in Grammar /\ body.phrase.ntype = "STnodeList"
    BY <2>1, BodiesAssumption
  <2>3. code = LocallyOptimised(FunctionCode(body.ret, Tree(body.phrase, body.ret)), optimised).code
    BY <2>1 DEF Begin, BeginWith
  <2>4. Meaning(body.phrase, body.ret) # "Wrong"
    BY <2>2, ChecksAreExact DEF Checked
  <2> QED BY <2>1, <2>2, <2>3, <2>4, BodyHasCode
<1>2. Followed /\ [NextInBody]_body_vars => Followed'
  BY BodyStep DEF body_vars
<1>3. Followed /\ StaysInCode => GeneratorSafe
  BY DEF GeneratorSafe
<1> HIDE DEF Followed
<1> QED BY <1>1, <1>2, <1>3, BodySpecStaysInCode, PTL DEF BodySpec
=============================================================================
