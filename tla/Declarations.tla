---------------------------- MODULE Declarations ----------------------------
(***************************************************************************)
(* What the declarations of a program mean, and which are in order: a name *)
(* is declared once in its scope, but that a prototype, if it is not       *)
(* extern, may precede the definition of a function, of the same types.    *)
(* An implementation reports the first declaration that is not in order;   *)
(* from then on nothing is asked of it.                                    *)
(***************************************************************************)
EXTENDS Integers, Sequences, FiniteSets

CONSTANTS Ids, Headings, Types  \* the declarations there may be

VARIABLES
  global, local,  \* what the names of each scope stand for
  heading,        \* the function whose declaration is being read, or None
  inside,         \* a function body is being read
  placed,         \* how many places each global variable has
  failed

vars == <<global, local, heading, inside, placed, failed>>

None == [name |-> "NULL", ret |-> "None", params |-> <<>>, extern |-> FALSE]
Variable(type, is_array, number) ==
  [kind |-> "variable", type |-> type, is_array |-> is_array, number |-> number]
Formal(p, i) == [kind |-> "formal", type |-> p.type, is_array |-> p.is_array, position |-> i]
Function(kind, h) ==
  [kind |-> kind, ret |-> h.ret, extern |-> h.extern,
   takes |-> [i \in DOMAIN h.params |-> <<h.params[i].type, h.params[i].is_array>>]]

With(scope, id, object) == [n \in DOMAIN scope \cup {id} |-> IF n = id THEN object ELSE scope[n]]

Init ==
  /\ global = <<>> /\ local = <<>>
  /\ heading = None /\ inside = FALSE /\ placed = <<>>
  /\ failed = FALSE

Fail ==
  /\ failed' = TRUE
  /\ global' = <<>> /\ local' = <<>> /\ heading' = None /\ inside' = FALSE
  /\ placed' = <<>>

\* The variables of a function are numbered from 0.
NumberOfVariables == Cardinality({n \in DOMAIN local : local[n].kind = "variable"})

Declare(id, type, is_array) ==
  IF id \in DOMAIN (IF inside THEN local ELSE global) \/ type = "None" THEN Fail
  ELSE /\ IF inside
          THEN /\ local' = With(local, id, Variable(type, is_array, NumberOfVariables))
               /\ UNCHANGED global
          ELSE global' = With(global, id, Variable(type, is_array, 0)) /\ UNCHANGED local
       /\ UNCHANGED <<heading, inside, placed, failed>>

Read ==
  /\ heading = None /\ ~inside
  /\ heading' \in Headings
  /\ UNCHANGED <<global, local, inside, placed, failed>>

GoodParameters(params) ==
  /\ \A i, j \in DOMAIN params : params[i].name = params[j].name => i = j
  /\ \A i \in DOMAIN params : params[i].type # "None"

\* A prototype ends, and h, if not None, is read next, in the same list.
Prototype(h) ==
  /\ h # None => h.ret = heading.ret /\ h.extern = heading.extern
  /\ IF \/ heading.name \in DOMAIN global \/ ~GoodParameters(heading.params)
        \/ h # None /\ (h.name \in DOMAIN global \/ h.name = heading.name)
     THEN Fail
     ELSE /\ global' = With(global, heading.name, Function("prototype", heading))
          /\ heading' = h
          /\ UNCHANGED <<local, inside, placed, failed>>

Completes(h) ==
  LET f == Function("prototype", [h EXCEPT !.extern = FALSE])
  IN  h.name \in DOMAIN global => global[h.name] = f

\* A body begins with its parameters in its scope.
Formals(params) ==
  [n \in {params[i].name : i \in DOMAIN params} |->
     LET i == CHOOSE j \in DOMAIN params : params[j].name = n
     IN  Formal(params[i], i)]

Open ==
  /\ heading # None
  /\ IF ~Completes(heading) \/ ~GoodParameters(heading.params) THEN Fail
     ELSE /\ global' = With(global, heading.name, Function("function", heading))
          /\ local' = Formals(heading.params)
          /\ inside' = TRUE
          /\ heading' = None
          /\ UNCHANGED <<placed, failed>>

\* With the function's code every variable declared before it has its place.
Close ==
  /\ inside
  /\ placed' = [n \in {m \in DOMAIN global : global[m].kind = "variable"} |-> 1]
  /\ inside' = FALSE
  /\ local' = <<>>
  /\ UNCHANGED <<global, heading, failed>>

Next ==
  \/ heading = None /\ \E id \in Ids, type \in Types, is_array \in BOOLEAN :
                         Declare(id, type, is_array)
  \/ Read
  \/ heading # None /\ \E h \in Headings \cup {None} : Prototype(h)
  \/ Open
  \/ Close

Spec == Init /\ [][Next]_vars
=============================================================================
