---------------------------- MODULE CompiledBody ----------------------------
(***************************************************************************)
(* The body of a function, parsed, compiled to three-address code and, if  *)
(* the local optimisation is enabled, put through the peephole, beside     *)
(* what its source text means.  The code runs instruction by instruction;  *)
(* the source is run up to the next event, something seen from outside:    *)
(* a variable changed, a function called, operands compared, a return.     *)
(***************************************************************************)
EXTENDS CodeGenerator, TLC

CONSTANTS
  Bodies,          \* functions: the type returned and the list of statements
  Stores,          \* values of the scalars and of the elements of arrays
  num_elts,        \* of an array
  address_of(_),   \* the value of an array as an argument
  Operation(_, _, _), Negated(_), Holds(_, _, _),
  Char(_),         \* an int made a char
  Returned(_, _),  \* what a function returns for its arguments
  MaxQuiet         \* steps of the source from one event to the next

\* A body is a list of statements.
ASSUME BodiesAssumption ==
  \A b \in Bodies : b.ret \in Results /\ b.phrase \in Grammar /\ b.phrase.ntype = "STnodeList"

VARIABLES
  body,
  optimised,  \* local_enabled
  code, dead,
  pc,         \* 0 when the function has returned, or is not run
  store, tmp,
  passed,     \* arguments pushed, the last pushed first
  v0,         \* what the last call returned
  source,     \* what is left to do in the source, its store, events to come
  agree,      \* the events of the code were those of the source
  silent      \* instructions since the last event

body_vars == <<body, optimised, code, dead, pc, store, tmp, passed, v0, source, agree, silent>>

Event(what, name, args) == [what |-> what, name |-> name, args |-> args]
AsType(t, n) == IF t = "Char" THEN Char(n) ELSE n
Element(array, index) == <<array, index % num_elts[array]>>
Scalar(id) == <<id, 0>>
TypeAt(place) == IF type[place[1]] = "Array" THEN elt_type[place[1]] ELSE type[place[1]]
Written(place, n) == Event("write", place[1], <<place[2], n>>)

-----------------------------------------------------------------------------
(***************************************************************************)
(* The source.  Operands are evaluated from left to right.                 *)
(***************************************************************************)
\* What e does and yields, k being what its parts do.
Evaluated(e, k, s) ==
  LET n(i) == k[i].val
      args == [i \in DOMAIN k |-> n(i)]
      own == IF e.ntype = "FunCall" THEN <<Event("call", e.sym, args)>> ELSE <<>>
      val ==
        CASE e.ntype \in {"Intcon", "Charcon", "Stringcon"} -> e.val
          [] e.ntype = "Var" -> IF type[e.sym] = "Array" THEN address_of(e.sym) ELSE s[Scalar(e.sym)]
          [] e.ntype = "ArraySubscript" -> s[Element(e.sym, n(1))]
          [] e.ntype = "UnaryMinus" -> Negated(n(1))
          [] e.ntype \in Arithmetic -> Operation(e.ntype, n(1), n(2))
          [] e.ntype = "FunCall" -> AsType(ret_type[e.sym], Returned(e.sym, args))
  IN  [val |-> val, events |-> FlattenSeq([i \in DOMAIN k |-> k[i].events]) \o own]

Value(e, s) ==
  LET value[t \in Nodes] == Evaluated(t, [i \in DOMAIN t.kids |-> value[t.kids[i]]], s)
  IN  value[e]

\* What is to be done: a statement, or a test and what follows its outcomes.
Do(t) == [tree |-> t, yes |-> <<>>, no |-> <<>>]
Branch(t, yes, no) == [tree |-> t, yes |-> yes, no |-> no]

AssgStep(t, s, rest) ==
  LET lhs == t.kids[1]
      index == IF lhs.ntype = "ArraySubscript" THEN Value(lhs.kids[1], s)
               ELSE [val |-> 0, events |-> <<>>]
      rhs == Value(t.kids[2], s)
      place == IF lhs.ntype = "ArraySubscript" THEN Element(lhs.sym, index.val) ELSE Scalar(lhs.sym)
      new == AsType(TypeAt(place), rhs.val)
  IN  [todo |-> rest, store |-> [s EXCEPT ![place] = new],
       events |-> index.events \o rhs.events
                    \o IF s[place] = new THEN <<>> ELSE <<Written(place, new)>>]

SourceStep(src) ==
  LET item == Head(src.todo)
      t == item.tree
      rest == Tail(src.todo)
      name == t.ntype
      value(i) == Value(t.kids[i], src.store)
      next(todo) == [src EXCEPT !.todo = todo \o rest]
      round == <<Do(t.kids[4]), Do(t.kids[3]), Do([t EXCEPT !.kids[1] = NULL])>>
  IN  CASE name = "NULL" -> next(<<>>)
        [] name = "STnodeList" -> next([i \in DOMAIN t.kids |-> Do(t.kids[i])])
        [] name = "If" -> next(<<Branch(t.kids[1], <<Do(t.kids[2])>>, <<Do(t.kids[3])>>)>>)
        [] name = "While" -> next(<<Branch(t.kids[1], <<Do(t.kids[2]), item>>, <<>>)>>)
        [] name = "For" ->
             next(<<Do(t.kids[1])>> \o IF t.kids[2].ntype = "NULL" THEN round
                                       ELSE <<Branch(t.kids[2], round, <<>>)>>)
        [] name = "LogicalAnd" ->
             next(<<Branch(t.kids[1], <<Branch(t.kids[2], item.yes, item.no)>>, item.no)>>)
        [] name = "LogicalOr" ->
             next(<<Branch(t.kids[1], item.yes, <<Branch(t.kids[2], item.yes, item.no)>>)>>)
        [] name = "LogicalNot" -> next(<<Branch(t.kids[1], item.no, item.yes)>>)
        [] name \in Comparisons ->
             [next(IF Holds(name, value(1).val, value(2).val) THEN item.yes ELSE item.no)
                EXCEPT !.events = value(1).events \o value(2).events
                                    \o <<Event("test", "", <<value(1).val, value(2).val>>)>>]
        [] name = "FunCall" -> [next(<<>>) EXCEPT !.events = Value(t, src.store).events]
        [] name = "Assg" -> AssgStep(t, src.store, rest)
        [] name = "Return" ->
             [src EXCEPT !.todo = <<>>,
                         !.events = IF t.kids[1].ntype = "NULL" THEN <<Event("return", "", <<>>)>>
                                    ELSE value(1).events \o <<Event("return", "",
                                           <<AsType(body.ret, value(1).val)>>)>>]

ToNextEvent(src) ==
  LET after[i \in 0 .. MaxQuiet] ==
        IF i = 0 THEN src
        ELSE LET before == after[i - 1]
             IN  IF before.events # <<>> \/ before.todo = <<>> THEN before ELSE SourceStep(before)
  IN  after[MaxQuiet]

-----------------------------------------------------------------------------
\* The code of a function whose body has tree t, and whether NULL was
\* followed on the way.  Code is generated for what is not reported.
FunctionCode(ret, t) ==
  LET no_code(ok) == [code |-> <<>>, ok |-> ok]
      generate(full) == IF full.ntype = "Crash" THEN no_code(FALSE) ELSE Generated(ret, full)
  IN  IF t.reported THEN no_code(TRUE) ELSE generate(AppendReturn(t))

LocallyOptimised(g, optimise) ==
  IF g.ok /\ optimise THEN run_peephole_optimization(g.code)
  ELSE [code |-> IF g.ok THEN g.code ELSE <<>>, dead |-> {}]

\* A body of tree t, generated as g and optimised as p, is run unless it is
\* reported, means nothing, or its compilation follows NULL.
BeginWith(t, g, p) ==
  /\ code = p.code
  /\ dead = p.dead
  /\ pc = IF g.ok /\ ~t.reported /\ Meaning(body.phrase, body.ret) # "Wrong" THEN 1 ELSE 0
  /\ store \in IF pc = 1 THEN Stores ELSE {CHOOSE s \in Stores : TRUE}
  /\ source = [todo |-> <<Do(t), Do(mkExprNode("Return", "None", <<NULL>>))>>,
               store |-> store, events |-> <<>>]

Begin ==
  /\ \E t \in {Tree(body.phrase, body.ret)} :
       \E g \in {FunctionCode(body.ret, t)} :
         \E p \in {LocallyOptimised(g, optimised)} : BeginWith(t, g, p)
  /\ tmp = <<>>
  /\ passed = <<>>
  /\ v0 = 0
  /\ agree = TRUE
  /\ silent = 0

InitBody == body \in Bodies /\ optimised \in BOOLEAN /\ Begin

current == code[pc]
Running(op) == pc # 0 /\ pc \notin dead /\ current.op = op
Val(o) == IF o[1] \in constants THEN o[2]
          ELSE IF is_temporary(o) THEN tmp[o]
          ELSE IF type[o[1]] = "Array" THEN address_of(o[1]) ELSE store[o]

Quiet == silent' = silent + 1 /\ UNCHANGED <<source, agree>>
Observed(event) ==
  \E now \in {ToNextEvent(source)} :
    /\ agree' = (agree /\ now.events # <<>> /\ Head(now.events) = event)
    /\ source' = IF now.events = <<>> THEN now ELSE [now EXCEPT !.events = Tail(@)]
    /\ silent' = 0

\* Writing the value that is there is not seen.
Wrote(place, n) == IF store[place] = n THEN Quiet ELSE Observed(Written(place, n))

TemporaryType(o) == IF o[1] = "Char temporary" THEN "Char" ELSE "Int"

\* The instruction's dest receives n.
Put(o, n) ==
  IF is_temporary(o)
  THEN /\ tmp' = (o :> AsType(TemporaryType(o), n)) @@ tmp
       /\ Quiet
       /\ UNCHANGED store
  ELSE /\ store' = [store EXCEPT ![o] = AsType(TypeAt(o), n)]
       /\ Wrote(o, AsType(TypeAt(o), n))
       /\ UNCHANGED tmp

Fixed == UNCHANGED <<body, optimised, code, dead>>
Advance == pc' = pc + 1

RunAssign ==
  /\ Running("Assign") /\ current.dest[1] # "Addr temporary"
  /\ Put(current.dest, Val(current.src1))
  /\ Advance /\ Fixed /\ UNCHANGED <<passed, v0>>

RunAssignThrough ==
  /\ Running("Assign") /\ current.dest[1] = "Addr temporary"
  /\ LET place == tmp[current.dest]
         n == AsType(TypeAt(place), Val(current.src1))
     IN  /\ store' = [store EXCEPT ![place] = n]
         /\ Wrote(place, n)
  /\ Advance /\ Fixed /\ UNCHANGED <<tmp, passed, v0>>

RunUMinus ==
  /\ Running("UMinus")
  /\ Put(current.dest, Negated(Val(current.src1)))
  /\ Advance /\ Fixed /\ UNCHANGED <<passed, v0>>

RunBinaryArithmetic ==
  /\ Running("BinaryArithmetic")
  /\ Put(current.dest, Operation(current.it, Val(current.src1), Val(current.src2)))
  /\ Advance /\ Fixed /\ UNCHANGED <<passed, v0>>

RunIndex_Array ==
  /\ Running("Index_Array")
  /\ tmp' = (current.dest :> Element(current.src2[1], Val(current.src1))) @@ tmp
  /\ Quiet /\ Advance /\ Fixed /\ UNCHANGED <<store, passed, v0>>

RunDeref ==
  /\ Running("Deref")
  /\ Put(current.dest, store[tmp[current.src1]])
  /\ Advance /\ Fixed /\ UNCHANGED <<passed, v0>>

RunParam ==
  /\ Running("Param")
  /\ passed' = <<Val(current.src1)>> \o passed
  /\ Quiet /\ Advance /\ Fixed /\ UNCHANGED <<store, tmp, v0>>

\* The callee takes as many arguments as it has formals.
RunCall ==
  /\ Running("Call")
  /\ LET f == current.src1[1]
         n == Len(formals[f])
     IN  /\ Observed(Event("call", f, SubSeq(passed, 1, n)))
         /\ v0' = AsType(ret_type[f], Returned(f, SubSeq(passed, 1, n)))
         /\ passed' = SubSeq(passed, n + 1, Len(passed))
  /\ Advance /\ Fixed /\ UNCHANGED <<store, tmp>>

RunRetrieve ==
  /\ Running("Retrieve")
  /\ Put(current.dest, v0)
  /\ Advance /\ Fixed /\ UNCHANGED <<passed, v0>>

\* A label may be passed, and code that falls off its end disagrees.
PositionOf(label) ==
  LET at == {i \in DOMAIN code : code[i].op = "Label" /\ code[i].label = label}
  IN  IF at = {} THEN Len(code) + 1 ELSE CHOOSE i \in at : TRUE

RunIf ==
  /\ Running("If")
  /\ LET x == Val(current.src1)
         y == Val(current.src2)
     IN  /\ Observed(Event("test", "", <<x, y>>))
         /\ pc' = IF Holds(current.it, x, y) THEN PositionOf(current.label) ELSE pc + 1
  /\ Fixed /\ UNCHANGED <<store, tmp, passed, v0>>

RunGoto ==
  /\ Running("Goto")
  /\ pc' = PositionOf(current.label)
  /\ Quiet /\ Fixed /\ UNCHANGED <<store, tmp, passed, v0>>

\* Instructions of no effect here, and dead ones, which are not translated.
RunPass ==
  /\ pc # 0 /\ (pc \in dead \/ current.op \in {"Enter", "Leave", "Label"})
  /\ Quiet /\ Advance /\ Fixed /\ UNCHANGED <<store, tmp, passed, v0>>

RunReturn ==
  /\ Running("Return")
  /\ Observed(Event("return", "", IF current.src1 = None THEN <<>> ELSE <<Val(current.src1)>>))
  /\ pc' = 0
  /\ Fixed /\ UNCHANGED <<store, tmp, passed, v0>>

NextInBody ==
  \/ RunAssign \/ RunAssignThrough \/ RunUMinus \/ RunBinaryArithmetic \/ RunIndex_Array \/ RunDeref
  \/ RunParam \/ RunCall \/ RunRetrieve \/ RunIf \/ RunGoto \/ RunPass \/ RunReturn

BodySpec == InitBody /\ [][NextInBody]_body_vars

-----------------------------------------------------------------------------
\* The code writes the variables, calls the functions and takes the branches
\* the source does, with the same values, in the same order, and does not go
\* on without coming to the next event.
SameBehaviour == agree /\ silent <= Len(code)

\* A jump taken goes to a label that was put in the code, and the code does
\* not fall off its end: before and after the peephole it ends in a return
\* that is not dead.
StaysInCode == pc \in DOMAIN code \cup {0}

\* Some actual is an array where the formal is not one, or the reverse, which
\* the parser accepts.
LaxlyPassed(p) ==
  /\ p.ntype \in Calls /\ type[p.sym] = "Func"
  /\ \E i \in DOMAIN p.kids : i <= Len(formals[p.sym]) /\
       LET t == Tree(p.kids[i], "None").etype
       IN  IF type[formals[p.sym][i]] = "Array" THEN t # "Array" ELSE t \notin Numeric
LaxCalls ==
  LET lax[p \in Grammar] == LaxlyPassed(p) \/ \E i \in DOMAIN p.kids : lax[p.kids[i]]
  IN  lax
LaxCall(p) == LaxCalls[p]

LastIsEmpty(p) ==
  p.kids # <<>> /\ Tree(p.kids[Len(p.kids)], "None").ntype = "NULL"

\* The parser reports every body that means nothing and no other, up to the
\* calls whose actuals are of another kind than the formals.
ChecksExact == pc = 0 =>
  LET reported == Tree(body.phrase, body.ret).reported
      wrong == Meaning(body.phrase, body.ret) = "Wrong"
  IN  (reported => wrong) /\ (wrong => reported \/ LaxCall(body.phrase))

\* The code of a body that is not reported is generated without following a
\* NULL place, unless it has such a call or ends in an empty statement; and
\* where it runs, it has the labels it jumps to and ends in a return.
GeneratorSafe ==
  /\ code = <<>> /\ ~Tree(body.phrase, body.ret).reported =>
       LaxCall(body.phrase) \/ LastIsEmpty(body.phrase)
  /\ StaysInCode
=============================================================================
