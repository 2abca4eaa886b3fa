---------------------------- MODULE SyntaxTrees -----------------------------
(***************************************************************************)
(* The type checks of the parser and the trees it builds (syntax-tree.c    *)
(* and the actions of parser.y).  A phrase of a C-- program is what the    *)
(* grammar accepts: it has the kind of node its rule makes, a name or a    *)
(* value, and the phrases it is made of.  Tree(p) is the syntax tree the   *)
(* actions make of it, which carries types, and the fact that an error was *)
(* reported on the way.                                                    *)
(***************************************************************************)
EXTENDS Integers, SequencesExt

CONSTANTS
  type,      \* of each identifier: "Int", "Char", "Array", "Func", or "None"
             \* when it is not in the symbol table
  elt_type,  \* of the elements of an array
  ret_type,  \* of a function, "None" for void
  formals,   \* of a function, the identifiers of its parameters
  MaxDepth   \* of the nesting of phrases

\* A string of the source has no identifier and an int no subphrases.
Phrase(ntype, sym, val, kids) == [ntype |-> ntype, sym |-> sym, val |-> val, kids |-> kids]
Nothing == Phrase("NULL", "", 0, <<>>)

Arithmetic == {"Plus", "BinaryMinus", "Mult", "Div"}
Comparisons == {"Equals", "Neq", "Leq", "Lt", "Geq", "Gt"}
Connectives == {"LogicalAnd", "LogicalOr"}

Literals == {"Intcon", "Charcon", "Stringcon"}
Variables == {"Var", "ArraySubscript"}
Calls == {"FunCall", "ProcCall"}
Expressions == Literals \cup Variables \cup Arithmetic \cup {"UnaryMinus", "FunCall"}
Tests == Comparisons \cup Connectives \cup {"LogicalNot"}
Statements == {"NULL", "STnodeList", "If", "While", "For", "Return", "Assg", "ProcCall"}

\* What the parts of a phrase are.  A call has any number of expressions, and a
\* list any number of statements.
Parts(ntype, n) ==
  CASE ntype \in Literals \cup {"NULL", "Var"} -> <<>>
    [] ntype \in {"ArraySubscript", "UnaryMinus"} -> <<Expressions>>
    [] ntype \in Arithmetic \cup Comparisons -> <<Expressions, Expressions>>
    [] ntype \in Connectives -> <<Tests, Tests>>
    [] ntype = "LogicalNot" -> <<Tests>>
    [] ntype = "Assg" -> <<Variables, Expressions>>
    [] ntype = "Return" -> <<Expressions \cup {"NULL"}>>
    [] ntype = "If" -> <<Tests, Statements, Statements>>
    [] ntype = "While" -> <<Tests, Statements>>
    [] ntype = "For" -> <<{"Assg", "NULL"}, Tests \cup {"NULL"}, {"Assg", "NULL"}, Statements>>
    [] ntype \in Calls -> [i \in 1 .. n |-> Expressions]
    [] ntype = "STnodeList" -> [i \in 1 .. n |-> Statements]

WellFormed(p) ==
  \E parts \in {Parts(p.ntype, Len(p.kids))} :
    /\ Len(p.kids) = Len(parts)
    /\ \A i \in DOMAIN parts : p.kids[i].ntype \in parts[i]

-----------------------------------------------------------------------------
Numeric == {"Int", "Char"}
Results == Numeric \cup {"None"}
Names == DOMAIN type

\* What the symbol table holds for names.
ASSUME TableAssumption ==
  /\ MaxDepth \in Nat
  /\ "" \notin Names
  /\ \A id \in Names :
       /\ type[id] \in Results \cup {"Array", "Func"}
       /\ type[id] = "Array" => elt_type[id] \in Numeric
       /\ type[id] = "Func" =>
            /\ ret_type[id] \in Results
            /\ formals[id] \in Seq({f \in Names : type[f] \in Numeric \cup {"Array"}})

\* For a string and an array of ints the parser compares with what it takes the
\* string for, a symbol: no such call is considered.
NamesKnown(p) ==
  /\ p.ntype \in Variables \cup Calls => p.sym \in Names
  /\ p.ntype \in Calls /\ type[p.sym] = "Func" =>
       \A i \in DOMAIN p.kids \cap DOMAIN formals[p.sym] :
         LET f == formals[p.sym][i]
         IN  p.kids[i].ntype = "Stringcon" /\ type[f] = "Array" => elt_type[f] = "Char"

\* The phrases of the grammar whose parts are in S, and all nested less than
\* n deep.
PhrasesOver(S) ==
  {p \in [ntype : Expressions \cup Tests \cup Statements, sym : Names \cup {""}, val : Int,
          kids : Seq(S)] : WellFormed(p) /\ NamesKnown(p)}
PhrasesTo[n \in 0 .. MaxDepth] == IF n = 0 THEN {} ELSE PhrasesOver(PhrasesTo[n - 1])
Grammar == PhrasesTo[MaxDepth]

\* A tree; reported says that errmsg was called for it or a part of it.
Node(ntype, etype, sym, val, kids, reported) ==
  [ntype |-> ntype, etype |-> etype, sym |-> sym, val |-> val, kids |-> kids,
   reported |-> reported \/ \E i \in DOMAIN kids : kids[i].reported]

\* Trees of what is not reported whose parts are in S, and all nested less than
\* n deep; the tree of a body may be deeper than its phrase after AppendReturn.
NodesOver(S) ==
  [ntype : Expressions \cup Tests \cup Statements, etype : Results \cup {"Array", "Func", "Bool"},
   sym : Names \cup {""}, val : Int, kids : Seq(S), reported : {FALSE}]
NodesTo[n \in 0 .. MaxDepth + 2] == IF n = 0 THEN {} ELSE NodesOver(NodesTo[n - 1])
Nodes == NodesTo[MaxDepth + 2]

NULL == Node("NULL", "None", "", 0, <<>>, FALSE)
mkErrorNode == Node("Error", "Error", "", 0, <<>>, TRUE)
mkExprNode(ntype, etype, kids) == Node(ntype, etype, "", 0, kids, FALSE)
mkSymTabRefNode(ntype, etype, sym, kids) == Node(ntype, etype, sym, 0, kids, FALSE)

\* The parser follows a NULL pointer: no symbol table entry, no statement.
FollowsNULL == Node("Crash", "Error", "", 0, <<>>, TRUE)

\* An operand that is an Error node stands for the whole.
SynTreeUnExp(ntype, e) ==
  LET wanted == IF ntype = "UnaryMinus" THEN Numeric ELSE {"Bool"}
      result == IF ntype = "UnaryMinus" THEN "Int" ELSE "Bool"
  IN  IF e.ntype = "Error" THEN e
      ELSE IF e.etype \in wanted THEN mkExprNode(ntype, result, <<e>>)
      ELSE mkErrorNode

SynTreeBinExp(ntype, e1, e2) ==
  LET wanted == IF ntype \in Connectives THEN {"Bool"} ELSE Numeric
      result == IF ntype \in Arithmetic THEN "Int" ELSE "Bool"
  IN  IF e1.ntype = "Error" THEN e1
      ELSE IF e2.ntype = "Error" THEN e2
      ELSE IF e1.etype \in wanted /\ e2.etype \in wanted
           THEN mkExprNode(ntype, result, <<e1, e2>>)
      ELSE mkErrorNode

\* Wrong on purpose: the elements of arrays are not compared.
CountsMatch(fn, actuals) == Len(actuals) = Len(formals[fn])

\* The actuals are compared up to the shorter list; only two arrays of
\* different elements, or different lengths of the lists, are reported.
ActualsMatchFormals(fn, actuals) ==
  /\ Len(actuals) = Len(formals[fn])
  /\ \A i \in DOMAIN actuals :
       LET f == formals[fn][i]
           a == actuals[i]
       IN  type[f] = "Array" /\ a.etype = "Array" =>
             IF a.ntype = "Stringcon" THEN elt_type[f] = "Char"
             ELSE elt_type[f] = elt_type[a.sym]

variable(id) ==
  IF type[id] = "None" THEN mkErrorNode ELSE mkSymTabRefNode("Var", type[id], id, <<>>)

\* An index that is an Error node goes through.
subscripted(id, e) ==
  IF type[id] # "Array" \/ e.etype \notin Numeric \cup {"Error"} THEN mkErrorNode
  ELSE mkSymTabRefNode("ArraySubscript", elt_type[id], id, <<e>>)

fun_call(id, actuals) ==
  IF type[id] # "Func" \/ ~ActualsMatchFormals(id, actuals) THEN mkErrorNode
  ELSE mkSymTabRefNode("FunCall", ret_type[id], id, actuals)

\* A call as a statement.  An undeclared name is reported and then followed.
proc_call(id, actuals) ==
  IF type[id] = "None" THEN FollowsNULL
  ELSE IF type[id] # "Func" \/ ret_type[id] # "None" \/ ~ActualsMatchFormals(id, actuals)
  THEN mkErrorNode
  ELSE mkSymTabRefNode("FunCall", ret_type[id], id, actuals)

assignment(lhs, rhs) ==
  IF lhs.ntype = "Error" THEN lhs
  ELSE IF rhs.ntype = "Error" THEN rhs
  ELSE IF lhs.etype \in Numeric /\ rhs.etype \in Numeric
       THEN mkExprNode("Assg", "None", <<lhs, rhs>>)
  ELSE mkErrorNode

\* What follows RETURN, in a function that returns ret.
return(ret, e) ==
  IF ret = "None"
  THEN IF e.ntype # "NULL" THEN mkErrorNode ELSE mkExprNode("Return", "None", <<e>>)
  ELSE IF e.ntype = "NULL" \/ e.etype \notin Numeric \cup {"Error"} THEN mkErrorNode
       ELSE mkExprNode("Return", e.etype, <<e>>)

\* A statement with a test, whose type is checked but which is built anyway.
tested(ntype, test, kids) ==
  Node(ntype, "None", "", 0, kids,
       test.ntype # "NULL" /\ test.etype \notin {"Bool", "Error"})

\* What the action of its rule makes of a phrase, k being the trees of its
\* parts, in the body of a function that returns ret.
Reduced(p, k, ret) ==
  LET name == p.ntype
  IN  CASE name = "NULL" -> NULL
        [] name = "Intcon" -> Node(name, "Int", "", p.val, <<>>, FALSE)
        [] name = "Charcon" -> Node(name, "Char", "", p.val, <<>>, FALSE)
        [] name = "Stringcon" -> Node(name, "Array", "", p.val, <<>>, FALSE)
        [] name = "Var" -> variable(p.sym)
        [] name = "ArraySubscript" -> subscripted(p.sym, k[1])
        [] name \in {"UnaryMinus", "LogicalNot"} -> SynTreeUnExp(name, k[1])
        [] name \in Arithmetic \cup Comparisons \cup Connectives -> SynTreeBinExp(name, k[1], k[2])
        [] name = "FunCall" -> fun_call(p.sym, k)
        [] name = "ProcCall" -> proc_call(p.sym, k)
        [] name = "Assg" -> assignment(k[1], k[2])
        [] name = "Return" -> return(ret, k[1])
        [] name \in {"If", "While"} -> tested(name, k[1], k)
        [] name = "For" -> tested(name, k[2], k)
        [] name = "STnodeList" -> IF k = <<>> THEN NULL ELSE Node(name, "None", "", 0, k, FALSE)

\* The trees of phrases.
Trees(ret) ==
  LET tree[p \in Grammar] == Reduced(p, [i \in DOMAIN p.kids |-> tree[p.kids[i]]], ret)
  IN  tree
Tree(p, ret) == Trees(ret)[p]

\* Wrong on purpose: only an empty body is given a return.
AppendReturnToEmpty(body) == IF body.ntype = "NULL" THEN mkExprNode("Return", "None", <<NULL>>) ELSE body

\* The body of a function, a list of statements, ends in a Return.  The last
\* of them is followed to its type, and is NULL when it is empty.
AppendReturn(body) ==
  LET end == mkExprNode("Return", "None", <<NULL>>)
      last == body.kids[Len(body.kids)]
  IN  IF body.ntype = "NULL" THEN end
      ELSE IF last.ntype = "NULL" THEN FollowsNULL
      ELSE IF last.ntype = "Return" THEN body
      ELSE [body EXCEPT !.kids = Append(@, end)]

-----------------------------------------------------------------------------
\* The typing rules of C--: what a phrase denotes, if anything.
Denotes(p) ==
  CASE p.ntype \in {"Intcon", "UnaryMinus"} \cup Arithmetic -> "Int"
    [] p.ntype = "Charcon" -> "Char"
    [] p.ntype = "Stringcon" -> "Array"
    [] p.ntype = "Var" -> type[p.sym]
    [] p.ntype = "ArraySubscript" -> elt_type[p.sym]
    [] p.ntype = "FunCall" -> ret_type[p.sym]
    [] p.ntype \in Tests -> "Bool"
    [] p.ntype \in Statements -> "None"

\* The actual i of a call, which denotes kind, fits the formal.
Fits(p, i, kind) ==
  LET f == formals[p.sym][i]
      a == p.kids[i]
  IN  IF type[f] # "Array" THEN kind \in Numeric
      ELSE \/ a.ntype = "Stringcon" /\ elt_type[f] = "Char"
           \/ a.ntype = "Var" /\ type[a.sym] = "Array" /\ elt_type[a.sym] = elt_type[f]

FitsAll(p, kind, results) ==
  /\ type[p.sym] = "Func" /\ ret_type[p.sym] \in results
  /\ Len(p.kids) = Len(formals[p.sym])
  /\ \A i \in DOMAIN p.kids : Fits(p, i, kind[i])

\* What the parts of a phrase denote is what its rule wants.
Allowed(p, kind, ret) ==
  CASE p.ntype \in Literals \cup {"NULL", "STnodeList"} -> TRUE
    [] p.ntype = "Var" -> type[p.sym] # "None"
    [] p.ntype = "ArraySubscript" -> type[p.sym] = "Array" /\ kind[1] \in Numeric
    [] p.ntype = "FunCall" -> FitsAll(p, kind, Results)
    [] p.ntype = "ProcCall" -> FitsAll(p, kind, {"None"})
    [] p.ntype \in Arithmetic \cup Comparisons \cup {"UnaryMinus", "Assg"} ->
         \A i \in DOMAIN kind : kind[i] \in Numeric
    [] p.ntype \in Connectives \cup {"LogicalNot"} -> \A i \in DOMAIN kind : kind[i] = "Bool"
    [] p.ntype = "Return" -> IF ret = "None" THEN p.kids[1].ntype = "NULL" ELSE kind[1] \in Numeric
    [] p.ntype \in {"If", "While"} -> kind[1] = "Bool"
    [] p.ntype = "For" -> kind[2] \in {"Bool", "None"}

\* "Wrong" if it denotes nothing.
Denoted(p, kind, ret) ==
  IF Allowed(p, kind, ret) /\ \A i \in DOMAIN kind : kind[i] # "Wrong" THEN Denotes(p) ELSE "Wrong"

Meanings(ret) ==
  LET meaning[p \in Grammar] == Denoted(p, [i \in DOMAIN p.kids |-> meaning[p.kids[i]]], ret)
  IN  meaning
Meaning(p, ret) == Meanings(ret)[p]
=============================================================================
