--------------------------- MODULE CodeGenerator ----------------------------
(***************************************************************************)
(* From syntax trees to three-address code (code_generation.c) and the     *)
(* peephole optimisation of that code (code_optimization.c).  Generating   *)
(* for a node yields its code, the place of its value, the location of an  *)
(* element, and the temporaries that are free afterwards.  A label is      *)
(* named by the path from the root to the node that creates it.            *)
(***************************************************************************)
EXTENDS SyntaxTrees

\* Operands: a variable or array, a constant of a type, a temporary of a type.
None == <<"", 0>>
Var(id) == <<id, 0>>
constants == {"constant Int", "constant Char", "string"}
temporaries == {"Int temporary", "Char temporary", "Addr temporary"}
constant(t, n) == <<IF t = "Int" THEN "constant Int" ELSE "constant Char", n>>
is_temporary(o) == o[1] \in temporaries
temporary(t, n) ==
  <<CASE t = "Int" -> "Int temporary" [] t = "Char" -> "Char temporary"
      [] t = "Addr" -> "Addr temporary", n>>

Instruction(op, src1, src2, dest, it, label) ==
  [op |-> op, src1 |-> src1, src2 |-> src2, dest |-> dest, it |-> it, label |-> label]
create_instruction(op, src1, src2, dest) == Instruction(op, src1, src2, dest, "", <<>>)
create_jump_instruction(label) == Instruction("Goto", None, None, None, "", label)
LabelInstruction(label) == Instruction("Label", None, None, None, "", label)

\* tmp_counter, and the temporaries to be used again, by type, last freed
\* first.
NoTemporaries == [count |-> 0, free |-> [t \in {"Int", "Char", "Addr"} |-> <<>>]]

create_temporary(pool, t) ==
  IF pool.free[t] # <<>>
  THEN [place |-> temporary(t, Head(pool.free[t])),
        pool |-> [pool EXCEPT !.free[t] = Tail(@)]]
  ELSE [place |-> temporary(t, pool.count), pool |-> [pool EXCEPT !.count = @ + 1]]

free_temporary(pool, o) ==
  IF ~is_temporary(o) THEN pool
  ELSE LET t == IF o[1] = "Int temporary" THEN "Int"
                ELSE IF o[1] = "Char temporary" THEN "Char" ELSE "Addr"
       IN  [pool EXCEPT !.free[t] = <<o[2]>> \o @]

\* ok is FALSE when a place or a location that is NULL was followed.
Result(code, pool, place, loc, ok) ==
  [code |-> code, pool |-> pool, place |-> place, loc |-> loc, ok |-> ok]

\* One instruction computes a value from places, which are free after it.
Delivered(before, ok, t, op, src1, src2, it) ==
  LET new == create_temporary(before.pool, t)
  IN  Result(Append(before.code, Instruction(op, src1, src2, new.place, it, <<>>)),
             free_temporary(free_temporary(new.pool, src1), src2),
             new.place, None, before.ok /\ ok)

\* The labels a node creates.
Label(path, name) == path \o <<CASE name = "then" -> -1 [] name = "else" -> -2
                                [] name = "after" -> -3 [] name = "body" -> -4
                                [] name = "eval" -> -5 [] name = "next" -> -6>>

\* Parts one after the other, where parts[i] yields a result from a pool.
Then(before, after) ==
  Result(before.code \o after.code, after.pool, after.place, after.loc, before.ok /\ after.ok)
Emit(before, instructions) ==
  Result(before.code \o instructions, before.pool, None, None, before.ok)
Start(pool) == Result(<<>>, pool, None, None, TRUE)

\* Code to be generated for a node: for its value, "R", its location, "L", or
\* a test, "B", that jumps to yes or to no.
Labels == Seq(Int)
Pools == [count : Nat, free : [{"Int", "Char", "Addr"} -> Seq(Nat)]]
RequestsTo(n) ==
  [node : NodesTo[n], mode : {"R", "L", "B"}, yes : Labels, no : Labels, path : Labels, pool : Pools]
Request(node, mode, yes, no, path, pool) ==
  [node |-> node, mode |-> mode, yes |-> yes, no |-> no, path |-> path, pool |-> pool]

\* The code of a part, where gen is what is generated for every part.
generate_function_code(gen, node, lr, path, pool) ==
  gen[Request(node, lr, <<>>, <<>>, path, pool)]
generate_bool_expr_code(gen, node, yes, no, path, pool) ==
  gen[Request(node, "B", yes, no, path, pool)]

\* The code of several nodes, in order, with the result of each.
InOrder(gen, nodes, lr, path, pool) ==
  LET done[i \in 0 .. Len(nodes)] ==
        IF i = 0 THEN [all |-> Start(pool), each |-> <<>>]
        ELSE LET before == done[i - 1]
                 r == generate_function_code(gen, nodes[i], lr[i], Append(path, i), before.all.pool)
             IN  [all |-> Then(before.all, r), each |-> Append(before.each, r)]
  IN  done[Len(nodes)]
Values(gen, node, path, pool) ==
  InOrder(gen, node.kids, [i \in DOMAIN node.kids |-> "R"], path, pool)

\* Wrong on purpose: every argument by its address.
ArgumentsByAddress(gen, node, path, pool) ==
  InOrder(gen, node.kids, [i \in DOMAIN node.kids |-> "L"], path, pool)

generate_function_args_code(gen, node, path, pool) ==
  InOrder(gen, node.kids,
          [i \in DOMAIN node.kids |-> IF type[formals[node.sym][i]] = "Array" THEN "L" ELSE "R"],
          path, pool)

FreedAll(pool, places) ==
  LET freed[i \in 0 .. Len(places)] ==
        IF i = 0 THEN pool ELSE free_temporary(freed[i - 1], places[i])
  IN  freed[Len(places)]

\* Parameters are emitted from right to left, their temporaries freed from
\* left to right.
FunCallCode(gen, node, path, pool) ==
  LET args == generate_function_args_code(gen, node, path, pool)
      passed == [i \in DOMAIN args.each |->
                   IF args.each[i].place # None THEN args.each[i].place ELSE args.each[i].loc]
      params == Reverse([i \in DOMAIN passed |->
                           create_instruction("Param", passed[i], None, None)])
      freed == FreedAll(args.all.pool, passed)
      code == args.all.code \o Append(params, create_instruction("Call", Var(node.sym), None, None))
      ok == args.all.ok /\ \A i \in DOMAIN passed : passed[i] # None
      new == create_temporary(freed, ret_type[node.sym])
  IN  IF ret_type[node.sym] = "None" THEN Result(code, freed, None, None, ok)
      ELSE Result(Append(code, create_instruction("Retrieve", None, None, new.place)),
                  new.pool, new.place, None, ok)

AssgCode(gen, node, path, pool) ==
  LET both == InOrder(gen, node.kids, <<"L", "R">>, path, pool)
      dest == IF node.kids[1].ntype = "ArraySubscript" THEN both.each[1].loc ELSE both.each[1].place
      src == both.each[2].place
  IN  Result(Append(both.all.code, create_instruction("Assign", src, None, dest)),
             free_temporary(both.all.pool, src), None, None, both.all.ok /\ src # None)

SubscriptCode(gen, node, lr, path, pool) ==
  LET index == generate_function_code(gen, node.kids[1], "R", Append(path, 1), pool)
      address == create_temporary(free_temporary(index.pool, index.place), "Addr")
      value == create_temporary(address.pool, elt_type[node.sym])
      indexed == Append(index.code, create_instruction("Index_Array", index.place, Var(node.sym),
                                                       address.place))
      ok == index.ok /\ index.place # None
  IN  IF lr = "L" THEN Result(indexed, address.pool, None, address.place, ok)
      ELSE Result(Append(indexed, create_instruction("Deref", address.place, None, value.place)),
                  value.pool, value.place, None, ok)

\* ret is func_header->ret_type.
ReturnCode(gen, ret, node, path, pool) ==
  LET leave == create_instruction("Leave", None, None, None)
      value == generate_function_code(gen, node.kids[1], "R", Append(path, 1), pool)
      new == create_temporary(value.pool, ret)
  IN  IF node.kids[1].ntype = "NULL"
      THEN Emit(Start(pool), <<leave, create_instruction("Return", None, None, None)>>)
      ELSE Result(<<leave>> \o value.code
                    \o <<create_instruction("Assign", value.place, None, new.place),
                         create_instruction("Return", new.place, None, None)>>,
                  new.pool, None, None, value.ok)

IfCode(gen, node, lr, path, pool) ==
  LET after == LabelInstruction(Label(path, "after"))
      otherwise == node.kids[3].ntype # "NULL"
      test == generate_bool_expr_code(gen, node.kids[1], Label(path, "then"),
                Label(path, IF otherwise THEN "else" ELSE "after"), Append(path, 1), pool)
      first == Emit(test, <<LabelInstruction(Label(path, "then"))>>)
      second == Then(first, generate_function_code(gen, node.kids[2], lr, Append(path, 2), first.pool))
      third == Emit(second, <<create_jump_instruction(Label(path, "after")),
                              LabelInstruction(Label(path, "else"))>>)
      last == Then(third, generate_function_code(gen, node.kids[3], lr, Append(path, 3), third.pool))
  IN  Emit(IF otherwise THEN last ELSE second, <<after>>)

\* The body is generated before the test it follows.
WhileCode(gen, node, lr, path, pool) ==
  LET head == Emit(Start(pool), <<create_jump_instruction(Label(path, "eval")),
                                  LabelInstruction(Label(path, "body"))>>)
      body == Then(head, generate_function_code(gen, node.kids[2], lr, Append(path, 2), pool))
      eval == Emit(body, <<LabelInstruction(Label(path, "eval"))>>)
      test == Then(eval, generate_bool_expr_code(gen, node.kids[1], Label(path, "body"),
                           Label(path, "after"), Append(path, 1), eval.pool))
  IN  Emit(test, <<LabelInstruction(Label(path, "after"))>>)

ForCode(gen, node, lr, path, pool) ==
  LET init == generate_function_code(gen, node.kids[1], lr, Append(path, 1), pool)
      head == Emit(init, <<create_jump_instruction(Label(path, "eval")),
                           LabelInstruction(Label(path, "body"))>>)
      body == Then(head, generate_function_code(gen, node.kids[4], lr, Append(path, 4), head.pool))
      update == Then(body, generate_function_code(gen, node.kids[3], lr, Append(path, 3), body.pool))
      eval == Emit(update, <<LabelInstruction(Label(path, "eval"))>>)
      test == IF node.kids[2].ntype = "NULL"
              THEN Emit(eval, <<create_jump_instruction(Label(path, "body"))>>)
              ELSE Then(eval, generate_bool_expr_code(gen, node.kids[2], Label(path, "body"),
                                Label(path, "after"), Append(path, 2), eval.pool))
  IN  Emit(test, <<LabelInstruction(Label(path, "after"))>>)

CodeOf(gen, ret, node, lr, path, pool) ==
  LET name == node.ntype
      operands == Values(gen, node, path, pool)
      src(i) == operands.each[i].place
  IN  CASE name = "NULL" -> Start(pool)
        [] name = "Var" -> Result(<<>>, pool, Var(node.sym), None, TRUE)
        [] name \in {"Intcon", "Charcon"} ->
             IF lr = "L" THEN Start(pool)
             ELSE Delivered(Start(pool), TRUE, node.etype, "Assign",
                            constant(node.etype, node.val), None, "")
        [] name = "Stringcon" -> Result(<<>>, pool, <<"string", node.val>>, None, TRUE)
        [] name = "UnaryMinus" ->
             Delivered(operands.all, src(1) # None, node.etype, "UMinus", src(1), None, "")
        [] name \in Arithmetic ->
             Delivered(operands.all, src(1) # None /\ src(2) # None, node.etype,
                       "BinaryArithmetic", src(1), src(2), name)
        [] name = "FunCall" -> FunCallCode(gen, node, path, pool)
        [] name = "Assg" -> AssgCode(gen, node, path, pool)
        [] name = "ArraySubscript" -> SubscriptCode(gen, node, lr, path, pool)
        [] name = "Return" -> ReturnCode(gen, ret, node, path, pool)
        [] name = "If" -> IfCode(gen, node, lr, path, pool)
        [] name = "While" -> WhileCode(gen, node, lr, path, pool)
        [] name = "For" -> ForCode(gen, node, lr, path, pool)
        [] name = "STnodeList" ->
             Emit(InOrder(gen, node.kids, [i \in DOMAIN node.kids |-> lr], path, pool).all, <<>>)

\* Code that jumps to yes or to no.
TestCode(gen, node, yes, no, path, pool) ==
  LET name == node.ntype
      next == Label(path, "next")
      operands == Values(gen, node, path, pool)
      joined(a_yes, a_no) ==
        LET a == generate_bool_expr_code(gen, node.kids[1], a_yes, a_no, Append(path, 1), pool)
            b == generate_bool_expr_code(gen, node.kids[2], yes, no, Append(path, 2), a.pool)
        IN  Then(Emit(a, <<LabelInstruction(next)>>), b)
  IN  CASE name = "LogicalAnd" -> joined(next, no)
        [] name = "LogicalOr" -> joined(yes, next)
        [] name = "LogicalNot" ->
             generate_bool_expr_code(gen, node.kids[1], no, yes, Append(path, 1), pool)
        [] name \in Comparisons ->
             Emit(operands.all,
                  <<Instruction("If", operands.each[1].place, operands.each[2].place, None, name, yes),
                    create_jump_instruction(no)>>)

CodeFor(gen, ret, x) ==
  IF x.mode = "B" THEN TestCode(gen, x.node, x.yes, x.no, x.path, x.pool)
  ELSE CodeOf(gen, ret, x.node, x.mode, x.path, x.pool)

\* What is generated for the nodes of each depth.
Generators(ret) ==
  LET gen[n \in 0 .. MaxDepth + 2] ==
        IF n = 0 THEN <<>> ELSE [x \in RequestsTo(n) |-> CodeFor(gen[n - 1], ret, x)]
  IN  gen

\* The function: its body after AppendReturn.
Generated(ret, body) ==
  [generate_function_code(Generators(ret)[MaxDepth + 2], body, "R", <<>>, NoTemporaries)
     EXCEPT !.code = <<create_instruction("Enter", None, None, None)>> \o @]

-----------------------------------------------------------------------------
\* Wrong on purpose: > for the inverse of <.
InvertedStrictly(it) ==
  CASE it = "Equals" -> "Neq" [] it = "Neq" -> "Equals" [] it = "Leq" -> "Gt"
    [] it = "Gt" -> "Leq" [] it = "Geq" -> "Lt" [] it = "Lt" -> "Gt"

invert_boolean_operator(it) ==
  CASE it = "Equals" -> "Neq" [] it = "Neq" -> "Equals" [] it = "Leq" -> "Gt"
    [] it = "Gt" -> "Leq" [] it = "Geq" -> "Lt" [] it = "Lt" -> "Geq"

JumpsTo(code, i, j) ==
  j <= Len(code) /\ code[j].op = "Label" /\ code[j].label = code[i].label

\* One instruction of the walk over the code; dead holds the positions of
\* the dead ones.  The tests see dead instructions too, and an assignment
\* may meet all three of its own.
Peeped(p, i) ==
  LET c == p.code[i]
      follows == i < Len(p.code)
      next == p.code[i + 1]
      previous == p.code[i - 1]
      inverts == follows /\ next.op = "Goto" /\ JumpsTo(p.code, i, i + 2)
      repeated == follows /\ next.dest = c.dest /\ next.src1 = c.src1
      bypasses == c.dest[1] # "Addr temporary" /\ is_temporary(c.src1) /\ previous.dest = c.src1
  IN  CASE c.op = "Goto" /\ JumpsTo(p.code, i, i + 1) -> [p EXCEPT !.dead = @ \cup {i}]
        [] c.op = "If" /\ inverts ->
             [code |-> [p.code EXCEPT ![i].it = invert_boolean_operator(@), ![i].label = next.label],
              dead |-> p.dead \cup {i + 1}]
        [] c.op = "Assign" ->
             [code |-> IF bypasses THEN [p.code EXCEPT ![i - 1].dest = c.dest] ELSE p.code,
              dead |-> IF c.dest = c.src1 \/ repeated \/ bypasses THEN p.dead \cup {i} ELSE p.dead]
        [] OTHER -> p

run_peephole_optimization(code) ==
  LET walked[i \in 0 .. Len(code)] ==
        IF i = 0 THEN [code |-> code, dead |-> {}] ELSE Peeped(walked[i - 1], i)
  IN  walked[Len(code)]
=============================================================================
