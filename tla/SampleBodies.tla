---------------------------- MODULE SampleBodies ----------------------------
(***************************************************************************)
(* Bodies over an int x, a char c, arrays a of ints and s of chars, the    *)
(* functions int f(int), char g(int[], char), void h(int) and              *)
(* void w(char[]), and an undeclared name u.                               *)
(***************************************************************************)
EXTENDS SyntaxTrees

Id(id) == Phrase("Var", id, 0, <<>>)
Number(n) == Phrase("Intcon", "", n, <<>>)
Quoted(n) == Phrase("Charcon", "", n, <<>>)
String == Phrase("Stringcon", "", 7, <<>>)
Make(ntype, kids) == Phrase(ntype, "", 0, kids)
At(id, e) == Phrase("ArraySubscript", id, 0, <<e>>)
Call1(id, e) == Phrase("FunCall", id, 0, <<e>>)
Proc(id, e) == Phrase("ProcCall", id, 0, <<e>>)
CallG(e1, e2) == Phrase("FunCall", "g", 0, <<e1, e2>>)
Binary(ops, left, right) == {Make(op, <<l, r>>) : op \in ops, l \in left, r \in right}
List(seq) == Make("STnodeList", seq)

\* Expressions of numbers: single ones, with one operator or call, with two.
Single == {Id("x"), Id("c"), Number(1)}
Once == Single \cup {Make("UnaryMinus", <<Id("c")>>), At("a", Id("x")), At("s", Id("c")),
                     Call1("f", Id("x")), CallG(Id("a"), Quoted(0)),
                     Make("BinaryMinus", <<Id("x"), Id("c")>>)}
Twice == Once \cup Binary({"BinaryMinus"}, Once, Once)
           \cup {At("a", e) : e \in Once} \cup {Call1("f", e) : e \in Once}
           \cup {CallG(Id("a"), e) : e \in Once} \cup {Make("UnaryMinus", <<e>>) : e \in Once}
Places == {Id("x"), Id("c"), At("a", Id("c")), At("s", Call1("f", Id("x")))}

Assignments == {Make("Assg", <<l, e>>) : l \in Places, e \in Twice}
                 \cup {Make("Assg", <<Id("x"), e>>) :
                         e \in Binary(Arithmetic, {Id("x")}, {Call1("f", Number(1)), Id("c")})}
Returns == {Make("Return", <<e>>) : e \in Twice}

\* SampleTests.
Compared == Binary(Comparisons, {Id("x")}, {Id("c")}) \cup {Make("Leq", <<Number(1), Call1("f", Id("x"))>>)}
Few == {Make("Lt", <<Id("x"), Id("c")>>), Make("Equals", <<Id("c"), Number(0)>>),
        Make("LogicalNot", <<Make("Leq", <<Number(1), Call1("f", Id("x"))>>)>>)}
Joined(tests) == Binary(Connectives, tests, tests)
SampleTests == Compared \cup {Make("LogicalNot", <<t>>) : t \in Compared \cup Joined(Few)}
           \cup Joined(Few) \cup Binary(Connectives, Joined(Few), Few)
           \cup Binary(Connectives, Few, Joined(Few))

\* SampleStatements.
Store(id, e) == Make("Assg", <<Id(id), e>>)
SetX == Store("x", Number(1))
Basic == {SetX, Store("c", Id("x")), Proc("h", Call1("f", Id("x"))), Make("Return", <<Id("c")>>),
          List(<<>>), List(<<Store("x", Id("x")), Store("x", Number(0))>>)}
Step == Store("x", Make("Plus", <<Id("x"), Number(1)>>))
Loops(t, s) ==
  {Make("While", <<t, s>>), Make("For", <<SetX, t, Step, s>>),
   Make("For", <<Nothing, t, Nothing, s>>)}
Conditionals(t, s1, s2) == {Make("If", <<t, s1, s2>>), Make("If", <<t, s1, Nothing>>)}
Flat(t) == UNION {Conditionals(t, s1, s2) \cup Loops(t, s1) : s1 \in Basic, s2 \in Basic}
Less == Make("Lt", <<Id("x"), Id("c")>>)
Nested == UNION {Conditionals(Less, s1, s2) \cup Loops(Less, s1) :
                   s1 \in Flat(Make("Equals", <<Id("c"), Id("x")>>)), s2 \in {SetX, Make("While", <<Less, Step>>)}}
Endless == {Make("For", <<SetX, Nothing, Step, Make("If", <<Less, Make("Return", <<Id("x")>>), s>>)>>) :
              s \in Basic}

SampleStatements == Assignments \cup Returns \cup Endless \cup Nested
  \cup {Make("If", <<t, SetX, Store("c", Number(1))>>) : t \in SampleTests}
  \cup {Make("While", <<t, Step>>) : t \in SampleTests}

\* Phrases that need not mean anything.
\* A string is no actual for an array of ints: what the parser then reads as
\* a symbol table entry is the text of the string.
Odd == {Id("x"), Id("a"), Id("s"), Id("f"), Id("u"), String, Number(1), Call1("h", Number(1)), At("a", Id("a")),
        At("a", Id("u")), At("x", Number(1)), At("u", Number(0)), Call1("f", Id("u"))}
OddStatements ==
  {Make("Assg", <<l, e>>) : l \in Odd \ {Number(1), String, Call1("h", Number(1)), Call1("f", Id("u"))}, e \in Odd}
    \cup {Proc(id, e) : id \in {"f", "h", "x", "u"}, e \in Odd}
    \cup {Store("x", CallG(e1, e2)) : e1 \in Odd \ {String}, e2 \in Odd}
    \cup {Store("x", Call1("g", Id("a")))} \cup {Store("x", Make(op, <<e>>)) : op \in {"UnaryMinus"}, e \in Odd}
    \cup {Store("x", e) : e \in Binary({"Plus"}, Odd, Odd)}
    \cup {Make("While", <<t, SetX>>) : t \in Binary({"Lt"}, Odd, Odd)}
    \cup {Make("If", <<Make("LogicalNot", <<t>>), SetX, SetX>>) : t \in Binary({"Lt"}, Odd, {Number(1)})}
    \cup {Make("Return", <<e>>) : e \in Odd \cup {Nothing}}

Body(ret, phrase) == [ret |-> ret, phrase |-> phrase]
EmptyBody == Body("None", List(<<>>))
NoBody == Body("None", List(<<Make("Return", <<Number(1)>>)>>))
AllBodies == {Body("Int", List(<<s>>)) : s \in SampleStatements}
  \cup {Body("Char", List(<<s, Store("c", Id("x"))>>)) : s \in Basic \cup OddStatements}
  \cup {Body("None", List(<<SetX, s>>)) : s \in {Make("Return", <<Nothing>>), Nothing, List(<<>>),
                                             Make("Return", <<Number(1)>>), Make("Return", <<Call1("h", Id("x"))>>),
                                             Store("s", Id("x"))}}
  \cup {Body("None", List(<<Proc("w", e)>>)) : e \in {String, Id("s"), Id("a"), Number(1)}}
  \cup {EmptyBody}
=============================================================================
