---------------------------- MODULE MCEvaluator -----------------------------
(***************************************************************************)
(* Evaluator for TLC: programs put together from a few forms, and programs *)
(* written for one form each.                                              *)
(***************************************************************************)
EXTENDS Evaluator

S(x) == Sym(x)
Quoted(x) == Form("quote", <<x>>)
Def(x, e) == Form("define", <<S(x), e>>)
Fun(name, formals, body) == Form("define", <<Pair(S(name), formals)>> \o body)
Fn(formals, body) == Form("lambda", <<formals>> \o body)
Say(e) == Form("display", <<e>>)
Vars(xs) == List([i \in DOMAIN xs |-> S(xs[i])])
Binding(x, e) == List(<<S(x), e>>)
Ap(f, args) == List(<<f>> \o args)
Nums(n) == [i \in 1..n |-> Num(i)]

\* Expressions without parts, and what is done with two of them.
Small == {Num(1), S("x"), S("y"), Quoted(S("a")), Say(S("x")), Form("set!", <<S("x"), Num(3)>>),
          Ap(S("f"), <<Num(5)>>)}

Shapes(a, b) ==
  { Form("if", <<a, b, Bool(FALSE)>>),
    Form("and", <<a, b>>),
    Form("begin", <<a, b, S("x")>>),
    Form("list", <<a, b>>),
    Form("let", <<List(<<Binding("x", Num(7))>>), a, b>>),
    Form("let*", <<List(<<Binding("x", Num(8)), Binding("y", S("x"))>>), a, b>>),
    Ap(Fn(Vars(<<"x">>), <<a, b, S("x")>>), <<Num(6)>>),
    Form("cond", <<List(<<a, b>>), List(<<S("else"), S("x")>>)>>) }

\* f assigns the variable it closes over.
Small1 == <<Def("x", Num(2)),
            Fun("f", Vars(<<"z">>), <<Form("set!", <<S("x"), S("z")>>), Form("list", <<S("x"), S("z")>>)>>)>>
Grown == { Small1 \o <<e>> : e \in UNION { Shapes(a, b) : a \in Small, b \in Small } }

Loop(test) ==
  <<Fun("loop", Vars(<<"l">>), <<test>>), Form("loop", <<Quoted(List(Nums(6)))>>)>>
Again == Form("loop", <<Form("cdr", <<S("l")>>)>>)
AtEnd == Form("null?", <<S("l")>>)
MCLoops ==
  { Loop(Form("if", <<AtEnd, Quoted(S("done")), Again>>)),
    Loop(Form("cond", <<List(<<AtEnd, Num(0)>>), List(<<S("else"), Num(1), Again>>)>>)),
    Loop(Form("case", <<AtEnd, List(<<List(<<Bool(TRUE)>>), Num(0)>>), List(<<S("else"), Again>>)>>)),
    Loop(Form("and", <<Form("pair?", <<S("l")>>), Again>>)),
    Loop(Form("or", <<AtEnd, Form("begin", <<Num(1), Again>>)>>)),
    Loop(Form("let", <<List(<<Binding("m", Form("cdr", <<S("l")>>))>>),
                       Form("if", <<AtEnd, Num(0), Again>>)>>)),
    Loop(Form("if", <<AtEnd, Num(0), Form("apply", <<S("loop"), Form("list", <<Form("cdr", <<S("l")>>)>>)>>)>>)) }

\* One or two programs for each of the other forms and procedures.
Written ==
  { \* a counter of its own for each closure
    <<Fun("make", Vars(<<"n">>), <<Fn(Nil, <<Form("set!", <<S("n"), Form("cons", <<Num(1), S("n")>>)>>), S("n")>>)>>),
      Def("a", Form("make", <<Nil>>)), Def("b", Form("make", <<Num(2)>>)),
      Form("a", <<>>), Form("list", <<Form("a", <<>>), Form("b", <<>>)>>)>>,
    \* recursion, and rest arguments
    <<Fun("copy", Vars(<<"l">>), <<Form("if", <<AtEnd, Nil,
        Form("cons", <<Form("car", <<S("l")>>), Form("copy", <<Form("cdr", <<S("l")>>)>>)>>)>>)>>),
      Form("copy", <<Quoted(List(Nums(3)))>>)>>,
    <<Fun("f", Dotted(<<S("x")>>, S("r")), <<Form("list", <<S("x"), S("r")>>)>>), Form("f", Nums(3))>>,
    <<Ap(Fn(S("r"), <<S("r")>>), Nums(2))>>,
    <<Fun("f", Vars(<<"x">>), <<S("x")>>), Form("f", Nums(2))>>,
    \* templates, and their text
    <<Def("l", Form("list", Nums(2))),
      Form("quasiquote", <<List(<<S("a"), Form("unquote", <<S("l")>>), List(<<S("b"), Form("unquote", <<Num(3)>>)>>)>>)>>)>>,
    <<Form("quasiquote", <<List(<<Num(0), Form("unquote-splice", <<Form("list", Nums(2))>>), Num(3)>>)>>)>>,
    <<Form("quasiquote", <<Dotted(<<S("a"), S("b")>>, Form("unquote", <<Form("list", Nums(2))>>))>>)>>,
    \* several values
    <<Form("define-values", <<Vars(<<"a", "b">>), Form("values", Nums(2))>>), Form("list", <<S("b"), S("a")>>)>>,
    <<Form("let-values", <<List(<<List(<<Vars(<<"a", "b">>), Form("values", Nums(2))>>)>>), Form("cons", <<S("a"), S("b")>>)>>)>>,
    <<Form("call-with-values", <<Fn(Nil, <<Form("values", Nums(2))>>), S("list")>>)>>,
    <<Form("case-lambda", <<List(<<Vars(<<"x">>), Num(0)>>)>>), 
      Ap(Form("case-lambda", <<List(<<Vars(<<"x">>), Num(0)>>), List(<<Vars(<<"x", "y">>), S("y")>>)>>), Nums(2))>>,
    <<Ap(Form("case-lambda", <<List(<<Vars(<<"x">>), Num(0)>>)>>), <<>>)>>,
    \* parameters
    <<Def("p", Form("make-parameter", <<Num(1), Fn(Vars(<<"x">>), <<Form("list", <<S("x")>>)>>)>>)),
      Fun("get", Nil, <<Form("p", <<>>)>>),
      Form("list", <<Form("parameterize", <<List(<<Binding("p", Num(2))>>), Form("get", <<>>)>>), Form("get", <<>>)>>)>>,
    <<Def("p", Form("make-parameter", <<Num(1)>>)), Def("q", Form("make-parameter", <<Num(2)>>)),
      Form("parameterize", <<List(<<Binding("p", Form("q", <<>>)), Binding("q", Form("p", <<>>))>>),
                             Form("list", <<Form("p", <<>>), Form("q", <<>>)>>)>>)>>,
    <<Def("p", Num(1)), Form("parameterize", <<List(<<Binding("p", Num(1))>>), Num(1)>>)>>,
    \* lists
    <<Form("map", <<Fn(Vars(<<"x", "y">>), <<Form("cons", <<S("x"), S("y")>>)>>), Quoted(List(Nums(3))), Quoted(Vars(<<"a", "b">>))>>)>>,
    <<Form("for-each", <<S("display"), Quoted(List(Nums(2)))>>)>>,
    <<Form("map", <<Fn(Vars(<<"x">>), <<S("x")>>), Quoted(List(Nums(1))), Quoted(List(Nums(1)))>>)>>,
    <<Form("append", <<Quoted(List(Nums(2))), Nil, Quoted(Vars(<<"a">>)), Num(1)>>)>>,
    <<Form("apply", <<S("append"), Form("list", Nums(1)), Form("list", <<Form("list", Nums(2)), Form("reverse", <<Quoted(List(Nums(3)))>>)>>)>>)>>,
    <<Form("length", <<Quoted(Dotted(Nums(2), Num(3)))>>)>>,
    <<Form("list", <<Form("length", <<Quoted(List(Nums(2)))>>), Form("memv", <<Num(2), Quoted(List(Nums(3)))>>),
                     Form("assv", <<Num(2), Quoted(List(<<List(Nums(1)), List(<<Num(2), Num(0)>>)>>))>>),
                     Form("list-tail", <<Form("list-copy", <<Quoted(List(Nums(3)))>>), Num(2)>>)>>)>>,
    <<Form("list-tail", <<Quoted(List(Nums(2))), Num(3)>>)>>,
    <<Def("l", Form("make-list", <<Num(2), Quoted(S("a"))>>)),
      Form("list", <<S("l"), Form("list?", <<S("l")>>), Form("list?", <<Form("cons", Nums(2))>>), Form("list-ref", <<S("l"), Num(1)>>)>>),
      Form("list-ref", <<S("l"), Num(2)>>)>>,
    <<Form("list-ref", <<Quoted(List(Nums(1))), Num(-1)>>)>>,
    \* clauses with =>, code as data, promises and macros
    <<Form("cond", <<List(<<Form("memv", <<Num(4), Nil>>), Num(0)>>),
                     List(<<Form("length", <<Quoted(List(Nums(2)))>>), S("=>"), S("list")>>)>>)>>,
    <<Form("eval", <<Form("list", <<Quoted(S("list")), Num(1)>>)>>)>>,
    <<Form("pair?", <<Form("delay", <<Say(Num(1))>>)>>)>>,
    <<Fun("f", Nil, <<Num(1)>>), Form("force", <<S("f")>>), Form("f", <<>>)>>,
    <<Form("defmacro", <<Vars(<<"m", "x">>), Form("length", <<S("x")>>)>>), Form("m", <<List(<<S("a"), S("b")>>)>>)>>,
    \* forms that shadow the forms of the language, and errors
    <<Fun("f", Vars(<<"if">>), <<Form("if", <<Num(1)>>)>>), Form("f", <<S("list")>>)>>,
    <<Say(Num(1)), Form("undefined", <<Say(Num(2))>>), Say(Num(3))>>,
    <<Ap(Num(1), <<>>)>>, <<Pair(S("list"), Num(1))>>, <<Form("car", <<Nil>>)>> }

\* Left out is where the interpreter is known to differ from R7RS: a value
\* of or, a promise forced, a list spliced that is empty or stands in the
\* text, symbols and lists behind => and call-with-values.
MCPrograms == Grown \cup MCLoops \cup Written

\* A macro that makes an expression of its argument.
MCMacros == { <<Form("defmacro", <<Vars(<<"m", "x">>), Form("list", <<Quoted(S("car")), S("x")>>)>>),
                Form("m", <<Form("list", Nums(2))>>)>> }
NoLoops == {}
=============================================================================
