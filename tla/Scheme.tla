------------------------------- MODULE Scheme -------------------------------
(***************************************************************************)
(* What a Scheme program means according to R7RS, for the forms and the    *)
(* procedures the programs of this project use: a big-step evaluation over *)
(* data without identity.  It knows nothing of the interpreter: there are  *)
(* no pairs on a heap, no bounces and no C stack, and the arguments of a   *)
(* call are evaluated from left to right, one of the orders R7RS allows.   *)
(* A macro is as in Lisp: what its body makes of the parts of the call is  *)
(* evaluated where the call stands.  A promise is forced anew each time.   *)
(***************************************************************************)
EXTENDS Integers, Sequences, FiniteSets, TLC

(* Data: a tag and what belongs to it.  Programs are data.                 *)
Sym(s) == <<"sym", s>>
Num(n) == <<"num", n>>
Bool(b) == <<"bool", b>>
Nil == <<"nil">>
Void == <<"void">>
Pair(a, d) == <<"cons", a, d>>

RECURSIVE Dotted(_, _)
Dotted(s, d) == IF s = <<>> THEN d ELSE Pair(Head(s), Dotted(Tail(s), d))
List(s) == Dotted(s, Nil)
Form(name, parts) == List(<<Sym(name)>> \o parts)

RECURSIVE Parts(_)
Parts(x) == IF x[1] = "cons" THEN <<x[2]>> \o Parts(x[3]) ELSE <<>>
RECURSIVE EndOf(_)
EndOf(x) == IF x[1] = "cons" THEN EndOf(x[3]) ELSE x

IsTrue(v) == v # Bool(FALSE)

(* The state of an evaluation: the scopes made so far, each with the       *)
(* values of its variables and the scope around it, the values of the      *)
(* parameters outside parameterize, and what was displayed.  An evaluation *)
(* gives a value and a state, or fails.                                    *)
Error == <<"error">>
Gives(v, st) == [ok |-> TRUE, v |-> v, st |-> st]
Fails(st) == [ok |-> FALSE, v |-> Error, st |-> st]
Checked(v, st) == IF v = Error THEN Fails(st) ELSE Gives(v, st)
Then(r, Next(_)) == IF r.ok THEN Next(r) ELSE r

RECURSIVE ScopeOf(_, _, _)
ScopeOf(st, s, x) == IF s = 0 \/ x \in DOMAIN st.scopes[s].vars THEN s
                     ELSE ScopeOf(st, st.scopes[s].up, x)

Assign(st, s, x, v) == [st EXCEPT !.scopes[s].vars = (x :> v) @@ @]

(* A scope for the call of a procedure: its formals and their values.      *)
Enter(st, up, formals, args) ==
  LET names == Parts(formals)
      rest == EndOf(formals)
      fixed == [x \in {names[i][2] : i \in DOMAIN names} |->
                  args[CHOOSE i \in DOMAIN names : names[i][2] = x]]
      more == IF rest = Nil THEN << >>
              ELSE rest[2] :> List(SubSeq(args, Len(names) + 1, Len(args)))
  IN [st EXCEPT !.scopes = Append(@, [vars |-> more @@ fixed, up |-> up])]

Accepts(formals, n) == IF EndOf(formals) = Nil THEN n = Len(Parts(formals))
                       ELSE n >= Len(Parts(formals))

(* The standard procedures that call no procedure.                         *)
IsList(v) == EndOf(v) = Nil
RECURSIVE Backwards(_)
Backwards(s) == IF s = <<>> THEN <<>> ELSE Append(Backwards(Tail(s)), Head(s))
RECURSIVE Joined(_)
Joined(ls) == IF Len(ls) = 1 THEN ls[1] ELSE Dotted(Parts(ls[1]), Joined(Tail(ls)))
RECURSIVE From(_, _)
From(x, l) == IF l = Nil THEN Bool(FALSE) ELSE IF l[2] = x THEN l ELSE From(x, l[3])
RECURSIVE Beyond(_, _)
Beyond(l, k) == IF k = 0 THEN l ELSE IF l[1] # "cons" THEN Error ELSE Beyond(l[3], k - 1)
Entry(x, l) == LET es == SelectSeq(Parts(l), LAMBDA e : e[2] = x)
               IN IF es = <<>> THEN Bool(FALSE) ELSE es[1]

Standard(name, a) ==
  LET n == Len(a) IN
  CASE name = "list" -> List(a)
    [] name = "values" /\ n > 1 -> <<"values", a>>
    [] name = "append" /\ n > 0 -> IF \A i \in 1..n - 1 : IsList(a[i])
                                   THEN Joined(a) ELSE Error
    [] name = "cons" /\ n = 2 -> Pair(a[1], a[2])
    [] name = "memv" /\ n = 2 -> From(a[1], a[2])
    [] name = "assv" /\ n = 2 -> Entry(a[1], a[2])
    [] name = "make-list" /\ n = 2 /\ a[1][2] >= 0 -> List([i \in 1..a[1][2] |-> a[2]])
    [] name = "list-ref" /\ n = 2 /\ a[2][2] >= 0 ->
         LET l == Beyond(a[1], a[2][2]) IN IF l[1] = "cons" THEN l[2] ELSE Error
    [] name = "list-tail" /\ n = 2 /\ a[2][2] >= 0 -> Beyond(a[1], a[2][2])
    [] n # 1 -> Error
    [] name = "null?" -> Bool(a[1] = Nil)
    [] name = "list?" -> Bool(IsList(a[1]))
    [] name = "pair?" -> Bool(a[1][1] = "cons")
    [] name \in {"car", "cdr"} /\ a[1][1] = "cons" -> a[1][IF name = "car" THEN 2 ELSE 3]
    [] name = "reverse" /\ IsList(a[1]) -> List(Backwards(Parts(a[1])))
    [] name = "list-copy" -> a[1]
    [] name = "length" /\ IsList(a[1]) -> Num(Len(Parts(a[1])))
    [] OTHER -> Error

Pure == {"list", "values", "append", "cons", "memv", "assv", "list-tail", "list-ref", "make-list",
         "null?", "pair?", "list?", "car", "cdr", "reverse", "list-copy", "length"}
Calling == {"display", "apply", "map", "for-each", "call-with-values", "make-parameter",
            "eval", "force"}

-----------------------------------------------------------------------------
RECURSIVE Mean(_, _, _, _)       \* an expression, in a scope, under parameters
RECURSIVE MeanAll(_, _, _, _)    \* several expressions, one value each
RECURSIVE MeanBody(_, _, _, _)   \* several expressions, the value of the last
RECURSIVE MeanCall(_, _, _, _)   \* the call of a procedure with its arguments
RECURSIVE MeanQuasi(_, _, _, _)  \* a template
RECURSIVE MeanMap(_, _, _, _)    \* one call for each list of arguments
RECURSIVE MeanParams(_, _, _, _) \* the values for some parameters

MeanAll(xs, s, d, st) ==
  IF xs = <<>> THEN Gives(<<>>, st)
  ELSE Then(Mean(Head(xs), s, d, st), LAMBDA r :
         Then(MeanAll(Tail(xs), s, d, r.st), LAMBDA q : Gives(<<r.v>> \o q.v, q.st)))

MeanBody(xs, s, d, st) ==
  IF Len(xs) = 1 THEN Mean(xs[1], s, d, st)
  ELSE Then(Mean(xs[1], s, d, st), LAMBDA r : MeanBody(Tail(xs), s, d, r.st))

Values(v) == IF v[1] = "values" THEN v[2] ELSE <<v>>

MeanMap(f, rows, d, st) ==
  IF rows = <<>> THEN Gives(<<>>, st)
  ELSE Then(MeanCall(f, Head(rows), d, st), LAMBDA r :
         Then(MeanMap(f, Tail(rows), d, r.st), LAMBDA q : Gives(<<r.v>> \o q.v, q.st)))

(* The lists of arguments of map and for-each: up to the shortest list.    *)
Rows(ls) ==
  LET n == CHOOSE k \in {Len(Parts(ls[i])) : i \in DOMAIN ls} :
             \A i \in DOMAIN ls : k <= Len(Parts(ls[i]))
  IN [j \in 1..n |-> [i \in DOMAIN ls |-> Parts(ls[i])[j]]]

MeanCall(f, a, d, st) ==
  CASE f[1] = "closure" ->
         IF ~Accepts(f[2], Len(a)) THEN Fails(st)
         ELSE MeanBody(f[3], Len(st.scopes) + 1, d, Enter(st, f[4], f[2], a))
    [] f[1] = "cases" ->
         LET fits == SelectSeq(f[2], LAMBDA g : Accepts(g[2], Len(a)))
         IN IF fits = <<>> THEN Fails(st) ELSE MeanCall(fits[1], a, d, st)
    [] f[1] = "param" /\ a = <<>> ->
         Gives(IF f[2] \in DOMAIN d THEN d[f[2]] ELSE st.params[f[2]], st)
    [] f[1] # "prim" -> Fails(st)
    [] f[2] \in Pure -> Checked(Standard(f[2], a), st)
    [] f[2] = "display" -> Gives(Void, [st EXCEPT !.out = Append(@, a[1])])
    [] f[2] = "make-parameter" ->
         Then(IF Len(a) = 2 THEN MeanCall(a[2], <<a[1]>>, d, st) ELSE Gives(a[1], st), LAMBDA r :
           Gives(<<"param", Len(r.st.params) + 1, Tail(a)>>,
                 [r.st EXCEPT !.params = Append(@, r.v)]))
    [] f[2] = "apply" -> MeanCall(a[1], SubSeq(a, 2, Len(a) - 1) \o Parts(a[Len(a)]), d, st)
    [] f[2] = "eval" -> Mean(a[1], 1, d, st)
    [] f[2] = "force" -> IF a[1][1] = "promise" THEN Mean(a[1][2], a[1][3], d, st)
                         ELSE Gives(a[1], st)
    [] f[2] = "call-with-values" ->
         Then(MeanCall(a[1], <<>>, d, st), LAMBDA r : MeanCall(a[2], Values(r.v), d, r.st))
    [] f[2] = "map" -> Then(MeanMap(a[1], Rows(Tail(a)), d, st), LAMBDA r :
                              Gives(List(r.v), r.st))
    [] f[2] = "for-each" -> Then(MeanMap(a[1], Rows(Tail(a)), d, st), LAMBDA r :
                                   Gives(Void, r.st))

(* A template without nesting: unquote is its value, unquote-splicing the  *)
(* elements of its value.                                                  *)
MeanQuasi(x, s, d, st) ==
  CASE x[1] # "cons" -> Gives(x, st)
    [] x[2] = Sym("unquote") -> Mean(x[3][2], s, d, st)
    [] x[2][1] = "cons" /\ x[2][2] = Sym("unquote-splice") ->
         Then(Mean(x[2][3][2], s, d, st), LAMBDA r :
           Then(MeanQuasi(x[3], s, d, r.st), LAMBDA q :
             IF IsList(r.v) THEN Gives(Dotted(Parts(r.v), q.v), q.st) ELSE Fails(q.st)))
    [] OTHER -> Then(MeanQuasi(x[2], s, d, st), LAMBDA r :
                  Then(MeanQuasi(x[3], s, d, r.st), LAMBDA q : Gives(Pair(r.v, q.v), q.st)))

(* The clauses of a case that hold a key.                                  *)
Chosen(key, cs) ==
  SelectSeq(cs, LAMBDA c : c[2] = Sym("else") \/ \E i \in DOMAIN Parts(c[2]) : Parts(c[2])[i] = key)

Names(bs) == List([i \in DOMAIN bs |-> bs[i][2]])
Inits(bs) == [i \in DOMAIN bs |-> bs[i][3][2]]

MeanParams(bs, s, d, st) ==
  IF bs = <<>> THEN Gives(<<>>, st)
  ELSE Then(Mean(bs[1][2], s, d, st), LAMBDA p :
         Then(Mean(bs[1][3][2], s, d, p.st), LAMBDA r :
           IF p.v[1] # "param" THEN Fails(r.st)
           ELSE Then(IF p.v[3] = <<>> THEN r ELSE MeanCall(p.v[3][1], <<r.v>>, d, r.st), LAMBDA c :
                  Then(MeanParams(Tail(bs), s, d, c.st), LAMBDA q :
                    Gives((p.v[2] :> c.v) @@ q.v, q.st)))))

DefineAll(st, s, names, vals) ==
  [st EXCEPT !.scopes[s].vars =
     [x \in {names[i][2] : i \in DOMAIN names} |->
        vals[CHOOSE i \in DOMAIN names : names[i][2] = x]] @@ @]

MeanForm(name, a, s, d, st) ==
  CASE name = "quote" -> Gives(a[1], st)
    [] name = "quasiquote" -> MeanQuasi(a[1], s, d, st)
    [] name = "lambda" -> Gives(<<"closure", a[1], Tail(a), s>>, st)
    [] name = "case-lambda" ->
         Gives(<<"cases", [i \in DOMAIN a |-> <<"closure", a[i][2], Parts(a[i][3]), s>>]>>, st)
    [] name = "begin" -> MeanBody(a, s, d, st)
    [] name = "if" -> Then(Mean(a[1], s, d, st), LAMBDA r :
                        IF IsTrue(r.v) THEN Mean(a[2], s, d, r.st)
                        ELSE IF Len(a) = 3 THEN Mean(a[3], s, d, r.st) ELSE Gives(Void, r.st))
    [] name = "cond" ->
         IF a = <<>> THEN Gives(Void, st)
         ELSE IF a[1][2] = Sym("else") THEN MeanBody(Parts(a[1][3]), s, d, st)
         ELSE Then(Mean(a[1][2], s, d, st), LAMBDA r :
                LET body == Parts(a[1][3]) IN
                IF ~IsTrue(r.v) THEN Mean(Form("cond", Tail(a)), s, d, r.st)
                ELSE IF body[1] # Sym("=>") THEN MeanBody(body, s, d, r.st)
                ELSE Then(Mean(body[2], s, d, r.st), LAMBDA f : MeanCall(f.v, <<r.v>>, d, f.st)))
    [] name = "case" -> Then(Mean(a[1], s, d, st), LAMBDA r :
                          LET c == Chosen(r.v, Tail(a)) IN
                          IF c = <<>> THEN Gives(Void, r.st)
                          ELSE MeanBody(Parts(c[1][3]), s, d, r.st))
    [] name = "and" -> IF a = <<>> THEN Gives(Bool(TRUE), st)
                       ELSE IF Len(a) = 1 THEN Mean(a[1], s, d, st)
                       ELSE Mean(Form("if", <<a[1], Form("and", Tail(a)), Bool(FALSE)>>), s, d, st)
    [] name = "or" -> IF a = <<>> THEN Gives(Bool(FALSE), st)
                      ELSE IF Len(a) = 1 THEN Mean(a[1], s, d, st)
                      ELSE Then(Mean(a[1], s, d, st), LAMBDA r :
                             IF IsTrue(r.v) THEN r ELSE Mean(Form("or", Tail(a)), s, d, r.st))
    [] name = "define" /\ a[1][1] = "sym" ->
         Then(Mean(a[2], s, d, st), LAMBDA r : Gives(Void, Assign(r.st, s, a[1][2], r.v)))
    [] name = "define" /\ a[1][1] = "cons" ->
         Gives(Void, Assign(st, s, a[1][2][2], <<"closure", a[1][3], Tail(a), s>>))
    [] name = "defmacro" ->
         Gives(Void, Assign(st, s, a[1][2][2], <<"macro", <<"closure", a[1][3], Tail(a), s>>>>))
    [] name = "delay" -> Gives(<<"promise", a[1], s>>, st)
    [] name = "define-values" ->
         Then(Mean(a[2], s, d, st), LAMBDA r :
           Gives(Void, DefineAll(r.st, s, Parts(a[1]), Values(r.v))))
    [] name = "set!" ->
         Then(Mean(a[2], s, d, st), LAMBDA r :
           LET f == ScopeOf(r.st, s, a[1][2]) IN
           IF f = 0 THEN Fails(r.st) ELSE Gives(Void, Assign(r.st, f, a[1][2], r.v)))
    [] name = "let" ->
         Then(MeanAll(Inits(Parts(a[1])), s, d, st), LAMBDA r :
           MeanBody(Tail(a), Len(r.st.scopes) + 1, d, Enter(r.st, s, Names(Parts(a[1])), r.v)))
    [] name = "let*" /\ a[1] # Nil ->
         Mean(Form("let", <<List(<<a[1][2]>>), Form("let*", <<a[1][3]>> \o Tail(a))>>), s, d, st)
    [] name = "let*" /\ a[1] = Nil -> Mean(Form("let", a), s, d, st)
    [] name = "let-values" /\ a[1] # Nil ->
         Then(Mean(a[1][2][3][2], s, d, st), LAMBDA r :
           MeanBody(Tail(a), Len(r.st.scopes) + 1, d, Enter(r.st, s, a[1][2][2], Values(r.v))))
    [] name = "parameterize" ->
         Then(MeanParams(Parts(a[1]), s, d, st), LAMBDA r :
           MeanBody(Tail(a), s, r.v @@ d, r.st))

Forms == {"quote", "quasiquote", "lambda", "case-lambda", "begin", "if", "cond", "case", "and",
          "or", "delay", "define", "defmacro", "define-values", "set!", "let", "let*", "let-values", "parameterize"}

Mean(x, s, d, st) ==
  CASE x[1] = "sym" ->
         LET f == ScopeOf(st, s, x[2]) IN
         IF f = 0 THEN Fails(st) ELSE Gives(st.scopes[f].vars[x[2]], st)
    [] x[1] # "cons" -> Gives(x, st)
    [] ~IsList(x) -> Fails(st)
    [] x[2][1] = "sym" /\ x[2][2] \in Forms /\ ScopeOf(st, s, x[2][2]) = 0 ->
         MeanForm(x[2][2], Parts(x[3]), s, d, st)
    [] OTHER -> Then(Mean(x[2], s, d, st), LAMBDA f :
                  IF f.v[1] = "macro"
                  THEN Then(MeanCall(f.v[2], Parts(x[3]), d, f.st), LAMBDA r : Mean(r.v, s, d, r.st))
                  ELSE Then(MeanAll(Parts(x[3]), s, d, f.st), LAMBDA r : MeanCall(f.v, r.v, d, r.st)))

(* A program: its expressions one after the other, at the top level.       *)
Meaning(program) ==
  MeanBody(program, 1, <<>>,
           [scopes |-> <<[vars |-> [x \in Pure \cup Calling |-> <<"prim", x>>], up |-> 0]>>,
            params |-> <<>>, out |-> <<>>])
=============================================================================
