----------------------------- MODULE Evaluator ------------------------------
(***************************************************************************)
(* The evaluator: navi_eval with its loop over bounces, the special forms, *)
(* procedure calls, and the list and control procedures they are used      *)
(* with.  Code is data: an expression is a chain of pairs on the heap,     *)
(* which the program can also reach, so that a step that writes to a pair  *)
(* may change the program.                                                 *)
(*                                                                         *)
(* A frame is a call of navi_eval on the C stack, with what its caller     *)
(* does next.  eval_tail makes a bounce that the innermost navi_eval       *)
(* evaluates in its place; so a bounce is a step that pushes no frame.     *)
(* Handlers and escapes are modelled in Exceptions, counts, guards and     *)
(* collections in Memory; here an error ends the program.                  *)
(***************************************************************************)
EXTENDS Scheme, SequencesExt

CONSTANTS
  Programs,   \* sequences of expressions, each a program
  Loops       \* those of them that call in tail position only

VARIABLES
  program,    \* the program that runs
  forms,      \* its expressions, as navi_read made them
  ctl,        \* what the evaluator is about to do
  frames,     \* the calls of navi_eval, the innermost first
  cells,      \* the pairs, by address
  procs,      \* the procedures, macros and promises, by address
  scopes,     \* the scopes, lexical and dynamic, by address
  out         \* what was displayed

vars == <<program, forms, ctl, frames, cells, procs, scopes, out>>
heap == <<program, forms, cells, procs, scopes, out>>

(* Values are data, but for these: <<"pair", i>>, <<"proc", i>>,           *)
(* <<"macro", i>> and <<"promise", i>> point to the heap, <<"cases", s>>   *)
(* is a case-lambda, <<"values", s>> several values, <<"param", key,       *)
(* converter>> a parameter, and <<"special", name>> and <<"prim", name>>   *)
(* are what C implements.                                                  *)
IsPair(v) == v[1] = "pair"
Car(v) == cells[v[2]].car
Cdr(v) == cells[v[2]].cdr

(* The pairs that navi_list_for_each visits, the elements, and the end.    *)
RECURSIVE Pairs(_, _)
Pairs(c, v) == IF IsPair(v) THEN <<v[2]>> \o Pairs(c, c[v[2]].cdr) ELSE <<>>
Elements(v) == LET p == Pairs(cells, v) IN [i \in DOMAIN p |-> cells[p[i]].car]
EndOfList(v) == LET p == Pairs(cells, v) IN IF p = <<>> THEN v ELSE cells[Last(p)].cdr
IsProperList(v) == EndOfList(v) = Nil
Nth(v, k) == LET p == Pairs(cells, v)
             IN IF k < Len(p) THEN <<"pair", p[k + 1]>> ELSE EndOfList(v)

(* New pairs for the elements s, the last one ending in end.               *)
Consed(c, s, end) ==
  [val |-> IF s = <<>> THEN end ELSE <<"pair", Len(c) + 1>>,
   cells |-> c \o [i \in DOMAIN s |->
                     [car |-> s[i],
                      cdr |-> IF i = Len(s) THEN end ELSE <<"pair", Len(c) + i + 1>>]]]

(* The program text, as the reader makes it, and a value as data.          *)
RECURSIVE Interned(_, _)
Interned(c, x) ==
  IF x[1] # "cons" THEN [val |-> x, cells |-> c]
  ELSE LET a == Interned(c, x[2])
           d == Interned(a.cells, x[3])
       IN Consed(d.cells, <<a.val>>, d.val)

RECURSIVE InternedAll(_, _)
InternedAll(c, xs) ==
  IF xs = <<>> THEN [vals |-> <<>>, cells |-> c]
  ELSE LET x == Interned(c, Head(xs))
           r == InternedAll(x.cells, Tail(xs))
       IN [vals |-> <<x.val>> \o r.vals, cells |-> r.cells]

RECURSIVE Shown(_, _)
Shown(c, v) == IF IsPair(v) THEN Pair(Shown(c, c[v[2]].car), Shown(c, c[v[2]].cdr)) ELSE v

-----------------------------------------------------------------------------
(* Environments: a scope for variables and one for parameters.             *)
RECURSIVE BindingScope(_, _)
BindingScope(s, x) == IF s = 0 \/ x \in DOMAIN scopes[s].bind THEN s
                      ELSE BindingScope(scopes[s].next, x)

Bound(scs, s, x, v) == [scs EXCEPT ![s].bind = (x :> v) @@ @]
NewScope(bind, next) == Append(scopes, [bind |-> bind, next |-> next])
Newest == Len(scopes) + 1

(* The variables of a procedure bound to its arguments: one after the      *)
(* other, and a dotted tail to the rest of the list of arguments itself.   *)
Bindings(formals, args) ==
  LET names == Elements(formals)
      given == Elements(args)
      each == [x \in {names[i][2] : i \in DOMAIN names} |->
                 given[SelectLastInSeq(names, LAMBDA n : n[2] = x)]]
      rest == EndOfList(formals)
  IN IF rest = Nil THEN each ELSE (rest[2] :> Nth(args, Len(names))) @@ each

(* What the types of arguments are called in the declarations of builtins. *)
Is(type, v) ==
  CASE type = "any" -> TRUE
    [] type = "list" -> v = Nil \/ IsPair(v)
    [] type = "proper" -> IsProperList(v)
    [] type = "procedure" -> v[1] \in {"proc", "prim"}
    [] OTHER -> v[1] = type

Needs(n, variadic, types) == [arity |-> n, variadic |-> variadic, types |-> types]

Declared ==
  [x \in {"lambda", "if", "case", "let", "let*", "let-values", "define", "parameterize"} |->
     Needs(2, TRUE, <<>>)] @@
  [x \in {"begin", "cond", "case-lambda"} |-> Needs(1, TRUE, <<>>)] @@
  [x \in {"and", "or"} |-> Needs(0, TRUE, <<>>)] @@
  [x \in {"quote", "quasiquote", "delay"} |-> Needs(1, FALSE, <<>>)] @@
  "define-values" :> Needs(2, FALSE, <<"proper", "any">>) @@
  "defmacro" :> Needs(2, TRUE, <<"pair", "any">>) @@
  "set!" :> Needs(2, FALSE, <<"sym", "any">>)

Specials == DOMAIN Declared

DeclaredBuiltin ==
  [x \in {"null?", "pair?", "list?", "eval"} |-> Needs(1, FALSE, <<>>)] @@
  [x \in {"append", "values", "display", "make-parameter"} |-> Needs(1, TRUE, <<>>)] @@
  [x \in {"car", "cdr"} |-> Needs(1, FALSE, <<"pair">>)] @@
  [x \in {"length", "reverse", "list-copy"} |-> Needs(1, FALSE, <<"list">>)] @@
  [x \in {"memv", "assv"} |-> Needs(2, FALSE, <<"any", "list">>)] @@
  [x \in {"apply", "map", "for-each"} |-> Needs(2, TRUE, <<"procedure", "any">>)] @@
  "list" :> Needs(0, TRUE, <<>>) @@ "cons" :> Needs(2, FALSE, <<>>) @@
  [x \in {"set-car!", "set-cdr!"} |-> Needs(2, FALSE, <<"pair", "any">>)] @@
  "make-list" :> Needs(1, TRUE, <<"num">>) @@
  "list-tail" :> Needs(2, FALSE, <<"list", "num">>) @@
  "list-ref" :> Needs(2, FALSE, <<"pair", "num">>) @@
  "force" :> Needs(1, FALSE, <<"procedure">>) @@
  "call-with-values" :> Needs(2, FALSE, <<"procedure", "procedure">>)

Builtins == DOMAIN DeclaredBuiltin

ArityOf(f) == IF f[1] = "proc" THEN [arity |-> Len(Elements(procs[f[2]].args)),
                                     variadic |-> ~IsProperList(procs[f[2]].args)]
              ELSE DeclaredBuiltin[f[2]]
ArityFits(p, n) == n = p.arity \/ (p.variadic /\ n > p.arity)

(* check_apply, for what C implements.                                     *)
Accepted(p, args) ==
  /\ ArityFits(p, Len(args))
  /\ \A i \in DOMAIN p.types : Is(p.types[i], args[i])

-----------------------------------------------------------------------------
(* The ways a step ends.  A step that takes the value of a call of         *)
(* navi_eval takes its frame off the stack.                                *)
Caller == IF ctl.do = "value" THEN Tail(frames) ELSE frames

Give(v) == ctl' = [do |-> "value", val |-> v] /\ frames' = Caller
Fail(why) == ctl' = [do |-> "error", why |-> why] /\ frames' = Caller
Nested(f, x, e) == ctl' = [do |-> "eval", expr |-> x, env |-> e] /\ frames' = <<f>> \o Caller

(* Fault, which no run uses: the last expression is evaluated by a call of *)
(* its own.                                                                *)
BounceNested(x, e) == Nested([k |-> "pass"], x, e)

(* eval_tail.                                                              *)
Bounce(x, e) == ctl' = [do |-> "eval", expr |-> x, env |-> e] /\ frames' = Caller

Resumes(k) == ctl.do = "value" /\ frames # <<>> /\ Head(frames).k = k
top == Head(frames)
val == ctl.val

(* begin, and every body: all but the last expression by navi_eval.        *)
Begin(body, e) ==
  IF Cdr(body) = Nil THEN Bounce(Car(body), e)
  ELSE Nested([k |-> "begin", cons |-> Cdr(body), env |-> e], Car(body), e)

NextInBody == Resumes("begin") /\ Begin(top.cons, top.env) /\ UNCHANGED heap

(* A value for which the caller of navi_eval has nothing left to do.       *)
Pass == Resumes("pass") /\ Give(val) /\ UNCHANGED heap

(* navi_load: each expression by navi_eval, the last one as a bounce.      *)
Global == [lex |-> 1, dyn |-> 2]
LoadNext ==
  /\ Resumes("load")
  /\ IF top.next = Len(forms) THEN Bounce(forms[top.next], Global)
     ELSE Nested([top EXCEPT !.next = @ + 1], forms[top.next], Global)
  /\ UNCHANGED heap

-----------------------------------------------------------------------------
(* _eval                                                                   *)
Evaluates(tags) == ctl.do = "eval" /\ ctl.expr[1] \in tags

SelfEvaluating ==
  /\ ctl.do = "eval" /\ ctl.expr[1] \notin {"sym", "pair"}
  /\ Give(IF ctl.expr[1] = "values" THEN ctl.expr[2][1] ELSE ctl.expr)
  /\ UNCHANGED heap

(* A variable whose value is void counts as unbound.                       *)
Identifier ==
  /\ Evaluates({"sym"})
  /\ LET x == ctl.expr[2]
         s == BindingScope(ctl.env.lex, x)
     IN IF s # 0 /\ scopes[s].bind[x] # Void THEN Give(scopes[s].bind[x]) ELSE Fail("unbound")
  /\ UNCHANGED heap

Call ==
  /\ Evaluates({"pair"})
  /\ IF IsProperList(ctl.expr)
     THEN Nested([k |-> "operator", call |-> ctl.expr, env |-> ctl.env], Car(ctl.expr), ctl.env)
     ELSE Fail("malformed")
  /\ UNCHANGED heap

Operator(tags) == Resumes("operator") /\ val[1] \in tags

CallSpecial ==
  /\ Operator({"special"})
  /\ IF Accepted(Declared[val[2]], Elements(Cdr(top.call)))
     THEN /\ ctl' = [do |-> "special", name |-> val[2], args |-> Cdr(top.call), env |-> top.env]
          /\ frames' = Caller
     ELSE Fail("arguments")
  /\ UNCHANGED heap

(* Fault, which no run uses: the values replace the expressions.           *)
ArgumentListInPlace(call, given) ==
  [val |-> Cdr(call),
   cells |-> LET p == Pairs(cells, Cdr(call)) IN
             [i \in DOMAIN cells |->
                IF \E j \in DOMAIN p : p[j] = i
                THEN [cells[i] EXCEPT !.car = given[CHOOSE j \in DOMAIN p : p[j] = i]]
                ELSE cells[i]]]

(* procedure_call: the arguments from left to right, into new pairs.       *)
ArgumentList(call, given) == Consed(cells, given, Nil)

Argument(f, call, cons, given, e) ==
  IF IsPair(cons)
  THEN /\ Nested([k |-> "argument", f |-> f, call |-> call, cons |-> cons, given |-> given,
                  env |-> e], Car(cons), e)
       /\ UNCHANGED cells
  ELSE LET l == ArgumentList(call, given) IN
       /\ cells' = l.cells
       /\ ctl' = [do |-> "apply", f |-> f, args |-> l.val, dyn |-> e.dyn]
       /\ frames' = Caller

CallProcedure ==
  /\ Operator({"proc", "prim"})
  /\ Argument(val, top.call, Cdr(top.call), <<>>, top.env)
  /\ UNCHANGED <<program, forms, procs, scopes, out>>

NextArgument ==
  /\ Resumes("argument")
  /\ Argument(top.f, top.call, Cdr(top.cons), Append(top.given, val), top.env)
  /\ UNCHANGED <<program, forms, procs, scopes, out>>

(* Fault, which no run uses: a scope around the global one.                *)
EnclosingGlobal(p) == Global.lex

(* do_apply of a procedure with a body: a scope around its environment.    *)
Enclosing(p) == p.scope

EnterBody(p, args, next, d) ==
  IF ArityFits([arity |-> Len(Elements(p.args)), variadic |-> ~IsProperList(p.args)],
               Len(Elements(args)))
  THEN scopes' = NewScope(Bindings(p.args, args), next) /\ Begin(p.body, [lex |-> Newest, dyn |-> d])
  ELSE Fail("arguments") /\ UNCHANGED scopes

ApplyProcedure ==
  /\ ctl.do = "apply" /\ ctl.f[1] = "proc"
  /\ LET p == procs[ctl.f[2]] IN EnterBody(p, ctl.args, Enclosing(p), ctl.dyn)
  /\ UNCHANGED <<program, forms, cells, procs, out>>

(* A macro gets its arguments unevaluated, and a scope around that of its  *)
(* call.  eval_tail wraps the bounce that its body returned in another     *)
(* one, and both are taken off at once: the value of the body is the value *)
(* of the call.                                                            *)
CallMacro ==
  /\ Operator({"macro"})
  /\ EnterBody(procs[val[2]], Cdr(top.call), top.env.lex, top.env.dyn)
  /\ UNCHANGED <<program, forms, cells, procs, out>>

(* caselambda_call: the first procedure that takes that many arguments,    *)
(* which it gets unevaluated.                                              *)
CallCaseLambda ==
  /\ Operator({"cases"})
  /\ LET args == Cdr(top.call)
         fits == SelectSeq(val[2], LAMBDA f : ArityFits(ArityOf(f), Len(Elements(args))))
     IN IF fits = <<>> THEN Fail("arguments")
        ELSE /\ ctl' = [do |-> "apply", f |-> fits[1], args |-> args, dyn |-> top.env.dyn]
             /\ frames' = Caller
  /\ UNCHANGED heap

CallParameter ==
  /\ Operator({"param"})
  /\ IF Cdr(top.call) # Nil THEN Fail("arguments")
     ELSE Give(scopes[BindingScope(top.env.dyn, val[2])].bind[val[2]])
  /\ UNCHANGED heap

CallOther ==
  /\ Resumes("operator")
  /\ val[1] \notin {"special", "proc", "prim", "macro", "cases", "param"}
  /\ Fail("not a procedure")
  /\ UNCHANGED heap

-----------------------------------------------------------------------------
(* The special forms.                                                      *)
Special(name) == ctl.do = "special" /\ ctl.name = name
here == ctl.env
arg(i) == Elements(ctl.args)[i]
rest1 == Cdr(ctl.args)

AllSymbols(v) == \A i \in DOMAIN Elements(v) : Elements(v)[i][1] = "sym"
SymbolList(v, dotted) ==
  AllSymbols(v) /\ (EndOfList(v) = Nil \/ (dotted /\ EndOfList(v)[1] = "sym"))

(* lambda_valid: formals and a body.                                       *)
LambdaValid(v) == IsPair(v) /\ IsPair(Cdr(v)) /\ (Car(v)[1] = "sym" \/ SymbolList(Car(v), TRUE))

Procedure(formals, body, e) == [args |-> formals, body |-> body, scope |-> e.lex]
NextProc(tag) == <<tag, Len(procs) + 1>>

Lambda ==
  /\ Special("lambda")
  /\ IF LambdaValid(ctl.args)
     THEN procs' = Append(procs, Procedure(arg(1), rest1, here)) /\ Give(NextProc("proc"))
     ELSE Fail("syntax") /\ UNCHANGED procs
  /\ UNCHANGED <<program, forms, cells, scopes, out>>

CaseLambda ==
  /\ Special("case-lambda")
  /\ LET cs == Elements(ctl.args) IN
     IF \A i \in DOMAIN cs : LambdaValid(cs[i])
     THEN /\ procs' = procs \o [i \in DOMAIN cs |-> Procedure(Car(cs[i]), Cdr(cs[i]), here)]
          /\ Give(<<"cases", [i \in DOMAIN cs |-> <<"proc", Len(procs) + i>>]>>)
     ELSE Fail("syntax") /\ UNCHANGED procs
  /\ UNCHANGED <<program, forms, cells, scopes, out>>

Delay ==
  /\ Special("delay")
  /\ LET b == Consed(cells, <<arg(1)>>, Nil) IN
     cells' = b.cells /\ procs' = Append(procs, Procedure(Nil, b.val, here))
  /\ Give(NextProc("promise"))
  /\ UNCHANGED <<program, forms, scopes, out>>

BeginForm == Special("begin") /\ Begin(ctl.args, here) /\ UNCHANGED heap

Quote == Special("quote") /\ Give(arg(1)) /\ UNCHANGED heap

If ==
  /\ Special("if")
  /\ IF Len(Elements(ctl.args)) > 3 THEN Fail("arguments")
     ELSE Nested([k |-> "if", args |-> ctl.args, env |-> here], arg(1), here)
  /\ UNCHANGED heap

IfTested ==
  /\ Resumes("if")
  /\ LET a == Elements(top.args) IN
     IF IsTrue(val) THEN Bounce(a[2], top.env)
     ELSE IF Len(a) = 3 THEN Bounce(a[3], top.env) ELSE Give(Void)
  /\ UNCHANGED heap

(* and and or stop at the first expression that settles the result; only   *)
(* the last expression gives its own value.                                *)
Settles(name, v) == IsTrue(v) = (name = "or")
Logic(name, cons, e) ==
  IF ~IsPair(cons) THEN Give(Bool(name = "and"))
  ELSE IF Cdr(cons) = Nil THEN Bounce(Car(cons), e)
  ELSE Nested([k |-> "logic", name |-> name, cons |-> cons, env |-> e], Car(cons), e)

AndOr == \E name \in {"and", "or"} : Special(name) /\ Logic(name, ctl.args, here) /\ UNCHANGED heap

AndOrNext ==
  /\ Resumes("logic")
  /\ IF Settles(top.name, val) THEN Give(Bool(top.name = "or"))
     ELSE Logic(top.name, Cdr(top.cons), top.env)
  /\ UNCHANGED heap

(* eval_clause: the expressions of a clause, or => and a procedure.        *)
Clause(v, body, e) ==
  IF Car(body) = Sym("=>")
  THEN Nested([k |-> "arrow", arg |-> v, env |-> e], Car(Cdr(body)), e)
  ELSE Begin(body, e)

(* The call of the procedure is an expression, in which the value of the   *)
(* test stands as it is and is evaluated once more.                        *)
Arrow ==
  /\ Resumes("arrow")
  /\ LET call == Consed(cells, <<val, top.arg>>, Nil) IN
     cells' = call.cells /\ Bounce(call.val, top.env)
  /\ UNCHANGED <<program, forms, procs, scopes, out>>

CondValid(v) ==
  /\ IsProperList(v)
  /\ \A i \in DOMAIN Elements(v) :
       LET c == Elements(v)[i] IN
       /\ IsProperList(c) /\ Len(Elements(c)) >= 2
       /\ Elements(c)[2] = Sym("=>") => Len(Elements(c)) = 3

CondFrom(cons, e) ==
  IF ~IsPair(cons) THEN Give(Void)
  ELSE IF Car(Car(cons)) = Sym("else") THEN Clause(Bool(TRUE), Cdr(Car(cons)), e)
  ELSE Nested([k |-> "cond", cons |-> cons, env |-> e], Car(Car(cons)), e)

Cond ==
  /\ Special("cond")
  /\ IF CondValid(ctl.args) THEN CondFrom(ctl.args, here) ELSE Fail("syntax")
  /\ UNCHANGED heap

CondTested ==
  /\ Resumes("cond")
  /\ IF IsTrue(val) THEN Clause(val, Cdr(Car(top.cons)), top.env)
     ELSE CondFrom(Cdr(top.cons), top.env)
  /\ UNCHANGED heap

(* case_valid lets a clause pass whose first part is not a list: the loop  *)
(* over it ends at once.                                                   *)
CaseValid(v) ==
  /\ Len(Elements(v)) >= 2
  /\ \A i \in 2..Len(Elements(v)) : Len(Elements(Elements(v)[i])) >= 2 /\ IsProperList(Elements(v)[i])

Case ==
  /\ Special("case")
  /\ IF CaseValid(ctl.args)
     THEN Nested([k |-> "case", clauses |-> rest1, env |-> here], arg(1), here)
     ELSE Fail("syntax")
  /\ UNCHANGED heap

CaseKeyed ==
  /\ Resumes("case")
  /\ LET cs == Elements(top.clauses)
         i == SelectInSeq(cs, LAMBDA c : \/ Car(c) = Sym("else")
                                         \/ \E j \in DOMAIN Elements(Car(c)) : Elements(Car(c))[j] = val)
     IN IF i = 0 THEN Give(Void) ELSE Clause(val, Cdr(cs[i]), top.env)
  /\ UNCHANGED heap

-----------------------------------------------------------------------------
(* Definitions and binding forms.                                          *)
Define ==
  /\ Special("define")
  /\ CASE arg(1)[1] = "sym" ->
            /\ IF Cdr(rest1) # Nil THEN Fail("arguments")
               ELSE Nested([k |-> "define", name |-> arg(1)[2], env |-> here], arg(2), here)
            /\ UNCHANGED <<procs, scopes>>
       [] IsPair(arg(1)) /\ SymbolList(arg(1), TRUE) ->
            /\ procs' = Append(procs, Procedure(Cdr(arg(1)), rest1, here))
            /\ scopes' = Bound(scopes, here.lex, Car(arg(1))[2], NextProc("proc"))
            /\ Give(Void)
       [] OTHER -> Fail("syntax") /\ UNCHANGED <<procs, scopes>>
  /\ UNCHANGED <<program, forms, cells, out>>

Defined ==
  /\ Resumes("define")
  /\ scopes' = Bound(scopes, top.env.lex, top.name, val) /\ Give(Void)
  /\ UNCHANGED <<program, forms, cells, procs, out>>

Defmacro ==
  /\ Special("defmacro")
  /\ IF SymbolList(arg(1), TRUE)
     THEN /\ procs' = Append(procs, Procedure(Cdr(arg(1)), rest1, here))
          /\ scopes' = Bound(scopes, here.lex, Car(arg(1))[2], NextProc("macro"))
          /\ Give(Void)
     ELSE Fail("syntax") /\ UNCHANGED <<procs, scopes>>
  /\ UNCHANGED <<program, forms, cells, out>>

(* extend_with_values: as many variables as values.                        *)
ValuesFit(names, v) == Len(Elements(names)) = (IF v[1] = "values" THEN Len(v[2]) ELSE 1)
WithValues(s, names, v) ==
  LET each == IF v[1] = "values" THEN v[2] ELSE <<v>>
  IN FoldLeftDomain(LAMBDA scs, i : Bound(scs, s, Elements(names)[i][2], each[i]), scopes, each)

DefineValues ==
  /\ Special("define-values")
  /\ Nested([k |-> "define-values", names |-> arg(1), env |-> here], arg(2), here)
  /\ UNCHANGED heap

ValuesDefined ==
  /\ Resumes("define-values")
  /\ IF ValuesFit(top.names, val)
     THEN scopes' = WithValues(top.env.lex, top.names, val) /\ Give(Void)
     ELSE Fail("arguments") /\ UNCHANGED scopes
  /\ UNCHANGED <<program, forms, cells, procs, out>>

(* let_defs_valid and letvals_defs_valid.                                  *)
LetValid(name, v) ==
  /\ IsProperList(v)
  /\ \A i \in DOMAIN Elements(v) :
       LET d == Elements(v)[i] IN
       /\ IsPair(d) /\ IsPair(Cdr(d)) /\ Cdr(Cdr(d)) = Nil
       /\ IF name = "let-values" THEN SymbolList(Car(d), FALSE) ELSE Car(d)[1] = "sym"

(* The expressions one after the other, let* in the environment that it    *)
(* extends; then the body.  let-values evaluates in the environment around *)
(* and, unlike the others, also binds in it.                               *)
LetFrom(name, defs, new, e, body) ==
  IF IsPair(defs)
  THEN Nested([k |-> "let", name |-> name, defs |-> defs, new |-> new, env |-> e, body |-> body],
              Car(Cdr(Car(defs))), IF name = "let*" THEN [e EXCEPT !.lex = new] ELSE e)
  ELSE Begin(body, [e EXCEPT !.lex = new])

Let ==
  \E name \in {"let", "let*", "let-values"} :
    /\ Special(name)
    /\ IF LetValid(name, arg(1))
       THEN /\ scopes' = NewScope(<<>>, here.lex)
            /\ LetFrom(name, arg(1), Newest, here, rest1)
       ELSE Fail("syntax") /\ UNCHANGED scopes
    /\ UNCHANGED <<program, forms, cells, procs, out>>

LetBind ==
  /\ Resumes("let")
  /\ LET name == Car(Car(top.defs)) IN
     IF top.name = "let-values" /\ ~ValuesFit(name, val) THEN Fail("arguments") /\ UNCHANGED scopes
     ELSE /\ scopes' = IF top.name = "let-values" THEN WithValues(top.env.lex, name, val)
                       ELSE Bound(scopes, top.new, name[2], val)
          /\ LetFrom(top.name, Cdr(top.defs), top.new, top.env, top.body)
  /\ UNCHANGED <<program, forms, cells, procs, out>>

(* set! finds the binding first and stores into it when it has the value.  *)
Set ==
  /\ Special("set!")
  /\ LET s == BindingScope(here.lex, arg(1)[2]) IN
     IF s = 0 THEN Fail("unbound")
     ELSE Nested([k |-> "set!", at |-> s, name |-> arg(1)[2]], arg(2), here)
  /\ UNCHANGED heap

Assigned ==
  /\ Resumes("set!")
  /\ scopes' = Bound(scopes, top.at, top.name, val) /\ Give(Void)
  /\ UNCHANGED <<program, forms, cells, procs, out>>

-----------------------------------------------------------------------------
(* Parameters: a key in the dynamic environment, and a converter.          *)

(* navi_parameter_convert: the value, or a call of the converter, for the  *)
(* frame f.                                                                *)
Convert(f, param, v, d) ==
  IF param[3] = Void THEN ctl' = [do |-> "value", val |-> v] /\ frames' = <<f>> \o Caller /\ UNCHANGED cells
  ELSE LET l == Consed(cells, <<v>>, Nil) IN
       /\ cells' = l.cells
       /\ ctl' = [do |-> "apply", f |-> param[3], args |-> l.val, dyn |-> d]
       /\ frames' = <<f>> \o Caller

(* parameterize: first all the parameters, then, from the last to the      *)
(* first, their values, converted, into a scope of the dynamic environment.*)
ParamsFrom(cons, found, e, body) ==
  IF IsPair(cons)
  THEN /\ IF IsProperList(Car(cons)) /\ Len(Elements(Car(cons))) = 2
          THEN Nested([k |-> "param", cons |-> cons, found |-> found, env |-> e, body |-> body],
                      Car(Car(cons)), e)
          ELSE Fail("syntax")
       /\ UNCHANGED scopes
  ELSE IF cons # Nil THEN Fail("syntax") /\ UNCHANGED scopes
  ELSE /\ scopes' = NewScope(<<>>, e.dyn)
       /\ Nested([k |-> "param value", found |-> found, new |-> Newest, env |-> e, body |-> body],
                 Last(found).expr, e)

Parameterize ==
  /\ Special("parameterize")
  /\ IF IsPair(arg(1)) THEN ParamsFrom(arg(1), <<>>, here, rest1)
     ELSE Fail("syntax") /\ UNCHANGED scopes
  /\ UNCHANGED <<program, forms, cells, procs, out>>

ParamFound ==
  /\ Resumes("param")
  /\ IF val[1] # "param" THEN Fail("not a parameter") /\ UNCHANGED scopes
     ELSE ParamsFrom(Cdr(top.cons),
                     Append(top.found, [param |-> val, expr |-> Car(Cdr(Car(top.cons)))]),
                     top.env, top.body)
  /\ UNCHANGED <<program, forms, cells, procs, out>>

ParamValue ==
  /\ Resumes("param value")
  /\ Convert([top EXCEPT !.k = "param converted"], Last(top.found).param, val, top.env.dyn)
  /\ UNCHANGED <<program, forms, procs, scopes, out>>

ParamConverted ==
  /\ Resumes("param converted")
  /\ scopes' = Bound(scopes, top.new, Last(top.found).param[2], val)
  /\ LET left == Front(top.found) IN
     IF left = <<>> THEN Begin(top.body, [top.env EXCEPT !.dyn = top.new])
     ELSE Nested([top EXCEPT !.k = "param value", !.found = left], Last(left).expr, top.env)
  /\ UNCHANGED <<program, forms, cells, procs, out>>

ParameterMade ==
  /\ Resumes("made")
  /\ scopes' = Bound(scopes, Global.dyn, top.param[2], val) /\ Give(top.param)
  /\ UNCHANGED <<program, forms, cells, procs, out>>

-----------------------------------------------------------------------------
(* quasiquote.  eval_qq makes the copy behind a pair on its stack, here a  *)
(* pair to which nothing points; where it calls itself, a frame stands for *)
(* the call.                                                               *)
Template(x, e) == ctl' = [do |-> "template", expr |-> x, env |-> e]
Elems(cons, head, last, e) ==
  ctl' = [do |-> "elements", cons |-> cons, head |-> head, last |-> last, env |-> e]
InTemplate(k, cons, head, last) ==
  <<[k |-> k, cons |-> cons, head |-> head, last |-> last, env |-> here]>> \o Caller

Quasiquote ==
  /\ Special("quasiquote")
  /\ Template(arg(1), here)
  /\ UNCHANGED <<frames>> /\ UNCHANGED heap

TemplateStart ==
  /\ ctl.do = "template"
  /\ IF ~IsPair(ctl.expr) THEN Give(ctl.expr) /\ UNCHANGED cells
     ELSE IF Car(ctl.expr) = Sym("unquote")
     THEN Nested([k |-> "pass"], Car(Cdr(ctl.expr)), here) /\ UNCHANGED cells
     ELSE /\ cells' = Append(cells, [car |-> Void, cdr |-> Void])
          /\ Elems(ctl.expr, Len(cells) + 1, Len(cells) + 1, here)
          /\ UNCHANGED frames
  /\ UNCHANGED <<program, forms, procs, scopes, out>>

EndsTemplate(cons) == IsPair(cons) => Car(cons) = Sym("unquote")
IsSplice(x) == IsPair(x) /\ Car(x) = Sym("unquote-splice")

TemplateElement ==
  /\ ctl.do = "elements" /\ ~EndsTemplate(ctl.cons)
  /\ LET elm == Car(ctl.cons)
         new == Len(cells) + 1
     IN IF IsSplice(elm)
        THEN /\ frames' = InTemplate("splice", ctl.cons, ctl.head, ctl.last)
             /\ ctl' = [do |-> "eval", expr |-> Car(Cdr(elm)), env |-> here]
             /\ UNCHANGED cells
        ELSE /\ cells' = Append([cells EXCEPT ![ctl.last].cdr = <<"pair", new>>],
                                [car |-> Void, cdr |-> Void])
             /\ frames' = InTemplate("element", ctl.cons, ctl.head, new)
             /\ Template(elm, here)
  /\ UNCHANGED <<program, forms, procs, scopes, out>>

ElementMade ==
  /\ Resumes("element")
  /\ cells' = [cells EXCEPT ![top.last].car = val]
  /\ Elems(Cdr(top.cons), top.head, top.last, top.env) /\ frames' = Caller
  /\ UNCHANGED <<program, forms, procs, scopes, out>>

(* The list to splice becomes part of the result, and its last pair is     *)
(* linked to what follows.  The empty list has no last pair: the program   *)
(* follows what is no pointer.  What is no list is left out.               *)
Spliced ==
  /\ Resumes("splice")
  /\ IF val = Nil THEN Fail("crash") /\ UNCHANGED cells
     ELSE /\ cells' = IF IsProperList(val) THEN [cells EXCEPT ![top.last].cdr = val] ELSE cells
          /\ Elems(Cdr(top.cons), top.head,
                   IF IsProperList(val) THEN Last(Pairs(cells, val)) ELSE top.last, top.env)
          /\ frames' = Caller
  /\ UNCHANGED <<program, forms, procs, scopes, out>>

(* The end of the template, or an unquote in its tail.                     *)
TemplateEnd ==
  /\ ctl.do = "elements" /\ EndsTemplate(ctl.cons)
  /\ frames' = InTemplate("tail", ctl.cons, ctl.head, ctl.last)
  /\ IF ctl.cons = Nil THEN ctl' = [do |-> "value", val |-> Nil] ELSE Template(ctl.cons, here)
  /\ UNCHANGED heap

TailMade ==
  /\ Resumes("tail")
  /\ cells' = [cells EXCEPT ![top.last].cdr = val]
  /\ Give(cells'[top.head].cdr)
  /\ UNCHANGED <<program, forms, procs, scopes, out>>

-----------------------------------------------------------------------------
(* The builtin procedures.                                                 *)
Applies(names) == ctl.do = "apply" /\ ctl.f[1] = "prim" /\ ctl.f[2] \in names
actual == Elements(ctl.args)
RefusesArguments ==
  /\ Applies(Builtins) /\ ~Accepted(DeclaredBuiltin[ctl.f[2]], actual)
  /\ Fail("arguments")
  /\ UNCHANGED heap
Takes(name) == Applies({name}) /\ Accepted(DeclaredBuiltin[name], actual)

(* The list procedures: a value and the pairs as they are afterwards.      *)
ListProcedures == {"cons", "car", "cdr", "set-car!", "set-cdr!", "pair?", "null?", "length", "list", "list?",
                   "make-list", "list-copy", "append", "reverse", "list-tail", "list-ref", "memv", "assv", "values"}
Wrong == [val |-> Error, cells |-> cells]
Same(v) == [val |-> v, cells |-> cells]

Appended(ls) == FoldLeft(LAMBDA s, l : s \o Elements(l), <<>>, Front(ls))
FirstPair(l, Test(_)) ==
  LET i == SelectInSeq(Elements(l), Test) IN IF i = 0 THEN Bool(FALSE) ELSE Nth(l, i - 1)

ListResult(name, a) ==
  CASE name = "cons" -> Consed(cells, <<a[1]>>, a[2])
    [] name = "car" -> Same(Car(a[1]))
    [] name = "cdr" -> Same(Cdr(a[1]))
    [] name = "set-car!" -> [val |-> Void, cells |-> [cells EXCEPT ![a[1][2]].car = a[2]]]
    [] name = "set-cdr!" -> [val |-> Void, cells |-> [cells EXCEPT ![a[1][2]].cdr = a[2]]]
    [] name = "pair?" -> Same(Bool(IsPair(a[1])))
    [] name = "list?" -> Same(Bool(IsProperList(a[1])))
    [] name = "null?" -> Same(Bool(a[1] = Nil))
    [] name = "length" -> IF IsProperList(a[1]) THEN Same(Num(Len(Elements(a[1])))) ELSE Wrong
    [] name = "list" -> Same(ctl.args)
    [] name = "list-copy" -> Consed(cells, Elements(a[1]), EndOfList(a[1]))
    [] name = "append" -> IF \A i \in 1..Len(a) - 1 : IsProperList(a[i])
                          THEN Consed(cells, Appended(a), Last(a)) ELSE Wrong
    [] name = "reverse" -> Consed(cells, Reverse(Elements(a[1])), Nil)
    [] name = "list-tail" -> IF a[2][2] \in 0..Len(Elements(a[1])) THEN Same(Nth(a[1], a[2][2]))
                             ELSE Wrong
    [] name = "list-ref" -> IF a[2][2] \in 0..Len(Elements(a[1])) - 1
                            THEN Same(Elements(a[1])[a[2][2] + 1]) ELSE Wrong
    [] name = "make-list" ->
         IF Len(a) > 2 \/ a[1][2] < 0 THEN Wrong
         ELSE Consed(cells, [i \in 1..a[1][2] |-> IF Len(a) = 2 THEN a[2] ELSE Num(0)], Nil)
    [] name = "memv" -> Same(FirstPair(a[2], LAMBDA x : x = a[1]))
    [] name = "assv" -> IF \E i \in DOMAIN Elements(a[2]) :
                             /\ ~IsPair(Elements(a[2])[i])
                             /\ \A j \in 1..i - 1 : Car(Elements(a[2])[j]) # a[1]
                        THEN Wrong
                        ELSE LET p == FirstPair(a[2], LAMBDA x : Car(x) = a[1])
                             IN Same(IF IsPair(p) THEN Car(p) ELSE p)
    [] name = "values" -> Same(<<"values", a>>)

ApplyListProcedure ==
  /\ \E name \in ListProcedures : Takes(name)
  /\ LET r == ListResult(ctl.f[2], actual) IN
     /\ cells' = r.cells
     /\ IF r.val = Error THEN Fail("arguments") ELSE Give(r.val)
  /\ UNCHANGED <<program, forms, procs, scopes, out>>

(* The output port takes what is displayed.                                *)
Display ==
  /\ Takes("display")
  /\ out' = Append(out, Shown(cells, actual[1])) /\ Give(Void)
  /\ UNCHANGED <<program, forms, cells, procs, scopes>>

(* apply links its last argument to the others, where it stands.           *)
Apply ==
  /\ Takes("apply")
  /\ IF ~IsProperList(Last(actual)) THEN Fail("arguments") /\ UNCHANGED cells
     ELSE LET p == Pairs(cells, ctl.args)
              linked == [cells EXCEPT ![p[Len(p) - 1]].cdr = Last(actual)]
          IN /\ cells' = linked
             /\ ctl' = [do |-> "apply", f |-> actual[1], args |-> linked[p[1]].cdr, dyn |-> ctl.dyn]
             /\ frames' = Caller
  /\ UNCHANGED <<program, forms, procs, scopes, out>>

(* map and for-each: one call for each row of elements, until a list ends; *)
(* the next row is found when the call has returned.                       *)
Rowwise(name, f, lists, results, d) ==
  IF \E i \in DOMAIN lists : ~IsPair(lists[i])
  THEN LET l == Consed(cells, results, Nil) IN
       IF name = "map" THEN cells' = l.cells /\ Give(l.val) ELSE Give(Void) /\ UNCHANGED cells
  ELSE LET row == Consed(cells, [i \in DOMAIN lists |-> Car(lists[i])], Nil) IN
       /\ cells' = row.cells
       /\ ctl' = [do |-> "apply", f |-> f, args |-> row.val, dyn |-> d]
       /\ frames' = <<[k |-> "row", name |-> name, f |-> f, lists |-> lists, results |-> results,
                       dyn |-> d]>> \o Caller

Map ==
  /\ \E name \in {"map", "for-each"} : Takes(name)
  /\ LET lists == Tail(actual) IN
     IF ArityFits(ArityOf(actual[1]), Len(lists)) /\ \A i \in DOMAIN lists : Is("list", lists[i])
     THEN Rowwise(ctl.f[2], actual[1], lists, <<>>, ctl.dyn)
     ELSE Fail("arguments") /\ UNCHANGED cells
  /\ UNCHANGED <<program, forms, procs, scopes, out>>

NextRow ==
  /\ Resumes("row")
  /\ Rowwise(top.name, top.f, [i \in DOMAIN top.lists |-> Cdr(top.lists[i])],
             Append(top.results, val), top.dyn)
  /\ UNCHANGED <<program, forms, procs, scopes, out>>

(* call-with-values makes expressions of the two calls, and evaluates them *)
(* in the environment of the builtins: the values are evaluated once more. *)
EnvOfBuiltin(d) == [lex |-> Global.lex, dyn |-> d]

CallWithValues ==
  /\ Takes("call-with-values")
  /\ IF ~ArityFits(ArityOf(actual[1]), 0) THEN Fail("arguments") /\ UNCHANGED cells
     ELSE LET call == Consed(cells, <<actual[1]>>, Nil) IN
          /\ cells' = call.cells
          /\ Nested([k |-> "produced", f |-> actual[2], env |-> EnvOfBuiltin(ctl.dyn)], call.val,
                    EnvOfBuiltin(ctl.dyn))
  /\ UNCHANGED <<program, forms, procs, scopes, out>>

Produced ==
  /\ Resumes("produced")
  /\ LET vs == IF val[1] = "values" THEN val[2] ELSE <<val>>
         call == Consed(cells, <<top.f>> \o vs, Nil)
     IN cells' = call.cells /\ Nested([k |-> "pass"], call.val, top.env)
  /\ UNCHANGED <<program, forms, procs, scopes, out>>

MakeParameter ==
  /\ Takes("make-parameter")
  /\ LET a == actual
         key == "param" \o ToString(Cardinality(DOMAIN scopes[Global.dyn].bind))
         param == <<"param", key, IF Len(a) = 2 THEN a[2] ELSE Void>>
     IN IF Len(a) <= 2 THEN Convert([k |-> "made", param |-> param], param, a[1], ctl.dyn)
        ELSE Fail("arguments") /\ UNCHANGED cells
  /\ UNCHANGED <<program, forms, procs, scopes, out>>

Eval ==
  /\ Takes("eval")
  /\ Nested([k |-> "pass"], actual[1], EnvOfBuiltin(ctl.dyn))
  /\ UNCHANGED heap

(* force is declared for procedures, which a promise is not; the body of a *)
(* procedure it replaces by the expressions quote and the result.          *)
Force ==
  /\ Takes("force") /\ actual[1][1] = "proc"
  /\ LET p == procs[actual[1][2]]
         call == Consed(cells, <<Sym("begin")>>, p.body)
     IN /\ cells' = call.cells
        /\ Nested([k |-> "force", proc |-> actual[1][2]], call.val, [lex |-> p.scope, dyn |-> ctl.dyn])
  /\ UNCHANGED <<program, forms, procs, scopes, out>>

Forced ==
  /\ Resumes("force")
  /\ LET body == Consed(cells, <<Sym("quote"), val>>, Nil) IN
     cells' = body.cells /\ procs' = [procs EXCEPT ![top.proc].body = body.val]
  /\ Give(val)
  /\ UNCHANGED <<program, forms, scopes, out>>

-----------------------------------------------------------------------------
Init ==
  /\ program \in Programs
  /\ LET text == InternedAll(<<>>, program) IN
     /\ forms = text.vals /\ cells = text.cells
     /\ ctl = [do |-> "eval", expr |-> text.vals[1], env |-> Global]
  /\ frames = IF Len(program) = 1 THEN <<>> ELSE <<[k |-> "load", next |-> 2]>>
  /\ procs = <<>> /\ out = <<>>
  /\ scopes = <<[bind |-> [x \in Specials |-> <<"special", x>>] @@
                          [x \in Builtins |-> <<"prim", x>>], next |-> 0],
                [bind |-> <<>>, next |-> 0]>>

Next ==
  \/ SelfEvaluating \/ Identifier \/ Call \/ Pass \/ LoadNext \/ NextInBody
  \/ CallSpecial \/ CallProcedure \/ NextArgument \/ ApplyProcedure
  \/ CallMacro \/ CallCaseLambda \/ CallParameter \/ CallOther
  \/ Lambda \/ CaseLambda \/ Delay \/ BeginForm \/ Quote \/ If \/ IfTested \/ AndOr \/ AndOrNext
  \/ Arrow \/ Cond \/ CondTested \/ Case \/ CaseKeyed
  \/ Define \/ Defined \/ Defmacro \/ DefineValues \/ ValuesDefined
  \/ Let \/ LetBind \/ Set \/ Assigned
  \/ Parameterize \/ ParamFound \/ ParamValue \/ ParamConverted \/ MakeParameter \/ ParameterMade
  \/ Quasiquote \/ TemplateStart \/ TemplateElement \/ ElementMade \/ Spliced \/ TemplateEnd \/ TailMade
  \/ RefusesArguments \/ ApplyListProcedure \/ Display \/ Apply \/ Map \/ NextRow
  \/ CallWithValues \/ Produced \/ Eval \/ Force \/ Forced

(* One thread runs the loop of navi_eval until the program ends.           *)
Spec == Init /\ [][Next]_vars /\ WF_vars(Next)

-----------------------------------------------------------------------------
Ended == ctl.do = "error" \/ (ctl.do = "value" /\ frames = <<>>)

(* A value that R7RS leaves unspecified may be any.                        *)
AsMeant ==
  LET m == Meaning(program) IN
  /\ out = m.st.out
  /\ IF ctl.do = "error" THEN ~m.ok ELSE m.ok /\ m.v \in {Void, Shown(cells, ctl.val)}

(* Every program ends, with the value, the output or the error that R7RS   *)
(* gives it: closures keep their variables, arguments and bodies are       *)
(* evaluated in order and once, set! reaches the binding it should, and    *)
(* parameters have their values within parameterize only.                  *)
EndsAsMeant == <>(Ended /\ AsMeant)

(* eval_tail: in a program that calls only in tail position the C stack    *)
(* holds no more calls of navi_eval than the text of the program is        *)
(* nested, however often it calls.                                         *)
RECURSIVE Nesting(_)
Nesting(x) == IF x[1] # "cons" THEN 0
              ELSE LET a == 1 + Nesting(x[2])
                       d == Nesting(x[3])
                   IN IF a > d THEN a ELSE d
TailCallsNeedNoStack ==
  program \in Loops => \E i \in DOMAIN program : Len(frames) <= Nesting(program[i])

(* Evaluating a program does not change its text: calls, templates and     *)
(* apply write only to pairs they have made.                               *)
TextStaysAsWritten == \A i \in DOMAIN forms : Shown(cells, forms[i]) = program[i]
=============================================================================
