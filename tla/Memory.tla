------------------------------- MODULE Memory -------------------------------
(***************************************************************************)
(* The memory of the interpreter: heap objects reclaimed by the collector  *)
(* of heap.c, scopes reclaimed by the reference counts of internal.h and   *)
(* environment.c, and the C functions of eval.c, environment.c and         *)
(* control_features.c that hold references to both while they run.         *)
(*                                                                         *)
(* The two schemes lean on each other.  A scope on the active list is a    *)
(* root of the collector; a procedure or bounce holds a count on its scope *)
(* until the collector frees it; freeing a scope may free the scopes it    *)
(* extends.  call/ec leaves C functions with longjmp, and the counts and   *)
(* guards of the functions it leaves stay behind.                          *)
(*                                                                         *)
(* A frame is a C function that gives its references back when it returns. *)
(* The references of an object are the objects gc_mark_obj follows from    *)
(* it; immediate values are None.                                          *)
(***************************************************************************)
EXTENDS Integers, Sequences, FiniteSets

CONSTANTS
  Obj,         \* addresses of heap objects
  Scope,       \* addresses of scopes
  Key,         \* symbols that are bound
  None,        \* no object, no scope, or an immediate value
  GlobalLex,   \* the scopes of the environment main runs in; builtins
  GlobalDyn,   \* are closed over the first
  Garbage,     \* what an uninitialised word of a new object may hold
  Program      \* what programs use, and their bounds

ASSUME MemoryAssumption ==
  /\ GlobalLex \in Scope /\ GlobalDyn \in Scope /\ GlobalLex # GlobalDyn
  /\ None \notin Obj \cup Scope
  /\ Garbage \subseteq Obj \cup {None} /\ Garbage # {}
  /\ Program \subseteq
       [uses : SUBSET {"pair", "procedure", "macro", "bounce", "define", "operands",
                       "let", "parameterize", "handler", "raise", "call/ec"},
        objs : Nat, scopes : Nat, frames : Nat, refs : Nat, counts : Nat]

VARIABLES
  objs,     \* the heap list: address -> [type, refs, lex, dyn]
  scopes,   \* active_environments: address -> [next, refs, bind, guards]
  frames,   \* the running C functions, the innermost last
  val       \* the value the innermost function has in hand

vars == <<objs, scopes, frames, val>>

(* main runs one program.  What it uses, and its bounds. *)
program == frames[1].program
Features == program.uses       \* object types and special forms
MaxObjs == program.objs        \* bound on the objects on the heap
MaxScopes == program.scopes    \* bound on the active scopes
MaxFrames == program.frames    \* bound on the depth of the C stack
MaxRefs == program.refs        \* bound on the references of one object
MaxCount == program.counts     \* bound on the counts that call/ec and macros leak

Address(v) == {v} \ {None}

-----------------------------------------------------------------------------
(* Reference counts.  Operators take and return the function of scopes.    *)

(* navi_make_scope, with what the caller then links and binds *)
AddScope(sc, s, next, b) ==
  [x \in DOMAIN sc \cup {s} |->
     IF x = s THEN [next |-> next, refs |-> 1, bind |-> b, guards |-> [o \in Obj |-> 0]]
     ELSE sc[x]]

Ref(sc, s) == [sc EXCEPT ![s].refs = @ + 1]
EnvRef(sc, lex, dyn) == Ref(Ref(sc, lex), dyn)

(* _navi_scope_unref and navi_scope_free: a scope whose count falls to     *)
(* zero leaves the active list and gives back its count on the scope it    *)
(* extends.                                                                *)
Unref(sc, s) ==
  LET Dying[x \in DOMAIN sc] ==
        IF sc[x].refs > 1 THEN {}
        ELSE {x} \cup (IF sc[x].next = None THEN {} ELSE Dying[sc[x].next])
      dead == Dying[s]
      Lower(x) == x = s \/ \E d \in dead : sc[d].next = x
  IN  [x \in DOMAIN sc \ dead |->
         IF Lower(x) THEN [sc[x] EXCEPT !.refs = @ - 1] ELSE sc[x]]

EnvUnref(sc, lex, dyn) == Unref(Unref(sc, lex), dyn)

(* Fault, which no run uses: a guard is dropped with all others of its     *)
(* object.                                                                 *)
UnguardObjects(sc, s, G) ==
  [sc EXCEPT ![s].guards = [o \in Obj |-> IF o \in G THEN 0 ELSE @[o]]]

(* navi_gc_guard and navi_gc_unguard of the objects G, on the list of s *)
Guard(sc, s, G) ==
  [sc EXCEPT ![s].guards = [o \in Obj |-> @[o] + (IF o \in G THEN 1 ELSE 0)]]
Unguard(sc, s, G) ==
  [sc EXCEPT ![s].guards = [o \in Obj |-> @[o] - (IF o \in G THEN 1 ELSE 0)]]

-----------------------------------------------------------------------------
(* The collector. *)

(* What gc_mark_obj marks from a set of objects; the last level may hold   *)
(* addresses that are not on the heap any more.                            *)
Reach(ob, from) ==
  LET Level[n \in 0 .. Cardinality(Obj)] ==
        IF n = 0 THEN from
        ELSE Level[n - 1] \cup UNION {ob[o].refs : o \in Level[n - 1] \cap DOMAIN ob}
  IN  Level[Cardinality(Obj)]

Bound(sc, s) == {sc[s].bind[k] : k \in Key} \ {None}
Guarded(sc, s) == {o \in Obj : sc[s].guards[o] > 0}

(* gc_mark: gc_mark_env of every active environment *)
Roots(sc) == UNION {Bound(sc, s) \cup Guarded(sc, s) : s \in DOMAIN sc}

(* navi_free of one object: a bounce gives back its environment, a         *)
(* procedure its scope.  A macro keeps the count it took, for ever.        *)
Release(ob, sc, o) ==
  CASE ob[o].type = "bounce" -> EnvUnref(sc, ob[o].lex, ob[o].dyn)
    [] ob[o].type = "procedure" -> Unref(sc, ob[o].lex)
    [] OTHER -> sc

(* gc_sweep: what is not marked is freed.  The counts come out the same in *)
(* whichever order the list is walked.                                     *)
Sweep(ob, sc, marked) ==
  LET dead == DOMAIN ob \ marked
      Rel[D \in SUBSET dead] ==
        IF D = {} THEN sc
        ELSE LET o == CHOOSE x \in D : TRUE IN Release(ob, Rel[D \ {o}], o)
  IN  [objs |-> [o \in DOMAIN ob \cap marked |-> ob[o]], scopes |-> Rel[dead]]

(* Fault: the result is not guarded while the collector runs. *)
GcCheckUnguarded(ob, sc, v) ==
  { [objs |-> ob, scopes |-> sc], Sweep(ob, sc, Reach(ob, Roots(sc))) }

(* The last lines of do_apply: the result v is guarded while navi_gc_check *)
(* collects or, below its threshold, does not.                             *)
GcCheck(ob, sc, v) ==
  { [objs |-> ob, scopes |-> sc],
    Sweep(ob, sc, Reach(ob, Roots(sc) \cup Address(v))) }

-----------------------------------------------------------------------------
Top == frames[Len(frames)]
Pop == SubSeq(frames, 1, Len(frames) - 1)
Push(fs) ==
  /\ Len(frames) + Len(fs) <= MaxFrames
  /\ frames' = frames \o fs

(* The environment a function evaluates in (lex, dyn) is the one it holds  *)
(* counts on (heldLex, heldDyn), until navi_eval goes on with a bounce.    *)
(* The guards it will drop are on the list of scope at; restore is the     *)
(* handler that raise-continuable binds again.                             *)
Frame(kind, lex, dyn, G, at) ==
  [kind |-> kind, lex |-> lex, dyn |-> dyn, heldLex |-> lex, heldDyn |-> dyn,
   guards |-> G, at |-> at, restore |-> None, program |-> None]

IsBounce(v) == v # None /\ objs[v].type = "bounce"

(* Scheme code is evaluated.  The other frames are builtins that wait for  *)
(* a procedure they called; and a function that has made a bounce, for a   *)
(* tail call, only returns it.                                             *)
Evaluating ==
  /\ Top.kind \in {"eval", "body", "let", "parameterize"}
  /\ ~IsBounce(val)

Fresh == {o \in Obj \ DOMAIN objs : Cardinality(DOMAIN objs) < MaxObjs}
FreshScope == {s \in Scope \ DOMAIN scopes : Cardinality(DOMAIN scopes) < MaxScopes}

Chain(s) ==
  LET Up[x \in DOMAIN scopes] ==
        {x} \cup (IF scopes[x].next = None THEN {} ELSE Up[scopes[x].next])
  IN  Up[s]

(* What the running function can name: its value, its expression, the      *)
(* bindings it sees, and whatever is found from these.                     *)
Accessible ==
  {o \in Reach(objs, UNION {Bound(scopes, s) : s \in Chain(Top.lex) \cup Chain(Top.dyn)}
                       \cup Address(val) \cup Top.guards) : ~IsBounce(o)}

Values == Accessible \cup {None}

Binds(k, v) == [x \in Key |-> IF x = k THEN v ELSE None]

(* What follows the C function of a builtin or special form: its arguments *)
(* were unguarded, and do_apply returns its result v.                      *)
Finish(ob, sc, v) ==
  \E g \in GcCheck(ob, sc, v) :
    /\ objs' = g.objs
    /\ scopes' = g.scopes
    /\ val' = v

-----------------------------------------------------------------------------
(* navi_eval: the environment is counted, the expression guarded.  main    *)
(* evaluates what it reads, Scheme code its subexpressions; call/ec forces *)
(* a bounce its procedure returned.                                        *)
InBounce(f, b) == [f EXCEPT !.lex = objs[b].lex, !.dyn = objs[b].dyn, !.guards = {b}]

EvalEnter ==
  /\ \/ Top.kind = "main"
     \/ Evaluating /\ "operands" \in Features
     \/ Top.kind = "call/ec" /\ IsBounce(val)
  /\ LET f == Frame("eval", Top.lex, Top.dyn, Address(val), Top.lex)
     IN  Push(<< IF IsBounce(val) THEN InBounce(f, val) ELSE f >>)
  /\ scopes' = Guard(EnvRef(scopes, Top.lex, Top.dyn), Top.lex, Address(val))
  /\ val' = None
  /\ UNCHANGED objs

(* navi_eval goes round its loop: it now evaluates in the environment of   *)
(* the bounce, which only the bounce holds counts on.                      *)
EvalBounce ==
  /\ Top.kind = "eval" /\ IsBounce(val)
  /\ scopes' = Guard(Unguard(scopes, Top.at, Top.guards), Top.heldLex, {val})
  /\ frames' = Append(Pop, InBounce(Top, val))
  /\ val' = None
  /\ UNCHANGED objs

EvalReturn ==
  /\ Top.kind = "eval" /\ ~IsBounce(val)
  /\ scopes' = EnvUnref(Unguard(scopes, Top.at, Top.guards), Top.heldLex, Top.heldDyn)
  /\ frames' = Pop
  /\ UNCHANGED <<objs, val>>

(* Fault: the new scope takes no count on the scope it extends. *)
ExtendUncounted(sc, p, s, dyn, b) == Ref(AddScope(sc, s, objs[p].lex, b), dyn)

(* navi_apply of the lambda p: navi_extend_environment makes s, the scope  *)
(* of its body, counts the environment s extends and binds the argument.   *)
Extend(sc, p, s, dyn, b) == EnvRef(AddScope(sc, s, objs[p].lex, b), objs[p].lex, dyn)

IsProcedure(p) == p # None /\ p \in DOMAIN objs /\ objs[p].type = "procedure"

(* eval_call of a procedure, which it guards until do_apply has returned   *)
CallBody(p, s, k) ==
  /\ Evaluating
  /\ s \in FreshScope /\ IsProcedure(p) /\ p \in Accessible
  /\ Push(<< Frame("body", s, Top.dyn, {p}, Top.lex) >>)
  /\ scopes' = Extend(Guard(scopes, Top.lex, {p}), p, s, Top.dyn, Binds(k, val))
  /\ val' = None
  /\ UNCHANGED objs

ReturnBody ==
  /\ Top.kind = "body"
  /\ \E g \in GcCheck(objs, EnvUnref(scopes, Top.heldLex, Top.heldDyn), val) :
       /\ objs' = g.objs
       /\ scopes' = Unguard(g.scopes, Top.at, Top.guards)
     /\ frames' = Pop
  /\ UNCHANGED val

(* let and let*: a scope that extends the lexical environment.  do_apply   *)
(* guards the form, a part of the expression that navi_eval guards.        *)
EnterLet(s, k) ==
  /\ "let" \in Features
  /\ Evaluating /\ s \in FreshScope
  /\ Push(<< Frame("let", s, Top.dyn, {}, Top.lex) >>)
  /\ scopes' = EnvRef(AddScope(scopes, s, Top.lex, Binds(k, val)), Top.lex, Top.dyn)
  /\ val' = None
  /\ UNCHANGED objs

(* parameterize: a scope that extends the dynamic environment *)
EnterParameterize(s, k) ==
  /\ "parameterize" \in Features
  /\ Evaluating /\ s \in FreshScope
  /\ Push(<< Frame("parameterize", Top.lex, s, {}, Top.lex) >>)
  /\ scopes' = EnvRef(AddScope(scopes, s, Top.dyn, Binds(k, val)), Top.lex, Top.dyn)
  /\ val' = None
  /\ UNCHANGED objs

(* They unref the new environment; do_apply then drops its guard.         *)
Leave(f) == Unguard(EnvUnref(scopes, f.heldLex, f.heldDyn), f.at, f.guards)

ReturnForm ==
  /\ Top.kind \in {"let", "parameterize"}
  /\ Finish(objs, Leave(Top), val)
  /\ frames' = Pop

(* with-exception-handler: the handler h is bound in a new dynamic scope d *)
(* in which the thunk p is called.  A builtin runs in the global lexical   *)
(* scope, where its arguments are guarded.                                 *)
EnterHandler(h, p, d, s, k) ==
  /\ "handler" \in Features
  /\ Evaluating
  /\ {d, s} \subseteq FreshScope /\ d # s /\ Cardinality(DOMAIN scopes) + 2 <= MaxScopes
  /\ IsProcedure(h) /\ IsProcedure(p) /\ {h, p} \subseteq Accessible
  /\ Push(<< Frame("handler", GlobalLex, d, {h, p}, GlobalLex),
             Frame("body", s, d, {}, GlobalLex) >>)
  /\ LET sc == EnvRef(AddScope(Guard(scopes, GlobalLex, {h, p}), d, Top.dyn, Binds(k, h)),
                      GlobalLex, Top.dyn)
     IN  scopes' = Extend(sc, p, s, d, Binds(k, None))
  /\ val' = None
  /\ UNCHANGED objs

ReturnHandler ==
  /\ Top.kind = "handler"
  /\ Finish(objs, Leave(Top), val)
  /\ frames' = Pop

(* navi_env_binding on the dynamic environment *)
Lookup(s, k) ==
  LET Up[x \in DOMAIN scopes] ==
        IF scopes[x].bind[k] # None \/ scopes[x].next = None THEN scopes[x].bind[k]
        ELSE Up[scopes[x].next]
  IN  Up[s]

(* raise-continuable: the handler is guarded, unset in the innermost       *)
(* dynamic scope, and called.  The frame holds no counts of its own.       *)
EnterRaise(s, k) ==
  /\ "raise" \in Features
  /\ Evaluating /\ s \in FreshScope
  /\ LET h == Lookup(Top.dyn, k)
         G == {h} \cup Address(val)
     IN  /\ IsProcedure(h)
         /\ Push(<< [Frame("raise", GlobalLex, Top.dyn, G, GlobalLex)
                       EXCEPT !.heldLex = None, !.heldDyn = None, !.restore = h],
                    Frame("body", s, Top.dyn, {}, GlobalLex) >>)
         /\ scopes' = Extend([Guard(scopes, GlobalLex, G) EXCEPT ![Top.dyn].bind[k] = None],
                             h, s, Top.dyn, Binds(k, val))
  /\ val' = None
  /\ UNCHANGED objs

(* The handler is bound again, in the innermost dynamic scope. *)
ReturnRaise(k) ==
  /\ Top.kind = "raise"
  /\ Finish(objs, Unguard([scopes EXCEPT ![Top.dyn].bind[k] = Top.restore],
                          Top.at, Top.guards), val)
  /\ frames' = Pop

(* call/ec: the new escape o, whose arg field is not initialised, is       *)
(* passed to the procedure p.                                              *)
EnterCallEC(o, p, s, k) ==
  /\ "call/ec" \in Features
  /\ Evaluating
  /\ o \in Fresh /\ s \in FreshScope /\ IsProcedure(p) /\ p \in Accessible
  /\ Push(<< Frame("call/ec", GlobalLex, Top.dyn, {o, p}, GlobalLex),
             Frame("body", s, Top.dyn, {}, GlobalLex) >>)
  /\ \E w \in Garbage :
       objs' = [x \in DOMAIN objs \cup {o} |->
         IF x = o THEN [type |-> "escape", refs |-> Address(w), lex |-> None, dyn |-> None]
         ELSE objs[x]]
  /\ scopes' = Extend(EnvRef(Guard(scopes, GlobalLex, {o, p}), GlobalLex, Top.dyn),
                      p, s, Top.dyn, Binds(k, o))
  /\ val' = None

(* Its procedure returned a value, or navi_eval of the bounce it returned  *)
(* did.                                                                    *)
ReturnCallEC ==
  /\ Top.kind = "call/ec" /\ ~IsBounce(val)
  /\ Finish(objs, Leave(Top), val)
  /\ frames' = Pop

(* Fault: the unref that control_features.c:81 keeps as a comment. *)
AbandonUnref(sc, f) == EnvUnref(sc, f.lex, f.dyn)

(* What navi_call_escape gives back before its longjmp: nothing, the call  *)
(* of navi_env_unref there is commented out.                               *)
Abandon(sc, f) == sc

(* navi_call_escape: a longjmp to the frame of call/ec, which then returns *)
(* the argument.  The frames above it give nothing back.  An escape whose  *)
(* call/ec has returned is not invoked: the jump would be undefined.       *)
Escape(o) ==
  /\ Evaluating
  /\ o \in DOMAIN objs /\ objs[o].type = "escape" /\ o \in Accessible
  /\ \A s \in DOMAIN scopes : scopes[s].refs < MaxCount
  /\ \E i \in 1 .. Len(frames) :
       /\ frames[i].kind = "call/ec" /\ o \in frames[i].guards
       /\ LET sc == Abandon(scopes, Top)
              f  == frames[i]
          IN  Finish([objs EXCEPT ![o].refs = Address(val)],
                     Unguard(EnvUnref(sc, f.heldLex, f.heldDyn), f.at, f.guards), val)
       /\ frames' = SubSeq(frames, 1, i - 1)

-----------------------------------------------------------------------------
(* A primitive that returns a new object: cons, lambda, define-macro, and  *)
(* eval_tail.  Its references are values the function has in hand.         *)
MakeCounts(sc, ty) ==
  CASE ty = "bounce" -> EnvRef(sc, Top.lex, Top.dyn)
    [] ty \in {"procedure", "macro"} -> Ref(sc, Top.lex)
    [] OTHER -> sc

Make(o, ty, rs) ==
  /\ Evaluating
  /\ ty \in Features \cap {"pair", "procedure", "macro", "bounce"}
  /\ ty = "macro" => scopes[Top.lex].refs < MaxCount
  /\ o \in Fresh
  /\ Cardinality(rs) <= MaxRefs /\ rs \subseteq Accessible
  /\ LET r == [type |-> ty, refs |-> rs,
               lex |-> IF ty = "pair" THEN None ELSE Top.lex,
               dyn |-> IF ty = "bounce" THEN Top.dyn ELSE None]
     IN  Finish([x \in DOMAIN objs \cup {o} |-> IF x = o THEN r ELSE objs[x]],
                MakeCounts(scopes, ty), o)
  /\ UNCHANGED frames

(* define and set!: the value is bound in a scope of the lexical chain *)
Define(s, k) ==
  /\ "define" \in Features
  /\ Evaluating
  /\ s \in Chain(Top.lex) /\ (s = Top.lex \/ scopes[s].bind[k] # None)
  /\ Finish(objs, [scopes EXCEPT ![s].bind[k] = val], None)
  /\ UNCHANGED frames

(* set-car! and set-cdr!: one reference of the pair is overwritten *)
SetField(o, old) ==
  /\ Evaluating
  /\ o \in DOMAIN objs /\ objs[o].type = "pair" /\ o \in Accessible
  /\ old \in objs[o].refs \cup {None}
  /\ LET rs == (objs[o].refs \ {old}) \cup Address(val)
     IN  /\ rs # objs[o].refs /\ Cardinality(rs) <= MaxRefs
         /\ Finish([objs EXCEPT ![o].refs = rs], scopes, None)
  /\ UNCHANGED frames

(* A variable is looked up, a field is read or an immediate is the value. *)
Fetch(v) ==
  /\ Evaluating
  /\ v \in Values \ {val}
  /\ val' = v
  /\ UNCHANGED <<objs, scopes, frames>>

Init ==
  /\ objs = [o \in {} |-> None]
  /\ scopes = [s \in {GlobalLex, GlobalDyn} |->
                 [next |-> None, refs |-> 1, bind |-> [k \in Key |-> None],
                  guards |-> [o \in Obj |-> 0]]]
  /\ \E p \in Program :
       frames = << [Frame("main", GlobalLex, GlobalDyn, {}, GlobalLex) EXCEPT !.program = p] >>
  /\ val = None

Next ==
  \/ EvalEnter \/ EvalBounce \/ EvalReturn
  \/ ReturnBody \/ ReturnForm \/ ReturnHandler \/ ReturnCallEC
  \/ \E v \in Obj \cup {None} : Fetch(v)
  \/ \E p \in Obj, s \in Scope, k \in Key : CallBody(p, s, k)
  \/ \E s \in Scope, k \in Key :
       EnterLet(s, k) \/ EnterParameterize(s, k) \/ EnterRaise(s, k) \/ Define(s, k)
  \/ \E h, p \in Obj, d, s \in Scope, k \in Key : EnterHandler(h, p, d, s, k)
  \/ \E k \in Key : ReturnRaise(k)
  \/ \E o, p \in Obj, s \in Scope, k \in Key : EnterCallEC(o, p, s, k)
  \/ \E o \in Obj : Escape(o)
  \/ \E o \in Obj, ty \in Features, rs \in SUBSET Obj : Make(o, ty, rs)
  \/ \E o \in Obj, old \in Obj \cup {None} : SetField(o, old)

Spec == Init /\ [][Next]_vars
-----------------------------------------------------------------------------
(* The heap list, the active scopes and the C stack keep their shape, and  *)
(* no count or guard that is given back was not taken before.              *)
TypeOK ==
  /\ program \in Program
  /\ DOMAIN objs \subseteq Obj
  /\ \A o \in DOMAIN objs :
       /\ objs[o].type \in {"pair", "procedure", "macro", "bounce", "escape"}
       /\ objs[o].refs \subseteq Obj
  /\ DOMAIN scopes \subseteq Scope
  /\ \A s \in DOMAIN scopes :
       /\ scopes[s].refs \in Nat
       /\ scopes[s].bind \in [Key -> Obj \cup {None}]
       /\ scopes[s].guards \in [Obj -> Nat]
  /\ Len(frames) \in 1 .. MaxFrames
  /\ val \in Obj \cup {None}

(* No C function holds, and no object it can get at refers to, memory that *)
(* gc_sweep has given back, whatever was collected while it waited for the *)
(* functions it called.                                                    *)
NoDangling ==
  /\ TypeOK
  /\ Reach(objs, Roots(scopes) \cup Address(val) \cup
                   UNION {frames[i].guards : i \in DOMAIN frames}) \subseteq DOMAIN objs

(* What uses a scope without asking: the functions that evaluate in it,    *)
(* the scopes that extend it, and navi_free of the objects closed over it. *)
UsedScopes ==
  (UNION {{f.lex, f.dyn, f.heldLex, f.heldDyn, f.at} : f \in {frames[i] : i \in DOMAIN frames}}
     \cup {scopes[s].next : s \in DOMAIN scopes}
     \cup UNION {{objs[o].lex, objs[o].dyn} : o \in DOMAIN objs}) \ {None}

(* No scope that is used was freed by navi_scope_free: the counts that     *)
(* navi_env_ref and navi_env_unref move about never fall to zero early.    *)
ScopesHeld == UsedScopes \subseteq DOMAIN scopes

(* Who owes the scope s a decrement: main, frames, scopes and objects.     *)
Count(S) == Cardinality(S)
Owed(s) ==
  (IF s \in {GlobalLex, GlobalDyn} THEN 1 ELSE 0)
  + Count({i \in DOMAIN frames : frames[i].kind # "main" /\ frames[i].heldLex = s})
  + Count({i \in DOMAIN frames : frames[i].kind # "main" /\ frames[i].heldDyn = s})
  + Count({x \in DOMAIN scopes : scopes[x].next = s})
  + Count({o \in DOMAIN objs : objs[o].type \in {"procedure", "bounce"} /\ objs[o].lex = s})
  + Count({o \in DOMAIN objs : objs[o].type = "bounce" /\ objs[o].dyn = s})

(* The decrements still to come do not take a scope below zero; and        *)
(* without call/ec and macros no count is lost: a scope is counted exactly *)
(* as often as somebody will give it back, so that none stays on           *)
(* active_environments for ever.                                           *)
RefsExact ==
  /\ \A s \in DOMAIN scopes : scopes[s].refs >= Owed(s)
  /\ Features \cap {"call/ec", "macro"} = {} => \A s \in DOMAIN scopes : scopes[s].refs = Owed(s)

Guarding(s, o) == Count({i \in DOMAIN frames : frames[i].at = s /\ o \in frames[i].guards})

(* A function that is running finds the guards it will drop on the list of *)
(* their scope; and without call/ec every guard there belongs to a C       *)
(* function that is still running and that will drop it.                   *)
GuardsOwned ==
  /\ \A i \in DOMAIN frames : frames[i].guards # {} => frames[i].at \in DOMAIN scopes
  /\ \A s \in DOMAIN scopes, o \in Obj :
       /\ scopes[s].guards[o] >= Guarding(s, o)
       /\ "call/ec" \notin Features => scopes[s].guards[o] = Guarding(s, o)
=============================================================================
