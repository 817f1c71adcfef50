----------------------------- MODULE Exceptions -----------------------------
(***************************************************************************)
(* The exception handlers of control_features.c, the top-level handler of  *)
(* default_bindings.c and the dynamic scopes of environment.c they are     *)
(* bound in.                                                               *)
(*                                                                         *)
(* The handler of some code is what its dynamic environment binds          *)
(* #current-exception-handler to.  A frame is a running C function, with   *)
(* the dynamic scope dyn the code above it evaluates in.  A function that  *)
(* makes a scope is the frame that gives the scope its number, and a       *)
(* handler is numbered by the frame that installed it; 1, the global       *)
(* scope, is also the top-level handler.                                   *)
(*                                                                         *)
(* What Scheme code does is not modelled, only which of these functions it *)
(* calls and when it returns: handlers and thunks may do anything.         *)
(***************************************************************************)
EXTENDS Integers, Sequences

CONSTANTS
  MaxDepth,   \* bound on the frames of the C stack
  Program     \* programs: whether the prompt runs them, and what they use

ASSUME ExceptionsAssumption ==
  /\ MaxDepth \in Nat \ {0}
  /\ Program \subseteq [repl : BOOLEAN, uses : SUBSET {"parameterize", "call/ec", "tail"}]

None == 0

VARIABLES
  program,  \* the program that main runs
  frames,   \* the C stack: kind, dyn, and the handler h that was taken
  bound,    \* what each scope binds #current-exception-handler to
  died      \* navi_die was called

vars == <<program, frames, bound, died>>

Kinds == {"main", "thunk", "parameterize", "call/ec", "raise", "raise-continuable", "handler", "tail"}

FrameType == [kind : Kinds, dyn : 1 .. MaxDepth, h : 0 .. MaxDepth, saw : Seq(0 .. MaxDepth)]

Depth == Len(frames)
Top == frames[Depth]
Frame(kind, dyn, h) == [kind |-> kind, dyn |-> dyn, h |-> h, saw |-> <<>>]

(* A program runs at the prompt, which binds the top-level handler, or     *)
(* not, and uses some forms.                                               *)
Repl == program.repl
Features == program.uses

(* The scope that the scope d extends. *)
NextScope(d) == IF d = 1 THEN None ELSE frames[d - 1].dyn

(* navi_env_lookup of the handler in the environment env.dynamic = d: what *)
(* the scope binds, or the first scope above it that binds one.            *)
Handlers[d \in 0 .. Depth] ==
  IF d = None THEN None ELSE IF bound[d] # None THEN bound[d] ELSE Handlers[NextScope(d)]
Lookup(d) == Handlers[d]

(* Faults, which no run uses: the handler stays bound while it runs; it is *)
(* unset in the scope where it was found.                                  *)
UnsetNowhere(d) == bound
UnsetWhereFound(d) == [bound EXCEPT ![Lookup(d)] = None]

(* navi_scope_unset and navi_scope_set: of that one scope *)
ScopeUnset(d) == [bound EXCEPT ![d] = None]
ScopeSet(b, d, h) == [b EXCEPT ![d] = h]

(* The scopes of frames that are gone are gone. *)
Kept(b, n) == [d \in 1 .. MaxDepth |-> IF d <= n THEN b[d] ELSE None]

(* Scheme code is evaluated in these; raise and the handlers below it are  *)
(* C functions that wait.                                                  *)
Evaluating == ~died /\ Top.kind \in {"main", "thunk", "parameterize", "call/ec", "handler", "tail"}
Push(f) == Depth < MaxDepth /\ frames' = Append(frames, f)

-----------------------------------------------------------------------------
(* with-exception-handler: a new dynamic scope, in which the handler is    *)
(* bound.  A tail expression of the thunk is still evaluated in it.        *)
WithHandler ==
  /\ Evaluating
  /\ Push(Frame("thunk", Depth + 1, None))
  /\ bound' = ScopeSet(bound, Depth + 1, Depth + 1)
  /\ UNCHANGED <<program, died>>

Parameterize ==
  /\ Evaluating /\ "parameterize" \in Features
  /\ Push(Frame("parameterize", Depth + 1, None))
  /\ UNCHANGED <<program, bound, died>>

CallEC ==
  /\ Evaluating /\ "call/ec" \in Features
  /\ Push(Frame("call/ec", Top.dyn, None))
  /\ UNCHANGED <<program, bound, died>>

Return ==
  /\ ~died /\ Top.kind \in {"thunk", "parameterize", "call/ec", "tail"}
  /\ frames' = SubSeq(frames, 1, Depth - 1)
  /\ bound' = Kept(bound, Depth - 1)
  /\ UNCHANGED <<program, died>>

(* navi_call_escape: call/ec at depth n returns.  Dynamic scopes are left  *)
(* as they are ("TODO: swap dynamic environment").                         *)
Escape(n) ==
  /\ Evaluating /\ n <= Depth /\ frames[n].kind = "call/ec"
  /\ frames' = SubSeq(frames, 1, n - 1)
  /\ bound' = Kept(bound, n - 1)
  /\ UNCHANGED <<program, died>>

(* raise, error, and every error of a builtin.  The bound leaves room for  *)
(* the handler: a raise never returns.                                     *)
Raise ==
  /\ Evaluating /\ Depth + 2 <= MaxDepth
  /\ Push(Frame("raise", Top.dyn, None))
  /\ UNCHANGED <<program, bound, died>>

Fatal ==
  /\ died' = TRUE
  /\ UNCHANGED <<program, frames, bound>>

TopLevelUnbound(b, d) == Kept(b, 1)   \* fault: it is not bound again

(* What toplevel_exn leaves behind: a longjmp to the prompt, with itself   *)
(* bound again in the dynamic scope d it was called with.                  *)
TopLevel(b, d) == Kept(ScopeSet(b, d, 1), 1)

(* The handler h is unset in the innermost scope d only, and called by the *)
(* last of the frames fs.                                                  *)
Invoke(h, d, fs) ==
  IF h = 1
  THEN /\ frames' = SubSeq(frames, 1, 1)
       /\ bound' = TopLevel(ScopeUnset(d), d)
  ELSE /\ Len(fs) < MaxDepth
       /\ frames' = Append(fs, Frame("handler", d, h))
       /\ bound' = ScopeUnset(d)

(* One turn of the loop of navi_raise.  Its frame remembers the handler,   *)
(* for the properties.                                                     *)
RaiseLoop ==
  /\ ~died /\ Top.kind = "raise"
  /\ LET h == Lookup(Top.dyn)
     IN  IF h = None THEN Fatal
         ELSE Invoke(h, Top.dyn, [frames EXCEPT ![Depth].h = h]) /\ UNCHANGED <<program, died>>

(* Its handler returned: raise again.  A tail expression of the handler    *)
(* was forced.                                                             *)
RaiseAgain ==
  /\ ~died /\ Depth > 1 /\ Top.kind = "handler" /\ frames[Depth - 1].kind = "raise"
  /\ frames' = SubSeq(frames, 1, Depth - 1)
  /\ UNCHANGED <<program, bound, died>>

(* The frame remembers, for the properties, which handlers the functions   *)
(* below it see.                                                           *)
Seen == [i \in 1 .. Depth |-> Lookup(frames[i].dyn)]

RaiseContinuable ==
  /\ Evaluating
  /\ LET h == Lookup(Top.dyn)
         f == [Frame("raise-continuable", Top.dyn, h) EXCEPT !.saw = Seen]
     IN  IF h = None THEN Fatal
         ELSE Invoke(h, Top.dyn, Append(frames, f)) /\ UNCHANGED <<program, died>>

(* Fault: it is bound again in the global scope. *)
RestoredGlobally(f) == Kept(ScopeSet(bound, 1, f.h), Depth - 2)

(* The handler of raise-continuable returns and is bound in the innermost  *)
(* scope, wherever it was found.                                           *)
Restored(f) == Kept(ScopeSet(bound, f.dyn, f.h), Depth - 2)

HandlerReturn ==
  /\ ~died /\ Depth > 2 /\ Top.kind = "handler"
  /\ frames[Depth - 1].kind = "raise-continuable"
  /\ bound' = Restored(frames[Depth - 1])
  /\ frames' = SubSeq(frames, 1, Depth - 2)
  /\ UNCHANGED <<program, died>>

(* It returns a bounce: its tail expression is evaluated after that.       *)
HandlerTail ==
  /\ "tail" \in Features
  /\ ~died /\ Depth > 2 /\ Top.kind = "handler"
  /\ frames[Depth - 1].kind = "raise-continuable"
  /\ bound' = Restored(frames[Depth - 1])
  /\ frames' = Append(SubSeq(frames, 1, Depth - 2), Frame("tail", Top.dyn, Top.h))
  /\ UNCHANGED <<program, died>>

Init ==
  /\ program \in Program
  /\ frames = << Frame("main", 1, None) >>
  /\ bound = [d \in 1 .. MaxDepth |-> IF d = 1 /\ Repl THEN 1 ELSE None]
  /\ died = FALSE

Next ==
  \/ WithHandler \/ Parameterize \/ CallEC \/ Return
  \/ \E n \in 1 .. MaxDepth : Escape(n)
  \/ Raise \/ RaiseLoop \/ RaiseAgain
  \/ RaiseContinuable \/ HandlerReturn \/ HandlerTail

Spec == Init /\ [][Next]_vars

-----------------------------------------------------------------------------
(* The stack and the scopes keep their shape: every scope a frame          *)
(* evaluates in belongs to it or to a frame below it.                      *)
TypeOK ==
  /\ program \in Program
  /\ frames \in Seq(FrameType)
  /\ Depth \in 1 .. MaxDepth /\ \A i \in 1 .. Depth : frames[i].dyn <= i
  /\ bound \in [1 .. MaxDepth -> 0 .. MaxDepth]
  /\ died \in BOOLEAN

(* Whatever was bound, unset and restored on the way, a handler that a     *)
(* raise can find belongs to a with-exception-handler that has not yet     *)
(* returned, or is the top-level one.                                      *)
HandlersInForce ==
  TypeOK /\ \A d \in 1 .. MaxDepth :
    bound[d] # None => \/ Repl /\ bound[d] = 1
                       \/ bound[d] <= d /\ frames[bound[d]].kind = "thunk"

(* What R7RS prescribes: a handler, and the raise it returns to, go on     *)
(* with the handler that was current where it was installed.               *)
Prescribed ==
  LET At[i \in 1 .. Depth] ==
        CASE frames[i].kind = "main" -> IF Repl THEN 1 ELSE None
          [] frames[i].kind = "thunk" -> i
          [] frames[i].kind \in {"handler", "raise"} /\ frames[i].h # None -> At[frames[i].h - 1]
          [] OTHER -> At[i - 1]
  IN  At[Depth]

(* Without escapes, and while every handler that was called was found in   *)
(* the innermost dynamic scope of its raise, the running code has the      *)
(* handler that R7RS prescribes.                                           *)
InnermostIsRight ==
  /\ Features \cap {"call/ec", "tail"} = {}
  /\ \A i \in 1 .. Depth :
       frames[i].kind \in {"handler", "raise"} => frames[i].h \in {frames[i].dyn, None}
  => Lookup(Top.dyn) = Prescribed

(* A raise-continuable that returns, and whatever its handler did, changes *)
(* nothing for the functions below it: they see the handlers they saw.     *)
ContinuableIsTransparent ==
  [][ HandlerReturn \/ HandlerTail =>
        \A i \in 1 .. Depth - 2 : (Lookup(frames[i].dyn))' = frames[Depth - 1].saw[i] ]_vars

(* No error at the prompt ends the interpreter: the top-level handler is   *)
(* in force for every raise, however many came before.                     *)
PromptSurvives == Repl => ~died
=============================================================================
