------------------------------ MODULE Collector -----------------------------
(***************************************************************************)
(* The collector of heap.c step by step: the list of all objects, the      *)
(* recursion of gc_mark_obj, the walk of gc_sweep that unlinks while it    *)
(* goes, and the counts that decide when a collection begins.  The module  *)
(* Memory takes a collection as one step that frees what no scope reaches; *)
(* here is what makes it so.                                               *)
(*                                                                         *)
(* The word of flags of a new object is not initialised, so that an object *)
(* may be born marked or protected.  gc_mark_obj goes on through objects   *)
(* that are marked already, and needs the C stack of a circular list.      *)
(*                                                                         *)
(* Between collections a program makes objects, changes those it can       *)
(* reach, and binds and forgets them.                                      *)
(***************************************************************************)
EXTENDS Integers, Sequences, FiniteSets, FiniteSetsExt

CONSTANTS
  Objects,     \* addresses of objects
  Null,        \* the null pointer, or an immediate value
  MaxDepth,    \* bound on the depth of gc_mark_obj: the size of the C stack
  Word,        \* the modulus of size_t
  MaxDisabled, \* bound on nested navi_gc_disable
  Programs     \* what the programs do

ASSUME CollectorAssumption ==
  /\ Null \notin Objects
  /\ MaxDepth \in Nat /\ Word \in Nat \ {0} /\ MaxDisabled \in Nat
  /\ Programs \subseteq [types : SUBSET {"pair", "string", "symbol"}, objects : SUBSET Objects,
                         fresh : SUBSET SUBSET {"mark", "protect"}, uses : SUBSET {"set-cdr!", "circular", "disable"}]

VARIABLES
  program,     \* the program that runs
  heap,        \* heap.slh_first and the links: Objects \cup {Null} -> address
  store,       \* address -> [type, fields, flags] of an object that is not freed
  roots,       \* what the bindings and guards of the active scopes hold
  gc,          \* [disabled, bytes, threshold]
  ctl          \* the collection that is running, see Idle

vars == <<program, heap, store, roots, gc, ctl>>

(* A collection has a phase; the roots gc_mark has yet to visit; for each  *)
(* call of gc_mark_obj the objects it has yet to visit, the innermost call *)
(* first; and the variables obj and last of gc_sweep.  born is history:    *)
(* the objects that were marked when it began.                             *)
Idle == [phase |-> "run", pending |-> {}, stack |-> <<>>, obj |-> Null, last |-> Null, born |-> {}]

Live == DOMAIN store
Marked(o) == "mark" \in store[o].flags
Protected(o) == "protect" \in store[o].flags
Address(fs) == {fs[i] : i \in DOMAIN fs} \ {Null}
Refs(o) == Address(store[o].fields)

(* What a program can name: the roots and what its members refer to *)
Reaches(R) == {o \in Objects : \A S \in SUBSET Objects :
                 (R \subseteq S /\ \A x \in S \cap Live : Refs(x) \subseteq S) => o \in S}
Reachable == Reaches(roots)
Values == Reachable \cup {Null}

-----------------------------------------------------------------------------
(* Sizes                                                                   *)

(* make_object registers a string without its characters, one byte here,   *)
(* and navi_free takes them off.                                           *)
Registered(type) == 1
Released(type) == IF type = "string" THEN 2 ELSE 1

Register(type) == [gc EXCEPT !.bytes = (@ + Registered(type)) % Word]
Release(type) == [gc EXCEPT !.bytes = (@ - Released(type)) % Word]

-----------------------------------------------------------------------------
(* The program                                                             *)

Init ==
  /\ program \in Programs
  /\ heap = [o \in Objects \cup {Null} |-> Null]
  /\ store = [o \in {} |-> [type |-> "pair", fields |-> <<>>, flags |-> {}]]
  /\ roots = {} /\ ctl = Idle
  /\ gc = [disabled |-> 0, bytes |-> 0, threshold |-> 0]

Fields(type) == IF type = "pair" THEN Values \X Values ELSE {<<>>}

(* make_object and slab_make_object.  The address makes no difference.     *)
Make(type, fields, flags) ==
  /\ ctl.phase = "run" /\ type \in program.types /\ flags \in program.fresh
  /\ program.objects \ Live # {}
  /\ LET o == CHOOSE x \in program.objects \ Live : TRUE
     IN  /\ store' = [x \in Live \cup {o} |->
                        IF x = o THEN [type |-> type, fields |-> fields, flags |-> flags] ELSE store[x]]
         /\ heap' = [heap EXCEPT ![o] = heap[Null], ![Null] = o]
         /\ roots' \in {roots, roots \cup {o}}
  /\ gc' = Register(type)
  /\ UNCHANGED <<program, ctl>>

(* set-car! (i = 1) and set-cdr! (i = 2) *)
SetField(o, i, v) ==
  /\ ctl.phase = "run" /\ "set-cdr!" \in program.uses
  /\ o \in Reachable /\ store[o].type = "pair" /\ v \in Values
  /\ "circular" \in program.uses \/ o \notin Reaches(Address(<<v>>))
  /\ store' = [store EXCEPT ![o].fields[i] = v]
  /\ UNCHANGED <<program, heap, roots, gc, ctl>>

(* A binding or a guard is made; a scope is freed or a guard given back.   *)
Bind(o) ==
  /\ ctl.phase = "run" /\ o \in Reachable \ roots
  /\ roots' = roots \cup {o} /\ UNCHANGED <<program, heap, store, gc, ctl>>

Forget(o) ==
  /\ ctl.phase = "run" /\ o \in roots
  /\ roots' = roots \ {o} /\ UNCHANGED <<program, heap, store, gc, ctl>>

Disable ==
  /\ ctl.phase = "run" /\ "disable" \in program.uses /\ gc.disabled < MaxDisabled
  /\ gc' = [gc EXCEPT !.disabled = @ + 1] /\ UNCHANGED <<program, heap, store, roots, ctl>>

Enable ==
  /\ ctl.phase = "run" /\ gc.disabled > 0
  /\ gc' = [gc EXCEPT !.disabled = @ - 1] /\ UNCHANGED <<program, heap, store, roots, ctl>>

-----------------------------------------------------------------------------
(* The collection                                                          *)

Begin == ctl' = [Idle EXCEPT !.phase = "mark", !.pending = roots, !.born = {o \in Live : Marked(o)}]

(* navi_gc_check, which do_apply calls when a procedure has returned *)
Threshold == IF gc.threshold = 0 THEN (gc.bytes - 1) % Word ELSE gc.threshold
GcCheck ==
  /\ ctl.phase = "run"
  /\ gc' = [gc EXCEPT !.threshold = Threshold]
  /\ IF gc.bytes >= Threshold /\ gc.disabled = 0 THEN Begin ELSE UNCHANGED ctl
  /\ UNCHANGED <<program, heap, store, roots>>

(* (gc-collect) *)
GcCollect ==
  /\ ctl.phase = "run" /\ gc.disabled = 0 /\ Begin
  /\ UNCHANGED <<program, heap, store, roots, gc>>

(* gc_mark and gc_mark_env call gc_mark_obj for a binding or a guard.      *)
(* Fault, which no run uses: the list is walked from its start again.      *)
VisitFromStart(r) == [ctl EXCEPT !.stack = <<<<r>>>>]
Visit(r) == [ctl EXCEPT !.pending = @ \ {r}, !.stack = <<<<r>>>>]

MarkRoot(r) ==
  /\ ctl.phase = "mark" /\ ctl.stack = <<>> /\ r \in ctl.pending
  /\ ctl' = Visit(r)
  /\ UNCHANGED <<program, heap, store, roots, gc>>

(* gc_mark_obj marks an object and goes on to its fields.                  *)
(* Fault, which no run uses: it stops at an object that is marked.         *)
FollowUnmarked(o) == IF Marked(o) THEN <<>> ELSE SelectSeq(store[o].fields, LAMBDA v : v # Null)
Mark(o) == [store EXCEPT ![o].flags = @ \cup {"mark"}]
Follow(o) == SelectSeq(store[o].fields, LAMBDA v : v # Null)

MarkObj ==
  /\ ctl.phase = "mark" /\ ctl.stack # <<>> /\ Head(ctl.stack) # <<>>
  /\ LET o == Head(Head(ctl.stack))
         rest == <<Tail(Head(ctl.stack))>> \o Tail(ctl.stack)
     IN  /\ store' = Mark(o)
         /\ ctl' = IF Len(ctl.stack) = MaxDepth THEN [Idle EXCEPT !.phase = "overflow"]
                   ELSE [ctl EXCEPT !.stack = <<Follow(o)>> \o rest]
  /\ UNCHANGED <<program, heap, roots, gc>>

MarkReturn ==
  /\ ctl.phase = "mark" /\ ctl.stack # <<>> /\ Head(ctl.stack) = <<>>
  /\ ctl' = [ctl EXCEPT !.stack = Tail(@)]
  /\ UNCHANGED <<program, heap, store, roots, gc>>

SweepBegin ==
  /\ ctl.phase = "mark" /\ ctl.stack = <<>> /\ ctl.pending = {}
  /\ ctl' = [ctl EXCEPT !.phase = "sweep", !.obj = heap[Null], !.last = heap[Null]]
  /\ UNCHANGED <<program, heap, store, roots, gc>>

(* One turn of the loop of gc_sweep.  p is read before the body.           *)
Kept(o) == Marked(o) \/ Protected(o) \/ store[o].type = "symbol"
(* Faults, which no run uses: the head of the list is no case of its own;  *)
(* whether an object is protected is asked before whether it is marked.    *)
UnlinkedAfterLast(o) == [heap EXCEPT ![ctl.last] = heap[heap[ctl.last]]]
UnmarkedButProtected(o) == IF Protected(o) THEN store ELSE [store EXCEPT ![o].flags = @ \ {"mark"}]
Unmarked(o) == [store EXCEPT ![o].flags = @ \ {"mark"}]
Unlinked(o) == IF o = heap[Null] THEN [heap EXCEPT ![Null] = heap[o]]
               ELSE [heap EXCEPT ![ctl.last] = heap[heap[ctl.last]]]

SweepKeep ==
  /\ ctl.phase = "sweep" /\ ctl.obj # Null /\ Kept(ctl.obj)
  /\ store' = Unmarked(ctl.obj)
  /\ ctl' = [ctl EXCEPT !.obj = heap[@], !.last = ctl.obj]
  /\ UNCHANGED <<program, heap, roots, gc>>

SweepFree ==
  /\ ctl.phase = "sweep" /\ ctl.obj # Null /\ ~Kept(ctl.obj)
  /\ heap' = Unlinked(ctl.obj)
  /\ store' = [x \in Live \ {ctl.obj} |-> store[x]]
  /\ gc' = Release(store[ctl.obj].type)
  /\ ctl' = [ctl EXCEPT !.obj = heap[@]]
  /\ UNCHANGED <<program, roots>>

SweepEnd ==
  /\ ctl.phase = "sweep" /\ ctl.obj = Null
  /\ gc' = [gc EXCEPT !.threshold = (gc.bytes * 4) % Word]
  /\ ctl' = Idle
  /\ UNCHANGED <<program, heap, store, roots>>

Collect ==
  \/ \E r \in Objects : MarkRoot(r)
  \/ MarkObj \/ MarkReturn \/ SweepBegin \/ SweepKeep \/ SweepFree \/ SweepEnd

Next ==
  \/ \E type \in program.types : \E fs \in Fields(type), flags \in program.fresh : Make(type, fs, flags)
  \/ \E o \in Reachable, i \in 1..2, v \in Values : SetField(o, i, v)
  \/ \E o \in Objects : Bind(o) \/ Forget(o)
  \/ Disable \/ Enable \/ GcCheck \/ GcCollect
  \/ Collect

Spec == Init /\ [][Next]_vars

(* The interpreter waits for a collection to end.                          *)
FairSpec == Spec /\ WF_vars(Collect)

-----------------------------------------------------------------------------
(* The list as a pointer walk finds it: At[n] is its (n+1)th object.       *)
At == [n \in 0..Cardinality(Objects) |->
         LET Walk[k \in 0..n] == IF k = 0 THEN heap[Null] ELSE heap[Walk[k - 1]] IN Walk[n]]

(* Every object is on the list once, whether a collection is under way or  *)
(* not, no object is marked between collections that was not born marked,  *)
(* and the count of bytes that sets the threshold is that of the list, as  *)
(* long as no string was freed.                                            *)
ListIsHeap ==
  LET n == Cardinality(Live)
  IN  /\ At[n] = Null
      /\ {At[i] : i \in 0..n - 1} = Live
      /\ "string" \notin program.types =>
           gc.bytes = MapThenSumSet(LAMBDA o : Registered(store[o].type), Live) % Word

(* A collection frees everything the program cannot reach, except symbols, *)
(* what its uninitialised flags protect, and what was born marked: that is *)
(* freed by the next one, for no mark is left behind.                      *)
CollectionIsComplete ==
  [][ctl.phase = "sweep" /\ ctl'.phase = "run" =>
       \A o \in Live :
         /\ ~Marked(o)
         /\ o \in Reachable \/ Protected(o) \/ store[o].type = "symbol" \/ o \in ctl.born]_vars

(* A collection of data that are not circular ends, and the program goes   *)
(* on, even if much is shared.                                             *)
Circular == \E o \in Reachable : o \in Reaches(Refs(o))
CollectionEnds == ctl.phase \in {"mark", "sweep"} /\ ~Circular ~> ctl.phase = "run"

(* The program sees a heap from which only what it cannot reach goes.      *)
AbstractHeap == INSTANCE ManagedHeap
  WITH live <- Live, refs <- [o \in Live |-> Refs(o)]
ImplementsHeap == AbstractHeap!Spec
=============================================================================
