---------------------------- MODULE ManagedHeap -----------------------------
(***************************************************************************)
(* What a program relies on when its memory is reclaimed for it: an object *)
(* it can reach from its roots stays as it is until the program itself     *)
(* changes it.  When, and whether, the others are reclaimed is left open.  *)
(***************************************************************************)
CONSTANT Objects

VARIABLES
  live,    \* the objects that exist
  refs,    \* object -> the objects it refers to
  roots    \* the objects the program has a name for

(* The least set that holds the roots and what its members refer to *)
Closed(S) == roots \subseteq S /\ \A o \in S \cap live : refs[o] \subseteq S
Reachable == {o \in Objects : \A S \in SUBSET Objects : Closed(S) => o \in S}

Init == live = {} /\ refs = [o \in {} |-> {}] /\ roots = {}

Create(o, to) ==
  /\ o \notin live /\ to \subseteq Reachable
  /\ live' = live \cup {o}
  /\ refs' = [x \in live' |-> IF x = o THEN to ELSE refs[x]]
  /\ roots' \in {roots, roots \cup {o}}

Assign(o, to) ==
  /\ o \in Reachable /\ to \subseteq Reachable
  /\ refs' = [refs EXCEPT ![o] = to] /\ UNCHANGED <<live, roots>>

Name(R) == R \subseteq Reachable /\ roots' = R /\ UNCHANGED <<live, refs>>

Reclaim(o) ==
  /\ o \in live \ Reachable
  /\ live' = live \ {o} /\ refs' = [x \in live' |-> refs[x]] /\ UNCHANGED roots

Next ==
  \/ \E o \in Objects, to \in SUBSET Objects : Create(o, to) \/ Assign(o, to)
  \/ \E R \in SUBSET Objects : Name(R)
  \/ \E o \in Objects : Reclaim(o)

Spec == Init /\ [][Next]_<<live, refs, roots>>
=============================================================================
