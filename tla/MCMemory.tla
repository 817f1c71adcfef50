------------------------------ MODULE MCMemory ------------------------------
(***************************************************************************)
(* Memory for TLC.  Addresses are interchangeable: malloc and the slab     *)
(* caches may return any of them, and no operator of Memory depends on     *)
(* which one CHOOSE picks.                                                 *)
(***************************************************************************)
EXTENDS Memory, TLC

(* Programs by what they use together.  Each kind is small, and explored   *)
(* to the end.                                                             *)
Kind(uses, no, ns, nf, nr, nc) ==
  [uses |-> uses, objs |-> no, scopes |-> ns, frames |-> nf, refs |-> nr, counts |-> nc]

Closures == Kind({"pair", "procedure", "bounce", "define", "operands", "let", "parameterize"}, 2, 4, 4, 1, 0)
Handlers == Kind({"procedure", "bounce", "define", "handler", "raise"}, 2, 5, 6, 0, 0)
Escapes  == Kind({"procedure", "bounce", "operands", "call/ec"}, 3, 4, 5, 0, 6)
Macros   == Kind({"procedure", "macro", "define"}, 2, 4, 4, 0, 3)

MCProgram == {Closures, Handlers, Escapes, Macros}

Symmetry ==
  Permutations(Obj) \cup Permutations(Scope \ {GlobalLex, GlobalDyn})
=============================================================================
