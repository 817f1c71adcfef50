-------------------------- MODULE ExceptionsProofs --------------------------
(***************************************************************************)
(* Proofs about the exception handlers, for every depth of the C stack and *)
(* every set of programs.  A handler is found along a chain of scopes, a   *)
(* recursive function, which has to be shown to exist before anything can  *)
(* be said of its values (ChainFunction).  What the properties need        *)
(* besides is where frames evaluate, what scopes bind, and what a frame of *)
(* raise-continuable will restore: IInv.                                   *)
(***************************************************************************)
EXTENDS Exceptions, SequenceTheorems, WellFoundedInduction, TLAPS

(* A lookup along a chain: what x binds in b, or else what g finds from    *)
(* the next of x.                                                          *)
Chain(b, next, g, x) ==
  IF x = None THEN None ELSE IF b[x] # None THEN b[x] ELSE g[next[x]]

(* NextScope, on the stack fs; and g looks up what the scopes 1 .. n of    *)
(* that stack bind, if it is b.                                            *)
Extends(fs, x) == IF x = 1 THEN None ELSE fs[x - 1].dyn
LooksUp(g, b, fs, n) ==
  \A x \in 0 .. n : g[x] = IF x = None THEN None
                           ELSE IF b[x] # None THEN b[x] ELSE g[Extends(fs, x)]

ScopeKinds == {"thunk", "parameterize"}
IsScope(d) == d = 1 \/ frames[d].kind \in ScopeKinds

(* The handler h of the scope d is that of a with-exception-handler which  *)
(* has not returned.                                                       *)
InForce(h, d) == h \in 2 .. d /\ frames[h].kind = "thunk"

Continuable(j) == frames[j].kind = "raise-continuable"

(* What raise-continuable will restore: a handler in force, after which    *)
(* the functions below see what they saw.                                  *)
Resumes(j) ==
  /\ InForce(frames[j].h, frames[j].dyn)
  /\ \E g : /\ LooksUp(g, ScopeSet(bound, frames[j].dyn, frames[j].h), frames, j - 1)
            /\ \A i \in 1 .. j - 1 : frames[j].saw[i] = g[frames[i].dyn]

(* Whatever runs above a raise-continuable evaluates in its scope or in    *)
(* one that is newer.                                                      *)
Above(j, k) ==
  Continuable(j) => frames[k].dyn = frames[j].dyn \/ frames[k].dyn > j

FrameInv(k) ==
  /\ IsScope(frames[k].dyn)
  /\ Continuable(k) => Resumes(k)
  /\ \A j \in 1 .. k - 1 : Above(j, k)

BoundInv(d) ==
  bound[d] # None => d <= Depth /\ IsScope(d) /\ InForce(bound[d], d)

IInv ==
  /\ TypeOK
  /\ frames[1].kind = "main"
  /\ \A k \in 1 .. Depth : FrameInv(k)
  /\ bound[1] = IF Repl THEN 1 ELSE None
  /\ \A d \in 2 .. MaxDepth : BoundInv(d)
  /\ Repl => ~died

-----------------------------------------------------------------------------
(* Induction without an operator parameter: a set of numbers has a least   *)
(* element.                                                                *)
LEMMA LeastNatural ==
  ASSUME NEW T \in SUBSET Nat, T # {}
  PROVE  \E n \in T : \A m \in T : n <= m
<1> DEFINE R == OpToRel(<, Nat)
<1>1. \A m, n \in Nat : m < n => <<m, n>> \in R
  BY DEF OpToRel
<1>2. IsWellFoundedOn(R, Nat)
  BY NatLessThanWellFounded
<1> HIDE DEF R
<1>3. PICK n \in T : \A m \in T : <<m, n>> \notin R
  BY <1>2, WFMin
<1>4. \A m \in T : ~(m < n)
  BY <1>1, <1>3
<1>5. \A m \in T : n <= m
  BY <1>4
<1>6. QED
  BY <1>5

(* The lookup along a chain of scopes, each with a smaller number than the *)
(* one that extends it, exists: there is no least number of scopes for     *)
(* which it does not.                                                      *)
LEMMA ChainFunction ==
  ASSUME NEW n \in Nat, NEW b, NEW next, \A x \in 1 .. n : next[x] \in 0 .. x - 1
  PROVE  \E g : g = [x \in 0 .. n |-> Chain(b, next, g, x)]
<1> DEFINE Is(g, k) == g = [x \in 0 .. k |-> Chain(b, next, g, x)]
           Lacks(k) == \A g : ~Is(g, k)
           T == {k \in 0 .. n : Lacks(k)}
<1>1. SUFFICES ASSUME T # {} PROVE FALSE
  OBVIOUS
<1>2. PICK k \in T : \A m \in T : k <= m
  <2>1. T \in SUBSET Nat
    OBVIOUS
  <2> HIDE DEF T
  <2>2. QED
    BY <1>1, <2>1, LeastNatural
<1>3. k \in 0 .. n /\ Lacks(k)
  OBVIOUS
<1>4. CASE k = 0
  <2>1. Is([x \in 0 .. 0 |-> None], 0)
    BY DEF Chain, None
  <2>2. QED
    BY <2>1, <1>3, <1>4
<1>5. CASE k > 0
  <2>1. k - 1 \in 0 .. n /\ k - 1 \notin T
    <3> HIDE DEF T
    <3>1. QED
      BY <1>2, <1>3, <1>5
  <2>2. PICK g : Is(g, k - 1)
    BY <2>1
  <2> DEFINE h == [x \in 0 .. k |-> IF x = k THEN Chain(b, next, g, k) ELSE g[x]]
  <2>3. ASSUME NEW x \in 0 .. k PROVE h[x] = Chain(b, next, h, x)
    <3>1. k \in 1 .. n /\ next[k] \in 0 .. k - 1
      BY <1>3, <1>5
    <3>2. CASE x = k
      <4>1. h[x] = Chain(b, next, g, k) /\ h[next[k]] = g[next[k]]
        BY <3>1, <3>2
      <4> HIDE DEF h
      <4>2. QED
        BY <3>1, <3>2, <4>1 DEF Chain
    <3>3. CASE x # k
      <4>1. x \in 0 .. k - 1 /\ (x # None => next[x] \in 0 .. k - 1 /\ next[x] # k)
        BY <1>3, <3>1, <3>3 DEF None
      <4>2. h[x] = g[x] /\ (x # None => h[next[x]] = g[next[x]])
        BY <4>1
      <4>3. g[x] = Chain(b, next, g, x)
        BY <4>1, <2>2
      <4> HIDE DEF h
      <4>4. QED
        BY <4>1, <4>2, <4>3 DEF Chain
    <3>4. QED
      BY <3>2, <3>3
  <2>4. Is(h, k)
    BY <2>3
  <2>5. QED
    BY <2>4, <1>3
<1>6. QED
  BY <1>3, <1>4, <1>5

(* The scopes of the frames are such a chain. *)
LEMMA ScopeChain ==
  ASSUME TypeOK, NEW x \in 1 .. Depth
  PROVE  NextScope(x) \in 0 .. x - 1
<1>1. CASE x = 1
  BY <1>1 DEF NextScope, None
<1>2. CASE x # 1
  <2>1. x - 1 \in 1 .. Depth
    BY <1>2 DEF TypeOK
  <2>2. frames[x - 1] \in FrameType /\ frames[x - 1].dyn <= x - 1
    BY <2>1, ElementOfSeq DEF TypeOK, Depth
  <2>3. frames[x - 1].dyn \in 1 .. MaxDepth
    BY <2>2 DEF FrameType
  <2>4. QED
    BY <1>2, <2>2, <2>3, ExceptionsAssumption DEF NextScope
<1>3. QED
  BY <1>1, <1>2

(* navi_env_lookup is what its definition says. *)
LEMMA HandlersLookUp ==
  ASSUME TypeOK
  PROVE  LooksUp(Handlers, bound, frames, Depth)
<1> DEFINE next == [x \in 1 .. Depth |-> NextScope(x)]
<1>1. Depth \in Nat
  BY DEF TypeOK
<1>2. \A x \in 1 .. Depth : next[x] \in 0 .. x - 1 /\ next[x] = NextScope(x)
  BY ScopeChain
<1> HIDE DEF next
<1>3. PICK f : f = [x \in 0 .. Depth |-> Chain(bound, next, f, x)]
  BY <1>1, <1>2, ChainFunction
<1> DEFINE Eq(g) == g = [x \in 0 .. Depth |->
             IF x = None THEN None ELSE IF bound[x] # None THEN bound[x] ELSE g[NextScope(x)]]
<1>4. \A x \in 0 .. Depth :
        Chain(bound, next, f, x)
          = IF x = None THEN None ELSE IF bound[x] # None THEN bound[x] ELSE f[NextScope(x)]
  BY <1>1, <1>2 DEF Chain, None
<1>5. Eq(f)
  BY <1>3, <1>4
<1>6. Handlers = CHOOSE g : Eq(g)
  BY DEF Handlers
<1> HIDE DEF Eq
<1>7. Eq(Handlers)
  BY <1>5, <1>6
<1>8. QED
  BY <1>7 DEF Eq, LooksUp, NextScope, Extends

(* What a lookup finds is in force, and at the prompt it finds something:  *)
(* a scope binds it, or the scope it extends does.                         *)
LEMMA LookupInForce ==
  ASSUME IInv, NEW d \in 1 .. Depth
  PROVE  \/ Lookup(d) = None /\ ~Repl
         \/ Lookup(d) = 1 /\ Repl
         \/ InForce(Lookup(d), d)
<1> DEFINE Good(x) == \/ Handlers[x] = None /\ ~Repl
                      \/ Handlers[x] = 1 /\ Repl
                      \/ InForce(Handlers[x], x)
           T == {x \in 1 .. Depth : ~Good(x)}
<1>1. SUFFICES ASSUME T # {} PROVE FALSE
  BY DEF Lookup
<1>2. PICK k \in T : \A x \in T : k <= x
  <2>1. T \in SUBSET Nat
    OBVIOUS
  <2> HIDE DEF T
  <2>2. QED
    BY <1>1, <2>1, LeastNatural
<1>3. k \in 1 .. Depth /\ ~Good(k) /\ Depth \in 1 .. MaxDepth
  BY DEF IInv, TypeOK
<1>4. Handlers[k] = IF bound[k] # None THEN bound[k] ELSE Handlers[NextScope(k)]
  BY <1>3, HandlersLookUp DEF LooksUp, IInv, None, NextScope, Extends
<1>5. CASE k = 1
  <2>1. LooksUp(Handlers, bound, frames, Depth) /\ NextScope(1) = None
    BY HandlersLookUp DEF IInv, NextScope
  <2>2. Handlers[None] = None
    BY <1>3, <2>1 DEF LooksUp, None
  <2>3. bound[1] = IF Repl THEN 1 ELSE None
    BY DEF IInv
  <2>4. QED
    BY <1>3, <1>4, <1>5, <2>1, <2>2, <2>3 DEF None
<1>6. CASE k # 1 /\ bound[k] # None
  <2>1. k \in 2 .. MaxDepth
    BY <1>3, <1>6, ExceptionsAssumption
  <2>2. InForce(bound[k], k)
    BY <1>6, <2>1 DEF IInv, BoundInv
  <2>3. QED
    BY <1>3, <1>4, <1>6, <2>2
<1>7. CASE k # 1 /\ bound[k] = None
  <2>1. NextScope(k) \in 1 .. k - 1
    <3>1. k - 1 \in 1 .. Depth
      BY <1>3, <1>7
    <3>2. frames[k - 1] \in FrameType
      BY <3>1, ElementOfSeq DEF IInv, TypeOK, Depth
    <3>3. NextScope(k) = frames[k - 1].dyn /\ frames[k - 1].dyn \in 1 .. MaxDepth
      BY <1>7, <3>2 DEF NextScope, FrameType
    <3>4. NextScope(k) \in 0 .. k - 1
      BY <1>3, ScopeChain DEF IInv
    <3>5. QED
      BY <1>3, <3>3, <3>4, ExceptionsAssumption
  <2> DEFINE n == NextScope(k)
  <2>2. n \in 1 .. Depth /\ n < k /\ n \notin T
    <3>1. n \in 1 .. Depth /\ n < k
      BY <1>3, <2>1
    <3>2. \A x \in T : x \in Nat
      OBVIOUS
    <3> HIDE DEF T, n
    <3>3. QED
      BY <1>2, <1>3, <3>1, <3>2
  <2>3. Good(n)
    BY <2>2
  <2>4. Handlers[k] = Handlers[n]
    BY <1>4, <1>7
  <2> HIDE DEF n
  <2>5. InForce(Handlers[n], n) => InForce(Handlers[n], k)
    BY <1>3, <2>2 DEF InForce
  <2>6. QED
    BY <1>3, <2>3, <2>4, <2>5
<1>8. QED
  BY <1>3, <1>5, <1>6, <1>7

(* There is one way to look up, also between two states that have the same *)
(* frames and scopes up to n.                                              *)
LEMMA OneLookup ==
  ASSUME NEW n \in Nat, NEW g1, NEW g2, NEW b1, NEW b2, NEW fs1, NEW fs2,
         LooksUp(g1, b1, fs1, n), LooksUp(g2, b2, fs2, n),
         \A x \in 1 .. n : /\ b1[x] = b2[x] /\ Extends(fs1, x) = Extends(fs2, x)
                           /\ Extends(fs1, x) \in 0 .. x - 1
  PROVE  \A x \in 0 .. n : g1[x] = g2[x]
<1> DEFINE T == {x \in 0 .. n : g1[x] # g2[x]}
<1>1. SUFFICES ASSUME T # {} PROVE FALSE
  OBVIOUS
<1>2. PICK k \in T : \A x \in T : k <= x
  <2>1. T \in SUBSET Nat
    OBVIOUS
  <2> HIDE DEF T
  <2>2. QED
    BY <1>1, <2>1, LeastNatural
<1>3. k \in 0 .. n /\ g1[k] # g2[k]
  OBVIOUS
<1>4. k # 0 /\ b1[k] = None
  BY <1>3 DEF LooksUp, None
<1>5. /\ Extends(fs1, k) \in 0 .. k - 1 /\ Extends(fs2, k) = Extends(fs1, k)
      /\ b2[k] = None
  BY <1>3, <1>4
<1> DEFINE m == Extends(fs1, k)
<1>6. m \in 0 .. n /\ m < k
  BY <1>3, <1>5
<1>7. m \notin T
  <2>1. \A x \in T : x \in Nat
    OBVIOUS
  <2> HIDE DEF T, m
  <2>2. QED
    BY <1>2, <1>3, <1>6, <2>1
<1>8. g1[m] = g2[m]
  BY <1>6, <1>7
<1>9. g1[k] = g1[m] /\ g2[k] = g2[m]
  BY <1>3, <1>4, <1>5 DEF LooksUp, None
<1>10. QED
  BY <1>3, <1>8, <1>9

-----------------------------------------------------------------------------
(* What a call of one function leaves alone: the first m frames stay, and  *)
(* of their scopes only e may bind something else.                         *)

(* The types that the facts below start from. *)
LEMMA Typed ==
  ASSUME TypeOK
  PROVE  /\ Depth \in 1 .. MaxDepth /\ MaxDepth \in Nat
         /\ \A i \in 1 .. Depth :
              /\ frames[i] \in FrameType
              /\ frames[i].kind \in Kinds
              /\ frames[i].dyn \in 1 .. i
              /\ frames[i].h \in 0 .. MaxDepth
<1>1. Depth \in 1 .. MaxDepth /\ MaxDepth \in Nat
  BY ExceptionsAssumption DEF TypeOK
<1>2. ASSUME NEW i \in 1 .. Depth
      PROVE  /\ frames[i] \in FrameType
             /\ frames[i].kind \in Kinds
             /\ frames[i].dyn \in 1 .. i
             /\ frames[i].h \in 0 .. MaxDepth
  <2>1. frames[i] \in FrameType /\ frames[i].dyn <= i
    BY ElementOfSeq DEF TypeOK, Depth
  <2>2. QED
    BY <1>1, <2>1 DEF FrameType
<1>3. QED
  BY <1>1, <1>2

(* A raise-continuable among the first m frames resumes as before: the     *)
(* scope e is its own, which it sets, or a newer one.                      *)
LEMMA ResumesStays ==
  ASSUME IInv, NEW m \in 1 .. Depth, NEW e,
         \A i \in 1 .. m : frames'[i] = frames[i],
         \A x \in 1 .. m : x # e => bound'[x] = bound[x],
         bound \in [1 .. MaxDepth -> 0 .. MaxDepth], bound' \in [1 .. MaxDepth -> 0 .. MaxDepth],
         NEW j \in 1 .. m, Continuable(j), e = frames[j].dyn \/ e \notin 1 .. j - 1
  PROVE  Resumes(j)'
<1>1. /\ Depth \in 1 .. MaxDepth /\ MaxDepth \in Nat
      /\ j \in 1 .. Depth /\ frames[j].dyn \in 1 .. j
      /\ \A i \in 1 .. j : frames'[i] = frames[i]
  BY Typed DEF IInv
<1>2. Resumes(j)
  BY <1>1 DEF IInv, FrameInv
<1>3. InForce(frames[j].h, frames[j].dyn)'
  <2>1. frames[j].h \in 2 .. frames[j].dyn /\ frames[frames[j].h].kind = "thunk"
    BY <1>2 DEF Resumes, InForce
  <2>2. frames[j].h \in 1 .. j /\ j \in 1 .. j
    <3>1. j \in Nat /\ j >= 1 /\ frames[j].dyn \in 1 .. j
      BY <1>1
    <3>2. QED
      BY <2>1, <3>1
  <2>3. frames'[j] = frames[j] /\ frames'[frames[j].h] = frames[frames[j].h]
    BY <1>1, <2>2
  <2>4. QED
    BY <2>1, <2>3 DEF InForce
<1> DEFINE d == frames[j].dyn
           h == frames[j].h
<1>4. PICK g : /\ LooksUp(g, ScopeSet(bound, d, h), frames, j - 1)
               /\ \A i \in 1 .. j - 1 : frames[j].saw[i] = g[frames[i].dyn]
  BY <1>2 DEF Resumes
<1>5. \A x \in 1 .. j - 1 : ScopeSet(bound, d, h)[x] = ScopeSet(bound', d, h)[x]
  <2>1. SUFFICES ASSUME NEW x \in 1 .. j - 1
                 PROVE  ScopeSet(bound, d, h)[x] = ScopeSet(bound', d, h)[x]
    OBVIOUS
  <2>2. x \in 1 .. m /\ x \in 1 .. MaxDepth
    BY <1>1
  <2>3. CASE x = d
    BY <2>2, <2>3 DEF ScopeSet
  <2>4. CASE x # d
    <3>1. bound'[x] = bound[x]
      BY <2>1, <2>2, <2>4
    <3>2. QED
      BY <2>2, <2>4, <3>1 DEF ScopeSet
  <2>5. QED
    BY <2>3, <2>4
<1>6. \A x \in 1 .. j - 1 : Extends(frames', x) = Extends(frames, x)
  <2>1. \A x \in 1 .. j - 1 : x # 1 => x - 1 \in 1 .. j
    BY <1>1
  <2>2. QED
    BY <1>1, <2>1 DEF Extends
<1>7. LooksUp(g, ScopeSet(bound', frames'[j].dyn, frames'[j].h), frames', j - 1)
  <2>1. \A x \in 0 .. j - 1 : x = None \/ x \in 1 .. j - 1
    BY <1>1 DEF None
  <2> DEFINE b == ScopeSet(bound, d, h)
             c == ScopeSet(bound', d, h)
  <2>2. \A x \in 0 .. j - 1 : g[x] = IF x = None THEN None
                                     ELSE IF b[x] # None THEN b[x] ELSE g[Extends(frames, x)]
    BY <1>4 DEF LooksUp
  <2>3. \A x \in 1 .. j - 1 : b[x] = c[x]
    BY <1>5
  <2> HIDE DEF b, c
  <2>4. \A x \in 0 .. j - 1 : g[x] = IF x = None THEN None
                                     ELSE IF c[x] # None THEN c[x] ELSE g[Extends(frames', x)]
    BY <1>6, <2>1, <2>2, <2>3
  <2>5. c = ScopeSet(bound', frames'[j].dyn, frames'[j].h)
    BY <1>1 DEF c
  <2>6. QED
    BY <2>4, <2>5 DEF LooksUp
<1>8. \A i \in 1 .. j - 1 : frames'[j].saw[i] = g[frames'[i].dyn]
  <2>1. j \in 1 .. j /\ \A i \in 1 .. j - 1 : i \in 1 .. j
    BY <1>1
  <2>2. frames'[j] = frames[j] /\ \A i \in 1 .. j - 1 : frames'[i] = frames[i]
    BY <1>1, <2>1
  <2>3. QED
    BY <1>4, <2>2
<1>9. QED
  BY <1>1, <1>3, <1>7, <1>8 DEF Resumes

(* Then the invariant holds of the new state, if it holds of the frames    *)
(* above m and of what the scope e binds.                                  *)
LEMMA Preserved ==
  ASSUME IInv, NEW m \in 1 .. Depth, NEW e \in Nat, e >= 2,
         program' = program, died' = died, Depth' \in m .. MaxDepth,
         frames' \in Seq(FrameType), bound' \in [1 .. MaxDepth -> 0 .. MaxDepth],
         \A i \in 1 .. m : frames'[i] = frames[i],
         \A x \in 1 .. m : x # e => bound'[x] = bound[x],
         e \in 1 .. m => bound'[e] = None \/ (IsScope(e) /\ InForce(bound'[e], e)),
         \A j \in 1 .. m : Continuable(j) => e = frames[j].dyn \/ e >= j,
         \A x \in m + 1 .. MaxDepth :
           bound'[x] # None => x <= Depth' /\ frames'[x].kind = "thunk" /\ bound'[x] = x,
         \A k \in m + 1 .. Depth' : frames'[k].dyn <= k /\ FrameInv(k)'
  PROVE  IInv'
<1>1. /\ Depth \in 1 .. MaxDepth /\ MaxDepth \in Nat /\ m \in Nat /\ m >= 1 /\ Depth' \in Nat
      /\ \A i \in 1 .. Depth : frames[i].dyn \in 1 .. i
  BY Typed DEF IInv
<1>2. TypeOK'
  <2>1. \A i \in 1 .. Depth' : frames'[i].dyn <= i
    <3>1. SUFFICES ASSUME NEW i \in 1 .. Depth' PROVE frames'[i].dyn <= i
      OBVIOUS
    <3>2. CASE i <= m
      <4>1. i \in 1 .. m /\ i \in 1 .. Depth
        BY <1>1, <3>2
      <4>2. QED
        BY <1>1, <4>1
    <3>3. CASE i > m
      <4>1. i \in m + 1 .. Depth'
        BY <1>1, <3>3
      <4>2. QED
        BY <4>1
    <3>4. QED
      BY <1>1, <3>2, <3>3
  <2>2. Depth' \in 1 .. MaxDepth
    BY <1>1
  <2>3. QED
    BY <2>1, <2>2 DEF IInv, TypeOK
<1>3. frames'[1].kind = "main"
  BY <1>1 DEF IInv
<1>4. ASSUME NEW k \in 1 .. Depth' PROVE FrameInv(k)'
  <2>1. CASE k > m
    <3>1. k \in m + 1 .. Depth'
      BY <1>1, <2>1
    <3>2. QED
      BY <3>1
  <2>2. CASE k <= m
    <3>1. k \in 1 .. m /\ k \in 1 .. Depth /\ frames'[k] = frames[k]
      BY <1>1, <2>2
    <3>2. FrameInv(k)
      BY <3>1 DEF IInv
    <3>3. IsScope(frames[k].dyn)'
      <4>1. frames[k].dyn \in 1 .. m
        <5>1. frames[k].dyn \in 1 .. k
          BY <1>1, <3>1
        <5>2. QED
          BY <1>1, <3>1, <5>1
      <4>2. frames'[frames[k].dyn] = frames[frames[k].dyn]
        BY <4>1
      <4>3. QED
        BY <3>1, <3>2, <4>2 DEF FrameInv, IsScope
    <3>4. Continuable(k)' => Resumes(k)'
      <4>1. SUFFICES ASSUME Continuable(k) PROVE Resumes(k)'
        BY <3>1 DEF Continuable
      <4>2. e = frames[k].dyn \/ e \notin 1 .. k - 1
        BY <1>1, <3>1, <4>1
      <4>3. bound \in [1 .. MaxDepth -> 0 .. MaxDepth]
        BY DEF IInv, TypeOK
      <4>4. QED
        BY <3>1, <4>1, <4>2, <4>3, ResumesStays
    <3>5. ASSUME NEW j \in 1 .. k - 1 PROVE Above(j, k)'
      <4>1. j \in 1 .. m
        BY <1>1, <3>1
      <4>2. frames'[j] = frames[j] /\ Above(j, k)
        BY <3>2, <4>1 DEF FrameInv
      <4>3. QED
        BY <3>1, <4>2 DEF Above, Continuable
    <3>6. QED
      BY <3>3, <3>4, <3>5 DEF FrameInv
  <2>3. QED
    BY <1>1, <2>1, <2>2
<1>5. bound'[1] = IF Repl' THEN 1 ELSE None
  <2>1. 1 \in 1 .. m /\ 1 # e
    BY <1>1
  <2>2. bound'[1] = bound[1]
    BY <2>1
  <2>3. QED
    BY <2>2 DEF IInv, Repl
<1>6. ASSUME NEW d \in 2 .. MaxDepth PROVE BoundInv(d)'
  <2>1. SUFFICES ASSUME bound'[d] # None
                 PROVE  d <= Depth' /\ IsScope(d)' /\ InForce(bound[d], d)'
    BY DEF BoundInv
  <2>2. CASE d > m
    <3>1. d \in m + 1 .. MaxDepth
      BY <1>1, <2>2
    <3>2. d <= Depth' /\ frames'[d].kind = "thunk" /\ bound'[d] = d
      BY <2>1, <3>1
    <3>3. QED
      BY <1>1, <3>2 DEF IsScope, ScopeKinds, InForce
  <2>3. CASE d <= m
    <3>1. d \in 1 .. m /\ frames'[d] = frames[d]
      BY <1>1, <2>3
    <3>2. IsScope(d) /\ InForce(bound'[d], d)
      <4>1. CASE d = e
        BY <2>1, <3>1, <4>1
      <4>2. CASE d # e
        <5>1. bound'[d] = bound[d]
          BY <3>1, <4>2
        <5>2. QED
          BY <2>1, <5>1 DEF IInv, BoundInv
      <4>3. QED
        BY <4>1, <4>2
    <3>3. bound'[d] \in 1 .. m
      <4>1. bound'[d] \in 2 .. d
        BY <3>2 DEF InForce
      <4>2. QED
        BY <1>1, <3>1, <4>1
    <3>4. frames'[bound'[d]] = frames[bound'[d]]
      BY <3>3
    <3>5. d <= Depth'
      BY <1>1, <2>3
    <3>6. QED
      BY <3>1, <3>2, <3>4, <3>5 DEF IsScope, InForce
  <2>4. QED
    BY <1>1, <2>2, <2>3
<1>7. Repl' => ~died'
  BY DEF IInv, Repl
<1>8. QED
  BY <1>2, <1>3, <1>4, <1>5, <1>6, <1>7 DEF IInv

-----------------------------------------------------------------------------
(* The stack of frames: what a call adds, and what a return leaves.        *)
LEMMA PushedFrame ==
  ASSUME TypeOK, NEW fs \in Seq(FrameType), Len(fs) = Depth, NEW f \in FrameType
  PROVE  /\ Append(fs, f) \in Seq(FrameType)
         /\ Len(Append(fs, f)) = Depth + 1
         /\ \A i \in 1 .. Depth : Append(fs, f)[i] = fs[i]
         /\ Append(fs, f)[Depth + 1] = f
  BY AppendProperties DEF TypeOK

(* The frames that a return leaves *)
LEMMA PoppedFrames ==
  ASSUME TypeOK, NEW n \in 1 .. Depth
  PROVE  /\ SubSeq(frames, 1, n) \in Seq(FrameType)
         /\ Len(SubSeq(frames, 1, n)) = n
         /\ \A i \in 1 .. n : SubSeq(frames, 1, n)[i] = frames[i]
<1>1. /\ frames \in Seq(FrameType)
      /\ \A i \in 1 .. n : i \in 1 .. Len(frames)
  BY DEF TypeOK, Depth
<1>2. n \in Nat /\ n >= 1 /\ n - 1 + 1 = n /\ \A i \in 1 .. n : 1 + i - 1 = i
  BY DEF TypeOK
<1>3. QED
  BY <1>1, <1>2, SubSeqProperties

(* A new frame takes its place, whose scope is its own or that of the      *)
(* frame below it.                                                         *)
LEMMA Pushed ==
  ASSUME IInv, NEW kind \in Kinds \ {"raise-continuable"}, NEW dyn, Depth < MaxDepth,
         \/ dyn = Depth + 1 /\ kind \in ScopeKinds
         \/ dyn = frames[Depth].dyn /\ ~Continuable(Depth),
         frames' = Append(frames, Frame(kind, dyn, None)),
         \/ bound' = bound
         \/ kind = "thunk" /\ bound' = ScopeSet(bound, Depth + 1, Depth + 1),
         program' = program, died' = died
  PROVE  IInv'
<1>1. /\ Depth \in 1 .. MaxDepth /\ MaxDepth \in Nat
      /\ \A i \in 1 .. Depth : frames[i].dyn \in 1 .. i
  BY Typed DEF IInv
<1> DEFINE f == Frame(kind, dyn, None)
<1>2. dyn \in 1 .. Depth + 1
  BY <1>1
<1>3. f \in FrameType /\ f.kind = kind /\ f.dyn = dyn
  <2>1. dyn \in 1 .. MaxDepth /\ None \in 0 .. MaxDepth
    BY <1>1, <1>2 DEF None
  <2>2. <<>> \in Seq(0 .. MaxDepth)
    OBVIOUS
  <2>3. QED
    BY <2>1, <2>2 DEF FrameType, Frame
<1> HIDE DEF f
<1>4. /\ frames' \in Seq(FrameType) /\ Depth' = Depth + 1
      /\ \A i \in 1 .. Depth : frames'[i] = frames[i]
      /\ frames'[Depth + 1] = f
  <2>1. frames \in Seq(FrameType) /\ Len(frames) = Depth
    BY DEF IInv, TypeOK, Depth
  <2>2. frames' = Append(frames, f)
    BY DEF f
  <2>3. QED
    BY <1>3, <2>1, <2>2, PushedFrame DEF IInv, Depth
<1>5. bound \in [1 .. MaxDepth -> 0 .. MaxDepth]
  BY DEF IInv, TypeOK
<1>6. bound' \in [1 .. MaxDepth -> 0 .. MaxDepth]
  <2>1. Depth + 1 \in 0 .. MaxDepth
    BY <1>1
  <2>2. QED
    BY <1>5, <2>1 DEF ScopeSet
<1>7. \A x \in 1 .. Depth : bound'[x] = bound[x]
  BY <1>1, <1>5 DEF ScopeSet
<1>8. \A x \in Depth + 1 .. MaxDepth :
        bound'[x] # None => x = Depth + 1 /\ kind = "thunk" /\ bound'[x] = x
  <2>1. SUFFICES ASSUME NEW x \in Depth + 1 .. MaxDepth, bound'[x] # None
                 PROVE  x = Depth + 1 /\ kind = "thunk" /\ bound'[x] = x
    OBVIOUS
  <2>2. x \in 2 .. MaxDepth /\ ~(x <= Depth) /\ x \in 1 .. MaxDepth
    BY <1>1
  <2>3. bound[x] = None
    BY <2>2 DEF IInv, BoundInv
  <2>4. QED
    BY <1>5, <2>1, <2>2, <2>3 DEF ScopeSet
<1>9. PICK n \in Nat : n = Depth + 1
  BY <1>1
<1>10. frames'[n] = f /\ f.kind = kind /\ f.dyn = dyn
  BY <1>3, <1>4, <1>9
<1>11. FrameInv(n)'
  <2>1. IsScope(frames[n].dyn)'
    <3>1. CASE dyn = n /\ kind \in ScopeKinds
      BY <1>10, <3>1 DEF IsScope
    <3>2. CASE dyn = frames[Depth].dyn
      <4>1. IsScope(dyn)
        BY <1>1, <3>2 DEF IInv, FrameInv
      <4>2. frames'[dyn] = frames[dyn]
        <5>1. dyn \in 1 .. Depth
          BY <1>1, <3>2
        <5>2. QED
          BY <1>4, <5>1
      <4>3. QED
        BY <1>10, <4>1, <4>2 DEF IsScope
    <3>3. QED
      BY <1>9, <3>1, <3>2
  <2>2. ~Continuable(n)'
    BY <1>10 DEF Continuable
  <2>3. ASSUME NEW j \in 1 .. n - 1 PROVE Above(j, n)'
    <3>1. j \in 1 .. Depth /\ j \in Nat /\ frames'[j] = frames[j]
      <4>1. n - 1 = Depth
        BY <1>1, <1>9
      <4>2. j \in 1 .. Depth
        BY <4>1
      <4>3. frames'[j] = frames[j]
        BY <1>4, <4>2
      <4>4. j \in Nat
        BY <4>2
      <4>5. QED
        BY <4>2, <4>3, <4>4
    <3>2. CASE dyn = Depth + 1
      BY <1>1, <1>10, <3>1, <3>2 DEF Above
    <3>3. CASE dyn = frames[Depth].dyn /\ ~Continuable(Depth)
      <4>1. Above(j, Depth)
        <5>1. CASE j = Depth
          BY <3>3, <5>1 DEF Above
        <5>2. CASE j # Depth
          <6>1. j \in 1 .. Depth - 1 /\ FrameInv(Depth)
            BY <1>1, <3>1, <5>2 DEF IInv
          <6>2. QED
            BY <6>1 DEF FrameInv
        <5>3. QED
          BY <5>1, <5>2
      <4>2. QED
        BY <1>10, <3>1, <3>3, <4>1 DEF Above, Continuable
    <3>4. QED
      BY <3>2, <3>3
  <2>4. QED
    BY <2>1, <2>2, <2>3 DEF FrameInv
<1>12. n >= 2 /\ n \notin 1 .. Depth /\ Depth' \in Depth .. MaxDepth /\ Depth \in 1 .. Depth
  BY <1>1, <1>4, <1>9
<1>13. \A j \in 1 .. Depth : n >= j
  BY <1>1, <1>9
<1>14. \A x \in Depth + 1 .. MaxDepth :
         bound'[x] # None => x <= Depth' /\ frames'[x].kind = "thunk" /\ bound'[x] = x
  <2>1. SUFFICES ASSUME NEW x \in Depth + 1 .. MaxDepth, bound'[x] # None
                 PROVE  x <= Depth' /\ frames'[x].kind = "thunk" /\ bound'[x] = x
    OBVIOUS
  <2>2. x = Depth + 1 /\ kind = "thunk" /\ bound'[x] = x
    BY <1>8, <2>1
  <2>3. x = n /\ x <= Depth'
    BY <1>1, <1>4, <1>9, <2>2
  <2>4. QED
    BY <1>10, <2>2, <2>3
<1>15. \A k \in Depth + 1 .. Depth' : frames'[k].dyn <= k /\ FrameInv(k)'
  <2>1. \A k \in Depth + 1 .. Depth' : k = n
    BY <1>1, <1>4, <1>9
  <2>2. frames'[n].dyn <= n
    BY <1>1, <1>2, <1>9, <1>10
  <2>3. QED
    BY <1>11, <2>1, <2>2
<1>16. QED
  BY <1>4, <1>6, <1>7, <1>12, <1>13, <1>14, <1>15, Preserved

(* Frames are taken off the stack, and their scopes with them.             *)
LEMMA Popped ==
  ASSUME IInv, NEW n \in 1 .. Depth, frames' = SubSeq(frames, 1, n),
         bound' \in [1 .. MaxDepth -> 0 .. MaxDepth],
         \A x \in 1 .. n : bound'[x] = bound[x],
         \A x \in n + 1 .. MaxDepth : bound'[x] = None,
         program' = program, died' = died
  PROVE  IInv'
<1>1. Depth \in 1 .. MaxDepth /\ MaxDepth \in Nat
  BY Typed DEF IInv
<1>2. /\ frames' \in Seq(FrameType) /\ Depth' = n
      /\ \A i \in 1 .. n : frames'[i] = frames[i]
  BY PoppedFrames DEF IInv, Depth
<1> DEFINE e == n + 1
<1>3. e \in Nat /\ e >= 2 /\ e \notin 1 .. n /\ Depth' \in n .. MaxDepth
  BY <1>1, <1>2
<1>4. \A j \in 1 .. n : e >= j
  BY <1>1
<1>5. n + 1 .. Depth' = {}
  BY <1>1, <1>2
<1> HIDE DEF e
<1>6. QED
  BY <1>2, <1>3, <1>4, <1>5, Preserved

-----------------------------------------------------------------------------
(* What calling a handler does.  The scope that is changed is that of the  *)
(* running code, which belongs to no waiting raise-continuable but to one  *)
(* that called that code.                                                  *)
LEMMA TopScope ==
  ASSUME IInv, ~Continuable(Depth), NEW j \in 1 .. Depth, Continuable(j)
  PROVE  j < Depth /\ (frames[Depth].dyn = frames[j].dyn \/ frames[Depth].dyn > j)
<1>1. Depth \in 1 .. MaxDepth /\ MaxDepth \in Nat /\ j # Depth
  BY Typed DEF IInv
<1>2. j \in 1 .. Depth - 1 /\ FrameInv(Depth)
  BY <1>1 DEF IInv
<1>3. Above(j, Depth)
  BY <1>2 DEF FrameInv
<1>4. QED
  BY <1>1, <1>2, <1>3 DEF Above

(* toplevel_exn: the prompt is left with the scope it had. *)
LEMMA TopLevelReturns ==
  ASSUME IInv, NEW d \in 1 .. Depth, Lookup(d) = 1,
         frames' = SubSeq(frames, 1, 1), bound' = TopLevel(ScopeUnset(d), d),
         program' = program, died' = died
  PROVE  IInv'
<1>1. Depth \in 1 .. MaxDepth /\ MaxDepth \in Nat /\ bound \in [1 .. MaxDepth -> 0 .. MaxDepth]
  BY Typed DEF IInv, TypeOK
<1>2. Repl
  BY LookupInForce DEF InForce, None
<1>3. bound[1] = 1
  BY <1>2 DEF IInv
<1> DEFINE b == ScopeSet(ScopeUnset(d), d, 1)
<1>4. b \in [1 .. MaxDepth -> 0 .. MaxDepth] /\ b[1] = 1
  <2>1. d \in 1 .. MaxDepth /\ 1 \in 1 .. MaxDepth /\ None \in 0 .. MaxDepth /\ 1 \in 0 .. MaxDepth
    BY <1>1 DEF None
  <2>2. ScopeUnset(d) \in [1 .. MaxDepth -> 0 .. MaxDepth] /\ (d # 1 => ScopeUnset(d)[1] = 1)
    BY <1>1, <1>3, <2>1 DEF ScopeUnset
  <2>3. QED
    BY <2>1, <2>2 DEF ScopeSet
<1>5. bound' = Kept(b, 1)
  BY DEF TopLevel
<1> HIDE DEF b
<1>6. /\ bound' \in [1 .. MaxDepth -> 0 .. MaxDepth]
      /\ \A x \in 1 .. 1 : bound'[x] = bound[x]
      /\ \A x \in 1 + 1 .. MaxDepth : bound'[x] = None
  BY <1>1, <1>3, <1>4, <1>5 DEF Kept, None
<1>7. 1 \in 1 .. Depth
  BY <1>1
<1>8. QED
  BY <1>6, <1>7, Popped

(* The scope d with its handler unset. *)
LEMMA Unset ==
  ASSUME IInv, NEW d \in 1 .. Depth
  PROVE  /\ ScopeUnset(d) \in [1 .. MaxDepth -> 0 .. MaxDepth]
         /\ ScopeUnset(d)[d] = None
         /\ \A x \in 1 .. MaxDepth : x # d => ScopeUnset(d)[x] = bound[x]
<1>1. Depth \in 1 .. MaxDepth /\ MaxDepth \in Nat /\ bound \in [1 .. MaxDepth -> 0 .. MaxDepth]
  BY Typed DEF IInv, TypeOK
<1>2. d \in 1 .. MaxDepth /\ None \in 0 .. MaxDepth
  BY <1>1 DEF None
<1>3. QED
  BY <1>1, <1>2 DEF ScopeUnset

(* The loop of navi_raise calls a handler of a with-exception-handler. *)
LEMMA RaiseCalls ==
  ASSUME IInv, frames[Depth].kind = "raise", Depth < MaxDepth,
         NEW d, d = frames[Depth].dyn, NEW h, h = Lookup(d), h # None, h # 1,
         frames' = Append([frames EXCEPT ![Depth].h = h], Frame("handler", d, h)),
         bound' = ScopeUnset(d), program' = program, died' = died
  PROVE  IInv'
<1>1. /\ Depth \in 1 .. MaxDepth /\ MaxDepth \in Nat
      /\ Depth > 1
      /\ \A i \in 1 .. Depth : frames[i] \in FrameType /\ frames[i].dyn \in 1 .. i
  <2>1. frames[1].kind = "main"
    BY DEF IInv
  <2>2. QED
    BY <2>1, Typed DEF IInv
<1>2. FrameInv(Depth) /\ ~Continuable(Depth) /\ d \in 1 .. Depth
  BY <1>1 DEF IInv, Continuable
<1>3. InForce(h, d)
  BY <1>2, LookupInForce
<1>4. d \in 2 .. Depth /\ h \in 2 .. d
  <2>1. h \in 2 .. d
    BY <1>3 DEF InForce
  <2>2. QED
    BY <1>1, <1>2, <2>1
<1>5. IsScope(d)
  BY <1>2 DEF FrameInv
<1>6. d \in 2 .. Depth - 1
  <2>1. d # Depth
    BY <1>1, <1>5 DEF IsScope, ScopeKinds
  <2>2. QED
    BY <1>1, <1>4, <2>1
<1> DEFINE r == [frames[Depth] EXCEPT !.h = h]
           fs == [frames EXCEPT ![Depth].h = h]
           f == Frame("handler", d, h)
<1>7. r \in FrameType /\ r.kind = "raise" /\ r.dyn = d
  <2>1. h \in 0 .. MaxDepth /\ frames[Depth] \in FrameType
    BY <1>1, <1>4
  <2>2. QED
    BY <2>1 DEF FrameType
<1>8. f \in FrameType /\ f.kind = "handler" /\ f.dyn = d
  <2>1. d \in 1 .. MaxDepth /\ h \in 0 .. MaxDepth /\ <<>> \in Seq(0 .. MaxDepth)
    BY <1>1, <1>4
  <2>2. QED
    BY <2>1 DEF FrameType, Frame, Kinds
<1>9. /\ fs \in Seq(FrameType) /\ Len(fs) = Depth /\ fs[Depth] = r
      /\ \A i \in 1 .. Depth - 1 : fs[i] = frames[i]
  <2>1. frames \in Seq(FrameType) /\ Depth \in 1 .. Len(frames)
    BY <1>1 DEF IInv, TypeOK, Depth
  <2>2. fs = [frames EXCEPT ![Depth] = r]
    OBVIOUS
  <2> HIDE DEF fs, r
  <2>3. fs \in Seq(FrameType) /\ Len(fs) = Len(frames) /\ \A i \in 1 .. Len(frames) :
          fs[i] = IF i = Depth THEN r ELSE frames[i]
    BY <1>7, <2>1, <2>2, ExceptSeq
  <2>4. QED
    BY <1>1, <2>3 DEF Depth
<1> HIDE DEF f, fs, r
<1>10. PICK n, t \in Nat : n = Depth /\ t = Depth + 1
  BY <1>1
<1>11. /\ frames' \in Seq(FrameType) /\ Depth' = t
       /\ \A i \in 1 .. n - 1 : frames'[i] = frames[i]
       /\ frames'[n] = r /\ frames'[t] = f
  <2>1. frames' = Append(fs, f)
    BY DEF fs, f
  <2>2. /\ Append(fs, f) \in Seq(FrameType) /\ Len(Append(fs, f)) = Depth + 1
        /\ \A i \in 1 .. Depth : Append(fs, f)[i] = fs[i]
        /\ Append(fs, f)[Depth + 1] = f
    BY <1>8, <1>9, PushedFrame DEF IInv
  <2>3. n \in 1 .. Depth /\ \A i \in 1 .. n - 1 : i \in 1 .. Depth /\ i \in 1 .. Depth - 1
    BY <1>1, <1>10
  <2>4. QED
    BY <1>9, <1>10, <2>1, <2>2, <2>3 DEF Depth
<1>12. bound' \in [1 .. MaxDepth -> 0 .. MaxDepth] /\ bound'[d] = None
       /\ \A x \in 1 .. MaxDepth : x # d => bound'[x] = bound[x]
  BY <1>2, Unset
<1>13. \A j \in 1 .. n - 1 : Continuable(j) => d = frames[j].dyn \/ d > j
  <2>1. \A j \in 1 .. n - 1 : j \in 1 .. Depth
    BY <1>1, <1>10
  <2>2. QED
    BY <1>2, <2>1, TopScope
<1>14. \A x \in n .. MaxDepth : bound'[x] = None
  <2>1. SUFFICES ASSUME NEW x \in n .. MaxDepth, x # d PROVE bound[x] = None
    BY <1>1, <1>10, <1>12
  <2>2. x \in 2 .. MaxDepth
    BY <1>1, <1>10
  <2>3. BoundInv(x)
    BY <2>2 DEF IInv
  <2>4. ~(x <= Depth) \/ ~IsScope(x)
    BY <1>1, <1>10 DEF IsScope, ScopeKinds
  <2>5. QED
    BY <2>3, <2>4 DEF BoundInv
<1>15. IsScope(d)'
  <2>1. d \in 1 .. n - 1
    BY <1>1, <1>6, <1>10
  <2>2. frames'[d] = frames[d]
    BY <1>11, <2>1
  <2>3. QED
    BY <1>5, <2>2 DEF IsScope
<1>16. ASSUME NEW k \in {n, t} PROVE FrameInv(k)' /\ frames'[k].dyn <= k
  <2>1. frames'[k].dyn = d /\ frames'[k].kind # "raise-continuable" /\ d <= k
    BY <1>1, <1>6, <1>7, <1>8, <1>10, <1>11
  <2>2. ASSUME NEW j \in 1 .. k - 1, Continuable(j)' PROVE d = frames'[j].dyn \/ d > j
    <3>1. CASE j \in 1 .. n - 1
      <4>1. frames'[j] = frames[j]
        BY <1>11, <3>1
      <4>2. QED
        BY <1>13, <2>2, <3>1, <4>1 DEF Continuable
    <3>2. CASE j \notin 1 .. n - 1
      <4>1. j = n
        BY <1>1, <1>10, <3>2
      <4>2. QED
        BY <1>7, <1>11, <2>2, <4>1 DEF Continuable
    <3>3. QED
      BY <3>1, <3>2
  <2>3. ASSUME NEW j \in 1 .. k - 1 PROVE Above(j, k)'
    BY <2>1, <2>2 DEF Above
  <2>4. QED
    BY <1>15, <2>1, <2>3 DEF FrameInv, Continuable
<1>17. PICK m \in Nat : m = n - 1
  BY <1>1, <1>10
<1>18. /\ m \in 1 .. Depth /\ d \in Nat /\ d >= 2 /\ Depth' \in m .. MaxDepth
       /\ \A x \in 1 .. m : x \in 1 .. MaxDepth
  BY <1>1, <1>6, <1>10, <1>11, <1>17
<1>19. \A i \in 1 .. m : frames'[i] = frames[i]
  BY <1>11, <1>17
<1>20. \A x \in 1 .. m : x # d => bound'[x] = bound[x]
  BY <1>12, <1>18
<1>21. \A j \in 1 .. m : Continuable(j) => d = frames[j].dyn \/ d >= j
  <2>1. \A j \in 1 .. m : d > j => d >= j
    BY <1>18
  <2>2. QED
    BY <1>13, <1>17, <2>1
<1>22. \A x \in m + 1 .. MaxDepth :
         bound'[x] # None => x <= Depth' /\ frames'[x].kind = "thunk" /\ bound'[x] = x
  <2>1. m + 1 = n
    BY <1>10, <1>17
  <2>2. QED
    BY <1>14, <2>1
<1>23. \A k \in m + 1 .. Depth' : frames'[k].dyn <= k /\ FrameInv(k)'
  <2>1. \A k \in m + 1 .. Depth' : k \in {n, t}
    BY <1>1, <1>10, <1>11, <1>17
  <2>2. QED
    BY <1>16, <2>1
<1>24. /\ frames' \in Seq(FrameType) /\ bound' \in [1 .. MaxDepth -> 0 .. MaxDepth]
       /\ d \in 1 .. m => bound'[d] = None \/ (IsScope(d) /\ InForce(bound'[d], d))
  BY <1>11, <1>12
<1>25. QED
  BY <1>18, <1>19, <1>20, <1>21, <1>22, <1>23, <1>24, Preserved

(* With the handler h back in the scope d, where it was found from, the    *)
(* lookup is what it was before it was unset.                              *)
LEMMA ContinuableResumes ==
  ASSUME IInv, NEW r, r = Depth + 1, Top.dyn \in 1 .. Depth, Handlers[Top.dyn] # None,
         bound' \in [1 .. MaxDepth -> 0 .. MaxDepth],
         \A x \in 1 .. MaxDepth : x # Top.dyn => bound'[x] = bound[x],
         \A i \in 1 .. Depth : frames'[i] = frames[i],
         \A i \in 1 .. Depth : Seen[i] = Handlers[frames[i].dyn],
         frames'[r].dyn = Top.dyn, frames'[r].h = Handlers[Top.dyn], frames'[r].saw = Seen,
         Handlers[Top.dyn] \in 2 .. Top.dyn, frames'[Handlers[Top.dyn]].kind = "thunk"
  PROVE  Resumes(r)'
<1> PICK n, d, h : n = Depth /\ d = Top.dyn /\ h = Handlers[Top.dyn]
  OBVIOUS
<1>1. Depth \in 1 .. MaxDepth /\ MaxDepth \in Nat /\ r - 1 = n
  BY Typed DEF IInv
<1>2. \A x \in 0 .. n : Handlers[x] = IF x = None THEN None
                               ELSE IF bound[x] # None THEN bound[x] ELSE Handlers[Extends(frames, x)]
  BY HandlersLookUp DEF LooksUp, IInv
<1> DEFINE b == ScopeSet(bound', d, h)
<1>3. b[d] = h /\ \A x \in 1 .. n : x # d => b[x] = bound[x]
  <2>1. d \in 1 .. MaxDepth /\ \A x \in 1 .. n : x \in 1 .. MaxDepth
    BY <1>1
  <2>2. QED
    BY <2>1 DEF ScopeSet
<1>4. \A x \in 1 .. n : Extends(frames', x) = Extends(frames, x)
  <2>1. \A x \in 1 .. n : x # 1 => x - 1 \in 1 .. n
    BY <1>1
  <2>2. QED
    BY <2>1 DEF Extends
<1> HIDE DEF b
<1>5. \A x \in 0 .. n : Handlers[x] = IF x = None THEN None
                               ELSE IF b[x] # None THEN b[x] ELSE Handlers[Extends(frames', x)]
  <2>1. SUFFICES ASSUME NEW x \in 0 .. n, x # None
                 PROVE  Handlers[x] = IF b[x] # None THEN b[x] ELSE Handlers[Extends(frames', x)]
    BY <1>2
  <2>2. x \in 1 .. n
    BY <2>1 DEF None
  <2>3. CASE x = d
    BY <1>3, <2>3
  <2>4. CASE x # d
    BY <1>2, <1>3, <1>4, <2>1, <2>2, <2>4
  <2>5. QED
    BY <2>3, <2>4
<1> PICK g : g = Handlers
  OBVIOUS
<1>6. LooksUp(g, b, frames', r - 1)
  BY <1>1, <1>5 DEF LooksUp
<1>7. \A i \in 1 .. r - 1 : frames'[r].saw[i] = g[frames'[i].dyn]
  BY <1>1
<1>8. b = ScopeSet(bound', frames'[r].dyn, frames'[r].h)
  BY DEF b
<1>9. InForce(frames[r].h, frames[r].dyn)'
  BY DEF InForce
<1>10. QED
  BY <1>6, <1>7, <1>8, <1>9 DEF Resumes

(* The stack with a frame of raise-continuable and one of its handler *)
LEMMA TwoFrames ==
  ASSUME TypeOK, NEW f \in FrameType, NEW c \in FrameType,
         frames' = Append(Append(frames, f), c)
  PROVE  /\ frames' \in Seq(FrameType) /\ Depth' = Depth + 2
         /\ \A i \in 1 .. Depth : frames'[i] = frames[i]
         /\ frames'[Depth + 1] = f /\ frames'[Depth + 2] = c
<1> DEFINE fs == Append(frames, f)
<1>1. frames \in Seq(FrameType) /\ Len(frames) = Depth /\ Depth \in Nat
  BY DEF TypeOK, Depth
<1>2. /\ fs \in Seq(FrameType) /\ Len(fs) = Depth + 1
      /\ \A i \in 1 .. Depth : fs[i] = frames[i]
      /\ fs[Depth + 1] = f
  BY <1>1, PushedFrame
<1> HIDE DEF fs
<1>3. /\ Append(fs, c) \in Seq(FrameType) /\ Len(Append(fs, c)) = Depth + 1 + 1
      /\ \A i \in 1 .. Depth + 1 : Append(fs, c)[i] = fs[i]
      /\ Append(fs, c)[Depth + 1 + 1] = c
  BY <1>2, AppendProperties
<1>4. frames' = Append(fs, c)
  BY DEF fs
<1>5. /\ Depth + 1 + 1 = Depth + 2 /\ Depth + 1 \in 1 .. Depth + 1
      /\ \A i \in 1 .. Depth : i \in 1 .. Depth + 1
  BY <1>1
<1>6. QED
  BY <1>2, <1>3, <1>4, <1>5 DEF Depth

(* raise-continuable calls a handler of a with-exception-handler.          *)
LEMMA ContinuableCalls ==
  ASSUME IInv, ~Continuable(Depth), Depth + 2 <= MaxDepth,
         Lookup(Top.dyn) # None, Lookup(Top.dyn) # 1,
         frames' \in Seq(FrameType), Depth' = Depth + 2,
         \A i \in 1 .. Depth : frames'[i] = frames[i],
         frames'[Depth + 1].kind = "raise-continuable", frames'[Depth + 1].dyn = Top.dyn,
         frames'[Depth + 1].h = Lookup(Top.dyn), frames'[Depth + 1].saw = Seen,
         frames'[Depth + 2].kind = "handler", frames'[Depth + 2].dyn = Top.dyn,
         bound' = ScopeUnset(Top.dyn), program' = program, died' = died
  PROVE  IInv'
<1> PICK d, h : d = Top.dyn /\ h = Lookup(Top.dyn)
  OBVIOUS
<1>1. /\ Depth \in 1 .. MaxDepth /\ MaxDepth \in Nat
      /\ \A i \in 1 .. Depth : frames[i] \in FrameType /\ frames[i].dyn \in 1 .. i
  BY Typed DEF IInv
<1>2. FrameInv(Depth) /\ d \in 1 .. Depth
  BY <1>1 DEF IInv, Top
<1>3. InForce(h, d) /\ IsScope(d)
  BY <1>2, LookupInForce DEF FrameInv, Top
<1>4. d \in 2 .. Depth /\ h \in 2 .. d
  <2>1. h \in 2 .. d
    BY <1>3 DEF InForce
  <2>2. QED
    BY <1>1, <1>2, <2>1
<1>5. PICK n, r, t : n = Depth /\ r = Depth + 1 /\ t = Depth + 2
  OBVIOUS
<1>6. n \in Nat /\ r \in Nat /\ t \in Nat /\ r = n + 1 /\ t = n + 2
  BY <1>1, <1>5
<1>7. frames'[r].kind = "raise-continuable" /\ frames'[r].dyn = d
  BY <1>5
<1>8. frames'[t].kind = "handler" /\ frames'[t].dyn = d
  BY <1>5
<1>9. Depth' = t /\ \A i \in 1 .. n : frames'[i] = frames[i]
  BY <1>5
<1>10. bound' \in [1 .. MaxDepth -> 0 .. MaxDepth] /\ bound' = ScopeUnset(d) /\ bound'[d] = None
       /\ \A x \in 1 .. MaxDepth : x # d => bound'[x] = bound[x]
  BY <1>2, Unset
<1>11. \A j \in 1 .. n : Continuable(j) => d = frames[j].dyn \/ d > j
  <2>1. \A j \in 1 .. n : j \in 1 .. Depth
    BY <1>1, <1>5
  <2>2. QED
    BY <1>5, <2>1, TopScope DEF Top
<1>12. IsScope(d)' /\ InForce(h, d)'
  <2>1. d \in 1 .. n /\ h \in 1 .. n
    BY <1>1, <1>4, <1>5
  <2>2. frames'[d] = frames[d] /\ frames'[h] = frames[h]
    BY <1>9, <2>1
  <2>3. QED
    BY <1>3, <2>2 DEF IsScope, InForce
<1>13. Resumes(r)'
  <2>1. \A i \in 1 .. Depth : Seen[i] = Handlers[frames[i].dyn]
    BY DEF Seen, Lookup
  <2>2. h \in 2 .. d /\ frames'[h].kind = "thunk"
    BY <1>12 DEF InForce
  <2>3. QED
    BY <1>2, <1>5, <1>10, <2>1, <2>2, ContinuableResumes DEF Lookup
<1>14. ASSUME NEW k \in {r, t} PROVE FrameInv(k)' /\ frames'[k].dyn <= k
  <2>1. frames'[k].dyn = d /\ d <= k
    <3>1. d <= r /\ d <= t
      BY <1>1, <1>4, <1>5
    <3>2. frames'[r].dyn = d /\ frames'[t].dyn = d
      BY <1>7, <1>8, <1>9
    <3>3. QED
      BY <3>1, <3>2
  <2>2. Continuable(k)' => Resumes(k)'
    BY <1>8, <1>9, <1>13 DEF Continuable
  <2>3. ASSUME NEW j \in 1 .. k - 1, Continuable(j)' PROVE d = frames'[j].dyn \/ d > j
    <3>1. CASE j \in 1 .. n
      <4>1. frames'[j] = frames[j]
        BY <1>9, <3>1
      <4>2. QED
        BY <1>11, <2>3, <3>1, <4>1 DEF Continuable
    <3>2. CASE j \notin 1 .. n
      <4>1. j = r
        BY <1>1, <1>5, <3>2
      <4>2. QED
        BY <1>7, <1>9, <4>1
    <3>3. QED
      BY <3>1, <3>2
  <2>4. ASSUME NEW j \in 1 .. k - 1 PROVE Above(j, k)'
    BY <2>1, <2>3 DEF Above
  <2>5. QED
    BY <1>12, <2>1, <2>2, <2>4 DEF FrameInv
<1>15. /\ n \in 1 .. Depth /\ d \in Nat /\ d >= 2 /\ Depth' \in n .. MaxDepth
       /\ \A x \in 1 .. n : x \in 1 .. MaxDepth
  BY <1>1, <1>4, <1>5, <1>9
<1>16. \A x \in 1 .. n : x # d => bound'[x] = bound[x]
  BY <1>10, <1>15
<1>17. \A j \in 1 .. n : Continuable(j) => d = frames[j].dyn \/ d >= j
  <2>1. \A j \in 1 .. n : d > j => d >= j
    BY <1>15
  <2>2. QED
    BY <1>11, <2>1
<1>18. \A x \in n + 1 .. MaxDepth : bound'[x] = None
  <2>1. SUFFICES ASSUME NEW x \in n + 1 .. MaxDepth PROVE bound'[x] = None
    OBVIOUS
  <2>2. x \in 2 .. MaxDepth /\ x \in 1 .. MaxDepth /\ x # d /\ ~(x <= Depth)
    BY <1>1, <1>4, <1>5
  <2>3. QED
    BY <1>10, <2>2 DEF IInv, BoundInv
<1>19. \A k \in n + 1 .. Depth' : frames'[k].dyn <= k /\ FrameInv(k)'
  <2>1. \A k \in n + 1 .. Depth' : k \in {r, t}
    BY <1>1, <1>5, <1>9
  <2>2. QED
    BY <1>14, <2>1
<1>20. QED
  BY <1>9, <1>10, <1>15, <1>16, <1>17, <1>18, <1>19, Preserved

(* The handler that raise-continuable called returns: with n frames left,  *)
(* its handler is bound in the scope e, whose owner is one of them.        *)
LEMMA Restores ==
  ASSUME IInv, Depth > 2, frames[Depth].kind = "handler", NEW n \in Nat, n = Depth - 2,
         NEW r \in Nat, r = Depth - 1, Continuable(r), NEW e, e = frames[r].dyn,
         bound' = Restored(frames[r])
  PROVE  /\ n >= 1 /\ r \in 1 .. Depth /\ e \in 2 .. n /\ frames[Depth].dyn = e /\ IsScope(e)
         /\ bound' \in [1 .. MaxDepth -> 0 .. MaxDepth]
         /\ \A x \in 1 .. n : x # e => bound'[x] = bound[x]
         /\ \A x \in n + 1 .. MaxDepth : bound'[x] = None
         /\ bound'[e] = frames[r].h /\ InForce(bound'[e], e)
         /\ \A j \in 1 .. n : Continuable(j) => e = frames[j].dyn \/ e > j
<1>1. /\ Depth \in 1 .. MaxDepth /\ MaxDepth \in Nat
      /\ bound \in [1 .. MaxDepth -> 0 .. MaxDepth]
      /\ \A i \in 1 .. Depth : frames[i] \in FrameType /\ frames[i].dyn \in 1 .. i
                               /\ frames[i].h \in 0 .. MaxDepth
  BY Typed DEF IInv, TypeOK
<1>2. n >= 1 /\ r \in 1 .. Depth /\ r = n + 1 /\ Depth = n + 2
  BY <1>1
<1>3. FrameInv(r) /\ FrameInv(Depth)
  BY <1>1, <1>2 DEF IInv
<1> DEFINE h == frames[r].h
<1>4. InForce(h, e) /\ IsScope(e) /\ h \in 2 .. e
  BY <1>3 DEF FrameInv, Resumes, InForce
<1>5. e \in 2 .. n
  <2>1. e \in 1 .. r
    BY <1>1, <1>2
  <2>2. e # r
    BY <1>4, <2>1, <1>2 DEF IsScope, ScopeKinds, Continuable
  <2> HIDE DEF h
  <2>3. QED
    BY <1>2, <1>4, <2>1, <2>2
<1>6. frames[Depth].dyn = e
  <2>1. r \in 1 .. Depth - 1
    BY <1>1, <1>2
  <2>2. Above(r, Depth)
    BY <1>3, <2>1 DEF FrameInv
  <2>3. frames[Depth].dyn = e \/ frames[Depth].dyn > r
    BY <2>2 DEF Above
  <2>4. frames[Depth].dyn # Depth
    BY <1>3 DEF FrameInv, IsScope, ScopeKinds
  <2>5. frames[Depth].dyn \in 1 .. Depth
    BY <1>1
  <2>6. QED
    BY <1>1, <1>2, <2>3, <2>4, <2>5
<1> DEFINE b == ScopeSet(bound, e, h)
<1>7. /\ b \in [1 .. MaxDepth -> 0 .. MaxDepth] /\ b[e] = h
      /\ \A x \in 1 .. MaxDepth : x # e => b[x] = bound[x]
  <2>1. e \in 1 .. MaxDepth /\ h \in 0 .. MaxDepth
    BY <1>1, <1>2, <1>5
  <2>2. QED
    BY <1>1, <2>1 DEF ScopeSet
<1>8. bound' = [x \in 1 .. MaxDepth |-> IF x <= n THEN b[x] ELSE None]
  BY DEF Restored, Kept
<1> HIDE DEF b
<1>9. /\ bound' \in [1 .. MaxDepth -> 0 .. MaxDepth]
      /\ \A x \in 1 .. n : bound'[x] = b[x]
      /\ \A x \in n + 1 .. MaxDepth : bound'[x] = None
  <2>1. /\ \A x \in 1 .. n : x \in 1 .. MaxDepth /\ x <= n
        /\ \A x \in n + 1 .. MaxDepth : x \in 1 .. MaxDepth /\ ~(x <= n)
        /\ None \in 0 .. MaxDepth
    BY <1>1, <1>2 DEF None
  <2>2. bound' \in [1 .. MaxDepth -> 0 .. MaxDepth]
    BY <1>7, <1>8, <2>1
  <2>3. QED
    BY <1>8, <2>1, <2>2
<1>10. bound'[e] = h /\ \A x \in 1 .. n : x # e => bound'[x] = bound[x]
  <2>1. e \in 1 .. n /\ \A x \in 1 .. n : x \in 1 .. MaxDepth
    BY <1>1, <1>2, <1>5
  <2>2. QED
    BY <1>7, <1>9, <2>1
<1>11. \A j \in 1 .. n : Continuable(j) => e = frames[j].dyn \/ e > j
  <2>1. \A j \in 1 .. n : j \in 1 .. r - 1
    BY <1>2
  <2>2. QED
    BY <1>3, <2>1 DEF FrameInv, Above
<1>12. QED
  BY <1>2, <1>4, <1>5, <1>6, <1>9, <1>10, <1>11

(* The stack after it: n frames, and perhaps the tail expression. *)
LEMMA DoneFrames ==
  ASSUME TypeOK, NEW n \in 1 .. Depth, NEW f \in FrameType,
         \/ frames' = SubSeq(frames, 1, n)
         \/ frames' = Append(SubSeq(frames, 1, n), f)
  PROVE  /\ frames' \in Seq(FrameType)
         /\ Depth' = n \/ (Depth' = n + 1 /\ frames'[n + 1] = f)
         /\ \A i \in 1 .. n : frames'[i] = frames[i]
<1> DEFINE fs == SubSeq(frames, 1, n)
<1>1. fs \in Seq(FrameType) /\ Len(fs) = n /\ \A i \in 1 .. n : fs[i] = frames[i]
  BY PoppedFrames
<1> HIDE DEF fs
<1>2. CASE frames' = fs
  BY <1>1, <1>2 DEF Depth
<1>3. CASE frames' = Append(fs, f)
  <2>1. /\ Append(fs, f) \in Seq(FrameType) /\ Len(Append(fs, f)) = n + 1
        /\ \A i \in 1 .. n : Append(fs, f)[i] = fs[i]
        /\ Append(fs, f)[n + 1] = f
    BY <1>1, AppendProperties
  <2>2. QED
    BY <1>1, <1>3, <2>1 DEF Depth
<1>4. QED
  BY <1>2, <1>3 DEF fs

(* So does the invariant hold after it, whether its tail expression is     *)
(* evaluated next or not.                                                  *)
LEMMA HandlerDone ==
  ASSUME IInv, Depth > 2, frames[Depth].kind = "handler", NEW n \in Nat, n = Depth - 2,
         NEW r \in Nat, r = Depth - 1, Continuable(r),
         bound' = Restored(frames[r]),
         \/ frames' = SubSeq(frames, 1, n)
         \/ frames' = Append(SubSeq(frames, 1, n), Frame("tail", frames[Depth].dyn, frames[Depth].h)),
         program' = program, died' = died
  PROVE  IInv'
<1> PICK e : e = frames[r].dyn
  OBVIOUS
<1>1. /\ Depth \in 1 .. MaxDepth /\ MaxDepth \in Nat
      /\ frames[Depth].h \in 0 .. MaxDepth
  BY Typed DEF IInv
<1>2. /\ n >= 1 /\ r \in 1 .. Depth /\ e \in 2 .. n /\ frames[Depth].dyn = e /\ IsScope(e)
      /\ bound' \in [1 .. MaxDepth -> 0 .. MaxDepth]
      /\ \A x \in 1 .. n : x # e => bound'[x] = bound[x]
      /\ \A x \in n + 1 .. MaxDepth : bound'[x] = None
      /\ bound'[e] = frames[r].h /\ InForce(bound'[e], e)
      /\ \A j \in 1 .. n : Continuable(j) => e = frames[j].dyn \/ e > j
  BY Restores
<1>3. /\ n \in 1 .. Depth /\ r = n + 1 /\ Depth = n + 2
      /\ e \in Nat /\ e >= 2 /\ e \in 1 .. n
  BY <1>1, <1>2
<1> DEFINE f == Frame("tail", frames[Depth].dyn, frames[Depth].h)
<1>4. f \in FrameType /\ f.kind = "tail" /\ f.dyn = e
  <2>1. e \in 1 .. MaxDepth /\ frames[Depth].h \in 0 .. MaxDepth /\ <<>> \in Seq(0 .. MaxDepth)
    BY <1>1, <1>3
  <2>2. QED
    BY <1>2, <2>1 DEF FrameType, Frame, Kinds
<1>5. \/ frames' = SubSeq(frames, 1, n)
      \/ frames' = Append(SubSeq(frames, 1, n), f)
  OBVIOUS
<1> HIDE DEF f
<1>6. /\ frames' \in Seq(FrameType)
      /\ Depth' = n \/ (Depth' = r /\ frames'[r] = f)
      /\ \A i \in 1 .. n : frames'[i] = frames[i]
  BY <1>3, <1>4, <1>5, DoneFrames DEF IInv
<1>7. ASSUME Depth' = r, frames'[r] = f PROVE FrameInv(r)' /\ frames'[r].dyn <= r
  <2>1. frames'[r].dyn = e /\ frames'[r].kind = "tail" /\ e <= r
    BY <1>3, <1>4, <1>7
  <2>2. IsScope(e)'
    <3>1. frames'[e] = frames[e]
      BY <1>3, <1>6
    <3>2. QED
      BY <1>2, <3>1 DEF IsScope
  <2>3. ASSUME NEW j \in 1 .. r - 1 PROVE Above(j, r)'
    <3>1. j \in 1 .. n
      BY <1>3
    <3>2. frames'[j] = frames[j]
      BY <1>6, <3>1
    <3>3. QED
      BY <1>2, <2>1, <3>1, <3>2 DEF Above, Continuable
  <2>4. QED
    BY <2>1, <2>2, <2>3 DEF FrameInv, Continuable
<1>8. Depth' \in n .. MaxDepth
  BY <1>1, <1>3, <1>6
<1>9. \A j \in 1 .. n : Continuable(j) => e = frames[j].dyn \/ e >= j
  <2>1. \A j \in 1 .. n : e > j => e >= j
    BY <1>3
  <2>2. QED
    BY <1>2, <2>1
<1>10. \A x \in n + 1 .. MaxDepth :
         bound'[x] # None => x <= Depth' /\ frames'[x].kind = "thunk" /\ bound'[x] = x
  BY <1>2
<1>11. \A k \in n + 1 .. Depth' : frames'[k].dyn <= k /\ FrameInv(k)'
  <2>1. SUFFICES ASSUME NEW k \in n + 1 .. Depth' PROVE frames'[k].dyn <= k /\ FrameInv(k)'
    OBVIOUS
  <2>2. Depth' = r /\ frames'[r] = f /\ k = r
    BY <1>3, <1>6
  <2>3. QED
    BY <1>7, <2>2
<1>12. QED
  BY <1>2, <1>3, <1>6, <1>8, <1>9, <1>10, <1>11, Preserved

-----------------------------------------------------------------------------
(* No frame and no scope changes. *)
LEMMA SameIInv ==
  ASSUME IInv, UNCHANGED <<program, frames, bound, died>>
  PROVE  IInv'
BY DEF IInv, TypeOK, FrameInv, BoundInv, Depth, IsScope, InForce, Continuable, Resumes, Above, Repl

(* navi_die, which cannot be reached from the prompt. *)
LEMMA DiedIInv ==
  ASSUME IInv, ~Repl, UNCHANGED <<program, frames, bound>>, died' = TRUE
  PROVE  IInv'
BY DEF IInv, TypeOK, FrameInv, BoundInv, Depth, IsScope, InForce, Continuable, Resumes, Above, Repl

(* The stack without the frame of the handler, in RaiseLoop, is as deep. *)
LEMMA RaisedFrames ==
  ASSUME NEW h
  PROVE  Len([frames EXCEPT ![Depth].h = h]) = Depth
  BY DEF Depth

(* The frame of raise-continuable *)
LEMMA SeenFrame ==
  ASSUME IInv, NEW d, d = frames[Depth].dyn, NEW h, h = Lookup(d),
         NEW f, f = [kind |-> "raise-continuable", dyn |-> d, h |-> h, saw |-> Seen]
  PROVE  /\ f \in FrameType /\ f.kind = "raise-continuable" /\ f.dyn = d /\ f.h = h
         /\ f.saw = Seen
<1>1. /\ Depth \in 1 .. MaxDepth /\ MaxDepth \in Nat
      /\ \A i \in 1 .. Depth : frames[i].dyn \in 1 .. i
  BY Typed DEF IInv
<1>2. \A i \in 1 .. Depth : Lookup(frames[i].dyn) \in 0 .. MaxDepth
  <2>1. SUFFICES ASSUME NEW i \in 1 .. Depth PROVE Lookup(frames[i].dyn) \in 0 .. MaxDepth
    OBVIOUS
  <2>2. frames[i].dyn \in 1 .. Depth
    BY <1>1
  <2>3. QED
    BY <1>1, <2>2, LookupInForce DEF InForce, None
<1>3. Seen \in [1 .. Depth -> 0 .. MaxDepth]
  BY <1>2 DEF Seen
<1>4. Seen \in Seq(0 .. MaxDepth)
  BY <1>1, <1>3, SeqDef
<1>5. d \in 1 .. MaxDepth /\ h \in 0 .. MaxDepth
  BY <1>1, <1>2
<1>6. QED
  BY <1>4, <1>5 DEF FrameType, Frame, Kinds

(* The invariant holds when main has pushed its first frame.               *)
LEMMA InitIInv == Init => IInv
<1>1. SUFFICES ASSUME Init PROVE IInv
  OBVIOUS
<1>2. 1 \in 1 .. MaxDepth /\ MaxDepth \in Nat
  BY ExceptionsAssumption
<1> DEFINE f == Frame("main", 1, None)
<1>3. f \in FrameType /\ f.kind = "main" /\ f.dyn = 1
  BY <1>2 DEF FrameType, Frame, Kinds, None
<1> HIDE DEF f
<1>4. frames \in Seq(FrameType) /\ Depth = 1 /\ frames[1] = f
  BY <1>1, <1>3 DEF Init, Depth, f
<1>5. bound \in [1 .. MaxDepth -> 0 .. MaxDepth] /\ bound[1] = IF Repl THEN 1 ELSE None
  BY <1>1, <1>2 DEF Init, None
<1>6. \A d \in 2 .. MaxDepth : bound[d] = None
  BY <1>1, <1>2 DEF Init
<1>7. FrameInv(1)
  BY <1>3, <1>4 DEF FrameInv, IsScope, Continuable
<1>8. program \in Program /\ died = FALSE
  BY <1>1 DEF Init
<1>9. TypeOK
  <2>1. Depth \in 1 .. MaxDepth /\ \A i \in 1 .. Depth : i = 1
    BY <1>2, <1>4
  <2>2. frames[1].dyn <= 1
    BY <1>3, <1>4
  <2>3. QED
    BY <1>4, <1>5, <1>8, <2>1, <2>2 DEF TypeOK
<1>10. \A d \in 2 .. MaxDepth : BoundInv(d)
  BY <1>6 DEF BoundInv
<1>11. \A k \in 1 .. Depth : FrameInv(k)
  BY <1>4, <1>7
<1>12. QED
  BY <1>3, <1>4, <1>5, <1>8, <1>9, <1>10, <1>11 DEF IInv

(* One step for every function of control_features.c and every way it can  *)
(* go.                                                                     *)
LEMMA NextIInv == IInv /\ [Next]_vars => IInv'
<1>1. SUFFICES ASSUME IInv, [Next]_vars PROVE IInv'
  OBVIOUS
<1>2. /\ Depth \in 1 .. MaxDepth /\ MaxDepth \in Nat
      /\ bound \in [1 .. MaxDepth -> 0 .. MaxDepth]
      /\ frames[1].kind = "main"
      /\ \A i \in 1 .. Depth : frames[i].dyn \in 1 .. i
  BY <1>1, Typed DEF IInv, TypeOK
<1>3. Evaluating => ~Continuable(Depth) /\ frames[Depth].kind # "raise"
  BY DEF Evaluating, Continuable, Top
<1>4. \A n \in 1 .. Depth :
        /\ Kept(bound, n) \in [1 .. MaxDepth -> 0 .. MaxDepth]
        /\ \A x \in 1 .. n : Kept(bound, n)[x] = bound[x]
        /\ \A x \in n + 1 .. MaxDepth : Kept(bound, n)[x] = None
  <2>1. SUFFICES ASSUME NEW n \in 1 .. Depth
                 PROVE  /\ Kept(bound, n) \in [1 .. MaxDepth -> 0 .. MaxDepth]
                        /\ \A x \in 1 .. n : Kept(bound, n)[x] = bound[x]
                        /\ \A x \in n + 1 .. MaxDepth : Kept(bound, n)[x] = None
    OBVIOUS
  <2>2. /\ \A x \in 1 .. n : x \in 1 .. MaxDepth /\ x <= n
        /\ \A x \in n + 1 .. MaxDepth : x \in 1 .. MaxDepth /\ ~(x <= n)
        /\ None \in 0 .. MaxDepth
    BY <1>2 DEF None
  <2>3. QED
    BY <1>2, <2>2 DEF Kept
<1>5. ASSUME WithHandler PROVE IInv'
  <2>1. "thunk" \in Kinds \ {"raise-continuable"} /\ "thunk" \in ScopeKinds
    BY DEF Kinds, ScopeKinds
  <2>2. QED
    BY <1>1, <1>5, <2>1, Pushed DEF WithHandler, Push
<1>6. ASSUME Parameterize PROVE IInv'
  <2>1. "parameterize" \in Kinds \ {"raise-continuable"} /\ "parameterize" \in ScopeKinds
    BY DEF Kinds, ScopeKinds
  <2>2. QED
    BY <1>1, <1>6, <2>1, Pushed DEF Parameterize, Push
<1>7. ASSUME CallEC PROVE IInv'
  <2>1. "call/ec" \in Kinds \ {"raise-continuable"}
    BY DEF Kinds
  <2>2. QED
    BY <1>1, <1>3, <1>7, <2>1, Pushed DEF CallEC, Push, Top
<1>8. ASSUME Raise PROVE IInv'
  <2>1. "raise" \in Kinds \ {"raise-continuable"}
    BY DEF Kinds
  <2>2. QED
    BY <1>1, <1>3, <1>8, <2>1, Pushed DEF Raise, Push, Top
<1>9. ASSUME Return PROVE IInv'
  <2>1. Depth # 1
    BY <1>2, <1>9 DEF Return, Top
  <2>2. Depth - 1 \in 1 .. Depth
    BY <1>2, <2>1
  <2>3. QED
    BY <1>1, <1>4, <1>9, <2>2, Popped DEF Return
<1>10. ASSUME NEW n \in 1 .. MaxDepth, Escape(n) PROVE IInv'
  <2>1. n # 1 /\ n <= Depth
    BY <1>2, <1>10 DEF Escape
  <2>2. n - 1 \in 1 .. Depth
    BY <1>2, <2>1
  <2>3. QED
    BY <1>1, <1>4, <1>10, <2>2, Popped DEF Escape
<1>11. ASSUME RaiseAgain PROVE IInv'
  <2>1. Depth - 1 \in 1 .. Depth
    BY <1>2, <1>11 DEF RaiseAgain
  <2>2. \A x \in Depth - 1 + 1 .. MaxDepth : bound[x] = None
    <3>1. SUFFICES ASSUME NEW x \in Depth .. MaxDepth PROVE bound[x] = None
      BY <1>2
    <3>2. x \in 2 .. MaxDepth
      BY <1>2, <1>11 DEF RaiseAgain
    <3>3. x = Depth => ~IsScope(x)
      BY <1>11, <3>2 DEF RaiseAgain, Top, IsScope, ScopeKinds
    <3>4. BoundInv(x)
      BY <1>1, <3>2 DEF IInv
    <3>5. QED
      BY <1>2, <3>3, <3>4 DEF BoundInv
  <2>3. QED
    BY <1>1, <1>2, <1>11, <2>1, <2>2, Popped DEF RaiseAgain
<1>12. ASSUME HandlerReturn \/ HandlerTail PROVE IInv'
  <2>1. PICK n, r \in Nat : n = Depth - 2 /\ r = Depth - 1
    BY <1>2, <1>12 DEF HandlerReturn, HandlerTail
  <2>2. QED
    BY <1>1, <1>12, <2>1, HandlerDone DEF HandlerReturn, HandlerTail, Top, Continuable
<1>13. ASSUME RaiseLoop PROVE IInv'
  <2> DEFINE d == frames[Depth].dyn
             h == Lookup(d)
  <2>1. d \in 1 .. Depth
    BY <1>2
  <2>2. frames[Depth].kind = "raise"
    BY <1>13 DEF RaiseLoop, Top
  <2>3. CASE h = None
    <3>1. ~Repl
      BY <1>1, <2>1, <2>3, LookupInForce DEF InForce, None
    <3>2. UNCHANGED <<program, frames, bound>> /\ died' = TRUE
      BY <1>13, <2>3 DEF RaiseLoop, Fatal, Top
    <3>3. QED
      BY <1>1, <3>1, <3>2, DiedIInv
  <2>4. CASE h = 1
    <3>1. /\ frames' = SubSeq(frames, 1, 1) /\ bound' = TopLevel(ScopeUnset(d), d)
          /\ program' = program /\ died' = died
      BY <1>13, <2>4 DEF RaiseLoop, Invoke, Top, None
    <3>2. QED
      BY <1>1, <2>1, <2>4, <3>1, TopLevelReturns
  <2>5. CASE h # None /\ h # 1
    <3>1. /\ Depth < MaxDepth
          /\ frames' = Append([frames EXCEPT ![Depth].h = h], Frame("handler", d, h))
          /\ bound' = ScopeUnset(d) /\ program' = program /\ died' = died
      BY <1>13, <2>5, RaisedFrames DEF RaiseLoop, Invoke, Top
    <3>2. QED
      BY <1>1, <2>2, <2>5, <3>1, RaiseCalls
  <2>6. QED
    BY <2>3, <2>4, <2>5
<1>14. ASSUME RaiseContinuable PROVE IInv'
  <2> DEFINE d == frames[Depth].dyn
             h == Lookup(d)
  <2>1. d \in 1 .. Depth
    BY <1>2
  <2>2. ~Continuable(Depth)
    BY <1>3, <1>14 DEF RaiseContinuable
  <2>3. CASE h = None
    <3>1. ~Repl
      BY <1>1, <2>1, <2>3, LookupInForce DEF InForce, None
    <3>2. UNCHANGED <<program, frames, bound>> /\ died' = TRUE
      BY <1>14, <2>3 DEF RaiseContinuable, Fatal, Top
    <3>3. QED
      BY <1>1, <3>1, <3>2, DiedIInv
  <2>4. CASE h = 1
    <3>1. /\ frames' = SubSeq(frames, 1, 1) /\ bound' = TopLevel(ScopeUnset(d), d)
          /\ program' = program /\ died' = died
      BY <1>14, <2>4 DEF RaiseContinuable, Invoke, Top, None
    <3>2. QED
      BY <1>1, <2>1, <2>4, <3>1, TopLevelReturns
  <2>5. CASE h # None /\ h # 1
    <3>1. PICK f : f = [kind |-> "raise-continuable", dyn |-> d, h |-> h, saw |-> Seen]
      OBVIOUS
    <3>2. /\ Len(Append(frames, f)) < MaxDepth
          /\ frames' = Append(Append(frames, f), Frame("handler", d, h))
          /\ bound' = ScopeUnset(d) /\ program' = program /\ died' = died
      <4>1. f = [Frame("raise-continuable", d, h) EXCEPT !.saw = Seen]
        BY <3>1 DEF Frame
      <4>2. QED
        BY <1>14, <2>5, <4>1 DEF RaiseContinuable, Invoke, Top
    <3>3. /\ f \in FrameType /\ f.kind = "raise-continuable" /\ f.dyn = d /\ f.h = h
          /\ f.saw = Seen
      BY <1>1, <3>1, SeenFrame
    <3>4. Depth + 1 < MaxDepth
      <4>1. frames \in Seq(FrameType)
        BY <1>1 DEF IInv, TypeOK
      <4>2. Len(Append(frames, f)) = Depth + 1
        BY <3>3, <4>1, AppendProperties DEF Depth
      <4>3. QED
        BY <3>2, <4>2
    <3>5. PICK c : c = Frame("handler", d, h)
      OBVIOUS
    <3>6. c \in FrameType /\ c.kind = "handler" /\ c.dyn = d
      <4>1. f.dyn \in 1 .. MaxDepth /\ f.h \in 0 .. MaxDepth /\ <<>> \in Seq(0 .. MaxDepth)
        BY <3>3 DEF FrameType
      <4>2. QED
        BY <3>3, <3>5, <4>1 DEF FrameType, Frame, Kinds
    <3>7. frames' = Append(Append(frames, f), c) /\ TypeOK
      BY <1>1, <3>2, <3>5 DEF IInv
    <3>8. /\ frames' \in Seq(FrameType) /\ Depth' = Depth + 2
          /\ \A i \in 1 .. Depth : frames'[i] = frames[i]
          /\ frames'[Depth + 1] = f /\ frames'[Depth + 2] = c
      BY <3>3, <3>6, <3>7, TwoFrames
    <3>9. d = Top.dyn /\ h = Lookup(Top.dyn) /\ Depth + 2 <= MaxDepth
      BY <1>2, <3>4 DEF Top
    <3> HIDE DEF d, h
    <3>10. QED
      BY <1>1, <2>2, <2>5, <3>2, <3>3, <3>6, <3>8, <3>9, ContinuableCalls
  <2>6. QED
    BY <2>3, <2>4, <2>5
<1>15. ASSUME UNCHANGED vars PROVE IInv'
  BY <1>1, <1>15, SameIInv DEF vars
<1>16. QED
  BY <1>1, <1>5, <1>6, <1>7, <1>8, <1>9, <1>10, <1>11, <1>12, <1>13, <1>14, <1>15 DEF Next

(* The lookup after a raise-continuable is the one it remembers, for the   *)
(* functions below it: there is only one.                                  *)
LEMMA SeesAgain ==
  ASSUME IInv, LooksUp(Handlers, bound, frames, Depth)', HandlerReturn \/ HandlerTail,
         NEW i \in 1 .. Depth - 2
  PROVE  (Lookup(frames[i].dyn))' = frames[Depth - 1].saw[i]
<1>1. /\ Depth \in 1 .. MaxDepth /\ MaxDepth \in Nat
      /\ frames[Depth].h \in 0 .. MaxDepth /\ frames[Depth].dyn \in 1 .. Depth
      /\ bound \in [1 .. MaxDepth -> 0 .. MaxDepth]
      /\ \A k \in 1 .. Depth : frames[k].dyn \in 1 .. k
  <2>1. TypeOK /\ bound \in [1 .. MaxDepth -> 0 .. MaxDepth]
    BY DEF IInv, TypeOK
  <2>2. /\ Depth \in 1 .. MaxDepth /\ MaxDepth \in Nat
        /\ \A k \in 1 .. Depth : frames[k].dyn \in 1 .. k /\ frames[k].h \in 0 .. MaxDepth
    BY <2>1, Typed
  <2>3. Depth \in 1 .. Depth
    BY <2>2
  <2>4. QED
    BY <2>1, <2>2, <2>3
<1>2. Depth > 2 /\ frames[Depth].kind = "handler"
  BY DEF HandlerReturn, HandlerTail, Top
<1> PICK n, r \in Nat : n = Depth - 2 /\ r = Depth - 1
  BY <1>1, <1>2
<1> PICK e, h : e = frames[r].dyn /\ h = frames[r].h
  OBVIOUS
<1>3. n \in 1 .. Depth /\ r \in 1 .. Depth /\ r - 1 = n /\ i \in 1 .. n
  BY <1>1, <1>2
<1>4. Continuable(r) /\ bound' = Restored(frames[r])
  BY DEF HandlerReturn, HandlerTail, Continuable
<1>5. /\ e \in 2 .. n
      /\ \A x \in 1 .. n : x # e => bound'[x] = bound[x]
      /\ bound'[e] = h
  BY <1>2, <1>4, Restores
<1> DEFINE f == Frame("tail", frames[Depth].dyn, frames[Depth].h)
<1>6. f \in FrameType
  <2>1. frames[Depth].dyn \in 1 .. MaxDepth /\ <<>> \in Seq(0 .. MaxDepth)
    BY <1>1
  <2>2. QED
    BY <1>1, <2>1 DEF FrameType, Frame, Kinds
<1>7. \/ frames' = SubSeq(frames, 1, n)
      \/ frames' = Append(SubSeq(frames, 1, n), f)
  BY DEF HandlerReturn, HandlerTail, Top
<1> HIDE DEF f
<1>8. Depth' \in {n, n + 1} /\ \A k \in 1 .. n : frames'[k] = frames[k]
  BY <1>3, <1>6, <1>7, DoneFrames DEF IInv
<1> DEFINE b == ScopeSet(bound, e, h)
<1>9. Resumes(r)
  BY <1>3, <1>4 DEF IInv, FrameInv
<1>10. PICK g : LooksUp(g, b, frames, n) /\ \A k \in 1 .. n : frames[r].saw[k] = g[frames[k].dyn]
  BY <1>3, <1>9 DEF Resumes
<1>11. PICK H, c, fs : H = Handlers' /\ c = bound' /\ fs = frames'
  OBVIOUS
<1>12. ASSUME NEW x \in 1 .. n
       PROVE  /\ b[x] = c[x] /\ Extends(frames, x) = Extends(fs, x)
              /\ Extends(frames, x) \in 0 .. x - 1
  <2>1. x \in 1 .. MaxDepth /\ x \in 1 .. Depth /\ (x # 1 => x - 1 \in 1 .. n)
    BY <1>1, <1>3
  <2>2. b[x] = c[x]
    BY <1>1, <1>5, <1>11, <2>1 DEF ScopeSet
  <2>3. Extends(frames, x) = Extends(fs, x)
    BY <1>8, <1>11, <2>1 DEF Extends
  <2>4. NextScope(x) \in 0 .. x - 1
    BY <2>1, ScopeChain DEF IInv
  <2>5. QED
    BY <2>2, <2>3, <2>4 DEF NextScope, Extends
<1>13. LooksUp(H, c, fs, n)
  <2>1. \A x \in 0 .. Depth' : H[x] = IF x = None THEN None
               ELSE IF c[x] # None THEN c[x] ELSE H[Extends(fs, x)]
    BY <1>11 DEF LooksUp
  <2>2. \A x \in 0 .. n : x \in 0 .. Depth'
    BY <1>8
  <2>3. QED
    BY <2>1, <2>2 DEF LooksUp
<1> HIDE DEF b
<1>14. \A x \in 0 .. n : g[x] = H[x]
  BY <1>10, <1>12, <1>13, OneLookup
<1>15. frames'[i] = frames[i] /\ frames[i].dyn \in 0 .. n
  <2>1. i \in 1 .. Depth
    BY <1>1, <1>3
  <2>2. QED
    BY <1>1, <1>3, <1>8, <2>1
<1>16. (Lookup(frames[i].dyn))' = H[frames[i].dyn]
  BY <1>11, <1>15 DEF Lookup
<1>17. QED
  BY <1>3, <1>10, <1>14, <1>15, <1>16

-----------------------------------------------------------------------------
(* What the properties need holds in every state that can be reached.      *)
THEOREM Invariance == Spec => []IInv
BY InitIInv, NextIInv, PTL DEF Spec

(* The stack and the scopes keep their shape: no frame evaluates in a      *)
(* scope above it, whatever is raised, escaped from or returned to.        *)
THEOREM TypeCorrect == Spec => []TypeOK
<1>1. IInv => TypeOK
  BY DEF IInv
<1>2. QED
  BY <1>1, Invariance, PTL

(* Whatever handlers are unset and restored, and whatever escapes: a       *)
(* handler that a raise can find belongs to a with-exception-handler that  *)
(* has not yet returned, or is the top-level one of the prompt.            *)
THEOREM HandlersStayInForce == Spec => []HandlersInForce
<1>1. IInv => HandlersInForce
  <2>1. SUFFICES ASSUME IInv PROVE HandlersInForce
    OBVIOUS
  <2>2. ASSUME NEW d \in 1 .. MaxDepth, bound[d] # None
        PROVE  \/ Repl /\ bound[d] = 1
               \/ bound[d] <= d /\ frames[bound[d]].kind = "thunk"
    <3>1. CASE d = 1
      BY <2>1, <2>2, <3>1 DEF IInv
    <3>2. CASE d # 1
      <4>1. d \in 2 .. MaxDepth
        BY <3>2, ExceptionsAssumption
      <4>2. InForce(bound[d], d)
        BY <2>1, <2>2, <4>1 DEF IInv, BoundInv
      <4>3. QED
        BY <4>1, <4>2, ExceptionsAssumption DEF InForce
    <3>3. QED
      BY <3>1, <3>2
  <2>3. QED
    BY <2>1, <2>2 DEF HandlersInForce, IInv
<1>2. QED
  BY <1>1, Invariance, PTL

(* No error at the prompt ends the interpreter, however deep the errors    *)
(* and the handlers are nested.                                            *)
THEOREM PromptAlwaysSurvives == Spec => []PromptSurvives
<1>1. IInv => PromptSurvives
  BY DEF IInv, PromptSurvives
<1>2. QED
  BY <1>1, Invariance, PTL

(* A raise-continuable that returns leaves every function below it with    *)
(* the handlers it had, however many handlers were called, escaped from    *)
(* and restored in between.                                                *)
THEOREM ContinuableLeavesNoTrace == Spec => ContinuableIsTransparent
<1> DEFINE Looks == LooksUp(Handlers, bound, frames, Depth)
<1>1. IInv => Looks
  BY HandlersLookUp DEF IInv
<1>2. IInv /\ Looks' /\ [Next]_vars =>
        [ HandlerReturn \/ HandlerTail =>
            \A i \in 1 .. Depth - 2 : (Lookup(frames[i].dyn))' = frames[Depth - 1].saw[i] ]_vars
  BY SeesAgain
<1> HIDE DEF Looks
<1>3. QED
  BY <1>1, <1>2, Invariance, PTL DEF Spec, ContinuableIsTransparent
=============================================================================
