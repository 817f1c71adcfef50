----------------------------- MODULE ImportSets -----------------------------
(***************************************************************************)
(* What an import set binds (environment.c).  A scope is a function from   *)
(* names to objects, a name a sequence of parts: a prefix is put in front. *)
(* An import set names a library and the modifiers around it, the          *)
(* innermost first, which change the scope with its exports one after the  *)
(* other.  An export list is a sequence of pairs, of the name in the       *)
(* library and the name for the importer.                                  *)
(***************************************************************************)
EXTENDS Integers, Sequences, SequencesExt, Functions, TLC

Name == Seq(STRING)
Modifiers ==
  [op : {"only", "except"}, names : SUBSET Name] \cup
  [op : {"prefix"}, prefix : Name] \cup
  [op : {"rename"}, renames : Seq(Name \X Name)]

(* navi_scope_set and navi_scope_unset *)
SetName(scope, n, object) == (n :> object) @@ scope
UnsetName(scope, n) == Restrict(scope, DOMAIN scope \ {n})

(* navi_error leaves the import: no scope comes of it. *)
Fine(scope) == [ok |-> TRUE, scope |-> scope]
Error == [ok |-> FALSE, scope |-> <<>>]

(* do_import_library: every export must be bound in the library. *)
Exported(env, exports) ==
  IF \E i \in DOMAIN exports : exports[i][1] \notin DOMAIN env THEN Error
  ELSE Fine(FoldLeft(LAMBDA scope, e : SetName(scope, e[2], env[e[1]]), <<>>, exports))

(* A name that the set does not have is not missed. *)
import_only(scope, names) == Restrict(scope, DOMAIN scope \cap names)
import_except(scope, names) == Restrict(scope, DOMAIN scope \ names)

Without(prefix, n) == SubSeq(n, Len(prefix) + 1, Len(n))
import_prefix(scope, prefix) ==
  [n \in {prefix \o m : m \in DOMAIN scope} |-> scope[Without(prefix, n)]]

(* Fault, which no run uses: the old name is not unset. *)
RenameKeepsOld(scope, old, new) == SetName(scope, new, scope[old])

(* One name after the other: the new one is bound and the old one unset. *)
RenameName(scope, old, new) == UnsetName(SetName(scope, new, scope[old]), old)

import_rename(scope, renames) ==
  FoldLeft(LAMBDA got, r : IF got.ok /\ r[1] \in DOMAIN got.scope
                           THEN Fine(RenameName(got.scope, r[1], r[2])) ELSE Error,
           Fine(scope), renames)

Modified(scope, mod) ==
  CASE mod.op = "only"   -> Fine(import_only(scope, mod.names))
    [] mod.op = "except" -> Fine(import_except(scope, mod.names))
    [] mod.op = "prefix" -> Fine(import_prefix(scope, mod.prefix))
    [] mod.op = "rename" -> import_rename(scope, mod.renames)

(* get_import_env, from the library outwards *)
get_import_env(env, exports, mods) ==
  FoldLeft(LAMBDA got, mod : IF got.ok THEN Modified(got.scope, mod) ELSE Error,
           Exported(env, exports), mods)

-----------------------------------------------------------------------------
(* What R7RS says of an import set: a modifier gives each name of the set  *)
(* another one, or drops it, and all renamings happen at once.             *)
NewNames(n, mod) ==
  CASE mod.op = "only"   -> {n} \cap mod.names
    [] mod.op = "except" -> {n} \ mod.names
    [] mod.op = "prefix" -> {mod.prefix \o n}
    [] mod.op = "rename" ->
         LET new == {r \in ToSet(mod.renames) : r[1] = n}
         IN  IF new = {} THEN {n} ELSE {r[2] : r \in new}

Names(start, mods) ==
  FoldLeft(LAMBDA names, mod : UNION {NewNames(n, mod) : n \in names}, start, mods)

(* The names and the objects they stand for *)
Meaning(env, exports, mods) ==
  UNION {{<<n, env[e[1]]>> : n \in Names({e[2]}, mods)} : e \in ToSet(exports)}

(* Every name that is renamed is there, once, and its new name is free     *)
(* when its turn comes: two names that are exchanged are not.              *)
FreeNames(names, renames) ==
  \A i \in DOMAIN renames :
    LET before == {renames[j] : j \in 1 .. i - 1}
    IN  /\ renames[i][1] \in names \ {r[1] : r \in before}
        /\ renames[i][2] \notin (names \ {r[1] : r \in before}) \cup {r[2] : r \in before}

Orderly(env, exports, mods) ==
  /\ \A i \in DOMAIN exports : exports[i][1] \in DOMAIN env
  /\ \A i, j \in DOMAIN exports : exports[i][2] = exports[j][2] => i = j
  /\ \A i \in DOMAIN mods : mods[i].op = "rename" =>
       FreeNames(Names({e[2] : e \in ToSet(exports)}, SubSeq(mods, 1, i - 1)), mods[i].renames)
=============================================================================
