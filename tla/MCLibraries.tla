---------------------------- MODULE MCLibraries -----------------------------
(***************************************************************************)
(* Libraries for TLC: "a" imports "b" and "c", and "b" imports "c".  The   *)
(* code of "a" imports "c" once more by itself.  In the last program "a"   *)
(* takes names of "b" through nested import sets and exports some again,   *)
(* and the prompt imports with every kind of modifier.                     *)
(***************************************************************************)
EXTENDS Libraries

All(l) == [lib |-> l, mods |-> <<>>]
Of(l, mods) == [lib |-> l, mods |-> mods]
Only(names) == [op |-> "only", names |-> names]
Except(names) == [op |-> "except", names |-> names]
Prefix(p) == [op |-> "prefix", prefix |-> p]
Rename(renames) == [op |-> "rename", renames |-> renames]

X == <<"x">>
Y == <<"y">>
Z == <<"z">>
PX == <<"p", "x">>
PY == <<"p", "y">>

Export(exports) == [kind |-> "export", exports |-> exports]
ImportDecl(sets) == [kind |-> "import", sets |-> sets]
Code(defines, imports) == [kind |-> "begin", defines |-> defines, imports |-> imports]

MCDecl ==
  [l \in Lib |->
     CASE l = "a" -> << Export(<< <<X, X>> >>), ImportDecl(<<All("b")>>), ImportDecl(<<All("c")>>),
                        Code({}, {<<All("c")>>}) >>
       [] l = "b" -> << Export(<< <<X, X>> >>), Export(<< <<X, Y>> >>), ImportDecl(<<All("c")>>),
                        Code({}, {}) >>
       [] OTHER   -> << Code({X}, {}), Export(<< <<X, X>> >>) >>]

(* No library imports from its own code. *)
MCPlain == [l \in Lib |-> [i \in DOMAIN MCDecl[l] |->
              IF MCDecl[l][i].kind = "begin" THEN [MCDecl[l][i] EXCEPT !.imports = {}] ELSE MCDecl[l][i]]]

MCNames ==
  [l \in Lib |->
     CASE l = "a" -> << ImportDecl(<< Of("b", << Prefix(<<"p">>), Except({PY}) >>), Of("c", << Rename(<< <<X, Z>> >>) >>) >>),
                        Export(<< <<PX, X>>, <<Y, Y>> >>), Code({Y}, {}), Export(<< <<Z, Z>> >>) >>
       [] l = "b" -> << Export(<< <<X, Y>>, <<Y, X>> >>), Code({X, Y}, {}) >>
       [] OTHER   -> << Code({X}, {<< Of("b", << Only({X}) >>) >>}), Export(<< <<X, X>> >>) >>]

(* Two names that go round, names that are exchanged, a name that is not   *)
(* there, and lists of sets of which the second fails or binds again.      *)
MCSets ==
  { << Of("a", << Only({X, Y, PX}), Prefix(<<"p">>) >>) >>,
    << Of("a", << Rename(<< <<X, PX>>, <<Y, X>> >>), Except({X}) >>), All("b") >>,
    << Of("b", << Rename(<< <<X, Y>>, <<Y, X>> >>) >>) >>,
    << Of("b", << Rename(<< <<X, Z>>, <<Y, X>>, <<Z, Y>> >>) >>) >>,
    << Of("b", << Prefix(<<"p">>), Rename(<< <<PX, X>> >>) >>), Of("c", << Rename(<< <<Y, Z>> >>) >>) >> }

MCFile == [l \in Lib |-> CASE l = "a" -> {"d1", "d2"} [] l = "b" -> {"d2", "data"} [] OTHER -> {"d1", "data"}]

(* "c" has no file, and must be defined at the prompt. *)
MCFileMissing == [MCFile EXCEPT !["c"] = {}]

Runs(decl, imports, file, errors, collects, nl, nd) ==
  [decl |-> decl, imports |-> imports, file |-> file, errors |-> errors, collects |-> collects,
   libs |-> nl, disabled |-> nd]

Singles == {<<All(l)>> : l \in Lib}

MCProgram ==
  { Runs(MCPlain, Singles, MCFile, FALSE, FALSE, 7, 1),
    Runs(MCDecl, Singles, MCFileMissing, TRUE, TRUE, 5, 4),
    Runs(MCNames, MCSets, MCFile, TRUE, FALSE, 3, 2) }

MCOptions == <<"d2", "d1">>
=============================================================================
