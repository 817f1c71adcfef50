----------------------------- MODULE Libraries ------------------------------
(***************************************************************************)
(* The libraries of environment.c: define-library registers one, import    *)
(* finds it or reads it from the search path, loads it when it was not     *)
(* loaded before, and copies what it exports.  Loading runs the            *)
(* declarations in order and may import other libraries, so that imports   *)
(* and loads nest on the C stack; an error leaves them all by longjmp, to  *)
(* the prompt or to an escape that Scheme code made.                       *)
(*                                                                         *)
(* A declaration is an export list, an import, or Scheme code that defines *)
(* names and may import by itself.                                         *)
(***************************************************************************)
EXTENDS Integers, Sequences, FiniteSets, ImportSets

CONSTANTS
  Lib,       \* library names
  Dir,       \* directories
  Options,   \* the directories of the -L options, in the order given
  DataDir,   \* DATADIR, which is searched too
  Program    \* the libraries there are, and what may happen

(* What check_library_syntax and imports_valid let pass *)
ImportSet == [lib : Lib, mods : Seq(Modifiers)]
ImportLists == Seq(ImportSet) \ {<<>>}
ExportLists == Seq(Name \X Name) \ {<<>>}
Declarations ==
  [kind : {"export"}, exports : ExportLists] \cup
  [kind : {"import"}, sets : ImportLists] \cup
  [kind : {"begin"}, defines : SUBSET Name, imports : SUBSET ImportLists]

ASSUME LibrariesAssumption ==
  /\ DataDir \in Dir /\ Options \in Seq(Dir)
  /\ Program \subseteq
       [decl : [Lib -> Seq(Declarations)], imports : SUBSET ImportLists,
        file : [Lib -> SUBSET Dir], errors : BOOLEAN, collects : BOOLEAN,
        libs : Nat, disabled : Nat]

VARIABLES
  libs,       \* every registered library, the newest last
  stack,      \* the prompt, and the navi_import and do_load_library that run
  disabled    \* _navi_gc_disabled

vars == <<libs, stack, disabled>>

Depth == Len(stack)
Top == stack[Depth]
Below == SubSeq(stack, 1, Depth - 1)
Idle == Depth = 1

(* The first frame is the prompt, with the program it runs. *)
program == stack[1].program
Decl == program.decl              \* the declarations of each library
File == program.file              \* the directories in which it has a file
Errors == program.errors          \* Scheme code may raise, and files be malformed
Collects == program.collects      \* the collector runs between commands
MaxLibs == program.libs           \* bound on the libraries registered
MaxDisabled == program.disabled   \* bound on _navi_gc_disabled at the prompt

-----------------------------------------------------------------------------
(* Fault, which no run uses: the first option is put in front first. *)
SearchPathReversed(opts) ==
  [i \in 1 .. Len(opts) + 1 |-> IF i > Len(opts) THEN DataDir ELSE opts[Len(opts) + 1 - i]]

(* parse_opts: the options are collected in front of a list, and one after *)
(* the other put in front of the search path.                              *)
SearchPath(opts) ==
  LET Collected[i \in 0 .. Len(opts)] ==
        IF i = 0 THEN <<>> ELSE <<opts[i]>> \o Collected[i - 1]
      given == Collected[Len(opts)]
      Added[i \in 0 .. Len(opts)] ==
        IF i = 0 THEN <<DataDir>> ELSE <<given[i]>> \o Added[i - 1]
  IN  Added[Len(opts)]

(* read_library: the first directory of the search path with the file *)
Directory(l) ==
  LET path == SearchPath(Options)
      has == {i \in DOMAIN path : path[i] \in File[l]}
  IN  path[CHOOSE i \in has : \A j \in has : i <= j]

InPath(l) == \E i \in DOMAIN SearchPath(Options) : SearchPath(Options)[i] \in File[l]

(* The lists of a library are the very lists that were read: next says, of *)
(* the export list of declaration i, which list it continues in.           *)
NewLibrary(l, d) ==
  [name |-> l, loaded |-> FALSE, exports |-> 0, next |-> [i \in DOMAIN Decl[l] |-> 0],
   env |-> <<>>, intact |-> TRUE, ran |-> 0, dir |-> d]

(* navi_last_cons, when the list that starts with h ends *)
LastList(next, h) ==
  LET Walk[n \in 0 .. Cardinality(DOMAIN next)] ==
        IF n = 0 THEN h
        ELSE IF next[Walk[n - 1]] = 0 THEN Walk[n - 1] ELSE next[Walk[n - 1]]
  IN  Walk[Cardinality(DOMAIN next)]

ListEnds(next, h) == h # 0 => next[LastList(next, h)] = 0

(* The exports that navi_list_for_each finds in a list that ends *)
Exports(e) ==
  LET From[n \in 0 .. Len(Decl[libs[e].name]), i \in 0 .. Len(Decl[libs[e].name])] ==
        IF n = 0 \/ i = 0 THEN <<>>
        ELSE Decl[libs[e].name][i].exports \o From[n - 1, libs[e].next[i]]
  IN  From[Len(Decl[libs[e].name]), libs[e].exports]

(* navi_list_append_ip(exports, rest): the list is extended in place. *)
Append_ip(next, h, i) == IF h = 0 THEN next ELSE [next EXCEPT ![LastList(next, h)] = i]

(* find_library: the newest with that name.  The name of a library whose   *)
(* lists were collected may compare equal, or not.                         *)
Candidates(l) ==
  LET named == {e \in DOMAIN libs : libs[e].name = l}
      whole == {e \in named : libs[e].intact}
      Newest(S) == IF S = {} THEN 0 ELSE CHOOSE e \in S : \A x \in S : x <= e
  IN  {Newest(whole), Newest(named)}

(* register_library *)
Register(ls, lib) == Append(ls, lib)

ImportFrame(sets) == [kind |-> "import", sets |-> sets, pos |-> 1, entry |-> 0]
LoadFrame(l, e) ==
  [kind |-> "load", lib |-> l, entry |-> e, pos |-> 1, head |-> 0, scope |-> <<>>]

-----------------------------------------------------------------------------
(* define-library at the prompt *)
Define(l) ==
  /\ Idle
  /\ Len(libs) + Cardinality(Lib) < MaxLibs
  /\ libs' = Register(libs, NewLibrary(l, "prompt"))
  /\ UNCHANGED <<stack, disabled>>

(* navi_import of a list of import sets: the collector is off meanwhile. *)
Enter(sets) ==
  /\ stack' = Append(stack, ImportFrame(sets))
  /\ disabled' = disabled + 1
  /\ UNCHANGED libs

Import ==
  /\ Idle /\ disabled < MaxDisabled
  /\ \E sets \in program.imports : Enter(sets)

Declaration == Decl[Top.lib][Top.pos]
Loading(kind) ==
  ~Idle /\ Top.kind = "load" /\ Top.pos \in DOMAIN Decl[Top.lib] /\ Declaration.kind = kind

ImportDeclaration == Loading("import") /\ Enter(Declaration.sets)

(* Scheme code in the library calls import. *)
ImportInBody ==
  /\ Loading("begin") /\ disabled < MaxDisabled
  /\ \E sets \in Declaration.imports : Enter(sets)

(* get_import_env works on one set after the other, the library first. *)
Importing == ~Idle /\ Top.kind = "import" /\ Top.pos \in DOMAIN Top.sets
Set == Top.sets[Top.pos]
Seeking == Importing /\ Top.entry = 0
Found == Importing /\ Top.entry # 0

(* load_library *)
UseLoaded ==
  /\ Seeking
  /\ \E e \in Candidates(Set.lib) \ {0} :
       /\ libs[e].loaded
       /\ stack' = [stack EXCEPT ![Depth].entry = e]
  /\ UNCHANGED <<libs, disabled>>

LoadDefined ==
  /\ Seeking
  /\ \E e \in Candidates(Set.lib) \ {0} :
       /\ ~libs[e].loaded
       /\ stack' = Append(stack, LoadFrame(Set.lib, e))
  /\ UNCHANGED <<libs, disabled>>

ReadAndLoad ==
  /\ Seeking /\ 0 \in Candidates(Set.lib) /\ InPath(Set.lib)
  /\ libs' = Register(libs, NewLibrary(Set.lib, Directory(Set.lib)))
  /\ stack' = Append(stack, LoadFrame(Set.lib, Len(libs) + 1))
  /\ UNCHANGED disabled

(* An error unwinds the stack to the prompt or to code in a library that   *)
(* catches it.                                                             *)
InBody(f) == f.kind = "load" /\ Decl[f.lib][f.pos].kind = "begin"
Catches(n) == n # 1 => InBody(stack[n])

AfterErrorOn(d) == 0       \* fault: the collector is switched on again
AfterError(d) == d

Unwind ==
  /\ \E n \in 1 .. Depth - 1 : Catches(n) /\ stack' = SubSeq(stack, 1, n)
  /\ disabled' = AfterError(disabled)
  /\ UNCHANGED libs

NotFound == Seeking /\ 0 \in Candidates(Set.lib) /\ ~InPath(Set.lib) /\ Unwind

Raise == Errors /\ ~Idle /\ Unwind

Advance == [stack EXCEPT ![Depth].pos = @ + 1]

(* do_load_library, declaration by declaration *)
ExportDeclaration ==
  /\ Loading("export")
  /\ ListEnds(libs[Top.entry].next, Top.head)
  /\ libs' = [libs EXCEPT ![Top.entry].next = Append_ip(@, Top.head, Top.pos)]
  /\ stack' = [Advance EXCEPT ![Depth].head = IF @ = 0 THEN Top.pos ELSE @]
  /\ UNCHANGED disabled

Begin ==
  /\ Loading("begin")
  /\ libs' = [libs EXCEPT ![Top.entry].ran = IF @ < 2 THEN @ + 1 ELSE @]
  /\ stack' = [Advance EXCEPT ![Depth].scope =
                 [n \in Declaration.defines |-> <<Top.lib, n>>] @@ @]
  /\ UNCHANGED disabled

NeverLoaded(ls, e, f) ==          \* fault: the flag is not set
  [ls EXCEPT ![e].exports = f.head, ![e].env = f.scope]
SetLoaded(ls, e, f) ==
  [ls EXCEPT ![e].loaded = TRUE, ![e].exports = f.head, ![e].env = f.scope]

Loaded ==
  /\ ~Idle /\ Top.kind = "load" /\ Top.pos > Len(Decl[Top.lib])
  /\ libs' = SetLoaded(libs, Top.entry, Top)
  /\ stack' = [Below EXCEPT ![Depth - 1].entry = Top.entry]
  /\ UNCHANGED disabled

ResumeHere(s) == s      \* fault: the same declaration again

(* What the importer goes on with: the next declaration, or its next form. *)
Resume(s) ==
  IF Len(s) = 1 \/ InBody(s[Len(s)]) THEN s
  ELSE [s EXCEPT ![Len(s)].pos = @ + 1]

Enabled(d) == IF d = 0 THEN 0 ELSE d - 1

(* What the set binds.  A list that was collected is read as it was, or    *)
(* ends where its memory was used again.                                   *)
Got ==
  LET cut == IF libs[Top.entry].intact THEN {} ELSE 0 .. Len(Exports(Top.entry))
  IN  {get_import_env(libs[Top.entry].env, exports, Set.mods) :
         exports \in {Exports(Top.entry)} \cup {SubSeq(Exports(Top.entry), 1, n) : n \in cut}}

(* navi_import_all: the importer is the prompt or a library being loaded. *)
Imported ==
  /\ Found /\ ListEnds(libs[Top.entry].next, libs[Top.entry].exports)
  /\ \E got \in Got :
       /\ got.ok
       /\ stack' = [stack EXCEPT ![Depth - 1].scope = got.scope @@ @,
                                 ![Depth].pos = @ + 1, ![Depth].entry = 0]
  /\ UNCHANGED <<libs, disabled>>

(* An identifier that the library or the set does not bind *)
NotBound ==
  /\ Found /\ ListEnds(libs[Top.entry].next, libs[Top.entry].exports)
  /\ \E got \in Got : ~got.ok
  /\ Unwind

(* navi_import returns. *)
ImportDone ==
  /\ ~Idle /\ Top.kind = "import" /\ ~Importing
  /\ stack' = Resume(Below)
  /\ disabled' = Enabled(disabled)
  /\ UNCHANGED libs

(* A collection.  No root leads to the name and the lists of a library. *)
Collect ==
  /\ Collects /\ Idle /\ disabled = 0
  /\ Len(libs) + Cardinality(Lib) <= MaxLibs
  /\ libs' = [e \in DOMAIN libs |-> [libs[e] EXCEPT !.intact = FALSE]]
  /\ UNCHANGED <<stack, disabled>>

Init ==
  /\ libs = <<>>
  /\ \E p \in Program : stack = << [kind |-> "prompt", program |-> p, scope |-> <<>>] >>
  /\ disabled = 0

Running ==
  \/ ImportDeclaration \/ UseLoaded \/ LoadDefined \/ ReadAndLoad \/ NotFound
  \/ ExportDeclaration \/ Begin \/ Loaded \/ Imported \/ NotBound \/ ImportDone

Next ==
  \/ \E l \in Lib : Define(l)
  \/ Import \/ ImportInBody \/ Running \/ Raise \/ Collect

Spec == Init /\ [][Next]_vars

(* An import, once begun, runs on until it returns. *)
FairSpec == Spec /\ WF_vars(Running)
-----------------------------------------------------------------------------
(* The registry, the stack and the counter keep their shape, and the       *)
(* entries that frames refer to are registered.                            *)
TypeOK ==
  /\ \A e \in DOMAIN libs : libs[e].name \in Lib /\ libs[e].exports \in {0} \cup DOMAIN Decl[libs[e].name]
  /\ \A i \in 2 .. Depth : stack[i].entry \in 0 .. Len(libs)
  /\ \A i \in 1 .. Depth : stack[i].kind # "import" => DOMAIN stack[i].scope \subseteq Name
  /\ Len(libs) <= MaxLibs
  /\ disabled \in Nat

RunningImports == {i \in 1 .. Depth : stack[i].kind = "import"}

(* Every library is there, nothing raises, and no library imports from its *)
(* own code.                                                               *)
Clean ==
  /\ ~Errors
  /\ \A l \in Lib : InPath(l)
  /\ \A l \in Lib : \A i \in DOMAIN Decl[l] :
       Decl[l][i].kind = "begin" => Decl[l][i].imports = {}

(* However imports, loads, errors and escapes nest, the collector is off   *)
(* while an import runs: the lists and scopes it builds are not guarded.   *)
(* When no error leaves an import, it is off at no other time.             *)
OffDuringImport ==
  /\ TypeOK
  /\ disabled >= Cardinality(RunningImports)
  /\ Clean => disabled = Cardinality(RunningImports)

(* When no error leaves a load, the code of a library runs once for each   *)
(* time it was defined or read, however many libraries import it, and the  *)
(* export lists that do_load_library appends in place still end.           *)
BodyRunsOnce ==
  Clean => \A e \in DOMAIN libs :
    /\ libs[e].ran <= Cardinality({i \in DOMAIN Decl[libs[e].name] : Decl[libs[e].name][i].kind = "begin"})
    /\ \A i \in DOMAIN libs[e].next : ListEnds(libs[e].next, i)

(* doc/navii.1: "each DIRECTORY will be searched in the order given": a    *)
(* library that was read came from the first of them that has it.          *)
ReadInOrder ==
  \A e \in DOMAIN libs : libs[e].dir # "prompt" =>
    LET given == Append(Options, DataDir)
    IN  \E i \in DOMAIN given :
          given[i] = libs[e].dir /\ \A j \in 1 .. i - 1 : given[j] \notin File[libs[e].name]

Bindings(scope) == {<<n, scope[n]>> : n \in DOMAIN scope}
Replaced(old, new) == new \cup {b \in old : \A c \in new : c[1] # b[1]}

SetIsDone == Found /\ Len(stack') = Depth /\ stack'[Depth].pos > Top.pos

(* However import sets are nested, and whatever the libraries they name    *)
(* have imported and export again, a set adds to the names of the importer *)
(* exactly those R7RS says, each with the object that the library has for  *)
(* it; the other scopes stay as they are, also when the import fails.  It  *)
(* is meant that names that are renamed are there and new ones are free.   *)
ImportsAsMeant ==
  [][ /\ SetIsDone /\ libs[Top.entry].intact
         /\ Orderly(libs[Top.entry].env, Exports(Top.entry), Set.mods)
         => Bindings(stack'[Depth - 1].scope) =
              Replaced(Bindings(stack[Depth - 1].scope),
                       Meaning(libs[Top.entry].env, Exports(Top.entry), Set.mods))
      /\ \A i \in (1 .. Depth - 1) \cap DOMAIN stack' :
           stack[i].kind # "import" /\ ~(SetIsDone /\ i = Depth - 1)
           => stack'[i].scope = stack[i].scope ]_vars

(* When no error leaves them, imports return to the prompt. *)
ImportsReturn == Clean /\ ~Idle ~> Idle
=============================================================================
